---------------------------- MODULE EmissionProofs ----------------------------
(***************************************************************************)
(* Theorems about Emission: when dollops are made no instruction has two   *)
(* predecessors by fallthrough, what is written for an entry is as long as *)
(* what was reserved for it, and when all is written control goes where    *)
(* the transforms left it, for every number of instructions, every program *)
(* and every order of dollops.                                             *)
(***************************************************************************)
EXTENDS Emission, FiniteSetTheorems, SequenceTheorems, WellFoundedInduction, TLAPS

(* The program between the repairs.  Before the second one all falls       *)
(* and jumps to instructions of the source, and what Zipr may add is not   *)
(* there yet; before the third the hlt falls into its jump, which nothing  *)
(* else does.                                                              *)
ProgType ==
    /\ prog \in [op : [Node -> Kinds \cup {"hlt", "none"}], prefix : [Node -> Nat],
                 ft : [Node -> Node \cup {None}], target : [Node -> Node \cup {None}],
                 pin : [Node -> Nat \cup {None}], plopped : SUBSET Node]
    /\ \A i \in Node : prog.op[i] \notin Branch => prog.target[i] = None
    /\ \A i \in Node \ Original : prog.prefix[i] = 0

AsLifted ==
    pc \in {"prefixes", "fallthroughs"} =>
        \A i \in Node : /\ prog.ft[i] \in Original \cup {None}
                        /\ i \notin Original => prog.op[i] = "none" /\ prog.ft[i] = None

AsRepaired ==
    pc = "multiple" =>
        /\ \A i \in Original : prog.ft[i] \in Original \cup {hlt, None}
        /\ prog.ft[hlt] = jmp /\ prog.ft[jmp] = None
        /\ \A i \in Original : prog.op[JumpBehind(i)] = "none" /\ prog.ft[JumpBehind(i)] = None

NoPrefixes ==
    pc # "prefixes" => \A i \in Node : prog.op[i] \in Branch => prog.prefix[i] = 0

NothingLacks ==
    pc \notin {"prefixes", "fallthroughs"} =>
        \A i \in Node : /\ prog.op[i] \in Jcc => prog.ft[i] # None
                        /\ prog.op[i] \in Branch => prog.target[i] # None

(* One predecessor by fallthrough, put so that no cardinality is needed.   *)
FallsOnce ==
    pc \notin {"prefixes", "fallthroughs", "multiple"} =>
        \A i, j \in Node : prog.ft[i] # None /\ prog.ft[i] = prog.ft[j] => i = j

(* A dollop whose entries have places: when its last one is no appended    *)
(* jump, the dollop it falls into has one too.                             *)
PlacedDollop(d) ==
    /\ d.entries \in Seq(Entry) /\ Len(d.entries) > 0
    /\ \A k \in 1 .. Len(d.entries) : place[d.entries[k]] \in Nat
    /\ LET last == d.entries[Len(d.entries)]
       IN  last \in Node =>
              /\ d.fallthrough = prog.ft[last]
              /\ d.fallthrough # None => place[d.fallthrough] \in Nat

InDollop(e) == \E d \in ToSet(layout) : e \in ToSet(d.entries)

AllPlaced ==
    pc = "write" =>
        /\ \A d \in ToSet(layout) : PlacedDollop(d)
        /\ todo \in Seq(Entry) /\ \A k \in 1 .. Len(todo) : InDollop(todo[k])

IInv ==
    /\ pc \in {"prefixes", "fallthroughs", "multiple", "place", "write"}
    /\ ProgType /\ AsLifted /\ AsRepaired /\ NoPrefixes /\ NothingLacks /\ FallsOnce
    /\ AllPlaced
-----------------------------------------------------------------------------
(* The least-number principle, for sets, and induction from it.            *)
LEMMA Least ==
    ASSUME NEW T \in SUBSET Nat, T # {}
    PROVE  \E m \in T : \A k \in T : m <= k
<1>1. PICK m \in T : \A k \in T : ~ (<<k, m>> \in OpToRel(<, Nat))
  BY NatLessThanWellFounded, WFMin
<1>2. ASSUME NEW k \in T, k < m
      PROVE  FALSE
  <2>1. <<k, m>> \in Nat \X Nat /\ <<k, m>>[1] < <<k, m>>[2]
    BY <1>2
  <2>2. <<k, m>> \in OpToRel(<, Nat)
    BY <2>1 DEF OpToRel
  <2>3. QED
    BY <1>1, <2>2
<1>3. QED
  BY <1>2

LEMMA UpTo ==
    ASSUME NEW b \in Nat, NEW n \in Nat, NEW T,
           b \in T,
           \A k \in b .. n : k + 1 \in b .. n /\ k \in T => k + 1 \in T
    PROVE  b .. n \subseteq T
<1> DEFINE Bad == {k \in b .. n : k \notin T}
<1> SUFFICES ASSUME Bad # {} PROVE FALSE
  OBVIOUS
<1>1. Bad \in SUBSET Nat
  OBVIOUS
<1>2. PICK m \in Bad : \A k \in Bad : m <= k
  BY <1>1, Least
<1>3. m - 1 \in b .. n /\ m - 1 \notin Bad
  BY <1>2
<1>4. (m - 1) + 1 = m
  BY <1>2
<1>5. QED
  BY <1>3, <1>4

(* A recursive function of a number is what its equation says: there is a  *)
(* function that satisfies the equation, for any step G that stays in S.   *)
Iterates(f, S, a, b, n, G) ==
    /\ f \in [b .. n -> S]
    /\ \A k \in b .. n : f[k] = IF k = b THEN a ELSE G[<<k, f[k - 1]>>]

LEMMA IterationExists ==
    ASSUME NEW S, NEW a \in S, NEW b \in {0, 1}, NEW n \in Nat, NEW G \in [Nat \X S -> S]
    PROVE  \E f : Iterates(f, S, a, b, n, G)
<1> DEFINE Solves(f, m) == \A k \in b .. m : f[k] = IF k = b THEN a ELSE G[<<k, f[k - 1]>>]
           T == {m \in Nat : \E f \in [b .. m -> S] : Solves(f, m)}
<1>1. b \in T
  <2>1. [k \in b .. b |-> a] \in [b .. b -> S] /\ Solves([k \in b .. b |-> a], b)
    OBVIOUS
  <2>2. b \in Nat
    OBVIOUS
  <2>3. \E f \in [b .. b -> S] : Solves(f, b)
    BY <2>1
  <2> HIDE DEF Solves
  <2> QED BY <2>2, <2>3
<1>2. ASSUME NEW m \in b .. n, m \in T PROVE m + 1 \in T
  <2>1. PICK f \in [b .. m -> S] : Solves(f, m)
    BY <1>2
  <2> DEFINE g == [k \in b .. m + 1 |-> IF k = m + 1 THEN G[<<m + 1, f[m]>>] ELSE f[k]]
  <2>2. f[m] \in S /\ m + 1 \in Nat
    OBVIOUS
  <2>3. g \in [b .. m + 1 -> S]
    BY <2>2
  <2>4. ASSUME NEW k \in b .. m + 1
        PROVE  g[k] = IF k = b THEN a ELSE G[<<k, g[k - 1]>>]
    <3>1. CASE k = m + 1
      <4>1. g[k] = G[<<k, f[m]>>] /\ k # b /\ k - 1 = m /\ m \in b .. m + 1
        BY <3>1
      <4>2. g[m] = f[m]
        BY <4>1
      <4> HIDE DEF g
      <4> QED BY <4>1, <4>2
    <3>2. CASE k # m + 1
      <4>1. k \in b .. m /\ g[k] = f[k]
        BY <3>2
      <4>2. k # b => g[k - 1] = f[k - 1]
        BY <4>1
      <4> HIDE DEF g
      <4> QED BY <2>1, <4>1, <4>2
    <3> QED BY <3>1, <3>2
  <2>5. Solves(g, m + 1)
    BY <2>4
  <2> HIDE DEF g
  <2> QED BY <2>2, <2>3, <2>5
<1>3. CASE n >= b
  <2>1. b \in Nat
    OBVIOUS
  <2>2. b .. n \subseteq T
    <3> HIDE DEF T
    <3> QED BY <1>1, <1>2, <2>1, UpTo
  <2>3. n \in T
    <3> HIDE DEF T
    <3> QED BY <1>3, <2>2
  <2>4. PICK f \in [b .. n -> S] : Solves(f, n)
    BY <2>3
  <2> QED BY <2>4 DEF Iterates
<1>4. CASE n < b
  <2>1. b .. n = {}
    BY <1>4
  <2>2. [k \in b .. n |-> a] \in [b .. n -> S]
    OBVIOUS
  <2> QED BY <2>1, <2>2 DEF Iterates
<1> QED BY <1>3, <1>4

(* FlattenSeq joins sequences: what is in it is what is in one of them.    *)
LEMMA Concatenated ==
    ASSUME NEW S, NEW s \in Seq(S), NEW t \in Seq(S)
    PROVE  s \o t \in Seq(S) /\ ToSet(s \o t) = ToSet(s) \cup ToSet(t)
<1>1. /\ s \o t \in Seq(S) /\ Len(s \o t) = Len(s) + Len(t)
      /\ \A k \in 1 .. Len(s) + Len(t) :
            (s \o t)[k] = IF k <= Len(s) THEN s[k] ELSE t[k - Len(s)]
  BY ConcatProperties
<1>2. Len(s) \in Nat /\ Len(t) \in Nat
  OBVIOUS
<1>3. ASSUME NEW k \in 1 .. Len(s) PROVE (s \o t)[k] = s[k] /\ k \in 1 .. Len(s \o t)
  BY <1>1, <1>2
<1>4. ASSUME NEW k \in 1 .. Len(t)
      PROVE  (s \o t)[k + Len(s)] = t[k] /\ k + Len(s) \in 1 .. Len(s \o t)
  BY <1>1, <1>2
<1>5. ASSUME NEW k \in 1 .. Len(s \o t) PROVE (s \o t)[k] \in ToSet(s) \cup ToSet(t)
  <2>1. CASE k <= Len(s)
    BY <1>1, <1>2, <2>1 DEF ToSet
  <2>2. CASE ~ (k <= Len(s))
    <3>1. k - Len(s) \in 1 .. Len(t) /\ (s \o t)[k] = t[k - Len(s)]
      BY <1>1, <1>2, <2>2
    <3> QED BY <3>1 DEF ToSet
  <2> QED BY <2>1, <2>2
<1>6. DOMAIN (s \o t) = 1 .. Len(s \o t) /\ DOMAIN s = 1 .. Len(s) /\ DOMAIN t = 1 .. Len(t)
  BY <1>1
<1>7. ToSet(s \o t) \subseteq ToSet(s) \cup ToSet(t)
  BY <1>5, <1>6 DEF ToSet
<1>8. ToSet(s) \subseteq ToSet(s \o t)
  BY <1>3, <1>6 DEF ToSet
<1>9. ToSet(t) \subseteq ToSet(s \o t)
  BY <1>4, <1>6 DEF ToSet
<1> QED BY <1>1, <1>7, <1>8, <1>9

LEMMA Flattened ==
    ASSUME NEW S, NEW s \in Seq(Seq(S))
    PROVE  /\ FlattenSeq(s) \in Seq(S)
           /\ ToSet(FlattenSeq(s)) = UNION {ToSet(s[k]) : k \in 1 .. Len(s)}
<1> DEFINE Step(f) == [i \in 1 .. Len(s) |-> IF i = 1 THEN s[i] ELSE f[i - 1] \o s[i]]
           F == CHOOSE f : f = Step(f)
           Upto(n) == UNION {ToSet(s[k]) : k \in 1 .. n}
<1>1. Len(s) \in Nat /\ \A k \in 1 .. Len(s) : s[k] \in Seq(S)
  OBVIOUS
<1>2. CASE Len(s) = 0
  <2>1. s = <<>> /\ FlattenSeq(s) = <<>>
    BY <1>2 DEF FlattenSeq
  <2>2. FlattenSeq(s) \in Seq(S) /\ ToSet(FlattenSeq(s)) = {}
    <3>1. <<>> \in Seq(S) /\ DOMAIN s = {}
      BY <1>2
    <3>2. FlattenSeq(s) = s
      BY <2>1
    <3> QED BY <2>1, <3>1, <3>2 DEF ToSet
  <2>3. UNION {ToSet(s[k]) : k \in 1 .. Len(s)} = {}
    BY <1>2
  <2> QED BY <2>2, <2>3
<1>3. CASE Len(s) # 0
  <2>1. 1 \in 1 .. Len(s) /\ s[1] \in Seq(S)
    BY <1>1, <1>3
  <2> DEFINE G == [p \in Nat \X Seq(S) |-> IF p[1] \in 1 .. Len(s) THEN p[2] \o s[p[1]] ELSE p[2]]
  <2>2. ASSUME NEW k \in Nat, NEW t \in Seq(S) PROVE G[<<k, t>>] \in Seq(S)
    <3>1. G[<<k, t>>] = IF k \in 1 .. Len(s) THEN t \o s[k] ELSE t
      OBVIOUS
    <3> HIDE DEF G
    <3> QED BY <1>1, <3>1, Concatenated
  <2>3. G \in [Nat \X Seq(S) -> Seq(S)]
    <3>1. \A p \in Nat \X Seq(S) : G[p] \in Seq(S)
      <4> HIDE DEF G
      <4> QED BY <2>2
    <3> QED BY <3>1
  <2>4. PICK f : Iterates(f, Seq(S), s[1], 1, Len(s), G)
    <3> HIDE DEF G
    <3> QED BY <1>1, <2>1, <2>3, IterationExists
  <2>5. ASSUME NEW k \in 1 .. Len(s)
        PROVE  f[k] = IF k = 1 THEN s[k] ELSE f[k - 1] \o s[k]
    <3>1. CASE k = 1
      BY <2>4, <3>1 DEF Iterates
    <3>2. CASE k # 1
      <4>1. k \in Nat /\ k - 1 \in 1 .. Len(s) /\ f[k - 1] \in Seq(S)
        <5>1. k \in Nat /\ k - 1 \in 1 .. Len(s)
          BY <1>1, <3>2
        <5> QED BY <2>4, <5>1 DEF Iterates
      <4>2. f[k] = G[<<k, f[k - 1]>>]
        <5> HIDE DEF G
        <5> QED BY <2>4, <3>2 DEF Iterates
      <4>3. G[<<k, f[k - 1]>>] = f[k - 1] \o s[k]
        BY <4>1
      <4> QED BY <3>2, <4>2, <4>3
    <3> QED BY <3>1, <3>2
  <2>6. f = Step(f)
    <3>1. f = [k \in 1 .. Len(s) |-> f[k]]
      BY <2>4 DEF Iterates
    <3> QED BY <2>5, <3>1
  <2>7. F = Step(F)
    <3> HIDE DEF Step
    <3> QED BY <2>6
  <2>8. FlattenSeq(s) = F[Len(s)]
    BY <1>3 DEF FlattenSeq
  <2> HIDE DEF F
  <2>9. \A k \in 1 .. Len(s) : F[k] = IF k = 1 THEN s[k] ELSE F[k - 1] \o s[k]
    BY <2>7
  <2> HIDE DEF Step
  <2> DEFINE T == {k \in 1 .. Len(s) : F[k] \in Seq(S) /\ ToSet(F[k]) = Upto(k)}
  <2>10. 1 \in T
    <3>1. F[1] = s[1]
      BY <2>1, <2>9
    <3>2. Upto(1) = ToSet(s[1])
      OBVIOUS
    <3> QED BY <2>1, <3>1, <3>2
  <2>11. ASSUME NEW k \in 1 .. Len(s), k + 1 \in 1 .. Len(s), k \in T PROVE k + 1 \in T
    <3>1. F[k + 1] = F[k] \o s[k + 1]
      <4>1. k + 1 # 1 /\ (k + 1) - 1 = k
        OBVIOUS
      <4> QED BY <2>9, <2>11, <4>1
    <3>2. F[k] \in Seq(S) /\ s[k + 1] \in Seq(S)
      BY <1>1, <2>11
    <3>3. F[k + 1] \in Seq(S) /\ ToSet(F[k + 1]) = ToSet(F[k]) \cup ToSet(s[k + 1])
      BY <3>1, <3>2, Concatenated
    <3>4. 1 .. k + 1 = 1 .. k \cup {k + 1}
      OBVIOUS
    <3>5. Upto(k + 1) = Upto(k) \cup ToSet(s[k + 1])
      BY <3>4
    <3> QED BY <2>11, <3>3, <3>5
  <2>12. 1 .. Len(s) \subseteq T
    <3> HIDE DEF T
    <3> QED BY <1>1, <2>10, <2>11, UpTo
  <2>13. Len(s) \in T
    <3>1. Len(s) \in 1 .. Len(s)
      BY <1>1, <1>3
    <3> HIDE DEF T
    <3> QED BY <2>12, <3>1
  <2> QED BY <2>8, <2>13
<1> QED BY <1>2, <1>3

-----------------------------------------------------------------------------
(* What dollops are made of.                                               *)
LEMMA NodesFinite == IsFiniteSet(Node)
<1>1. 2 * N + 2 \in Int /\ 1 \in Int
  BY SizesAssumption
<1>2. IsFiniteSet(1 .. 2 * N + 2)
  BY <1>1, FS_Interval
<1> QED BY <1>2 DEF Node

LEMMA NodeCount == Cardinality(Node) \in Nat
  BY NodesFinite, FS_CardinalityType

(* The sums that make addresses of entries are numbers.                    *)
Sums(entries) ==
    LET at[k \in DOMAIN entries] ==
            IF k = 1 THEN 100 ELSE at[k - 1] + DetermineDollopEntrySize(entries[k - 1])
    IN  at

LEMMA SumsAreNumbers ==
    ASSUME NEW s \in Seq(Entry),
           \A e \in Entry : DetermineDollopEntrySize(e) \in Nat
    PROVE  \A k \in 1 .. Len(s) :
              /\ Sums(s)[k] \in Nat
              /\ Sums(s)[k] = IF k = 1 THEN 100
                              ELSE Sums(s)[k - 1] + DetermineDollopEntrySize(s[k - 1])
<1> DEFINE C == Len(s)
           Step(f) == [k \in DOMAIN s |-> IF k = 1 THEN 100
                                          ELSE f[k - 1] + DetermineDollopEntrySize(s[k - 1])]
           at == CHOOSE f : f = Step(f)
           Size(k) == IF k \in 2 .. C THEN DetermineDollopEntrySize(s[k - 1]) ELSE 0
           G == [p \in Nat \X Nat |-> p[2] + Size(p[1])]
<1>1. C \in Nat /\ DOMAIN s = 1 .. C
  OBVIOUS
<1>2. \A k \in Nat : Size(k) \in Nat
  <2>1. \A k \in 2 .. C : k - 1 \in 1 .. C /\ s[k - 1] \in Entry
    BY <1>1
  <2> QED BY <2>1
<1> HIDE DEF C
<1>3. G \in [Nat \X Nat -> Nat]
  <2> HIDE DEF Size
  <2>1. \A p \in Nat \X Nat : p[1] \in Nat /\ p[2] \in Nat
    OBVIOUS
  <2>2. \A p \in Nat \X Nat : p[2] + Size(p[1]) \in Nat
    <3>1. ASSUME NEW m \in Nat, NEW n \in Nat PROVE m + Size(n) \in Nat
      <4>1. Size(n) \in Nat
        BY <1>2
      <4> QED BY <4>1
    <3> QED BY <2>1, <3>1
  <2> QED BY <2>2
<1>4. PICK f : Iterates(f, Nat, 100, 1, C, G)
  <2> HIDE DEF G
  <2> QED BY <1>1, <1>3, IterationExists
<1>5. f = Step(f)
  <2>1. f = [k \in 1 .. C |-> f[k]]
    BY <1>4 DEF Iterates
  <2>2. ASSUME NEW k \in 1 .. C
        PROVE  f[k] = IF k = 1 THEN 100 ELSE f[k - 1] + DetermineDollopEntrySize(s[k - 1])
    <3>1. CASE k = 1
      BY <1>4, <3>1 DEF Iterates
    <3>2. CASE k # 1
      <4>1. k - 1 \in 1 .. C /\ k \in Nat /\ k \in 2 .. C
        BY <1>1, <3>2
      <4>2. f[k - 1] \in Nat
        BY <1>4, <4>1 DEF Iterates
      <4>3. f[k] = G[<<k, f[k - 1]>>]
        <5> HIDE DEF G
        <5> QED BY <1>4, <3>2 DEF Iterates
      <4>4. G[<<k, f[k - 1]>>] = f[k - 1] + Size(k)
        <5> HIDE DEF Size
        <5> QED BY <4>1, <4>2
      <4> HIDE DEF G
      <4> QED BY <3>2, <4>1, <4>3, <4>4
    <3> QED BY <3>1, <3>2
  <2>3. f = [k \in 1 .. C |-> IF k = 1 THEN 100
                              ELSE f[k - 1] + DetermineDollopEntrySize(s[k - 1])]
    BY <2>1, <2>2, Zenon
  <2> QED BY <1>1, <2>3
<1>6. at = Step(at)
  <2> HIDE DEF Step
  <2> QED BY <1>5
<1>7. Sums(s) = at
  BY DEF Sums
<1> HIDE DEF at
<1> DEFINE T == {k \in 1 .. C : at[k] \in Nat}
<1>12. ASSUME NEW k \in 1 .. C
       PROVE  at[k] = IF k = 1 THEN 100 ELSE at[k - 1] + DetermineDollopEntrySize(s[k - 1])
  BY <1>1, <1>6
<1>8. \A k \in 1 .. C : at[k] = IF k = 1 THEN 100 ELSE at[k - 1] + Size(k)
  <2>1. ASSUME NEW k \in 1 .. C
        PROVE  at[k] = IF k = 1 THEN 100 ELSE at[k - 1] + DetermineDollopEntrySize(s[k - 1])
    BY <1>12
  <2>2. ASSUME NEW k \in 1 .. C, k # 1 PROVE Size(k) = DetermineDollopEntrySize(s[k - 1])
    BY <1>1, <2>2
  <2> HIDE DEF Size
  <2> QED BY <2>1, <2>2
<1> HIDE DEF Size
<1>9. ASSUME NEW k \in 1 .. C, k + 1 \in 1 .. C, k \in T PROVE k + 1 \in T
  <2>1. k + 1 # 1 /\ (k + 1) - 1 = k /\ k + 1 \in Nat
    OBVIOUS
  <2>2. at[k + 1] = at[k] + Size(k + 1)
    BY <1>8, <1>9, <2>1
  <2>3. at[k] \in Nat /\ Size(k + 1) \in Nat
    BY <1>2, <1>9, <2>1
  <2>4. at[k + 1] \in Nat
    BY <2>2, <2>3
  <2> QED BY <1>9, <2>4
<1>10. C >= 1 => 1 \in T
  BY <1>1, <1>8
<1>11. 1 .. C \subseteq T
  <2> HIDE DEF T
  <2>1. CASE C >= 1
    BY <1>1, <1>9, <1>10, <2>1, UpTo
  <2>2. CASE C < 1
    BY <1>1, <2>2
  <2> QED BY <1>1, <2>1, <2>2
<1> QED BY <1>7, <1>11, <1>12 DEF C

-----------------------------------------------------------------------------
(* The repairs.                                                            *)
LEMMA Kind == /\ Branch \subseteq Kinds /\ Jcc \subseteq Branch
              /\ {"jmp8", "jmp32"} \subseteq Branch /\ {"hlt", "none"} \cap Branch = {}
              /\ Branch = Jcc \cup {"jmp8", "jmp32"} /\ Jcc = {"jcc8", "loop", "jcc32"}
              /\ Kinds = {"plain", "callback"} \cup Branch
  BY DEF Kinds, Branch, Jcc

LEMMA Nodes ==
    /\ N \in Nat /\ hlt = N + 1 /\ jmp = N + 2 /\ hlt \in Node /\ jmp \in Node /\ hlt # jmp
    /\ Original \subseteq Node /\ None \notin Node /\ hlt \notin Original /\ jmp \notin Original
    /\ \A i \in Original : /\ JumpBehind(i) \in Node \ (Original \cup {hlt, jmp})
                           /\ JumpBehind(i) - jmp = i
    /\ \A i \in Node \ (Original \cup {hlt, jmp}) : \E j \in Original : i = JumpBehind(j)
    /\ Node \subseteq Entry /\ Node \subseteq Nat /\ None \notin Nat
<1>1. \A i \in Node \ (Original \cup {hlt, jmp}) : i - jmp \in Original /\ i = JumpBehind(i - jmp)
  BY SizesAssumption DEF Node, Original, hlt, jmp, JumpBehind
<1>2. N \in Nat /\ None \notin Int
  BY SizesAssumption
<1>3. \A i \in Original : /\ JumpBehind(i) \in Node \ (Original \cup {hlt, jmp})
                          /\ JumpBehind(i) - jmp = i
  BY <1>2 DEF Node, Original, hlt, jmp, JumpBehind
<1>4. /\ hlt = N + 1 /\ jmp = N + 2 /\ hlt \in Node /\ jmp \in Node /\ hlt # jmp
      /\ Original \subseteq Node /\ hlt \notin Original /\ jmp \notin Original
      /\ Node \subseteq Entry /\ Node \subseteq Nat
  BY <1>2 DEF Node, Entry, Original, hlt, jmp
<1>5. None \notin Node /\ None \notin Nat
  <2>1. \A n \in Nat : n \in Int
    OBVIOUS
  <2>2. None \notin Nat
    BY <1>2, <2>1, Zenon
  <2> QED BY <1>4, <2>2, Zenon
<1> QED BY <1>1, <1>2, <1>3, <1>4, <1>5

LEMMA Starts == Init => IInv
<1> SUFFICES ASSUME Init PROVE IInv
  OBVIOUS
<1>1. Lifted(prog) /\ pc = "prefixes"
  BY ProgramsAssumption DEF Init
<1>2. ProgType
  <2>1. [Node -> Original \cup {None}] \subseteq [Node -> Node \cup {None}]
    BY Nodes
  <2>2. [Node -> Kinds \cup {"none"}] \subseteq [Node -> Kinds \cup {"hlt", "none"}]
    OBVIOUS
  <2>3. prog \in [op : [Node -> Kinds \cup {"none"}], prefix : [Node -> Nat],
                  ft : [Node -> Original \cup {None}], target : [Node -> Original \cup {None}],
                  pin : [Node -> Nat \cup {None}], plopped : SUBSET Node]
    BY <1>1 DEF Lifted
  <2> QED BY <1>1, <2>1, <2>2, <2>3 DEF Lifted, ProgType
<1>3. AsLifted
  BY <1>1 DEF AsLifted, Lifted
<1> QED BY <1>1, <1>2, <1>3 DEF IInv, AsRepaired, NoPrefixes, NothingLacks, FallsOnce, AllPlaced

LEMMA PrefixesFixed ==
    ASSUME IInv, FixTwoByteWithPrefix PROVE IInv'
<1>1. /\ pc = "prefixes" /\ pc' = "fallthroughs"
      /\ prog' = [prog EXCEPT !.prefix = [i \in Node |-> IF prog.op[i] \in Branch THEN 0
                                                         ELSE prog.prefix[i]]]
  BY DEF FixTwoByteWithPrefix, Prepare
<1>2. ProgType /\ AsLifted
  BY DEF IInv
<1>3. /\ prog'.op = prog.op /\ prog'.ft = prog.ft /\ prog'.target = prog.target
      /\ prog'.pin = prog.pin /\ prog'.plopped = prog.plopped
      /\ prog'.prefix = [i \in Node |-> IF prog.op[i] \in Branch THEN 0 ELSE prog.prefix[i]]
  BY <1>1, <1>2 DEF ProgType
<1>4. ProgType'
  <2> DEFINE P == [i \in Node |-> IF prog.op[i] \in Branch THEN 0 ELSE prog.prefix[i]]
  <2>1. P \in [Node -> Nat]
    BY <1>2 DEF ProgType
  <2>2. prog' = [prog EXCEPT !.prefix = P]
    BY <1>1
  <2>3. prog' \in [op : [Node -> Kinds \cup {"hlt", "none"}], prefix : [Node -> Nat],
                   ft : [Node -> Node \cup {None}], target : [Node -> Node \cup {None}],
                   pin : [Node -> Nat \cup {None}], plopped : SUBSET Node]
    <3> HIDE DEF P
    <3> QED BY <1>2, <2>1, <2>2 DEF ProgType
  <2> QED BY <1>2, <1>3, <2>3 DEF ProgType
<1>5. AsLifted'
  BY <1>1, <1>2, <1>3 DEF AsLifted
<1>6. NoPrefixes'
  BY <1>3 DEF NoPrefixes
<1> QED BY <1>1, <1>4, <1>5, <1>6 DEF IInv, AsRepaired, NothingLacks, FallsOnce, AllPlaced

LEMMA FallthroughsFixed ==
    ASSUME IInv, FixNoFallthroughs PROVE IInv'
<1> DEFINE Ops == [prog.op EXCEPT ![hlt] = "hlt", ![jmp] = "jmp32"]
           Falls == [i \in Node |-> CASE i = hlt -> jmp
                                      [] Lacks(i, prog.ft, Jcc) -> hlt
                                      [] OTHER -> prog.ft[i]]
           Targets == [i \in Node |-> CASE i = jmp -> hlt
                                        [] Lacks(i, prog.target, Branch) -> hlt
                                        [] OTHER -> prog.target[i]]
<1>1. /\ pc = "fallthroughs" /\ pc' = "multiple"
      /\ prog' = [prog EXCEPT !.op = Ops, !.ft = Falls, !.target = Targets]
  BY DEF FixNoFallthroughs, Prepare
<1>2. ProgType /\ AsLifted /\ NoPrefixes
  BY DEF IInv
<1>3. ASSUME NEW i \in Node
      PROVE  /\ Ops[i] = IF i = hlt THEN "hlt" ELSE IF i = jmp THEN "jmp32" ELSE prog.op[i]
             /\ Falls[i] = IF i = hlt THEN jmp
                           ELSE IF i \in Original /\ prog.ft[i] = None /\ prog.op[i] \in Jcc THEN hlt
                           ELSE prog.ft[i]
             /\ Targets[i] = IF i = jmp THEN hlt
                             ELSE IF i \in Original /\ prog.target[i] = None /\ prog.op[i] \in Branch
                             THEN hlt ELSE prog.target[i]
  <2>1. Ops[i] = IF i = hlt THEN "hlt" ELSE IF i = jmp THEN "jmp32" ELSE prog.op[i]
    BY <1>2, Nodes DEF ProgType
  <2>2. hlt \notin Original /\ jmp \notin Original
    BY Nodes
  <2> QED BY <2>1, <2>2 DEF Lacks
<1>4. Ops \in [Node -> Kinds \cup {"hlt", "none"}]
  <2>1. "jmp32" \in Kinds
    BY Kind
  <2> QED BY <1>2, <2>1 DEF ProgType
<1>5. Falls \in [Node -> Node \cup {None}] /\ Targets \in [Node -> Node \cup {None}]
  <2>1. \A i \in Node : Falls[i] \in Node \cup {None} /\ Targets[i] \in Node \cup {None}
    <3> HIDE DEF Falls, Targets
    <3> QED BY <1>2, <1>3, Nodes DEF ProgType
  <2> QED BY <2>1
<1> HIDE DEF Ops, Falls, Targets
<1>6. /\ prog'.op = Ops /\ prog'.ft = Falls /\ prog'.target = Targets /\ prog'.prefix = prog.prefix
      /\ prog' \in [op : [Node -> Kinds \cup {"hlt", "none"}], prefix : [Node -> Nat],
                    ft : [Node -> Node \cup {None}], target : [Node -> Node \cup {None}],
                    pin : [Node -> Nat \cup {None}], plopped : SUBSET Node]
  BY <1>1, <1>2, <1>4, <1>5 DEF ProgType
<1>7. ASSUME NEW i \in Node
      PROVE  /\ Ops[i] \notin Branch => Targets[i] = None
             /\ i \notin Original => prog.prefix[i] = 0
             /\ Ops[i] \in Branch => prog.prefix[i] = 0
             /\ Ops[i] \in Jcc => Falls[i] # None
             /\ Ops[i] \in Branch => Targets[i] # None
  <2>1. /\ prog.op[i] \notin Branch => prog.target[i] = None
        /\ i \notin Original => prog.prefix[i] = 0
        /\ prog.op[i] \in Branch => prog.prefix[i] = 0
        /\ i \notin Original => prog.op[i] = "none"
    BY <1>1, <1>2 DEF ProgType, NoPrefixes, AsLifted
  <2>2. hlt # None /\ jmp # None /\ hlt # jmp /\ hlt \notin Original /\ jmp \notin Original
    BY Nodes
  <2>3. "hlt" \notin Branch /\ "none" \notin Branch /\ "jmp32" \in Branch /\ "hlt" \notin Jcc
        /\ "jmp32" \notin Jcc /\ "none" \notin Jcc /\ Jcc \subseteq Branch
    BY Kind
  <2> QED BY <1>3, <2>1, <2>2, <2>3
<1>8. ProgType'
  BY <1>6, <1>7 DEF ProgType
<1>9. AsRepaired'
  <2>1. ASSUME NEW i \in Original
        PROVE  /\ Falls[i] \in Original \cup {hlt, None}
               /\ Ops[JumpBehind(i)] = "none" /\ Falls[JumpBehind(i)] = None
    <3>1. JumpBehind(i) \in Node \ (Original \cup {hlt, jmp}) /\ i \in Node
      BY Nodes
    <3>2. prog.ft[i] \in Original \cup {None} /\ prog.op[JumpBehind(i)] = "none"
          /\ prog.ft[JumpBehind(i)] = None
      BY <1>1, <1>2, <3>1 DEF AsLifted
    <3> QED BY <1>3, <3>1, <3>2, Nodes
  <2>2. prog.ft[jmp] = None /\ hlt \in Node /\ jmp \in Node /\ jmp # hlt /\ jmp \notin Original
    BY <1>1, <1>2, Nodes DEF AsLifted
  <2>3. Falls[hlt] = jmp /\ Falls[jmp] = None
    BY <1>3, <2>2
  <2> QED BY <1>6, <2>1, <2>3 DEF AsRepaired
<1>10. NoPrefixes' /\ NothingLacks'
  BY <1>6, <1>7 DEF NoPrefixes, NothingLacks
<1> QED BY <1>1, <1>8, <1>9, <1>10 DEF IInv, AsLifted, FallsOnce, AllPlaced

(* Of those that fall into the same instruction one keeps it.              *)
LEMMA OneKeeps ==
    ASSUME NEW S \in SUBSET Node, Cardinality(S) = 1
    PROVE  S # {} /\ \A x, y \in S : x = y
<1>1. IsFiniteSet(S)
  BY NodesFinite, FS_Subset
<1> QED BY <1>1, FS_Singleton

LEMMA MultipleFixed ==
    ASSUME IInv, FixMultipleFallthroughs PROVE IInv'
<1>1. ProgType /\ AsRepaired /\ NoPrefixes /\ NothingLacks /\ pc = "multiple" /\ pc' = "place"
  BY DEF IInv, FixMultipleFallthroughs, Prepare
<1> DEFINE Jumps(K, i) == prog.ft[i] # None /\ i \notin K
           New(K, n)   == \E i \in Original : n = JumpBehind(i) /\ Jumps(K, i)
           Ops(K)   == [n \in Node |-> IF New(K, n) THEN "jmp32" ELSE prog.op[n]]
           Falls(K) == [n \in Node |-> IF Jumps(K, n) THEN JumpBehind(n) ELSE prog.ft[n]]
           Targets(K) == [n \in Node |-> IF New(K, n) THEN prog.ft[n - jmp] ELSE prog.target[n]]
<1>2. PICK keeps \in SUBSET {i \in Node : prog.ft[i] # None} :
         /\ \A f \in Node : FallsInto(f) # {} => Cardinality(keeps \cap FallsInto(f)) = 1
         /\ prog' = [prog EXCEPT !.op = Ops(keeps), !.ft = Falls(keeps), !.target = Targets(keeps)]
  BY DEF FixMultipleFallthroughs, Prepare
<1> DEFINE J(i) == Jumps(keeps, i)
           W(n) == New(keeps, n)
           O == Ops(keeps)
           F == Falls(keeps)
           T == Targets(keeps)
<1>3. prog' = [prog EXCEPT !.op = O, !.ft = F, !.target = T]
  BY <1>2
<1>4. \A i \in Node : prog.ft[i] \in Node \cup {None}
  BY <1>1 DEF ProgType
<1>5. ASSUME NEW i \in Node, prog.ft[i] # None
      PROVE  /\ \E k \in keeps : prog.ft[k] = prog.ft[i]
             /\ \A k, l \in keeps : prog.ft[k] = prog.ft[i] /\ prog.ft[l] = prog.ft[i] => k = l
  <2> DEFINE f == prog.ft[i]
             S == keeps \cap FallsInto(f)
  <2>1. f \in Node /\ i \in FallsInto(f)
    BY <1>4, <1>5 DEF FallsInto
  <2>2. S \in SUBSET Node /\ Cardinality(S) = 1
    BY <1>2, <2>1 DEF FallsInto
  <2>3. S # {} /\ \A x, y \in S : x = y
    <3> HIDE DEF S
    <3> QED BY <2>2, OneKeeps
  <2>4. \A k \in keeps : prog.ft[k] = f => k \in S
    BY DEF FallsInto
  <2>5. \A k \in S : k \in keeps /\ prog.ft[k] = f
    BY DEF FallsInto
  <2> HIDE DEF S
  <2> QED BY <2>3, <2>4, <2>5
<1>6. ASSUME NEW i \in Node, J(i) PROVE i \in Original /\ prog.ft[i] \in Original \cup {hlt}
  <2>1. prog.ft[i] # None /\ i \notin keeps
    BY <1>6
  <2>2. i # jmp /\ \A j \in Original : i # JumpBehind(j)
    BY <1>1, <2>1 DEF AsRepaired
  <2>3. i # hlt
    <3>1. SUFFICES ASSUME i = hlt PROVE FALSE
      OBVIOUS
    <3>2. PICK k \in keeps : prog.ft[k] = jmp
      BY <1>1, <1>5, <2>1, <3>1 DEF AsRepaired
    <3>3. k \in Node /\ k # hlt /\ k # jmp /\ \A j \in Original : k # JumpBehind(j)
      BY <1>1, <2>1, <3>1, <3>2, Nodes DEF AsRepaired
    <3>4. k \in Original
      BY <3>3, Nodes
    <3>5. prog.ft[k] \in Original \cup {hlt, None}
      BY <1>1, <3>4 DEF AsRepaired
    <3> QED BY <3>2, <3>5, Nodes
  <2>4. i \in Original
    BY <2>2, <2>3, Nodes
  <2> QED BY <1>1, <2>1, <2>4 DEF AsRepaired
<1>7. ASSUME NEW n \in Node, W(n)
      PROVE  /\ n \notin Original /\ n - jmp \in Original /\ n = JumpBehind(n - jmp) /\ J(n - jmp)
             /\ prog.ft[n - jmp] \in Node /\ prog.op[n] = "none" /\ prog.ft[n] = None
  <2>1. PICK i \in Original : n = JumpBehind(i) /\ J(i)
    BY <1>7
  <2>2. n - jmp = i /\ n \in Node \ Original /\ i \in Node
    BY <2>1, Nodes
  <2>3. prog.ft[i] \in Node
    BY <1>4, <2>1, <2>2
  <2>4. prog.op[JumpBehind(i)] = "none" /\ prog.ft[JumpBehind(i)] = None
    BY <1>1 DEF AsRepaired
  <2> HIDE DEF J
  <2> QED BY <2>1, <2>2, <2>3, <2>4
<1>8. ASSUME NEW n \in Node
      PROVE  /\ O[n] = IF W(n) THEN "jmp32" ELSE prog.op[n]
             /\ F[n] = IF J(n) THEN JumpBehind(n) ELSE prog.ft[n]
             /\ T[n] = IF W(n) THEN prog.ft[n - jmp] ELSE prog.target[n]
  OBVIOUS
<1>9. O \in [Node -> Kinds \cup {"hlt", "none"}]
  <2>1. \A n \in Node : O[n] \in Kinds \cup {"hlt", "none"}
    <3> HIDE DEF O, W
    <3> QED BY <1>1, <1>8, Kind DEF ProgType
  <2> HIDE DEF W
  <2> QED BY <2>1
<1>10. F \in [Node -> Node \cup {None}]
  <2>1. ASSUME NEW n \in Node PROVE F[n] \in Node \cup {None}
    <3>1. CASE J(n)
      <4>1. JumpBehind(n) \in Node
        BY <1>6, <3>1, Nodes
      <4> HIDE DEF F, J
      <4> QED BY <1>8, <3>1, <4>1
    <3>2. CASE ~ J(n)
      <4> HIDE DEF F, J
      <4> QED BY <1>4, <1>8, <3>2
    <3> QED BY <3>1, <3>2
  <2> HIDE DEF J
  <2> QED BY <2>1
<1>11. T \in [Node -> Node \cup {None}]
  <2>1. ASSUME NEW n \in Node PROVE T[n] \in Node \cup {None}
    <3> HIDE DEF T, W, J
    <3> QED BY <1>1, <1>7, <1>8 DEF ProgType
  <2> HIDE DEF W
  <2> QED BY <2>1
<1> HIDE DEF O, F, T, W
<1>12. /\ prog'.op = O /\ prog'.ft = F /\ prog'.target = T /\ prog'.prefix = prog.prefix
       /\ prog' \in [op : [Node -> Kinds \cup {"hlt", "none"}], prefix : [Node -> Nat],
                     ft : [Node -> Node \cup {None}], target : [Node -> Node \cup {None}],
                     pin : [Node -> Nat \cup {None}], plopped : SUBSET Node]
  BY <1>1, <1>3, <1>9, <1>10, <1>11 DEF ProgType
<1>13. ASSUME NEW n \in Node
       PROVE  /\ O[n] \notin Branch => T[n] = None
              /\ n \notin Original => prog.prefix[n] = 0
              /\ O[n] \in Branch => prog.prefix[n] = 0
              /\ O[n] \in Jcc => F[n] # None
              /\ O[n] \in Branch => T[n] # None
  <2>1. /\ prog.op[n] \notin Branch => prog.target[n] = None
        /\ n \notin Original => prog.prefix[n] = 0
        /\ prog.op[n] \in Branch => prog.prefix[n] = 0 /\ prog.target[n] # None
        /\ prog.op[n] \in Jcc => prog.ft[n] # None
    BY <1>1 DEF ProgType, NoPrefixes, NothingLacks
  <2>2. "jmp32" \in Branch /\ "jmp32" \notin Jcc
    BY Kind
  <2>3. J(n) => JumpBehind(n) # None
    BY <1>6, Nodes
  <2>4. CASE W(n)
    <3>1. n \notin Original /\ prog.ft[n - jmp] # None
      BY <1>7, <2>4, Nodes
    <3> HIDE DEF J
    <3> QED BY <1>8, <2>1, <2>2, <2>4, <3>1
  <2>5. CASE ~ W(n)
    <3> HIDE DEF J
    <3> QED BY <1>8, <2>1, <2>3, <2>5
  <2> QED BY <2>4, <2>5
<1>14. ProgType'
  BY <1>12, <1>13 DEF ProgType
<1>15. ASSUME NEW m \in Node, NEW n \in Node, F[m] # None, F[m] = F[n]
       PROVE  m = n
  <2>1. CASE J(m) /\ J(n)
    <3>1. m \in Original /\ n \in Original /\ JumpBehind(m) = JumpBehind(n)
      BY <1>6, <1>8, <1>15, <2>1
    <3>2. JumpBehind(m) - jmp = m /\ JumpBehind(n) - jmp = n
      BY <3>1, Nodes
    <3> QED BY <3>1, <3>2
  <2>2. CASE ~ J(m) /\ ~ J(n)
    <3>1. prog.ft[m] # None /\ prog.ft[m] = prog.ft[n]
      BY <1>8, <1>15, <2>2
    <3>2. m \in keeps /\ n \in keeps
      BY <2>2, <3>1
    <3> QED BY <1>5, <3>1, <3>2
  <2>3. ASSUME NEW i \in Node, NEW j \in Node, J(i), ~ J(j), F[i] = F[j] PROVE FALSE
    <3>1. i \in Original /\ JumpBehind(i) = prog.ft[j] /\ JumpBehind(i) # None
      BY <1>6, <1>8, <2>3, Nodes
    <3>2. j \in Original \cup {hlt, jmp} \/ \E k \in Original : j = JumpBehind(k)
      BY Nodes
    <3>3. prog.ft[j] \in Original \cup {hlt, jmp, None}
      BY <1>1, <3>2 DEF AsRepaired
    <3> QED BY <3>1, <3>3, Nodes
  <2>4. CASE J(m) /\ ~ J(n)
    BY <1>15, <2>3, <2>4
  <2>5. CASE ~ J(m) /\ J(n)
    BY <1>15, <2>3, <2>5
  <2> QED BY <2>1, <2>2, <2>4, <2>5
<1>16. FallsOnce'
  BY <1>12, <1>15 DEF FallsOnce
<1>17. NoPrefixes' /\ NothingLacks'
  BY <1>12, <1>13 DEF NoPrefixes, NothingLacks
<1> QED BY <1>1, <1>14, <1>16, <1>17 DEF IInv, AsLifted, AsRepaired, AllPlaced

-----------------------------------------------------------------------------
(* Placement.                                                              *)
LEMMA OpsAre ==
    ASSUME ProgType, NEW e \in Entry
    PROVE  /\ Op(e) \in {"plain", "callback", "hlt", "none", "jcc8", "loop", "jcc32", "jmp8", "jmp32"}
           /\ Prefix(e) \in Nat /\ Opening(e) \in {0, 1}
  BY Kind DEF ProgType, Op, Prefix, Opening

LEMMA SizesAreNumbers ==
    ASSUME ProgType PROVE \A e \in Entry : DetermineDollopEntrySize(e) \in Nat
<1> SUFFICES ASSUME NEW e \in Entry PROVE DetermineDollopEntrySize(e) \in Nat
  OBVIOUS
<1>1. /\ Op(e) \in {"plain", "callback", "hlt", "none", "jcc8", "loop", "jcc32", "jmp8", "jmp32"}
      /\ Prefix(e) \in Nat /\ Opening(e) \in {0, 1}
  BY OpsAre
<1>2. Bits(Op(e), Prefix(e)) \in Nat
  BY <1>1 DEF Bits
<1>3. CALLBACK_TRAMPOLINE_SIZE \in Nat
  BY SizesAssumption
<1>4. DetermineInsnSize(e) \in Nat
  BY <1>1, <1>2, <1>3 DEF DetermineInsnSize
<1> QED BY <1>1, <1>4 DEF DetermineDollopEntrySize

-----------------------------------------------------------------------------
(* Placement: dollops one behind the other.                                *)

(* A sequence without repetitions is no longer than the set is large.      *)
Distinct(s) == \A j, k \in 1 .. Len(s) : s[j] = s[k] => j = k

LEMMA NoLongerThan ==
    ASSUME NEW T, IsFiniteSet(T), NEW s \in Seq(T), Distinct(s)
    PROVE  Len(s) <= Cardinality(T)
<1>1. Len(s) \in Nat /\ s \in [1 .. Len(s) -> T]
  BY LenProperties
<1>2. s \in Injection(1 .. Len(s), T)
  BY <1>1 DEF Distinct, Injection, IsInjective
<1>3. Cardinality(1 .. Len(s)) <= Cardinality(T)
  BY <1>2, FS_Injection
<1>4. Cardinality(1 .. Len(s)) = Len(s)
  <2>1. 1 \in Int /\ Len(s) \in Int
    BY <1>1
  <2>2. Cardinality(1 .. Len(s)) = IF 1 > Len(s) THEN 0 ELSE Len(s) - 1 + 1
    BY <2>1, FS_Interval
  <2> QED BY <1>1, <2>2
<1> QED BY <1>3, <1>4

(* y comes right behind x in s.                                            *)
Follows(s, x, y) == \E n \in 1 .. Len(s) : n + 1 \in 1 .. Len(s) /\ s[n] = x /\ s[n + 1] = y

LEMMA JoinedFollow ==
    ASSUME NEW S, NEW s \in Seq(S), NEW t \in Seq(S)
    PROVE  /\ \A x, y : Follows(s, x, y) => Follows(s \o t, x, y)
           /\ \A x, y : Follows(t, x, y) => Follows(s \o t, x, y)
           /\ Len(s) > 0 /\ Len(t) > 0 => /\ Follows(s \o t, Last(s), t[1])
                                          /\ Last(s \o t) = Last(t)
<1> DEFINE u == s \o t
<1>1. /\ u \in Seq(S) /\ Len(u) = Len(s) + Len(t)
      /\ \A k \in 1 .. Len(s) + Len(t) : u[k] = IF k <= Len(s) THEN s[k] ELSE t[k - Len(s)]
  BY ConcatProperties
<1>2. Len(s) \in Nat /\ Len(t) \in Nat
  OBVIOUS
<1> SUFFICES /\ \A x, y : Follows(s, x, y) => Follows(u, x, y)
             /\ \A x, y : Follows(t, x, y) => Follows(u, x, y)
             /\ Len(s) > 0 /\ Len(t) > 0 => Follows(u, Last(s), t[1]) /\ Last(u) = Last(t)
  OBVIOUS
<1> HIDE DEF u
<1>3. ASSUME NEW x, NEW y, Follows(s, x, y) PROVE Follows(u, x, y)
  <2>1. PICK n \in 1 .. Len(s) : n + 1 \in 1 .. Len(s) /\ s[n] = x /\ s[n + 1] = y
    BY <1>3 DEF Follows
  <2>2. n \in 1 .. Len(u) /\ n + 1 \in 1 .. Len(u) /\ u[n] = x /\ u[n + 1] = y
    BY <1>1, <1>2, <2>1
  <2> QED BY <2>2 DEF Follows
<1>4. ASSUME NEW x, NEW y, Follows(t, x, y) PROVE Follows(u, x, y)
  <2>1. PICK n \in 1 .. Len(t) : n + 1 \in 1 .. Len(t) /\ t[n] = x /\ t[n + 1] = y
    BY <1>4 DEF Follows
  <2> DEFINE m == n + Len(s)
  <2>2. /\ m \in 1 .. Len(s) + Len(t) /\ m + 1 \in 1 .. Len(s) + Len(t)
        /\ ~ (m <= Len(s)) /\ ~ (m + 1 <= Len(s)) /\ m - Len(s) = n /\ (m + 1) - Len(s) = n + 1
    BY <1>2, <2>1
  <2> HIDE DEF m
  <2>3. u[m] = x /\ u[m + 1] = y
    BY <1>1, <2>1, <2>2
  <2> QED BY <1>1, <2>2, <2>3 DEF Follows
<1>5. ASSUME Len(s) > 0, Len(t) > 0 PROVE Follows(u, Last(s), t[1]) /\ Last(u) = Last(t)
  <2> DEFINE m == Len(s)
             n == Len(s) + Len(t)
  <2>1. /\ m \in 1 .. Len(u) /\ m + 1 \in 1 .. Len(u) /\ m <= Len(s)
        /\ ~ (m + 1 <= Len(s)) /\ (m + 1) - Len(s) = 1
        /\ n \in 1 .. Len(u) /\ ~ (n <= Len(s)) /\ n - Len(s) = Len(t)
    BY <1>1, <1>2, <1>5
  <2>2. u[m] = s[Len(s)] /\ u[m + 1] = t[1] /\ u[n] = t[Len(t)]
    BY <1>1, <2>1
  <2>3. Len(u) = n
    BY <1>1
  <2> QED BY <2>1, <2>2, <2>3 DEF Follows, Last
<1> QED BY <1>3, <1>4, <1>5

LEMMA JoinedDistinct ==
    ASSUME NEW S, NEW s \in Seq(S), NEW t \in Seq(S), Distinct(s), Distinct(t),
           \A j \in 1 .. Len(s) : \A k \in 1 .. Len(t) : s[j] # t[k]
    PROVE  Distinct(s \o t)
<1> DEFINE u == s \o t
<1>1. /\ u \in Seq(S) /\ Len(u) = Len(s) + Len(t)
      /\ \A k \in 1 .. Len(s) + Len(t) : u[k] = IF k <= Len(s) THEN s[k] ELSE t[k - Len(s)]
  BY ConcatProperties
<1>2. Len(s) \in Nat /\ Len(t) \in Nat
  OBVIOUS
<1> HIDE DEF u
<1>3. \A k \in 1 .. Len(u) : \/ k \in 1 .. Len(s) /\ u[k] = s[k]
                             \/ /\ k \notin 1 .. Len(s) /\ k - Len(s) \in 1 .. Len(t)
                                /\ u[k] = t[k - Len(s)]
  BY <1>1, <1>2
<1>4. ASSUME NEW j \in 1 .. Len(u), NEW k \in 1 .. Len(u), u[j] = u[k] PROVE j = k
  <2>1. CASE j \in 1 .. Len(s) /\ k \in 1 .. Len(s)
    BY <1>3, <1>4, <2>1 DEF Distinct
  <2>2. CASE j \notin 1 .. Len(s) /\ k \notin 1 .. Len(s)
    <3>1. j - Len(s) = k - Len(s)
      BY <1>3, <1>4, <2>2 DEF Distinct
    <3> QED BY <1>1, <1>2, <3>1
  <2>3. CASE j \in 1 .. Len(s) /\ k \notin 1 .. Len(s)
    BY <1>3, <1>4, <2>3
  <2>4. CASE j \notin 1 .. Len(s) /\ k \in 1 .. Len(s)
    BY <1>3, <1>4, <2>4
  <2> QED BY <2>1, <2>2, <2>3, <2>4
<1> QED BY <1>4 DEF Distinct, u

(* FlattenSeq joins one sequence after the other.                          *)
LEMMA FlattenSteps ==
    ASSUME NEW S, NEW s \in Seq(Seq(S)), Len(s) > 0
    PROVE  \E F \in [1 .. Len(s) -> Seq(S)] :
              /\ F[1] = s[1] /\ FlattenSeq(s) = F[Len(s)]
              /\ \A k \in 1 .. Len(s) : k + 1 \in 1 .. Len(s) => F[k + 1] = F[k] \o s[k + 1]
<1> DEFINE Step(f) == [i \in 1 .. Len(s) |-> IF i = 1 THEN s[i] ELSE f[i - 1] \o s[i]]
           F == CHOOSE f : f = Step(f)
<1>1. Len(s) \in Nat /\ \A k \in 1 .. Len(s) : s[k] \in Seq(S)
  OBVIOUS
<1>2. 1 \in 1 .. Len(s) /\ s[1] \in Seq(S) /\ Len(s) \in 1 .. Len(s)
  BY <1>1
<1> DEFINE G == [p \in Nat \X Seq(S) |-> IF p[1] \in 1 .. Len(s) THEN p[2] \o s[p[1]] ELSE p[2]]
<1>3. ASSUME NEW k \in Nat, NEW t \in Seq(S) PROVE G[<<k, t>>] \in Seq(S)
  <2>1. G[<<k, t>>] = IF k \in 1 .. Len(s) THEN t \o s[k] ELSE t
    OBVIOUS
  <2> HIDE DEF G
  <2> QED BY <1>1, <2>1, Concatenated
<1>4. G \in [Nat \X Seq(S) -> Seq(S)]
  <2>1. \A p \in Nat \X Seq(S) : G[p] \in Seq(S)
    <3> HIDE DEF G
    <3> QED BY <1>3
  <2> QED BY <2>1
<1>5. PICK f : Iterates(f, Seq(S), s[1], 1, Len(s), G)
  <2> HIDE DEF G
  <2> QED BY <1>1, <1>2, <1>4, IterationExists
<1>6. ASSUME NEW k \in 1 .. Len(s)
      PROVE  f[k] = IF k = 1 THEN s[k] ELSE f[k - 1] \o s[k]
  <2>1. CASE k = 1
    BY <1>5, <2>1 DEF Iterates
  <2>2. CASE k # 1
    <3>1. k \in Nat /\ k - 1 \in 1 .. Len(s)
      BY <1>1, <2>2
    <3>2. f[k - 1] \in Seq(S)
      BY <1>5, <3>1 DEF Iterates
    <3>3. f[k] = G[<<k, f[k - 1]>>]
      <4> HIDE DEF G
      <4> QED BY <1>5, <2>2 DEF Iterates
    <3>4. G[<<k, f[k - 1]>>] = f[k - 1] \o s[k]
      BY <3>1, <3>2
    <3> QED BY <2>2, <3>3, <3>4
  <2> QED BY <2>1, <2>2
<1>7. f = Step(f)
  <2>1. f = [k \in 1 .. Len(s) |-> f[k]]
    BY <1>5 DEF Iterates
  <2> QED BY <1>6, <2>1
<1>8. F = Step(F)
  <2> HIDE DEF Step
  <2> QED BY <1>7
<1>9. FlattenSeq(s) = F[Len(s)]
  BY <1>1, <1>2 DEF FlattenSeq
<1> HIDE DEF F
<1>10. \A k \in 1 .. Len(s) : F[k] = IF k = 1 THEN s[k] ELSE F[k - 1] \o s[k]
  BY <1>8
<1>11. F = [k \in 1 .. Len(s) |-> F[k]]
  BY <1>8
<1>12. ASSUME NEW k \in 1 .. Len(s), k + 1 \in 1 .. Len(s) PROVE F[k + 1] = F[k] \o s[k + 1]
  <2>1. k + 1 # 1 /\ (k + 1) - 1 = k
    OBVIOUS
  <2> QED BY <1>10, <1>12, <2>1
<1> HIDE DEF Step
<1> DEFINE T == {k \in 1 .. Len(s) : F[k] \in Seq(S)}
<1>13. 1 .. Len(s) \subseteq T
  <2>1. 1 \in T
    BY <1>2, <1>10
  <2>2. ASSUME NEW k \in 1 .. Len(s), k + 1 \in 1 .. Len(s), k \in T PROVE k + 1 \in T
    <3>1. F[k] \in Seq(S) /\ s[k + 1] \in Seq(S) /\ F[k + 1] = F[k] \o s[k + 1]
      BY <1>1, <1>12, <2>2
    <3>2. F[k] \o s[k + 1] \in Seq(S)
      BY <3>1, ConcatProperties
    <3>3. F[k + 1] \in Seq(S)
      BY <3>1, <3>2
    <3> QED BY <2>2, <3>3
  <2> HIDE DEF T
  <2> QED BY <1>1, <2>1, <2>2, UpTo
<1>14. F \in [1 .. Len(s) -> Seq(S)]
  BY <1>11, <1>13
<1>15. F[1] = s[1]
  BY <1>2, <1>10
<1> QED BY <1>9, <1>12, <1>14, <1>15

(* Sequences that are nonempty, without repetitions and pairwise apart.    *)
Parts(s) ==
    /\ \A k \in 1 .. Len(s) : Len(s[k]) > 0 /\ Distinct(s[k])
    /\ \A k, l \in 1 .. Len(s) : k # l => ToSet(s[k]) \cap ToSet(s[l]) = {}

LEMMA FlattenedInOrder ==
    ASSUME NEW S, NEW s \in Seq(Seq(S)), Parts(s)
    PROVE  /\ FlattenSeq(s) \in Seq(S) /\ Distinct(FlattenSeq(s))
           /\ \A k \in 1 .. Len(s) : \A x, y : Follows(s[k], x, y) => Follows(FlattenSeq(s), x, y)
           /\ \A k \in 1 .. Len(s) :
                 k + 1 \in 1 .. Len(s) => Follows(FlattenSeq(s), Last(s[k]), s[k + 1][1])
<1>1. Len(s) \in Nat /\ \A k \in 1 .. Len(s) : s[k] \in Seq(S)
  OBVIOUS
<1>2. CASE Len(s) = 0
  <2>1. s = <<>> /\ FlattenSeq(s) = s
    BY <1>2 DEF FlattenSeq
  <2>2. Len(<<>>) = 0 /\ 1 .. 0 = {} /\ <<>> \in Seq(S)
    OBVIOUS
  <2> QED BY <2>1, <2>2 DEF Distinct
<1>3. CASE Len(s) # 0
  <2>1. Len(s) > 0 /\ 1 \in 1 .. Len(s) /\ Len(s) \in 1 .. Len(s)
    BY <1>1, <1>3
  <2>2. PICK F \in [1 .. Len(s) -> Seq(S)] :
              /\ F[1] = s[1] /\ FlattenSeq(s) = F[Len(s)]
              /\ \A k \in 1 .. Len(s) : k + 1 \in 1 .. Len(s) => F[k + 1] = F[k] \o s[k + 1]
    BY <2>1, FlattenSteps
  <2> DEFINE Members(n) == \A x \in ToSet(F[n]) : \E k \in 1 .. n : x \in ToSet(s[k])
             Inner(n) == \A k \in 1 .. n : \A x, y : Follows(s[k], x, y) => Follows(F[n], x, y)
             Between(n) == \A k \in 1 .. n : k + 1 \in 1 .. n => Follows(F[n], Last(s[k]), s[k + 1][1])
             Ends(n) == Len(F[n]) > 0 /\ Last(F[n]) = Last(s[n])
             Good(n) == Members(n) /\ Inner(n) /\ Between(n) /\ Ends(n) /\ Distinct(F[n])
             T == {n \in 1 .. Len(s) : Good(n)}
  <2>3. 1 \in T
    <3>1. F[1] = s[1] /\ 1 .. 1 = {1} /\ 1 + 1 \notin 1 .. 1
      BY <2>2
    <3>2. Len(s[1]) > 0 /\ Distinct(s[1])
      BY <2>1 DEF Parts
    <3>3. Members(1) /\ Inner(1) /\ Between(1) /\ Ends(1)
      BY <3>1, <3>2
    <3> QED BY <2>1, <3>1, <3>2, <3>3
  <2>4. ASSUME NEW n \in 1 .. Len(s), n + 1 \in 1 .. Len(s), n \in T PROVE n + 1 \in T
    <3>1. F[n + 1] = F[n] \o s[n + 1]
      BY <2>2, <2>4
    <3>2. F[n] \in Seq(S) /\ s[n + 1] \in Seq(S)
      BY <1>1, <2>4
    <3>3. Good(n)
      BY <2>4
    <3>4. Len(s[n + 1]) > 0 /\ Distinct(s[n + 1])
      BY <2>4 DEF Parts
    <3>5. /\ \A x, y : Follows(F[n], x, y) => Follows(F[n + 1], x, y)
          /\ \A x, y : Follows(s[n + 1], x, y) => Follows(F[n + 1], x, y)
          /\ Follows(F[n + 1], Last(F[n]), s[n + 1][1])
          /\ Last(F[n + 1]) = Last(s[n + 1])
      <4> HIDE DEF Good
      <4>1. Len(F[n]) > 0
        BY <3>3 DEF Good
      <4> QED BY <3>1, <3>2, <3>4, <4>1, JoinedFollow
    <3>6. F[n + 1] \in Seq(S) /\ ToSet(F[n + 1]) = ToSet(F[n]) \cup ToSet(s[n + 1])
      BY <3>1, <3>2, Concatenated
    <3>7. \A k \in 1 .. n + 1 : k \in 1 .. n \/ k = n + 1
      OBVIOUS
    <3>8. n + 1 \in 1 .. n + 1 /\ 1 .. n \subseteq 1 .. n + 1
      OBVIOUS
    <3>9. Members(n + 1)
      BY <3>3, <3>6, <3>8
    <3>10. Inner(n + 1)
      BY <3>3, <3>5, <3>7
    <3>11. Between(n + 1)
      <4> SUFFICES ASSUME NEW k \in 1 .. n + 1, k + 1 \in 1 .. n + 1
                   PROVE  Follows(F[n + 1], Last(s[k]), s[k + 1][1])
        OBVIOUS
      <4>1. CASE k + 1 \in 1 .. n
        <5>1. k \in 1 .. n
          BY <4>1
        <5> QED BY <3>3, <3>5, <4>1, <5>1
      <4>2. CASE k + 1 \notin 1 .. n
        <5>1. k = n
          BY <4>2
        <5> QED BY <3>3, <3>5, <5>1
      <4> QED BY <4>1, <4>2
    <3>12. Ends(n + 1)
      <4>1. Len(F[n + 1]) = Len(F[n]) + Len(s[n + 1])
        BY <3>1, <3>2, ConcatProperties
      <4>2. Len(F[n]) \in Nat /\ Len(s[n + 1]) \in Nat
        BY <3>2, LenProperties
      <4> QED BY <3>4, <3>5, <4>1, <4>2
    <3>13. Distinct(F[n + 1])
      <4>1. ASSUME NEW j \in 1 .. Len(F[n]), NEW k \in 1 .. Len(s[n + 1]) PROVE F[n][j] # s[n + 1][k]
        <5>1. F[n][j] \in ToSet(F[n]) /\ s[n + 1][k] \in ToSet(s[n + 1])
          BY <3>2 DEF ToSet
        <5>2. PICK l \in 1 .. n : F[n][j] \in ToSet(s[l])
          BY <3>3, <5>1
        <5>3. l \in 1 .. Len(s) /\ l # n + 1
          BY <1>1, <2>4
        <5>4. ToSet(s[l]) \cap ToSet(s[n + 1]) = {}
          BY <2>4, <5>3 DEF Parts
        <5> QED BY <5>1, <5>2, <5>4
      <4>2. Distinct(F[n])
        BY <3>3
      <4> HIDE DEF Good
      <4> QED BY <3>1, <3>2, <3>4, <4>1, <4>2, JoinedDistinct
    <3> HIDE DEF Members, Inner, Between, Ends
    <3> QED BY <2>4, <3>9, <3>10, <3>11, <3>12, <3>13
  <2>5. 1 .. Len(s) \subseteq T
    <3> HIDE DEF T
    <3> QED BY <1>1, <2>3, <2>4, UpTo
  <2>6. Good(Len(s))
    <3> HIDE DEF Good
    <3> QED BY <2>1, <2>5
  <2> QED BY <2>1, <2>2, <2>6
<1> QED BY <1>2, <1>3

(* Addresses ascend by the sizes of the entries.                           *)
LEMMA SumsAscend ==
    ASSUME NEW s \in Seq(Entry), \A e \in Entry : DetermineDollopEntrySize(e) \in Nat
    PROVE  \A k \in 1 .. Len(s) :
              /\ Sums(s)[k] \in Nat /\ Sums(s)[k] >= 100
              /\ k + 1 \in 1 .. Len(s) => Sums(s)[k + 1] = Sums(s)[k] + DetermineDollopEntrySize(s[k])
              /\ \A j \in 1 .. Len(s) : j < k => Sums(s)[j] + DetermineDollopEntrySize(s[j]) <= Sums(s)[k]
<1> DEFINE at == Sums(s)
           size(k) == DetermineDollopEntrySize(s[k])
           C == Len(s)
<1>1. C \in Nat /\ \A k \in 1 .. C : s[k] \in Entry /\ size(k) \in Nat
  OBVIOUS
<1>2. \A k \in 1 .. C : at[k] \in Nat /\ at[k] = IF k = 1 THEN 100 ELSE at[k - 1] + size(k - 1)
  BY SumsAreNumbers
<1> HIDE DEF at, size, C
<1>3. ASSUME NEW k \in 1 .. C, k + 1 \in 1 .. C PROVE at[k + 1] = at[k] + size(k)
  <2>1. k + 1 # 1 /\ (k + 1) - 1 = k
    OBVIOUS
  <2> QED BY <1>2, <1>3, <2>1
<1>4. ASSUME NEW j \in 1 .. C
      PROVE  \A k \in 1 .. C : j < k => at[j] + size(j) <= at[k]
  <2> DEFINE T == {k \in 1 .. C : j < k => at[j] + size(j) <= at[k]}
  <2>1. 1 \in T
    BY <1>1
  <2>2. ASSUME NEW k \in 1 .. C, k + 1 \in 1 .. C, k \in T PROVE k + 1 \in T
    <3>1. at[k + 1] = at[k] + size(k) /\ at[k] \in Nat /\ size(k) \in Nat /\ at[k + 1] \in Nat
          /\ at[j] \in Nat /\ size(j) \in Nat
      BY <1>1, <1>2, <1>3, <2>2
    <3>2. CASE j < k
      <4>1. at[j] + size(j) <= at[k]
        BY <2>2, <3>2
      <4>2. at[j] + size(j) <= at[k + 1]
        BY <3>1, <4>1
      <4> QED BY <2>2, <4>2
    <3>3. CASE j = k
      BY <2>2, <3>1, <3>3
    <3>4. CASE j > k
      BY <2>2, <3>4
    <3> QED BY <1>1, <3>2, <3>3, <3>4
  <2>3. 1 .. C \subseteq T
    <3> HIDE DEF T
    <3> QED BY <1>1, <2>1, <2>2, UpTo
  <2> QED BY <2>3
<1>5. \A k \in 1 .. C : at[k] >= 100
  <2> DEFINE T == {k \in 1 .. C : at[k] >= 100}
  <2>1. 1 \in 1 .. C => 1 \in T
    BY <1>2
  <2>2. ASSUME NEW k \in 1 .. C, k + 1 \in 1 .. C, k \in T PROVE k + 1 \in T
    <3>1. at[k + 1] = at[k] + size(k) /\ at[k] \in Nat /\ size(k) \in Nat /\ at[k] >= 100
      BY <1>1, <1>2, <1>3, <2>2
    <3>2. at[k + 1] >= 100
      BY <3>1
    <3> QED BY <2>2, <3>2
  <2>3. C # 0 => 1 .. C \subseteq T
    <3>1. C # 0 => 1 \in 1 .. C
      BY <1>1
    <3> HIDE DEF T
    <3> QED BY <1>1, <2>1, <2>2, <3>1, UpTo
  <2>4. C = 0 => 1 .. C = {}
    OBVIOUS
  <2> QED BY <2>3, <2>4
<1> QED BY <1>2, <1>3, <1>4, <1>5 DEF at, size, C

(* The steps in which a dollop is made.                                    *)
Longer(s, F) == IF prog.ft[Last(s)] \in F \cup {None} THEN s ELSE Append(s, prog.ft[Last(s)])

RunMade(h, F, S) ==
    \E f \in [0 .. Cardinality(Node) -> S] :
       /\ f[0] = <<h>> /\ Run(h, F) = f[Cardinality(Node)]
       /\ \A n \in 0 .. Cardinality(Node) :
             n + 1 \in 0 .. Cardinality(Node) => f[n + 1] = Longer(f[n], F)

LEMMA RunSteps ==
    ASSUME NEW h, NEW F, NEW S, <<h>> \in S, \A s \in S : Longer(s, F) \in S
    PROVE  RunMade(h, F, S)
<1> DEFINE C == Cardinality(Node)
           Step(f) == [n \in 0 .. C |-> IF n = 0 THEN <<h>> ELSE Longer(f[n - 1], F)]
           from == CHOOSE f : f = Step(f)
           G == [p \in Nat \X S |-> Longer(p[2], F)]
<1>1. C \in Nat
  BY NodeCount
<1>2. G \in [Nat \X S -> S]
  OBVIOUS
<1>3. PICK f : Iterates(f, S, <<h>>, 0, C, G)
  <2> HIDE DEF G, C
  <2> QED BY <1>1, <1>2, IterationExists
<1>4. ASSUME NEW n \in 0 .. C PROVE f[n] = IF n = 0 THEN <<h>> ELSE Longer(f[n - 1], F)
  <2>1. CASE n = 0
    BY <1>3, <2>1 DEF Iterates
  <2>2. CASE n # 0
    <3>1. n - 1 \in 0 .. C /\ n \in Nat
      BY <1>1, <2>2
    <3>2. f[n - 1] \in S
      BY <1>3, <3>1 DEF Iterates
    <3>3. f[n] = G[<<n, f[n - 1]>>]
      <4> HIDE DEF G
      <4> QED BY <1>3, <2>2 DEF Iterates
    <3>4. G[<<n, f[n - 1]>>] = Longer(f[n - 1], F)
      BY <3>1, <3>2
    <3> HIDE DEF G
    <3> QED BY <2>2, <3>3, <3>4
  <2> QED BY <2>1, <2>2
<1>5. f = Step(f) /\ f \in [0 .. C -> S]
  <2>1. f = [n \in 0 .. C |-> f[n]] /\ f \in [0 .. C -> S]
    BY <1>3 DEF Iterates
  <2> QED BY <1>4, <2>1
<1>6. from = Step(from)
  <2> HIDE DEF Step
  <2> QED BY <1>5
<1>7. Run(h, F) = from[C]
  BY DEF Run, Longer
<1> HIDE DEF from
<1>8. \A n \in 0 .. C : from[n] = IF n = 0 THEN <<h>> ELSE Longer(from[n - 1], F)
  BY <1>6
<1>9. from = [n \in 0 .. C |-> from[n]]
  BY <1>6
<1> HIDE DEF Step
<1>10. ASSUME NEW n \in 0 .. C, n + 1 \in 0 .. C PROVE from[n + 1] = Longer(from[n], F)
  <2>1. n + 1 # 0 /\ (n + 1) - 1 = n
    OBVIOUS
  <2> QED BY <1>8, <1>10, <2>1
<1>11. from[0] = <<h>>
  BY <1>1, <1>8
<1> DEFINE T == {n \in 0 .. C : from[n] \in S}
<1>12. 0 .. C \subseteq T
  <2>1. 0 \in T
    BY <1>1, <1>11
  <2>2. ASSUME NEW n \in 0 .. C, n + 1 \in 0 .. C, n \in T PROVE n + 1 \in T
    BY <1>10, <2>2
  <2> HIDE DEF T
  <2> QED BY <1>1, <2>1, <2>2, UpTo
<1>13. from \in [0 .. C -> S]
  BY <1>9, <1>12
<1> QED BY <1>7, <1>10, <1>11, <1>13 DEF RunMade

(* What a dollop is: from its front from fallthrough to fallthrough, and   *)
(* no other front in it.                                                   *)
Chain(s, h, F) ==
    /\ s \in Seq(Node) /\ Len(s) > 0 /\ s[1] = h
    /\ \A k \in 1 .. Len(s) :
          k + 1 \in 1 .. Len(s) => s[k + 1] = prog.ft[s[k]] /\ s[k + 1] \notin F

LEMMA LongerChain ==
    ASSUME ProgType, NEW h, NEW F, NEW s, Chain(s, h, F)
    PROVE  Chain(Longer(s, F), h, F)
<1>1. s \in Seq(Node) /\ Len(s) \in Nat /\ Len(s) > 0 /\ s[1] = h
  BY DEF Chain
<1> DEFINE x == prog.ft[Last(s)]
<1>2. CASE x \in F \cup {None}
  BY <1>2 DEF Longer
<1>3. CASE x \notin F \cup {None}
  <2>1. Len(s) \in 1 .. Len(s) /\ s[Len(s)] \in Node
    BY <1>1
  <2>2. x \in Node /\ x \notin F
    BY <1>3, <2>1 DEF ProgType, Last
  <2>3. Longer(s, F) = Append(s, x)
    BY <1>3 DEF Longer
  <2>4. x = prog.ft[s[Len(s)]]
    BY DEF Last
  <2> HIDE DEF x
  <2> DEFINE t == Append(s, x)
  <2>5. /\ t \in Seq(Node) /\ Len(t) = Len(s) + 1 /\ t[Len(s) + 1] = x
        /\ \A i \in 1 .. Len(s) : t[i] = s[i]
    BY <1>1, <2>2, AppendProperties
  <2> HIDE DEF t
  <2>6. ASSUME NEW k \in 1 .. Len(t), k + 1 \in 1 .. Len(t)
        PROVE  t[k + 1] = prog.ft[t[k]] /\ t[k + 1] \notin F
    <3>1. CASE k + 1 \in 1 .. Len(s)
      <4>1. k \in 1 .. Len(s) /\ t[k] = s[k] /\ t[k + 1] = s[k + 1]
        BY <1>1, <2>5, <3>1
      <4> QED BY <3>1, <4>1 DEF Chain
    <3>2. CASE k + 1 \notin 1 .. Len(s)
      <4>1. k = Len(s) /\ t[k] = s[Len(s)] /\ t[k + 1] = x
        BY <1>1, <2>5, <2>6, <3>2
      <4> QED BY <2>2, <2>4, <4>1
    <3> QED BY <3>1, <3>2
  <2>7. Len(t) > 0 /\ t[1] = h
    BY <1>1, <2>5
  <2> QED BY <2>3, <2>5, <2>6, <2>7 DEF Chain, t
<1> QED BY <1>2, <1>3

(* Nothing falls into two, so that dollops have no instruction in common   *)
(* and none twice.                                                         *)
OncePer == \A i, j \in Node : prog.ft[i] # None /\ prog.ft[i] = prog.ft[j] => i = j

LEMMA ChainsApart ==
    ASSUME ProgType, OncePer, NEW F, NEW h \in F, NEW g \in F,
           NEW s, Chain(s, h, F), NEW t, Chain(t, g, F),
           NEW j \in 1 .. Len(s), NEW k \in 1 .. Len(t), s[j] = t[k]
    PROVE  h = g /\ j = k
<1> DEFINE T == {n \in 1 .. Len(s) : \A m \in 1 .. Len(t) : s[n] = t[m] => h = g /\ n = m}
<1>1. /\ s \in Seq(Node) /\ Len(s) \in Nat /\ Len(s) > 0 /\ s[1] = h
      /\ t \in Seq(Node) /\ Len(t) \in Nat /\ Len(t) > 0 /\ t[1] = g
  BY DEF Chain
<1>2. /\ \A n \in 1 .. Len(s) : s[n] \in Node /\ (n # 1 => n - 1 \in 1 .. Len(s) /\ s[n] = prog.ft[s[n - 1]] /\ s[n] \notin F)
      /\ \A n \in 1 .. Len(t) : t[n] \in Node /\ (n # 1 => n - 1 \in 1 .. Len(t) /\ t[n] = prog.ft[t[n - 1]] /\ t[n] \notin F)
  <2>1. ASSUME NEW n \in 1 .. Len(s), n # 1
        PROVE  n - 1 \in 1 .. Len(s) /\ s[n] = prog.ft[s[n - 1]] /\ s[n] \notin F
    <3>1. n - 1 \in 1 .. Len(s) /\ (n - 1) + 1 = n
      BY <1>1, <2>1
    <3> QED BY <3>1 DEF Chain
  <2>2. ASSUME NEW n \in 1 .. Len(t), n # 1
        PROVE  n - 1 \in 1 .. Len(t) /\ t[n] = prog.ft[t[n - 1]] /\ t[n] \notin F
    <3>1. n - 1 \in 1 .. Len(t) /\ (n - 1) + 1 = n
      BY <1>1, <2>2
    <3> QED BY <3>1 DEF Chain
  <2> QED BY <1>1, <2>1, <2>2
<1>3. 1 \in T
  <2>1. \A m \in 1 .. Len(t) : h = t[m] => m = 1
    BY <1>2
  <2>2. 1 \in 1 .. Len(s)
    BY <1>1
  <2> QED BY <1>1, <2>1, <2>2
<1>4. ASSUME NEW n \in 1 .. Len(s), n + 1 \in 1 .. Len(s), n \in T PROVE n + 1 \in T
  <2> SUFFICES ASSUME NEW m \in 1 .. Len(t), s[n + 1] = t[m] PROVE h = g /\ n + 1 = m
    BY <1>4
  <2>1. n + 1 # 1 /\ (n + 1) - 1 = n
    OBVIOUS
  <2>2. s[n + 1] = prog.ft[s[n]] /\ s[n + 1] \notin F /\ s[n] \in Node /\ s[n + 1] # None
    BY <1>2, <1>4, <2>1, Nodes
  <2>3. m # 1
    BY <1>1, <2>2
  <2>4. m - 1 \in 1 .. Len(t) /\ t[m] = prog.ft[t[m - 1]] /\ t[m - 1] \in Node
    BY <1>2, <2>3
  <2>5. s[n] = t[m - 1]
    BY <2>2, <2>4 DEF OncePer
  <2>6. h = g /\ n = m - 1
    BY <1>4, <2>4, <2>5
  <2> QED BY <2>6
<1>5. 1 .. Len(s) \subseteq T
  <2> HIDE DEF T
  <2> QED BY <1>1, <1>3, <1>4, UpTo
<1> QED BY <1>5

(* A run is made to the end: what it falls into is another front.          *)
LEMMA RunEnds ==
    ASSUME ProgType, OncePer, NEW F \in SUBSET Node, NEW h \in F
    PROVE  /\ Chain(Run(h, F), h, F) /\ Distinct(Run(h, F))
           /\ prog.ft[Last(Run(h, F))] \in F \cup {None}
<1> DEFINE C == Cardinality(Node)
           S == {s \in Seq(Node) : Chain(s, h, F)}
<1>1. C \in Nat
  BY NodeCount
<1>2. <<h>> \in S
  <2>1. <<h>> \in Seq(Node) /\ Len(<<h>>) = 1 /\ <<h>>[1] = h
    OBVIOUS
  <2> QED BY <2>1 DEF Chain
<1>3. \A s \in S : Longer(s, F) \in S
  <2> SUFFICES ASSUME NEW s \in S PROVE Longer(s, F) \in S
    OBVIOUS
  <2>1. Chain(Longer(s, F), h, F)
    BY LongerChain
  <2> QED BY <2>1 DEF Chain
<1>4. PICK f \in [0 .. C -> S] :
              /\ f[0] = <<h>> /\ Run(h, F) = f[C]
              /\ \A n \in 0 .. C : n + 1 \in 0 .. C => f[n + 1] = Longer(f[n], F)
  <2>1. PICK R : R = S
    OBVIOUS
  <2>2. <<h>> \in R /\ \A s \in R : Longer(s, F) \in R
    <3> HIDE DEF S
    <3> QED BY <1>2, <1>3, <2>1
  <2> HIDE DEF S
  <2>3. RunMade(h, F, R)
    BY <2>2, RunSteps
  <2> QED BY <2>1, <2>3 DEF RunMade
<1>5. ASSUME NEW s, Chain(s, h, F) PROVE Distinct(s) /\ Len(s) <= C /\ Len(s) \in Nat
  <2>1. Distinct(s)
    BY <1>5, ChainsApart DEF Distinct
  <2>2. s \in Seq(Node)
    BY <1>5 DEF Chain
  <2> QED BY <2>1, <2>2, NodesFinite, NoLongerThan
<1> DEFINE Stopped(s) == prog.ft[Last(s)] \in F \cup {None}
           T == {n \in 0 .. C : Stopped(f[n]) \/ Len(f[n]) = n + 1}
<1>6. 0 \in T
  <2>1. Len(<<h>>) = 0 + 1 /\ 0 \in 0 .. C
    BY <1>1
  <2> QED BY <1>4, <2>1
<1>7. ASSUME NEW n \in 0 .. C, n + 1 \in 0 .. C, n \in T PROVE n + 1 \in T
  <2>1. f[n + 1] = Longer(f[n], F)
    BY <1>4, <1>7
  <2>2. CASE Stopped(f[n])
    <3>1. f[n + 1] = f[n]
      BY <2>1, <2>2 DEF Longer
    <3> HIDE DEF Stopped
    <3> QED BY <1>7, <2>2, <3>1
  <2>3. CASE ~ Stopped(f[n])
    <3>1. f[n + 1] = Append(f[n], prog.ft[Last(f[n])]) /\ Len(f[n]) = n + 1
      BY <1>7, <2>1, <2>3 DEF Longer
    <3>2. f[n] \in Seq(Node) /\ Len(f[n]) \in 1 .. Len(f[n])
      BY <3>1 DEF Chain
    <3>3. prog.ft[Last(f[n])] \in Node
      BY <2>3, <3>2 DEF ProgType, Last
    <3>4. Len(f[n + 1]) = (n + 1) + 1
      BY <3>1, <3>2, <3>3, AppendProperties
    <3> QED BY <1>7, <3>4
  <2> QED BY <2>2, <2>3
<1>8. C \in T
  <2>1. 0 .. C \subseteq T
    <3> HIDE DEF T
    <3> QED BY <1>1, <1>6, <1>7, UpTo
  <2>2. C \in 0 .. C
    BY <1>1
  <2> HIDE DEF T
  <2> QED BY <2>1, <2>2
<1>9. C \in 0 .. C /\ Chain(f[C], h, F)
  BY <1>1, <1>4
<1>10. Len(f[C]) # C + 1 /\ Distinct(f[C])
  <2>1. Len(f[C]) <= C /\ Len(f[C]) \in Nat /\ Distinct(f[C])
    BY <1>5, <1>9
  <2> QED BY <1>1, <2>1
<1> QED BY <1>4, <1>8, <1>9, <1>10

(* What is reached: after as many steps as there are instructions nothing  *)
(* is left to be reached.                                                  *)
Grown(S) == (S \cup {prog.ft[i] : i \in S} \cup {prog.target[i] : i \in S}) \ {None}

LEMMA ReachedSteps ==
    ASSUME ProgType
    PROVE  \E f \in [0 .. Cardinality(Node) -> SUBSET Node] :
              /\ f[0] = Pinned /\ Reached = f[Cardinality(Node)]
              /\ \A n \in 0 .. Cardinality(Node) :
                    n + 1 \in 0 .. Cardinality(Node) => f[n + 1] = Grown(f[n])
<1> DEFINE C == Cardinality(Node)
           S == SUBSET Node
           Step(f) == [n \in 0 .. C |-> IF n = 0 THEN Pinned ELSE Grown(f[n - 1])]
           reach == CHOOSE f : f = Step(f)
           G == [p \in Nat \X S |-> Grown(p[2])]
<1>1. C \in Nat
  BY NodeCount
<1>2. Pinned \in S /\ \A X \in S : Grown(X) \in S
  <2>1. Pinned \in S
    BY Nodes DEF Pinned
  <2> QED BY <2>1 DEF ProgType, Grown
<1>3. G \in [Nat \X S -> S]
  <2> HIDE DEF S
  <2> QED BY <1>2
<1>4. PICK f : Iterates(f, S, Pinned, 0, C, G)
  <2> HIDE DEF G, S, C
  <2> QED BY <1>1, <1>2, <1>3, IterationExists
<1>5. ASSUME NEW n \in 0 .. C PROVE f[n] = IF n = 0 THEN Pinned ELSE Grown(f[n - 1])
  <2> HIDE DEF S
  <2>1. CASE n = 0
    BY <1>4, <2>1 DEF Iterates
  <2>2. CASE n # 0
    <3>1. n - 1 \in 0 .. C /\ n \in Nat
      BY <1>1, <2>2
    <3>2. f[n - 1] \in S
      BY <1>4, <3>1 DEF Iterates
    <3>3. f[n] = G[<<n, f[n - 1]>>]
      <4> HIDE DEF G
      <4> QED BY <1>4, <2>2 DEF Iterates
    <3>4. G[<<n, f[n - 1]>>] = Grown(f[n - 1])
      BY <3>1, <3>2
    <3> HIDE DEF G
    <3> QED BY <2>2, <3>3, <3>4
  <2> QED BY <2>1, <2>2
<1>6. f = Step(f)
  <2>1. f = [n \in 0 .. C |-> f[n]]
    BY <1>4 DEF Iterates
  <2> QED BY <1>5, <2>1
<1>7. reach = Step(reach)
  <2> HIDE DEF Step
  <2> QED BY <1>6
<1>8. Reached = reach[C]
  BY DEF Reached, Grown
<1> HIDE DEF reach
<1>9. \A n \in 0 .. C : reach[n] = IF n = 0 THEN Pinned ELSE Grown(reach[n - 1])
  BY <1>7
<1>10. reach = [n \in 0 .. C |-> reach[n]]
  BY <1>7
<1> HIDE DEF Step
<1>11. ASSUME NEW n \in 0 .. C, n + 1 \in 0 .. C PROVE reach[n + 1] = Grown(reach[n])
  <2>1. n + 1 # 0 /\ (n + 1) - 1 = n
    OBVIOUS
  <2> QED BY <1>9, <1>11, <2>1
<1>12. reach[0] = Pinned
  BY <1>1, <1>9
<1> DEFINE T == {n \in 0 .. C : reach[n] \in S}
<1>13. 0 .. C \subseteq T
  <2> HIDE DEF S
  <2>1. 0 \in T
    BY <1>1, <1>2, <1>12
  <2>2. ASSUME NEW n \in 0 .. C, n + 1 \in 0 .. C, n \in T PROVE n + 1 \in T
    BY <1>2, <1>11, <2>2
  <2> HIDE DEF T
  <2> QED BY <1>1, <2>1, <2>2, UpTo
<1>14. reach \in [0 .. C -> S]
  <2> HIDE DEF S
  <2> QED BY <1>10, <1>13
<1> QED BY <1>8, <1>11, <1>12, <1>14

LEMMA ReachedCloses ==
    ASSUME ProgType
    PROVE  /\ Reached \subseteq Node /\ Pinned \subseteq Reached
           /\ \A i \in Reached : prog.ft[i] \in Reached \cup {None} /\ prog.target[i] \in Reached \cup {None}
<1> DEFINE C == Cardinality(Node)
<1>1. PICK f \in [0 .. C -> SUBSET Node] :
         /\ f[0] = Pinned /\ Reached = f[C]
         /\ \A n \in 0 .. C : n + 1 \in 0 .. C => f[n + 1] = Grown(f[n])
  BY ReachedSteps
<1>2. C \in Nat /\ IsFiniteSet(Node)
  BY NodeCount, NodesFinite
<1>3. \A X \in SUBSET Node : X \subseteq Grown(X) /\ Grown(X) \subseteq Node
  <2> SUFFICES ASSUME NEW X \in SUBSET Node PROVE X \subseteq Grown(X) /\ Grown(X) \subseteq Node
    OBVIOUS
  <2>1. None \notin X
    BY Nodes
  <2>2. X \subseteq Grown(X)
    BY <2>1 DEF Grown
  <2>3. \A i \in X : prog.ft[i] \in Node \cup {None} /\ prog.target[i] \in Node \cup {None}
    BY DEF ProgType
  <2>4. Grown(X) \subseteq Node
    BY <2>3 DEF Grown
  <2> QED BY <2>2, <2>4
<1> HIDE DEF C
<1> DEFINE Card(n) == Cardinality(f[n])
           T == {n \in 0 .. C : Pinned \subseteq f[n] /\ (Grown(f[n]) = f[n] \/ Card(n) >= n)}
<1>4. \A n \in 0 .. C : Card(n) \in Nat /\ f[n] \in SUBSET Node /\ IsFiniteSet(f[n])
  <2> SUFFICES ASSUME NEW n \in 0 .. C PROVE Card(n) \in Nat /\ f[n] \in SUBSET Node /\ IsFiniteSet(f[n])
    OBVIOUS
  <2>1. f[n] \in SUBSET Node
    BY <1>1
  <2>2. IsFiniteSet(f[n])
    BY <1>2, <2>1, FS_Subset
  <2> QED BY <2>1, <2>2, FS_CardinalityType
<1>5. 0 \in T
  <2>1. 0 \in 0 .. C /\ Card(0) \in Nat
    BY <1>2, <1>4
  <2> QED BY <1>1, <2>1
<1>6. ASSUME NEW n \in 0 .. C, n + 1 \in 0 .. C, n \in T PROVE n + 1 \in T
  <2>1. f[n + 1] = Grown(f[n]) /\ f[n] \subseteq f[n + 1]
    BY <1>1, <1>3, <1>4, <1>6
  <2>2. Pinned \subseteq f[n + 1]
    BY <1>6, <2>1
  <2>3. CASE Grown(f[n]) = f[n]
    BY <1>6, <2>1, <2>2, <2>3
  <2>4. CASE Grown(f[n]) # f[n]
    <3>1. Card(n) >= n
      BY <1>6, <2>4
    <3>2. Card(n) <= Card(n + 1) /\ Card(n) # Card(n + 1)
      <4>1. f[n] \in SUBSET f[n + 1] /\ f[n] # f[n + 1] /\ IsFiniteSet(f[n + 1])
        BY <1>4, <1>6, <2>1, <2>4
      <4> QED BY <4>1, FS_Subset
    <3>3. Card(n + 1) >= n + 1
      <4>1. Card(n) \in Nat /\ Card(n + 1) \in Nat
        BY <1>4, <1>6
      <4> HIDE DEF Card
      <4> QED BY <3>1, <3>2, <4>1
    <3> QED BY <1>6, <2>2, <3>3
  <2> QED BY <2>3, <2>4
<1>7. C \in T
  <2>1. 0 .. C \subseteq T
    <3> HIDE DEF T
    <3> QED BY <1>2, <1>5, <1>6, UpTo
  <2>2. C \in 0 .. C
    BY <1>2
  <2> HIDE DEF T
  <2> QED BY <2>1, <2>2
<1>8. Grown(f[C]) = f[C] /\ f[C] \in SUBSET Node /\ Pinned \subseteq f[C]
  <2>1. C \in 0 .. C
    BY <1>2
  <2>2. CASE Card(C) >= C
    <3>1. f[C] \in SUBSET Node /\ Card(C) <= C
      BY <1>2, <1>4, <2>1, FS_Subset DEF C
    <3>2. Card(C) = C
      <4>1. Card(C) \in Nat
        BY <1>4, <2>1
      <4> HIDE DEF Card
      <4> QED BY <1>2, <2>2, <3>1, <4>1
    <3>3. Cardinality(Node) = Cardinality(f[C])
      BY <3>2 DEF C
    <3>4. f[C] = Node
      BY <1>2, <3>1, <3>3, FS_Subset
    <3>5. Grown(f[C]) = f[C]
      BY <1>3, <3>4
    <3> QED BY <1>7, <3>1, <3>5
  <2>3. CASE Grown(f[C]) = f[C]
    BY <1>4, <1>7, <2>1, <2>3
  <2> QED BY <1>7, <2>2, <2>3
<1>9. \A i \in f[C] : prog.ft[i] \in Grown(f[C]) \cup {None} /\ prog.target[i] \in Grown(f[C]) \cup {None}
  BY DEF Grown
<1> QED BY <1>1, <1>8, <1>9

(* The dollops that are placed, in the order they are placed in.           *)
Fronts == Pinned \cup ({prog.target[i] : i \in Reached} \ {None})
NextOf(h) == prog.ft[Last(Run(h, Fronts))]
Unlinked(order, k) == NextOf(order[k]) = None \/ (k < Len(order) /\ order[k + 1] = NextOf(order[k]))
EntriesAt(order, k) ==
    Run(order[k], Fronts) \o (IF Unlinked(order, k) THEN <<>> ELSE <<Appended(order[k])>>)
Dolloped(order) == [k \in 1 .. Len(order) |-> EntriesAt(order, k)]
InARow(order) == FlattenSeq(Dolloped(order))

PlacedBy(order) ==
    /\ layout' = [k \in 1 .. Len(order) |->
                    [entries |-> EntriesAt(order, k), fallthrough |-> NextOf(order[k])]]
    /\ place' = [e \in Entry |->
                   IF e \in ToSet(InARow(order))
                   THEN Sums(InARow(order))[CHOOSE k \in DOMAIN InARow(order) : InARow(order)[k] = e]
                   ELSE None]
    /\ todo' \in {InARow(order), FlattenSeq(Reverse(Dolloped(order)))}

LEMMA FrontsAre ==
    ASSUME ProgType PROVE Fronts \in SUBSET Node /\ Fronts \subseteq Reached
<1>1. Pinned \subseteq Reached /\ Reached \subseteq Node
      /\ \A i \in Reached : prog.target[i] \in Reached \cup {None}
  BY ReachedCloses
<1> QED BY <1>1 DEF Fronts

LEMMA OrderIs ==
    ASSUME ProgType, NEW order \in Orders(Fronts)
    PROVE  /\ order \in Seq(Fronts) /\ Len(order) \in Nat /\ DOMAIN order = 1 .. Len(order)
           /\ \A k \in 1 .. Len(order) : order[k] \in Fronts /\ order[k] \in Node
           /\ Distinct(order) /\ \A h \in Fronts : \E k \in 1 .. Len(order) : order[k] = h
<1>1. order \in Seq(Fronts) /\ IsInjective(order) /\ ToSet(order) = Fronts
  BY FrontsAre, OrdersAssumption
<1>2. Len(order) \in Nat /\ DOMAIN order = 1 .. Len(order) /\ \A k \in 1 .. Len(order) : order[k] \in Fronts
  BY <1>1, ElementOfSeq, LenProperties
<1>3. Distinct(order)
  BY <1>1, <1>2 DEF Distinct, IsInjective
<1>4. \A h \in Fronts : \E k \in 1 .. Len(order) : order[k] = h
  BY <1>1, <1>2 DEF ToSet
<1> QED BY <1>1, <1>2, <1>3, <1>4, FrontsAre

LEMMA PlacementIs ==
    ASSUME ProgType, PlaceDollops
    PROVE  \E order \in Orders(Fronts) : PlacedBy(order)
<1> DEFINE Rs == [h \in Fronts |-> Run(h, Fronts)]
           Falls(r, o, k) == prog.ft[Last(r[o[k]])]
           Jump(r, o, k) == IF Falls(r, o, k) = None \/ (k < Len(o) /\ o[k + 1] = Falls(r, o, k)) THEN <<>>
                            ELSE <<Appended(o[k])>>
           Made(r, o) == layout' = [k \in DOMAIN o |->
                                      [entries |-> r[o[k]] \o Jump(r, o, k),
                                       fallthrough |-> Falls(r, o, k)]]
<1>1. \E r \in {[h \in F |-> Run(h, F)] : F \in {Fronts}} : \E o \in Orders(DOMAIN r) : Made(r, o)
  BY DEF PlaceDollops, Fronts
<1>2. DOMAIN Rs = Fronts /\ {[h \in F |-> Run(h, F)] : F \in {Fronts}} = {Rs}
  OBVIOUS
<1>3. PICK o \in Orders(Fronts) : Made(Rs, o)
  <2> HIDE DEF Made, Rs
  <2> QED BY <1>1, <1>2
<1>4. /\ o \in Seq(Fronts) /\ DOMAIN o = 1 .. Len(o) /\ \A k \in 1 .. Len(o) : o[k] \in Fronts
  BY OrderIs
<1>5. \A k \in 1 .. Len(o) : /\ Falls(Rs, o, k) = NextOf(o[k])
                             /\ Rs[o[k]] \o Jump(Rs, o, k) = EntriesAt(o, k)
  <2> SUFFICES ASSUME NEW k \in 1 .. Len(o)
               PROVE  /\ Falls(Rs, o, k) = NextOf(o[k])
                      /\ Rs[o[k]] \o Jump(Rs, o, k) = EntriesAt(o, k)
    OBVIOUS
  <2>1. Rs[o[k]] = Run(o[k], Fronts)
    BY <1>4
  <2>2. Falls(Rs, o, k) = NextOf(o[k])
    <3> HIDE DEF Rs
    <3> QED BY <2>1 DEF NextOf
  <2>3. Jump(Rs, o, k) = IF Unlinked(o, k) THEN <<>> ELSE <<Appended(o[k])>>
    <3> HIDE DEF Falls
    <3> QED BY <2>2 DEF Unlinked
  <2> HIDE DEF Rs, Jump
  <2> QED BY <2>1, <2>2, <2>3 DEF EntriesAt
<1>6. layout' = [k \in 1 .. Len(o) |-> [entries |-> EntriesAt(o, k), fallthrough |-> NextOf(o[k])]]
  <2>1. layout' = [k \in 1 .. Len(o) |-> [entries |-> Rs[o[k]] \o Jump(Rs, o, k),
                                          fallthrough |-> Falls(Rs, o, k)]]
    <3> HIDE DEF Rs, Jump, Falls
    <3> QED BY <1>3, <1>4
  <2> HIDE DEF Rs, Jump, Falls
  <2> QED BY <1>5, <2>1
<1>7. [k \in DOMAIN layout' |-> layout'[k].entries] = Dolloped(o)
  <2>1. DOMAIN layout' = 1 .. Len(o) /\ \A k \in 1 .. Len(o) : layout'[k].entries = EntriesAt(o, k)
    BY <1>6
  <2> QED BY <2>1 DEF Dolloped
<1> HIDE DEF Made, Rs, Jump, Falls
<1> DEFINE L == [k \in DOMAIN layout' |-> layout'[k].entries]
           Numbered(ss) ==
              \E es \in {FlattenSeq(ss)} :
                 LET at[k \in DOMAIN es] ==
                         IF k = 1 THEN 100 ELSE at[k - 1] + DetermineDollopEntrySize(es[k - 1])
                 IN  /\ place' = [e \in Entry |->
                                    IF e \in ToSet(es) THEN at[CHOOSE k \in DOMAIN es : es[k] = e]
                                    ELSE None]
                     /\ todo' \in {es, FlattenSeq(Reverse(ss))}
<1>8. Numbered(L)
  BY DEF PlaceDollops
<1>9. Numbered(Dolloped(o))
  <2> HIDE DEF Numbered, L
  <2>1. L = Dolloped(o)
    BY <1>7 DEF L
  <2> QED BY <1>8, <2>1
<1>10. /\ place' = [e \in Entry |->
                      IF e \in ToSet(InARow(o))
                      THEN Sums(InARow(o))[CHOOSE k \in DOMAIN InARow(o) : InARow(o)[k] = e]
                      ELSE None]
       /\ todo' \in {InARow(o), FlattenSeq(Reverse(Dolloped(o)))}
  BY <1>9 DEF Sums, InARow
<1> QED BY <1>6, <1>10 DEF PlacedBy

LEMMA AppendedOnce ==
    \A h, g \in Node : /\ Appended(h) \in Entry \ Node /\ (Appended(h) = Appended(g) => h = g)
                       /\ Appended(h) \notin Original /\ Appended(h) # hlt
  BY SizesAssumption DEF Appended, Entry, Node, Original, hlt

LEMMA EntriesAre ==
    ASSUME ProgType, OncePer, NEW order \in Orders(Fronts), NEW k \in 1 .. Len(order)
    PROVE  /\ Chain(Run(order[k], Fronts), order[k], Fronts) /\ NextOf(order[k]) \in Fronts \cup {None}
           /\ EntriesAt(order, k) \in Seq(Entry) /\ Len(EntriesAt(order, k)) > 0
           /\ EntriesAt(order, k)[1] = order[k] /\ Distinct(EntriesAt(order, k))
           /\ Len(EntriesAt(order, k)) =
                 Len(Run(order[k], Fronts)) + (IF Unlinked(order, k) THEN 0 ELSE 1)
           /\ \A j \in 1 .. Len(Run(order[k], Fronts)) :
                 EntriesAt(order, k)[j] = Run(order[k], Fronts)[j]
           /\ ~ Unlinked(order, k) =>
                 EntriesAt(order, k)[Len(Run(order[k], Fronts)) + 1] = Appended(order[k])
<1> DEFINE h == order[k]
           run == Run(h, Fronts)
           more == IF Unlinked(order, k) THEN <<>> ELSE <<Appended(h)>>
           all == run \o more
<1>1. h \in Fronts /\ h \in Node
  BY OrderIs
<1>2. Chain(run, h, Fronts) /\ Distinct(run) /\ prog.ft[Last(run)] \in Fronts \cup {None}
  <2> HIDE DEF h
  <2> QED BY <1>1, FrontsAre, RunEnds
<1>3. run \in Seq(Node) /\ Len(run) \in Nat /\ Len(run) > 0 /\ run[1] = h
  <2> HIDE DEF run, h
  <2> QED BY <1>2 DEF Chain
<1>4. more \in Seq(Entry) /\ Len(more) = (IF Unlinked(order, k) THEN 0 ELSE 1)
      /\ (~ Unlinked(order, k) => more[1] = Appended(h)) /\ Appended(h) \notin Node
  <2> HIDE DEF h
  <2> QED BY <1>1, AppendedOnce
<1>5. EntriesAt(order, k) = all
  BY DEF EntriesAt
<1> HIDE DEF run, more
<1>6. run \in Seq(Entry)
  BY <1>3, Nodes, SeqMonotonic
<1>7. /\ all \in Seq(Entry) /\ Len(all) = Len(run) + Len(more)
      /\ \A j \in 1 .. Len(run) + Len(more) :
            all[j] = IF j <= Len(run) THEN run[j] ELSE more[j - Len(run)]
  BY <1>4, <1>6, ConcatProperties
<1>8. Distinct(all)
  <2>1. Distinct(more)
    BY <1>4 DEF Distinct
  <2>2. ASSUME NEW i \in 1 .. Len(run), NEW j \in 1 .. Len(more) PROVE run[i] # more[j]
    <3>1. run[i] \in Node
      BY <1>3
    <3>2. j = 1 /\ ~ Unlinked(order, k)
      BY <1>4
    <3> QED BY <1>4, <3>1, <3>2
  <2> QED BY <1>2, <1>4, <1>6, <2>1, <2>2, JoinedDistinct
<1> HIDE DEF all
<1>9. \A j \in 1 .. Len(run) : all[j] = run[j]
  BY <1>3, <1>4, <1>7
<1>10. ~ Unlinked(order, k) => all[Len(run) + 1] = Appended(h)
  BY <1>3, <1>4, <1>7
<1>11. Len(all) = Len(run) + (IF Unlinked(order, k) THEN 0 ELSE 1) /\ Len(all) > 0
  BY <1>3, <1>4, <1>7
<1>12. all[1] = h
  BY <1>3, <1>9
<1>13. NextOf(h) \in Fronts \cup {None}
  BY <1>2 DEF NextOf, run
<1> QED BY <1>2, <1>5, <1>7, <1>8, <1>9, <1>10, <1>11, <1>12, <1>13 DEF run

(* An entry of a dollop is an instruction of its run or the jump behind.   *)
LEMMA EntryIs ==
    ASSUME ProgType, OncePer, NEW order \in Orders(Fronts), NEW k \in 1 .. Len(order),
           NEW j \in 1 .. Len(EntriesAt(order, k))
    PROVE  \/ /\ j \in 1 .. Len(Run(order[k], Fronts))
              /\ EntriesAt(order, k)[j] = Run(order[k], Fronts)[j]
              /\ EntriesAt(order, k)[j] \in Node
           \/ /\ ~ Unlinked(order, k) /\ j = Len(EntriesAt(order, k))
              /\ EntriesAt(order, k)[j] = Appended(order[k])
<1>1. /\ Chain(Run(order[k], Fronts), order[k], Fronts)
      /\ Len(EntriesAt(order, k)) =
            Len(Run(order[k], Fronts)) + (IF Unlinked(order, k) THEN 0 ELSE 1)
      /\ \A i \in 1 .. Len(Run(order[k], Fronts)) :
            EntriesAt(order, k)[i] = Run(order[k], Fronts)[i]
      /\ ~ Unlinked(order, k) =>
            EntriesAt(order, k)[Len(Run(order[k], Fronts)) + 1] = Appended(order[k])
  BY EntriesAre
<1>2. Run(order[k], Fronts) \in Seq(Node) /\ Len(Run(order[k], Fronts)) \in Nat
  BY <1>1 DEF Chain
<1>3. CASE j \in 1 .. Len(Run(order[k], Fronts))
  BY <1>1, <1>2, <1>3
<1>4. CASE j \notin 1 .. Len(Run(order[k], Fronts))
  <2>1. ~ Unlinked(order, k) /\ j = Len(Run(order[k], Fronts)) + 1 /\ j = Len(EntriesAt(order, k))
    BY <1>1, <1>2, <1>4
  <2> QED BY <1>1, <2>1
<1> QED BY <1>3, <1>4

LEMMA DollopsApart ==
    ASSUME ProgType, OncePer, NEW order \in Orders(Fronts)
    PROVE  /\ Dolloped(order) \in Seq(Seq(Entry)) /\ Len(Dolloped(order)) = Len(order)
           /\ \A k \in 1 .. Len(order) : Dolloped(order)[k] = EntriesAt(order, k)
           /\ Parts(Dolloped(order))
<1>1. /\ order \in Seq(Fronts) /\ Len(order) \in Nat /\ Distinct(order)
      /\ \A k \in 1 .. Len(order) : order[k] \in Fronts /\ order[k] \in Node
  BY OrderIs
<1>2. \A k \in 1 .. Len(order) : /\ EntriesAt(order, k) \in Seq(Entry)
                                 /\ Len(EntriesAt(order, k)) > 0 /\ Distinct(EntriesAt(order, k))
  BY EntriesAre
<1>3. Dolloped(order) \in Seq(Seq(Entry)) /\ Len(Dolloped(order)) = Len(order)
      /\ \A k \in 1 .. Len(order) : Dolloped(order)[k] = EntriesAt(order, k)
  BY <1>1, <1>2 DEF Dolloped
<1>4. ASSUME NEW k \in 1 .. Len(order), NEW l \in 1 .. Len(order), k # l,
             NEW i \in 1 .. Len(EntriesAt(order, k)), NEW j \in 1 .. Len(EntriesAt(order, l))
      PROVE  EntriesAt(order, k)[i] # EntriesAt(order, l)[j]
  <2> SUFFICES ASSUME EntriesAt(order, k)[i] = EntriesAt(order, l)[j] PROVE FALSE
    OBVIOUS
  <2>1. order[k] # order[l]
    BY <1>1, <1>4 DEF Distinct
  <2>2. \/ /\ i \in 1 .. Len(Run(order[k], Fronts))
           /\ EntriesAt(order, k)[i] = Run(order[k], Fronts)[i] /\ EntriesAt(order, k)[i] \in Node
        \/ EntriesAt(order, k)[i] = Appended(order[k])
    BY EntryIs
  <2>3. \/ /\ j \in 1 .. Len(Run(order[l], Fronts))
           /\ EntriesAt(order, l)[j] = Run(order[l], Fronts)[j] /\ EntriesAt(order, l)[j] \in Node
        \/ EntriesAt(order, l)[j] = Appended(order[l])
    BY EntryIs
  <2>4. Appended(order[k]) # Appended(order[l]) /\ Appended(order[k]) \notin Node /\ Appended(order[l]) \notin Node
    BY <1>1, <2>1, AppendedOnce
  <2>5. /\ i \in 1 .. Len(Run(order[k], Fronts)) /\ j \in 1 .. Len(Run(order[l], Fronts))
        /\ Run(order[k], Fronts)[i] = Run(order[l], Fronts)[j]
    BY <2>2, <2>3, <2>4
  <2>6. Chain(Run(order[k], Fronts), order[k], Fronts) /\ Chain(Run(order[l], Fronts), order[l], Fronts)
    BY EntriesAre
  <2> QED BY <1>1, <2>1, <2>5, <2>6, ChainsApart
<1>5. ASSUME NEW k \in 1 .. Len(order), NEW l \in 1 .. Len(order), k # l
      PROVE  ToSet(EntriesAt(order, k)) \cap ToSet(EntriesAt(order, l)) = {}
  <2>1. DOMAIN EntriesAt(order, k) = 1 .. Len(EntriesAt(order, k))
        /\ DOMAIN EntriesAt(order, l) = 1 .. Len(EntriesAt(order, l))
    BY <1>2, LenProperties
  <2> QED BY <1>4, <1>5, <2>1 DEF ToSet
<1>6. Parts(Dolloped(order))
  BY <1>2, <1>3, <1>5 DEF Parts
<1> QED BY <1>3, <1>6

-----------------------------------------------------------------------------
(* Where entries are, and what control comes to behind an instruction: the *)
(* entry it falls into, or the jump there that placement appended.         *)
End(e) == place[e] + DetermineDollopEntrySize(e)
Placed(e) == e \in Entry /\ place[e] # None

GoesOn(i) ==
    \E e \in Entry : /\ place[e] = End(i) /\ FallthroughPlace(i) = End(i)
                     /\ e = prog.ft[i] \/ (e \notin Node /\ TargetOf(e) = prog.ft[i])

Addressed ==
    /\ place \in [Entry -> Nat \cup {None}]
    /\ \A e \in Entry : Placed(e) => place[e] >= 100
    /\ \A e, g \in Entry : Placed(e) /\ Placed(g) /\ e # g => End(e) <= place[g] \/ End(g) <= place[e]

LinksPlaced ==
    /\ \A i \in Pinned : Placed(i)
    /\ \A e \in Entry : Placed(e) /\ TargetOf(e) # None => Placed(TargetOf(e))
    /\ \A i \in Node : Placed(i) /\ prog.ft[i] # None => GoesOn(i)

LEMMA SizesStay ==
    ASSUME ProgType, prog' = prog, NEW e \in Entry
    PROVE  DetermineDollopEntrySize(e)' = DetermineDollopEntrySize(e)
<1>1. Op(e)' = Op(e) /\ Prefix(e)' = Prefix(e) /\ Opening(e)' = Opening(e)
  BY DEF Op, Prefix, Opening
<1>2. e \in Node => TargetOf(e)' = TargetOf(e)
  BY DEF TargetOf
<1>3. e \notin Node => Op(e) = "jmp32"
  BY DEF Op
<1>4. DetermineInsnSize(e)' = DetermineInsnSize(e)
  BY <1>1, <1>2, <1>3 DEF DetermineInsnSize
<1> QED BY <1>1, <1>4 DEF DetermineDollopEntrySize

LEMMA InARowIs ==
    ASSUME ProgType, OncePer, NEW order \in Orders(Fronts)
    PROVE  /\ InARow(order) \in Seq(Entry) /\ Distinct(InARow(order))
           /\ \A k \in 1 .. Len(order) : \A x, y :
                 Follows(EntriesAt(order, k), x, y) => Follows(InARow(order), x, y)
           /\ \A k \in 1 .. Len(order) : k + 1 \in 1 .. Len(order) =>
                 Follows(InARow(order), Last(EntriesAt(order, k)), EntriesAt(order, k + 1)[1])
           /\ \A e : e \in ToSet(InARow(order)) <=>
                        \E k \in 1 .. Len(order) : e \in ToSet(EntriesAt(order, k))
<1> DEFINE s == Dolloped(order)
<1>1. /\ s \in Seq(Seq(Entry)) /\ Len(s) = Len(order) /\ Parts(s)
      /\ \A k \in 1 .. Len(order) : s[k] = EntriesAt(order, k)
  BY DollopsApart
<1> HIDE DEF s
<1>2. /\ FlattenSeq(s) \in Seq(Entry) /\ Distinct(FlattenSeq(s))
      /\ \A k \in 1 .. Len(s) : \A x, y : Follows(s[k], x, y) => Follows(FlattenSeq(s), x, y)
      /\ \A k \in 1 .. Len(s) :
            k + 1 \in 1 .. Len(s) => Follows(FlattenSeq(s), Last(s[k]), s[k + 1][1])
  BY <1>1, FlattenedInOrder
<1>3. ToSet(FlattenSeq(s)) = UNION {ToSet(s[k]) : k \in 1 .. Len(s)}
  BY <1>1, Flattened
<1>4. InARow(order) = FlattenSeq(s)
  BY DEF InARow, s
<1>5. \A e : e \in ToSet(InARow(order)) <=>
                \E k \in 1 .. Len(order) : e \in ToSet(EntriesAt(order, k))
  BY <1>1, <1>3, <1>4
<1>6. ASSUME NEW k \in 1 .. Len(order), NEW x, NEW y, Follows(EntriesAt(order, k), x, y)
      PROVE  Follows(InARow(order), x, y)
  BY <1>1, <1>2, <1>4, <1>6
<1>7. ASSUME NEW k \in 1 .. Len(order), k + 1 \in 1 .. Len(order)
      PROVE  Follows(InARow(order), Last(EntriesAt(order, k)), EntriesAt(order, k + 1)[1])
  BY <1>1, <1>2, <1>4, <1>7
<1> QED BY <1>2, <1>4, <1>5, <1>6, <1>7

LEMMA AddressesAre ==
    ASSUME ProgType, OncePer, prog' = prog, NEW order \in Orders(Fronts), PlacedBy(order)
    PROVE  /\ Addressed'
           /\ \A e : Placed(e)' <=> e \in ToSet(InARow(order))
           /\ \A x, y : Follows(InARow(order), x, y) =>
                 x \in Entry /\ y \in Entry /\ place'[y] = End(x)'
<1> DEFINE s == InARow(order)
           at(k) == Sums(s)[k]
           size(e) == DetermineDollopEntrySize(e)
<1>1. s \in Seq(Entry) /\ Distinct(s)
  BY InARowIs
<1>2. place' = [e \in Entry |-> IF e \in ToSet(s) THEN Sums(s)[CHOOSE k \in DOMAIN s : s[k] = e] ELSE None]
  BY DEF PlacedBy
<1> HIDE DEF s
<1>3. Len(s) \in Nat /\ DOMAIN s = 1 .. Len(s) /\ \A k \in 1 .. Len(s) : s[k] \in Entry
  BY <1>1
<1>4. \A e \in Entry : size(e) \in Nat
  BY SizesAreNumbers
<1>5. \A k \in 1 .. Len(s) :
         /\ at(k) \in Nat /\ at(k) >= 100
         /\ k + 1 \in 1 .. Len(s) => at(k + 1) = at(k) + size(s[k])
         /\ \A j \in 1 .. Len(s) : j < k => at(j) + size(s[j]) <= at(k)
  BY <1>1, <1>4, SumsAscend
<1>6. ASSUME NEW k \in 1 .. Len(s) PROVE place'[s[k]] = at(k)
  <2>1. s[k] \in ToSet(s) /\ s[k] \in Entry
    BY <1>3 DEF ToSet
  <2>2. (CHOOSE j \in DOMAIN s : s[j] = s[k]) = k
    BY <1>1, <1>3 DEF Distinct
  <2> QED BY <1>2, <2>1, <2>2
<1>7. \A e \in Entry : size(e)' = size(e)
  BY SizesStay
<1> HIDE DEF at, size
<1>8. ASSUME NEW e PROVE e \in ToSet(s) <=> \E k \in 1 .. Len(s) : s[k] = e
  BY <1>3 DEF ToSet
<1>9. \A k \in 1 .. Len(s) : at(k) # None
  BY <1>5, Nodes
<1>10. ASSUME NEW e PROVE Placed(e)' <=> e \in ToSet(s)
  <2>1. e \in ToSet(s) => e \in Entry /\ place'[e] # None
    BY <1>3, <1>6, <1>8, <1>9
  <2>2. e \in Entry /\ e \notin ToSet(s) => place'[e] = None
    BY <1>2
  <2> QED BY <2>1, <2>2 DEF Placed
<1>11. place' \in [Entry -> Nat \cup {None}]
  <2>1. \A e \in Entry : place'[e] \in Nat \cup {None}
    <3> SUFFICES ASSUME NEW e \in Entry PROVE place'[e] \in Nat \cup {None}
      OBVIOUS
    <3>1. e \notin ToSet(s) => place'[e] = None
      BY <1>2
    <3> QED BY <1>5, <1>6, <1>8, <3>1
  <2>2. place' = [e \in Entry |-> place'[e]]
    BY <1>2
  <2> QED BY <2>1, <2>2
<1>12. \A e \in Entry : End(e)' = place'[e] + size(e)
  BY <1>7 DEF End, size
<1>13. \A e : e \in Entry /\ Placed(e)' => place'[e] >= 100
  BY <1>5, <1>6, <1>8, <1>10
<1>14. ASSUME NEW e \in Entry, NEW g \in Entry, Placed(e)', Placed(g)', e # g
       PROVE  End(e)' <= place'[g] \/ End(g)' <= place'[e]
  <2>1. PICK j \in 1 .. Len(s) : s[j] = e
    BY <1>8, <1>10, <1>14
  <2>2. PICK k \in 1 .. Len(s) : s[k] = g
    BY <1>8, <1>10, <1>14
  <2>3. j < k \/ k < j
    BY <1>3, <1>14, <2>1, <2>2
  <2>4. place'[e] = at(j) /\ place'[g] = at(k)
    BY <1>6, <2>1, <2>2
  <2>5. End(e)' = at(j) + size(s[j]) /\ End(g)' = at(k) + size(s[k])
    BY <1>12, <2>1, <2>2, <2>4
  <2>6. j < k => at(j) + size(s[j]) <= at(k)
    BY <1>5
  <2>7. k < j => at(k) + size(s[k]) <= at(j)
    BY <1>5
  <2> QED BY <2>3, <2>4, <2>5, <2>6, <2>7
<1>15. Addressed'
  BY <1>11, <1>13, <1>14 DEF Addressed
<1>16. ASSUME NEW x, NEW y, Follows(s, x, y)
       PROVE  x \in Entry /\ y \in Entry /\ place'[y] = End(x)'
  <2>1. PICK k \in 1 .. Len(s) : k + 1 \in 1 .. Len(s) /\ s[k] = x /\ s[k + 1] = y
    BY <1>16 DEF Follows
  <2>2. x \in Entry /\ y \in Entry
    BY <1>3, <2>1
  <2>3. place'[x] = at(k) /\ place'[y] = at(k + 1)
    BY <1>6, <2>1
  <2>4. End(x)' = at(k) + size(x)
    BY <1>12, <2>2, <2>3
  <2>5. at(k + 1) = at(k) + size(x)
    BY <1>5, <2>1
  <2> QED BY <2>2, <2>3, <2>4, <2>5
<1> QED BY <1>10, <1>15, <1>16 DEF s

(* Placement: all entries that got a place are to be written, each once.   *)
LEMMA ReversedParts ==
    ASSUME NEW S, NEW s \in Seq(Seq(S)), Parts(s)
    PROVE  /\ Reverse(s) \in Seq(Seq(S)) /\ Parts(Reverse(s))
           /\ UNION {ToSet(Reverse(s)[k]) : k \in 1 .. Len(Reverse(s))} = UNION {ToSet(s[k]) : k \in 1 .. Len(s)}
<1> DEFINE r == Reverse(s)
           C == Len(s)
<1>1. C \in Nat /\ \A k \in 1 .. C : s[k] \in Seq(S)
  BY LenProperties, ElementOfSeq
<1>2. r = [k \in 1 .. C |-> s[(C - k) + 1]]
  BY DEF Reverse
<1>3. \A k \in 1 .. C : (C - k) + 1 \in 1 .. C /\ (C - ((C - k) + 1)) + 1 = k
  BY <1>1
<1> HIDE DEF C
<1>4. r \in Seq(Seq(S)) /\ Len(r) = C /\ \A k \in 1 .. C : r[k] = s[(C - k) + 1]
  <2>1. \A k \in 1 .. C : s[(C - k) + 1] \in Seq(S)
    BY <1>1, <1>3
  <2>2. r \in [1 .. C -> Seq(S)]
    BY <1>2, <2>1
  <2>3. r \in Seq(Seq(S))
    BY <1>1, <2>2
  <2> HIDE DEF r
  <2> QED BY <1>1, <1>2, <2>2, <2>3
<1> HIDE DEF r
<1>5. \A k \in 1 .. C : s[k] = r[(C - k) + 1]
  BY <1>3, <1>4
<1>6. \A k \in 1 .. C : Len(s[k]) > 0 /\ Distinct(s[k])
  BY DEF Parts, C
<1>7. \A k, l \in 1 .. C : k # l => ToSet(s[k]) \cap ToSet(s[l]) = {}
  BY DEF Parts, C
<1>8. \A k, l \in 1 .. C : k # l => (C - k) + 1 # (C - l) + 1
  BY <1>1
<1>9. Parts(r)
  <2>1. \A k \in 1 .. C : Len(r[k]) > 0 /\ Distinct(r[k])
    BY <1>3, <1>4, <1>6
  <2>2. ASSUME NEW k \in 1 .. C, NEW l \in 1 .. C, k # l PROVE ToSet(r[k]) \cap ToSet(r[l]) = {}
    <3>1. r[k] = s[(C - k) + 1] /\ r[l] = s[(C - l) + 1]
      BY <1>4
    <3>2. (C - k) + 1 \in 1 .. C /\ (C - l) + 1 \in 1 .. C /\ (C - k) + 1 # (C - l) + 1
      BY <1>3, <1>8, <2>2
    <3> QED BY <1>7, <3>1, <3>2
  <2> QED BY <1>4, <2>1, <2>2 DEF Parts
<1>10. {ToSet(r[k]) : k \in 1 .. C} = {ToSet(s[k]) : k \in 1 .. C}
  <2>1. \A k \in 1 .. C : ToSet(r[k]) = ToSet(s[(C - k) + 1])
    BY <1>4
  <2>2. \A k \in 1 .. C : ToSet(s[k]) = ToSet(r[(C - k) + 1])
    BY <1>5
  <2>3. \A k \in 1 .. C : (C - k) + 1 \in 1 .. C
    BY <1>3
  <2> HIDE DEF r, C
  <2>4. ASSUME NEW k \in 1 .. C
        PROVE  /\ \E l \in 1 .. C : ToSet(r[k]) = ToSet(s[l])
               /\ \E l \in 1 .. C : ToSet(s[k]) = ToSet(r[l])
    BY <2>1, <2>2, <2>3
  <2> QED BY <2>4
<1> QED BY <1>4, <1>9, <1>10 DEF r, C

LEMMA TodoIs ==
    ASSUME ProgType, OncePer, NEW order \in Orders(Fronts),
           NEW s \in {InARow(order), FlattenSeq(Reverse(Dolloped(order)))}
    PROVE  s \in Seq(Entry) /\ Distinct(s) /\ ToSet(s) = ToSet(InARow(order))
<1> DEFINE D == Dolloped(order)
           R == Reverse(D)
<1>1. D \in Seq(Seq(Entry)) /\ Parts(D)
  BY DollopsApart
<1> HIDE DEF D
<1>2. /\ R \in Seq(Seq(Entry)) /\ Parts(R)
      /\ UNION {ToSet(R[k]) : k \in 1 .. Len(R)} = UNION {ToSet(D[k]) : k \in 1 .. Len(D)}
  BY <1>1, ReversedParts
<1> HIDE DEF R
<1>3. /\ FlattenSeq(D) \in Seq(Entry) /\ Distinct(FlattenSeq(D))
      /\ ToSet(FlattenSeq(D)) = UNION {ToSet(D[k]) : k \in 1 .. Len(D)}
  BY <1>1, FlattenedInOrder, Flattened
<1>4. /\ FlattenSeq(R) \in Seq(Entry) /\ Distinct(FlattenSeq(R))
      /\ ToSet(FlattenSeq(R)) = UNION {ToSet(R[k]) : k \in 1 .. Len(R)}
  BY <1>2, FlattenedInOrder, Flattened
<1> QED BY <1>2, <1>3, <1>4 DEF InARow, D, R

LEMMA DollopsPlaced ==
    ASSUME IInv, PlaceDollops PROVE IInv'
<1>1. /\ ProgType /\ NoPrefixes /\ NothingLacks /\ FallsOnce /\ pc = "place" /\ pc' = "write"
      /\ prog' = prog
  BY DEF IInv, PlaceDollops
<1>2. OncePer
  BY <1>1 DEF FallsOnce, OncePer
<1>3. PICK order \in Orders(Fronts) : PlacedBy(order)
  BY <1>1, PlacementIs
<1> DEFINE n == Len(order)
           E(k) == EntriesAt(order, k)
<1>4. /\ n \in Nat /\ DOMAIN layout' = 1 .. n
      /\ \A k \in 1 .. n : layout'[k].entries = E(k) /\ layout'[k].fallthrough = NextOf(order[k])
  BY <1>1, <1>3, OrderIs DEF PlacedBy
<1>5. /\ Addressed' /\ \A e : Placed(e)' <=> e \in ToSet(InARow(order))
      /\ \A e : e \in ToSet(InARow(order)) <=> \E k \in 1 .. n : e \in ToSet(E(k))
  BY <1>1, <1>2, <1>3, AddressesAre, InARowIs
<1> HIDE DEF n, E
<1>6. ASSUME NEW k \in 1 .. n, NEW e \in ToSet(E(k)) PROVE place'[e] \in Nat /\ InDollop(e)'
  <2>1. Placed(e)'
    BY <1>5
  <2>2. place'[e] \in Nat
    BY <1>5, <2>1 DEF Placed, Addressed
  <2>3. layout'[k] \in ToSet(layout') /\ layout'[k].entries = E(k)
    BY <1>4 DEF ToSet
  <2> QED BY <2>2, <2>3 DEF InDollop
<1>7. ASSUME NEW k \in 1 .. n
      PROVE  /\ E(k) \in Seq(Entry) /\ Len(E(k)) > 0 /\ E(k)[1] = order[k]
             /\ E(k)[Len(E(k))] \in Node =>
                   Unlinked(order, k) /\ NextOf(order[k]) = prog.ft[E(k)[Len(E(k))]]
  <2>1. /\ E(k) \in Seq(Entry) /\ Len(E(k)) > 0 /\ E(k)[1] = order[k]
        /\ Len(E(k)) = Len(Run(order[k], Fronts)) + (IF Unlinked(order, k) THEN 0 ELSE 1)
        /\ \A j \in 1 .. Len(Run(order[k], Fronts)) : E(k)[j] = Run(order[k], Fronts)[j]
        /\ ~ Unlinked(order, k) => E(k)[Len(Run(order[k], Fronts)) + 1] = Appended(order[k])
        /\ Chain(Run(order[k], Fronts), order[k], Fronts)
    BY <1>1, <1>2, EntriesAre DEF n, E
  <2>2. /\ Len(Run(order[k], Fronts)) \in Nat /\ Len(Run(order[k], Fronts)) > 0
        /\ Appended(order[k]) \notin Node
    BY <1>1, <2>1, OrderIs, AppendedOnce DEF Chain, n
  <2>3. CASE Unlinked(order, k)
    <3>1. E(k)[Len(E(k))] = Last(Run(order[k], Fronts))
      BY <2>1, <2>2, <2>3 DEF Last
    <3> QED BY <2>1, <2>3, <3>1 DEF NextOf
  <2>4. CASE ~ Unlinked(order, k)
    BY <2>1, <2>2, <2>4
  <2> QED BY <2>3, <2>4
<1>8. ASSUME NEW d \in ToSet(layout') PROVE PlacedDollop(d)'
  <2>1. PICK k \in 1 .. n : d = layout'[k]
    BY <1>4 DEF ToSet
  <2>2. d.entries = E(k) /\ d.fallthrough = NextOf(order[k])
    BY <1>4, <2>1
  <2>3. \A i \in 1 .. Len(E(k)) : place'[E(k)[i]] \in Nat
    BY <1>6, <1>7 DEF ToSet
  <2>4. ASSUME E(k)[Len(E(k))] \in Node, NextOf(order[k]) # None
        PROVE  place'[NextOf(order[k])] \in Nat
    <3>1. k < n /\ order[k + 1] = NextOf(order[k])
      BY <1>7, <2>4 DEF Unlinked, n
    <3>2. k + 1 \in 1 .. n
      BY <1>4, <3>1
    <3>3. NextOf(order[k]) \in ToSet(E(k + 1))
      BY <1>7, <3>1, <3>2 DEF ToSet
    <3> QED BY <1>6, <3>2, <3>3
  <2> QED BY <1>1, <1>7, <2>2, <2>3, <2>4 DEF PlacedDollop
<1>9. todo' \in Seq(Entry) /\ \A e \in ToSet(todo') : InDollop(e)'
  <2>1. todo' \in Seq(Entry) /\ ToSet(todo') = ToSet(InARow(order))
    BY <1>1, <1>2, <1>3, TodoIs DEF PlacedBy
  <2>2. ASSUME NEW e \in ToSet(InARow(order)) PROVE InDollop(e)'
    BY <1>5, <1>6, <2>2
  <2> QED BY <2>1, <2>2
<1>10. AllPlaced'
  <2>1. \A k \in 1 .. Len(todo') : todo'[k] \in ToSet(todo')
    BY <1>9 DEF ToSet
  <2> QED BY <1>8, <1>9, <2>1 DEF AllPlaced
<1> QED BY <1>1, <1>10 DEF IInv, ProgType, NoPrefixes, NothingLacks, FallsOnce, AsLifted, AsRepaired

-----------------------------------------------------------------------------
(* Writing.  The end of what is written is the end of its last item.       *)
LEMMA EndOf ==
    ASSUME NEW I, NEW b \in Nat,
           \E m \in I : m.at + m.size = b,
           \A m \in I : m.at + m.size \in Nat /\ m.at + m.size <= b
    PROVE  SizeOfItems(I) = b
<1> DEFINE ends == {m.at + m.size : m \in I}
<1>1. b \in ends /\ \A c \in ends : c \in Nat /\ c <= b
  OBVIOUS
<1>2. \A x \in ends : (\A c \in ends : c <= x) => x = b
  <2> HIDE DEF ends
  <2>1. ASSUME NEW x \in ends, \A c \in ends : c <= x PROVE x = b
    <3>1. x \in Nat /\ x <= b /\ b <= x
      BY <1>1, <2>1
    <3> QED BY <3>1
  <2> QED BY <2>1
<1>3. SizeOfItems(I) = CHOOSE x \in ends : \A c \in ends : c <= x
  BY DEF SizeOfItems
<1> HIDE DEF ends
<1> QED BY <1>1, <1>2, <1>3

LEMMA FallthroughHasPlace ==
    ASSUME ProgType, AllPlaced, pc = "write", NEW e \in Node, InDollop(e), prog.ft[e] # None
    PROVE  FallthroughPlace(e) # None
<1> DEFINE d == DollopOf(e)
           i == CHOOSE k \in DOMAIN d.entries : d.entries[k] = e
<1>1. d \in ToSet(layout) /\ e \in ToSet(d.entries)
  BY DEF InDollop, DollopOf
<1>2. PlacedDollop(d)
  BY <1>1 DEF AllPlaced
<1>3. \E k \in DOMAIN d.entries : d.entries[k] = e
  BY <1>1 DEF ToSet
<1>4. i \in DOMAIN d.entries /\ d.entries[i] = e
  BY <1>3
<1>5. FallthroughPlace(e) = IF i < Len(d.entries) THEN place[d.entries[i + 1]]
                            ELSE IF d.fallthrough = None THEN None ELSE place[d.fallthrough]
  BY DEF FallthroughPlace
<1> HIDE DEF i, d
<1>6. DOMAIN d.entries = 1 .. Len(d.entries) /\ Len(d.entries) \in Nat
  BY <1>2, LenProperties DEF PlacedDollop
<1>7. CASE i < Len(d.entries)
  <2>1. i + 1 \in 1 .. Len(d.entries)
    BY <1>4, <1>6, <1>7
  <2>2. place[d.entries[i + 1]] \in Nat
    BY <1>2, <2>1 DEF PlacedDollop
  <2> QED BY <1>5, <1>7, <2>2, Nodes
<1>8. CASE ~ (i < Len(d.entries))
  <2>1. i = Len(d.entries)
    BY <1>4, <1>6, <1>8
  <2>2. d.fallthrough = prog.ft[e] /\ place[d.fallthrough] \in Nat
    BY <1>2, <1>4, <2>1 DEF PlacedDollop
  <2> QED BY <1>5, <1>8, <2>2, Nodes
<1> QED BY <1>7, <1>8

LEMMA WrittenFits ==
    ASSUME IInv, pc = "write", NEW e \in Entry, InDollop(e), NEW a \in Nat, NEW t
    PROVE  /\ PlopDollopEntry(e, a, t) # {}
           /\ SizeOfItems(PlopDollopEntry(e, a, t)) = a + DetermineInsnSize(e)
<1> DEFINE new == PlopDollopEntry(e, a, t)
           b == Bits(Op(e), Prefix(e))
<1> SUFFICES new # {} /\ SizeOfItems(new) = a + DetermineInsnSize(e)
  OBVIOUS
<1>1. ProgType /\ NoPrefixes /\ NothingLacks /\ AllPlaced
  BY DEF IInv
<1>2. /\ Op(e) \in {"plain", "callback", "hlt", "none", "jcc8", "loop", "jcc32", "jmp8", "jmp32"}
      /\ Prefix(e) \in Nat
  BY <1>1, OpsAre
<1>3. e \in Node => /\ Op(e) \in Branch => Prefix(e) = 0 /\ TargetOf(e) # None
                    /\ Op(e) \notin Branch => TargetOf(e) = None
                    /\ Op(e) = "loop" => prog.ft[e] # None
  <2>1. e \in Node => Op(e) = prog.op[e] /\ Prefix(e) = prog.prefix[e] /\ TargetOf(e) = prog.target[e]
    BY DEF Op, Prefix, TargetOf
  <2> QED BY <1>1, <2>1, Kind DEF ProgType, NoPrefixes, NothingLacks
<1>4. e \notin Node => Op(e) = "jmp32" /\ Prefix(e) = 0
  BY DEF Op, Prefix
<1>5. b \in Nat
  BY <1>2 DEF Bits
<1>6. ASSUME NEW x \in Nat, \E o, u : new = {Item(a, x, o, u, e)}
      PROVE  new # {} /\ SizeOfItems(new) = a + x
  <2>1. PICK m : new = {m} /\ m.at = a /\ m.size = x
    <3>1. PICK o, u : new = {Item(a, x, o, u, e)}
      BY <1>6
    <3>2. Item(a, x, o, u, e).at = a /\ Item(a, x, o, u, e).size = x
      BY DEF Item
    <3> HIDE DEF new
    <3> QED BY <3>1, <3>2
  <2> HIDE DEF new
  <2>2. a + x \in Nat
    OBVIOUS
  <2> QED BY <2>1, <2>2, EndOf
<1>7. CASE Op(e) = "callback"
  <2>1. e \in Node /\ TargetOf(e) = None
    BY <1>3, <1>4, <1>7, Kind
  <2> DEFINE m == Item(a, 5, "call", None, e)
             l == Item(a + 5, CallbackBytes - 5, "lea", None, None)
             c == CallbackBytes
  <2>2. new = {m, l}
    BY <1>7, <2>1 DEF PlopDollopEntry
  <2>3. c \in Nat /\ c > 5
    BY SizesAssumption
  <2>4. m.at + m.size = a + 5 /\ l.at + l.size = a + c
    BY <2>3 DEF Item
  <2>5. DetermineInsnSize(e) = c
    BY <1>7, SizesAssumption DEF DetermineInsnSize
  <2>6. a + c \in Nat /\ a + 5 \in Nat /\ a + 5 <= a + c
    BY <2>3
  <2> HIDE DEF new, m, l, c
  <2>7. SizeOfItems(new) = a + c
    <3>1. \E x \in new : x.at + x.size = a + c
      BY <2>2, <2>4
    <3>2. \A x \in new : x.at + x.size \in Nat /\ x.at + x.size <= a + c
      BY <2>2, <2>4, <2>6
    <3> QED BY <2>6, <3>1, <3>2, EndOf
  <2> QED BY <2>2, <2>5, <2>7
<1>8. CASE Op(e) = "loop"
  <2>1. e \in Node /\ TargetOf(e) # None /\ Prefix(e) = 0 /\ FallthroughPlace(e) # None
    BY <1>1, <1>3, <1>4, <1>8, Kind, FallthroughHasPlace
  <2>2. b = 2
    BY <1>8, <2>1 DEF Bits
  <2> DEFINE f == FallthroughPlace(e)
             m == Item(a, 2, "loop", None, e)
             k == Item(a + 2, 5, "jmp32", f, None)
             l == Item(a + 7, 5, "jmp32", t, None)
  <2>3. new = WithTarget(e, a, t)
    BY <1>8, <2>1 DEF PlopDollopEntry
  <2>4. WithTarget(e, a, t) = {m, k, l}
    BY <1>8, <2>1, <2>2 DEF WithTarget
  <2>5. m.at + m.size = a + 2 /\ k.at + k.size = a + 7 /\ l.at + l.size = a + 12
    BY DEF Item
  <2>6. DetermineInsnSize(e) = 12
    BY <1>8, <2>1 DEF DetermineInsnSize
  <2> HIDE DEF new, m, k, l
  <2>7. SizeOfItems(new) = a + 12
    <3>1. \E x \in new : x.at + x.size = a + 12
      BY <2>3, <2>4, <2>5
    <3>2. \A x \in new : x.at + x.size \in Nat /\ x.at + x.size <= a + 12
      BY <2>3, <2>4, <2>5
    <3>3. a + 12 \in Nat
      OBVIOUS
    <3> QED BY <3>1, <3>2, <3>3, EndOf
  <2> QED BY <2>3, <2>4, <2>6, <2>7
<1>9. CASE Op(e) = "jcc8"
  <2>1. TargetOf(e) # None /\ Prefix(e) = 0
    BY <1>3, <1>4, <1>9, Kind
  <2>2. b = 2
    BY <1>9, <2>1 DEF Bits
  <2>3. new = {Item(a, 6, "jcc32", t, e)}
    BY <1>9, <2>1, <2>2 DEF PlopDollopEntry, WithTarget
  <2>4. DetermineInsnSize(e) = 6
    BY <1>9, <2>1 DEF DetermineInsnSize
  <2> HIDE DEF new
  <2> QED BY <1>6, <2>3, <2>4
<1>10. CASE Op(e) = "jmp8"
  <2>1. TargetOf(e) # None /\ Prefix(e) = 0
    BY <1>3, <1>4, <1>10, Kind
  <2>2. b = 2
    BY <1>10, <2>1 DEF Bits
  <2>3. new = {Item(a, 5, "jmp32", t, e)}
    BY <1>10, <2>1, <2>2 DEF PlopDollopEntry, WithTarget
  <2>4. DetermineInsnSize(e) = 5
    BY <1>10, <2>1 DEF DetermineInsnSize
  <2> HIDE DEF new
  <2> QED BY <1>6, <2>3, <2>4
<1>11. CASE Op(e) \in {"jcc32", "jmp32"}
  <2>1. b > 2
    BY <1>2, <1>11 DEF Bits
  <2>2. DetermineInsnSize(e) = b
    BY <1>11 DEF DetermineInsnSize
  <2>3. TargetOf(e) # None => new = {Item(a, b, Op(e), t, e)}
    BY <1>11, <2>1 DEF PlopDollopEntry, WithTarget
  <2>4. TargetOf(e) = None => new = {Item(a, b, Op(e), None, e)}
    BY <1>11 DEF PlopDollopEntry
  <2> HIDE DEF new, b
  <2> QED BY <1>5, <1>6, <2>2, <2>3, <2>4
<1>12. CASE Op(e) \in {"plain", "hlt", "none"}
  <2>1. TargetOf(e) = None
    BY <1>3, <1>4, <1>12, Kind
  <2>2. DetermineInsnSize(e) = b
    BY <1>12 DEF DetermineInsnSize
  <2>3. new = {Item(a, b, Op(e), None, e)}
    BY <1>12, <2>1 DEF PlopDollopEntry
  <2> HIDE DEF new, b
  <2> QED BY <1>5, <1>6, <2>2, <2>3
<1> QED BY <1>2, <1>7, <1>8, <1>9, <1>10, <1>11, <1>12

LEMMA EntryWritten ==
    ASSUME IInv, WriteEntry PROVE IInv'
<1> DEFINE e == Head(todo)
           a == place[e] + Opening(e)
           t == IF TargetOf(e) = None THEN None ELSE Known(TargetOf(e))
           new == PlopDollopEntry(e, a, t)
<1>1. /\ pc = "write" /\ todo # <<>> /\ ProgType /\ AllPlaced
      /\ todo' = Tail(todo) /\ UNCHANGED <<prog, place, layout>>
  BY DEF IInv, WriteEntry
<1>2. pc' = IF new # {} /\ SizeOfItems(new) = place[e] + DetermineDollopEntrySize(e)
               /\ (Op(e) = "callback" => CALLBACK_TRAMPOLINE_SIZE <= CallbackBytes)
            THEN pc ELSE "aborted"
  BY DEF WriteEntry, _PlopDollopEntry, PlacedAddress
<1>3. todo \in Seq(Entry) /\ Len(todo) \in Nat /\ Len(todo) > 0 /\ todo[1] = e
  BY <1>1 DEF AllPlaced
<1>4. e \in Entry /\ InDollop(e)
  <2>1. 1 \in 1 .. Len(todo)
    BY <1>3
  <2>2. todo[1] \in Entry /\ InDollop(todo[1])
    BY <1>1, <1>3, <2>1, ElementOfSeq DEF AllPlaced
  <2> HIDE DEF e
  <2> QED BY <1>3, <2>2
<1>5. place[e] \in Nat
  <2>1. PICK d \in ToSet(layout) : e \in ToSet(d.entries)
    BY <1>4 DEF InDollop
  <2>2. PlacedDollop(d)
    BY <1>1 DEF AllPlaced
  <2>3. PICK k \in DOMAIN d.entries : d.entries[k] = e
    BY <2>1 DEF ToSet
  <2>4. k \in 1 .. Len(d.entries)
    BY <2>2, LenProperties DEF PlacedDollop
  <2> HIDE DEF e
  <2> QED BY <2>2, <2>3, <2>4 DEF PlacedDollop
<1> HIDE DEF e
<1>6. a \in Nat
  BY <1>1, <1>4, <1>5, OpsAre
<1>7. new # {} /\ SizeOfItems(new) = a + DetermineInsnSize(e)
  <2> HIDE DEF a, t
  <2> QED BY <1>1, <1>4, <1>6, WrittenFits
<1>8. a + DetermineInsnSize(e) = place[e] + DetermineDollopEntrySize(e)
  <2>1. DetermineDollopEntrySize(e) = DetermineInsnSize(e) + Opening(e)
    BY DEF DetermineDollopEntrySize
  <2>2. DetermineDollopEntrySize(e) \in Nat /\ Opening(e) \in {0, 1}
    BY <1>1, <1>4, OpsAre, SizesAreNumbers
  <2>3. DetermineInsnSize(e) \in Nat
    <3>1. DetermineInsnSize(e) \in Nat \/ DetermineInsnSize(e) = Bits(Op(e), Prefix(e))
      BY SizesAssumption DEF DetermineInsnSize
    <3>2. Bits(Op(e), Prefix(e)) \in Nat
      BY <1>1, <1>4, OpsAre DEF Bits
    <3> QED BY <3>1, <3>2
  <2> QED BY <1>5, <2>1, <2>2, <2>3
<1>9. CALLBACK_TRAMPOLINE_SIZE <= CallbackBytes
  BY SizesAssumption
<1> HIDE DEF new, a
<1>10. pc' = "write"
  BY <1>1, <1>2, <1>7, <1>8, <1>9
<1>11. AllPlaced'
  <2>1. /\ Tail(todo) \in Seq(Entry) /\ Len(Tail(todo)) = Len(todo) - 1
        /\ \A k \in 1 .. Len(Tail(todo)) : Tail(todo)[k] = todo[k + 1]
    BY <1>3, HeadTailProperties
  <2>2. ASSUME NEW k \in 1 .. Len(Tail(todo)) PROVE InDollop(Tail(todo)[k])
    <3>1. k + 1 \in 1 .. Len(todo)
      BY <1>3, <2>1
    <3> QED BY <1>1, <2>1, <3>1 DEF AllPlaced
  <2>3. \A x : InDollop(x)' <=> InDollop(x)
    BY <1>1 DEF InDollop
  <2>4. \A d : PlacedDollop(d)' <=> PlacedDollop(d)
    BY <1>1 DEF PlacedDollop
  <2> QED BY <1>1, <2>1, <2>2, <2>3, <2>4 DEF AllPlaced
<1> QED BY <1>1, <1>10, <1>11 DEF IInv, ProgType, NoPrefixes, NothingLacks, FallsOnce, AsLifted, AsRepaired

(* What is written again, patched or left alone disturbs none of it.       *)
LEMMA OthersKeep ==
    ASSUME IInv, UNCHANGED <<prog, place, layout, todo, pc>> PROVE IInv'
<1>1. \A x : InDollop(x)' <=> InDollop(x)
  BY DEF InDollop
<1>2. \A d : PlacedDollop(d)' <=> PlacedDollop(d)
  BY DEF PlacedDollop
<1>3. AllPlaced'
  BY <1>1, <1>2 DEF IInv, AllPlaced
<1> QED BY <1>3 DEF IInv, ProgType, NoPrefixes, NothingLacks, FallsOnce, AsLifted, AsRepaired

LEMMA StepKeeps == IInv /\ [Next]_vars => IInv'
<1> SUFFICES ASSUME IInv, [Next]_vars PROVE IInv'
  OBVIOUS
<1>1. CASE FixTwoByteWithPrefix
  BY <1>1, PrefixesFixed
<1>2. CASE FixNoFallthroughs
  BY <1>2, FallthroughsFixed
<1>3. CASE FixMultipleFallthroughs
  BY <1>3, MultipleFixed
<1>4. CASE PlaceDollops
  BY <1>4, DollopsPlaced
<1>5. CASE WriteEntry
  BY <1>5, EntryWritten
<1>6. CASE ReplopEntry
  BY <1>6, OthersKeep DEF ReplopEntry
<1>7. CASE \E i \in Original : UpdatePin(i)
  BY <1>7, OthersKeep DEF UpdatePin
<1>8. CASE \E i \in Original : UpdateCallback(i)
  BY <1>8, OthersKeep DEF UpdateCallback
<1>9. CASE UNCHANGED vars
  BY <1>9, OthersKeep DEF vars
<1> QED BY <1>1, <1>2, <1>3, <1>4, <1>5, <1>6, <1>7, <1>8, <1>9 DEF Next

(* Invariance: IInv holds from the program the transforms leave to the     *)
(* last patch of CreateBinaryFile.                                         *)
THEOREM Invariance == Spec => []IInv
  BY Starts, StepKeeps, PTL DEF Spec

(* FallsOnce says what OneFallthrough does: FallsInto has one member.      *)
LEMMA OnceIsOne == IInv => OneFallthrough
<1> SUFFICES ASSUME IInv, pc \notin {"prefixes", "fallthroughs", "multiple"}, NEW f \in Node
             PROVE  Cardinality(FallsInto(f)) <= 1
  BY DEF OneFallthrough
<1>1. \A i, j \in FallsInto(f) : i = j
  BY Nodes DEF IInv, FallsOnce, FallsInto
<1>2. CASE FallsInto(f) = {}
  BY <1>2, FS_EmptySet
<1>3. ASSUME NEW i \in FallsInto(f) PROVE Cardinality(FallsInto(f)) <= 1
  <2>1. FallsInto(f) = {i}
    BY <1>1, <1>3
  <2>2. Cardinality({i}) = 1
    BY FS_Singleton
  <2> QED BY <2>1, <2>2
<1> QED BY <1>2, <1>3

(* OneFallthrough: when dollops are made, FixMultipleFallthroughs has left *)
(* each instruction with one predecessor by fallthrough at most, the hlt   *)
(* and the jumps that the repairs added included.                          *)
THEOREM NoSharedFallthrough == Spec => []OneFallthrough
  BY Invariance, OnceIsOne, PTL

(* SizesAgree: the assert of WriteDollops never fails.  Whatever a short   *)
(* branch becomes, and with a plugin's bytes in front, what is written for *)
(* an entry is exactly as long as what the sizer had reserved for it.      *)
THEOREM WrittenAsReserved == Spec => []SizesAgree
<1>1. IInv => SizesAgree
  BY DEF IInv, SizesAgree
<1> QED BY <1>1, Invariance, PTL

-----------------------------------------------------------------------------
(* Control flow: the program the transforms leave is the one that runs.    *)
(* The dollop of an entry, and where it stands in it.                      *)
LEMMA DollopOfIs ==
    ASSUME ProgType, OncePer, prog' = prog, NEW order \in Orders(Fronts), PlacedBy(order),
           NEW k \in 1 .. Len(order), NEW j \in 1 .. Len(EntriesAt(order, k)),
           NEW e, e = EntriesAt(order, k)[j]
    PROVE  /\ DollopOf(e)' = [entries |-> EntriesAt(order, k), fallthrough |-> NextOf(order[k])]
           /\ FallthroughPlace(e)' =
                 IF j < Len(EntriesAt(order, k)) THEN place'[EntriesAt(order, k)[j + 1]]
                 ELSE IF NextOf(order[k]) = None THEN None ELSE place'[NextOf(order[k])]
<1> DEFINE D(l) == [entries |-> EntriesAt(order, l), fallthrough |-> NextOf(order[l])]
<1>1. /\ Len(order) \in Nat
      /\ \A l \in 1 .. Len(order) : /\ EntriesAt(order, l) \in Seq(Entry)
                                    /\ DOMAIN EntriesAt(order, l) = 1 .. Len(EntriesAt(order, l))
                                    /\ Distinct(EntriesAt(order, l))
  <2>1. ASSUME NEW l \in 1 .. Len(order)
        PROVE  EntriesAt(order, l) \in Seq(Entry) /\ Distinct(EntriesAt(order, l))
    BY EntriesAre
  <2> QED BY <2>1, OrderIs, LenProperties
<1>2. layout' = [l \in 1 .. Len(order) |-> D(l)]
  BY DEF PlacedBy
<1>3. ToSet(layout') = {D(l) : l \in 1 .. Len(order)}
  BY <1>2 DEF ToSet
<1>4. \A l \in 1 .. Len(order) : D(l).entries = EntriesAt(order, l)
  OBVIOUS
<1>5. e \in ToSet(EntriesAt(order, k))
  BY <1>1 DEF ToSet
<1>6. \A l \in 1 .. Len(order) : e \in ToSet(EntriesAt(order, l)) => l = k
  <2>1. \A l \in 1 .. Len(order) : l # k => ToSet(EntriesAt(order, k)) \cap ToSet(EntriesAt(order, l)) = {}
    <3>1. /\ Len(Dolloped(order)) = Len(order) /\ Parts(Dolloped(order))
          /\ \A l \in 1 .. Len(order) : Dolloped(order)[l] = EntriesAt(order, l)
      BY DollopsApart
    <3> QED BY <3>1 DEF Parts
  <2> QED BY <1>5, <2>1
<1> HIDE DEF D
<1>7. DollopOf(e)' = D(k)
  <2>1. D(k) \in ToSet(layout') /\ e \in ToSet(D(k).entries)
    BY <1>3, <1>4, <1>5
  <2>2. \A d \in ToSet(layout') : e \in ToSet(d.entries) => d = D(k)
    BY <1>3, <1>4, <1>6
  <2>3. DollopOf(e)' = CHOOSE d \in ToSet(layout') : e \in ToSet(d.entries)
    BY DEF DollopOf
  <2> QED BY <2>1, <2>2, <2>3
<1>8. (CHOOSE i \in DOMAIN EntriesAt(order, k) : EntriesAt(order, k)[i] = e) = j
  BY <1>1 DEF Distinct
<1>9. D(k).fallthrough = NextOf(order[k]) /\ D(k).entries = EntriesAt(order, k)
  BY DEF D
<1>10. FallthroughPlace(e)' =
          LET i == CHOOSE i \in DOMAIN D(k).entries : D(k).entries[i] = e
          IN  IF i < Len(D(k).entries) THEN place'[D(k).entries[i + 1]]
              ELSE IF D(k).fallthrough = None THEN None ELSE place'[D(k).fallthrough]
  BY <1>7 DEF FallthroughPlace
<1>11. FallthroughPlace(e)' =
          IF j < Len(EntriesAt(order, k)) THEN place'[EntriesAt(order, k)[j + 1]]
          ELSE IF NextOf(order[k]) = None THEN None ELSE place'[NextOf(order[k])]
  BY <1>8, <1>9, <1>10
<1> QED BY <1>7, <1>11 DEF D

(* What is placed is reached, each front among it.                         *)
LEMMA PlacedAreReached ==
    ASSUME ProgType, OncePer, NEW order \in Orders(Fronts)
    PROVE  /\ \A h \in Fronts : h \in ToSet(InARow(order))
           /\ \A i \in Node : i \in ToSet(InARow(order)) => i \in Reached
<1>1. \A k \in 1 .. Len(order) : /\ EntriesAt(order, k) \in Seq(Entry)
                                 /\ DOMAIN EntriesAt(order, k) = 1 .. Len(EntriesAt(order, k))
  <2> SUFFICES ASSUME NEW k \in 1 .. Len(order)
               PROVE  EntriesAt(order, k) \in Seq(Entry)
                      /\ DOMAIN EntriesAt(order, k) = 1 .. Len(EntriesAt(order, k))
    OBVIOUS
  <2>1. EntriesAt(order, k) \in Seq(Entry)
    BY EntriesAre
  <2> QED BY <2>1, LenProperties
<1>2. ASSUME NEW h \in Fronts PROVE h \in ToSet(InARow(order))
  <2>1. PICK k \in 1 .. Len(order) : order[k] = h
    BY OrderIs
  <2>2. EntriesAt(order, k)[1] = h /\ Len(EntriesAt(order, k)) > 0 /\ EntriesAt(order, k) \in Seq(Entry)
    BY <2>1, EntriesAre
  <2>3. 1 \in 1 .. Len(EntriesAt(order, k))
    BY <2>2
  <2>4. h \in ToSet(EntriesAt(order, k))
    BY <1>1, <2>2, <2>3 DEF ToSet
  <2> QED BY <2>4, InARowIs
<1>3. ASSUME NEW k \in 1 .. Len(order)
      PROVE  \A j \in 1 .. Len(Run(order[k], Fronts)) : Run(order[k], Fronts)[j] \in Reached
  <2> DEFINE s == Run(order[k], Fronts)
             T == {j \in 1 .. Len(s) : s[j] \in Reached}
  <2>1. Chain(s, order[k], Fronts)
    BY EntriesAre
  <2>2. s \in Seq(Node) /\ Len(s) \in Nat /\ Len(s) > 0 /\ s[1] = order[k]
    <3> HIDE DEF s
    <3> QED BY <2>1 DEF Chain
  <2>3. order[k] \in Reached
    BY OrderIs, FrontsAre
  <2> HIDE DEF s
  <2>4. 1 \in T
    BY <2>2, <2>3
  <2>5. ASSUME NEW j \in 1 .. Len(s), j + 1 \in 1 .. Len(s), j \in T PROVE j + 1 \in T
    <3>1. s[j + 1] = prog.ft[s[j]] /\ s[j + 1] \in Node
      BY <2>1, <2>2, <2>5 DEF Chain
    <3>2. s[j + 1] \in Reached \cup {None}
      BY <2>5, <3>1, ReachedCloses
    <3> QED BY <2>5, <3>1, <3>2, Nodes
  <2>6. 1 .. Len(s) \subseteq T
    <3> HIDE DEF T
    <3> QED BY <2>2, <2>4, <2>5, UpTo
  <2> QED BY <2>6 DEF s
<1>4. ASSUME NEW i \in Node, i \in ToSet(InARow(order)) PROVE i \in Reached
  <2>1. PICK k \in 1 .. Len(order) : i \in ToSet(EntriesAt(order, k))
    BY <1>4, InARowIs
  <2>2. PICK j \in 1 .. Len(EntriesAt(order, k)) : EntriesAt(order, k)[j] = i
    BY <1>1, <2>1 DEF ToSet
  <2>3. order[k] \in Node
    BY OrderIs
  <2>4. j \in 1 .. Len(Run(order[k], Fronts)) /\ i = Run(order[k], Fronts)[j]
    BY <1>4, <2>2, <2>3, EntryIs, AppendedOnce
  <2> QED BY <1>3, <2>4
<1> QED BY <1>2, <1>4

LEMMA LinksArePlaced ==
    ASSUME ProgType, OncePer, prog' = prog, NEW order \in Orders(Fronts), PlacedBy(order)
    PROVE  LinksPlaced'
<1>1. /\ \A e : Placed(e)' <=> e \in ToSet(InARow(order))
      /\ \A x, y : Follows(InARow(order), x, y) =>
            x \in Entry /\ y \in Entry /\ place'[y] = End(x)'
  BY AddressesAre
<1>2. \A h \in Fronts : Placed(h)'
  BY <1>1, PlacedAreReached
<1>3. \A k \in 1 .. Len(order) : /\ EntriesAt(order, k) \in Seq(Entry)
                                 /\ DOMAIN EntriesAt(order, k) = 1 .. Len(EntriesAt(order, k))
                                 /\ Len(EntriesAt(order, k)) \in Nat
  <2> SUFFICES ASSUME NEW k \in 1 .. Len(order)
               PROVE  EntriesAt(order, k) \in Seq(Entry)
                      /\ DOMAIN EntriesAt(order, k) = 1 .. Len(EntriesAt(order, k))
                      /\ Len(EntriesAt(order, k)) \in Nat
    OBVIOUS
  <2>1. EntriesAt(order, k) \in Seq(Entry)
    BY EntriesAre
  <2> QED BY <2>1, LenProperties
<1>4. ASSUME NEW e, Placed(e)'
      PROVE  \E k \in 1 .. Len(order) : \E j \in 1 .. Len(EntriesAt(order, k)) : e = EntriesAt(order, k)[j]
  <2>1. PICK k \in 1 .. Len(order) : e \in ToSet(EntriesAt(order, k))
    BY <1>1, <1>4, InARowIs
  <2> QED BY <1>3, <2>1 DEF ToSet
<1>5. ASSUME NEW i \in Pinned' PROVE Placed(i)'
  <2>1. i \in Fronts
    BY DEF Fronts, Pinned
  <2> QED BY <1>2, <2>1
<1>6. ASSUME NEW e \in Entry, Placed(e)', TargetOf(e)' # None PROVE Placed(TargetOf(e))'
  <2>1. CASE e \in Node
    <3>1. e \in Reached /\ TargetOf(e)' = prog.target[e]
      BY <1>1, <1>6, <2>1, PlacedAreReached DEF TargetOf
    <3>2. prog.target[e] \in Fronts
      BY <1>6, <3>1 DEF Fronts
    <3>3. Placed(prog.target[e])'
      BY <1>2, <3>2
    <3>4. TargetOf(e)' \in Entry /\ place'[TargetOf(e)'] # None
      BY <3>1, <3>3 DEF Placed
    <3> QED BY <3>4 DEF Placed
  <2>2. CASE e \notin Node
    <3>1. PICK k \in 1 .. Len(order) : \E j \in 1 .. Len(EntriesAt(order, k)) : e = EntriesAt(order, k)[j]
      BY <1>4, <1>6
    <3>2. PICK j \in 1 .. Len(EntriesAt(order, k)) : e = EntriesAt(order, k)[j]
      BY <3>1
    <3>3. DollopOf(e)' = [entries |-> EntriesAt(order, k), fallthrough |-> NextOf(order[k])]
      BY <3>2, DollopOfIs
    <3>4. TargetOf(e)' = NextOf(order[k])
      BY <2>2, <3>3 DEF TargetOf
    <3>5. NextOf(order[k]) \in Fronts \cup {None}
      BY EntriesAre
    <3>6. NextOf(order[k]) \in Fronts
      BY <1>6, <3>4, <3>5
    <3>7. \A h \in Fronts : h \in Entry /\ place'[h] # None
      BY <1>2 DEF Placed
    <3>8. TargetOf(e)' \in Entry /\ place'[TargetOf(e)'] # None
      BY <3>4, <3>6, <3>7
    <3> QED BY <3>8 DEF Placed
  <2> QED BY <2>1, <2>2
<1>7. ASSUME NEW i \in Node, Placed(i)', prog.ft[i] # None PROVE GoesOn(i)'
  <2>1. PICK k \in 1 .. Len(order) : \E j \in 1 .. Len(EntriesAt(order, k)) : i = EntriesAt(order, k)[j]
    BY <1>4, <1>7
  <2>2. PICK j \in 1 .. Len(EntriesAt(order, k)) : i = EntriesAt(order, k)[j]
    BY <2>1
  <2> DEFINE all == EntriesAt(order, k)
             run == Run(order[k], Fronts)
             f == prog.ft[i]
  <2>3. order[k] \in Node /\ order[k] \in Fronts /\ Len(order) \in Nat
    BY OrderIs
  <2>4. j \in 1 .. Len(run) /\ i = run[j]
    BY <1>7, <2>2, <2>3, EntryIs, AppendedOnce
  <2>5. /\ Chain(run, order[k], Fronts) /\ NextOf(order[k]) \in Fronts \cup {None}
        /\ all \in Seq(Entry)
        /\ Len(all) = Len(run) + (IF Unlinked(order, k) THEN 0 ELSE 1)
        /\ \A m \in 1 .. Len(run) : all[m] = run[m]
        /\ ~ Unlinked(order, k) => all[Len(run) + 1] = Appended(order[k])
    BY EntriesAre
  <2>6. /\ DollopOf(i)' = [entries |-> all, fallthrough |-> NextOf(order[k])]
        /\ FallthroughPlace(i)' =
              IF j < Len(all) THEN place'[all[j + 1]]
              ELSE IF NextOf(order[k]) = None THEN None ELSE place'[NextOf(order[k])]
    BY <2>2, DollopOfIs
  <2>7. NextOf(order[k]) = prog.ft[run[Len(run)]]
    BY DEF NextOf, Last
  <2> HIDE DEF all, run
  <2>8. run \in Seq(Node) /\ Len(run) \in Nat /\ Len(all) \in Nat
    BY <2>5 DEF Chain
  <2>9. \A m \in 1 .. Len(all) : m + 1 \in 1 .. Len(all) => Follows(InARow(order), all[m], all[m + 1])
    <3>1. \A m \in 1 .. Len(all) : m + 1 \in 1 .. Len(all) => Follows(all, all[m], all[m + 1])
      BY DEF Follows
    <3> QED BY <3>1, InARowIs DEF all
  <2>10. i = all[j]
    BY <2>2 DEF all
  <2>11. SUFFICES \E e \in Entry : /\ place'[e] = End(i)' /\ FallthroughPlace(i)' = place'[e]
                                   /\ e = f \/ (e \notin Node /\ TargetOf(e)' = f)
    BY DEF GoesOn
  <2>12. CASE j + 1 \in 1 .. Len(run)
    <3>1. j + 1 \in 1 .. Len(all) /\ j \in 1 .. Len(all) /\ j < Len(all)
      BY <2>4, <2>5, <2>8, <2>12
    <3>2. run[j + 1] = f
      BY <2>4, <2>5, <2>12 DEF Chain
    <3>3. all[j + 1] = f
      BY <2>5, <2>12, <3>2
    <3>4. Follows(InARow(order), i, f)
      BY <2>9, <2>10, <3>1, <3>3
    <3>5. f \in Entry /\ place'[f] = End(i)'
      BY <1>1, <3>4
    <3>6. FallthroughPlace(i)' = place'[f]
      BY <2>6, <3>1, <3>3
    <3> QED BY <3>5, <3>6
  <2>13. CASE j + 1 \notin 1 .. Len(run)
    <3>1. j = Len(run)
      BY <2>4, <2>8, <2>13
    <3>2. NextOf(order[k]) = f
      BY <2>4, <2>7, <3>1
    <3>3. CASE Unlinked(order, k)
      <4>1. k < Len(order) /\ order[k + 1] = f
        BY <1>7, <3>2, <3>3 DEF Unlinked
      <4>2. k + 1 \in 1 .. Len(order)
        BY <2>3, <4>1
      <4>3. EntriesAt(order, k + 1)[1] = f
        BY <4>1, <4>2, EntriesAre
      <4>4. Len(all) = j
        BY <2>5, <2>8, <3>1, <3>3
      <4>5. Last(EntriesAt(order, k)) = i
        BY <2>10, <4>4 DEF Last, all
      <4>6. Follows(InARow(order), i, f)
        <5>1. Follows(InARow(order), Last(EntriesAt(order, k)), EntriesAt(order, k + 1)[1])
          BY <4>2, InARowIs
        <5> QED BY <4>3, <4>5, <5>1
      <4>7. f \in Entry /\ place'[f] = End(i)'
        BY <1>1, <4>6
      <4>8. FallthroughPlace(i)' = place'[f]
        BY <1>7, <2>6, <2>8, <3>2, <4>4
      <4> QED BY <4>7, <4>8
    <3>4. CASE ~ Unlinked(order, k)
      <4> DEFINE e == Appended(order[k])
      <4>1. Len(all) = j + 1 /\ all[j + 1] = e
        BY <2>5, <3>1, <3>4
      <4>2. j \in 1 .. Len(all) /\ j + 1 \in 1 .. Len(all) /\ j < Len(all)
        BY <2>4, <2>8, <4>1
      <4>3. Follows(InARow(order), i, e)
        BY <2>9, <2>10, <4>1, <4>2
      <4>4. e \in Entry /\ place'[e] = End(i)'
        BY <1>1, <4>3
      <4>5. FallthroughPlace(i)' = place'[e]
        BY <2>6, <4>1, <4>2
      <4>6. DollopOf(e)' = [entries |-> EntriesAt(order, k), fallthrough |-> NextOf(order[k])]
        <5>1. e = EntriesAt(order, k)[j + 1] /\ j + 1 \in 1 .. Len(EntriesAt(order, k))
          BY <4>1, <4>2 DEF all
        <5> HIDE DEF e
        <5> QED BY <5>1, DollopOfIs
      <4>7. e \notin Node
        BY <2>3, AppendedOnce
      <4>8. TargetOf(e)' = f
        BY <3>2, <4>6, <4>7 DEF TargetOf
      <4> QED BY <4>4, <4>5, <4>7, <4>8
    <3> QED BY <3>3, <3>4
  <2> QED BY <2>12, <2>13
<1>8. \A i \in Node : Placed(i)' /\ prog'.ft[i] # None => GoesOn(i)'
  BY <1>7
<1> QED BY <1>5, <1>6, <1>8 DEF LinksPlaced

-----------------------------------------------------------------------------
(* The program and its source: what the repairs do to it.                  *)
FallOf(i) == Expected(i, "ft", Jcc)
GoalOf(i) == Expected(i, "target", Branch)

Relinked(i) ==
    LET n == JumpBehind(i)
    IN  /\ prog.ft[i] = n /\ prog.op[n] = "jmp32"
        /\ prog.target[n] = FallOf(i) /\ FallOf(i) # None

AsInSource ==
    pc \in {"prefixes", "fallthroughs"} =>
        \A i \in Original : prog.ft[i] = source.ft[i] /\ prog.target[i] = source.target[i]
AsExpected ==
    pc = "multiple" => \A i \in Original : prog.ft[i] = FallOf(i) /\ prog.target[i] = GoalOf(i)
AsLinked ==
    pc \in {"place", "write"} =>
        \A i \in Original : prog.target[i] = GoalOf(i) /\ (prog.ft[i] = FallOf(i) \/ Relinked(i))

SourceKept ==
    /\ source \in Programs /\ prog.pin = source.pin
    /\ \A i \in Original : prog.op[i] = source.op[i]
    /\ AsInSource /\ AsExpected /\ AsLinked

LEMMA ExpectedIs ==
    ASSUME source \in Programs, NEW i \in Original
    PROVE  /\ FallOf(i) = IF source.ft[i] = None /\ source.op[i] \in Jcc THEN hlt ELSE source.ft[i]
           /\ GoalOf(i) = IF source.target[i] = None /\ source.op[i] \in Branch THEN hlt
                          ELSE source.target[i]
           /\ FallOf(i) \in Original \cup {hlt, None} /\ GoalOf(i) \in Original \cup {hlt, None}
<1>1. /\ FallOf(i) = IF source.ft[i] = None /\ source.op[i] \in Jcc THEN hlt ELSE source.ft[i]
      /\ GoalOf(i) = IF source.target[i] = None /\ source.op[i] \in Branch THEN hlt
                     ELSE source.target[i]
  BY DEF FallOf, GoalOf, Expected
<1>2. Lifted(source) /\ i \in Node
  BY ProgramsAssumption, Nodes
<1>3. source.ft[i] \in Original \cup {None} /\ source.target[i] \in Original \cup {None}
  BY <1>2 DEF Lifted
<1> QED BY <1>1, <1>3

LEMMA SourceStarts == Init => SourceKept
  BY DEF Init, SourceKept, AsInSource, AsExpected, AsLinked

LEMMA PrefixesKeepSource ==
    ASSUME IInv, SourceKept, FixTwoByteWithPrefix PROVE SourceKept'
<1>1. /\ pc = "prefixes" /\ pc' = "fallthroughs" /\ source' = source
      /\ prog' = [prog EXCEPT !.prefix = [i \in Node |-> IF prog.op[i] \in Branch THEN 0
                                                         ELSE prog.prefix[i]]]
  BY DEF FixTwoByteWithPrefix, Prepare
<1>2. prog'.op = prog.op /\ prog'.ft = prog.ft /\ prog'.target = prog.target /\ prog'.pin = prog.pin
  BY <1>1 DEF IInv, ProgType
<1> QED BY <1>1, <1>2 DEF SourceKept, AsInSource, AsExpected, AsLinked

LEMMA FallthroughsKeepSource ==
    ASSUME IInv, SourceKept, FixNoFallthroughs PROVE SourceKept'
<1> DEFINE Ops == [prog.op EXCEPT ![hlt] = "hlt", ![jmp] = "jmp32"]
           Falls == [i \in Node |-> CASE i = hlt -> jmp
                                      [] Lacks(i, prog.ft, Jcc) -> hlt
                                      [] OTHER -> prog.ft[i]]
           Targets == [i \in Node |-> CASE i = jmp -> hlt
                                        [] Lacks(i, prog.target, Branch) -> hlt
                                        [] OTHER -> prog.target[i]]
<1>1. /\ pc = "fallthroughs" /\ pc' = "multiple" /\ source' = source
      /\ prog' = [prog EXCEPT !.op = Ops, !.ft = Falls, !.target = Targets]
  BY DEF FixNoFallthroughs, Prepare
<1>2. ProgType
  BY DEF IInv
<1>3. ASSUME NEW i \in Original
      PROVE  /\ Ops[i] = prog.op[i]
             /\ Falls[i] = IF prog.ft[i] = None /\ prog.op[i] \in Jcc THEN hlt ELSE prog.ft[i]
             /\ Targets[i] = IF prog.target[i] = None /\ prog.op[i] \in Branch THEN hlt
                             ELSE prog.target[i]
  <2>1. i \in Node /\ i # hlt /\ i # jmp
    BY Nodes
  <2>2. Ops[i] = prog.op[i]
    BY <1>2, <2>1, Nodes DEF ProgType
  <2> QED BY <2>1, <2>2 DEF Lacks
<1> HIDE DEF Ops, Falls, Targets
<1>4. prog'.op = Ops /\ prog'.ft = Falls /\ prog'.target = Targets /\ prog'.pin = prog.pin
  BY <1>1, <1>2 DEF ProgType
<1>5. ASSUME NEW i \in Original
      PROVE  /\ prog'.op[i] = source.op[i]
             /\ Falls[i] = FallOf(i) /\ Targets[i] = GoalOf(i)
  <2>1. prog.op[i] = source.op[i] /\ prog.ft[i] = source.ft[i] /\ prog.target[i] = source.target[i]
        /\ source \in Programs
    BY <1>1 DEF SourceKept, AsInSource
  <2> QED BY <1>3, <1>4, <2>1, ExpectedIs
<1>6. \A i \in Original : FallOf(i)' = FallOf(i) /\ GoalOf(i)' = GoalOf(i)
  BY <1>1 DEF FallOf, GoalOf, Expected
<1> QED BY <1>1, <1>4, <1>5, <1>6 DEF SourceKept, AsInSource, AsExpected, AsLinked

LEMMA MultipleKeepsSource ==
    ASSUME IInv, SourceKept, FixMultipleFallthroughs PROVE SourceKept'
<1>1. ProgType /\ pc = "multiple" /\ pc' = "place" /\ source' = source /\ source \in Programs
  BY DEF IInv, FixMultipleFallthroughs, Prepare, SourceKept
<1> DEFINE Jumps(K, i) == prog.ft[i] # None /\ i \notin K
           New(K, n)   == \E i \in Original : n = JumpBehind(i) /\ Jumps(K, i)
           Ops(K)   == [n \in Node |-> IF New(K, n) THEN "jmp32" ELSE prog.op[n]]
           Falls(K) == [n \in Node |-> IF Jumps(K, n) THEN JumpBehind(n) ELSE prog.ft[n]]
           Targets(K) == [n \in Node |-> IF New(K, n) THEN prog.ft[n - jmp] ELSE prog.target[n]]
<1>2. PICK keeps \in SUBSET {i \in Node : prog.ft[i] # None} :
         prog' = [prog EXCEPT !.op = Ops(keeps), !.ft = Falls(keeps), !.target = Targets(keeps)]
  BY DEF FixMultipleFallthroughs, Prepare
<1> DEFINE J(i) == Jumps(keeps, i)
           W(n) == New(keeps, n)
           O == Ops(keeps)
           F == Falls(keeps)
           T == Targets(keeps)
<1>3. prog' = [prog EXCEPT !.op = O, !.ft = F, !.target = T]
  BY <1>2
<1>4. ASSUME NEW n \in Node
      PROVE  /\ O[n] = IF W(n) THEN "jmp32" ELSE prog.op[n]
             /\ F[n] = IF J(n) THEN JumpBehind(n) ELSE prog.ft[n]
             /\ T[n] = IF W(n) THEN prog.ft[n - jmp] ELSE prog.target[n]
  OBVIOUS
<1>5. ASSUME NEW i \in Original
      PROVE  ~ W(i) /\ (J(i) => W(JumpBehind(i))) /\ JumpBehind(i) - jmp = i
             /\ i \in Node /\ JumpBehind(i) \in Node
  BY Nodes
<1>6. \A i \in Node : J(i) => prog.ft[i] # None
  OBVIOUS
<1> HIDE DEF O, F, T, W, J
<1>7. prog'.op = O /\ prog'.ft = F /\ prog'.target = T /\ prog'.pin = prog.pin
  BY <1>1, <1>3 DEF ProgType
<1>8. \A i \in Original : FallOf(i)' = FallOf(i) /\ GoalOf(i)' = GoalOf(i)
  BY <1>1 DEF FallOf, GoalOf, Expected
<1>9. ASSUME NEW i \in Original
      PROVE  /\ prog'.op[i] = source.op[i] /\ prog'.target[i] = GoalOf(i)
             /\ prog'.ft[i] = FallOf(i) \/ Relinked(i)'
  <2>1. prog.op[i] = source.op[i] /\ prog.ft[i] = FallOf(i) /\ prog.target[i] = GoalOf(i)
    BY <1>1 DEF SourceKept, AsExpected
  <2>2. prog'.op[i] = source.op[i] /\ prog'.target[i] = GoalOf(i)
    BY <1>4, <1>5, <1>7, <2>1
  <2>3. CASE ~ J(i)
    BY <1>4, <1>5, <1>7, <2>1, <2>2, <2>3
  <2>4. CASE J(i)
    <3> DEFINE n == JumpBehind(i)
    <3>1. F[i] = n /\ O[n] = "jmp32" /\ T[n] = FallOf(i) /\ FallOf(i) # None
      BY <1>4, <1>5, <1>6, <2>1, <2>4
    <3>2. n' = n
      BY DEF JumpBehind
    <3>3. Relinked(i)'
      BY <1>7, <1>8, <3>1, <3>2 DEF Relinked
    <3> QED BY <2>2, <3>3
  <2> QED BY <2>3, <2>4
<1>10. AsLinked'
  BY <1>8, <1>9 DEF AsLinked
<1> QED BY <1>1, <1>7, <1>9, <1>10 DEF SourceKept, AsInSource, AsExpected

LEMMA OthersKeepSource ==
    ASSUME SourceKept, prog' = prog, source' = source,
           pc' = pc \/ (pc \in {"place", "write"} /\ pc' \in {"place", "write"})
    PROVE  SourceKept'
<1>1. \A i \in Original : FallOf(i)' = FallOf(i) /\ GoalOf(i)' = GoalOf(i) /\ JumpBehind(i)' = JumpBehind(i)
  BY DEF FallOf, GoalOf, Expected, JumpBehind
<1>2. \A i \in Original : Relinked(i)' <=> Relinked(i)
  BY <1>1 DEF Relinked
<1> QED BY <1>1, <1>2 DEF SourceKept, AsInSource, AsExpected, AsLinked

-----------------------------------------------------------------------------
(* What is in memory.  Of an entry first its own operation, and what else  *)
(* it is made of behind it.                                                *)
Written(e) == e \in Entry /\ final[e] # None

FirstOp(e) == CASE Op(e) = "callback" -> "call" [] Op(e) = "jcc8" -> "jcc32"
                [] Op(e) = "jmp8" -> "jmp32" [] OTHER -> Op(e)
FirstSize(e) == CASE Op(e) = "callback" -> 5 [] Op(e) = "loop" -> 2 [] OTHER -> DetermineInsnSize(e)
FirstTo(e, t) == IF Op(e) \in {"callback", "loop"} \/ TargetOf(e) = None THEN None ELSE t
Behind(e, a, t) ==
    CASE Op(e) = "callback" -> {Item(a + 5, CallbackBytes - 5, "lea", None, None)}
      [] Op(e) = "loop" -> {Item(a + 2, 5, "jmp32", FallthroughPlace(e), None),
                            Item(a + 7, 5, "jmp32", t, None)}
      [] OTHER -> {}
Pad(e) == IF Opening(e) = 0 THEN {} ELSE {Item(place[e], 1, "pad", None, None)}
Body(e, a, t, op) == {Item(a, FirstSize(e), op, FirstTo(e, t), e)} \cup Behind(e, a, t)
Cell(e, t, op) == Pad(e) \cup Body(e, final[e], t, op)

Region(e) == {m \in mem : place[e] <= m.at /\ m.at < End(e)}

(* An entry as it was written, with any target as long as it is still to   *)
(* be written again, with the call as long as it is still to be patched.   *)
Settled(e, t, op) ==
    /\ Region(e) = Cell(e, t, op)
    /\ TargetOf(e) # None => \/ e \in ToSet(m_des_to_replop)
                             \/ t = final[TargetOf(e)] /\ t # None
    /\ IF Op(e) = "callback" THEN e \in unpatched_callbacks \/ op \in {"callback", "nops"}
       ELSE op = FirstOp(e)

Housed == \A e \in Entry : Placed(e) => InDollop(e)
LaidOut == pc = "write" => Addressed /\ LinksPlaced /\ Housed

Untouched ==
    pc # "write" =>
        final = [e \in Entry |-> None] /\ m_des_to_replop = <<>> /\ unpatched_callbacks = {}

Progress ==
    /\ todo \in Seq(Entry) /\ Distinct(todo) /\ \A e \in ToSet(todo) : Placed(e)
    /\ final \in [Entry -> Nat \cup {None}]
    /\ \A e \in Entry : final[e] = IF Placed(e) /\ e \notin ToSet(todo) THEN place[e] + Opening(e)
                                   ELSE None
    /\ m_des_to_replop \in Seq(Entry)
    /\ \A e \in ToSet(m_des_to_replop) : Written(e) /\ TargetOf(e) # None
    /\ patch_list \subseteq Pinned /\ \A i \in Pinned : i \in patch_list \/ Written(i)
    /\ \A e \in unpatched_callbacks : Written(e) /\ Op(e) = "callback"

IsItem(m) == m.at \in Nat /\ m.size \in Nat \ {0} /\ m = Item(m.at, m.size, m.op, m.to, m.of)
InPlace(m) ==
    \/ \E i \in Pinned : m.at = prog.pin[i] /\ m.size = 5
    \/ \E e \in Entry : Written(e) /\ place[e] <= m.at /\ m.at + m.size <= End(e)
PinJumps(i) ==
    {m \in mem : m.at = prog.pin[i]} =
        {Item(prog.pin[i], 5, "jmp32", IF i \in patch_list THEN None ELSE final[i], None)}

Cells ==
    /\ \A m \in mem : IsItem(m) /\ InPlace(m)
    /\ \A i \in Pinned : PinJumps(i)
    /\ \A e \in Entry : Written(e) => \E t, op : Settled(e, t, op)

WInv == pc = "write" => Progress /\ Cells

(* Pins lie below what is placed, and apart.                               *)
PinFacts ==
    \A i \in Pinned : /\ i \in Original /\ prog.pin[i] \in Nat /\ prog.pin[i] + 5 <= 100
                      /\ \A j \in Pinned : j # i => prog.pin[j] # prog.pin[i]

LEMMA PinsAre ==
    ASSUME ProgType, SourceKept PROVE PinFacts
<1> SUFFICES ASSUME NEW i \in Pinned
             PROVE  /\ i \in Original /\ prog.pin[i] \in Nat /\ prog.pin[i] + 5 <= 100
                    /\ \A j \in Pinned : j # i => prog.pin[j] # prog.pin[i]
  BY DEF PinFacts
<1>1. \A k \in Pinned : k \in Original /\ k \in Node /\ prog.pin[k] \in Nat /\ prog.pin[k] # None
  BY Nodes DEF Pinned, ProgType
<1>2. source \in Programs /\ prog.pin = source.pin
  BY DEF SourceKept
<1>3. prog.pin[i] + 5 <= 100 /\ \A j \in Original \ {i} : prog.pin[j] # None =>
           \/ prog.pin[i] + 5 <= prog.pin[j] \/ prog.pin[j] + 5 <= prog.pin[i]
  BY <1>1, <1>2, PinsAssumption
<1>4. ASSUME NEW j \in Pinned, j # i PROVE prog.pin[j] # prog.pin[i]
  <2>1. prog.pin[i] + 5 <= prog.pin[j] \/ prog.pin[j] + 5 <= prog.pin[i]
    BY <1>1, <1>3, <1>4
  <2> QED BY <1>1, <2>1
<1> QED BY <1>1, <1>3, <1>4

(* Nothing about an entry changes once it is placed.                       *)
LEMMA EntriesStay ==
    ASSUME UNCHANGED <<prog, place, layout>>
    PROVE  \A e : /\ Op(e)' = Op(e) /\ Opening(e)' = Opening(e) /\ TargetOf(e)' = TargetOf(e)
                  /\ End(e)' = End(e) /\ FallthroughPlace(e)' = FallthroughPlace(e)
                  /\ FirstOp(e)' = FirstOp(e) /\ FirstSize(e)' = FirstSize(e)
                  /\ Pad(e)' = Pad(e) /\ Placed(e)' = Placed(e) /\ InDollop(e)' = InDollop(e)
                  /\ \A t : FirstTo(e, t)' = FirstTo(e, t)
                  /\ \A a, t : Behind(e, a, t)' = Behind(e, a, t)
<1> SUFFICES ASSUME NEW e
             PROVE  /\ Op(e)' = Op(e) /\ Opening(e)' = Opening(e) /\ TargetOf(e)' = TargetOf(e)
                    /\ End(e)' = End(e) /\ FallthroughPlace(e)' = FallthroughPlace(e)
                    /\ FirstOp(e)' = FirstOp(e) /\ FirstSize(e)' = FirstSize(e)
                    /\ Pad(e)' = Pad(e) /\ Placed(e)' = Placed(e) /\ InDollop(e)' = InDollop(e)
                    /\ \A t : FirstTo(e, t)' = FirstTo(e, t)
                    /\ \A a, t : Behind(e, a, t)' = Behind(e, a, t)
  OBVIOUS
<1>1. Op(e)' = Op(e) /\ Prefix(e)' = Prefix(e) /\ Opening(e)' = Opening(e)
  BY DEF Op, Prefix, Opening
<1>2. DollopOf(e)' = DollopOf(e)
  BY DEF DollopOf
<1>3. TargetOf(e)' = TargetOf(e) /\ FallthroughPlace(e)' = FallthroughPlace(e)
  BY <1>2 DEF TargetOf, FallthroughPlace
<1>4. DetermineInsnSize(e)' = DetermineInsnSize(e)
  BY <1>1, <1>3 DEF DetermineInsnSize
<1>5. End(e)' = End(e)
  BY <1>1, <1>4 DEF End, DetermineDollopEntrySize
<1>6. FirstOp(e)' = FirstOp(e) /\ FirstSize(e)' = FirstSize(e)
  BY <1>1, <1>4 DEF FirstOp, FirstSize
<1>7. Pad(e)' = Pad(e)
  BY <1>1 DEF Pad, Item
<1>8. Placed(e)' = Placed(e) /\ InDollop(e)' = InDollop(e)
  BY DEF Placed, InDollop
<1>9. \A t : FirstTo(e, t)' = FirstTo(e, t)
  BY <1>1, <1>3 DEF FirstTo
<1>10. \A a, t : Behind(e, a, t)' = Behind(e, a, t)
  BY <1>1, <1>3 DEF Behind, Item
<1> QED BY <1>1, <1>3, <1>5, <1>6, <1>7, <1>8, <1>9, <1>10

LEMMA LayoutStays ==
    ASSUME LaidOut, UNCHANGED <<prog, place, layout, pc>> PROVE LaidOut'
<1>1. \A e : /\ TargetOf(e)' = TargetOf(e) /\ End(e)' = End(e)
             /\ FallthroughPlace(e)' = FallthroughPlace(e) /\ Placed(e)' = Placed(e)
             /\ InDollop(e)' = InDollop(e)
  BY EntriesStay
<1>2. Addressed' <=> Addressed
  BY <1>1 DEF Addressed
<1>3. \A i : GoesOn(i)' <=> GoesOn(i)
  BY <1>1 DEF GoesOn
<1>4. Pinned' = Pinned
  BY DEF Pinned
<1>5. \A e \in Entry : Placed(TargetOf(e))' <=> Placed(TargetOf(e))
  BY <1>1 DEF Placed
<1>6. LinksPlaced' <=> LinksPlaced
  BY <1>1, <1>3, <1>4, <1>5 DEF LinksPlaced
<1>7. Housed' <=> Housed
  BY <1>1 DEF Housed
<1> QED BY <1>2, <1>6, <1>7 DEF LaidOut

(* What an entry is, by its operation, and how long it is.                 *)
LEMMA EntryFacts ==
    ASSUME IInv, pc = "write", NEW e \in Entry
    PROVE  /\ Op(e) \in {"plain", "callback", "hlt", "none", "jcc8", "loop", "jcc32", "jmp8", "jmp32"}
           /\ Opening(e) \in {0, 1} /\ Prefix(e) \in Nat
           /\ Op(e) = "callback" => TargetOf(e) = None /\ DetermineInsnSize(e) = CallbackBytes
           /\ Op(e) = "loop" => /\ e \in Node /\ TargetOf(e) # None /\ prog.ft[e] # None
                                /\ Bits(Op(e), Prefix(e)) = 2 /\ DetermineInsnSize(e) = 12
           /\ Op(e) = "jcc8" => /\ e \in Node /\ TargetOf(e) # None /\ prog.ft[e] # None
                                /\ Bits(Op(e), Prefix(e)) = 2 /\ DetermineInsnSize(e) = 6
           /\ Op(e) = "jmp8" => /\ TargetOf(e) # None
                                /\ Bits(Op(e), Prefix(e)) = 2 /\ DetermineInsnSize(e) = 5
           /\ Op(e) = "jcc32" => /\ e \in Node /\ TargetOf(e) # None /\ prog.ft[e] # None
                                 /\ Bits(Op(e), Prefix(e)) = 6 /\ DetermineInsnSize(e) = 6
           /\ Op(e) = "jmp32" => /\ Bits(Op(e), Prefix(e)) = 5 /\ DetermineInsnSize(e) = 5
                                 /\ e \in Node => TargetOf(e) # None
           /\ Op(e) \in {"plain", "hlt", "none"} =>
                 /\ TargetOf(e) = None /\ DetermineInsnSize(e) = Bits(Op(e), Prefix(e))
                 /\ Bits(Op(e), Prefix(e)) = Prefix(e) + 1
<1>1. ProgType /\ NoPrefixes /\ NothingLacks
  BY DEF IInv
<1>2. /\ Op(e) \in {"plain", "callback", "hlt", "none", "jcc8", "loop", "jcc32", "jmp8", "jmp32"}
      /\ Opening(e) \in {0, 1} /\ Prefix(e) \in Nat
  BY <1>1, OpsAre
<1>3. e \in Node => /\ Op(e) \in Branch => Prefix(e) = 0 /\ TargetOf(e) # None
                    /\ Op(e) \notin Branch => TargetOf(e) = None
                    /\ Op(e) \in Jcc => prog.ft[e] # None
  <2>1. e \in Node => Op(e) = prog.op[e] /\ Prefix(e) = prog.prefix[e] /\ TargetOf(e) = prog.target[e]
    BY DEF Op, Prefix, TargetOf
  <2> QED BY <1>1, <2>1, Kind DEF ProgType, NoPrefixes, NothingLacks
<1>4. e \notin Node => Op(e) = "jmp32" /\ Prefix(e) = 0
  BY DEF Op, Prefix
<1>5. Op(e) \in Branch => Prefix(e) = 0
  BY <1>3, <1>4
<1>6. /\ Op(e) = "callback" => DetermineInsnSize(e) = CallbackBytes
      /\ Op(e) = "loop" /\ Prefix(e) = 0 /\ TargetOf(e) # None => DetermineInsnSize(e) = 12
      /\ Op(e) = "jcc8" /\ Prefix(e) = 0 => DetermineInsnSize(e) = 6
      /\ Op(e) = "jmp8" /\ Prefix(e) = 0 /\ TargetOf(e) # None => DetermineInsnSize(e) = 5
      /\ Op(e) \in {"jcc32", "jmp32", "plain", "hlt", "none"} =>
            DetermineInsnSize(e) = Bits(Op(e), Prefix(e))
  BY SizesAssumption DEF DetermineInsnSize
<1>7. /\ Op(e) \in {"loop", "jcc8", "jmp8"} /\ Prefix(e) = 0 => Bits(Op(e), Prefix(e)) = 2
      /\ Op(e) = "jcc32" /\ Prefix(e) = 0 => Bits(Op(e), Prefix(e)) = 6
      /\ Op(e) = "jmp32" /\ Prefix(e) = 0 => Bits(Op(e), Prefix(e)) = 5
      /\ Op(e) \in {"plain", "hlt", "none"} => Bits(Op(e), Prefix(e)) = Prefix(e) + 1
  BY <1>2 DEF Bits
<1>8. Op(e) = "callback" => TargetOf(e) = None
  BY <1>3, <1>4, Kind
<1>9. Op(e) \in {"plain", "hlt", "none"} => TargetOf(e) = None
  BY <1>3, <1>4, Kind
<1>10. Op(e) \in Jcc => e \in Node /\ TargetOf(e) # None /\ prog.ft[e] # None /\ Prefix(e) = 0
  BY <1>3, <1>4, Kind
<1>11. Op(e) = "jmp8" => TargetOf(e) # None /\ Prefix(e) = 0
  BY <1>3, <1>4, Kind
<1>12. Op(e) = "jmp32" => (e \in Node => TargetOf(e) # None) /\ Prefix(e) = 0
  BY <1>3, <1>4, Kind
<1> QED BY <1>2, <1>6, <1>7, <1>8, <1>9, <1>10, <1>11, <1>12, Kind

(* What is written for an entry is its body.                               *)
LEMMA PlopIs ==
    ASSUME IInv, pc = "write", NEW e \in Entry, InDollop(e), NEW a \in Nat, NEW t
    PROVE  PlopDollopEntry(e, a, t) = Body(e, a, t, FirstOp(e))
<1> DEFINE new == PlopDollopEntry(e, a, t)
           b == Bits(Op(e), Prefix(e))
<1>0. Op(e) \in {"plain", "callback", "hlt", "none", "jcc8", "loop", "jcc32", "jmp8", "jmp32"}
  BY EntryFacts
<1>1. CASE Op(e) = "callback"
  <2>1. TargetOf(e) = None
    BY <1>1, EntryFacts
  <2>2. new = {Item(a, 5, "call", None, e), Item(a + 5, CallbackBytes - 5, "lea", None, None)}
    BY <1>1, <2>1 DEF PlopDollopEntry
  <2>3. FirstOp(e) = "call" /\ FirstSize(e) = 5 /\ FirstTo(e, t) = None
        /\ Behind(e, a, t) = {Item(a + 5, CallbackBytes - 5, "lea", None, None)}
    BY <1>1 DEF FirstOp, FirstSize, FirstTo, Behind
  <2> HIDE DEF new
  <2> QED BY <2>2, <2>3 DEF Body, new
<1>2. CASE Op(e) = "loop"
  <2>1. e \in Node /\ TargetOf(e) # None /\ prog.ft[e] # None /\ b = 2
    BY <1>2, EntryFacts
  <2>2. FallthroughPlace(e) # None
    BY <2>1, FallthroughHasPlace DEF IInv
  <2>3. new = WithTarget(e, a, t)
    BY <1>2, <2>1 DEF PlopDollopEntry
  <2>4. new = {Item(a, 2, "loop", None, e), Item(a + 2, 5, "jmp32", FallthroughPlace(e), None),
               Item(a + 7, 5, "jmp32", t, None)}
    BY <1>2, <2>1, <2>2, <2>3 DEF WithTarget
  <2>5. FirstOp(e) = "loop" /\ FirstSize(e) = 2 /\ FirstTo(e, t) = None
        /\ Behind(e, a, t) = {Item(a + 2, 5, "jmp32", FallthroughPlace(e), None),
                              Item(a + 7, 5, "jmp32", t, None)}
    BY <1>2 DEF FirstOp, FirstSize, FirstTo, Behind
  <2> HIDE DEF new
  <2> QED BY <2>4, <2>5 DEF Body, new
<1>3. CASE Op(e) = "jcc8"
  <2>1. TargetOf(e) # None /\ b = 2 /\ DetermineInsnSize(e) = 6
    BY <1>3, EntryFacts
  <2>2. new = {Item(a, 6, "jcc32", t, e)}
    BY <1>3, <2>1 DEF PlopDollopEntry, WithTarget
  <2>3. FirstOp(e) = "jcc32" /\ FirstSize(e) = 6 /\ FirstTo(e, t) = t /\ Behind(e, a, t) = {}
    BY <1>3, <2>1 DEF FirstOp, FirstSize, FirstTo, Behind
  <2> HIDE DEF new
  <2> QED BY <2>2, <2>3 DEF Body, new
<1>4. CASE Op(e) = "jmp8"
  <2>1. TargetOf(e) # None /\ b = 2 /\ DetermineInsnSize(e) = 5
    BY <1>4, EntryFacts
  <2>2. new = {Item(a, 5, "jmp32", t, e)}
    BY <1>4, <2>1 DEF PlopDollopEntry, WithTarget
  <2>3. FirstOp(e) = "jmp32" /\ FirstSize(e) = 5 /\ FirstTo(e, t) = t /\ Behind(e, a, t) = {}
    BY <1>4, <2>1 DEF FirstOp, FirstSize, FirstTo, Behind
  <2> HIDE DEF new
  <2> QED BY <2>2, <2>3 DEF Body, new
<1>5. CASE Op(e) \in {"jcc32", "jmp32"}
  <2>1. b > 2 /\ DetermineInsnSize(e) = b
    BY <1>5, EntryFacts
  <2>2. TargetOf(e) # None => new = {Item(a, b, Op(e), t, e)}
    BY <1>5, <2>1 DEF PlopDollopEntry, WithTarget
  <2>3. TargetOf(e) = None => new = {Item(a, b, Op(e), None, e)}
    BY <1>5 DEF PlopDollopEntry
  <2>4. FirstOp(e) = Op(e) /\ FirstSize(e) = b /\ Behind(e, a, t) = {}
        /\ FirstTo(e, t) = IF TargetOf(e) = None THEN None ELSE t
    BY <1>5, <2>1 DEF FirstOp, FirstSize, FirstTo, Behind
  <2> HIDE DEF new, b
  <2> QED BY <2>2, <2>3, <2>4 DEF Body, new
<1>6. CASE Op(e) \in {"plain", "hlt", "none"}
  <2>1. TargetOf(e) = None /\ DetermineInsnSize(e) = b
    BY <1>6, EntryFacts
  <2>2. new = {Item(a, b, Op(e), None, e)}
    BY <1>6, <2>1 DEF PlopDollopEntry
  <2>3. FirstOp(e) = Op(e) /\ FirstSize(e) = b /\ Behind(e, a, t) = {} /\ FirstTo(e, t) = None
    BY <1>6, <2>1 DEF FirstOp, FirstSize, FirstTo, Behind
  <2> HIDE DEF new, b
  <2> QED BY <2>2, <2>3 DEF Body, new
<1> QED BY <1>0, <1>1, <1>2, <1>3, <1>4, <1>5, <1>6

(* A body lies where it is written, its own operation first, and occupies  *)
(* the same bytes whatever its target is.                                  *)
LEMMA BodyIs ==
    ASSUME IInv, pc = "write", NEW e \in Entry, NEW a \in Nat, NEW t, NEW op
    PROVE  /\ DetermineInsnSize(e) \in Nat \ {0}
           /\ FirstSize(e) \in Nat \ {0} /\ FirstSize(e) <= DetermineInsnSize(e)
           /\ \A m \in Body(e, a, t, op) : IsItem(m) /\ a <= m.at /\ m.at + m.size <= a + DetermineInsnSize(e)
           /\ \A m \in Behind(e, a, t) : m.at > a /\ m.of = None
<1>0. Op(e) \in {"plain", "callback", "hlt", "none", "jcc8", "loop", "jcc32", "jmp8", "jmp32"}
      /\ Prefix(e) \in Nat
  BY EntryFacts
<1>1. DetermineInsnSize(e) \in Nat \ {0} /\ FirstSize(e) \in Nat \ {0}
      /\ FirstSize(e) <= DetermineInsnSize(e)
  <2>1. CASE Op(e) = "callback"
    BY <2>1, EntryFacts, SizesAssumption DEF FirstSize
  <2>2. CASE Op(e) = "loop"
    BY <2>2, EntryFacts DEF FirstSize
  <2>3. CASE Op(e) \in {"jcc8", "jmp8", "jcc32", "jmp32"}
    BY <2>3, EntryFacts DEF FirstSize
  <2>4. CASE Op(e) \in {"plain", "hlt", "none"}
    BY <1>0, <2>4, EntryFacts DEF FirstSize
  <2> QED BY <1>0, <2>1, <2>2, <2>3, <2>4
<1>2. \A x \in Nat, s \in Nat \ {0} : \A o, u, f :
         /\ IsItem(Item(x, s, o, u, f)) /\ Item(x, s, o, u, f).at = x
         /\ Item(x, s, o, u, f).size = s /\ Item(x, s, o, u, f).of = f
  BY DEF IsItem, Item
<1>3. ASSUME NEW m \in Behind(e, a, t)
      PROVE  IsItem(m) /\ m.at > a /\ m.at + m.size <= a + DetermineInsnSize(e) /\ m.of = None
  <2>1. CASE Op(e) = "callback"
    <3>1. m = Item(a + 5, CallbackBytes - 5, "lea", None, None)
      BY <1>3, <2>1 DEF Behind
    <3>2. a + 5 \in Nat /\ CallbackBytes - 5 \in Nat \ {0} /\ DetermineInsnSize(e) = CallbackBytes
      BY <2>1, EntryFacts, SizesAssumption
    <3>3. IsItem(m) /\ m.at = a + 5 /\ m.size = CallbackBytes - 5 /\ m.of = None
      <4> DEFINE x == a + 5
                 s == CallbackBytes - 5
      <4>1. m = Item(x, s, "lea", None, None) /\ x \in Nat /\ s \in Nat \ {0}
        BY <3>1, <3>2
      <4> HIDE DEF x, s
      <4>2. IsItem(m) /\ m.at = x /\ m.size = s /\ m.of = None
        BY <1>2, <4>1
      <4> QED BY <4>2 DEF x, s
    <3> QED BY <3>2, <3>3, SizesAssumption
  <2>2. CASE Op(e) = "loop"
    <3>1. \/ m = Item(a + 2, 5, "jmp32", FallthroughPlace(e), None)
          \/ m = Item(a + 7, 5, "jmp32", t, None)
      BY <1>3, <2>2 DEF Behind
    <3>2. a + 2 \in Nat /\ a + 7 \in Nat /\ 5 \in Nat \ {0} /\ DetermineInsnSize(e) = 12
      BY <2>2, EntryFacts
    <3>3. IsItem(m) /\ (m.at = a + 2 \/ m.at = a + 7) /\ m.size = 5 /\ m.of = None
      BY <1>2, <3>1, <3>2
    <3> QED BY <3>2, <3>3
  <2>3. CASE Op(e) \notin {"callback", "loop"}
    BY <1>3, <2>3 DEF Behind
  <2> QED BY <2>1, <2>2, <2>3
<1>4. ASSUME NEW m \in Body(e, a, t, op)
      PROVE  IsItem(m) /\ a <= m.at /\ m.at + m.size <= a + DetermineInsnSize(e)
  <2>1. CASE m = Item(a, FirstSize(e), op, FirstTo(e, t), e)
    <3>1. IsItem(m) /\ m.at = a /\ m.size = FirstSize(e)
      BY <1>1, <1>2, <2>1
    <3> QED BY <1>1, <3>1
  <2>2. CASE m \in Behind(e, a, t)
    <3>1. IsItem(m) /\ m.at > a /\ m.at + m.size <= a + DetermineInsnSize(e)
      BY <1>3, <2>2
    <3>2. m.at \in Nat
      BY <3>1 DEF IsItem
    <3> QED BY <3>1, <3>2
  <2> QED BY <1>4, <2>1, <2>2 DEF Body
<1> QED BY <1>1, <1>3, <1>4

LEMMA SameBytes ==
    ASSUME NEW e, NEW a, NEW t, NEW u, NEW op, NEW o
    PROVE  \A m \in Body(e, a, t, op) : \E n \in Body(e, a, u, o) : n.at = m.at /\ n.size = m.size
<1>1. ASSUME NEW m \in Behind(e, a, t)
      PROVE  \E n \in Behind(e, a, u) : n.at = m.at /\ n.size = m.size
  <2>1. CASE Op(e) = "callback"
    BY <1>1, <2>1 DEF Behind
  <2>2. CASE Op(e) = "loop"
    <3> DEFINE k(v) == Item(a + 2, 5, "jmp32", FallthroughPlace(e), None)
               l(v) == Item(a + 7, 5, "jmp32", v, None)
    <3>1. \A v : Behind(e, a, v) = {k(v), l(v)}
      BY <2>2 DEF Behind
    <3>2. k(t).at = k(u).at /\ k(t).size = k(u).size /\ l(t).at = l(u).at /\ l(t).size = l(u).size
      BY DEF Item
    <3> HIDE DEF k, l
    <3> QED BY <1>1, <3>1, <3>2
  <2>3. CASE Op(e) \notin {"callback", "loop"}
    BY <1>1, <2>3 DEF Behind
  <2> QED BY <2>1, <2>2, <2>3
<1>2. Item(a, FirstSize(e), o, FirstTo(e, u), e) \in Body(e, a, u, o)
  BY DEF Body
<1>3. \A x, y : /\ Item(a, FirstSize(e), op, x, e).at = Item(a, FirstSize(e), o, y, e).at
                /\ Item(a, FirstSize(e), op, x, e).size = Item(a, FirstSize(e), o, y, e).size
  BY DEF Item
<1> QED BY <1>1, <1>2, <1>3 DEF Body

LEMMA PlacementLaysOut ==
    ASSUME IInv, PlaceDollops, Untouched
    PROVE  Addressed' /\ LinksPlaced' /\ Housed' /\ Progress'
<1>1. /\ ProgType /\ FallsOnce /\ pc = "place" /\ prog' = prog /\ final' = final
      /\ m_des_to_replop' = m_des_to_replop /\ unpatched_callbacks' = unpatched_callbacks
      /\ patch_list' = Pinned
  BY DEF IInv, PlaceDollops
<1>2. OncePer
  BY <1>1 DEF FallsOnce, OncePer
<1>3. PICK order \in Orders(Fronts) : PlacedBy(order)
  BY <1>1, PlacementIs
<1>4. Addressed' /\ \A e : Placed(e)' <=> e \in ToSet(InARow(order))
  BY <1>1, <1>2, <1>3, AddressesAre
<1>5. LinksPlaced'
  BY <1>1, <1>2, <1>3, LinksArePlaced
<1>6. Housed'
  <2>1. \A e : e \in ToSet(InARow(order)) => \E k \in 1 .. Len(order) : e \in ToSet(EntriesAt(order, k))
    BY <1>1, <1>2, InARowIs
  <2>2. \A k \in 1 .. Len(order) : \E d \in ToSet(layout') : d.entries = EntriesAt(order, k)
    <3> SUFFICES ASSUME NEW k \in 1 .. Len(order) PROVE \E d \in ToSet(layout') : d.entries = EntriesAt(order, k)
      OBVIOUS
    <3>1. layout' = [l \in 1 .. Len(order) |->
                       [entries |-> EntriesAt(order, l), fallthrough |-> NextOf(order[l])]]
      BY <1>3 DEF PlacedBy
    <3>2. layout'[k].entries = EntriesAt(order, k) /\ k \in DOMAIN layout'
      BY <3>1
    <3> QED BY <3>2 DEF ToSet
  <2>3. \A e : e \in ToSet(InARow(order)) => InDollop(e)'
    BY <2>1, <2>2 DEF InDollop
  <2> QED BY <1>4, <2>3 DEF Housed
<1>7. todo' \in Seq(Entry) /\ Distinct(todo') /\ ToSet(todo') = ToSet(InARow(order))
  BY <1>1, <1>2, <1>3, TodoIs DEF PlacedBy
<1>8. final = [e \in Entry |-> None] /\ m_des_to_replop = <<>> /\ unpatched_callbacks = {}
  BY <1>1 DEF Untouched
<1>9. Progress'
  <2>1. \A e \in ToSet(todo') : Placed(e)'
    BY <1>4, <1>7
  <2>2. final' \in [Entry -> Nat \cup {None}] /\ \A e \in Entry : final'[e] = None
    BY <1>1, <1>8
  <2>3. \A e \in Entry : Placed(e)' => e \in ToSet(todo')
    BY <1>4, <1>7
  <2>4. m_des_to_replop' \in Seq(Entry) /\ ToSet(m_des_to_replop') = {}
    BY <1>1, <1>8 DEF ToSet
  <2>5. Pinned' = Pinned
    BY <1>1 DEF Pinned
  <2>6. todo' \in Seq(Entry) /\ Distinct(todo)'
    BY <1>7 DEF Distinct
  <2>7. \A e \in Entry : final'[e] = IF Placed(e)' /\ e \notin ToSet(todo') THEN (place[e] + Opening(e))' ELSE None
    BY <2>2, <2>3
  <2>8. patch_list' = Pinned' /\ unpatched_callbacks' = {}
    BY <1>1, <1>8, <2>5
  <2> QED BY <2>1, <2>2, <2>4, <2>6, <2>7, <2>8 DEF Progress
<1> QED BY <1>4, <1>5, <1>6, <1>9

LEMMA PlacementStarts ==
    ASSUME IInv, PlaceDollops, SourceKept, Untouched, PinFacts
    PROVE  LaidOut' /\ WInv'
<1>1. Addressed' /\ LinksPlaced' /\ Housed' /\ Progress'
  BY PlacementLaysOut
<1>2. /\ prog' = prog /\ final' = final /\ patch_list' = Pinned /\ pc = "place"
      /\ mem' = {[at |-> prog.pin[i], size |-> 5, op |-> "jmp32", to |-> None, of |-> None] : i \in Pinned}
  BY DEF PlaceDollops
<1>3. \A e \in Entry : final'[e] = None
  BY <1>2 DEF Untouched
<1>4. Pinned' = Pinned
  BY <1>2 DEF Pinned
<1> DEFINE pinItem(i) == Item(prog.pin[i], 5, "jmp32", None, None)
<1>5. mem' = {pinItem(i) : i \in Pinned}
  BY <1>2 DEF Item
<1>6. \A i \in Pinned : /\ IsItem(pinItem(i)) /\ pinItem(i).at = prog.pin[i] /\ pinItem(i).size = 5
  BY DEF PinFacts, IsItem, Item
<1> HIDE DEF pinItem
<1>7. \A m \in mem' : IsItem(m)' /\ InPlace(m)'
  <2> SUFFICES ASSUME NEW m \in mem' PROVE IsItem(m)' /\ InPlace(m)'
    OBVIOUS
  <2>1. PICK i \in Pinned : m = pinItem(i)
    BY <1>5
  <2>2. IsItem(m)
    BY <1>6, <2>1
  <2>3. IsItem(m)'
    BY <2>2 DEF IsItem, Item
  <2>4. i \in Pinned' /\ m.at = prog'.pin[i] /\ m.size = 5
    BY <1>2, <1>4, <1>6, <2>1
  <2> QED BY <2>3, <2>4 DEF InPlace
<1>8. ASSUME NEW i \in Pinned PROVE PinJumps(i)'
  <2>1. \A m \in mem' : m.at = prog.pin[i] <=> m = pinItem(i)
    BY <1>5, <1>6 DEF PinFacts
  <2>2. {m \in mem' : m.at = prog'.pin[i]} = {pinItem(i)}
    BY <1>2, <1>5, <2>1
  <2>3. i \in patch_list'
    BY <1>2
  <2>4. {Item(prog.pin[i], 5, "jmp32", IF i \in patch_list THEN None ELSE final[i], None)}'
           = {pinItem(i)}
    BY <1>2, <2>3 DEF pinItem, Item
  <2> QED BY <2>2, <2>4 DEF PinJumps
<1>9. \A e \in Entry : ~ Written(e)'
  BY <1>3 DEF Written
<1>10. Cells'
  BY <1>4, <1>7, <1>8, <1>9 DEF Cells
<1> QED BY <1>1, <1>10 DEF LaidOut, WInv

-----------------------------------------------------------------------------
(* A step that changes memory only where an entry is.                      *)
LEMMA CellIs ==
    ASSUME UNCHANGED <<prog, place, layout>>, NEW e, NEW a, a = final'[e]
    PROVE  \A t, op : Cell(e, t, op)' = Pad(e) \cup Body(e, a, t, op)
<1> SUFFICES ASSUME NEW t, NEW op PROVE Cell(e, t, op)' = Pad(e) \cup Body(e, a, t, op)
  OBVIOUS
<1>1. /\ Op(e)' = Op(e) /\ FallthroughPlace(e)' = FallthroughPlace(e) /\ Pad(e)' = Pad(e)
      /\ FirstSize(e)' = FirstSize(e) /\ FirstTo(e, t)' = FirstTo(e, t)
  BY EntriesStay
<1>2. Behind(e, final[e], t)' = Behind(e, a, t)
  BY <1>1 DEF Behind, Item
<1>3. Item(final[e], FirstSize(e), op, FirstTo(e, t), e)' = Item(a, FirstSize(e), op, FirstTo(e, t), e)
  BY <1>1 DEF Item
<1>4. Body(e, final[e], t, op)' = Body(e, a, t, op)
  BY <1>2, <1>3 DEF Body
<1> QED BY <1>1, <1>4 DEF Cell

(* What is in memory is of an entry, or ends before it or begins behind.   *)
LEMMA Apart ==
    ASSUME ProgType, Addressed, Progress, PinFacts,
           NEW e \in Entry, Placed(e), NEW m \in mem, IsItem(m), InPlace(m)
    PROVE  /\ place[e] \in Nat /\ End(e) \in Nat /\ place[e] >= 100
           /\ \/ Written(e) /\ m \in Region(e)
              \/ m \notin Region(e) /\ (m.at + m.size <= place[e] \/ End(e) <= m.at)
<1>1. \A g \in Entry : Placed(g) => place[g] \in Nat /\ End(g) \in Nat /\ place[g] >= 100
  BY SizesAreNumbers DEF Addressed, Placed, End
<1>2. m.at \in Nat /\ m.size \in Nat \ {0}
  BY DEF IsItem
<1>3. m.at + m.size <= place[e] \/ End(e) <= m.at => m \notin Region(e)
  <2>1. m \in Region(e) => place[e] <= m.at /\ m.at < End(e)
    BY DEF Region
  <2> QED BY <1>1, <1>2, <2>1
<1>4. CASE \E i \in Pinned : m.at = prog.pin[i] /\ m.size = 5
  <2>1. m.at + m.size <= 100
    BY <1>4 DEF PinFacts
  <2>2. m.at + m.size <= place[e]
    BY <1>1, <1>2, <2>1
  <2> QED BY <1>1, <1>3, <2>2
<1>5. ASSUME NEW g \in Entry, Written(g), place[g] <= m.at, m.at + m.size <= End(g), Placed(g)
      PROVE  \/ Written(e) /\ m \in Region(e)
             \/ m \notin Region(e) /\ (m.at + m.size <= place[e] \/ End(e) <= m.at)
  <2>1. place[g] \in Nat /\ End(g) \in Nat /\ place[e] \in Nat /\ End(e) \in Nat
    BY <1>1, <1>5
  <2>2. CASE g = e
    <3>1. m.at < End(e)
      BY <1>2, <1>5, <2>1, <2>2
    <3> QED BY <1>5, <2>2, <3>1 DEF Region
  <2>3. CASE g # e
    <3>1. End(g) <= place[e] \/ End(e) <= place[g]
      BY <1>5, <2>3 DEF Addressed
    <3>2. m.at + m.size <= place[e] \/ End(e) <= m.at
      BY <1>2, <1>5, <2>1, <3>1
    <3> QED BY <1>3, <3>2
  <2> QED BY <2>2, <2>3
<1>6. \A g \in Entry : Written(g) => Placed(g)
  BY DEF Progress, Written
<1> QED BY <1>1, <1>4, <1>5, <1>6 DEF InPlace

LEMMA ChangeInside ==
    ASSUME ProgType, Addressed, Progress, PinFacts, UNCHANGED <<prog, place, layout>>,
           NEW e \in Entry, Placed(e), Written(e)', \A g : Written(g) => Written(g)',
           \A m \in mem : IsItem(m) /\ InPlace(m),
           NEW X, NEW Y, mem' = (mem \ Y) \cup X, \A m \in Y \cap mem : m \in Region(e),
           \A m \in X : IsItem(m) /\ place[e] <= m.at /\ m.at + m.size <= End(e)
    PROVE  /\ \A m \in mem' : IsItem(m)' /\ InPlace(m)'
           /\ \A g \in Entry : Placed(g) /\ g # e => Region(g)' = Region(g)
           /\ Region(e)' = (Region(e) \ Y) \cup X
           /\ \A i \in Pinned : {m \in mem' : m.at = prog.pin[i]} = {m \in mem : m.at = prog.pin[i]}
<1>1. /\ \A g : End(g)' = End(g) /\ Placed(g)' = Placed(g)
      /\ \A g : Region(g)' = {m \in mem' : place[g] <= m.at /\ m.at < End(g)}
      /\ Pinned' = Pinned /\ place' = place /\ prog' = prog
  <2>1. \A g : End(g)' = End(g) /\ Placed(g)' = Placed(g)
    BY EntriesStay
  <2> QED BY <2>1 DEF Region, Pinned
<1>2. /\ place[e] \in Nat /\ End(e) \in Nat /\ place[e] >= 100
  BY SizesAreNumbers DEF Addressed, Placed, End
<1>3. \A m \in X : m.at \in Nat /\ m.size \in Nat \ {0} /\ m.at >= 100 /\ m.at < End(e)
  <2> SUFFICES ASSUME NEW m \in X
               PROVE  m.at \in Nat /\ m.size \in Nat \ {0} /\ m.at >= 100 /\ m.at < End(e)
    OBVIOUS
  <2>1. m.at \in Nat /\ m.size \in Nat \ {0} /\ place[e] <= m.at /\ m.at + m.size <= End(e)
    BY DEF IsItem
  <2> QED BY <1>2, <2>1
<1>4. \A m \in mem' : IsItem(m)' /\ InPlace(m)'
  <2> SUFFICES ASSUME NEW m \in mem' PROVE IsItem(m)' /\ InPlace(m)'
    OBVIOUS
  <2>1. m \in mem \/ m \in X
    OBVIOUS
  <2>2. IsItem(m)'
    <3>1. IsItem(m)
      BY <2>1
    <3> QED BY <3>1 DEF IsItem, Item
  <2>3. CASE m \in X
    BY <1>1, <2>3 DEF InPlace
  <2>4. CASE m \in mem
    <3>1. InPlace(m)
      BY <2>4
    <3> QED BY <1>1, <3>1 DEF InPlace
  <2> QED BY <2>1, <2>2, <2>3, <2>4
<1>5. ASSUME NEW g \in Entry, Placed(g), g # e PROVE Region(g)' = Region(g)
  <2>1. place[g] \in Nat /\ End(g) \in Nat /\ (End(e) <= place[g] \/ End(g) <= place[e])
    BY <1>5, SizesAreNumbers DEF Addressed, Placed, End
  <2>2. ASSUME NEW m \in X PROVE ~ (place[g] <= m.at /\ m.at < End(g))
    BY <1>2, <1>3, <2>1
  <2>3. ASSUME NEW m \in Y \cap mem PROVE ~ (place[g] <= m.at /\ m.at < End(g))
    <3>1. place[e] <= m.at /\ m.at < End(e) /\ m.at \in Nat
      BY DEF Region, IsItem
    <3> QED BY <1>2, <2>1, <3>1
  <2> QED BY <1>1, <2>2, <2>3 DEF Region
<1>6. Region(e)' = (Region(e) \ Y) \cup X
  <2>1. \A m \in X : place[e] <= m.at /\ m.at < End(e)
    BY <1>3
  <2> QED BY <1>1, <2>1 DEF Region
<1>7. ASSUME NEW i \in Pinned
      PROVE  {m \in mem' : m.at = prog.pin[i]} = {m \in mem : m.at = prog.pin[i]}
  <2>1. prog.pin[i] \in Nat /\ prog.pin[i] < 100
    BY DEF PinFacts
  <2>2. \A m \in X : m.at # prog.pin[i]
    BY <1>3, <2>1
  <2>3. \A m \in Y \cap mem : m.at # prog.pin[i]
    <3> SUFFICES ASSUME NEW m \in Y \cap mem PROVE m.at # prog.pin[i]
      OBVIOUS
    <3>1. place[e] <= m.at /\ m.at \in Nat
      BY DEF Region, IsItem
    <3> QED BY <1>2, <2>1, <3>1
  <2> QED BY <2>2, <2>3
<1> QED BY <1>4, <1>5, <1>6, <1>7

(* An entry stays as it was written while the step is not about it.        *)
LEMMA SettledStays ==
    ASSUME UNCHANGED <<prog, place, layout>>, NEW g, Region(g)' = Region(g), final'[g] = final[g],
           \A h : final[h] # None => final'[h] = final[h],
           g \in ToSet(m_des_to_replop) => g \in ToSet(m_des_to_replop'),
           g \in unpatched_callbacks => g \in unpatched_callbacks',
           NEW t, NEW op, Settled(g, t, op)
    PROVE  Settled(g, t, op)'
<1>1. Op(g)' = Op(g) /\ TargetOf(g)' = TargetOf(g) /\ FirstOp(g)' = FirstOp(g)
  BY EntriesStay
<1>2. Cell(g, t, op)' = Cell(g, t, op)
  <2>1. PICK a : a = final'[g]
    OBVIOUS
  <2>2. Cell(g, t, op)' = Pad(g) \cup Body(g, a, t, op)
    BY <2>1, CellIs
  <2>3. a = final[g]
    BY <2>1
  <2> QED BY <2>2, <2>3 DEF Cell
<1>3. TargetOf(g) # None => \/ g \in ToSet(m_des_to_replop')
                            \/ t = final'[TargetOf(g)] /\ t # None
  <2>1. TargetOf(g) # None => \/ g \in ToSet(m_des_to_replop)
                              \/ t = final[TargetOf(g)] /\ t # None
    BY DEF Settled
  <2> QED BY <2>1
<1>4. final[TargetOf(g)]' = final'[TargetOf(g)]
  BY <1>1
<1>5. IF Op(g) = "callback" THEN g \in unpatched_callbacks' \/ op \in {"callback", "nops"}
      ELSE op = FirstOp(g)
  BY DEF Settled
<1>6. Region(g) = Cell(g, t, op)
  BY DEF Settled
<1> QED BY <1>1, <1>2, <1>3, <1>4, <1>5, <1>6 DEF Settled

-----------------------------------------------------------------------------
(* Writing an entry.                                                       *)
LEMMA HeadIs ==
    ASSUME IInv, pc = "write", LaidOut, Progress, todo # <<>>, NEW e, e = Head(todo)
    PROVE  /\ e \in Entry /\ Placed(e) /\ InDollop(e) /\ final[e] = None
           /\ Tail(todo) \in Seq(Entry) /\ Distinct(Tail(todo)) /\ e \notin ToSet(Tail(todo))
           /\ ToSet(todo) = ToSet(Tail(todo)) \cup {e}
           /\ place[e] \in Nat /\ place[e] + Opening(e) \in Nat
           /\ place[e] + Opening(e) + DetermineInsnSize(e) = End(e)
<1>1. todo \in Seq(Entry) /\ Distinct(todo) /\ Len(todo) \in Nat /\ Len(todo) > 0 /\ todo[1] = e
  BY DEF Progress
<1>2. /\ Tail(todo) \in Seq(Entry) /\ Len(Tail(todo)) = Len(todo) - 1
      /\ \A k \in 1 .. Len(Tail(todo)) : Tail(todo)[k] = todo[k + 1]
  BY <1>1, HeadTailProperties
<1>3. DOMAIN todo = 1 .. Len(todo) /\ DOMAIN Tail(todo) = 1 .. Len(Tail(todo)) /\ 1 \in 1 .. Len(todo)
  BY <1>1, <1>2, LenProperties
<1>4. \A k \in 1 .. Len(Tail(todo)) : k + 1 \in 1 .. Len(todo) /\ k + 1 # 1
  BY <1>1, <1>2
<1>5. e \notin ToSet(Tail(todo))
  BY <1>1, <1>2, <1>3, <1>4 DEF Distinct, ToSet
<1>6. Distinct(Tail(todo))
  <2> SUFFICES ASSUME NEW j \in 1 .. Len(Tail(todo)), NEW k \in 1 .. Len(Tail(todo)),
                      Tail(todo)[j] = Tail(todo)[k]
               PROVE  j = k
    BY DEF Distinct
  <2>1. j + 1 = k + 1
    BY <1>1, <1>2, <1>4 DEF Distinct
  <2> QED BY <1>2, <2>1
<1>7. ToSet(todo) = ToSet(Tail(todo)) \cup {e}
  <2>1. ToSet(Tail(todo)) \cup {e} \subseteq ToSet(todo)
    BY <1>1, <1>2, <1>3, <1>4 DEF ToSet
  <2>2. ASSUME NEW k \in 1 .. Len(todo) PROVE todo[k] \in ToSet(Tail(todo)) \cup {e}
    <3>1. CASE k = 1
      BY <1>1, <3>1
    <3>2. CASE k # 1
      <4>1. k - 1 \in 1 .. Len(Tail(todo)) /\ (k - 1) + 1 = k
        BY <1>1, <1>2, <3>2
      <4>2. Tail(todo)[k - 1] = todo[k]
        BY <1>2, <4>1
      <4> QED BY <1>3, <4>1, <4>2 DEF ToSet
    <3> QED BY <3>1, <3>2
  <2>3. ToSet(todo) \subseteq ToSet(Tail(todo)) \cup {e}
    BY <1>3, <2>2 DEF ToSet
  <2> QED BY <2>1, <2>3
<1>8. e \in ToSet(todo)
  BY <1>7
<1>9. e \in Entry /\ Placed(e) /\ final[e] = None
  <2>1. e \in Entry /\ Placed(e)
    BY <1>1, <1>3, <1>8 DEF Progress, ToSet
  <2> QED BY <1>8, <2>1 DEF Progress
<1>10. InDollop(e)
  BY <1>9 DEF LaidOut, Housed
<1>11. place[e] \in Nat
  BY <1>9 DEF LaidOut, Addressed, Placed
<1>12. Opening(e) \in {0, 1} /\ DetermineInsnSize(e) \in Nat
  <2>1. 0 \in Nat
    OBVIOUS
  <2> QED BY <1>9, <2>1, BodyIs, EntryFacts
<1>13. End(e) = place[e] + (DetermineInsnSize(e) + Opening(e))
  BY DEF End, DetermineDollopEntrySize
<1> QED BY <1>2, <1>5, <1>6, <1>7, <1>9, <1>10, <1>11, <1>12, <1>13

LEMMA AppendedTo ==
    ASSUME NEW S, NEW s \in Seq(S), NEW x \in S
    PROVE  Append(s, x) \in Seq(S) /\ ToSet(Append(s, x)) = ToSet(s) \cup {x}
<1> DEFINE r == Append(s, x)
<1>1. Len(s) \in Nat /\ DOMAIN s = 1 .. Len(s)
  BY LenProperties
<1>2. r \in Seq(S) /\ Len(r) = Len(s) + 1 /\ r[Len(s) + 1] = x /\ \A k \in 1 .. Len(s) : r[k] = s[k]
  BY AppendProperties
<1> HIDE DEF r
<1>3. DOMAIN r = 1 .. Len(s) + 1
  BY <1>2, LenProperties
<1>4. \A k \in 1 .. Len(s) : k \in 1 .. Len(s) + 1
  BY <1>1
<1>5. \A k \in 1 .. Len(s) + 1 : k \in 1 .. Len(s) \/ k = Len(s) + 1
  BY <1>1
<1>6. Len(s) + 1 \in 1 .. Len(s) + 1
  BY <1>1
<1>7. ToSet(r) = ToSet(s) \cup {x}
  BY <1>1, <1>2, <1>3, <1>4, <1>5, <1>6 DEF ToSet
<1> QED BY <1>2, <1>7 DEF r

(* The plugin that is asked puts its byte where the entry begins.          *)
LEMMA PluginOpens ==
    ASSUME NEW e, place[e] \in Nat
    PROVE  PluginByte(e, place[e] + Opening(e)) = Pad(e)
<1>1. CASE Opening(e) = 0
  BY <1>1 DEF PluginByte, Pad
<1>2. CASE Opening(e) # 0
  <2>1. Opening(e) = 1
    BY <1>2 DEF Opening
  <2>2. (place[e] + Opening(e)) - 1 = place[e]
    BY <2>1
  <2>3. PluginByte(e, place[e] + Opening(e))
           = {Item((place[e] + Opening(e)) - 1, 1, "pad", None, None)}
    BY <1>2 DEF PluginByte
  <2>4. Pad(e) = {Item(place[e], 1, "pad", None, None)}
    BY <1>2 DEF Pad
  <2> QED BY <2>2, <2>3, <2>4
<1> QED BY <1>1, <1>2

LEMMA EntryProgresses ==
    ASSUME IInv, LaidOut, Progress, WriteEntry PROVE Progress'
<1> PICK e : e = Head(todo)
  OBVIOUS
<1> DEFINE a == place[e] + Opening(e)
<1>1. /\ pc = "write" /\ todo # <<>> /\ todo' = Tail(todo) /\ UNCHANGED <<prog, place, layout, patch_list>>
      /\ final' = [final EXCEPT ![e] = a]
      /\ m_des_to_replop' = IF TargetOf(e) = None THEN m_des_to_replop ELSE Append(m_des_to_replop, e)
      /\ unpatched_callbacks' = IF Op(e) = "callback" THEN unpatched_callbacks \cup {e}
                                ELSE unpatched_callbacks
  BY DEF WriteEntry, PlacedAddress
<1>2. /\ e \in Entry /\ Placed(e) /\ final[e] = None /\ a \in Nat
      /\ Tail(todo) \in Seq(Entry) /\ Distinct(Tail(todo)) /\ e \notin ToSet(Tail(todo))
      /\ ToSet(todo) = ToSet(Tail(todo)) \cup {e}
  BY <1>1, HeadIs
<1>3. \A x : /\ Op(x)' = Op(x) /\ Opening(x)' = Opening(x) /\ TargetOf(x)' = TargetOf(x)
             /\ Placed(x)' = Placed(x)
  BY <1>1, EntriesStay
<1>4. final \in [Entry -> Nat \cup {None}]
  BY DEF Progress
<1> HIDE DEF a
<1>5. final' \in [Entry -> Nat \cup {None}] /\ final'[e] = a /\ \A x \in Entry : x # e => final'[x] = final[x]
  BY <1>1, <1>2, <1>4
<1>6. \A x : Written(x) => Written(x)'
  BY <1>2, <1>5 DEF Written
<1>7. Written(e)'
  BY <1>2, <1>5, Nodes DEF Written
<1>8. ASSUME NEW x \in Entry
      PROVE  final'[x] = IF Placed(x)' /\ x \notin ToSet(todo') THEN (place[x] + Opening(x))' ELSE None
  <2>1. (place[x] + Opening(x))' = place[x] + Opening(x)
    BY <1>1, <1>3
  <2>2. CASE x = e
    BY <1>1, <1>2, <1>3, <1>5, <2>1, <2>2 DEF a
  <2>3. CASE x # e
    <3>1. final[x] = IF Placed(x) /\ x \notin ToSet(todo) THEN place[x] + Opening(x) ELSE None
      BY DEF Progress
    <3> QED BY <1>1, <1>2, <1>3, <1>5, <2>1, <2>3, <3>1
  <2> QED BY <2>2, <2>3
<1>9. m_des_to_replop' \in Seq(Entry)
      /\ ToSet(m_des_to_replop') = IF TargetOf(e) = None THEN ToSet(m_des_to_replop)
                                   ELSE ToSet(m_des_to_replop) \cup {e}
  <2>1. m_des_to_replop \in Seq(Entry)
    BY DEF Progress
  <2>2. /\ Append(m_des_to_replop, e) \in Seq(Entry)
        /\ ToSet(Append(m_des_to_replop, e)) = ToSet(m_des_to_replop) \cup {e}
    BY <1>2, <2>1, AppendedTo
  <2> QED BY <1>1, <2>1, <2>2
<1>10. \A x \in ToSet(m_des_to_replop') : Written(x)' /\ TargetOf(x)' # None
  BY <1>3, <1>6, <1>7, <1>9 DEF Progress
<1>11. Pinned' = Pinned
  BY <1>1 DEF Pinned
<1>12. \A x \in unpatched_callbacks' : Written(x)' /\ Op(x)' = "callback"
  BY <1>1, <1>3, <1>6, <1>7 DEF Progress
<1>13. patch_list' \subseteq Pinned' /\ \A i \in Pinned' : i \in patch_list' \/ Written(i)'
  BY <1>1, <1>6, <1>11 DEF Progress
<1>14. todo' \in Seq(Entry) /\ Distinct(todo)' /\ \A x \in ToSet(todo') : Placed(x)'
  <2>1. \A x \in ToSet(todo) : Placed(x)
    BY DEF Progress
  <2>2. Distinct(todo)'
    BY <1>1, <1>2 DEF Distinct
  <2> QED BY <1>1, <1>2, <1>3, <2>1, <2>2
<1> QED BY <1>5, <1>8, <1>9, <1>10, <1>12, <1>13, <1>14 DEF Progress

LEMMA EntryFills ==
    ASSUME IInv, LaidOut, Progress, Cells, PinFacts, WriteEntry PROVE Cells'
<1> PICK e : e = Head(todo)
  OBVIOUS
<1> DEFINE a == place[e] + Opening(e)
           t == IF TargetOf(e) = None THEN None ELSE Known(TargetOf(e))
           X == Body(e, a, t, FirstOp(e)) \cup Pad(e)
<1>1. /\ pc = "write" /\ todo # <<>> /\ UNCHANGED <<prog, place, layout, patch_list>>
      /\ final' = [final EXCEPT ![e] = a] /\ ProgType
      /\ m_des_to_replop' = IF TargetOf(e) = None THEN m_des_to_replop ELSE Append(m_des_to_replop, e)
      /\ unpatched_callbacks' = IF Op(e) = "callback" THEN unpatched_callbacks \cup {e}
                                ELSE unpatched_callbacks
      /\ mem' = Plop(mem, PlopDollopEntry(e, a, t) \cup Pad(e))
  <2>1. place[e] \in Nat
    BY HeadIs DEF WriteEntry
  <2>2. PluginByte(e, a) = Pad(e)
    BY <2>1, PluginOpens
  <2>3. mem' = Plop(mem, PlopDollopEntry(e, a, t) \cup PluginByte(e, a))
    BY DEF WriteEntry, _PlopDollopEntry, PlacedAddress
  <2> QED BY <2>2, <2>3 DEF WriteEntry, IInv, PlacedAddress
<1>2. /\ e \in Entry /\ Placed(e) /\ InDollop(e) /\ final[e] = None /\ a \in Nat /\ place[e] \in Nat
      /\ a + DetermineInsnSize(e) = End(e)
  BY <1>1, HeadIs
<1>3. Addressed /\ LinksPlaced
  BY <1>1 DEF LaidOut
<1>4. PlopDollopEntry(e, a, t) = Body(e, a, t, FirstOp(e))
  <2> HIDE DEF a, t
  <2> QED BY <1>1, <1>2, PlopIs
<1>5. ASSUME NEW m \in X PROVE IsItem(m) /\ place[e] <= m.at /\ m.at + m.size <= End(e)
  <2>1. CASE m \in Body(e, a, t, FirstOp(e))
    <3>1. IsItem(m) /\ a <= m.at /\ m.at + m.size <= a + DetermineInsnSize(e)
      <4> HIDE DEF a, t
      <4> QED BY <1>1, <1>2, <2>1, BodyIs
    <3>2. m.at \in Nat /\ m.size \in Nat /\ Opening(e) \in {0, 1}
      BY <1>1, <1>2, <3>1, OpsAre DEF IsItem
    <3> QED BY <1>2, <3>1, <3>2
  <2>2. CASE m \in Pad(e)
    <3>1. m = Item(place[e], 1, "pad", None, None) /\ Opening(e) # 0
      BY <2>2 DEF Pad
    <3>2. IsItem(m) /\ m.at = place[e] /\ m.size = 1
      BY <1>2, <3>1 DEF IsItem, Item
    <3>3. Opening(e) = 1 /\ DetermineInsnSize(e) \in Nat
      <4>1. 0 \in Nat
        OBVIOUS
      <4> QED BY <1>1, <1>2, <3>1, <4>1, BodyIs, OpsAre
    <3> QED BY <1>2, <3>2, <3>3
  <2> HIDE DEF a, t
  <2> QED BY <1>5, <2>1, <2>2
<1>6. \A m \in mem : IsItem(m) /\ InPlace(m)
  BY DEF Cells
<1>7. ~ Written(e)
  BY <1>2 DEF Written
<1>8. Region(e) = {}
  <2>1. \A m \in mem : m \notin Region(e)
    BY <1>1, <1>2, <1>3, <1>6, <1>7, Apart
  <2> QED BY <2>1 DEF Region
<1>9. mem' = mem \cup X
  <2>1. mem' = Plop(mem, X)
    BY <1>1, <1>4
  <2>2. ASSUME NEW m \in mem, NEW n \in X PROVE ~ Touch(m, n)
    <3>1. /\ End(e) \in Nat /\ place[e] \in Nat
          /\ m.at + m.size <= place[e] \/ End(e) <= m.at
      BY <1>1, <1>2, <1>3, <1>6, <1>7, Apart
    <3>2. n.at \in Nat /\ n.size \in Nat /\ place[e] <= n.at /\ n.at + n.size <= End(e)
      <4> HIDE DEF X
      <4> QED BY <1>5 DEF IsItem
    <3>3. m.at \in Nat /\ m.size \in Nat
      BY <1>6 DEF IsItem
    <3> HIDE DEF X
    <3> QED BY <3>1, <3>2, <3>3 DEF Touch
  <2> HIDE DEF X
  <2> QED BY <2>1, <2>2 DEF Plop
<1>10. final'[e] = a /\ \A x : x # e => final'[x] = final[x]
  <2> HIDE DEF a
  <2>1. final \in [Entry -> Nat \cup {None}]
    BY DEF Progress
  <2> QED BY <1>1, <1>2, <2>1
<1>11. Written(e)' /\ \A x : Written(x) => Written(x)'
  <2> HIDE DEF a
  <2>1. a # None
    BY <1>2, Nodes
  <2> QED BY <1>2, <1>10, <2>1 DEF Written
<1> HIDE DEF X
<1>12. /\ \A m \in mem' : IsItem(m)' /\ InPlace(m)'
       /\ \A g \in Entry : Placed(g) /\ g # e => Region(g)' = Region(g)
       /\ Region(e)' = (Region(e) \ {}) \cup X
       /\ \A i \in Pinned : {m \in mem' : m.at = prog.pin[i]} = {m \in mem : m.at = prog.pin[i]}
  <2> PICK Y : Y = {}
    OBVIOUS
  <2>1. mem' = (mem \ Y) \cup X /\ \A m \in Y \cap mem : m \in Region(e)
    BY <1>9
  <2>2. /\ \A m \in mem' : IsItem(m)' /\ InPlace(m)'
        /\ \A g \in Entry : Placed(g) /\ g # e => Region(g)' = Region(g)
        /\ Region(e)' = (Region(e) \ Y) \cup X
        /\ \A i \in Pinned : {m \in mem' : m.at = prog.pin[i]} = {m \in mem : m.at = prog.pin[i]}
    <3> HIDE DEF a, t
    <3>1. UNCHANGED <<prog, place, layout>>
      BY <1>1
    <3> QED BY <1>1, <1>2, <1>3, <1>5, <1>6, <1>11, <2>1, <3>1, ChangeInside
  <2> QED BY <2>2
<1>13. \A x : /\ Op(x)' = Op(x) /\ Placed(x)' = Placed(x) /\ TargetOf(x)' = TargetOf(x)
              /\ FirstOp(x)' = FirstOp(x)
  BY <1>1, EntriesStay
<1>14. /\ m_des_to_replop \in Seq(Entry)
       /\ ToSet(m_des_to_replop) \subseteq ToSet(m_des_to_replop')
       /\ TargetOf(e) # None => e \in ToSet(m_des_to_replop')
  <2>1. m_des_to_replop \in Seq(Entry)
    BY DEF Progress
  <2>2. ToSet(Append(m_des_to_replop, e)) = ToSet(m_des_to_replop) \cup {e}
    BY <1>2, <2>1, AppendedTo
  <2> QED BY <1>1, <2>1, <2>2
<1>15. \E u, o : Settled(e, u, o)'
  <2> HIDE DEF t
  <2>1. PICK u, o, b : u = t /\ o = FirstOp(e) /\ b = final'[e]
    OBVIOUS
  <2>2. b = a /\ FirstOp(e)' = o
    BY <1>10, <1>13, <2>1
  <2>3. Cell(e, u, o)' = Pad(e) \cup Body(e, b, u, o)
    BY <1>1, <2>1, CellIs
  <2>4. Region(e)' = Cell(e, u, o)'
    BY <1>8, <1>12, <2>1, <2>2, <2>3 DEF X
  <2>5. TargetOf(e)' # None => e \in ToSet(m_des_to_replop')
    BY <1>13, <1>14
  <2>6. IF Op(e)' = "callback" THEN e \in unpatched_callbacks' ELSE o = FirstOp(e)'
    BY <1>1, <1>13, <2>2
  <2>7. Settled(e, u, o)'
    BY <2>4, <2>5, <2>6 DEF Settled
  <2> QED BY <2>7
<1>16. ASSUME NEW g \in Entry, g # e, Written(g)' PROVE \E u, o : Settled(g, u, o)'
  <2>1. Written(g) /\ Placed(g) /\ final'[g] = final[g]
    <3>1. Written(g) /\ final'[g] = final[g]
      BY <1>10, <1>16 DEF Written
    <3> QED BY <3>1 DEF Progress, Written
  <2>2. PICK u, o : Settled(g, u, o)
    BY <2>1 DEF Cells
  <2>3. Region(g)' = Region(g)
    BY <1>12, <1>16, <2>1
  <2>4. \A h : final[h] # None => final'[h] = final[h]
    BY <1>2, <1>10
  <2>5. g \in unpatched_callbacks => g \in unpatched_callbacks'
    BY <1>1
  <2>6. g \in ToSet(m_des_to_replop) => g \in ToSet(m_des_to_replop')
    BY <1>14
  <2>7. UNCHANGED <<prog, place, layout>>
    BY <1>1
  <2> HIDE DEF a, t
  <2>8. Settled(g, u, o)'
    BY <2>1, <2>2, <2>3, <2>4, <2>5, <2>6, <2>7, SettledStays
  <2> QED BY <2>8
<1>17. ASSUME NEW i \in Pinned PROVE PinJumps(i)'
  <2>1. PinJumps(i)
    BY DEF Cells
  <2>2. i \notin patch_list => final[i] # None
    BY DEF Progress, Written
  <2>3. i \notin patch_list => final'[i] = final[i]
    BY <1>2, <1>10, <2>2
  <2>4. {m \in mem' : m.at = prog'.pin[i]} = {m \in mem : m.at = prog.pin[i]}
    BY <1>1, <1>12
  <2>5. Item(prog.pin[i], 5, "jmp32", IF i \in patch_list THEN None ELSE final[i], None)'
           = Item(prog.pin[i], 5, "jmp32", IF i \in patch_list THEN None ELSE final[i], None)
    BY <1>1, <2>3 DEF Item
  <2> QED BY <2>1, <2>4, <2>5 DEF PinJumps
<1>18. Pinned' = Pinned
  BY <1>1 DEF Pinned
<1>19. \A g \in Entry : Written(g)' => \E u, o : Settled(g, u, o)'
  BY <1>15, <1>16
<1> QED BY <1>12, <1>17, <1>18, <1>19 DEF Cells

-----------------------------------------------------------------------------
(* Writing a branch again, when all is written.                            *)
LEMMA TailIs ==
    ASSUME NEW S, NEW s \in Seq(S), s # <<>>
    PROVE  Head(s) \in S /\ Tail(s) \in Seq(S) /\ ToSet(s) = ToSet(Tail(s)) \cup {Head(s)}
<1> DEFINE r == Tail(s)
<1>1. /\ Len(s) \in Nat /\ Len(s) > 0 /\ s[1] = Head(s) /\ DOMAIN s = 1 .. Len(s) /\ 1 \in 1 .. Len(s)
      /\ \A k \in 1 .. Len(s) : s[k] \in S
  BY LenProperties, ElementOfSeq
<1>2. /\ r \in Seq(S) /\ Len(r) = Len(s) - 1 /\ DOMAIN r = 1 .. Len(r)
      /\ \A k \in 1 .. Len(r) : r[k] = s[k + 1]
  BY HeadTailProperties, LenProperties
<1> HIDE DEF r
<1>3. \A k \in 1 .. Len(r) : k + 1 \in 1 .. Len(s)
  BY <1>1, <1>2
<1>4. \A k \in 1 .. Len(s) : k = 1 \/ (k - 1 \in 1 .. Len(r) /\ (k - 1) + 1 = k)
  BY <1>1, <1>2
<1>5. ToSet(s) = ToSet(r) \cup {Head(s)}
  <2>1. ToSet(r) \cup {Head(s)} \subseteq ToSet(s)
    BY <1>1, <1>2, <1>3 DEF ToSet
  <2>2. ASSUME NEW k \in 1 .. Len(s) PROVE s[k] \in ToSet(r) \cup {Head(s)}
    <3>1. CASE k = 1
      BY <1>1, <3>1
    <3>2. CASE k # 1
      <4>1. k - 1 \in 1 .. Len(r) /\ r[k - 1] = s[k]
        BY <1>2, <1>4, <3>2
      <4> QED BY <1>2, <4>1 DEF ToSet
    <3> QED BY <3>1, <3>2
  <2> QED BY <1>1, <2>1, <2>2 DEF ToSet
<1> QED BY <1>1, <1>2, <1>5 DEF r

LEMMA WrittenIs ==
    ASSUME IInv, pc = "write", LaidOut, Progress, NEW e \in Entry, Written(e)
    PROVE  /\ Placed(e) /\ InDollop(e) /\ Opening(e) \in {0, 1}
           /\ place[e] \in Nat /\ final[e] \in Nat /\ final[e] = place[e] + Opening(e)
           /\ DetermineInsnSize(e) \in Nat \ {0} /\ final[e] + DetermineInsnSize(e) = End(e)
<1>1. Placed(e) /\ e \notin ToSet(todo) /\ final[e] = place[e] + Opening(e)
  BY DEF Progress, Written
<1>2. InDollop(e) /\ place[e] \in Nat
  BY <1>1 DEF LaidOut, Housed, Addressed, Placed
<1>3. Opening(e) \in {0, 1} /\ DetermineInsnSize(e) \in Nat \ {0}
  <2>1. 0 \in Nat
    OBVIOUS
  <2> QED BY <2>1, BodyIs, EntryFacts
<1>4. End(e) = place[e] + (DetermineInsnSize(e) + Opening(e))
  BY DEF End, DetermineDollopEntrySize
<1> QED BY <1>1, <1>2, <1>3, <1>4

(* When nothing is left to write, all that is placed has its address.      *)
LEMMA AllWritten ==
    ASSUME LaidOut, pc = "write", Progress, todo = <<>>
    PROVE  \A e \in Entry : Placed(e) => Written(e) /\ Known(e) = final[e] /\ final[e] # None
<1> SUFFICES ASSUME NEW e \in Entry, Placed(e) PROVE final[e] # None
  BY DEF Written, Known
<1>1. e \notin ToSet(todo)
  BY DEF ToSet
<1>2. final[e] = place[e] + Opening(e)
  BY <1>1 DEF Progress
<1>3. place[e] \in Nat /\ Opening(e) \in Nat
  BY DEF LaidOut, Addressed, Placed, Opening
<1> QED BY <1>2, <1>3, Nodes

(* A plugin that starts over puts byte and instruction where they are.     *)
LEMMA BranchAgain ==
    ASSUME IInv, LaidOut, Progress, PluginsStartOver, ReplopEntry,
           NEW e, e = Head(m_des_to_replop)
    PROVE  /\ final' = final
           /\ mem' = Plop(mem, _PlopDollopEntry(e, final[e]) \cup Pad(e))
<1>1. pc = "write" /\ m_des_to_replop # <<>>
  BY DEF ReplopEntry
<1>2. e \in Entry /\ e \in ToSet(m_des_to_replop)
  <2>1. m_des_to_replop \in Seq(Entry)
    BY DEF Progress
  <2> QED BY <1>1, <2>1, TailIs
<1>3. Written(e)
  BY <1>2 DEF Progress
<1>4. place[e] \in Nat /\ final[e] \in Nat /\ final[e] = place[e] + Opening(e)
  BY <1>1, <1>2, <1>3, WrittenIs
<1>5. PlacedAddress(e, final[e]) = final[e]
  <2>1. e \notin prog.plopped => Opening(e) = 0
    BY DEF Opening
  <2> QED BY <1>4, <2>1 DEF PlacedAddress
<1>6. PluginByte(e, final[e]) = Pad(e)
  BY <1>4, PluginOpens
<1>7. final \in [Entry -> Nat \cup {None}]
  BY DEF Progress
<1>8. [final EXCEPT ![e] = final[e]] = final
  BY <1>2, <1>7
<1> QED BY <1>5, <1>6, <1>8 DEF ReplopEntry

LEMMA BranchProgresses ==
    ASSUME IInv, LaidOut, Progress, PluginsStartOver, ReplopEntry PROVE Progress'
<1>1. /\ m_des_to_replop # <<>> /\ m_des_to_replop' = Tail(m_des_to_replop)
      /\ UNCHANGED <<prog, place, layout, final, todo, unpatched_callbacks, patch_list>>
  BY BranchAgain DEF ReplopEntry
<1>2. \A x : Op(x)' = Op(x) /\ Opening(x)' = Opening(x) /\ TargetOf(x)' = TargetOf(x) /\ Placed(x)' = Placed(x)
  BY <1>1, EntriesStay
<1>3. \A x : Written(x)' = Written(x)
  BY <1>1 DEF Written
<1>4. m_des_to_replop' \in Seq(Entry) /\ ToSet(m_des_to_replop') \subseteq ToSet(m_des_to_replop)
  <2>1. m_des_to_replop \in Seq(Entry)
    BY DEF Progress
  <2> QED BY <1>1, <2>1, TailIs
<1>5. \A x \in ToSet(m_des_to_replop') : Written(x)' /\ TargetOf(x)' # None
  BY <1>2, <1>3, <1>4 DEF Progress
<1>6. \A x \in unpatched_callbacks' : Written(x)' /\ Op(x)' = "callback"
  BY <1>1, <1>2, <1>3 DEF Progress
<1>7. Pinned' = Pinned
  BY <1>1 DEF Pinned
<1>8. patch_list' \subseteq Pinned' /\ \A i \in Pinned' : i \in patch_list' \/ Written(i)'
  BY <1>1, <1>3, <1>7 DEF Progress
<1>9. \A x \in Entry : final'[x] = IF Placed(x)' /\ x \notin ToSet(todo') THEN (place[x] + Opening(x))' ELSE None
  BY <1>1, <1>2 DEF Progress
<1>10. todo' \in Seq(Entry) /\ Distinct(todo)' /\ \A x \in ToSet(todo') : Placed(x)'
  BY <1>1, <1>2 DEF Progress, Distinct
<1> QED BY <1>1, <1>4, <1>5, <1>6, <1>8, <1>9, <1>10 DEF Progress

LEMMA BranchFills ==
    ASSUME IInv, LaidOut, Progress, Cells, PinFacts, PluginsStartOver, ReplopEntry PROVE Cells'
<1> PICK e, a, u : e = Head(m_des_to_replop) /\ a = final[e] /\ u = final[TargetOf(e)]
  OBVIOUS
<1> DEFINE new == Body(e, a, u, FirstOp(e))
<1>1. /\ pc = "write" /\ todo = <<>> /\ m_des_to_replop # <<>> /\ ProgType
      /\ UNCHANGED <<prog, place, layout, final, todo, unpatched_callbacks, patch_list>>
      /\ m_des_to_replop' = Tail(m_des_to_replop)
      /\ mem' = Plop(mem, _PlopDollopEntry(e, a) \cup Pad(e))
  BY BranchAgain DEF ReplopEntry, IInv
<1>2. /\ e \in Entry /\ ToSet(m_des_to_replop) = ToSet(m_des_to_replop') \cup {e}
  <2>1. m_des_to_replop \in Seq(Entry)
    BY DEF Progress
  <2> QED BY <1>1, <2>1, TailIs
<1>3. Written(e) /\ TargetOf(e) # None
  BY <1>2 DEF Progress
<1>4. Addressed /\ LinksPlaced
  BY <1>1 DEF LaidOut
<1>5. /\ Placed(e) /\ InDollop(e) /\ Opening(e) \in {0, 1}
      /\ place[e] \in Nat /\ a \in Nat /\ a = place[e] + Opening(e)
      /\ DetermineInsnSize(e) \in Nat \ {0} /\ a + DetermineInsnSize(e) = End(e)
  BY <1>1, <1>2, <1>3, WrittenIs
<1>6. u # None /\ Known(TargetOf(e)) = u
  <2>1. Placed(TargetOf(e)) /\ TargetOf(e) \in Entry
    BY <1>2, <1>3, <1>4, <1>5 DEF LinksPlaced, Placed
  <2> QED BY <1>1, <2>1, AllWritten
<1>7. _PlopDollopEntry(e, a) = new
  <2>1. _PlopDollopEntry(e, a) = PlopDollopEntry(e, a, u)
    BY <1>3, <1>6 DEF _PlopDollopEntry
  <2> QED BY <1>1, <1>2, <1>5, <2>1, PlopIs
<1>8. Op(e) # "callback"
  BY <1>1, <1>2, <1>3, EntryFacts
<1>9. PICK t, op : Settled(e, t, op)
  BY <1>2, <1>3 DEF Cells
<1>10. Region(e) = Pad(e) \cup Body(e, a, t, op)
  BY <1>9 DEF Settled, Cell
<1> DEFINE Y == Body(e, a, t, op)
<1>11. \A m \in new : IsItem(m) /\ a <= m.at /\ m.at + m.size <= End(e)
  BY <1>1, <1>2, <1>5, BodyIs
<1>12. \A m \in Y : IsItem(m) /\ a <= m.at /\ m.at + m.size <= End(e)
  BY <1>1, <1>2, <1>5, BodyIs
<1>13. \A m \in Y : \E n \in new : n.at = m.at /\ n.size = m.size
  BY SameBytes
<1>14. \A m \in Pad(e) : m.at + m.size = a /\ m.at = place[e] /\ m.at # a /\ m.size = 1
  BY <1>5 DEF Pad, Item
<1>15. \A m \in mem : IsItem(m) /\ InPlace(m)
  BY DEF Cells
<1> HIDE DEF new, Y
<1>16. mem' = (mem \ Y) \cup new
  <2>1. mem' = Plop(mem, new \cup Pad(e))
    BY <1>1, <1>7
  <2>2. ASSUME NEW m \in mem, m \in Y PROVE \E n \in new : Touch(m, n)
    <3>1. PICK n \in new : n.at = m.at /\ n.size = m.size
      BY <1>13, <2>2
    <3>2. m.at \in Nat /\ m.size \in Nat \ {0}
      BY <1>15 DEF IsItem
    <3>3. Touch(m, n)
      BY <3>1, <3>2 DEF Touch
    <3> QED BY <3>3
  <2>3. ASSUME NEW m \in mem, m \notin Region(e), NEW n \in new \cup Pad(e) PROVE ~ Touch(m, n)
    <3>1. n.at \in Nat /\ n.size \in Nat /\ place[e] <= n.at /\ n.at + n.size <= End(e)
      <4>1. CASE n \in new
        <5>1. n.at \in Nat /\ n.size \in Nat /\ a <= n.at /\ n.at + n.size <= End(e)
          BY <1>11, <4>1 DEF IsItem
        <5> QED BY <1>5, <5>1
      <4>2. CASE n \in Pad(e)
        <5>1. n.at = place[e] /\ n.size = 1 /\ n.at + n.size = a
          BY <1>14, <4>2
        <5> QED BY <1>5, <5>1
      <4> QED BY <2>3, <4>1, <4>2
    <3>2. m.at \in Nat /\ m.size \in Nat
      BY <1>15 DEF IsItem
    <3>3. End(e) \in Nat /\ (m.at + m.size <= place[e] \/ End(e) <= m.at)
      BY <1>1, <1>2, <1>4, <1>5, <1>15, <2>3, Apart
    <3> QED BY <1>5, <3>1, <3>2, <3>3 DEF Touch
  <2>4. Pad(e) \subseteq mem /\ Pad(e) \cap Y = {}
    <3>1. ASSUME NEW m \in Pad(e), m \in Y PROVE FALSE
      <4>1. m.at = place[e] /\ m.at # a /\ a <= m.at
        BY <1>12, <1>14, <3>1 DEF Y
      <4> QED BY <1>5, <4>1
    <3>2. Pad(e) \subseteq mem
      BY <1>10 DEF Region
    <3> QED BY <3>1, <3>2
  <2>5. Region(e) = Pad(e) \cup Y
    BY <1>10 DEF Y
  <2> QED BY <2>1, <2>2, <2>3, <2>4, <2>5 DEF Plop
<1>17. \A x : Written(x)' = Written(x)
  BY <1>1 DEF Written
<1>18. \A m \in Y \cap mem : m \in Region(e)
  BY <1>10 DEF Y
<1>19. \A m \in new : IsItem(m) /\ place[e] <= m.at /\ m.at + m.size <= End(e)
  <2> SUFFICES ASSUME NEW m \in new PROVE place[e] <= m.at
    BY <1>11
  <2>1. a <= m.at /\ m.at \in Nat
    BY <1>11 DEF IsItem
  <2> QED BY <1>5, <2>1
<1>20. /\ \A m \in mem' : IsItem(m)' /\ InPlace(m)'
       /\ \A g \in Entry : Placed(g) /\ g # e => Region(g)' = Region(g)
       /\ Region(e)' = (Region(e) \ Y) \cup new
       /\ \A i \in Pinned : {m \in mem' : m.at = prog.pin[i]} = {m \in mem : m.at = prog.pin[i]}
  <2>1. UNCHANGED <<prog, place, layout>>
    BY <1>1
  <2>2. Written(e)' /\ \A g : Written(g) => Written(g)'
    BY <1>3, <1>17
  <2> QED BY <1>1, <1>2, <1>4, <1>5, <1>15, <1>16, <1>18, <1>19, <2>1, <2>2, ChangeInside
<1>21. \A x : /\ Op(x)' = Op(x) /\ Placed(x)' = Placed(x) /\ TargetOf(x)' = TargetOf(x)
              /\ FirstOp(x)' = FirstOp(x)
  BY <1>1, EntriesStay
<1>22. \E v, o : Settled(e, v, o)'
  <2>1. PICK o : o = FirstOp(e)
    OBVIOUS
  <2>2. Cell(e, u, o)' = Pad(e) \cup Body(e, a, u, o)
    <3>1. a = final'[e]
      BY <1>1
    <3> QED BY <1>1, <3>1, CellIs
  <2>3. Pad(e) \cap Y = {}
    <3>1. ASSUME NEW m \in Pad(e), m \in Y PROVE FALSE
      <4>1. m.at = place[e] /\ m.at # a /\ a <= m.at
        BY <1>12, <1>14, <3>1 DEF Y
      <4> QED BY <1>5, <4>1
    <3> QED BY <3>1
  <2>4. Region(e)' = Cell(e, u, o)'
    <3>1. (Pad(e) \cup Y) \ Y = Pad(e)
      BY <2>3
    <3> QED BY <1>10, <1>20, <2>1, <2>2, <3>1 DEF Y, new
  <2>5. final[TargetOf(e)]' = u
    BY <1>1, <1>21
  <2>6. Op(e)' # "callback" /\ o = FirstOp(e)'
    BY <1>8, <1>21, <2>1
  <2>7. Settled(e, u, o)'
    BY <1>6, <2>4, <2>5, <2>6 DEF Settled
  <2> QED BY <2>7
<1>23. ASSUME NEW g \in Entry, g # e, Written(g)' PROVE \E v, o : Settled(g, v, o)'
  <2>1. Written(g) /\ Placed(g) /\ final'[g] = final[g]
    <3>1. Written(g) /\ final'[g] = final[g]
      BY <1>1, <1>17, <1>23
    <3> QED BY <3>1 DEF Progress, Written
  <2>2. PICK v, o : Settled(g, v, o)
    BY <2>1 DEF Cells
  <2>3. Region(g)' = Region(g)
    BY <1>20, <1>23, <2>1
  <2>4. \A h : final[h] # None => final'[h] = final[h]
    BY <1>1
  <2>5. g \in unpatched_callbacks => g \in unpatched_callbacks'
    BY <1>1
  <2>6. g \in ToSet(m_des_to_replop) => g \in ToSet(m_des_to_replop')
    BY <1>2, <1>23
  <2>7. UNCHANGED <<prog, place, layout>>
    BY <1>1
  <2>8. Settled(g, v, o)'
    BY <2>1, <2>2, <2>3, <2>4, <2>5, <2>6, <2>7, SettledStays
  <2> QED BY <2>8
<1>24. ASSUME NEW i \in Pinned PROVE PinJumps(i)'
  <2>1. PinJumps(i)
    BY DEF Cells
  <2>2. {m \in mem' : m.at = prog'.pin[i]} = {m \in mem : m.at = prog.pin[i]}
    BY <1>1, <1>20
  <2>3. Item(prog.pin[i], 5, "jmp32", IF i \in patch_list THEN None ELSE final[i], None)'
           = Item(prog.pin[i], 5, "jmp32", IF i \in patch_list THEN None ELSE final[i], None)
    BY <1>1 DEF Item
  <2> QED BY <2>1, <2>2, <2>3 DEF PinJumps
<1>25. Pinned' = Pinned
  BY <1>1 DEF Pinned
<1>26. \A g \in Entry : Written(g)' => \E v, o : Settled(g, v, o)'
  BY <1>22, <1>23
<1> QED BY <1>20, <1>24, <1>25, <1>26 DEF Cells

-----------------------------------------------------------------------------
(* Patching pins and callbacks.                                            *)
LEMMA Retargeted ==
    ASSUME \A m \in mem : IsItem(m), NEW a, NEW op, NEW to, NEW y, {m \in mem : m.at = a} = {y}
    PROVE  Retarget(a, op, to) = (mem \ {y}) \cup {Item(a, y.size, op, to, y.of)}
<1>1. y \in mem /\ y.at = a /\ \A m \in mem : m.at = a => m = y
  OBVIOUS
<1>2. y = Item(y.at, y.size, y.op, y.to, y.of)
  BY <1>1 DEF IsItem
<1>3. [y EXCEPT !.op = op, !.to = to] = Item(a, y.size, op, to, y.of)
  <2>1. PICK s, o, t, g : y = [at |-> a, size |-> s, op |-> o, to |-> t, of |-> g]
    BY <1>1, <1>2 DEF Item
  <2>2. y.size = s /\ y.of = g
    BY <2>1
  <2>3. [y EXCEPT !.op = op, !.to = to] = [at |-> a, size |-> s, op |-> op, to |-> to, of |-> g]
    <3>1. y \in [at : {a}, size : {s}, op : {o}, to : {t}, of : {g}]
      BY <2>1
    <3>2. PICK x : x = [y EXCEPT !.op = op, !.to = to]
      OBVIOUS
    <3>3. x \in [at : {a}, size : {s}, op : {op}, to : {to}, of : {g}]
      BY ONLY <3>1, <3>2
    <3>4. x = [at |-> a, size |-> s, op |-> op, to |-> to, of |-> g]
      BY ONLY <3>3
    <3> QED BY ONLY <3>2, <3>4, Zenon
  <2> QED BY <2>2, <2>3 DEF Item
<1> DEFINE f(m) == IF m.at = a THEN [m EXCEPT !.op = op, !.to = to] ELSE m
<1>4. f(y) = Item(a, y.size, op, to, y.of) /\ \A m \in mem \ {y} : f(m) = m
  BY <1>1, <1>3
<1>5. Retarget(a, op, to) = {f(m) : m \in mem}
  BY DEF Retarget
<1> HIDE DEF f
<1> QED BY <1>1, <1>4, <1>5

(* What memory holds where an entry is.                                    *)
LEMMA MemoryAt ==
    ASSUME IInv, pc = "write", LaidOut, Progress, Cells, PinFacts,
           NEW e \in Entry, Written(e), NEW x \in Nat, place[e] <= x, x < End(e)
    PROVE  {m \in mem : m.at = x} = {m \in Region(e) : m.at = x}
<1>1. Placed(e) /\ Addressed /\ ProgType
  BY WrittenIs DEF LaidOut, IInv
<1>2. ASSUME NEW m \in mem, m.at = x PROVE m \in Region(e)
  BY <1>2 DEF Region
<1>3. Region(e) \subseteq mem
  BY DEF Region
<1> QED BY <1>2, <1>3

LEMMA FirstAt ==
    ASSUME IInv, pc = "write", LaidOut, Progress, Cells, PinFacts,
           NEW e \in Entry, Written(e), NEW t, NEW op, Settled(e, t, op)
    PROVE  {m \in mem : m.at = final[e]} = {Item(final[e], FirstSize(e), op, FirstTo(e, t), e)}
<1>1. /\ Placed(e) /\ Opening(e) \in {0, 1} /\ place[e] \in Nat /\ final[e] \in Nat
      /\ final[e] = place[e] + Opening(e)
      /\ DetermineInsnSize(e) \in Nat \ {0} /\ final[e] + DetermineInsnSize(e) = End(e)
  BY WrittenIs
<1>2. {m \in mem : m.at = final[e]} = {m \in Region(e) : m.at = final[e]}
  <2>1. place[e] <= final[e] /\ final[e] < End(e)
    BY <1>1
  <2> QED BY <1>1, <2>1, MemoryAt
<1>3. Region(e) = Pad(e) \cup {Item(final[e], FirstSize(e), op, FirstTo(e, t), e)}
                         \cup Behind(e, final[e], t)
  BY DEF Settled, Cell, Body
<1>4. \A m \in Pad(e) : m.at # final[e]
  <2>1. \A m \in Pad(e) : m.at = place[e] /\ Opening(e) # 0
    BY DEF Pad, Item
  <2> QED BY <1>1, <2>1
<1>5. \A m \in Behind(e, final[e], t) : m.at # final[e]
  <2>1. \A m \in Behind(e, final[e], t) : m.at > final[e] /\ m \in Body(e, final[e], t, op)
    BY <1>1, BodyIs DEF Body
  <2>2. \A m \in Body(e, final[e], t, op) : m.at \in Nat
    BY <1>1, BodyIs DEF IsItem
  <2> QED BY <1>1, <2>1, <2>2
<1>6. Item(final[e], FirstSize(e), op, FirstTo(e, t), e).at = final[e]
  BY DEF Item
<1> QED BY <1>2, <1>3, <1>4, <1>5, <1>6

LEMMA PatchProgresses ==
    ASSUME IInv, LaidOut, Progress, NEW i, UpdatePin(i) \/ UpdateCallback(i) PROVE Progress'
<1>1. /\ todo = <<>> /\ pc = "write"
      /\ UNCHANGED <<prog, place, layout, final, todo, m_des_to_replop>>
      /\ unpatched_callbacks' \subseteq unpatched_callbacks
      /\ (i \in Pinned /\ patch_list' = patch_list \ {i}) \/ patch_list' = patch_list
  <2>1. patch_list \subseteq Pinned
    BY DEF Progress
  <2> QED BY <2>1 DEF UpdatePin, UpdateCallback
<1>2. \A x : Op(x)' = Op(x) /\ Opening(x)' = Opening(x) /\ TargetOf(x)' = TargetOf(x) /\ Placed(x)' = Placed(x)
  BY <1>1, EntriesStay
<1>3. \A x : Written(x)' = Written(x)
  BY <1>1 DEF Written
<1>4. \A x \in ToSet(m_des_to_replop') : Written(x)' /\ TargetOf(x)' # None
  BY <1>1, <1>2, <1>3 DEF Progress
<1>5. \A x \in unpatched_callbacks' : Written(x)' /\ Op(x)' = "callback"
  BY <1>1, <1>2, <1>3 DEF Progress
<1>6. Pinned' = Pinned
  BY <1>1 DEF Pinned
<1>7. i \in Pinned => Written(i)
  <2>1. i \in Pinned => Placed(i) /\ i \in Entry
    BY <1>1 DEF LaidOut, LinksPlaced, Placed
  <2> QED BY <1>1, <2>1, AllWritten
<1>8. patch_list' \subseteq Pinned' /\ \A j \in Pinned' : j \in patch_list' \/ Written(j)'
  BY <1>1, <1>3, <1>6, <1>7 DEF Progress
<1>9. \A x \in Entry : final'[x] = IF Placed(x)' /\ x \notin ToSet(todo') THEN (place[x] + Opening(x))' ELSE None
  BY <1>1, <1>2 DEF Progress
<1>10. todo' \in Seq(Entry) /\ Distinct(todo)' /\ \A x \in ToSet(todo') : Placed(x)'
  BY <1>1, <1>2 DEF Progress, Distinct
<1>11. m_des_to_replop' \in Seq(Entry) /\ final' \in [Entry -> Nat \cup {None}]
  BY <1>1 DEF Progress
<1> QED BY <1>4, <1>5, <1>8, <1>9, <1>10, <1>11 DEF Progress

LEMMA PinFills ==
    ASSUME IInv, LaidOut, Progress, Cells, PinFacts, NEW i \in Original, UpdatePin(i) PROVE Cells'
<1> PICK p, d : p = prog.pin[i] /\ d = final[i]
  OBVIOUS
<1>1. /\ pc = "write" /\ todo = <<>> /\ i \in patch_list /\ i \in Pinned /\ ProgType
      /\ UNCHANGED <<prog, place, layout, final, todo, m_des_to_replop, unpatched_callbacks>>
      /\ patch_list' = patch_list \ {i} /\ mem' = Retarget(p, "jmp32", Known(i))
  BY DEF UpdatePin, IInv, Progress
<1>2. Placed(i) /\ Known(i) = d /\ Addressed
  <2>1. Placed(i) /\ i \in Entry /\ Addressed
    BY <1>1 DEF LaidOut, LinksPlaced, Placed
  <2> QED BY <1>1, <2>1, AllWritten
<1>3. p \in Nat /\ p + 5 <= 100 /\ \A j \in Pinned : j # i => prog.pin[j] # p
  BY <1>1 DEF PinFacts
<1> DEFINE y == Item(p, 5, "jmp32", None, None)
           z == Item(p, 5, "jmp32", d, None)
<1>4. {m \in mem : m.at = p} = {y}
  BY <1>1 DEF Cells, PinJumps
<1>5. \A m \in mem : IsItem(m) /\ InPlace(m)
  BY DEF Cells
<1>6. mem' = (mem \ {y}) \cup {z}
  <2>1. y.size = 5 /\ y.of = None
    BY DEF Item
  <2> HIDE DEF y
  <2>2. Retarget(p, "jmp32", d) = (mem \ {y}) \cup {Item(p, y.size, "jmp32", d, y.of)}
    BY <1>4, <1>5, Retargeted
  <2> QED BY <1>1, <1>2, <2>1, <2>2
<1>7. IsItem(z) /\ z.at = p /\ z.size = 5 /\ y.at = p
  BY <1>3 DEF IsItem, Item
<1> HIDE DEF y, z
<1>8. \A g : End(g)' = End(g)
  BY <1>1, EntriesStay
<1>9. \A x : Written(x)' = Written(x)
  BY <1>1 DEF Written
<1>10. Pinned' = Pinned
  BY <1>1 DEF Pinned
<1>11. \A m \in mem' : IsItem(m)' /\ InPlace(m)'
  <2> SUFFICES ASSUME NEW m \in mem' PROVE IsItem(m)' /\ InPlace(m)'
    OBVIOUS
  <2>1. m \in mem \/ m = z
    BY <1>6
  <2>2. IsItem(m)'
    <3>1. IsItem(m)
      BY <1>5, <1>7, <2>1
    <3> QED BY <3>1 DEF IsItem, Item
  <2>3. InPlace(m)
    BY <1>1, <1>5, <1>7, <2>1 DEF InPlace
  <2> QED BY <1>1, <1>8, <1>9, <1>10, <2>2, <2>3 DEF InPlace
<1>12. ASSUME NEW g \in Entry, Placed(g) PROVE Region(g)' = Region(g)
  <2>1. place[g] \in Nat /\ place[g] >= 100
    BY <1>2, <1>12 DEF Addressed, Placed
  <2>2. ~ (place[g] <= p)
    BY <1>3, <2>1
  <2>3. Region(g)' = {m \in mem' : place[g] <= m.at /\ m.at < End(g)}
    BY <1>1, <1>8 DEF Region
  <2> QED BY <1>6, <1>7, <2>2, <2>3 DEF Region
<1>13. ASSUME NEW g \in Entry, Written(g)' PROVE \E v, o : Settled(g, v, o)'
  <2>1. Written(g) /\ Placed(g)
    <3>1. Written(g)
      BY <1>9, <1>13
    <3> QED BY <3>1 DEF Progress, Written
  <2>2. PICK v, o : Settled(g, v, o)
    BY <2>1 DEF Cells
  <2>3. Region(g)' = Region(g)
    BY <1>12, <2>1
  <2>4. \A h : final[h] # None => final'[h] = final[h]
    BY <1>1
  <2>5. UNCHANGED <<prog, place, layout>> /\ final'[g] = final[g]
    BY <1>1
  <2>6. /\ g \in unpatched_callbacks => g \in unpatched_callbacks'
        /\ g \in ToSet(m_des_to_replop) => g \in ToSet(m_des_to_replop')
    BY <1>1
  <2>7. Settled(g, v, o)'
    BY <2>2, <2>3, <2>4, <2>5, <2>6, SettledStays
  <2> QED BY <2>7
<1>14. ASSUME NEW j \in Pinned PROVE PinJumps(j)'
  <2>1. CASE j = i
    <3>1. {m \in mem' : m.at = p} = {z}
      BY <1>4, <1>6, <1>7
    <3>2. Item(prog.pin[j], 5, "jmp32", IF j \in patch_list THEN None ELSE final[j], None)' = z
      BY <1>1, <2>1 DEF Item, z
    <3>3. {m \in mem' : m.at = prog'.pin[j]} = {z}
      BY <1>1, <2>1, <3>1
    <3> QED BY <3>2, <3>3 DEF PinJumps
  <2>2. CASE j # i
    <3>1. prog.pin[j] # p
      BY <1>3, <2>2
    <3>2. {m \in mem' : m.at = prog'.pin[j]} = {m \in mem : m.at = prog.pin[j]}
      BY <1>1, <1>6, <1>7, <3>1
    <3>3. Item(prog.pin[j], 5, "jmp32", IF j \in patch_list THEN None ELSE final[j], None)'
             = Item(prog.pin[j], 5, "jmp32", IF j \in patch_list THEN None ELSE final[j], None)
      BY <1>1, <2>2 DEF Item
    <3>4. PinJumps(j)
      BY DEF Cells
    <3> QED BY <3>2, <3>3, <3>4 DEF PinJumps
  <2> QED BY <2>1, <2>2
<1> QED BY <1>10, <1>11, <1>13, <1>14 DEF Cells

LEMMA CallbackFills ==
    ASSUME IInv, LaidOut, Progress, Cells, PinFacts, NEW e \in Original, UpdateCallback(e) PROVE Cells'
<1>1. /\ pc = "write" /\ e \in unpatched_callbacks /\ ProgType /\ e \in Entry
      /\ UNCHANGED <<prog, place, layout, final, todo, m_des_to_replop, patch_list>>
      /\ unpatched_callbacks' = unpatched_callbacks \ {e}
  BY Nodes DEF UpdateCallback, IInv
<1>2. PICK o \in {"callback", "nops"} : mem' = Retarget(final[e], o, None)
  BY DEF UpdateCallback
<1>3. Written(e) /\ Op(e) = "callback"
  BY <1>1 DEF Progress
<1>4. /\ Placed(e) /\ Opening(e) \in {0, 1} /\ place[e] \in Nat /\ final[e] \in Nat
      /\ final[e] = place[e] + Opening(e)
      /\ DetermineInsnSize(e) \in Nat \ {0} /\ final[e] + DetermineInsnSize(e) = End(e) /\ Addressed
  BY <1>1, <1>3, WrittenIs DEF LaidOut
<1>5. PICK t, op : Settled(e, t, op)
  BY <1>1, <1>3 DEF Cells
<1>6. FirstTo(e, t) = None /\ TargetOf(e) = None
  BY <1>1, <1>3, EntryFacts DEF FirstTo
<1> DEFINE y == Item(final[e], FirstSize(e), op, FirstTo(e, t), e)
           z == Item(final[e], FirstSize(e), o, FirstTo(e, t), e)
<1>7. {m \in mem : m.at = final[e]} = {y}
  BY <1>1, <1>3, <1>5, FirstAt
<1>8. \A m \in mem : IsItem(m) /\ InPlace(m)
  BY DEF Cells
<1>9. y.size = FirstSize(e) /\ y.of = e /\ y.at = final[e] /\ z.at = final[e]
  BY DEF Item
<1>10. mem' = (mem \ {y}) \cup {z}
  <2> HIDE DEF y
  <2>1. Retarget(final[e], o, None) = (mem \ {y}) \cup {Item(final[e], y.size, o, None, y.of)}
    BY <1>7, <1>8, Retargeted
  <2> QED BY <1>2, <1>6, <1>9, <2>1
<1>11. IsItem(z) /\ final[e] <= z.at /\ z.at + z.size <= End(e)
  <2>1. z \in Body(e, final[e], t, o)
    BY DEF Body
  <2> QED BY <1>1, <1>4, <2>1, BodyIs
<1>12. Region(e) = Pad(e) \cup {y} \cup Behind(e, final[e], t)
  BY <1>5 DEF Settled, Cell, Body
<1> HIDE DEF y, z
<1>13. \A x : Written(x)' = Written(x)
  BY <1>1 DEF Written
<1>14. /\ \A m \in mem' : IsItem(m)' /\ InPlace(m)'
       /\ \A g \in Entry : Placed(g) /\ g # e => Region(g)' = Region(g)
       /\ Region(e)' = (Region(e) \ {y}) \cup {z}
       /\ \A i \in Pinned : {m \in mem' : m.at = prog.pin[i]} = {m \in mem : m.at = prog.pin[i]}
  <2> PICK X, Y : X = {z} /\ Y = {y}
    OBVIOUS
  <2>1. UNCHANGED <<prog, place, layout>>
    BY <1>1
  <2>2. Written(e)' /\ \A g : Written(g) => Written(g)'
    BY <1>3, <1>13
  <2>3. mem' = (mem \ Y) \cup X /\ \A m \in Y \cap mem : m \in Region(e)
    BY <1>10, <1>12
  <2>4. \A m \in X : IsItem(m) /\ place[e] <= m.at /\ m.at + m.size <= End(e)
    BY <1>4, <1>11 DEF IsItem
  <2>5. /\ \A m \in mem' : IsItem(m)' /\ InPlace(m)'
        /\ \A g \in Entry : Placed(g) /\ g # e => Region(g)' = Region(g)
        /\ Region(e)' = (Region(e) \ Y) \cup X
        /\ \A i \in Pinned : {m \in mem' : m.at = prog.pin[i]} = {m \in mem : m.at = prog.pin[i]}
    BY <1>1, <1>4, <1>8, <2>1, <2>2, <2>3, <2>4, ChangeInside
  <2> QED BY <2>5
<1>15. \A x : Op(x)' = Op(x) /\ TargetOf(x)' = TargetOf(x)
  BY <1>1, EntriesStay
<1>16. Settled(e, t, o)'
  <2>1. Cell(e, t, o)' = Pad(e) \cup Body(e, final[e], t, o)
    <3>1. PICK a : a = final[e]
      OBVIOUS
    <3>2. a = final'[e]
      BY <1>1, <3>1
    <3>3. Cell(e, t, o)' = Pad(e) \cup Body(e, a, t, o)
      BY <1>1, <3>2, CellIs
    <3> QED BY <3>1, <3>3
  <2>2. y \notin Pad(e) /\ y \notin Behind(e, final[e], t)
    <3>1. \A m \in Pad(e) : m.at # final[e]
      <4>1. \A m \in Pad(e) : m.at = place[e] /\ Opening(e) # 0
        BY DEF Pad, Item
      <4> QED BY <1>4, <4>1
    <3>2. \A m \in Behind(e, final[e], t) : m.at > final[e]
      BY <1>1, <1>4, BodyIs
    <3> QED BY <1>4, <1>9, <3>1, <3>2
  <2>3. Region(e)' = Cell(e, t, o)'
    <3>1. Region(e)' = Pad(e) \cup {z} \cup Behind(e, final[e], t)
      BY <1>12, <1>14, <2>2
    <3> QED BY <2>1, <3>1 DEF Body, z
  <2> QED BY <1>2, <1>3, <1>6, <1>15, <2>3 DEF Settled
<1>17. ASSUME NEW g \in Entry, g # e, Written(g)' PROVE \E v, w : Settled(g, v, w)'
  <2>1. Written(g) /\ Placed(g)
    <3>1. Written(g)
      BY <1>13, <1>17
    <3> QED BY <3>1 DEF Progress, Written
  <2>2. PICK v, w : Settled(g, v, w)
    BY <2>1 DEF Cells
  <2>3. Region(g)' = Region(g)
    BY <1>14, <1>17, <2>1
  <2>4. \A h : final[h] # None => final'[h] = final[h]
    BY <1>1
  <2>5. UNCHANGED <<prog, place, layout>> /\ final'[g] = final[g]
    BY <1>1
  <2>6. /\ g \in unpatched_callbacks => g \in unpatched_callbacks'
        /\ g \in ToSet(m_des_to_replop) => g \in ToSet(m_des_to_replop')
    BY <1>1, <1>17
  <2>7. Settled(g, v, w)'
    BY <2>2, <2>3, <2>4, <2>5, <2>6, SettledStays
  <2> QED BY <2>7
<1>18. \A i \in Pinned : PinJumps(i)'
  <2> SUFFICES ASSUME NEW i \in Pinned PROVE PinJumps(i)'
    OBVIOUS
  <2>1. PinJumps(i)
    BY DEF Cells
  <2>2. {m \in mem' : m.at = prog'.pin[i]} = {m \in mem : m.at = prog.pin[i]}
    BY <1>1, <1>14
  <2>3. Item(prog.pin[i], 5, "jmp32", IF i \in patch_list THEN None ELSE final[i], None)'
           = Item(prog.pin[i], 5, "jmp32", IF i \in patch_list THEN None ELSE final[i], None)
    BY <1>1 DEF Item
  <2> QED BY <2>1, <2>2, <2>3 DEF PinJumps
<1>19. Pinned' = Pinned
  BY <1>1 DEF Pinned
<1>20. \A g \in Entry : Written(g)' => \E v, w : Settled(g, v, w)'
  BY <1>16, <1>17
<1> QED BY <1>14, <1>18, <1>19, <1>20 DEF Cells

-----------------------------------------------------------------------------
(* Following control.                                                      *)
LEMMA ReachesIs ==
    ASSUME NEW a, NEW d, Hop(Hop(Hop(a))) = d, Hop(d) = d, NEW x, OfProgram(d) = {x}
    PROVE  Reaches(a) = x.of
<1> DEFINE M == 2 * Cardinality(Node)
           Along(f) == f = [n \in 0 .. M |-> IF n = 0 THEN a ELSE Hop(f[n - 1])]
           path == CHOOSE f : Along(f)
<1>1. M \in Nat /\ M >= 4
  <2>1. N \in Nat /\ Node = 1 .. 2 * N + 2
    BY SizesAssumption DEF Node
  <2>2. PICK k : k = 2 * N + 2
    OBVIOUS
  <2>3. k \in Int /\ 1 \in Int /\ k >= 2
    BY <2>1, <2>2
  <2>4. Cardinality(1 .. k) = IF 1 > k THEN 0 ELSE k - 1 + 1
    BY <2>3, FS_Interval
  <2>5. Cardinality(Node) = k
    BY <2>1, <2>2, <2>3, <2>4
  <2> QED BY <2>3, <2>5
<1> HIDE DEF M
<1> DEFINE b == Hop(a)
           c == Hop(b)
           f0 == [n \in 0 .. M |-> IF n = 0 THEN a ELSE IF n = 1 THEN b ELSE IF n = 2 THEN c ELSE d]
<1>2. b = Hop(a) /\ c = Hop(b) /\ d = Hop(c) /\ d = Hop(d)
  OBVIOUS
<1> HIDE DEF b, c
<1>3. Along(f0)
  <2>1. \A n \in 0 .. M : f0[n] = IF n = 0 THEN a ELSE Hop(f0[n - 1])
    <3> SUFFICES ASSUME NEW n \in 0 .. M PROVE f0[n] = IF n = 0 THEN a ELSE Hop(f0[n - 1])
      OBVIOUS
    <3>1. CASE n = 0
      BY <3>1
    <3>2. CASE n = 1
      <4>1. f0[n] = b /\ f0[n - 1] = a
        BY <1>1, <3>2
      <4> HIDE DEF f0
      <4> QED BY <1>2, <3>2, <4>1
    <3>3. CASE n = 2
      <4>1. f0[n] = c /\ f0[n - 1] = b
        BY <1>1, <3>3
      <4> HIDE DEF f0
      <4> QED BY <1>2, <3>3, <4>1
    <3>4. CASE n = 3
      <4>1. f0[n] = d /\ f0[n - 1] = c
        BY <1>1, <3>4
      <4> HIDE DEF f0
      <4> QED BY <1>2, <3>4, <4>1
    <3>5. CASE n > 3
      <4>1. f0[n] = d /\ f0[n - 1] = d
        BY <1>1, <3>5
      <4> HIDE DEF f0
      <4> QED BY <1>2, <3>5, <4>1
    <3> QED BY <1>1, <3>1, <3>2, <3>3, <3>4, <3>5
  <2>2. f0 = [n \in 0 .. M |-> f0[n]]
    OBVIOUS
  <2> HIDE DEF f0
  <2> QED BY <2>1, <2>2
<1>4. Along(path)
  <2> HIDE DEF f0, Along
  <2> QED BY <1>3
<1>5. \A n \in 0 .. M : path[n] = IF n = 0 THEN a ELSE Hop(path[n - 1])
  <2> HIDE DEF path
  <2> QED BY <1>4
<1>6. Reaches(a) = IF OfProgram(path[M]) = {} THEN None ELSE (CHOOSE m \in OfProgram(path[M]) : TRUE).of
  BY DEF Reaches, M
<1> HIDE DEF path
<1>7. path[3] = d
  <2>1. path[0] = a
    BY <1>1, <1>5
  <2>2. path[1] = b
    <3>1. 1 \in 0 .. M /\ 1 - 1 = 0 /\ 1 # 0
      BY <1>1
    <3> QED BY <1>2, <1>5, <2>1, <3>1
  <2>3. path[2] = c
    <3>1. 2 \in 0 .. M /\ 2 - 1 = 1 /\ 2 # 0
      BY <1>1
    <3> QED BY <1>2, <1>5, <2>2, <3>1
  <2> QED
    <3>1. 3 \in 0 .. M /\ 3 - 1 = 2 /\ 3 # 0
      BY <1>1
    <3> QED BY <1>2, <1>5, <2>3, <3>1
<1> DEFINE T == {n \in Nat : path[n] = d}
<1>8. 3 .. M \subseteq T
  <2>1. 3 \in T
    BY <1>7
  <2>2. \A k \in 3 .. M : k + 1 \in 3 .. M /\ k \in T => k + 1 \in T
    <3> SUFFICES ASSUME NEW k \in 3 .. M, k + 1 \in 3 .. M, k \in T PROVE k + 1 \in T
      OBVIOUS
    <3>1. k + 1 \in 0 .. M /\ (k + 1) - 1 = k /\ k + 1 # 0 /\ k + 1 \in Nat
      BY <1>1
    <3>2. path[k + 1] = Hop(path[k])
      BY <1>5, <3>1
    <3> QED BY <1>2, <3>1, <3>2
  <2> HIDE DEF T
  <2> QED BY <1>1, <2>1, <2>2, UpTo
<1>9. path[M] = d
  <2>1. M \in 3 .. M
    BY <1>1
  <2> QED BY <1>8, <2>1
<1> QED BY <1>6, <1>9

LEMMA HopIs ==
    ASSUME NEW a, NEW x, {m \in mem : m.at = a} = {x}
    PROVE  /\ x.of \in Original \cup {hlt} => OfProgram(a) = {x} /\ Hop(a) = a
           /\ x.of \notin Original \cup {hlt} => /\ x.op = "pad" => Hop(a) = a + 1
                                                 /\ x.op = "jmp32" => Hop(a) = x.to
<1>1. x \in mem /\ x.at = a /\ \A m \in mem : m.at = a => m = x
  OBVIOUS
<1>2. x.of \in Original \cup {hlt} => OfProgram(a) = {x}
  BY <1>1 DEF OfProgram
<1>3. x.of \notin Original \cup {hlt} => OfProgram(a) = {}
  BY <1>1 DEF OfProgram
<1>4. (CHOOSE y \in mem : y.at = a) = x
  BY <1>1
<1>5. x.of \in Original \cup {hlt} => Hop(a) = a
  BY <1>2 DEF Hop
<1>6. ASSUME x.of \notin Original \cup {hlt}, x.op \in {"pad", "jmp32"}
      PROVE  Hop(a) = IF x.op = "pad" THEN a + 1 ELSE x.to
  <2>1. OfProgram(a) = {} /\ \E m \in mem : m.at = a /\ m.op \in {"pad", "jmp32"}
    BY <1>1, <1>3, <1>6
  <2> QED BY <1>4, <2>1 DEF Hop
<1> QED BY <1>2, <1>5, <1>6

-----------------------------------------------------------------------------
(* When all is done.  CInv is what holds of every state.                   *)
CInv == IInv /\ SourceKept /\ LaidOut /\ Untouched /\ WInv

Ends(e, t, op) ==
    /\ Settled(e, t, op)
    /\ TargetOf(e) # None => Placed(TargetOf(e)) /\ t = final[TargetOf(e)]
    /\ IF Op(e) = "callback" THEN op \in {"callback", "nops"} ELSE op = FirstOp(e)

LEMMA DoneIs ==
    ASSUME CInv, Done
    PROVE  /\ IInv /\ ProgType /\ pc = "write" /\ Addressed /\ LinksPlaced /\ Progress /\ Cells
           /\ \A e \in Entry : Placed(e) => Written(e) /\ \E t, op : Ends(e, t, op)
<1>1. /\ pc = "write" /\ todo = <<>> /\ m_des_to_replop = <<>> /\ unpatched_callbacks = {}
  BY DEF Done
<1>2. IInv /\ ProgType /\ LaidOut /\ Addressed /\ LinksPlaced /\ Progress /\ Cells
  BY <1>1 DEF CInv, IInv, LaidOut, WInv
<1>3. ASSUME NEW e \in Entry, Placed(e) PROVE Written(e) /\ \E t, op : Ends(e, t, op)
  <2>1. Written(e)
    BY <1>1, <1>2, <1>3, AllWritten
  <2>2. PICK t, op : Settled(e, t, op)
    BY <1>2, <2>1 DEF Cells
  <2>3. e \notin ToSet(m_des_to_replop)
    BY <1>1 DEF ToSet
  <2>4. Ends(e, t, op)
    BY <1>1, <1>2, <1>3, <2>2, <2>3 DEF Settled, Ends, LinksPlaced
  <2> QED BY <2>1, <2>4
<1> QED BY <1>1, <1>2, <1>3

(* Where control comes to at an entry of the program, and at a jump.       *)
LEMMA EntryEnds ==
    ASSUME CInv, Done, PinFacts, NEW e \in Entry, Placed(e)
    PROVE  /\ \E x : /\ {m \in mem : m.at = final[e]} = {x} /\ x.of = e
                     /\ Op(e) = "jmp32" => x.op = "jmp32"
                     /\ Op(e) = "jmp32" /\ TargetOf(e) # None => x.to = final[TargetOf(e)]
           /\ final[e] # place[e] => Hop(place[e]) = final[e]
<1>1. /\ IInv /\ pc = "write" /\ LaidOut /\ Progress /\ Cells /\ Written(e)
  BY DoneIs DEF CInv
<1>2. PICK t, op : Ends(e, t, op)
  BY DoneIs
<1>3. /\ Opening(e) \in {0, 1} /\ place[e] \in Nat /\ final[e] \in Nat
      /\ final[e] = place[e] + Opening(e)
      /\ DetermineInsnSize(e) \in Nat \ {0} /\ final[e] + DetermineInsnSize(e) = End(e)
  BY <1>1, WrittenIs
<1>4. {m \in mem : m.at = final[e]} = {Item(final[e], FirstSize(e), op, FirstTo(e, t), e)}
  BY <1>1, <1>2, FirstAt DEF Ends
<1> DEFINE y == Item(final[e], FirstSize(e), op, FirstTo(e, t), e)
<1>5. y.of = e /\ y.op = op /\ y.to = FirstTo(e, t)
  BY DEF Item
<1>6. Op(e) = "jmp32" => op = "jmp32" /\ (TargetOf(e) # None => FirstTo(e, t) = final[TargetOf(e)])
  BY <1>2 DEF Ends, FirstOp, FirstTo
<1>7. ASSUME final[e] # place[e] PROVE Hop(place[e]) = final[e]
  <2>1. Opening(e) = 1 /\ place[e] < End(e)
    BY <1>3, <1>7
  <2>2. {m \in mem : m.at = place[e]} = {m \in Region(e) : m.at = place[e]}
    BY <1>1, <1>3, <2>1, MemoryAt
  <2> DEFINE z == Item(place[e], 1, "pad", None, None)
  <2>3. Region(e) = {z} \cup Body(e, final[e], t, op)
    BY <1>2, <2>1 DEF Ends, Settled, Cell, Pad
  <2>4. \A m \in Body(e, final[e], t, op) : final[e] <= m.at /\ m.at \in Nat
    BY <1>1, <1>3, BodyIs DEF IsItem
  <2>5. \A m \in Body(e, final[e], t, op) : m.at # place[e]
    BY <1>3, <2>1, <2>4
  <2>6. z.at = place[e] /\ z.of = None /\ z.op = "pad"
    BY DEF Item
  <2> HIDE DEF z
  <2>7. {m \in mem : m.at = place[e]} = {z}
    BY <2>2, <2>3, <2>5, <2>6
  <2>8. None \notin Original \cup {hlt}
    BY Nodes
  <2>9. Hop(place[e]) = place[e] + 1
    BY <2>6, <2>7, <2>8, HopIs
  <2> QED BY <1>3, <2>1, <2>9
<1> HIDE DEF y
<1> QED BY <1>4, <1>5, <1>6, <1>7 DEF y

LEMMA Home ==
    ASSUME CInv, Done, PinFacts, NEW x \in Original \cup {hlt}, Placed(x)
    PROVE  Hop(final[x]) = final[x] /\ \E y : OfProgram(final[x]) = {y} /\ y.of = x
<1>1. x \in Entry
  BY DEF Placed
<1>2. PICK y : {m \in mem : m.at = final[x]} = {y} /\ y.of = x
  BY <1>1, EntryEnds
<1> QED BY <1>2, HopIs

LEMMA JumpsOn ==
    ASSUME CInv, Done, PinFacts, NEW e \in Entry, Placed(e), e \notin Original \cup {hlt},
           Op(e) = "jmp32", TargetOf(e) # None
    PROVE  Hop(final[e]) = final[TargetOf(e)]
<1>1. PICK y : /\ {m \in mem : m.at = final[e]} = {y} /\ y.of = e
               /\ y.op = "jmp32" /\ y.to = final[TargetOf(e)]
  BY EntryEnds
<1> QED BY <1>1, HopIs

LEMMA LoopEnds ==
    ASSUME CInv, Done, PinFacts, NEW e \in Entry, Placed(e), Op(e) = "loop"
    PROVE  Hop(final[e] + 2) = FallthroughPlace(e) /\ Hop(final[e] + 7) = final[TargetOf(e)]
<1>1. /\ IInv /\ pc = "write" /\ LaidOut /\ Progress /\ Cells /\ Written(e)
  BY DoneIs DEF CInv
<1>2. PICK t, op : Ends(e, t, op)
  BY DoneIs
<1>3. /\ Opening(e) \in {0, 1} /\ place[e] \in Nat /\ final[e] \in Nat
      /\ final[e] = place[e] + Opening(e) /\ final[e] + DetermineInsnSize(e) = End(e)
  BY <1>1, WrittenIs
<1>4. DetermineInsnSize(e) = 12 /\ TargetOf(e) # None
  BY <1>1, EntryFacts
<1>5. t = final[TargetOf(e)]
  BY <1>2, <1>4 DEF Ends
<1> DEFINE a == final[e]
           y == Item(a, FirstSize(e), op, FirstTo(e, t), e)
           k == Item(a + 2, 5, "jmp32", FallthroughPlace(e), None)
           l == Item(a + 7, 5, "jmp32", t, None)
<1>6. Region(e) = Pad(e) \cup {y} \cup {k, l}
  BY <1>2 DEF Ends, Settled, Cell, Body, Behind
<1>7. /\ y.at = a /\ k.at = a + 2 /\ k.op = "jmp32" /\ k.to = FallthroughPlace(e) /\ k.of = None
      /\ l.at = a + 7 /\ l.op = "jmp32" /\ l.to = t /\ l.of = None
  BY DEF Item
<1>8. \A m \in Pad(e) : m.at = place[e]
  BY DEF Pad, Item
<1> HIDE DEF y, k, l
<1>9. {m \in Region(e) : m.at = a + 2} = {k} /\ {m \in Region(e) : m.at = a + 7} = {l}
  <2>1. place[e] # a + 2 /\ place[e] # a + 7 /\ a # a + 2 /\ a # a + 7 /\ a + 2 # a + 7
    BY <1>3
  <2> HIDE DEF a
  <2> QED BY <1>6, <1>7, <1>8, <2>1
<1>10. {m \in mem : m.at = a + 2} = {k}
  <2>1. a + 2 \in Nat /\ place[e] <= a + 2 /\ a + 2 < End(e)
    BY <1>3, <1>4
  <2> QED BY <1>1, <1>9, <2>1, MemoryAt
<1>11. {m \in mem : m.at = a + 7} = {l}
  <2>1. a + 7 \in Nat /\ place[e] <= a + 7 /\ a + 7 < End(e)
    BY <1>3, <1>4
  <2> QED BY <1>1, <1>9, <2>1, MemoryAt
<1>12. None \notin Original \cup {hlt}
  BY Nodes
<1>13. Hop(a + 2) = FallthroughPlace(e)
  BY <1>7, <1>10, <1>12, HopIs
<1>14. Hop(a + 7) = t
  BY <1>7, <1>11, <1>12, HopIs
<1> QED BY <1>5, <1>13, <1>14

(* Behind an instruction control comes to its fallthrough, over the jump   *)
(* placement appended and the one FixMultipleFallthroughs made.            *)
LEMMA FallsOn ==
    ASSUME CInv, Done, PinFacts, NEW i \in Original, Placed(i), FallOf(i) # None
    PROVE  /\ Placed(FallOf(i)) /\ FallOf(i) \in Original \cup {hlt}
           /\ Hop(Hop(End(i))) = final[FallOf(i)] /\ FallthroughPlace(i) = End(i)
<1> PICK f, n : f = FallOf(i) /\ n = prog.ft[i]
  OBVIOUS
<1>1. /\ IInv /\ ProgType /\ pc = "write" /\ Addressed /\ LinksPlaced /\ SourceKept
      /\ LaidOut /\ Progress
  BY DoneIs DEF CInv
<1>2. f \in Original \cup {hlt} /\ f # None
  BY <1>1, ExpectedIs DEF SourceKept
<1>3. n = f \/ Relinked(i)
  BY <1>1 DEF SourceKept, AsLinked
<1>4. n # None /\ n \in Node
  <2>1. JumpBehind(i) \in Node
    BY Nodes
  <2> QED BY <1>2, <1>3, <2>1, Nodes DEF Relinked
<1>5. i \in Node
  BY Nodes
<1>6. PICK e \in Entry : /\ place[e] = End(i) /\ FallthroughPlace(i) = End(i)
                         /\ e = n \/ (e \notin Node /\ TargetOf(e) = n)
  BY <1>1, <1>4, <1>5 DEF LinksPlaced, GoesOn
<1>7. End(i) \in Nat
  BY <1>1, <1>5, Nodes, SizesAreNumbers DEF Addressed, Placed, End
<1>8. Placed(e)
  BY <1>6, <1>7, Nodes DEF Placed
<1>9. Placed(n)
  BY <1>1, <1>4, <1>6, <1>8 DEF LinksPlaced
<1>10. Placed(f) /\ Hop(final[f]) = final[f] /\ Hop(final[n]) = final[f]
  <2>1. CASE n = f
    BY <1>2, <1>9, <2>1, Home
  <2>2. CASE Relinked(i)
    <3>1. n = JumpBehind(i) /\ prog.op[n] = "jmp32" /\ prog.target[n] = f
      BY <2>2 DEF Relinked
    <3>2. Op(n) = "jmp32" /\ TargetOf(n) = f /\ n \in Entry
      BY <1>4, <3>1, Nodes DEF Op, TargetOf
    <3>3. n \notin Original \cup {hlt}
      BY <3>1, Nodes
    <3>4. Placed(f)
      BY <1>1, <1>2, <1>9, <3>2 DEF LinksPlaced
    <3>5. Hop(final[n]) = final[f]
      BY <1>2, <1>9, <3>2, <3>3, JumpsOn
    <3>6. Hop(final[f]) = final[f]
      BY <1>2, <3>4, Home
    <3> QED BY <3>4, <3>5, <3>6
  <2> QED BY <1>3, <2>1, <2>2
<1>11. Hop(Hop(End(i))) = final[f]
  <2>1. CASE e = n
    <3>1. final[n] # place[n] => Hop(place[n]) = final[n]
      BY <1>6, <1>9, <2>1, EntryEnds
    <3> QED BY <1>6, <1>10, <2>1, <3>1
  <2>2. CASE e \notin Node /\ TargetOf(e) = n
    <3>1. Op(e) = "jmp32" /\ e \notin Original \cup {hlt}
      BY <2>2, Nodes DEF Op
    <3>2. Hop(final[e]) = final[n]
      BY <1>4, <1>8, <2>2, <3>1, JumpsOn
    <3>3. final[e] = place[e]
      <4>1. Written(e)
        BY <1>8, DoneIs
      <4>2. final[e] = place[e] + Opening(e) /\ place[e] \in Nat
        BY <1>1, <4>1, WrittenIs
      <4>3. Opening(e) = 0
        BY <1>1, <2>2 DEF Opening, ProgType
      <4> QED BY <4>2, <4>3
    <3> QED BY <1>6, <1>10, <3>2, <3>3
  <2> QED BY <1>6, <2>1, <2>2
<1> QED BY <1>2, <1>6, <1>10, <1>11

(* What is of an instruction of the program in memory.                     *)
LEMMA OwnItem ==
    ASSUME CInv, Done, PinFacts, NEW m \in mem, m.of \in Original
    PROVE  /\ m.of \in Entry /\ Placed(m.of)
           /\ \E t, op : /\ Ends(m.of, t, op)
                         /\ m = Item(final[m.of], FirstSize(m.of), op, FirstTo(m.of, t), m.of)
<1>1. IInv /\ Progress /\ Cells /\ pc = "write"
  BY DoneIs
<1>2. IsItem(m) /\ InPlace(m) /\ m.of # None
  BY <1>1, Nodes DEF Cells
<1>3. ASSUME NEW i \in Pinned, m.at = prog.pin[i] PROVE FALSE
  <2>1. m \in {x \in mem : x.at = prog.pin[i]}
    BY <1>3
  <2>2. m = Item(prog.pin[i], 5, "jmp32", IF i \in patch_list THEN None ELSE final[i], None)
    BY <1>1, <2>1 DEF Cells, PinJumps
  <2> QED BY <1>2, <2>2 DEF Item
<1>4. PICK g \in Entry : Written(g) /\ place[g] <= m.at /\ m.at + m.size <= End(g)
  BY <1>2, <1>3 DEF InPlace
<1>5. Placed(g) /\ place[g] \in Nat /\ final[g] \in Nat /\ End(g) \in Nat
  <2>1. /\ Placed(g) /\ place[g] \in Nat /\ final[g] \in Nat
        /\ DetermineInsnSize(g) \in Nat /\ final[g] + DetermineInsnSize(g) = End(g)
    BY <1>1, <1>4, WrittenIs DEF CInv
  <2> QED BY <2>1
<1>6. m \in Region(g)
  <2>1. m.at < End(g)
    BY <1>2, <1>4, <1>5 DEF IsItem
  <2> QED BY <1>4, <2>1 DEF Region
<1>7. PICK t, op : Ends(g, t, op)
  BY <1>5, DoneIs
<1>8. m \in Pad(g) \cup {Item(final[g], FirstSize(g), op, FirstTo(g, t), g)} \cup Behind(g, final[g], t)
  BY <1>6, <1>7 DEF Ends, Settled, Cell, Body
<1>9. m \notin Pad(g)
  BY <1>2 DEF Pad, Item
<1>10. m \notin Behind(g, final[g], t)
  BY <1>1, <1>2, <1>5, BodyIs
<1>11. m = Item(final[g], FirstSize(g), op, FirstTo(g, t), g)
  BY <1>8, <1>9, <1>10
<1>12. m.of = g
  BY <1>11 DEF Item
<1> QED BY <1>5, <1>7, <1>11, <1>12

LEMMA ArrivesAt ==
    ASSUME CInv, Done, PinFacts, NEW x \in Original \cup {hlt}, Placed(x),
           NEW a, Hop(Hop(Hop(a))) = final[x]
    PROVE  Reaches(a) = x
<1>1. PICK y : Hop(final[x]) = final[x] /\ OfProgram(final[x]) = {y} /\ y.of = x
  BY Home
<1> QED BY <1>1, ReachesIs

LEMMA DoneKeepsControl ==
    ASSUME CInv, PinFacts PROVE ControlKept
<1> SUFFICES ASSUME Done
             PROVE  /\ \A i \in Pinned : Reaches(prog.pin[i]) = i
                    /\ \A m \in {x \in mem : x.of \in Original} :
                         LET f == Expected(m.of, "ft", Jcc)
                             t == Expected(m.of, "target", Branch)
                             size == IF m.op \in {"callback", "nops"} THEN CallbackBytes ELSE m.size
                         IN  /\ f # None => Reaches(m.at + size) = f
                             /\ t # None => IF m.op = "loop" THEN Reaches(m.at + 7) = t
                                            ELSE Reaches(m.to) = t /\ m.to \in {final[e] : e \in Entry}
                             /\ m.op # "call"
  BY DEF ControlKept
<1>1. /\ IInv /\ ProgType /\ pc = "write" /\ LinksPlaced /\ Progress /\ Cells /\ SourceKept /\ LaidOut
      /\ patch_list = {}
  BY DoneIs DEF CInv, Done
<1>2. ASSUME NEW i \in Pinned PROVE Reaches(prog.pin[i]) = i
  <2>1. i \in Original /\ Placed(i)
    BY <1>1 DEF PinFacts, LinksPlaced
  <2> DEFINE y == Item(prog.pin[i], 5, "jmp32", final[i], None)
  <2>2. {m \in mem : m.at = prog.pin[i]} = {y}
    BY <1>1 DEF Cells, PinJumps
  <2>3. y.op = "jmp32" /\ y.to = final[i] /\ y.of = None
    BY DEF Item
  <2> HIDE DEF y
  <2>4. Hop(prog.pin[i]) = final[i]
    <3>1. PICK p : p = prog.pin[i]
      OBVIOUS
    <3>2. {m \in mem : m.at = p} = {y} /\ None \notin Original \cup {hlt}
      BY <2>2, <3>1, Nodes
    <3>3. Hop(p) = y.to
      BY <2>3, <3>2, HopIs
    <3> QED BY <2>3, <3>1, <3>3
  <2>5. Hop(final[i]) = final[i]
    BY <2>1, Home
  <2>6. Hop(Hop(Hop(prog.pin[i]))) = final[i]
    BY <2>4, <2>5
  <2> QED BY <2>1, <2>6, ArrivesAt
<1>3. ASSUME NEW m \in mem, m.of \in Original
      PROVE  LET f == Expected(m.of, "ft", Jcc)
                 t == Expected(m.of, "target", Branch)
                 size == IF m.op \in {"callback", "nops"} THEN CallbackBytes ELSE m.size
             IN  /\ f # None => Reaches(m.at + size) = f
                 /\ t # None => IF m.op = "loop" THEN Reaches(m.at + 7) = t
                                ELSE Reaches(m.to) = t /\ m.to \in {final[e] : e \in Entry}
                 /\ m.op # "call"
  <2> PICK e : e = m.of
    OBVIOUS
  <2> DEFINE f == FallOf(e)
             g == GoalOf(e)
             size == IF m.op \in {"callback", "nops"} THEN CallbackBytes ELSE m.size
  <2>1. e \in Original /\ e \in Entry /\ e \in Node /\ Placed(e)
    BY <1>3, OwnItem, Nodes
  <2>2. PICK t, op : /\ Ends(e, t, op)
                     /\ m = Item(final[e], FirstSize(e), op, FirstTo(e, t), e)
    BY <1>3, OwnItem
  <2>3. m.at = final[e] /\ m.size = FirstSize(e) /\ m.op = op /\ m.to = FirstTo(e, t)
    BY <2>2 DEF Item
  <2>4. Op(e) \in {"plain", "callback", "hlt", "none", "jcc8", "loop", "jcc32", "jmp8", "jmp32"}
    BY <1>1, <2>1, EntryFacts
  <2>5. /\ op # "call" /\ (op = "loop" <=> Op(e) = "loop")
        /\ (op \in {"callback", "nops"} <=> Op(e) = "callback")
    BY <2>2, <2>4 DEF Ends, FirstOp
  <2>6. /\ final[e] \in Nat /\ DetermineInsnSize(e) \in Nat
        /\ final[e] + DetermineInsnSize(e) = End(e)
    <3>1. Written(e)
      BY <2>1, DoneIs
    <3> QED BY <1>1, <2>1, <3>1, WrittenIs
  <2>7. Op(e) # "loop" => m.at + size = End(e)
    <3>1. CASE Op(e) = "callback"
      <4>1. DetermineInsnSize(e) = CallbackBytes
        BY <1>1, <2>1, <3>1, EntryFacts
      <4> QED BY <2>3, <2>5, <2>6, <3>1, <4>1
    <3>2. CASE Op(e) \notin {"callback", "loop"}
      <4>1. FirstSize(e) = DetermineInsnSize(e)
        BY <3>2 DEF FirstSize
      <4> QED BY <2>3, <2>5, <2>6, <3>2, <4>1
    <3> QED BY <3>1, <3>2
  <2>8. Op(e) = "loop" => m.at + size = final[e] + 2
    BY <2>3, <2>5 DEF FirstSize
  <2>9. ASSUME f # None PROVE Reaches(m.at + size) = f
    <3>1. /\ Placed(f) /\ f \in Original \cup {hlt}
          /\ Hop(Hop(End(e))) = final[f] /\ FallthroughPlace(e) = End(e)
      BY <2>1, <2>9, FallsOn
    <3>2. Hop(final[f]) = final[f]
      BY <3>1, Home
    <3>3. Hop(Hop(Hop(m.at + size))) = final[f]
      <4>1. CASE Op(e) = "loop"
        <5>1. Hop(m.at + size) = End(e)
          BY <2>1, <2>8, <3>1, <4>1, LoopEnds
        <5> QED BY <3>1, <5>1
      <4>2. CASE Op(e) # "loop"
        <5>1. m.at + size = End(e)
          BY <2>7, <4>2
        <5> QED BY <3>1, <3>2, <5>1
      <4> QED BY <4>1, <4>2
    <3> HIDE DEF f, size
    <3> QED BY <3>1, <3>3, ArrivesAt
  <2>10. ASSUME g # None
         PROVE  IF op = "loop" THEN Reaches(m.at + 7) = g
                ELSE Reaches(m.to) = g /\ m.to \in {final[x] : x \in Entry}
    <3>1. TargetOf(e) = g
      BY <1>1, <2>1 DEF TargetOf, SourceKept, AsLinked
    <3>2. g \in Original \cup {hlt}
      BY <1>1, <2>1, <2>10, ExpectedIs DEF SourceKept
    <3>3. Placed(g) /\ t = final[g] /\ g \in Entry
      BY <2>2, <2>10, <3>1 DEF Ends, Placed
    <3>4. Hop(final[g]) = final[g]
      BY <3>2, <3>3, Home
    <3>5. CASE op = "loop"
      <4>1. Hop(m.at + 7) = final[g]
        BY <2>1, <2>3, <2>5, <3>1, <3>5, LoopEnds
      <4>2. Hop(Hop(Hop(m.at + 7))) = final[g]
        BY <3>4, <4>1
      <4> HIDE DEF g
      <4> QED BY <3>2, <3>3, <3>5, <4>2, ArrivesAt
    <3>6. CASE op # "loop"
      <4>1. Op(e) # "callback"
        BY <1>1, <2>1, <2>10, <3>1, EntryFacts
      <4>2. m.to = final[g]
        BY <2>3, <2>5, <2>10, <3>1, <3>3, <3>6, <4>1 DEF FirstTo
      <4>3. Hop(Hop(Hop(m.to))) = final[g]
        BY <3>4, <4>2
      <4>4. Reaches(m.to) = g
        <5> HIDE DEF g
        <5> QED BY <3>2, <3>3, <4>3, ArrivesAt
      <4> QED BY <3>3, <3>6, <4>2, <4>4
    <3> QED BY <3>5, <3>6
  <2> HIDE DEF f, g, size
  <2>11. /\ f # None => Reaches(m.at + size) = f
         /\ g # None => IF m.op = "loop" THEN Reaches(m.at + 7) = g
                        ELSE Reaches(m.to) = g /\ m.to \in {final[x] : x \in Entry}
         /\ m.op # "call"
    BY <2>3, <2>5, <2>9, <2>10
  <2> QED BY <2>11 DEF f, g, size, FallOf, GoalOf
<1> QED BY <1>2, <1>3

-----------------------------------------------------------------------------
LEMMA ControlStarts == Init => CInv
<1> SUFFICES ASSUME Init PROVE CInv
  OBVIOUS
<1>1. IInv /\ SourceKept
  BY Starts, SourceStarts
<1> QED BY <1>1 DEF Init, CInv, LaidOut, Untouched, WInv

LEMMA NothingChanges ==
    ASSUME Progress, Cells, UNCHANGED vars PROVE Progress' /\ Cells'
<1>1. UNCHANGED <<prog, place, layout, todo, final, mem, m_des_to_replop, unpatched_callbacks, patch_list>>
  BY DEF vars
<1>2. \A x : /\ Op(x)' = Op(x) /\ Opening(x)' = Opening(x) /\ TargetOf(x)' = TargetOf(x)
             /\ Placed(x)' = Placed(x) /\ End(x)' = End(x)
  BY <1>1, EntriesStay
<1>3. \A x : Written(x)' = Written(x)
  BY <1>1 DEF Written
<1>4. Pinned' = Pinned
  BY <1>1 DEF Pinned
<1>5. Progress'
  <2>1. todo' \in Seq(Entry) /\ Distinct(todo)' /\ \A x \in ToSet(todo') : Placed(x)'
    BY <1>1, <1>2 DEF Progress, Distinct
  <2>2. \A x \in Entry : final'[x] = IF Placed(x)' /\ x \notin ToSet(todo') THEN (place[x] + Opening(x))' ELSE None
    BY <1>1, <1>2 DEF Progress
  <2>3. m_des_to_replop' \in Seq(Entry) /\ final' \in [Entry -> Nat \cup {None}]
    BY <1>1 DEF Progress
  <2>4. \A x \in ToSet(m_des_to_replop') : Written(x)' /\ TargetOf(x)' # None
    BY <1>1, <1>2, <1>3 DEF Progress
  <2>5. \A x \in unpatched_callbacks' : Written(x)' /\ Op(x)' = "callback"
    BY <1>1, <1>2, <1>3 DEF Progress
  <2>6. patch_list' \subseteq Pinned' /\ \A i \in Pinned' : i \in patch_list' \/ Written(i)'
    BY <1>1, <1>3, <1>4 DEF Progress
  <2> QED BY <2>1, <2>2, <2>3, <2>4, <2>5, <2>6 DEF Progress
<1>6. \A m \in mem' : IsItem(m)' /\ InPlace(m)'
  <2> SUFFICES ASSUME NEW m \in mem' PROVE IsItem(m)' /\ InPlace(m)'
    OBVIOUS
  <2>1. IsItem(m) /\ InPlace(m)
    BY <1>1 DEF Cells
  <2>2. IsItem(m)'
    BY <2>1 DEF IsItem, Item
  <2> QED BY <1>1, <1>2, <1>3, <1>4, <2>1, <2>2 DEF InPlace
<1>7. ASSUME NEW i \in Pinned' PROVE PinJumps(i)'
  <2>1. PinJumps(i)
    BY <1>4 DEF Cells
  <2>2. Item(prog.pin[i], 5, "jmp32", IF i \in patch_list THEN None ELSE final[i], None)'
           = Item(prog.pin[i], 5, "jmp32", IF i \in patch_list THEN None ELSE final[i], None)
    BY <1>1 DEF Item
  <2> QED BY <1>1, <2>1, <2>2 DEF PinJumps
<1>8. ASSUME NEW g \in Entry, Written(g)' PROVE \E v, w : Settled(g, v, w)'
  <2>1. PICK v, w : Settled(g, v, w)
    BY <1>3, <1>8 DEF Cells
  <2>2. Region(g)' = Region(g)
    BY <1>1, <1>2 DEF Region
  <2>3. \A h : final[h] # None => final'[h] = final[h]
    BY <1>1
  <2>4. Settled(g, v, w)'
    BY <1>1, <2>1, <2>2, <2>3, SettledStays
  <2> QED BY <2>4
<1> QED BY <1>5, <1>6, <1>7, <1>8 DEF Cells

LEMMA ControlSteps ==
    ASSUME CInv, PluginsStartOver, [Next]_vars PROVE CInv'
<1>0. PluginsStartOver
  OBVIOUS
<1>1. IInv /\ SourceKept /\ LaidOut /\ Untouched /\ WInv /\ ProgType /\ PinFacts
  BY PinsAre DEF CInv, IInv
<1>2. IInv'
  BY <1>1, StepKeeps
<1>3. ASSUME pc \in {"prefixes", "fallthroughs", "multiple"}, pc' # "write", SourceKept',
             UNCHANGED <<final, m_des_to_replop, unpatched_callbacks>>
      PROVE  CInv'
  BY <1>1, <1>2, <1>3 DEF CInv, LaidOut, Untouched, WInv
<1>4. CASE FixTwoByteWithPrefix
  <2>1. SourceKept'
    BY <1>1, <1>4, PrefixesKeepSource
  <2> QED BY <1>3, <1>4, <2>1 DEF FixTwoByteWithPrefix, Prepare
<1>5. CASE FixNoFallthroughs
  <2>1. SourceKept'
    BY <1>1, <1>5, FallthroughsKeepSource
  <2> QED BY <1>3, <1>5, <2>1 DEF FixNoFallthroughs, Prepare
<1>6. CASE FixMultipleFallthroughs
  <2>1. SourceKept'
    BY <1>1, <1>6, MultipleKeepsSource
  <2>2. pc = "multiple" /\ pc' = "place" /\ UNCHANGED <<final, m_des_to_replop, unpatched_callbacks>>
    BY <1>6 DEF FixMultipleFallthroughs, Prepare
  <2> QED BY <1>3, <2>1, <2>2
<1>7. CASE PlaceDollops
  <2>1. LaidOut' /\ WInv'
    BY <1>1, <1>7, PlacementStarts
  <2>2. pc = "place" /\ pc' = "write" /\ prog' = prog /\ source' = source
    BY <1>7 DEF PlaceDollops
  <2>3. SourceKept'
    BY <1>1, <2>2, OthersKeepSource
  <2> QED BY <1>2, <2>1, <2>2, <2>3 DEF CInv, Untouched
<1>8. ASSUME pc = "write", pc' = "write", UNCHANGED <<source, prog, place, layout>>, Progress', Cells'
      PROVE  CInv'
  <2>1. LaidOut'
    BY <1>1, <1>8, LayoutStays
  <2>2. SourceKept'
    BY <1>1, <1>8, OthersKeepSource
  <2> QED BY <1>2, <1>8, <2>1, <2>2 DEF CInv, Untouched, WInv
<1>9. ASSUME pc = "write" PROVE Progress /\ Cells
  BY <1>1, <1>9 DEF WInv
<1>10. CASE WriteEntry
  <2>1. pc = "write" /\ UNCHANGED <<source, prog, place, layout>> /\ pc' \in {pc, "aborted"}
    BY <1>10 DEF WriteEntry
  <2>2. pc' = "write"
    BY <1>2, <2>1 DEF IInv
  <2>3. Progress'
    BY <1>1, <1>9, <1>10, <2>1, EntryProgresses
  <2>4. Cells'
    BY <1>1, <1>9, <1>10, <2>1, EntryFills
  <2> QED BY <1>8, <2>1, <2>2, <2>3, <2>4
<1>11. CASE ReplopEntry
  <2>1. pc = "write" /\ pc' = "write" /\ UNCHANGED <<source, prog, place, layout>>
    BY <1>11 DEF ReplopEntry
  <2>2. Progress'
    BY <1>0, <1>1, <1>9, <1>11, <2>1, BranchProgresses
  <2>3. Cells'
    BY <1>0, <1>1, <1>9, <1>11, <2>1, BranchFills
  <2> QED BY <1>8, <2>1, <2>2, <2>3
<1>12. ASSUME NEW i \in Original, UpdatePin(i) PROVE CInv'
  <2>1. pc = "write" /\ pc' = "write" /\ UNCHANGED <<source, prog, place, layout>>
    BY <1>12 DEF UpdatePin
  <2>2. Progress'
    BY <1>1, <1>9, <1>12, <2>1, PatchProgresses
  <2>3. Cells'
    BY <1>1, <1>9, <1>12, <2>1, PinFills
  <2> QED BY <1>8, <2>1, <2>2, <2>3
<1>13. ASSUME NEW i \in Original, UpdateCallback(i) PROVE CInv'
  <2>1. pc = "write" /\ pc' = "write" /\ UNCHANGED <<source, prog, place, layout>>
    BY <1>13 DEF UpdateCallback
  <2>2. Progress'
    BY <1>1, <1>9, <1>13, <2>1, PatchProgresses
  <2>3. Cells'
    BY <1>1, <1>9, <1>13, <2>1, CallbackFills
  <2> QED BY <1>8, <2>1, <2>2, <2>3
<1>14. CASE UNCHANGED vars
  <2>1. UNCHANGED <<source, prog, place, layout, final, m_des_to_replop, unpatched_callbacks, pc>>
    BY <1>14 DEF vars
  <2>2. CASE pc = "write"
    <3>1. Progress' /\ Cells'
      BY <1>9, <1>14, <2>2, NothingChanges
    <3> QED BY <1>8, <2>1, <2>2, <3>1
  <2>3. CASE pc # "write"
    <3>1. SourceKept'
      BY <1>1, <2>1, OthersKeepSource
    <3> QED BY <1>1, <1>2, <2>1, <2>3, <3>1 DEF CInv, LaidOut, Untouched, WInv
  <2> QED BY <2>2, <2>3
<1> QED BY <1>4, <1>5, <1>6, <1>7, <1>10, <1>11, <1>12, <1>13, <1>14 DEF Next

(* ControlKept: if the plugins that open an entry start over when they are *)
(* asked again, then when CreateBinaryFile is done, whatever the order of  *)
(* the dollops and of the writing and whichever instructions the repairs   *)
(* gave jumps to, each pin leads to its instruction and each instruction   *)
(* goes on to the fallthrough and the target that the transforms left it,  *)
(* or to the hlt.                                                          *)
THEOREM ProgramIsKept == PluginsStartOver => (Spec => []ControlKept)
<1> SUFFICES ASSUME PluginsStartOver PROVE Spec => []ControlKept
  OBVIOUS
<1>1. Init => CInv
  BY ControlStarts
<1>2. CInv /\ [Next]_vars => CInv'
  BY ControlSteps
<1>3. CInv => ControlKept
  <2> SUFFICES ASSUME CInv PROVE ControlKept
    OBVIOUS
  <2>1. PinFacts
    BY PinsAre DEF CInv, IInv
  <2> QED BY <2>1, DoneKeepsControl
<1> QED BY <1>1, <1>2, <1>3, PTL DEF Spec

=============================================================================
