---------------------------- MODULE Sled68Proofs ----------------------------
(***************************************************************************)
(* The compares behind a 68-sled find the jump point it was entered at,    *)
(* for a sled of any length and any set of jump points, as long as no word *)
(* of the program's stack is four 0x68 bytes.                              *)
(*                                                                         *)
(* Groups before the one of the entry are tried first.  Such a group is as *)
(* long as that one, and then its topmost word differs; or it is longer,   *)
(* and then its topmost word differs or its next words are those of whole  *)
(* pushes, where the stack holds a word of the program.                    *)
(***************************************************************************)
EXTENDS Sled68, FiniteSetTheorems, SequenceTheorems,
        WellFoundedInduction, TLAPS

(* No word of the program looks like the word of a push whose operand lies *)
(* inside the sled.  The longer groups are compared with words below the   *)
(* ones the sled pushed: with such a word there the wrong group may match. *)
NoWordOf68 == 0 \notin ProgramWords

Pushes(n, number) == ceildiv(n - number, 5)

(* The bytes 0x90 in the operand of a push at p.                           *)
Nops(n, p) == Cardinality({i \in 1 .. 4 : p + i >= n})

(* The words of n whole pushes.                                            *)
Whole(n) == [i \in 1 .. n |-> 0]

(* What is on the stack while the processor is among the pushes: the words *)
(* of whole pushes, over the words of the program.                         *)
PushingInv ==
    pc < size => \E n \in Nat : /\ pc = entry + 5 * n
                                /\ stack = Whole(n) \o below

PushedInv == found = "running" /\ pc >= size => stack = PushedValues(size, entry) \o below

IInv ==
    /\ size \in 1 .. MaxSize /\ points \subseteq 0 .. size - 1 /\ entry \in points
    /\ below \in [1 .. Depth -> ProgramWords]
    /\ pc \in 0 .. size + nop_overhead
    /\ untried \subseteq points
    /\ found \in {"running", "hit"}
    /\ pc < size + nop_overhead => found = "running"
    /\ found = "running" => entry \in untried
    /\ PushingInv
    /\ PushedInv
    /\ found = "hit" => First(untried) = entry /\ stack = below

-----------------------------------------------------------------------------
(* The operators.                                                          *)

(* The number of words a jump point pushes, and how it relates to the      *)
(* distance to the end of the sled.                                        *)
LEMMA PushesBounds ==
    ASSUME NEW n \in Nat, NEW k \in 0 .. n - 1
    PROVE  /\ Pushes(n, k) \in Nat /\ Pushes(n, k) >= 1
           /\ n - k - 1 = 5 * (Pushes(n, k) - 1) + ((n - k - 1) % 5)
           /\ (n - k - 1) % 5 \in 0 .. 4
<1> DEFINE d == n - k - 1
<1>1. d \in Nat
  OBVIOUS
<1>2. d = 5 * (d \div 5) + (d % 5) /\ d % 5 \in 0 .. 4 /\ d \div 5 \in Nat
  BY <1>1
<1>3. n - k + 5 - 1 = d + 5
  OBVIOUS
<1>4. (d + 5) \div 5 = (d \div 5) + 1
  BY <1>1
<1>5. Pushes(n, k) = (d \div 5) + 1
  BY <1>3, <1>4 DEF Pushes, ceildiv
<1> QED BY <1>2, <1>5

LEMMA PushedValuesType ==
    ASSUME NEW n \in Nat, NEW k \in 0 .. n - 1
    PROVE  /\ PushedValues(n, k) \in Seq(0 .. 4)
           /\ Len(PushedValues(n, k)) = Pushes(n, k)
           /\ PushedValues(n, k)[1] = 4 - ((n - k - 1) % 5)
           /\ \A i \in 2 .. Pushes(n, k) : PushedValues(n, k)[i] = 0
<1>1. /\ Pushes(n, k) \in Nat /\ Pushes(n, k) >= 1
      /\ (n - k - 1) % 5 \in 0 .. 4
  BY PushesBounds
<1> DEFINE f == [i \in 1 .. Pushes(n, k) |-> IF i = 1 THEN 4 - ((n - k - 1) % 5) ELSE 0]
<1>2. PushedValues(n, k) = f
  BY DEF PushedValues, Pushes
<1>3. \A i \in 1 .. Pushes(n, k) : f[i] \in 0 .. 4
  BY <1>1
<1>4. f \in [1 .. Pushes(n, k) -> 0 .. 4]
  BY <1>3
<1>5. f \in Seq(0 .. 4) /\ Len(f) = Pushes(n, k)
  BY <1>1, <1>4
<1> QED BY <1>1, <1>2, <1>5

(* The word the last push leaves, counted byte by byte, is the topmost of  *)
(* its jump point's group; the other pushes leave 0.                       *)
LEMMA PushedWord ==
    ASSUME NEW n \in Nat, NEW p \in 0 .. n - 1
    PROVE  Nops(n, p) = IF n - p > 4 THEN 0 ELSE 5 - (n - p)
<1>1. {i \in 1 .. 4 : p + i >= n} = n - p .. 4
  OBVIOUS
<1>2. Cardinality(n - p .. 4) = IF n - p > 4 THEN 0 ELSE 4 - (n - p) + 1
  <2>1. n - p \in Int
    OBVIOUS
  <2>2. QED
    BY <2>1, FS_Interval
<1>3. 4 - (n - p) + 1 = 5 - (n - p)
  OBVIOUS
<1> QED BY <1>1, <1>2, <1>3 DEF Nops

(* One more push at p, behind k whole ones from the jump point e.          *)
LEMMA PushStep ==
    ASSUME NEW n \in Nat, NEW e \in 0 .. n - 1, NEW k \in Nat,
           NEW p \in 0 .. n - 1, p = e + 5 * k, NEW B \in Seq(0 .. Other)
    PROVE  /\ p + 5 < n => <<Nops(n, p)>> \o (Whole(k) \o B) = Whole(k + 1) \o B
           /\ p + 5 >= n => <<Nops(n, p)>> \o (Whole(k) \o B) = PushedValues(n, e) \o B
<1> PICK s : s = Whole(k) \o B
  OBVIOUS
<1> PICK w : w = Nops(n, p)
  OBVIOUS
<1> DEFINE Z(m) == [i \in 1 .. m |-> 0]
           q == Pushes(n, e)
<1>0. s = Z(k) \o B /\ Whole(k + 1) = Z(k + 1)
  BY DEF Whole
<1>1. p \in 0 .. n - 1 /\ n - p \in Nat
  OBVIOUS
<1>2. w = IF n - p > 4 THEN 0 ELSE 5 - (n - p)
  BY <1>1, PushedWord
<1>3. w \in 0 .. 4
  BY <1>1, <1>2
<1>4. \A m \in Nat : Z(m) \in Seq({0}) /\ Len(Z(m)) = m
  OBVIOUS
<1>5. s \in Seq(0 .. Other) /\ Len(s) = k + Len(B)
      /\ \A i \in 1 .. Len(s) : s[i] = IF i <= k THEN 0 ELSE B[i - k]
  <2> HIDE DEF Z
  <2>1. Z(k) \in Seq(0 .. Other) /\ Len(Z(k)) = k
    BY <1>4 DEF Other, Z
  <2>2. \A i \in 1 .. k : Z(k)[i] = 0
    BY DEF Z
  <2> QED BY <2>1, <2>2, <1>0, ConcatProperties
<1>6. DEFINE t == <<w>> \o s
<1>7. t \in Seq(0 .. Other) /\ Len(t) = k + 1 + Len(B)
      /\ t[1] = w /\ \A i \in 1 .. Len(s) : t[i + 1] = s[i]
  BY <1>3, <1>5 DEF Other
<1>8. ASSUME p + 5 < n PROVE t = Z(k + 1) \o B
  <2> DEFINE u == Z(k + 1) \o B
  <2>1. u \in Seq(0 .. Other) /\ Len(u) = k + 1 + Len(B)
        /\ \A i \in 1 .. Len(u) : u[i] = IF i <= k + 1 THEN 0 ELSE B[i - (k + 1)]
    BY <1>4 DEF Other
  <2>2. w = 0
    BY <1>1, <1>2, <1>8
  <2>3. \A i \in 1 .. Len(u) : t[i] = u[i]
    <3> SUFFICES ASSUME NEW i \in 1 .. Len(u) PROVE t[i] = u[i]
      OBVIOUS
    <3>1. CASE i = 1
      BY <3>1, <2>1, <2>2, <1>7
    <3>2. CASE i # 1
      <4>1. i - 1 \in 1 .. Len(s) /\ i = (i - 1) + 1
        BY <3>2, <2>1, <1>5
      <4>2. t[i] = s[i - 1]
        <5>1. PICK j \in 1 .. Len(s) : j = i - 1 /\ i = j + 1
          BY <4>1
        <5>2. t[j + 1] = s[j]
          BY <1>7
        <5> QED BY <5>1, <5>2
      <4>3. CASE i <= k + 1
        <5>1. i - 1 <= k /\ u[i] = 0
          BY <4>1, <4>3, <2>1
        <5>2. s[i - 1] = 0
          BY <5>1, <4>1, <1>5
        <5> QED BY <5>1, <5>2, <4>2
      <4>4. CASE i > k + 1
        <5>1. ~ (i - 1 <= k) /\ i - 1 - k = i - (k + 1) /\ ~ (i <= k + 1)
          BY <4>1, <4>4
        <5>2. u[i] = B[i - (k + 1)]
          BY <5>1, <2>1
        <5>3. s[i - 1] = B[i - 1 - k]
          BY <5>1, <4>1, <1>5
        <5> QED BY <5>1, <5>2, <5>3, <4>2
      <4>5. i <= k + 1 \/ i > k + 1
        BY <4>1
      <4> QED BY <4>3, <4>4, <4>5
    <3> QED BY <3>1, <3>2
  <2>4. Len(t) = Len(u)
    BY <2>1, <1>7
  <2> QED BY <2>1, <2>3, <2>4, <1>7, SeqEqual
<1>9. ASSUME p + 5 >= n PROVE t = PushedValues(n, e) \o B
  <2> DEFINE g == PushedValues(n, e)
             u == g \o B
  <2>1. g \in Seq(0 .. 4) /\ Len(g) = q /\ g[1] = 4 - ((n - e - 1) % 5)
        /\ \A i \in 2 .. q : g[i] = 0
    BY PushedValuesType
  <2>2. q \in Nat /\ q >= 1 /\ n - e - 1 = 5 * (q - 1) + ((n - e - 1) % 5)
        /\ (n - e - 1) % 5 \in 0 .. 4
    BY PushesBounds
  <2>3. q = k + 1 /\ (n - e - 1) % 5 = n - p - 1
    <3> HIDE DEF q
    <3> DEFINE r == (n - e - 1) % 5
    <3>1. r \in 0 .. 4 /\ n - e - 1 = 5 * (q - 1) + r
      BY <2>2
    <3> HIDE DEF r
    <3>2. n - p - 1 \in 0 .. 4
      BY <1>1, <1>9
    <3>3. 5 * (q - 1) + r = 5 * k + (n - p - 1)
      BY <3>1
    <3>4. q - 1 = k /\ r = n - p - 1
      BY <3>1, <3>2, <3>3, <2>2
    <3> QED BY <3>4, <2>2 DEF r
  <2>4. w = g[1]
    BY <1>1, <1>2, <1>9, <2>1, <2>3
  <2> HIDE DEF g, q
  <2>5. u \in Seq(0 .. Other) /\ Len(u) = k + 1 + Len(B)
        /\ \A i \in 1 .. Len(u) : u[i] = IF i <= k + 1 THEN g[i] ELSE B[i - (k + 1)]
    <3>1. g \in Seq(0 .. Other)
      BY <2>1 DEF Other
    <3>2. /\ u \in Seq(0 .. Other) /\ Len(u) = Len(g) + Len(B)
          /\ \A i \in 1 .. Len(g) + Len(B) : u[i] = IF i <= Len(g) THEN g[i] ELSE B[i - Len(g)]
      BY <3>1, ConcatProperties
    <3> QED BY <3>2, <2>1, <2>3
  <2>6. \A i \in 1 .. Len(u) : t[i] = u[i]
    <3> SUFFICES ASSUME NEW i \in 1 .. Len(u) PROVE t[i] = u[i]
      OBVIOUS
    <3>1. CASE i = 1
      BY <3>1, <2>5, <2>4, <1>7
    <3>2. CASE i # 1
      <4>1. i - 1 \in 1 .. Len(s) /\ i = (i - 1) + 1
        BY <3>2, <2>5, <1>5
      <4>2. t[i] = s[i - 1]
        <5>1. PICK j \in 1 .. Len(s) : j = i - 1 /\ i = j + 1
          BY <4>1
        <5>2. t[j + 1] = s[j]
          BY <1>7
        <5> QED BY <5>1, <5>2
      <4>3. CASE i <= k + 1
        <5>1. i \in 2 .. q /\ i - 1 <= k
          BY <4>1, <4>3, <2>3, <3>2, <2>5
        <5>2. u[i] = g[i] /\ g[i] = 0
          BY <5>1, <4>3, <2>5, <2>1
        <5>3. s[i - 1] = 0
          BY <5>1, <4>1, <1>5
        <5> QED BY <5>2, <5>3, <4>2
      <4>4. CASE i > k + 1
        <5>1. ~ (i - 1 <= k) /\ i - 1 - k = i - (k + 1) /\ ~ (i <= k + 1)
          BY <4>1, <4>4
        <5>2. u[i] = B[i - (k + 1)]
          BY <5>1, <2>5
        <5>3. s[i - 1] = B[i - 1 - k]
          BY <5>1, <4>1, <1>5
        <5> QED BY <5>1, <5>2, <5>3, <4>2
      <4>5. i <= k + 1 \/ i > k + 1
        BY <4>1
      <4> QED BY <4>3, <4>4, <4>5
    <3> QED BY <3>1, <3>2
  <2>7. Len(t) = Len(u)
    BY <2>5, <1>7
  <2> QED BY <2>5, <2>6, <2>7, <1>7, SeqEqual DEF g
<1> QED BY <1>3, <1>8, <1>9, <1>0

(* The words of the program are a sequence of known length.                *)
LEMMA BelowType ==
    ASSUME NEW B \in [1 .. Depth -> ProgramWords]
    PROVE  /\ Depth \in Nat /\ B \in Seq(0 .. Other) /\ Len(B) = Depth
           /\ \A i \in 1 .. Depth : B[i] \in ProgramWords
<1>1. Depth \in Nat
  BY SledAssumption DEF Depth, ceildiv
<1>2. \A i \in 1 .. Depth : B[i] \in ProgramWords /\ B[i] \in 0 .. Other
  BY SledAssumption
<1>3. B \in [1 .. Depth -> 0 .. Other]
  BY <1>2
<1>4. B \in Seq(0 .. Other) /\ Len(B) = Depth
  <2>1. PICK d \in Nat : d = Depth
    BY <1>1
  <2>2. B \in [1 .. d -> 0 .. Other]
    BY <1>3, <2>1
  <2>3. B \in Seq(0 .. Other) /\ Len(B) = d
    <3>1. B \in Seq(0 .. Other)
      BY <2>2, SeqDef
    <3>2. 1 .. Len(B) = 1 .. d /\ Len(B) \in Nat
      BY <3>1, <2>2, LenProperties
    <3> QED BY <3>1, <3>2
  <2> QED BY <2>1, <2>3
<1> QED BY <1>1, <1>2, <1>4

(* The first words of a sequence, and the words behind them.               *)
LEMMA SplitAt ==
    ASSUME NEW S, NEW s \in Seq(S), NEW m \in 0 .. Len(s)
    PROVE  /\ SubSeq(s, 1, m) \in Seq(S) /\ Len(SubSeq(s, 1, m)) = m
           /\ \A i \in 1 .. m : SubSeq(s, 1, m)[i] = s[i]
           /\ SubSeq(s, m + 1, Len(s)) \in Seq(S)
           /\ Len(SubSeq(s, m + 1, Len(s))) = Len(s) - m
           /\ \A i \in 1 .. Len(s) - m : SubSeq(s, m + 1, Len(s))[i] = s[m + i]
<1>1. Len(s) \in Nat /\ \A i \in 1 .. Len(s) : s[i] \in S
  BY LenProperties
<1>2. /\ SubSeq(s, 1, m) \in Seq(S)
      /\ Len(SubSeq(s, 1, m)) = IF 1 <= m THEN m - 1 + 1 ELSE 0
      /\ \A i \in 1 .. m - 1 + 1 : SubSeq(s, 1, m)[i] = s[1 + i - 1]
  <2>1. \A i \in 1 .. m : s[i] \in S
    BY <1>1
  <2>2. m \in Int /\ 1 \in Int
    BY <1>1
  <2> QED BY <2>1, <2>2, SubSeqProperties
<1>3. /\ SubSeq(s, m + 1, Len(s)) \in Seq(S)
      /\ Len(SubSeq(s, m + 1, Len(s))) = IF m + 1 <= Len(s) THEN Len(s) - (m + 1) + 1 ELSE 0
      /\ \A i \in 1 .. Len(s) - (m + 1) + 1 : SubSeq(s, m + 1, Len(s))[i] = s[m + 1 + i - 1]
  <2>1. \A i \in m + 1 .. Len(s) : s[i] \in S
    BY <1>1
  <2>2. m + 1 \in Int /\ Len(s) \in Int
    BY <1>1
  <2> QED BY <2>1, <2>2, SubSeqProperties
<1>4. m - 1 + 1 = m /\ Len(s) - (m + 1) + 1 = Len(s) - m /\ m \in Nat
      /\ \A i \in Nat : 1 + i - 1 = i /\ m + 1 + i - 1 = m + i
  BY <1>1
<1>5. \A i \in 1 .. m : SubSeq(s, 1, m)[i] = s[i]
  BY <1>2, <1>4
<1>6. \A i \in 1 .. Len(s) - m : SubSeq(s, m + 1, Len(s))[i] = s[m + i]
  BY <1>3, <1>4, <1>1
<1>7. Len(SubSeq(s, 1, m)) = m /\ Len(SubSeq(s, m + 1, Len(s))) = Len(s) - m
  <2>1. Len(SubSeq(s, 1, m)) = IF 1 <= m THEN m ELSE 0
    BY <1>2, <1>4
  <2>2. Len(SubSeq(s, m + 1, Len(s))) = IF m + 1 <= Len(s) THEN Len(s) - m ELSE 0
    BY <1>3, <1>4
  <2>3. m \in Nat /\ Len(s) \in Nat /\ m <= Len(s)
    BY <1>1
  <2>4. Len(SubSeq(s, 1, m)) = m
    BY <2>1, <2>3
  <2>5. Len(SubSeq(s, m + 1, Len(s))) = Len(s) - m
    BY <2>2, <2>3
  <2> QED BY <2>4, <2>5
<1> QED BY <1>2, <1>3, <1>5, <1>6, <1>7

(* The compares against the stack a jump point e leaves: the group of e    *)
(* matches; that of a jump point before it does not.                       *)
LEMMA OwnGroupMatches ==
    ASSUME NEW n \in Nat, NEW e \in 0 .. n - 1, NEW B \in Seq(0 .. Other),
           NEW s, s = PushedValues(n, e) \o B
    PROVE  /\ IsPrefix(PushedValues(n, e), s)
           /\ SubSeq(s, Len(PushedValues(n, e)) + 1, Len(s)) = B
<1> DEFINE g == PushedValues(n, e)
<1>1. g \in Seq(0 .. Other)
  BY PushedValuesType DEF Other
<1> HIDE DEF g
<1>2. s \in Seq(0 .. Other) /\ Len(s) = Len(g) + Len(B)
      /\ \A i \in 1 .. Len(s) : s[i] = IF i <= Len(g) THEN g[i] ELSE B[i - Len(g)]
  BY <1>1 DEF g
<1>3. Len(g) \in Nat /\ Len(B) \in Nat
  BY <1>1
<1>4. SubSeq(g, 1, Len(g)) = SubSeq(s, 1, Len(g))
  <2> DEFINE a == SubSeq(g, 1, Len(g))
             b == SubSeq(s, 1, Len(g))
  <2>1. a \in Seq(0 .. Other) /\ Len(a) = Len(g) /\ \A i \in 1 .. Len(g) : a[i] = g[i]
    <3>1. Len(g) \in 0 .. Len(g)
      BY <1>3
    <3> QED BY <3>1, <1>1, SplitAt
  <2>2. b \in Seq(0 .. Other) /\ Len(b) = Len(g) /\ \A i \in 1 .. Len(g) : b[i] = s[i]
    <3>1. Len(g) \in 0 .. Len(s)
      BY <1>2, <1>3
    <3> QED BY <3>1, <1>2, SplitAt
  <2> HIDE DEF a, b
  <2>3. \A i \in 1 .. Len(a) : a[i] = b[i]
    BY <2>1, <2>2, <1>2, <1>3
  <2>4. a = b
    BY <2>1, <2>2, <2>3, SeqEqual
  <2> QED BY <2>4 DEF a, b
<1>5. SubSeq(s, Len(g) + 1, Len(s)) = B
  <2> DEFINE a == SubSeq(s, Len(g) + 1, Len(s))
  <2>1. a \in Seq(0 .. Other) /\ Len(a) = Len(B) /\ \A i \in 1 .. Len(B) : a[i] = s[Len(g) + i]
    <3>1. PICK m \in 0 .. Len(s) : m = Len(g)
      BY <1>2, <1>3
    <3>2. /\ SubSeq(s, m + 1, Len(s)) \in Seq(0 .. Other)
          /\ Len(SubSeq(s, m + 1, Len(s))) = Len(s) - m
          /\ \A i \in 1 .. Len(s) - m : SubSeq(s, m + 1, Len(s))[i] = s[m + i]
      BY <1>2, <3>1, SplitAt
    <3>3. Len(s) - m = Len(B)
      BY <1>2, <1>3, <3>1
    <3> QED BY <3>1, <3>2, <3>3
  <2> HIDE DEF a
  <2>2. \A i \in 1 .. Len(a) : a[i] = B[i]
    <3> SUFFICES ASSUME NEW i \in 1 .. Len(a) PROVE a[i] = B[i]
      OBVIOUS
    <3>1. Len(g) + i \in 1 .. Len(s) /\ ~ (Len(g) + i <= Len(g)) /\ Len(g) + i - Len(g) = i
      BY <2>1, <1>2, <1>3
    <3>2. a[i] = s[Len(g) + i]
      BY <2>1
    <3>3. s[Len(g) + i] = B[Len(g) + i - Len(g)]
      BY <3>1, <1>2
    <3> QED BY <3>1, <3>2, <3>3
  <2>3. a = B
    BY <2>1, <2>2, SeqEqual
  <2> QED BY <2>3 DEF a
<1>6. Len(g) <= Len(s)
  BY <1>2, <1>3
<1> QED BY <1>4, <1>5, <1>6 DEF g, IsPrefix

LEMMA EarlierGroupDiffers ==
    ASSUME NoWordOf68, NEW n \in Nat, NEW e \in 0 .. n - 1, NEW f \in 0 .. n - 1, f < e,
           NEW B \in [1 .. Depth -> ProgramWords],
           NEW s, s = PushedValues(n, e) \o B
    PROVE  ~ IsPrefix(PushedValues(n, f), s)
<1> DEFINE g == PushedValues(n, e)
           h == PushedValues(n, f)
<1> SUFFICES ASSUME IsPrefix(h, s) PROVE FALSE
  OBVIOUS
<1>1. Depth \in Nat /\ B \in Seq(0 .. Other) /\ Len(B) = Depth
      /\ \A i \in 1 .. Depth : B[i] \in ProgramWords
  BY BelowType
<1>2. g \in Seq(0 .. Other) /\ h \in Seq(0 .. Other)
      /\ Len(g) = Pushes(n, e) /\ Len(h) = Pushes(n, f)
      /\ g[1] = 4 - ((n - e - 1) % 5) /\ h[1] = 4 - ((n - f - 1) % 5)
      /\ \A i \in 2 .. Len(h) : h[i] = 0
  <2>1. g \in Seq(0 .. 4) /\ Len(g) = Pushes(n, e) /\ g[1] = 4 - ((n - e - 1) % 5)
    BY PushedValuesType
  <2>2. h \in Seq(0 .. 4) /\ Len(h) = Pushes(n, f) /\ h[1] = 4 - ((n - f - 1) % 5)
        /\ \A i \in 2 .. Pushes(n, f) : h[i] = 0
    BY PushedValuesType
  <2> HIDE DEF g, h
  <2>3. g \in Seq(0 .. Other) /\ h \in Seq(0 .. Other)
    BY <2>1, <2>2 DEF Other
  <2> QED BY <2>1, <2>2, <2>3
<1>3. /\ Len(g) \in Nat /\ Len(g) >= 1 /\ Len(h) \in Nat /\ Len(h) >= 1
      /\ n - e - 1 = 5 * (Len(g) - 1) + ((n - e - 1) % 5)
      /\ n - f - 1 = 5 * (Len(h) - 1) + ((n - f - 1) % 5)
      /\ (n - e - 1) % 5 \in 0 .. 4 /\ (n - f - 1) % 5 \in 0 .. 4
  BY <1>2, PushesBounds
<1>4. s \in Seq(0 .. Other) /\ Len(s) = Len(g) + Len(B)
      /\ \A i \in 1 .. Len(s) : s[i] = IF i <= Len(g) THEN g[i] ELSE B[i - Len(g)]
  <2>1. s = g \o B
    OBVIOUS
  <2> HIDE DEF g, h
  <2>2. /\ g \o B \in Seq(0 .. Other) /\ Len(g \o B) = Len(g) + Len(B)
        /\ \A i \in 1 .. Len(g) + Len(B) :
              (g \o B)[i] = IF i <= Len(g) THEN g[i] ELSE B[i - Len(g)]
    BY <1>1, <1>2, ConcatProperties
  <2> QED BY <2>1, <2>2
<1>5. Len(h) <= Len(s) /\ \A i \in 1 .. Len(h) : h[i] = s[i]
  <2>1. Len(h) <= Len(s) /\ SubSeq(h, 1, Len(h)) = SubSeq(s, 1, Len(h))
    BY DEF IsPrefix
  <2> HIDE DEF h, g
  <2>2. Len(h) \in 0 .. Len(h) /\ Len(h) \in 0 .. Len(s)
    BY <1>3, <1>4, <2>1, <1>1
  <2>3. \A i \in 1 .. Len(h) : SubSeq(h, 1, Len(h))[i] = h[i]
    BY <1>2, <2>2, SplitAt
  <2>4. \A i \in 1 .. Len(h) : SubSeq(s, 1, Len(h))[i] = s[i]
    BY <1>4, <2>2, SplitAt
  <2> QED BY <2>1, <2>3, <2>4
<1> HIDE DEF g, h
<1>l. Len(g) \in Nat /\ Len(g) >= 1 /\ Len(h) \in Nat /\ Len(h) >= 1 /\ Len(s) \in Nat
  BY <1>3, <1>4
<1>6. h[1] = g[1]
  <2>1. 1 \in 1 .. Len(h) /\ 1 \in 1 .. Len(s) /\ 1 <= Len(g)
    BY <1>l, <1>5
  <2>2. h[1] = s[1]
    BY <2>1, <1>5
  <2>3. s[1] = IF 1 <= Len(g) THEN g[1] ELSE B[1 - Len(g)]
    BY <2>1, <1>4
  <2> QED BY <2>1, <2>2, <2>3
<1>7. Len(h) > Len(g)
  <2>1. (n - e - 1) % 5 = (n - f - 1) % 5
    BY <1>2, <1>3, <1>6
  <2> QED BY <2>1, <1>3
<1>8. h[Len(g) + 1] = B[1] /\ Len(g) + 1 \in 2 .. Len(h) /\ 1 \in 1 .. Len(B)
  <2>1. Len(B) \in Nat
    BY <1>1
  <2>2. Len(g) + 1 \in 2 .. Len(h) /\ Len(g) + 1 \in 1 .. Len(s) /\ 1 \in 1 .. Len(B)
    <3>1. Len(s) = Len(g) + Len(B) /\ Len(h) <= Len(s)
      BY <1>4, <1>5
    <3> QED BY <3>1, <2>1, <1>l, <1>7
  <2>3. s[Len(g) + 1] = B[Len(g) + 1 - Len(g)] /\ Len(g) + 1 - Len(g) = 1
    BY <2>2, <1>3, <1>4
  <2>4. Len(g) + 1 \in 1 .. Len(h)
    BY <2>2
  <2>5. h[Len(g) + 1] = s[Len(g) + 1]
    BY <2>4, <1>5
  <2> QED BY <2>2, <2>3, <2>5
<1>9. h[Len(g) + 1] = 0 /\ B[1] \in ProgramWords
  BY <1>1, <1>2, <1>8
<1> QED BY <1>8, <1>9 DEF NoWordOf68

(* The least jump point not tried yet.                                     *)
LEMMA FirstIsLeast ==
    ASSUME NEW P \in SUBSET Nat, NEW e \in P
    PROVE  First(P) \in P /\ \A a \in P : First(P) <= a
<1>1. PICK m \in P : \A a \in P : ~ (<<a, m>> \in OpToRel(<, Nat))
  BY NatLessThanWellFounded, WFMin
<1>2. ASSUME NEW a \in P PROVE m <= a
  <2>1. <<a, m>> \in Nat \X Nat /\ (a < m => <<a, m>> \in OpToRel(<, Nat))
    <3>1. a \in Nat /\ m \in Nat
      OBVIOUS
    <3> QED BY <3>1 DEF OpToRel
  <2>2. a \in Nat /\ m \in Nat /\ ~ (a < m)
    BY <1>1, <2>1
  <2> QED BY <2>2
<1> QED BY <1>2 DEF First, Min

-----------------------------------------------------------------------------
(* The processor.                                                          *)
LEMMA InitInv == Init => IInv
<1> SUFFICES ASSUME Init PROVE IInv
  OBVIOUS
<1>1. size \in 1 .. MaxSize /\ MaxSize \in Nat /\ points \subseteq 0 .. size - 1
      /\ entry \in points /\ pc = entry /\ stack = below
  BY SledAssumption DEF Init
<1>2. PushingInv
  <2>1. below \in Seq(0 .. Other)
    BY BelowType DEF Init
  <2>2. Whole(0) \o below = below
    <3>1. Whole(0) = << >>
      BY DEF Whole
    <3> QED BY <3>1, <2>1
  <2>3. pc = entry + 5 * 0
    BY <1>1
  <2> QED BY <1>1, <2>2, <2>3 DEF PushingInv
<1>3. PushedInv
  BY <1>1 DEF PushedInv
<1> QED BY <1>1, <1>2, <1>3 DEF Init, IInv, nop_overhead

(* What each step finds.                                                   *)
LEMMA Facts ==
    ASSUME IInv
    PROVE  /\ size \in Nat /\ points \subseteq 0 .. size - 1 /\ entry \in 0 .. size - 1
           /\ below \in Seq(0 .. Other) /\ pc \in Nat
  BY BelowType, SledAssumption DEF IInv

LEMMA PushKeeps == IInv /\ Push => IInv'
<1> SUFFICES ASSUME IInv, Push PROVE IInv'
  OBVIOUS
<1>1. /\ size \in Nat /\ points \subseteq 0 .. size - 1 /\ entry \in 0 .. size - 1
      /\ below \in Seq(0 .. Other) /\ pc \in Nat
  BY Facts
<1>2. PICK n \in Nat : pc = entry + 5 * n /\ stack = Whole(n) \o below
  BY DEF IInv, Push, PushingInv
<1>3. PICK w : w = Nops(size, pc)
  OBVIOUS
<1>4. stack' = <<w>> \o stack /\ pc' = pc + 5 /\ pc < size
      /\ UNCHANGED <<size, points, entry, below, untried, found>>
  BY <1>3 DEF Push, Nops
<1>5. /\ pc + 5 < size => <<w>> \o stack = Whole(n + 1) \o below
      /\ pc + 5 >= size => <<w>> \o stack = PushedValues(size, entry) \o below
  <2>1. n \in Nat /\ pc \in 0 .. size - 1 /\ pc = entry + 5 * n
    BY <1>1, <1>2, <1>4
  <2>2. size \in Nat /\ entry \in 0 .. size - 1 /\ below \in Seq(0 .. Other)
    BY <1>1
  <2>3. /\ pc + 5 < size => <<Nops(size, pc)>> \o (Whole(n) \o below) = Whole(n + 1) \o below
        /\ pc + 5 >= size =>
              <<Nops(size, pc)>> \o (Whole(n) \o below) = PushedValues(size, entry) \o below
    BY <2>1, <2>2, PushStep
  <2> QED BY <2>3, <1>2, <1>3
<1>6. PushingInv'
  <2>1. pc' = entry + 5 * (n + 1) /\ n + 1 \in Nat
    BY <1>1, <1>2, <1>4
  <2> QED BY <2>1, <1>4, <1>5 DEF PushingInv
<1>7. PushedInv'
  BY <1>4, <1>5 DEF PushedInv
<1>8. pc' \in 0 .. size + nop_overhead /\ found = "running"
  BY <1>1, <1>4 DEF nop_overhead, IInv
<1> QED BY <1>4, <1>6, <1>7, <1>8 DEF IInv

LEMMA NopKeeps == IInv /\ Nop => IInv'
<1> SUFFICES ASSUME IInv, Nop PROVE IInv'
  OBVIOUS
<1>1. size \in Nat /\ pc \in Nat
  BY Facts
<1>2. size <= pc /\ pc < size + nop_overhead /\ pc' = pc + 1
      /\ UNCHANGED <<size, points, entry, stack, below, untried, found>>
  BY DEF Nop
<1>3. PushingInv' /\ PushedInv'
  BY <1>1, <1>2 DEF IInv, PushingInv, PushedInv
<1>4. pc' \in 0 .. size + nop_overhead /\ found = "running"
  BY <1>1, <1>2 DEF nop_overhead, IInv
<1> QED BY <1>2, <1>3, <1>4 DEF IInv

(* At the chain: the entry's own group, or an earlier one.                 *)
LEMMA AtTheChain ==
    ASSUME IInv, AtChain, NoWordOf68
    PROVE  /\ First(untried) \in untried
           /\ Matches <=> First(untried) = entry
           /\ Matches => SubSeq(stack, Len(Group) + 1, Len(stack)) = below
<1>1. /\ size \in Nat /\ points \subseteq 0 .. size - 1 /\ entry \in 0 .. size - 1
      /\ below \in Seq(0 .. Other) /\ pc \in Nat
  BY Facts
<1>2. stack = PushedValues(size, entry) \o below
  BY <1>1 DEF IInv, AtChain, PushedInv, nop_overhead
<1>3. untried \in SUBSET Nat /\ entry \in untried /\ untried \subseteq 0 .. size - 1
  BY <1>1 DEF IInv, AtChain
<1>4. First(untried) \in untried /\ First(untried) <= entry
  BY <1>3, FirstIsLeast
<1>5. CASE First(untried) = entry
  <2>1. Group = PushedValues(size, entry) /\ (Matches <=> IsPrefix(Group, stack))
    BY <1>5 DEF Matches, Group
  <2>2. /\ IsPrefix(PushedValues(size, entry), stack)
        /\ SubSeq(stack, Len(PushedValues(size, entry)) + 1, Len(stack)) = below
    <3>1. size \in Nat /\ entry \in 0 .. size - 1 /\ below \in Seq(0 .. Other)
      BY <1>1
    <3>2. PICK e : e = entry
      OBVIOUS
    <3>3. e \in 0 .. size - 1 /\ stack = PushedValues(size, e) \o below
      BY <3>1, <3>2, <1>2
    <3>4. IsPrefix(PushedValues(size, e), stack)
      BY <3>1, <3>3, OwnGroupMatches
    <3>5. SubSeq(stack, Len(PushedValues(size, e)) + 1, Len(stack)) = below
      BY <3>1, <3>3, OwnGroupMatches
    <3> QED BY <3>2, <3>4, <3>5
  <2> QED BY <1>4, <1>5, <2>1, <2>2
<1>6. CASE First(untried) # entry
  <2>1. First(untried) \in 0 .. size - 1 /\ First(untried) < entry
    <3> PICK f : f = First(untried)
      OBVIOUS
    <3>1. f \in 0 .. size - 1 /\ f <= entry /\ f # entry
      BY <1>3, <1>4, <1>6
    <3>2. f < entry
      BY <3>1, <1>1
    <3> QED BY <3>1, <3>2
  <2>2. ~ IsPrefix(PushedValues(size, First(untried)), stack)
    <3> PICK f : f = First(untried)
      OBVIOUS
    <3>1. f \in 0 .. size - 1 /\ f < entry /\ below \in [1 .. Depth -> ProgramWords]
      BY <2>1 DEF IInv
    <3>2. ~ IsPrefix(PushedValues(size, f), stack)
      BY <3>1, <1>1, <1>2, EarlierGroupDiffers
    <3> QED BY <3>2
  <2> QED BY <2>2, <1>4, <1>6 DEF Matches, Group
<1> QED BY <1>5, <1>6

LEMMA HitKeeps == NoWordOf68 /\ IInv /\ Hit => IInv'
<1> SUFFICES ASSUME NoWordOf68, IInv, Hit PROVE IInv'
  OBVIOUS
<1>1. First(untried) = entry /\ stack' = below /\ found' = "hit" /\ pc = size + nop_overhead
      /\ UNCHANGED <<size, points, entry, pc, below, untried>>
  BY AtTheChain DEF Hit, AtChain
<1>2. size \in Nat
  BY Facts
<1>3. (First(untried) = entry)'
  BY <1>1
<1>4. PushingInv' /\ PushedInv'
  BY <1>1, <1>2 DEF PushingInv, PushedInv, nop_overhead
<1> QED BY <1>1, <1>3, <1>4 DEF IInv

LEMMA MissKeeps == NoWordOf68 /\ IInv /\ Miss => IInv'
<1> SUFFICES ASSUME NoWordOf68, IInv, Miss PROVE IInv'
  OBVIOUS
<1>1. First(untried) # entry /\ entry \in untried /\ found = "running"
  BY AtTheChain DEF Miss, AtChain, IInv
<1>2. entry \in untried' /\ untried' \subseteq untried /\ found' = "running"
      /\ UNCHANGED <<size, points, entry, pc, stack, below>>
  BY <1>1 DEF Miss
<1>3. PushingInv' /\ PushedInv'
  BY <1>1, <1>2 DEF IInv, PushingInv, PushedInv
<1> QED BY <1>2, <1>3 DEF IInv

LEMMA StutterKeeps == IInv /\ UNCHANGED vars => IInv'
<1> SUFFICES ASSUME IInv, UNCHANGED vars PROVE IInv'
  OBVIOUS
<1>1. PushingInv' /\ PushedInv'
  BY DEF IInv, vars, PushingInv, PushedInv
<1> QED BY <1>1 DEF IInv, vars

(* What a state of the sled says about the stack: its words are words.     *)
LEMMA InvFound == IInv => EntryFound
<1> SUFFICES ASSUME IInv PROVE EntryFound
  OBVIOUS
<1>1. /\ size \in Nat /\ points \subseteq 0 .. size - 1 /\ entry \in 0 .. size - 1
      /\ below \in Seq(0 .. Other) /\ pc \in Nat
  BY Facts
<1>2. stack \in Seq(0 .. Other)
  <2>1. CASE pc < size
    <3>1. PICK n \in Nat : stack = Whole(n) \o below
      BY <2>1 DEF IInv, PushingInv
    <3>2. Whole(n) \in Seq(0 .. Other)
      BY DEF Other, Whole
    <3>3. Whole(n) \o below \in Seq(0 .. Other)
      BY <3>2, <1>1, ConcatProperties
    <3> QED BY <3>1, <3>3
  <2>2. CASE pc >= size /\ found = "running"
    <3>1. PushedValues(size, entry) \in Seq(0 .. Other)
      <4>1. PushedValues(size, entry) \in Seq(0 .. 4)
        BY <1>1, PushedValuesType
      <4> QED BY <4>1 DEF Other
    <3>2. PushedValues(size, entry) \o below \in Seq(0 .. Other)
      BY <3>1, <1>1, ConcatProperties
    <3> QED BY <3>2, <2>2 DEF IInv, PushedInv
  <2>3. CASE found = "hit"
    BY <2>3, <1>1 DEF IInv
  <2> QED BY <2>1, <2>2, <2>3, <1>1 DEF IInv
<1> QED BY <1>2 DEF IInv, EntryFound, TypeOK

(* Emit68Sled's chain picks the jump point the sled was entered at and     *)
(* gives the program its stack back, for every length of the sled, every   *)
(* set of jump points and every stack without a word of four 0x68 bytes.   *)
THEOREM EntryIsFound == NoWordOf68 => (Spec => []EntryFound)
<1> SUFFICES ASSUME NoWordOf68 PROVE Spec => []EntryFound
  OBVIOUS
<1>1. IInv /\ [Next]_vars => IInv'
  BY PushKeeps, NopKeeps, HitKeeps, MissKeeps, StutterKeeps DEF Next
<1> QED BY InitInv, <1>1, InvFound, PTL DEF Spec

=============================================================================
