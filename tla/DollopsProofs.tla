---------------------------- MODULE DollopsProofs ----------------------------
(***************************************************************************)
(* What TLAPS proves about Dollops, for every program the assumptions of   *)
(* Dollops admit: the manager's map and the entries of the dollops agree,  *)
(* the dollops follow the fallthroughs of the program, branch targets      *)
(* start dollops, and exactly what can be reached is in one.               *)
(*                                                                         *)
(* The first half is about the runs the Dollop_t constructor and           *)
(* AddNewDollops collect along the fallthroughs, the second about the      *)
(* steps.                                                                  *)
(***************************************************************************)
EXTENDS Dollops, SequenceTheorems, WellFoundedInduction, TLAPS

(* The least-number principle, for sets.                                   *)
LEMMA Least ==
    ASSUME NEW T \in SUBSET Nat, T # {}
    PROVE  \E m \in T : \A k \in T : m <= k
<1>1. PICK m \in T : \A k \in T : ~ (<<k, m>> \in OpToRel(<, Nat))
  BY NatLessThanWellFounded, WFMin
<1>2. ASSUME NEW k \in T, k < m PROVE FALSE
  <2>1. <<k, m>> \in Nat \X Nat /\ <<k, m>>[1] < <<k, m>>[2]
    BY <1>2
  <2> QED BY <1>1, <2>1 DEF OpToRel
<1> QED BY <1>2

-----------------------------------------------------------------------------
(* Runs: N is the instruction control goes on to, or None.                 *)

NoCircle(N) == \A S \in (SUBSET Insn) \ {{}} : \E i \in S : N[i] \notin S

IsRun(N, i, s) ==
    /\ s \in Seq(Insn) /\ Len(s) > 0 /\ s[1] = i
    /\ \A k \in 1 .. Len(s) - 1 : s[k + 1] = N[s[k]]
    /\ N[s[Len(s)]] = None

(* What the recursive definitions of runs say.                             *)
RunsOf(N, f) == f = [i \in Insn |-> IF N[i] = None THEN <<i>> ELSE <<i>> \o f[N[i]]]

LEMMA RunGrows ==
    ASSUME NEW N \in [Insn -> InsnOrNone], NEW i \in Insn, N[i] # None,
           NEW s, IsRun(N, N[i], s)
    PROVE  IsRun(N, i, <<i>> \o s)
<1> DEFINE t == <<i>> \o s
<1>1. s \in Seq(Insn) /\ Len(s) \in Nat /\ Len(s) > 0
  BY DEF IsRun
<1>2. <<i>> \in Seq(Insn) /\ Len(<<i>>) = 1
  OBVIOUS
<1>3. /\ t \in Seq(Insn) /\ Len(t) = Len(s) + 1
      /\ \A k \in 1 .. Len(s) + 1 : t[k] = IF k <= 1 THEN <<i>>[k] ELSE s[k - 1]
  BY <1>1, <1>2, ConcatProperties
<1> HIDE DEF t
<1>4. t[1] = i /\ \A k \in 1 .. Len(s) : t[k + 1] = s[k]
  BY <1>1, <1>3
<1>5. ASSUME NEW k \in 1 .. Len(t) - 1 PROVE t[k + 1] = N[t[k]]
  <2>1. CASE k = 1
    BY <1>1, <1>4, <2>1 DEF IsRun
  <2>2. CASE k > 1
    <3>1. k - 1 \in 1 .. Len(s) - 1 /\ t[k] = s[k - 1] /\ t[k + 1] = s[(k - 1) + 1]
      BY <1>1, <1>3, <1>4, <2>2
    <3> QED BY <3>1 DEF IsRun
  <2> QED BY <1>1, <1>3, <1>5, <2>1, <2>2
<1>6. N[t[Len(t)]] = None
  BY <1>1, <1>3, <1>4 DEF IsRun
<1> QED BY <1>1, <1>3, <1>4, <1>5, <1>6 DEF IsRun, t

LEMMA RunExists ==
    ASSUME NEW N \in [Insn -> InsnOrNone], NoCircle(N), NEW i \in Insn
    PROVE  \E s : IsRun(N, i, s)
<1> DEFINE S == {j \in Insn : ~ \E s : IsRun(N, j, s)}
<1>1. SUFFICES ASSUME S # {} PROVE FALSE
  OBVIOUS
<1>2. PICK j \in S : N[j] \notin S
  BY <1>1 DEF NoCircle
<1>3. CASE N[j] = None
  <2>1. IsRun(N, j, <<j>>)
    BY <1>3 DEF IsRun
  <2> QED BY <2>1
<1>4. CASE N[j] # None
  BY <1>2, <1>4, RunGrows DEF InsnOrNone
<1> QED BY <1>3, <1>4

(* A run without its first instruction is the run of the next one.         *)
LEMMA RunShrinks ==
    ASSUME NEW N \in [Insn -> InsnOrNone], NEW i \in Insn, NEW s, IsRun(N, i, s), NoneAssumption
    PROVE  /\ N[i] = None => s = <<i>>
           /\ N[i] # None => s = <<i>> \o Tail(s) /\ IsRun(N, N[i], Tail(s))
<1>1. s \in Seq(Insn) /\ Len(s) \in Nat \ {0} /\ s # <<>>
  BY DEF IsRun
<1>2. CASE N[i] = None
  <2>1. Len(s) = 1
    <3>1. SUFFICES ASSUME ~ (Len(s) <= 1) PROVE FALSE
      <4>1. PICK n \in Nat : n = Len(s) /\ n # 0
        BY <1>1
      <4> QED BY <4>1
    <3>2. 1 \in 1 .. Len(s) - 1 /\ 2 \in 1 .. Len(s)
      BY <1>1, <3>1
    <3>3. s[1 + 1] = N[s[1]] /\ s[1] = i
      BY <3>2 DEF IsRun
    <3>4. s[2] \in Insn
      BY <1>1, <3>2
    <3> QED BY <1>2, <3>3, <3>4, NoneAssumption
  <2>2. <<i>> \in Seq(Insn) /\ Len(<<i>>) = 1 /\ <<i>>[1] = i
    OBVIOUS
  <2> QED BY <1>1, <1>2, <2>1, <2>2, SeqEqual DEF IsRun
<1>3. CASE N[i] # None
  <2> DEFINE t == Tail(s)
  <2>1. /\ t \in Seq(Insn) /\ Len(t) = Len(s) - 1
        /\ \A k \in 1 .. Len(t) : t[k] = s[k + 1]
    BY <1>1, HeadTailProperties
  <2> HIDE DEF t
  <2>2. Len(s) > 1
    BY <1>1, <1>3 DEF IsRun
  <2>3. IsRun(N, N[i], t)
    <3>1. Len(t) > 0 /\ t[1] = N[i]
      BY <1>1, <2>1, <2>2 DEF IsRun
    <3>2. ASSUME NEW k \in 1 .. Len(t) - 1 PROVE t[k + 1] = N[t[k]]
      <4>1. t[k] = s[k + 1] /\ t[k + 1] = s[(k + 1) + 1] /\ k + 1 \in 1 .. Len(s) - 1
        BY <1>1, <2>1
      <4> QED BY <4>1 DEF IsRun
    <3>3. N[t[Len(t)]] = None
      BY <1>1, <2>1, <2>2 DEF IsRun
    <3> QED BY <2>1, <3>1, <3>2, <3>3 DEF IsRun
  <2>4. s = <<i>> \o t
    <3>1. s[1] = i
      BY DEF IsRun
    <3>2. <<i>> \in Seq(Insn) /\ Len(<<i>>) = 1 /\ <<i>>[1] = i
      OBVIOUS
    <3>3. /\ <<i>> \o t \in Seq(Insn) /\ Len(<<i>> \o t) = 1 + Len(t)
          /\ \A k \in 1 .. 1 + Len(t) : (<<i>> \o t)[k] = IF k <= 1 THEN <<i>>[k] ELSE t[k - 1]
      BY <2>1, <3>2, ConcatProperties
    <3>4. ASSUME NEW k \in 1 .. Len(s) PROVE s[k] = (<<i>> \o t)[k]
      BY <1>1, <2>1, <3>1, <3>2, <3>3
    <3>5. Len(s) = Len(<<i>> \o t)
      BY <1>1, <2>1, <3>3
    <3> HIDE DEF t
    <3> QED BY <1>1, <3>3, <3>4, <3>5, SeqEqual
  <2> QED BY <1>3, <2>3, <2>4 DEF t
<1> QED BY <1>2, <1>3

LEMMA RunIsUnique ==
    ASSUME NEW N \in [Insn -> InsnOrNone], NoCircle(N), NoneAssumption,
           NEW i \in Insn, NEW s, NEW t, IsRun(N, i, s), IsRun(N, i, t)
    PROVE  s = t
<1> DEFINE S == {j \in Insn : \E u, v : IsRun(N, j, u) /\ IsRun(N, j, v) /\ u # v}
<1>1. SUFFICES ASSUME S # {} PROVE FALSE
  OBVIOUS
<1>2. PICK j \in S : N[j] \notin S
  BY <1>1 DEF NoCircle
<1>3. PICK u, v : IsRun(N, j, u) /\ IsRun(N, j, v) /\ u # v
  OBVIOUS
<1>4. CASE N[j] = None
  <2>1. u = <<j>> /\ v = <<j>>
    BY <1>3, <1>4, RunShrinks
  <2> QED BY <1>3, <2>1
<1>5. CASE N[j] # None
  <2>1. N[j] \in Insn /\ j \in Insn
    BY <1>5 DEF InsnOrNone
  <2>2. /\ u = <<j>> \o Tail(u) /\ IsRun(N, N[j], Tail(u))
        /\ v = <<j>> \o Tail(v) /\ IsRun(N, N[j], Tail(v))
    BY <1>3, <1>5, <2>1, RunShrinks
  <2>3. Tail(u) = Tail(v)
    BY <1>2, <2>1, <2>2
  <2> QED BY <1>3, <2>2, <2>3
<1> QED BY <1>4, <1>5

(* The recursive definition of runs has a solution, and every solution     *)
(* gives the runs.                                                         *)
LEMMA RunsDefined ==
    ASSUME NEW N \in [Insn -> InsnOrNone], NoCircle(N), NoneAssumption
    PROVE  \E f : RunsOf(N, f)
<1> DEFINE f == [i \in Insn |-> CHOOSE s : IsRun(N, i, s)]
<1>1. ASSUME NEW i \in Insn PROVE IsRun(N, i, f[i])
  BY RunExists
<1> HIDE DEF f
<1>2. ASSUME NEW i \in Insn PROVE N[i] = None => f[i] = <<i>>
  BY <1>1, RunShrinks
<1>3. ASSUME NEW i \in Insn, N[i] # None PROVE f[i] = <<i>> \o f[N[i]]
  <2>1. N[i] \in Insn
    BY <1>3 DEF InsnOrNone
  <2>2. f[i] = <<i>> \o Tail(f[i]) /\ IsRun(N, N[i], Tail(f[i]))
    BY <1>1, <1>3, RunShrinks
  <2>3. Tail(f[i]) = f[N[i]]
    BY <1>1, <2>1, <2>2, RunIsUnique
  <2> QED BY <2>2, <2>3
<1>4. f \in [Insn -> Seq(Insn)]
  BY <1>1 DEF IsRun, f
<1>5. \A i \in Insn : f[i] = IF N[i] = None THEN <<i>> ELSE <<i>> \o f[N[i]]
  BY <1>2, <1>3
<1>6. RunsOf(N, f)
  BY <1>4, <1>5 DEF RunsOf
<1> QED BY <1>6

LEMMA RunsAre ==
    ASSUME NEW N \in [Insn -> InsnOrNone], NoCircle(N), NEW f, RunsOf(N, f), NEW i \in Insn
    PROVE  IsRun(N, i, f[i])
<1> DEFINE S == {j \in Insn : ~ IsRun(N, j, f[j])}
<1>1. SUFFICES ASSUME S # {} PROVE FALSE
  OBVIOUS
<1>2. PICK j \in S : N[j] \notin S
  BY <1>1 DEF NoCircle
<1>3. f[j] = IF N[j] = None THEN <<j>> ELSE <<j>> \o f[N[j]]
  BY DEF RunsOf
<1>4. CASE N[j] = None
  <2>1. f[j] = <<j>> /\ j \in Insn
    BY <1>3, <1>4
  <2>2. IsRun(N, j, <<j>>)
    BY <1>4 DEF IsRun
  <2> QED BY <2>1, <2>2
<1>5. CASE N[j] # None
  <2>1. N[j] \in Insn /\ IsRun(N, N[j], f[N[j]])
    BY <1>2, <1>5 DEF InsnOrNone
  <2> QED BY <1>3, <1>5, <2>1, RunGrows
<1> QED BY <1>4, <1>5

-----------------------------------------------------------------------------
(* Ranks: how far an instruction is from the end of its run.               *)

Descends(N, r) ==
    r \in [Insn -> Nat] /\ \A i \in Insn : N[i] # None => r[N[i]] < r[i]

LEMMA RankExists ==
    ASSUME NEW N \in [Insn -> InsnOrNone], NoCircle(N), NoneAssumption
    PROVE  \E r : Descends(N, r)
<1>1. PICK f : RunsOf(N, f)
  BY RunsDefined
<1>2. \A i \in Insn : IsRun(N, i, f[i])
  BY <1>1, RunsAre
<1> DEFINE r == [i \in Insn |-> Len(f[i])]
<1>3. r \in [Insn -> Nat]
  BY <1>2 DEF IsRun
<1>4. ASSUME NEW i \in Insn, N[i] # None PROVE Len(f[N[i]]) < Len(f[i])
  <2>1. N[i] \in Insn
    BY <1>4 DEF InsnOrNone
  <2>2. f[i] = <<i>> \o f[N[i]]
    BY <1>1, <1>4 DEF RunsOf
  <2>3. f[N[i]] \in Seq(Insn) /\ <<i>> \in Seq(Insn) /\ Len(<<i>>) = 1
    BY <1>2, <2>1 DEF IsRun
  <2>4. Len(f[i]) = 1 + Len(f[N[i]])
    BY <2>2, <2>3, ConcatProperties
  <2> QED BY <2>3, <2>4
<1>5. Descends(N, r)
  BY <1>3, <1>4 DEF Descends, InsnOrNone
<1> QED BY <1>5

LEMMA RankForbidsCircle ==
    ASSUME NEW N \in [Insn -> InsnOrNone], NEW r, Descends(N, r), NoneAssumption
    PROVE  NoCircle(N)
<1> SUFFICES ASSUME NEW S \in (SUBSET Insn) \ {{}} PROVE \E i \in S : N[i] \notin S
  BY DEF NoCircle
<1> DEFINE R == {r[i] : i \in S}
<1>1. R \in SUBSET Nat /\ R # {}
  BY DEF Descends
<1>2. PICK m \in R : \A k \in R : m <= k
  BY <1>1, Least
<1>3. PICK i \in S : r[i] = m
  OBVIOUS
<1>4. ASSUME N[i] \in S PROVE FALSE
  <2>1. N[i] # None /\ r[N[i]] \in R
    BY <1>4, NoneAssumption
  <2>2. r[N[i]] < r[i] /\ r[N[i]] \in Nat /\ r[i] \in Nat
    BY <1>4, <2>1 DEF Descends
  <2> QED BY <1>2, <1>3, <2>1, <2>2
<1> QED BY <1>4

LEMMA RankAlongRun ==
    ASSUME NEW N \in [Insn -> InsnOrNone], NEW r, Descends(N, r), NEW i \in Insn,
           NEW s, IsRun(N, i, s), NoneAssumption
    PROVE  \A k, l \in 1 .. Len(s) : k < l => r[s[l]] < r[s[k]]
<1>1. s \in Seq(Insn) /\ Len(s) \in Nat
  BY DEF IsRun
<1> DEFINE Bad == {l \in 1 .. Len(s) : \E k \in 1 .. l - 1 : ~ (r[s[l]] < r[s[k]])}
<1>2. SUFFICES ASSUME Bad # {} PROVE FALSE
  <2>1. ASSUME Bad = {}, NEW k \in 1 .. Len(s), NEW l \in 1 .. Len(s), k < l
        PROVE  r[s[l]] < r[s[k]]
    <3>1. k \in 1 .. l - 1
      BY <1>1, <2>1
    <3> QED BY <2>1, <3>1
  <2> QED BY <2>1
<1>3. Bad \in SUBSET Nat
  BY <1>1
<1>4. PICK l \in Bad : \A k \in Bad : l <= k
  BY <1>2, <1>3, Least
<1>5. PICK k \in 1 .. l - 1 : ~ (r[s[l]] < r[s[k]])
  OBVIOUS
<1>6. l - 1 \in 1 .. Len(s) - 1 /\ l - 1 \in 1 .. Len(s) /\ l - 1 \notin Bad /\ (l - 1) + 1 = l
      /\ k \in 1 .. Len(s) /\ l \in 1 .. Len(s)
  BY <1>1, <1>4, <1>5
<1>7. s[l] = N[s[l - 1]] /\ s[l] \in Insn /\ s[l - 1] \in Insn /\ s[k] \in Insn
  BY <1>1, <1>6 DEF IsRun
<1>8. r[s[l]] < r[s[l - 1]]
  BY <1>7, NoneAssumption DEF Descends
<1>9. r[s[l]] \in Nat /\ r[s[l - 1]] \in Nat /\ r[s[k]] \in Nat
  BY <1>7 DEF Descends
<1>10. k # l - 1
  BY <1>5, <1>8
<1>11. k \in 1 .. (l - 1) - 1
  BY <1>1, <1>5, <1>6, <1>10
<1>12. r[s[l - 1]] < r[s[k]]
  BY <1>6, <1>11
<1> QED BY <1>5, <1>8, <1>9, <1>12

(* What is closed under going on holds the whole run.                      *)
LEMMA RunStaysInside ==
    ASSUME NEW N \in [Insn -> InsnOrNone], NEW i \in Insn, NEW s, IsRun(N, i, s),
           NEW S, i \in S, \A j \in S \cap Insn : N[j] # None => N[j] \in S, NoneAssumption
    PROVE  \A k \in 1 .. Len(s) : s[k] \in S
<1>1. s \in Seq(Insn) /\ Len(s) \in Nat
  BY DEF IsRun
<1> DEFINE Bad == {k \in 1 .. Len(s) : s[k] \notin S}
<1>2. SUFFICES ASSUME Bad # {} PROVE FALSE
  OBVIOUS
<1>3. Bad \in SUBSET Nat
  BY <1>1
<1>4. PICK k \in Bad : \A l \in Bad : k <= l
  BY <1>2, <1>3, Least
<1>5. k # 1
  BY <1>4 DEF IsRun
<1>6. k - 1 \in 1 .. Len(s) - 1 /\ k - 1 \in 1 .. Len(s) /\ k - 1 \notin Bad /\ (k - 1) + 1 = k
  BY <1>1, <1>4, <1>5
<1>7. s[k] = N[s[k - 1]] /\ s[k - 1] \in S /\ s[k - 1] \in Insn /\ s[k] \in Insn
  BY <1>1, <1>6 DEF IsRun
<1> QED BY <1>7, NoneAssumption

LEMMA RangeGrows ==
    ASSUME NEW i \in Insn, NEW s \in Seq(Insn)
    PROVE  Range(<<i>> \o s) = {i} \cup Range(s)
<1> DEFINE t == <<i>> \o s
<1>1. <<i>> \in Seq(Insn) /\ Len(<<i>>) = 1 /\ <<i>>[1] = i
  OBVIOUS
<1>2. /\ t \in Seq(Insn) /\ Len(t) = 1 + Len(s) /\ Len(s) \in Nat
      /\ \A k \in 1 .. 1 + Len(s) : t[k] = IF k <= 1 THEN <<i>>[k] ELSE s[k - 1]
  BY <1>1, ConcatProperties
<1> HIDE DEF t
<1>3. DOMAIN t = 1 .. 1 + Len(s) /\ DOMAIN s = 1 .. Len(s)
  BY <1>2
<1>4. t[1] = i /\ \A k \in 1 .. Len(s) : k + 1 \in 1 .. 1 + Len(s) /\ t[k + 1] = s[k]
  BY <1>1, <1>2
<1>5. \A k \in 1 .. 1 + Len(s) : k # 1 => k - 1 \in 1 .. Len(s) /\ t[k] = s[k - 1]
  BY <1>2
<1>6. Range(t) \subseteq {i} \cup Range(s)
  BY <1>3, <1>4, <1>5 DEF Range
<1>7. i \in Range(t)
  <2>1. 1 \in DOMAIN t
    BY <1>2, <1>3
  <2> QED BY <1>4, <2>1 DEF Range
<1>8. ASSUME NEW k \in DOMAIN s PROVE s[k] \in Range(t)
  <2>1. k + 1 \in DOMAIN t /\ t[k + 1] = s[k]
    BY <1>3, <1>4
  <2> QED BY <2>1 DEF Range
<1>9. Range(s) \subseteq Range(t)
  BY <1>8 DEF Range
<1> QED BY <1>6, <1>7, <1>9 DEF t

(* The set of the instructions of a run, as a recursive definition says it.*)
HeadsOf(N, g) == g = [h \in Insn |-> {h} \cup IF N[h] = None THEN {} ELSE g[N[h]]]

LEMMA HeadsDefined ==
    ASSUME NEW N \in [Insn -> InsnOrNone], NoCircle(N), NoneAssumption
    PROVE  \E g : HeadsOf(N, g)
<1>1. PICK f : RunsOf(N, f)
  BY RunsDefined
<1>2. \A i \in Insn : IsRun(N, i, f[i])
  BY <1>1, RunsAre
<1> DEFINE g == [h \in Insn |-> Range(f[h])]
<1>3. ASSUME NEW h \in Insn, N[h] = None PROVE Range(f[h]) = {h}
  <2>1. f[h] = <<h>>
    BY <1>1, <1>3 DEF RunsOf
  <2> QED BY <2>1 DEF Range
<1>4. ASSUME NEW h \in Insn, N[h] # None PROVE Range(f[h]) = {h} \cup Range(f[N[h]])
  <2>1. N[h] \in Insn /\ f[h] = <<h>> \o f[N[h]]
    BY <1>1, <1>4 DEF RunsOf, InsnOrNone
  <2>2. f[N[h]] \in Seq(Insn)
    BY <1>2, <2>1 DEF IsRun
  <2> QED BY <2>1, <2>2, RangeGrows
<1>5. \A h \in Insn : N[h] # None => N[h] \in Insn
  BY DEF InsnOrNone
<1>6. \A h \in Insn : g[h] = {h} \cup IF N[h] = None THEN {} ELSE g[N[h]]
  BY <1>3, <1>4, <1>5
<1>7. g \in [Insn -> SUBSET Insn]
  BY <1>2 DEF IsRun, Range
<1> HIDE DEF g
<1>8. HeadsOf(N, g)
  BY <1>6, <1>7 DEF HeadsOf
<1> QED BY <1>8

LEMMA HeadsAre ==
    ASSUME NEW N \in [Insn -> InsnOrNone], NoCircle(N), NoneAssumption,
           NEW g, HeadsOf(N, g), NEW i \in Insn, NEW s, IsRun(N, i, s)
    PROVE  g[i] = Range(s)
<1> DEFINE S == {j \in Insn : \E t : IsRun(N, j, t) /\ g[j] # Range(t)}
<1>1. SUFFICES ASSUME S # {} PROVE FALSE
  OBVIOUS
<1>2. PICK j \in S : N[j] \notin S
  BY <1>1 DEF NoCircle
<1>3. PICK t : IsRun(N, j, t) /\ g[j] # Range(t)
  OBVIOUS
<1>4. j \in Insn /\ g[j] = {j} \cup IF N[j] = None THEN {} ELSE g[N[j]]
  BY DEF HeadsOf
<1>5. CASE N[j] = None
  <2>1. t = <<j>>
    BY <1>3, <1>4, <1>5, RunShrinks
  <2>2. Range(<<j>>) = {j}
    BY DEF Range
  <2> QED BY <1>3, <1>4, <1>5, <2>1, <2>2
<1>6. CASE N[j] # None
  <2>1. N[j] \in Insn /\ t = <<j>> \o Tail(t) /\ IsRun(N, N[j], Tail(t))
    BY <1>3, <1>4, <1>6, RunShrinks DEF InsnOrNone
  <2>2. g[N[j]] = Range(Tail(t))
    BY <1>2, <2>1
  <2>3. Tail(t) \in Seq(Insn)
    BY <2>1 DEF IsRun
  <2>4. Range(<<j>> \o Tail(t)) = {j} \cup Range(Tail(t))
    BY <1>4, <2>3, RangeGrows
  <2>5. Range(t) = {j} \cup Range(Tail(t))
    BY <2>1, <2>4
  <2> QED BY <1>3, <1>4, <1>6, <2>2, <2>5
<1> QED BY <1>5, <1>6

-----------------------------------------------------------------------------
(* The runs and the chains of heads of Dollops are such runs: Onward is    *)
(* where a run goes on within a dollop, NextHead from dollop to dollop.    *)

Onward(m) == [i \in Insn |-> IF Stops(m, Fallthrough(i)) THEN None ELSE Fallthrough(i)]

NextHead(m) ==
    [h \in Insn |-> IF After(m, h) = None \/ Contained(m, After(m, h)) THEN None
                    ELSE After(m, h)]

ProgramOK == Typed(prog) /\ OneFallsInto(prog) /\ NoFallthroughCircle(prog)

LEMMA FallRank ==
    ASSUME ProgramOK
    PROVE  \E r : Descends(prog.fallthrough, r)
<1>1. prog.fallthrough \in [Insn -> InsnOrNone] /\ NoCircle(prog.fallthrough)
  BY DEF ProgramOK, Typed, NoFallthroughCircle, NoCircle
<1> QED BY <1>1, RankExists, NoneAssumption

LEMMA OnwardOK ==
    ASSUME NEW m, ProgramOK, NEW r, Descends(prog.fallthrough, r)
    PROVE  /\ Onward(m) \in [Insn -> InsnOrNone]
           /\ Descends(Onward(m), r) /\ NoCircle(Onward(m))
           /\ \A i \in Insn : Onward(m)[i] # None =>
                 Onward(m)[i] = Fallthrough(i) /\ Onward(m)[i] \in Insn
<1>1. \A i \in Insn : Fallthrough(i) \in InsnOrNone
  BY DEF ProgramOK, Typed, Fallthrough
<1>2. Onward(m) \in [Insn -> InsnOrNone]
  BY <1>1 DEF Onward, InsnOrNone
<1>3. \A i \in Insn : Onward(m)[i] # None =>
          Onward(m)[i] = Fallthrough(i) /\ Onward(m)[i] \in Insn
  BY <1>1 DEF Onward, InsnOrNone
<1>4. Descends(Onward(m), r)
  BY <1>3 DEF Descends, Fallthrough
<1> QED BY <1>2, <1>3, <1>4, RankForbidsCircle, NoneAssumption

LEMMA RunFromIs ==
    ASSUME NEW m, ProgramOK, NEW i \in Insn
    PROVE  IsRun(Onward(m), i, RunFrom(m, i))
<1> DEFINE Step(f) == [j \in Insn |-> IF Stops(m, Fallthrough(j)) THEN <<j>>
                                     ELSE <<j>> \o f[Fallthrough(j)]]
<1>0. PICK r : Descends(prog.fallthrough, r)
  BY FallRank
<1>1. Onward(m) \in [Insn -> InsnOrNone] /\ NoCircle(Onward(m))
  BY <1>0, OnwardOK
<1>2. ASSUME NEW f PROVE RunsOf(Onward(m), f) <=> f = Step(f)
  <2>1. \A j \in Insn : Onward(m)[j] = None <=> Stops(m, Fallthrough(j))
    BY DEF Onward, Stops
  <2>2. \A j \in Insn : ~ Stops(m, Fallthrough(j)) => Onward(m)[j] = Fallthrough(j)
    BY DEF Onward
  <2>3. [j \in Insn |-> IF Onward(m)[j] = None THEN <<j>> ELSE <<j>> \o f[Onward(m)[j]]] = Step(f)
    BY <2>1, <2>2
  <2> QED BY <2>3 DEF RunsOf
<1>3. \E f : f = Step(f)
  BY <1>1, <1>2, RunsDefined, NoneAssumption
<1> DEFINE g == CHOOSE f : f = Step(f)
<1>4. g = Step(g)
  BY <1>3
<1>5. RunFrom(m, i) = g[i]
  BY DEF RunFrom
<1>6. RunsOf(Onward(m), g)
  BY <1>2, <1>4
<1>7. IsRun(Onward(m), i, g[i])
  <2> HIDE DEF g
  <2> QED BY <1>1, <1>6, RunsAre
<1> QED BY <1>5, <1>7

(* The run of an instruction: what AddNewDollops puts into one dollop.     *)
LEMMA RunFacts ==
    ASSUME NEW m, ProgramOK, NEW r, Descends(prog.fallthrough, r), NEW i \in Insn
    PROVE  /\ RunFrom(m, i) \in Seq(Insn) /\ Len(RunFrom(m, i)) \in Nat
           /\ Len(RunFrom(m, i)) > 0 /\ RunFrom(m, i)[1] = i
           /\ \A k \in 1 .. Len(RunFrom(m, i)) - 1 :
                 /\ RunFrom(m, i)[k + 1] = Fallthrough(RunFrom(m, i)[k])
                 /\ ~ Stops(m, RunFrom(m, i)[k + 1])
           /\ After(m, i) = Fallthrough(RunFrom(m, i)[Len(RunFrom(m, i))])
           /\ After(m, i) \in InsnOrNone /\ Stops(m, After(m, i))
           /\ \A k, l \in 1 .. Len(RunFrom(m, i)) :
                 k < l => r[RunFrom(m, i)[l]] < r[RunFrom(m, i)[k]]
           /\ \A k \in 1 .. Len(RunFrom(m, i)) :
                 After(m, i) # None => r[After(m, i)] < r[RunFrom(m, i)[k]]
<1> DEFINE s == RunFrom(m, i)
<1> DEFINE n == Len(s)
<1>1. /\ Onward(m) \in [Insn -> InsnOrNone] /\ Descends(Onward(m), r)
      /\ \A j \in Insn : Onward(m)[j] # None =>
            Onward(m)[j] = Fallthrough(j) /\ Onward(m)[j] \in Insn
  BY OnwardOK
<1>2. IsRun(Onward(m), i, s)
  BY RunFromIs
<1> HIDE DEF s
<1>3. s \in Seq(Insn) /\ n \in Nat /\ n > 0 /\ s[1] = i /\ Onward(m)[s[n]] = None
  BY <1>2 DEF IsRun
<1>4. \A k \in 1 .. n : s[k] \in Insn
  BY <1>3
<1>5. ASSUME NEW k \in 1 .. n - 1
      PROVE  s[k + 1] = Fallthrough(s[k]) /\ ~ Stops(m, s[k + 1])
  <2>1. s[k + 1] = Onward(m)[s[k]] /\ s[k] \in Insn /\ s[k + 1] \in Insn
    BY <1>2, <1>3, <1>4 DEF IsRun
  <2>2. Onward(m)[s[k]] # None
    BY <2>1, NoneAssumption
  <2> QED BY <1>1, <2>1, <2>2 DEF Onward
<1>6. n \in 1 .. n /\ s[n] \in Insn
  BY <1>3, <1>4
<1>7. After(m, i) = Fallthrough(s[n])
  BY DEF After, Last, s
<1>8. After(m, i) \in InsnOrNone /\ Stops(m, After(m, i))
  <2>1. Stops(m, Fallthrough(s[n]))
    BY <1>3, <1>6 DEF Onward, Stops
  <2>2. Fallthrough(s[n]) \in InsnOrNone
    BY <1>6 DEF ProgramOK, Typed, Fallthrough
  <2> QED BY <1>7, <2>1, <2>2
<1>9. \A k, l \in 1 .. n : k < l => r[s[l]] < r[s[k]]
  BY <1>1, <1>2, RankAlongRun, NoneAssumption
<1>10. ASSUME NEW k \in 1 .. n, After(m, i) # None PROVE r[After(m, i)] < r[s[k]]
  <2>1. r[After(m, i)] < r[s[n]]
    BY <1>6, <1>7, <1>10 DEF Descends, Fallthrough
  <2>2. r[s[n]] \in Nat /\ r[s[k]] \in Nat /\ r[After(m, i)] \in Nat
    BY <1>4, <1>6, <1>8, <1>10 DEF Descends, InsnOrNone
  <2>3. k = n \/ k < n
    BY <1>3
  <2>4. k < n => r[s[n]] < r[s[k]]
    BY <1>6, <1>9
  <2> QED BY <2>1, <2>2, <2>3, <2>4
<1> QED BY <1>3, <1>5, <1>7, <1>8, <1>9, <1>10 DEF s

(* What is closed under fallthrough holds the run of what is in it.        *)
LEMMA RunStays ==
    ASSUME NEW m, ProgramOK, NEW i \in Insn, NEW S, i \in S,
           \A j \in S \cap Insn : Fallthrough(j) # None => Fallthrough(j) \in S
    PROVE  /\ \A k \in 1 .. Len(RunFrom(m, i)) : RunFrom(m, i)[k] \in S
           /\ After(m, i) # None => After(m, i) \in S
<1>0. PICK r : Descends(prog.fallthrough, r)
  BY FallRank
<1>1. /\ Onward(m) \in [Insn -> InsnOrNone]
      /\ \A j \in Insn : Onward(m)[j] # None => Onward(m)[j] = Fallthrough(j)
  BY <1>0, OnwardOK
<1>2. IsRun(Onward(m), i, RunFrom(m, i))
  BY RunFromIs
<1>3. \A j \in S \cap Insn : Onward(m)[j] # None => Onward(m)[j] \in S
  BY <1>1
<1>4. \A k \in 1 .. Len(RunFrom(m, i)) : RunFrom(m, i)[k] \in S
  BY <1>1, <1>2, <1>3, RunStaysInside, NoneAssumption
<1>5. /\ RunFrom(m, i) \in Seq(Insn) /\ Len(RunFrom(m, i)) \in Nat /\ Len(RunFrom(m, i)) > 0
      /\ After(m, i) = Fallthrough(RunFrom(m, i)[Len(RunFrom(m, i))])
  BY <1>0, RunFacts
<1>6. Len(RunFrom(m, i)) \in 1 .. Len(RunFrom(m, i))
  BY <1>5
<1>7. RunFrom(m, i)[Len(RunFrom(m, i))] \in S \cap Insn
  BY <1>4, <1>5, <1>6
<1> QED BY <1>4, <1>5, <1>7

LEMMA NextHeadOK ==
    ASSUME NEW m, ProgramOK, NEW r, Descends(prog.fallthrough, r)
    PROVE  /\ NextHead(m) \in [Insn -> InsnOrNone]
           /\ Descends(NextHead(m), r) /\ NoCircle(NextHead(m))
           /\ \A h \in Insn : NextHead(m)[h] # None =>
                 /\ NextHead(m)[h] = After(m, h) /\ After(m, h) \in Insn
                 /\ ~ Contained(m, After(m, h))
           /\ \A h \in Insn : NextHead(m)[h] = None =>
                 After(m, h) = None \/ Contained(m, After(m, h))
<1>1. ASSUME NEW h \in Insn
      PROVE  /\ After(m, h) \in InsnOrNone
             /\ After(m, h) # None => r[After(m, h)] < r[h]
  <2>1. /\ Len(RunFrom(m, h)) \in Nat /\ Len(RunFrom(m, h)) > 0 /\ RunFrom(m, h)[1] = h
        /\ After(m, h) \in InsnOrNone
        /\ \A k \in 1 .. Len(RunFrom(m, h)) :
              After(m, h) # None => r[After(m, h)] < r[RunFrom(m, h)[k]]
    BY RunFacts
  <2>2. 1 \in 1 .. Len(RunFrom(m, h))
    BY <2>1
  <2> QED BY <2>1, <2>2
<1>2. NextHead(m) \in [Insn -> InsnOrNone]
  BY <1>1 DEF NextHead, InsnOrNone
<1>3. \A h \in Insn : NextHead(m)[h] # None =>
          /\ NextHead(m)[h] = After(m, h) /\ After(m, h) \in Insn
          /\ ~ Contained(m, After(m, h))
  BY <1>1 DEF NextHead, InsnOrNone
<1>4. \A h \in Insn : NextHead(m)[h] = None =>
          After(m, h) = None \/ Contained(m, After(m, h))
  BY DEF NextHead
<1>5. Descends(NextHead(m), r)
  BY <1>1, <1>3 DEF Descends
<1> QED BY <1>2, <1>3, <1>4, <1>5, RankForbidsCircle, NoneAssumption

LEMMA ChainIs ==
    ASSUME NEW m, ProgramOK, NEW i \in Insn
    PROVE  \E s : IsRun(NextHead(m), i, s) /\ NewHeads(m, i) = Range(s)
<1> DEFINE Step(f) ==
      [h \in Insn |-> {h} \cup IF After(m, h) = None \/ Contained(m, After(m, h)) THEN {}
                               ELSE f[After(m, h)]]
<1>0. PICK r : Descends(prog.fallthrough, r)
  BY FallRank
<1>1. NextHead(m) \in [Insn -> InsnOrNone] /\ NoCircle(NextHead(m))
  BY <1>0, NextHeadOK
<1>2. ASSUME NEW f PROVE HeadsOf(NextHead(m), f) <=> f = Step(f)
  <2>1. \A h \in Insn : NextHead(m)[h] = None <=>
            After(m, h) = None \/ Contained(m, After(m, h))
    BY DEF NextHead
  <2>2. \A h \in Insn : NextHead(m)[h] # None => NextHead(m)[h] = After(m, h)
    BY DEF NextHead
  <2>3. [h \in Insn |-> {h} \cup IF NextHead(m)[h] = None THEN {} ELSE f[NextHead(m)[h]]]
        = Step(f)
    BY <2>1, <2>2
  <2> QED BY <2>3 DEF HeadsOf
<1>3. \E f : f = Step(f)
  BY <1>1, <1>2, HeadsDefined, NoneAssumption
<1> DEFINE g == CHOOSE f : f = Step(f)
<1>4. g = Step(g)
  BY <1>3
<1>5. NewHeads(m, i) = g[i]
  BY DEF NewHeads
<1>6. HeadsOf(NextHead(m), g)
  BY <1>2, <1>4
<1> HIDE DEF g
<1>7. PICK s : IsRun(NextHead(m), i, s)
  BY <1>1, RunExists
<1>8. g[i] = Range(s)
  BY <1>1, <1>6, <1>7, HeadsAre, NoneAssumption
<1> QED BY <1>5, <1>7, <1>8

(* The chain of new dollops at start: its heads, what comes after each,    *)
(* and the ranks that keep the dollops apart.                              *)
LEMMA Chain ==
    ASSUME NEW m, ProgramOK, NEW r, Descends(prog.fallthrough, r), NEW start \in Insn
    PROVE  /\ NewHeads(m, start) \subseteq Insn /\ start \in NewHeads(m, start)
           /\ \A h \in NewHeads(m, start) :
                 \/ After(m, h) = None \/ Contained(m, After(m, h))
                 \/ After(m, h) \in NewHeads(m, start)
           /\ \A h \in NewHeads(m, start) : h # start =>
                 /\ ~ Contained(m, h)
                 /\ \E g \in NewHeads(m, start) : After(m, g) = h
           /\ \A g, h \in NewHeads(m, start) : g # h =>
                 \/ After(m, g) \in NewHeads(m, start) /\ r[h] <= r[After(m, g)]
                 \/ After(m, h) \in NewHeads(m, start) /\ r[g] <= r[After(m, h)]
<1> DEFINE C == NewHeads(m, start)
<1>1. PICK s : IsRun(NextHead(m), start, s) /\ NewHeads(m, start) = Range(s)
  BY ChainIs
<1>2. /\ NextHead(m) \in [Insn -> InsnOrNone] /\ Descends(NextHead(m), r)
      /\ \A h \in Insn : NextHead(m)[h] # None =>
            /\ NextHead(m)[h] = After(m, h) /\ After(m, h) \in Insn
            /\ ~ Contained(m, After(m, h))
      /\ \A h \in Insn : NextHead(m)[h] = None =>
            After(m, h) = None \/ Contained(m, After(m, h))
  BY NextHeadOK
<1>3. s \in Seq(Insn) /\ Len(s) \in Nat /\ Len(s) > 0 /\ s[1] = start
      /\ NextHead(m)[s[Len(s)]] = None
  BY <1>1 DEF IsRun
<1>4. /\ \A k \in 1 .. Len(s) : s[k] \in C /\ s[k] \in Insn
      /\ \A h \in C : \E k \in 1 .. Len(s) : s[k] = h
  BY <1>1, <1>3 DEF Range
<1>5. \A k \in 1 .. Len(s) - 1 : k \in 1 .. Len(s) /\ k + 1 \in 1 .. Len(s)
  BY <1>3
<1>6. ASSUME NEW k \in 1 .. Len(s) - 1
      PROVE  s[k + 1] = After(m, s[k]) /\ ~ Contained(m, s[k + 1])
  <2>1. s[k + 1] = NextHead(m)[s[k]] /\ s[k] \in Insn /\ s[k + 1] \in Insn
    BY <1>1, <1>4, <1>5 DEF IsRun
  <2> QED BY <1>2, <2>1, NoneAssumption
<1>7. \A k, l \in 1 .. Len(s) : k < l => r[s[l]] < r[s[k]]
  BY <1>1, <1>2, RankAlongRun, NoneAssumption
<1>8. ASSUME NEW k \in 1 .. Len(s), NEW l \in 1 .. Len(s), k < l
      PROVE  After(m, s[k]) \in C /\ r[s[l]] <= r[After(m, s[k])]
  <2>1. k \in 1 .. Len(s) - 1 /\ k + 1 \in 1 .. Len(s) /\ (k + 1 = l \/ k + 1 < l)
    BY <1>3, <1>8
  <2>2. After(m, s[k]) = s[k + 1] /\ s[k + 1] \in C
    BY <1>4, <1>6, <2>1
  <2>3. r[s[l]] \in Nat /\ r[s[k + 1]] \in Nat
    BY <1>4, <2>1 DEF Descends
  <2> QED BY <1>7, <2>1, <2>2, <2>3
<1>9. C \subseteq Insn /\ start \in C
  BY <1>3, <1>4
<1>10. ASSUME NEW h \in C
       PROVE  After(m, h) = None \/ Contained(m, After(m, h)) \/ After(m, h) \in C
  <2>1. PICK k \in 1 .. Len(s) : s[k] = h
    BY <1>4
  <2>2. CASE k = Len(s)
    BY <1>2, <1>3, <1>4, <2>1, <2>2
  <2>3. CASE k # Len(s)
    <3>1. k \in 1 .. Len(s) - 1 /\ k + 1 \in 1 .. Len(s)
      BY <1>3, <2>3
    <3> QED BY <1>4, <1>6, <2>1, <3>1
  <2> QED BY <2>2, <2>3
<1>11. ASSUME NEW h \in C, h # start
       PROVE  ~ Contained(m, h) /\ \E g \in C : After(m, g) = h
  <2>1. PICK k \in 1 .. Len(s) : s[k] = h
    BY <1>4
  <2>2. k - 1 \in 1 .. Len(s) - 1 /\ k - 1 \in 1 .. Len(s) /\ (k - 1) + 1 = k
    BY <1>3, <1>11, <2>1
  <2>3. h = After(m, s[k - 1]) /\ ~ Contained(m, h)
    BY <1>6, <2>1, <2>2
  <2> QED BY <1>4, <2>2, <2>3
<1>12. ASSUME NEW g \in C, NEW h \in C, g # h
       PROVE  \/ After(m, g) \in C /\ r[h] <= r[After(m, g)]
              \/ After(m, h) \in C /\ r[g] <= r[After(m, h)]
  <2>1. PICK k \in 1 .. Len(s) : s[k] = g
    BY <1>4
  <2>2. PICK l \in 1 .. Len(s) : s[l] = h
    BY <1>4
  <2>3. k < l \/ l < k
    BY <1>3, <1>12, <2>1, <2>2
  <2> QED BY <1>8, <2>1, <2>2, <2>3
<1> QED BY <1>9, <1>10, <1>11, <1>12

(* What is closed under fallthrough and holds start holds the chain.       *)
LEMMA ChainStays ==
    ASSUME NEW m, ProgramOK, NEW start \in Insn, NEW S, start \in S,
           \A j \in S \cap Insn : Fallthrough(j) # None => Fallthrough(j) \in S
    PROVE  NewHeads(m, start) \subseteq S
<1>0. PICK r : Descends(prog.fallthrough, r)
  BY FallRank
<1>1. PICK s : IsRun(NextHead(m), start, s) /\ NewHeads(m, start) = Range(s)
  BY ChainIs
<1>2. /\ NextHead(m) \in [Insn -> InsnOrNone]
      /\ \A h \in Insn : NextHead(m)[h] # None => NextHead(m)[h] = After(m, h)
  BY <1>0, NextHeadOK
<1>3. \A j \in S \cap Insn : NextHead(m)[j] # None => NextHead(m)[j] \in S
  BY <1>2, RunStays
<1>4. \A k \in 1 .. Len(s) : s[k] \in S
  BY <1>1, <1>2, <1>3, RunStaysInside, NoneAssumption
<1>5. s \in Seq(Insn)
  BY <1>1 DEF IsRun
<1> QED BY <1>1, <1>4, <1>5 DEF Range

-----------------------------------------------------------------------------
(* What a manager's tables say when they agree with each other and with    *)
(* the program.                                                            *)

Bodies(m) ==
    /\ m.body \in [Insn -> Seq(Insn)] /\ m.where \in [Insn -> InsnOrNone]
    /\ m.ft \in [Insn -> InsnOrNone] /\ m.fb \in [Insn -> InsnOrNone]
    /\ m.size \in [Insn -> Nat]

MapAgrees(m) ==
    /\ \A h \in Insn : Len(m.body[h]) > 0 => m.body[h][1] = h
    /\ \A h \in Insn : \A k \in 1 .. Len(m.body[h]) : m.where[m.body[h][k]] = h
    /\ \A i \in Insn : m.where[i] # None =>
          \E k \in 1 .. Len(m.body[m.where[i]]) : m.body[m.where[i]][k] = i
    /\ \A h \in Insn : \A k, l \in 1 .. Len(m.body[h]) : m.body[h][k] = m.body[h][l] => k = l

Follows(m) ==
    /\ \A h \in Insn : \A k \in 1 .. Len(m.body[h]) - 1 :
          m.body[h][k + 1] = Fallthrough(m.body[h][k])
    /\ \A h \in Insn : Len(m.body[h]) > 0 =>
          m.ft[h] = Fallthrough(m.body[h][Len(m.body[h])])

Fronts(m) == \A i \in prog.ibta : m.where[i] # None => m.where[i] = i

Links(m) == \A g, h \in Insn :
    /\ m.ft[g] = h <=> m.fb[h] = g
    /\ m.ft[g] = h => Len(m.body[g]) > 0 /\ Len(m.body[h]) > 0

Sizes(m) == \A h \in Insn :
    Len(m.body[h]) > 0 => m.size[h] = CalculateSize(m.body[h], m.ft[h])

Sound(m) == Bodies(m) /\ MapAgrees(m) /\ Follows(m) /\ Fronts(m) /\ Links(m) /\ Sizes(m)

(* Of sound tables: heads, and the instructions no dollop contains.        *)
LEMMA SoundFacts ==
    ASSUME NEW m, Sound(m)
    PROVE  /\ \A h \in Insn : Len(m.body[h]) \in Nat /\ m.body[h] \in Seq(Insn)
           /\ \A h \in Insn : \A k \in 1 .. Len(m.body[h]) : m.body[h][k] \in Insn
           /\ \A h \in Insn : Len(m.body[h]) > 0 <=> m.where[h] = h
           /\ \A h \in Insn : m.where[h] # None =>
                 m.where[h] \in Insn /\ Len(m.body[m.where[h]]) > 0
           /\ \A h \in Insn : Len(m.body[h]) = 0 => m.ft[h] = None /\ m.fb[h] = None
<1>1. \A h \in Insn : Len(m.body[h]) \in Nat /\ m.body[h] \in Seq(Insn)
  BY DEF Sound, Bodies
<1>2. \A h \in Insn : \A k \in 1 .. Len(m.body[h]) : m.body[h][k] \in Insn
  BY <1>1
<1>3. ASSUME NEW h \in Insn, Len(m.body[h]) > 0 PROVE m.where[h] = h
  <2>1. 1 \in 1 .. Len(m.body[h]) /\ m.body[h][1] = h
    BY <1>1, <1>3 DEF Sound, MapAgrees
  <2>2. m.where[m.body[h][1]] = h
    BY <2>1 DEF Sound, MapAgrees
  <2> QED BY <2>1, <2>2
<1>4. ASSUME NEW h \in Insn, m.where[h] # None
      PROVE  m.where[h] \in Insn /\ Len(m.body[m.where[h]]) > 0
  <2>1. m.where[h] \in Insn
    BY <1>4 DEF Sound, Bodies, InsnOrNone
  <2>2. PICK k \in 1 .. Len(m.body[m.where[h]]) : m.body[m.where[h]][k] = h
    BY <1>4 DEF Sound, MapAgrees
  <2> QED BY <1>1, <2>1, <2>2
<1>5. ASSUME NEW h \in Insn, Len(m.body[h]) = 0 PROVE m.ft[h] = None /\ m.fb[h] = None
  <2>1. m.ft[h] \in InsnOrNone /\ m.fb[h] \in InsnOrNone
    BY DEF Sound, Bodies
  <2>2. \A g \in Insn : m.ft[h] # g /\ m.fb[h] # g
    BY <1>5 DEF Sound, Links
  <2> QED BY <2>1, <2>2 DEF InsnOrNone
<1>6. ASSUME NEW h \in Insn, m.where[h] = h PROVE Len(m.body[h]) > 0
  BY <1>4, <1>6, NoneAssumption
<1> QED BY <1>1, <1>2, <1>3, <1>4, <1>5, <1>6

(* The size of a dollop whose fallthrough dollop is where control goes on. *)
LEMMA SizeIs ==
    ASSUME NEW s \in Seq(Insn), Len(s) > 0, NEW f \in InsnOrNone
    PROVE  CalculateSize(s, f) \in Nat
<1>1. TRAMPOLINE_SIZE \in Nat /\ Len(s) \in Nat
  BY SizeAssumption DEF SizeAssumption
<1> QED BY <1>1 DEF CalculateSize

-----------------------------------------------------------------------------
(* The two halves of a dollop cut before its k-th entry.                   *)
LEMMA CutAt ==
    ASSUME NEW b \in Seq(Insn), NEW k \in 2 .. Len(b)
    PROVE  /\ SubSeq(b, 1, k - 1) \in Seq(Insn) /\ Len(SubSeq(b, 1, k - 1)) = k - 1
           /\ \A j \in 1 .. k - 1 : SubSeq(b, 1, k - 1)[j] = b[j]
           /\ SubSeq(b, k, Len(b)) \in Seq(Insn)
           /\ Len(SubSeq(b, k, Len(b))) = Len(b) - k + 1
           /\ \A j \in 1 .. Len(b) - k + 1 : SubSeq(b, k, Len(b))[j] = b[k + j - 1]
<1>1. PICK n \in Nat : n = Len(b) /\ k \in 2 .. n
  OBVIOUS
<1>2. \A j \in 1 .. n : b[j] \in Insn
  BY <1>1
<1>3. k \in Int /\ k - 1 \in Int /\ n \in Int /\ 1 \in Int /\ 1 <= k - 1 /\ k <= n
  BY <1>1
<1>4. (\A j \in 1 .. k - 1 : b[j] \in Insn) /\ (\A j \in k .. n : b[j] \in Insn)
  BY <1>2, <1>3
<1>5. /\ SubSeq(b, 1, k - 1) \in Seq(Insn) /\ Len(SubSeq(b, 1, k - 1)) = (k - 1) - 1 + 1
      /\ \A j \in 1 .. (k - 1) - 1 + 1 : SubSeq(b, 1, k - 1)[j] = b[1 + j - 1]
  BY <1>3, <1>4, SubSeqProperties
<1>6. /\ SubSeq(b, k, n) \in Seq(Insn) /\ Len(SubSeq(b, k, n)) = n - k + 1
      /\ \A j \in 1 .. n - k + 1 : SubSeq(b, k, n)[j] = b[k + j - 1]
  BY <1>3, <1>4, SubSeqProperties
<1>7. (k - 1) - 1 + 1 = k - 1 /\ \A j \in 1 .. k - 1 : 1 + j - 1 = j
  BY <1>3
<1> QED BY <1>1, <1>5, <1>6, <1>7

(* Split: the tables it leaves, entry by entry.                            *)
SplitLeaves(m, h, k, s, M) ==
    /\ s \in Insn /\ s # h /\ Len(m.body[s]) = 0 /\ m.where[s] = h
    /\ M.body \in [Insn -> Seq(Insn)]
    /\ Len(M.body[h]) = k - 1
    /\ \A j \in 1 .. k - 1 : M.body[h][j] = m.body[h][j]
    /\ Len(M.body[s]) = Len(m.body[h]) - k + 1
    /\ \A j \in 1 .. Len(m.body[h]) - k + 1 : M.body[s][j] = m.body[h][k + j - 1]
    /\ \A x \in Insn \ {h, s} : M.body[x] = m.body[x]
    /\ M.where \in [Insn -> InsnOrNone]
    /\ \A j \in k .. Len(m.body[h]) : M.where[m.body[h][j]] = s
    /\ \A x \in Insn : (\A j \in k .. Len(m.body[h]) : m.body[h][j] # x) =>
          M.where[x] = m.where[x]
    /\ M.ft = [m.ft EXCEPT ![h] = s, ![s] = m.ft[h]]
    /\ M.fb = [i \in Insn |-> CASE i = s       -> h
                                [] i = m.ft[h] -> s
                                [] OTHER       -> m.fb[i]]
    /\ M.size = [m.size EXCEPT ![h] = CalculateSize(M.body[h], s),
                               ![s] = CalculateSize(M.body[s], m.ft[h])]

LEMMA SplitIs ==
    ASSUME NEW m, Sound(m), NEW h \in Insn, NEW k \in 2 .. Len(m.body[h]),
           NEW s, s = m.body[h][k], NEW M, M = Split(m, h, s)
    PROVE  SplitLeaves(m, h, k, s, M)
<1> DEFINE b == m.body[h]
<1> DEFINE at == CHOOSE j \in 1 .. Len(b) : b[j] = s
<1> DEFINE tail == SubSeq(b, at, Len(b))
<1> DEFINE kept == SubSeq(b, 1, at - 1)
<1>1. /\ b \in Seq(Insn) /\ Len(b) \in Nat /\ k \in 1 .. Len(b) /\ 1 \in 1 .. Len(b)
      /\ k \in Nat /\ k > 1 /\ k <= Len(b) /\ Len(b) > 0
      /\ \A j \in 1 .. Len(b) : b[j] \in Insn
  BY SoundFacts
<1>2. b[1] = h /\ m.where[b[k]] = h /\ \A j, l \in 1 .. Len(b) : b[j] = b[l] => j = l
  BY <1>1 DEF Sound, MapAgrees
<1>3. s \in Insn /\ s # h /\ m.where[s] = h
  BY <1>1, <1>2
<1>4. Len(m.body[s]) = 0
  BY <1>3, SoundFacts
<1>5. at = k
  BY <1>1, <1>2
<1>6. /\ M.body = [m.body EXCEPT ![h] = kept, ![s] = tail]
      /\ M.where = [i \in Insn |-> IF i \in Range(tail) THEN s ELSE m.where[i]]
      /\ M.ft = [m.ft EXCEPT ![h] = s, ![s] = m.ft[h]]
      /\ M.fb = [i \in Insn |-> CASE i = s       -> h
                                  [] i = m.ft[h] -> s
                                  [] OTHER       -> m.fb[i]]
      /\ M.size = [m.size EXCEPT ![h] = CalculateSize(kept, s),
                                 ![s] = CalculateSize(tail, m.ft[h])]
  BY DEF Split
<1>17. kept = SubSeq(b, 1, k - 1) /\ tail = SubSeq(b, k, Len(b)) /\ k \in 2 .. Len(b)
  BY <1>5
<1>18. /\ SubSeq(b, 1, k - 1) \in Seq(Insn) /\ Len(SubSeq(b, 1, k - 1)) = k - 1
       /\ \A j \in 1 .. k - 1 : SubSeq(b, 1, k - 1)[j] = b[j]
       /\ SubSeq(b, k, Len(b)) \in Seq(Insn)
       /\ Len(SubSeq(b, k, Len(b))) = Len(b) - k + 1
       /\ \A j \in 1 .. Len(b) - k + 1 : SubSeq(b, k, Len(b))[j] = b[k + j - 1]
  <2> HIDE DEF b
  <2> QED BY <1>1, <1>17, CutAt
<1> HIDE DEF b, kept, tail, at
<1>7. /\ kept \in Seq(Insn) /\ Len(kept) = k - 1
      /\ \A j \in 1 .. k - 1 : kept[j] = b[j]
  BY <1>17, <1>18
<1>8. /\ tail \in Seq(Insn) /\ Len(tail) = Len(b) - k + 1
      /\ \A j \in 1 .. Len(b) - k + 1 : tail[j] = b[k + j - 1]
  BY <1>17, <1>18
<1>9. m.body \in [Insn -> Seq(Insn)] /\ m.where \in [Insn -> InsnOrNone]
  BY DEF Sound, Bodies
<1>10. M.body[h] = kept /\ M.body[s] = tail /\ \A x \in Insn \ {h, s} : M.body[x] = m.body[x]
  BY <1>3, <1>6, <1>9
<1>11. M.body \in [Insn -> Seq(Insn)]
  <2>1. M.body = [x \in Insn |-> IF x = s THEN tail ELSE IF x = h THEN kept ELSE m.body[x]]
    BY <1>3, <1>6, <1>9
  <2>2. \A x \in Insn : m.body[x] \in Seq(Insn)
    BY <1>9
  <2> QED BY <1>7, <1>8, <2>1, <2>2
<1>12. M.where \in [Insn -> InsnOrNone]
  BY <1>3, <1>6, <1>9 DEF InsnOrNone
<1>13. \A x : x \in Range(tail) <=> \E j \in k .. Len(b) : b[j] = x
  <2>1. DOMAIN tail = 1 .. Len(b) - k + 1
    BY <1>1, <1>8
  <2>2. ASSUME NEW j \in 1 .. Len(b) - k + 1
        PROVE  k + j - 1 \in k .. Len(b) /\ tail[j] = b[k + j - 1]
    BY <1>1, <1>8
  <2>3. ASSUME NEW j \in k .. Len(b)
        PROVE  j - k + 1 \in 1 .. Len(b) - k + 1 /\ tail[j - k + 1] = b[j]
    <3>1. j - k + 1 \in 1 .. Len(b) - k + 1 /\ k + (j - k + 1) - 1 = j
      BY <1>1
    <3>2. tail[j - k + 1] = b[k + (j - k + 1) - 1]
      BY <1>8, <3>1
    <3> QED BY <3>1, <3>2
  <2>4. ASSUME NEW x \in Range(tail) PROVE \E j \in k .. Len(b) : b[j] = x
    <3>1. PICK j \in DOMAIN tail : tail[j] = x
      BY DEF Range
    <3> QED BY <2>1, <2>2, <3>1
  <2>5. ASSUME NEW j \in k .. Len(b) PROVE b[j] \in Range(tail)
    BY <2>1, <2>3 DEF Range
  <2> QED BY <2>4, <2>5
<1>14. \A j \in k .. Len(b) : M.where[b[j]] = s
  <2>1. \A j \in k .. Len(b) : b[j] \in Insn
    BY <1>1
  <2> QED BY <1>6, <1>13, <2>1
<1>15. \A x \in Insn : (\A j \in k .. Len(b) : b[j] # x) => M.where[x] = m.where[x]
  BY <1>6, <1>13
<1>16. M.size = [m.size EXCEPT ![h] = CalculateSize(M.body[h], s),
                               ![s] = CalculateSize(M.body[s], m.ft[h])]
  BY <1>6, <1>10
<1> QED BY <1>3, <1>4, <1>6, <1>7, <1>8, <1>10, <1>11, <1>12, <1>14, <1>15, <1>16 DEF b, SplitLeaves

(* A split keeps the tables sound, puts no instruction into a dollop or    *)
(* out of one, and leaves every head a head.                               *)
LEMMA SplitSound ==
    ASSUME NEW m, Sound(m), ProgramOK, NEW h \in Insn, NEW k \in 2 .. Len(m.body[h]),
           NEW s, s = m.body[h][k], NEW M, M = Split(m, h, s)
    PROVE  /\ Sound(M) /\ M.where[s] = s
           /\ \A x \in Insn : /\ M.where[x] = None <=> m.where[x] = None
                              /\ m.where[x] = x => M.where[x] = x
<1>1. PICK b, n : b = m.body[h] /\ n = Len(b)
  OBVIOUS
<1>2. /\ \A x \in Insn : Len(m.body[x]) \in Nat /\ m.body[x] \in Seq(Insn)
      /\ \A x \in Insn : \A j \in 1 .. Len(m.body[x]) : m.body[x][j] \in Insn
  BY SoundFacts
<1>3. /\ \A x \in Insn : Len(m.body[x]) > 0 <=> m.where[x] = x
      /\ \A x \in Insn : m.where[x] # None =>
            m.where[x] \in Insn /\ Len(m.body[m.where[x]]) > 0
      /\ \A x \in Insn : Len(m.body[x]) = 0 => m.ft[x] = None /\ m.fb[x] = None
  BY SoundFacts
<1>4. m.ft \in [Insn -> InsnOrNone] /\ m.fb \in [Insn -> InsnOrNone] /\ m.size \in [Insn -> Nat]
      /\ m.where \in [Insn -> InsnOrNone]
  BY DEF Sound, Bodies
<1>5. /\ b \in Seq(Insn) /\ n \in Nat /\ k \in Nat /\ k > 1 /\ k <= n /\ b[k] = s
      /\ \A j \in 1 .. n : b[j] \in Insn
  BY <1>1, <1>2
<1>6. /\ \A j \in 1 .. k - 1 : j \in 1 .. n
      /\ \A j \in 1 .. n - k + 1 : k + j - 1 \in k .. n /\ k + j - 1 \in 1 .. n
      /\ \A j \in k .. n : j \in 1 .. n
  BY <1>5
(* What the conjuncts of MapAgrees say of m.                               *)
<1>7. \A x \in Insn : Len(m.body[x]) > 0 => m.body[x][1] = x
  BY DEF Sound, MapAgrees
<1>8. \A x \in Insn : \A j \in 1 .. Len(m.body[x]) : m.where[m.body[x][j]] = x
  BY DEF Sound, MapAgrees
<1>9. \A x \in Insn : m.where[x] # None =>
         \E j \in 1 .. Len(m.body[m.where[x]]) : m.body[m.where[x]][j] = x
  BY DEF Sound, MapAgrees
<1>23. \A x \in Insn : \A j, l \in 1 .. Len(m.body[x]) : m.body[x][j] = m.body[x][l] => j = l
  BY DEF Sound, MapAgrees
<1>24. /\ b[1] = h /\ \A j \in 1 .. n : m.where[b[j]] = h
       /\ \A j, l \in 1 .. n : b[j] = b[l] => j = l
  BY <1>1, <1>5, <1>7, <1>8, <1>23
(* What Split does to the tables.                                          *)
<1>39. SplitLeaves(m, h, k, s, M)
  BY SplitIs
<1>25. /\ s \in Insn /\ s # h /\ Len(m.body[s]) = 0 /\ m.where[s] = h
       /\ M.body \in [Insn -> Seq(Insn)]
  BY <1>39 DEF SplitLeaves
<1>26. Len(M.body[h]) = k - 1 /\ \A j \in 1 .. k - 1 : M.body[h][j] = b[j]
  BY <1>1, <1>39 DEF SplitLeaves
<1>27. Len(M.body[s]) = n - k + 1 /\ \A j \in 1 .. n - k + 1 : M.body[s][j] = b[k + j - 1]
  BY <1>1, <1>39 DEF SplitLeaves
<1>28. \A x \in Insn \ {h, s} : M.body[x] = m.body[x]
  BY <1>39 DEF SplitLeaves
<1>29. M.where \in [Insn -> InsnOrNone] /\ \A j \in k .. n : M.where[b[j]] = s
  BY <1>1, <1>39 DEF SplitLeaves
<1>30. \A x \in Insn : (\A j \in k .. n : b[j] # x) => M.where[x] = m.where[x]
  BY <1>1, <1>39 DEF SplitLeaves
<1>31. M.ft = [m.ft EXCEPT ![h] = s, ![s] = m.ft[h]]
  BY <1>39 DEF SplitLeaves
<1>32. M.fb = [i \in Insn |-> CASE i = s       -> h
                                [] i = m.ft[h] -> s
                                [] OTHER       -> m.fb[i]]
  BY <1>39 DEF SplitLeaves
<1>33. M.size = [m.size EXCEPT ![h] = CalculateSize(M.body[h], s),
                               ![s] = CalculateSize(M.body[s], m.ft[h])]
  BY <1>39 DEF SplitLeaves
<1>34. m.ft[s] = None /\ m.fb[s] = None
  BY <1>3, <1>25
<1>35. m.ft[h] # s
  BY <1>25 DEF Sound, Links
<1>36. /\ M.ft[h] = s /\ M.ft[s] = m.ft[h]
       /\ \A x \in Insn \ {h, s} : M.ft[x] = m.ft[x]
  BY <1>4, <1>25, <1>31
<1>37. /\ M.size[h] = CalculateSize(M.body[h], s)
       /\ M.size[s] = CalculateSize(M.body[s], m.ft[h])
       /\ \A x \in Insn \ {h, s} : M.size[x] = m.size[x]
  BY <1>4, <1>25, <1>33
<1>10. Bodies(M)
  <2>1. M.ft \in [Insn -> InsnOrNone]
    <3>1. s \in InsnOrNone /\ m.ft[h] \in InsnOrNone
      BY <1>4, <1>25 DEF InsnOrNone
    <3> QED BY <1>4, <1>31, <3>1
  <2>2. M.fb \in [Insn -> InsnOrNone]
    BY <1>4, <1>25, <1>32 DEF InsnOrNone
  <2>3. CalculateSize(M.body[h], s) \in Nat /\ CalculateSize(M.body[s], m.ft[h]) \in Nat
    <3>1. M.body[h] \in Seq(Insn) /\ M.body[s] \in Seq(Insn)
      BY <1>25
    <3>2. Len(M.body[h]) > 0 /\ Len(M.body[s]) > 0
      BY <1>5, <1>26, <1>27
    <3>3. s \in InsnOrNone /\ m.ft[h] \in InsnOrNone
      BY <1>4, <1>25 DEF InsnOrNone
    <3> QED BY <3>1, <3>2, <3>3, SizeIs
  <2>4. M.size \in [Insn -> Nat]
    BY <1>4, <1>33, <2>3
  <2> QED BY <1>25, <1>29, <2>1, <2>2, <2>4 DEF Bodies
(* Which instructions move, and which stay.                                *)
<1>11. \A j \in 1 .. k - 1 : M.where[b[j]] = h
  <2>1. SUFFICES ASSUME NEW j \in 1 .. k - 1 PROVE M.where[b[j]] = h
    OBVIOUS
  <2>2. j \in 1 .. n /\ b[j] \in Insn /\ m.where[b[j]] = h
    BY <1>5, <1>6, <1>24
  <2>3. ASSUME NEW l \in k .. n PROVE b[l] # b[j]
    <3>1. l \in 1 .. n /\ l # j
      BY <1>5
    <3> QED BY <1>24, <2>2, <3>1
  <2> QED BY <1>30, <2>2, <2>3
<1>12. ASSUME NEW x \in Insn, m.where[x] # h PROVE M.where[x] = m.where[x]
  <2>1. \A j \in k .. n : b[j] # x
    BY <1>6, <1>12, <1>24
  <2> QED BY <1>30, <2>1
<1>13. ASSUME NEW x \in Insn, m.where[x] = h
       PROVE  \/ \E j \in 1 .. k - 1 : b[j] = x /\ M.where[x] = h
              \/ \E j \in k .. n : b[j] = x /\ M.where[x] = s
  <2>1. PICK j \in 1 .. n : b[j] = x
    BY <1>1, <1>9, <1>13, NoneAssumption
  <2>2. j \in 1 .. k - 1 \/ j \in k .. n
    BY <1>5
  <2> QED BY <1>11, <1>29, <2>1, <2>2
<1>14. MapAgrees(M)
  <2>1. ASSUME NEW x \in Insn, Len(M.body[x]) > 0 PROVE M.body[x][1] = x
    <3>1. CASE x = h
      <4>1. 1 \in 1 .. k - 1
        BY <1>5
      <4> QED BY <1>24, <1>26, <3>1, <4>1
    <3>2. CASE x = s
      <4>1. 1 \in 1 .. n - k + 1 /\ k + 1 - 1 = k
        BY <1>5
      <4>2. M.body[s][1] = b[k]
        BY <1>27, <4>1
      <4> QED BY <1>5, <3>2, <4>2
    <3>3. CASE x \notin {h, s}
      <4>1. M.body[x] = m.body[x]
        BY <1>28, <3>3
      <4> QED BY <1>7, <2>1, <4>1
    <3> QED BY <3>1, <3>2, <3>3
  <2>2. ASSUME NEW x \in Insn, NEW j \in 1 .. Len(M.body[x]) PROVE M.where[M.body[x][j]] = x
    <3>1. CASE x = h
      <4>1. j \in 1 .. k - 1 /\ M.body[x][j] = b[j]
        BY <1>26, <3>1
      <4> QED BY <1>11, <3>1, <4>1
    <3>2. CASE x = s
      <4>1. j \in 1 .. n - k + 1 /\ M.body[x][j] = b[k + j - 1]
        BY <1>27, <3>2
      <4> QED BY <1>6, <1>29, <3>2, <4>1
    <3>3. CASE x \notin {h, s}
      <4>1. M.body[x] = m.body[x]
        BY <1>28, <3>3
      <4>2. j \in 1 .. Len(m.body[x])
        BY <4>1
      <4>3. m.body[x][j] \in Insn /\ m.where[m.body[x][j]] = x
        BY <1>2, <1>8, <4>2
      <4> QED BY <1>12, <3>3, <4>1, <4>3
    <3> QED BY <3>1, <3>2, <3>3
  <2>3. ASSUME NEW x \in Insn, M.where[x] # None
        PROVE  \E j \in 1 .. Len(M.body[M.where[x]]) : M.body[M.where[x]][j] = x
    <3>1. ASSUME NEW j \in 1 .. k - 1, b[j] = x, M.where[x] = h
          PROVE  \E l \in 1 .. Len(M.body[M.where[x]]) : M.body[M.where[x]][l] = x
      <4>1. j \in 1 .. Len(M.body[h]) /\ M.body[h][j] = x
        BY <1>26, <3>1
      <4> QED BY <3>1, <4>1
    <3>2. ASSUME NEW j \in k .. n, b[j] = x, M.where[x] = s
          PROVE  \E l \in 1 .. Len(M.body[M.where[x]]) : M.body[M.where[x]][l] = x
      <4>1. j - k + 1 \in 1 .. n - k + 1 /\ k + (j - k + 1) - 1 = j
        BY <1>5
      <4>2. M.body[s][j - k + 1] = b[k + (j - k + 1) - 1]
        BY <1>27, <4>1
      <4>3. j - k + 1 \in 1 .. Len(M.body[s]) /\ M.body[s][j - k + 1] = x
        BY <1>27, <3>2, <4>1, <4>2
      <4> QED BY <3>2, <4>3
    <3>3. CASE m.where[x] = h
      BY <1>13, <3>1, <3>2, <3>3
    <3>4. CASE m.where[x] # h
      <4>1. M.where[x] = m.where[x] /\ m.where[x] # None
        BY <1>12, <2>3, <3>4
      <4>2. m.where[x] \in Insn /\ m.where[x] # s /\ Len(m.body[m.where[x]]) > 0
        BY <1>3, <1>25, <4>1
      <4>3. M.body[m.where[x]] = m.body[m.where[x]]
        BY <1>28, <3>4, <4>2
      <4>4. \E j \in 1 .. Len(m.body[m.where[x]]) : m.body[m.where[x]][j] = x
        BY <1>9, <4>1
      <4> QED BY <4>1, <4>3, <4>4
    <3> QED BY <3>3, <3>4
  <2>4. ASSUME NEW x \in Insn, NEW j \in 1 .. Len(M.body[x]), NEW l \in 1 .. Len(M.body[x]),
               M.body[x][j] = M.body[x][l]
        PROVE  j = l
    <3>1. CASE x = h
      <4>1. j \in 1 .. k - 1 /\ l \in 1 .. k - 1
        BY <1>26, <3>1
      <4>2. j \in 1 .. n /\ l \in 1 .. n /\ b[j] = b[l]
        BY <1>6, <1>26, <2>4, <3>1, <4>1
      <4> QED BY <1>24, <4>2
    <3>2. CASE x = s
      <4>1. j \in 1 .. n - k + 1 /\ l \in 1 .. n - k + 1
        BY <1>27, <3>2
      <4>2. k + j - 1 \in 1 .. n /\ k + l - 1 \in 1 .. n /\ b[k + j - 1] = b[k + l - 1]
        BY <1>6, <1>27, <2>4, <3>2, <4>1
      <4>3. k + j - 1 = k + l - 1
        BY <1>24, <4>2
      <4> QED BY <1>5, <4>1, <4>3
    <3>3. CASE x \notin {h, s}
      <4>1. M.body[x] = m.body[x]
        BY <1>28, <3>3
      <4>2. j \in 1 .. Len(m.body[x]) /\ l \in 1 .. Len(m.body[x]) /\ m.body[x][j] = m.body[x][l]
        BY <2>4, <4>1
      <4> QED BY <1>23, <4>2
    <3> QED BY <3>1, <3>2, <3>3
  <2> QED BY <2>1, <2>2, <2>3, <2>4 DEF MapAgrees
<1>15. /\ \A x \in Insn : \A j \in 1 .. Len(m.body[x]) - 1 :
             m.body[x][j + 1] = Fallthrough(m.body[x][j])
       /\ \A x \in Insn : Len(m.body[x]) > 0 => m.ft[x] = Fallthrough(m.body[x][Len(m.body[x])])
  BY DEF Sound, Follows
<1>38. /\ \A j \in 1 .. n - 1 : b[j + 1] = Fallthrough(b[j])
       /\ m.ft[h] = Fallthrough(b[n])
  BY <1>1, <1>5, <1>15
<1>16. Follows(M)
  <2>1. ASSUME NEW x \in Insn, NEW j \in 1 .. Len(M.body[x]) - 1
        PROVE  M.body[x][j + 1] = Fallthrough(M.body[x][j])
    <3>1. CASE x = h
      <4>1. j \in 1 .. (k - 1) - 1
        BY <1>26, <3>1
      <4>2. j \in 1 .. k - 1 /\ j + 1 \in 1 .. k - 1 /\ j \in 1 .. n - 1
        BY <1>5, <4>1
      <4>3. M.body[x][j] = b[j] /\ M.body[x][j + 1] = b[j + 1]
        BY <1>26, <3>1, <4>2
      <4> QED BY <1>38, <4>2, <4>3
    <3>2. CASE x = s
      <4>1. j \in 1 .. (n - k + 1) - 1
        BY <1>27, <3>2
      <4>2. /\ j \in 1 .. n - k + 1 /\ j + 1 \in 1 .. n - k + 1 /\ k + j - 1 \in 1 .. n - 1
            /\ k + (j + 1) - 1 = (k + j - 1) + 1
        BY <1>5, <4>1
      <4>3. M.body[x][j] = b[k + j - 1] /\ M.body[x][j + 1] = b[k + (j + 1) - 1]
        BY <1>27, <3>2, <4>2
      <4>4. b[(k + j - 1) + 1] = Fallthrough(b[k + j - 1])
        BY <1>38, <4>2
      <4> QED BY <4>2, <4>3, <4>4
    <3>3. CASE x \notin {h, s}
      <4>1. M.body[x] = m.body[x]
        BY <1>28, <3>3
      <4>2. j \in 1 .. Len(m.body[x]) - 1
        BY <4>1
      <4> QED BY <1>15, <4>1, <4>2
    <3> QED BY <3>1, <3>2, <3>3
  <2>2. ASSUME NEW x \in Insn, Len(M.body[x]) > 0
        PROVE  M.ft[x] = Fallthrough(M.body[x][Len(M.body[x])])
    <3>1. CASE x = h
      <4>1. k - 1 \in 1 .. n - 1 /\ (k - 1) + 1 = k /\ k - 1 \in 1 .. k - 1
        BY <1>5
      <4>2. b[(k - 1) + 1] = Fallthrough(b[k - 1])
        BY <1>38, <4>1
      <4>3. M.body[h][k - 1] = b[k - 1]
        BY <1>26, <4>1
      <4> QED BY <1>5, <1>26, <1>36, <3>1, <4>1, <4>2, <4>3
    <3>2. CASE x = s
      <4>1. n - k + 1 \in 1 .. n - k + 1 /\ k + (n - k + 1) - 1 = n
        BY <1>5
      <4>2. M.body[s][n - k + 1] = b[k + (n - k + 1) - 1]
        BY <1>27, <4>1
      <4> QED BY <1>27, <1>36, <1>38, <3>2, <4>1, <4>2
    <3>3. CASE x \notin {h, s}
      <4>1. M.ft[x] = m.ft[x] /\ M.body[x] = m.body[x]
        BY <1>28, <1>36, <3>3
      <4> QED BY <1>15, <2>2, <4>1
    <3> QED BY <3>1, <3>2, <3>3
  <2> QED BY <2>1, <2>2 DEF Follows
<1>17. ASSUME NEW x \in Insn, m.where[x] = x PROVE M.where[x] = x
  <2>1. CASE x = h
    <3>1. 1 \in 1 .. k - 1 /\ b[1] = h
      BY <1>5, <1>24
    <3> QED BY <1>11, <2>1, <3>1
  <2>2. CASE x # h
    BY <1>12, <1>17, <2>2
  <2> QED BY <2>1, <2>2
<1>18. ASSUME NEW x \in Insn PROVE M.where[x] = None <=> m.where[x] = None
  BY <1>12, <1>13, <1>25, NoneAssumption
<1>19. Fronts(M)
  <2>1. prog.ibta \subseteq Insn
    BY DEF ProgramOK, Typed
  <2>2. \A i \in prog.ibta : m.where[i] # None => m.where[i] = i
    BY DEF Sound, Fronts
  <2> QED BY <1>17, <1>18, <2>1, <2>2 DEF Fronts
<1>20. Links(M)
  <2> SUFFICES ASSUME NEW g \in Insn, NEW x \in Insn
               PROVE  /\ M.ft[g] = x <=> M.fb[x] = g
                      /\ M.ft[g] = x => Len(M.body[g]) > 0 /\ Len(M.body[x]) > 0
    BY DEF Links
  <2>1. \A u, v \in Insn : /\ m.ft[u] = v <=> m.fb[v] = u
                           /\ m.ft[u] = v => Len(m.body[u]) > 0 /\ Len(m.body[v]) > 0
    BY DEF Sound, Links
  <2>2. M.ft[g] = IF g = s THEN m.ft[h] ELSE IF g = h THEN s ELSE m.ft[g]
    BY <1>36
  <2>3. M.fb[x] = IF x = s THEN h ELSE IF x = m.ft[h] THEN s ELSE m.fb[x]
    <3>1. M.fb[x] = CASE x = s       -> h
                      [] x = m.ft[h] -> s
                      [] OTHER       -> m.fb[x]
      BY <1>32
    <3>2. CASE x = s
      BY <1>35, <3>1, <3>2
    <3>3. CASE x # s
      BY <3>1, <3>3
    <3> QED BY <3>2, <3>3
  <2>4. Len(M.body[h]) > 0 /\ Len(M.body[s]) > 0
    BY <1>5, <1>26, <1>27
  <2>5. \A y \in Insn : Len(m.body[y]) > 0 => Len(M.body[y]) > 0
    <3>1. \A y \in Insn : y = h \/ y = s \/ M.body[y] = m.body[y]
      BY <1>28
    <3> QED BY <2>4, <3>1
  <2>6. /\ m.ft[g] = x <=> m.fb[x] = g
        /\ m.ft[h] = x <=> m.fb[x] = h
        /\ m.ft[s] = x <=> m.fb[x] = s
        /\ m.ft[g] = s <=> m.fb[s] = g
    BY <1>25, <2>1
  <2>7. M.ft[g] = x <=> M.fb[x] = g
    BY <1>25, <1>34, <1>35, <2>2, <2>3, <2>6, NoneAssumption
  <2>8. M.ft[g] = x => Len(M.body[g]) > 0 /\ Len(M.body[x]) > 0
    BY <2>1, <2>2, <2>4, <2>5
  <2> QED BY <2>7, <2>8
<1>21. Sizes(M)
  <2> SUFFICES ASSUME NEW x \in Insn, Len(M.body[x]) > 0
               PROVE  M.size[x] = CalculateSize(M.body[x], M.ft[x])
    BY DEF Sizes
  <2>1. CASE x = h
    BY <1>36, <1>37, <2>1
  <2>2. CASE x = s
    BY <1>36, <1>37, <2>2
  <2>3. CASE x \notin {h, s}
    <3>1. M.size[x] = m.size[x] /\ M.ft[x] = m.ft[x] /\ M.body[x] = m.body[x]
      BY <1>28, <1>36, <1>37, <2>3
    <3> QED BY <3>1 DEF Sound, Sizes
  <2> QED BY <2>1, <2>2, <2>3
<1>22. M.where[s] = s
  BY <1>5, <1>29
<1> QED BY <1>10, <1>14, <1>16, <1>17, <1>18, <1>19, <1>20, <1>21, <1>22 DEF Sound

-----------------------------------------------------------------------------
(* AddNewDollops.  First where the chain of new dollops meets one that     *)
(* exists: it becomes a head.                                              *)
HeadsKept(m, M) == \A x \in Insn : /\ M.where[x] = None <=> m.where[x] = None
                                   /\ m.where[x] = x => M.where[x] = x

LEMMA EnsureHeadSound ==
    ASSUME NEW m, Sound(m), ProgramOK, NEW i \in Insn, Contained(m, i)
    PROVE  /\ Sound(EnsureHead(m, i)) /\ EnsureHead(m, i).where[i] = i
           /\ HeadsKept(m, EnsureHead(m, i))
<1>1. CASE m.where[i] = i
  BY <1>1 DEF EnsureHead, HeadsKept
<1>2. CASE m.where[i] # i
  <2>1. PICK h : h = m.where[i]
    OBVIOUS
  <2>2. h \in Insn /\ h # i /\ Len(m.body[h]) \in Nat
    BY <1>2, <2>1, SoundFacts DEF Contained
  <2>3. PICK k \in 1 .. Len(m.body[h]) : m.body[h][k] = i
    BY <2>1 DEF Contained, Sound, MapAgrees
  <2>4. k # 1
    <3>1. Len(m.body[h]) > 0 => m.body[h][1] = h
      BY <2>2 DEF Sound, MapAgrees
    <3> QED BY <2>2, <2>3, <3>1
  <2>5. k \in 2 .. Len(m.body[h])
    BY <2>2, <2>3, <2>4
  <2>6. EnsureHead(m, i) = Split(m, h, i)
    BY <1>2, <2>1 DEF EnsureHead
  <2>7. PICK M : M = Split(m, h, i)
    OBVIOUS
  <2>8. Sound(M) /\ M.where[i] = i /\ HeadsKept(m, M)
    BY <2>2, <2>3, <2>5, <2>7, SplitSound DEF HeadsKept
  <2> QED BY <2>6, <2>7, <2>8
<1> QED BY <1>1, <1>2

(* What the new dollops are before they are put into the tables.           *)
ChainApart(m, start) ==
    /\ NewHeads(m, start) \subseteq Insn /\ start \in NewHeads(m, start)
    /\ \A h \in NewHeads(m, start) : ~ Contained(m, h)
    /\ \A h \in NewHeads(m, start) :
          \/ After(m, h) = None \/ After(m, h) \in NewHeads(m, start)
          \/ After(m, h) \in Meets(m, start)
    /\ \A x \in Meets(m, start) :
          x \in Insn /\ Contained(m, x) /\ \A y \in Meets(m, start) : x = y
    /\ \A g, h \in NewHeads(m, start) :
          \A j \in 1 .. Len(RunFrom(m, g)) : \A l \in 1 .. Len(RunFrom(m, h)) :
             RunFrom(m, g)[j] = RunFrom(m, h)[l] => g = h /\ j = l
    /\ \A g, h \in NewHeads(m, start) :
          After(m, g) = After(m, h) /\ After(m, g) # None => g = h
    /\ \A h \in NewHeads(m, start) : \A k \in 1 .. Len(RunFrom(m, h)) :
          /\ RunFrom(m, h)[k] \in Insn /\ ~ Contained(m, RunFrom(m, h)[k])
          /\ k # 1 => RunFrom(m, h)[k] \notin prog.ibta

LEMMA ChainIsApart ==
    ASSUME NEW m, ProgramOK, NEW start \in Insn, ~ Contained(m, start)
    PROVE  ChainApart(m, start)
<1> DEFINE C == NewHeads(m, start)
<1>1. PICK r : Descends(prog.fallthrough, r)
  BY FallRank
<1>2. C \subseteq Insn /\ start \in C
  BY <1>1, Chain
<1>3. \A h \in C : After(m, h) = None \/ Contained(m, After(m, h)) \/ After(m, h) \in C
  BY <1>1, Chain
<1>4. \A h \in C : ~ Contained(m, h)
  BY <1>1, Chain
<1>5. \A g, h \in C : g # h => \/ After(m, g) \in C /\ r[h] <= r[After(m, g)]
                               \/ After(m, h) \in C /\ r[g] <= r[After(m, h)]
  BY <1>1, Chain
<1> HIDE DEF C
<1>6. ASSUME NEW h \in C
      PROVE  /\ RunFrom(m, h) \in Seq(Insn) /\ Len(RunFrom(m, h)) \in Nat
             /\ Len(RunFrom(m, h)) > 0 /\ RunFrom(m, h)[1] = h
             /\ \A k \in 1 .. Len(RunFrom(m, h)) - 1 : ~ Stops(m, RunFrom(m, h)[k + 1])
             /\ After(m, h) \in InsnOrNone
             /\ \A k, l \in 1 .. Len(RunFrom(m, h)) :
                   k < l => r[RunFrom(m, h)[l]] < r[RunFrom(m, h)[k]]
             /\ \A k \in 1 .. Len(RunFrom(m, h)) :
                   After(m, h) # None => r[After(m, h)] < r[RunFrom(m, h)[k]]
  BY <1>1, <1>2, RunFacts
<1>7. ASSUME NEW h \in C, NEW k \in 1 .. Len(RunFrom(m, h))
      PROVE  /\ RunFrom(m, h)[k] \in Insn /\ ~ Contained(m, RunFrom(m, h)[k])
             /\ k # 1 => RunFrom(m, h)[k] \notin prog.ibta
             /\ r[RunFrom(m, h)[k]] \in Nat /\ r[h] \in Nat /\ r[RunFrom(m, h)[k]] <= r[h]
  <2>1. RunFrom(m, h)[k] \in Insn /\ h \in Insn
    BY <1>2, <1>6
  <2>2. r[RunFrom(m, h)[k]] \in Nat /\ r[h] \in Nat
    BY <1>1, <2>1 DEF Descends
  <2>3. CASE k = 1
    BY <1>4, <1>6, <2>1, <2>2, <2>3
  <2>4. CASE k # 1
    <3>1. k - 1 \in 1 .. Len(RunFrom(m, h)) - 1 /\ (k - 1) + 1 = k
          /\ 1 \in 1 .. Len(RunFrom(m, h)) /\ 1 < k
      BY <1>6, <2>4
    <3>2. ~ Stops(m, RunFrom(m, h)[k])
      BY <1>6, <3>1
    <3>3. r[RunFrom(m, h)[k]] < r[h]
      BY <1>6, <3>1
    <3> QED BY <2>1, <2>2, <2>4, <3>2, <3>3 DEF Stops
  <2> QED BY <2>3, <2>4
<1>8. ASSUME NEW g \in C, NEW h \in C, After(m, g) \in C, r[h] <= r[After(m, g)],
             NEW j \in 1 .. Len(RunFrom(m, g)), NEW l \in 1 .. Len(RunFrom(m, h))
      PROVE  RunFrom(m, g)[j] # RunFrom(m, h)[l]
  <2>1. After(m, g) \in Insn /\ After(m, g) # None
    BY <1>2, <1>8, NoneAssumption
  <2>2. r[After(m, g)] < r[RunFrom(m, g)[j]] /\ r[After(m, g)] \in Nat
    BY <1>1, <1>6, <2>1 DEF Descends
  <2>3. /\ r[RunFrom(m, g)[j]] \in Nat /\ r[RunFrom(m, h)[l]] \in Nat /\ r[h] \in Nat
        /\ r[RunFrom(m, h)[l]] <= r[h]
    BY <1>7
  <2>4. r[RunFrom(m, h)[l]] < r[RunFrom(m, g)[j]]
    BY <1>8, <2>2, <2>3
  <2> QED BY <2>3, <2>4
<1>9. ASSUME NEW g \in C, NEW h \in C,
             NEW j \in 1 .. Len(RunFrom(m, g)), NEW l \in 1 .. Len(RunFrom(m, h)),
             RunFrom(m, g)[j] = RunFrom(m, h)[l]
      PROVE  g = h /\ j = l
  <2>1. g = h
    BY <1>5, <1>8, <1>9
  <2>2. j \in 1 .. Len(RunFrom(m, g)) /\ l \in 1 .. Len(RunFrom(m, g)) /\ j \in Nat /\ l \in Nat
    BY <1>6, <2>1
  <2>3. ASSUME j < l PROVE FALSE
    <3>1. r[RunFrom(m, g)[l]] < r[RunFrom(m, g)[j]] /\ r[RunFrom(m, g)[l]] \in Nat
      BY <1>6, <1>7, <2>2, <2>3
    <3> QED BY <1>9, <2>1, <3>1
  <2>4. ASSUME l < j PROVE FALSE
    <3>1. r[RunFrom(m, g)[j]] < r[RunFrom(m, g)[l]] /\ r[RunFrom(m, g)[l]] \in Nat
      BY <1>6, <1>7, <2>2, <2>4
    <3> QED BY <1>9, <2>1, <3>1
  <2> QED BY <2>1, <2>2, <2>3, <2>4
<1>10. ASSUME NEW g \in C, NEW h \in C, After(m, g) = After(m, h), After(m, g) # None, g # h,
              r[h] <= r[After(m, g)]
       PROVE  FALSE
  <2>1. 1 \in 1 .. Len(RunFrom(m, h)) /\ RunFrom(m, h)[1] = h /\ h \in Insn
    BY <1>2, <1>6
  <2>2. r[After(m, h)] < r[h] /\ After(m, h) \in Insn
    BY <1>6, <1>10, <2>1 DEF InsnOrNone
  <2>3. r[After(m, h)] \in Nat /\ r[h] \in Nat
    BY <1>1, <2>1, <2>2 DEF Descends
  <2> QED BY <1>10, <2>2, <2>3
<1>11. \A g, h \in C : After(m, g) = After(m, h) /\ After(m, g) # None => g = h
  BY <1>5, <1>10
<1>12. Meets(m, start) = {After(m, h) : h \in C} \ (C \cup {None})
  BY DEF Meets, C
<1>13. \A h \in C : After(m, h) = None \/ After(m, h) \in C \/ After(m, h) \in Meets(m, start)
  BY <1>12
<1>14. ASSUME NEW x \in Meets(m, start)
       PROVE  x \in Insn /\ Contained(m, x) /\ \A y \in Meets(m, start) : x = y
  <2>1. PICK g \in C : x = After(m, g)
    BY <1>12
  <2>2. x \notin C /\ x # None
    BY <1>12
  <2>3. x \in Insn /\ Contained(m, x)
    BY <1>3, <1>6, <2>1, <2>2 DEF InsnOrNone
  <2>4. ASSUME NEW y \in Meets(m, start) PROVE x = y
    <3>1. PICK h \in C : y = After(m, h)
      BY <1>12
    <3>2. y \notin C
      BY <1>12
    <3> QED BY <1>5, <2>1, <2>2, <3>1, <3>2
  <2> QED BY <2>3, <2>4
<1> QED BY <1>2, <1>4, <1>7, <1>9, <1>11, <1>13, <1>14 DEF ChainApart, C

(* The tables the chain is put into: where it meets a dollop is a head.    *)
BaseOf(m, start) ==
    IF Meets(m, start) = {} THEN m ELSE EnsureHead(m, CHOOSE i \in Meets(m, start) : TRUE)

BaseOK(m, start, B) ==
    Sound(B) /\ HeadsKept(m, B) /\ \A x \in Meets(m, start) : B.where[x] = x

LEMMA BaseIsOK ==
    ASSUME NEW m, Sound(m), ProgramOK, NEW start \in Insn, ~ Contained(m, start)
    PROVE  BaseOK(m, start, BaseOf(m, start))
<1>1. \A x \in Meets(m, start) :
          x \in Insn /\ Contained(m, x) /\ \A y \in Meets(m, start) : x = y
  BY ChainIsApart DEF ChainApart
<1>2. CASE Meets(m, start) = {}
  BY <1>2 DEF BaseOf, BaseOK, HeadsKept
<1>3. CASE Meets(m, start) # {}
  <2>1. PICK i \in Meets(m, start) : i = CHOOSE x \in Meets(m, start) : TRUE
    BY <1>3
  <2>2. BaseOf(m, start) = EnsureHead(m, i)
    BY <1>3, <2>1 DEF BaseOf
  <2>3. \A x \in Meets(m, start) : x = i
    BY <1>1
  <2>4. i \in Insn /\ Contained(m, i)
    BY <1>1
  <2>5. /\ Sound(EnsureHead(m, i)) /\ EnsureHead(m, i).where[i] = i
        /\ HeadsKept(m, EnsureHead(m, i))
    BY <2>4, EnsureHeadSound
  <2> QED BY <2>2, <2>3, <2>5 DEF BaseOK
<1> QED BY <1>2, <1>3

(* The tables AddFresh leaves, entry by entry.                             *)
FreshLeaves(m, start, B, M) ==
    /\ \A h \in NewHeads(m, start) :
          /\ M.body[h] = RunFrom(m, h) /\ M.ft[h] = After(m, h)
          /\ M.size[h] = CalculateSize(RunFrom(m, h), After(m, h))
    /\ \A h \in Insn \ NewHeads(m, start) :
          M.body[h] = B.body[h] /\ M.ft[h] = B.ft[h] /\ M.size[h] = B.size[h]
    /\ \A h \in NewHeads(m, start) : \A k \in 1 .. Len(RunFrom(m, h)) :
          M.where[RunFrom(m, h)[k]] = h
    /\ \A x \in Insn :
          \/ M.where[x] = B.where[x]
          \/ \E h \in NewHeads(m, start) : \E k \in 1 .. Len(RunFrom(m, h)) :
                RunFrom(m, h)[k] = x
    /\ \A x \in Insn :
          \/ M.fb[x] = B.fb[x] /\ \A h \in NewHeads(m, start) : After(m, h) # x
          \/ M.fb[x] \in NewHeads(m, start) /\ After(m, M.fb[x]) = x
    /\ Bodies(M)

LEMMA FreshIs ==
    ASSUME NEW m, Sound(m), ProgramOK, NEW start \in Insn, ~ Contained(m, start),
           NEW B, B = BaseOf(m, start), NEW M, M = AddFresh(m, start)
    PROVE  FreshLeaves(m, start, B, M)
<1> DEFINE C == NewHeads(m, start)
<1> DEFINE HeadOf(i) == CHOOSE h \in C : i \in Range(RunFrom(m, h))
<1> DEFINE covered == UNION {Range(RunFrom(m, h)) : h \in C}
<1> DEFINE Linked(i) == \E h \in C : After(m, h) = i
<1>1. /\ M.body = [i \in Insn |-> IF i \in C THEN RunFrom(m, i) ELSE B.body[i]]
      /\ M.where = [i \in Insn |-> IF i \in covered THEN HeadOf(i) ELSE B.where[i]]
      /\ M.ft = [i \in Insn |-> IF i \in C THEN After(m, i) ELSE B.ft[i]]
      /\ M.fb = [i \in Insn |-> IF Linked(i) THEN CHOOSE h \in C : After(m, h) = i
                                ELSE B.fb[i]]
      /\ M.size = [i \in Insn |-> IF i \in C
                      THEN CalculateSize(RunFrom(m, i), After(m, i)) ELSE B.size[i]]
  BY DEF AddFresh, BaseOf
<1>2. Bodies(B)
  BY BaseIsOK DEF BaseOK, Sound
<1>3. C \subseteq Insn
  BY ChainIsApart DEF ChainApart
<1>4. \A g, h \in C : \A j \in 1 .. Len(RunFrom(m, g)) : \A l \in 1 .. Len(RunFrom(m, h)) :
          RunFrom(m, g)[j] = RunFrom(m, h)[l] => g = h
  BY ChainIsApart DEF ChainApart
<1>5. PICK r : Descends(prog.fallthrough, r)
  BY FallRank
<1>6. \A h \in C : /\ RunFrom(m, h) \in Seq(Insn) /\ Len(RunFrom(m, h)) > 0
                   /\ After(m, h) \in InsnOrNone
  BY <1>3, <1>5, RunFacts
<1> HIDE DEF C
<1>7. \A h \in C : \A x : x \in Range(RunFrom(m, h)) <=>
          \E k \in 1 .. Len(RunFrom(m, h)) : RunFrom(m, h)[k] = x
  BY <1>6 DEF Range
<1>8. \A x : x \in covered <=> \E h \in C : x \in Range(RunFrom(m, h))
  OBVIOUS
<1> HIDE DEF covered
<1>9. ASSUME NEW h \in C, NEW x \in Range(RunFrom(m, h)) PROVE HeadOf(x) = h
  <2>1. PICK k \in 1 .. Len(RunFrom(m, h)) : RunFrom(m, h)[k] = x
    BY <1>7
  <2>2. ASSUME NEW g \in C, x \in Range(RunFrom(m, g)) PROVE g = h
    <3>1. PICK j \in 1 .. Len(RunFrom(m, g)) : RunFrom(m, g)[j] = x
      BY <1>7, <2>2
    <3> QED BY <1>4, <2>1, <3>1
  <2> QED BY <2>2
<1>10. ASSUME NEW x \in covered PROVE HeadOf(x) \in C
  BY <1>8
<1> HIDE DEF HeadOf
<1>11. \A h \in C : M.body[h] = RunFrom(m, h)
  BY <1>1, <1>3
<1>12. \A h \in C : M.ft[h] = After(m, h)
  BY <1>1, <1>3
<1>13. \A h \in C : M.size[h] = CalculateSize(RunFrom(m, h), After(m, h))
  BY <1>1, <1>3
<1>14. \A h \in Insn \ C : M.body[h] = B.body[h] /\ M.ft[h] = B.ft[h] /\ M.size[h] = B.size[h]
  BY <1>1
<1>15. ASSUME NEW h \in C, NEW k \in 1 .. Len(RunFrom(m, h))
       PROVE  M.where[RunFrom(m, h)[k]] = h
  <2>1. PICK x : x = RunFrom(m, h)[k]
    OBVIOUS
  <2>2. x \in Range(RunFrom(m, h)) /\ x \in Insn
    BY <1>6, <1>7, <2>1
  <2>3. x \in covered
    BY <1>8, <2>2
  <2>4. M.where[x] = HeadOf(x)
    BY <1>1, <2>2, <2>3
  <2> QED BY <1>9, <2>1, <2>2, <2>4
<1>16. ASSUME NEW x \in Insn
       PROVE  \/ M.where[x] = B.where[x]
              \/ \E h \in C : \E k \in 1 .. Len(RunFrom(m, h)) : RunFrom(m, h)[k] = x
  <2>1. CASE x \in covered
    BY <1>7, <1>8, <2>1
  <2>2. CASE x \notin covered
    BY <1>1, <2>2
  <2> QED BY <2>1, <2>2
<1>17. ASSUME NEW x \in Insn
       PROVE  \/ M.fb[x] = B.fb[x] /\ \A h \in C : After(m, h) # x
              \/ M.fb[x] \in C /\ After(m, M.fb[x]) = x
  <2>1. M.fb[x] = IF Linked(x) THEN CHOOSE h \in C : After(m, h) = x ELSE B.fb[x]
    BY <1>1
  <2>2. CASE Linked(x)
    <3>1. PICK g : g = CHOOSE h \in C : After(m, h) = x
      OBVIOUS
    <3>2. g \in C /\ After(m, g) = x
      BY <2>2, <3>1
    <3> QED BY <2>1, <2>2, <3>1, <3>2
  <2>3. CASE ~ Linked(x)
    BY <2>1, <2>3
  <2> QED BY <2>2, <2>3
<1>18. Bodies(M)
  <2>1. M.body \in [Insn -> Seq(Insn)]
    <3>1. \A i \in Insn : B.body[i] \in Seq(Insn)
      BY <1>2 DEF Bodies
    <3> QED BY <1>1, <1>6, <3>1
  <2>2. M.where \in [Insn -> InsnOrNone]
    <3>1. \A i \in Insn : B.where[i] \in InsnOrNone
      BY <1>2 DEF Bodies
    <3>2. \A i \in covered : HeadOf(i) \in InsnOrNone
      BY <1>3, <1>10 DEF InsnOrNone
    <3> QED BY <1>1, <3>1, <3>2
  <2>3. M.ft \in [Insn -> InsnOrNone]
    <3>1. \A i \in Insn : B.ft[i] \in InsnOrNone
      BY <1>2 DEF Bodies
    <3> QED BY <1>1, <1>6, <3>1
  <2>4. M.fb \in [Insn -> InsnOrNone]
    <3>1. \A i \in Insn : B.fb[i] \in InsnOrNone
      BY <1>2 DEF Bodies
    <3>2. \A i \in Insn : M.fb[i] \in InsnOrNone
      BY <1>3, <1>17, <3>1 DEF InsnOrNone
    <3> QED BY <1>1, <3>2
  <2>5. M.size \in [Insn -> Nat]
    <3>1. \A i \in Insn : B.size[i] \in Nat
      BY <1>2 DEF Bodies
    <3>2. \A i \in C : CalculateSize(RunFrom(m, i), After(m, i)) \in Nat
      BY <1>6, SizeIs
    <3> QED BY <1>1, <3>1, <3>2
  <2> QED BY <2>1, <2>2, <2>3, <2>4, <2>5 DEF Bodies
<1> QED BY <1>11, <1>12, <1>13, <1>14, <1>15, <1>16, <1>17, <1>18 DEF FreshLeaves, C

(* What AddNewDollops promises of the tables it is given and returns.      *)
Added(m, i, M) ==
    /\ Sound(M) /\ M.where[i] = i
    /\ \A x \in Insn : m.where[x] = x => M.where[x] = x
    /\ \A x \in Insn : m.where[x] # None => M.where[x] # None
    /\ \A S : /\ i \in S
              /\ \A j \in S \cap Insn : Fallthrough(j) # None => Fallthrough(j) \in S
              => \A x \in Insn : M.where[x] # None => m.where[x] # None \/ x \in S

LEMMA AddFreshSound ==
    ASSUME NEW m, Sound(m), ProgramOK, NEW start \in Insn, ~ Contained(m, start)
    PROVE  Added(m, start, AddFresh(m, start))
<1> DEFINE C == NewHeads(m, start)
<1>1. PICK B : B = BaseOf(m, start)
  OBVIOUS
<1>2. PICK M : M = AddFresh(m, start)
  OBVIOUS
<1>3. FreshLeaves(m, start, B, M)
  BY <1>1, <1>2, FreshIs
<1>4. /\ \A h \in C : /\ M.body[h] = RunFrom(m, h) /\ M.ft[h] = After(m, h)
                      /\ M.size[h] = CalculateSize(RunFrom(m, h), After(m, h))
      /\ \A h \in Insn \ C : M.body[h] = B.body[h] /\ M.ft[h] = B.ft[h] /\ M.size[h] = B.size[h]
  BY <1>3 DEF FreshLeaves
<1>5. /\ \A h \in C : \A k \in 1 .. Len(RunFrom(m, h)) : M.where[RunFrom(m, h)[k]] = h
      /\ \A x \in Insn :
            \/ M.where[x] = B.where[x]
            \/ \E h \in C : \E k \in 1 .. Len(RunFrom(m, h)) : RunFrom(m, h)[k] = x
  BY <1>3 DEF FreshLeaves
<1>6. \A x \in Insn : \/ M.fb[x] = B.fb[x] /\ \A h \in C : After(m, h) # x
                      \/ M.fb[x] \in C /\ After(m, M.fb[x]) = x
  BY <1>3 DEF FreshLeaves
<1>7. Bodies(M)
  BY <1>3 DEF FreshLeaves
<1>8. ChainApart(m, start)
  BY ChainIsApart
<1>9. Sound(B) /\ HeadsKept(m, B) /\ \A x \in Meets(m, start) : B.where[x] = x
  BY <1>1, BaseIsOK DEF BaseOK
<1>10. PICK r : Descends(prog.fallthrough, r)
  BY FallRank
<1>11. C \subseteq Insn /\ start \in C /\ \A h \in C : ~ Contained(m, h)
  BY <1>8 DEF ChainApart
<1>12. ASSUME NEW h \in C
       PROVE  /\ RunFrom(m, h) \in Seq(Insn) /\ Len(RunFrom(m, h)) \in Nat
              /\ Len(RunFrom(m, h)) > 0 /\ RunFrom(m, h)[1] = h
              /\ \A k \in 1 .. Len(RunFrom(m, h)) - 1 :
                    RunFrom(m, h)[k + 1] = Fallthrough(RunFrom(m, h)[k])
              /\ After(m, h) = Fallthrough(RunFrom(m, h)[Len(RunFrom(m, h))])
              /\ After(m, h) \in InsnOrNone
  <2>1. h \in Insn
    BY <1>11
  <2>2. \A k \in 1 .. Len(RunFrom(m, h)) - 1 :
            /\ RunFrom(m, h)[k + 1] = Fallthrough(RunFrom(m, h)[k])
            /\ ~ Stops(m, RunFrom(m, h)[k + 1])
    <3> HIDE DEF C
    <3> QED BY <1>10, <2>1, RunFacts
  <2>3. /\ RunFrom(m, h) \in Seq(Insn) /\ Len(RunFrom(m, h)) \in Nat
        /\ Len(RunFrom(m, h)) > 0 /\ RunFrom(m, h)[1] = h
        /\ After(m, h) = Fallthrough(RunFrom(m, h)[Len(RunFrom(m, h))])
        /\ After(m, h) \in InsnOrNone
    BY <1>10, <2>1, RunFacts
  <2> QED BY <2>2, <2>3
<1>13. \A g, h \in C :
          \A j \in 1 .. Len(RunFrom(m, g)) : \A l \in 1 .. Len(RunFrom(m, h)) :
             RunFrom(m, g)[j] = RunFrom(m, h)[l] => g = h /\ j = l
  BY <1>8 DEF ChainApart
<1>14. \A h \in C : \A k \in 1 .. Len(RunFrom(m, h)) :
          /\ RunFrom(m, h)[k] \in Insn /\ ~ Contained(m, RunFrom(m, h)[k])
          /\ k # 1 => RunFrom(m, h)[k] \notin prog.ibta
  BY <1>8 DEF ChainApart
<1>15. /\ \A h \in Insn : Len(B.body[h]) \in Nat /\ B.body[h] \in Seq(Insn)
       /\ \A h \in Insn : \A k \in 1 .. Len(B.body[h]) : B.body[h][k] \in Insn
       /\ \A h \in Insn : Len(B.body[h]) > 0 <=> B.where[h] = h
       /\ \A h \in Insn : B.where[h] # None =>
             B.where[h] \in Insn /\ Len(B.body[B.where[h]]) > 0
       /\ \A h \in Insn : Len(B.body[h]) = 0 => B.ft[h] = None /\ B.fb[h] = None
  BY <1>9, SoundFacts
<1>16. \A x \in Insn : B.where[x] = None <=> ~ Contained(m, x)
  BY <1>9 DEF HeadsKept, Contained
<1>17. \A h \in C : B.where[h] = None /\ Len(B.body[h]) = 0
  BY <1>11, <1>15, <1>16, NoneAssumption
(* Where the map is left as it was, and where it is new.                   *)
<1>18. ASSUME NEW x \in Insn, B.where[x] # None PROVE M.where[x] = B.where[x] /\ B.where[x] \notin C
  <2>1. M.where[x] = B.where[x]
    BY <1>5, <1>14, <1>16, <1>18
  <2>2. ASSUME B.where[x] \in C PROVE FALSE
    BY <1>15, <1>17, <1>18, <2>2
  <2> QED BY <2>1, <2>2
<1>19. ASSUME NEW h \in C PROVE M.where[h] = h
  <2>1. 1 \in 1 .. Len(RunFrom(m, h)) /\ RunFrom(m, h)[1] = h
    BY <1>12
  <2> QED BY <1>5, <2>1
<1> HIDE DEF C
<1>20. MapAgrees(M)
  <2>1. ASSUME NEW h \in Insn, Len(M.body[h]) > 0 PROVE M.body[h][1] = h
    <3>1. CASE h \in C
      BY <1>4, <1>12, <3>1
    <3>2. CASE h \notin C
      <4>1. M.body[h] = B.body[h]
        BY <1>4, <3>2
      <4> QED BY <1>9, <2>1, <4>1 DEF Sound, MapAgrees
    <3> QED BY <3>1, <3>2
  <2>2. ASSUME NEW h \in Insn, NEW k \in 1 .. Len(M.body[h]) PROVE M.where[M.body[h][k]] = h
    <3>1. CASE h \in C
      <4>1. M.body[h] = RunFrom(m, h)
        BY <1>4, <3>1
      <4> QED BY <1>5, <3>1, <4>1
    <3>2. CASE h \notin C
      <4>1. M.body[h] = B.body[h] /\ k \in 1 .. Len(B.body[h])
        BY <1>4, <3>2
      <4>2. B.body[h][k] \in Insn
        BY <1>15, <4>1
      <4>3. B.where[B.body[h][k]] = h
        BY <1>9, <4>1 DEF Sound, MapAgrees
      <4> QED BY <1>18, <4>1, <4>2, <4>3, NoneAssumption
    <3> QED BY <3>1, <3>2
  <2>3. ASSUME NEW x \in Insn, M.where[x] # None
        PROVE  \E k \in 1 .. Len(M.body[M.where[x]]) : M.body[M.where[x]][k] = x
    <3>1. ASSUME NEW h \in C, NEW k \in 1 .. Len(RunFrom(m, h)), RunFrom(m, h)[k] = x
          PROVE  \E l \in 1 .. Len(M.body[M.where[x]]) : M.body[M.where[x]][l] = x
      <4>1. M.where[x] = h /\ M.body[h] = RunFrom(m, h)
        BY <1>4, <1>5, <3>1
      <4> QED BY <3>1, <4>1
    <3>2. CASE M.where[x] = B.where[x]
      <4>1. B.where[x] # None
        BY <2>3, <3>2
      <4>2. B.where[x] \in Insn \ C
        BY <1>15, <1>18, <4>1
      <4>3. M.body[B.where[x]] = B.body[B.where[x]]
        BY <1>4, <4>2
      <4>4. \E k \in 1 .. Len(B.body[B.where[x]]) : B.body[B.where[x]][k] = x
        BY <1>9, <4>1 DEF Sound, MapAgrees
      <4> QED BY <3>2, <4>3, <4>4
    <3> QED BY <1>5, <3>1, <3>2
  <2>4. ASSUME NEW h \in Insn, NEW k \in 1 .. Len(M.body[h]), NEW l \in 1 .. Len(M.body[h]),
               M.body[h][k] = M.body[h][l]
        PROVE  k = l
    <3>1. CASE h \in C
      <4>1. M.body[h] = RunFrom(m, h)
        BY <1>4, <3>1
      <4> QED BY <1>13, <2>4, <3>1, <4>1
    <3>2. CASE h \notin C
      <4>1. M.body[h] = B.body[h]
        BY <1>4, <3>2
      <4>2. /\ k \in 1 .. Len(B.body[h]) /\ l \in 1 .. Len(B.body[h])
            /\ B.body[h][k] = B.body[h][l]
        BY <2>4, <4>1
      <4> QED BY <1>9, <4>2 DEF Sound, MapAgrees
    <3> QED BY <3>1, <3>2
  <2> QED BY <2>1, <2>2, <2>3, <2>4 DEF MapAgrees
<1>21. Follows(M)
  <2>1. ASSUME NEW h \in Insn, NEW k \in 1 .. Len(M.body[h]) - 1
        PROVE  M.body[h][k + 1] = Fallthrough(M.body[h][k])
    <3>1. CASE h \in C
      <4>1. M.body[h] = RunFrom(m, h)
        BY <1>4, <3>1
      <4> QED BY <1>12, <3>1, <4>1
    <3>2. CASE h \notin C
      <4>1. M.body[h] = B.body[h]
        BY <1>4, <3>2
      <4> QED BY <1>9, <4>1 DEF Sound, Follows
    <3> QED BY <3>1, <3>2
  <2>2. ASSUME NEW h \in Insn, Len(M.body[h]) > 0
        PROVE  M.ft[h] = Fallthrough(M.body[h][Len(M.body[h])])
    <3>1. CASE h \in C
      <4>1. M.body[h] = RunFrom(m, h) /\ M.ft[h] = After(m, h)
        BY <1>4, <3>1
      <4> QED BY <1>12, <3>1, <4>1
    <3>2. CASE h \notin C
      <4>1. M.body[h] = B.body[h] /\ M.ft[h] = B.ft[h]
        BY <1>4, <3>2
      <4> QED BY <1>9, <2>2, <4>1 DEF Sound, Follows
    <3> QED BY <3>1, <3>2
  <2> QED BY <2>1, <2>2 DEF Follows
<1>22. Fronts(M)
  <2> SUFFICES ASSUME NEW i \in prog.ibta, M.where[i] # None PROVE M.where[i] = i
    BY DEF Fronts
  <2>1. i \in Insn
    BY DEF ProgramOK, Typed
  <2>2. CASE M.where[i] = B.where[i]
    BY <1>9, <2>2 DEF Sound, Fronts
  <2>3. ASSUME NEW h \in C, NEW k \in 1 .. Len(RunFrom(m, h)), RunFrom(m, h)[k] = i
        PROVE  M.where[i] = i
    <3>1. k = 1 /\ RunFrom(m, h)[1] = h
      BY <1>12, <1>14, <2>3
    <3> QED BY <1>19, <2>3, <3>1
  <2> QED BY <1>5, <2>1, <2>2, <2>3
<1>23. \A h \in C : \/ After(m, h) = None \/ After(m, h) \in C
                    \/ After(m, h) \in Meets(m, start)
  BY <1>8 DEF ChainApart, C
<1>24. \A g, h \in C : After(m, g) = After(m, h) /\ After(m, g) # None => g = h
  BY <1>8 DEF ChainApart, C
<1>25. \A x \in Meets(m, start) : x \in Insn /\ Len(B.body[x]) > 0 /\ x \notin C
  <2>1. \A x \in Meets(m, start) : x \in Insn /\ B.where[x] = x
    BY <1>8, <1>9 DEF ChainApart
  <2> QED BY <1>15, <1>17, <2>1
<1>26. /\ \A h \in C : Len(M.body[h]) > 0
       /\ \A h \in Insn : Len(B.body[h]) > 0 => h \notin C /\ Len(M.body[h]) > 0
  <2>1. \A h \in C : Len(M.body[h]) > 0
    BY <1>4, <1>12
  <2> QED BY <1>4, <1>17, <2>1
<1>27. \A u, v \in Insn : /\ B.ft[u] = v <=> B.fb[v] = u
                          /\ B.ft[u] = v => Len(B.body[u]) > 0 /\ Len(B.body[v]) > 0
  BY <1>9 DEF Sound, Links
(* No dollop that was there already goes on where a new one goes on to.    *)
<1>28. ASSUME NEW g \in Insn, NEW h \in C, NEW x \in Insn, B.ft[g] = x, After(m, h) = x
       PROVE  FALSE
  <2>1. Len(B.body[g]) > 0 /\ Len(B.body[g]) \in Nat
    BY <1>15, <1>27, <1>28
  <2>2. PICK u : u = B.body[g][Len(B.body[g])]
    OBVIOUS
  <2>3. Len(B.body[g]) \in 1 .. Len(B.body[g])
    BY <2>1
  <2>4. u \in Insn /\ B.where[u] = g /\ Fallthrough(u) = x
    <3>1. u \in Insn
      BY <1>15, <2>2, <2>3
    <3>2. B.where[u] = g
      BY <1>9, <2>2, <2>3 DEF Sound, MapAgrees
    <3>3. B.ft[g] = Fallthrough(u)
      BY <1>9, <2>1, <2>2 DEF Sound, Follows
    <3> QED BY <1>28, <3>1, <3>2, <3>3
  <2>5. PICK v : v = RunFrom(m, h)[Len(RunFrom(m, h))]
    OBVIOUS
  <2>6. Len(RunFrom(m, h)) \in 1 .. Len(RunFrom(m, h))
    BY <1>12
  <2>7. v \in Insn /\ ~ Contained(m, v) /\ Fallthrough(v) = x
    BY <1>12, <1>14, <1>28, <2>5, <2>6
  <2>8. u = v
    <3>1. prog.fallthrough[u] = prog.fallthrough[v] /\ prog.fallthrough[u] # None
      BY <2>4, <2>7, NoneAssumption DEF Fallthrough
    <3> QED BY <2>4, <2>7, <3>1 DEF ProgramOK, OneFallsInto
  <2> QED BY <1>16, <2>4, <2>7, <2>8, NoneAssumption
<1>29. Links(M)
  <2> SUFFICES ASSUME NEW g \in Insn, NEW x \in Insn
               PROVE  /\ M.ft[g] = x <=> M.fb[x] = g
                      /\ M.ft[g] = x => Len(M.body[g]) > 0 /\ Len(M.body[x]) > 0
    BY DEF Links
  <2>1. CASE g \in C
    <3>1. M.ft[g] = After(m, g)
      BY <1>4, <2>1
    <3>2. ASSUME After(m, g) = x PROVE M.fb[x] = g
      <4>1. M.fb[x] \in C /\ After(m, M.fb[x]) = x
        BY <1>6, <2>1, <3>2
      <4> QED BY <1>24, <2>1, <3>2, <4>1, NoneAssumption
    <3>3. ASSUME M.fb[x] = g PROVE After(m, g) = x
      <4>1. CASE M.fb[x] = B.fb[x]
        <5>1. B.ft[g] = x
          BY <1>27, <3>3, <4>1
        <5> QED BY <1>17, <1>27, <2>1, <5>1
      <4> QED BY <1>6, <3>3, <4>1
    <3>4. ASSUME After(m, g) = x PROVE Len(M.body[x]) > 0
      BY <1>23, <1>25, <1>26, <2>1, <3>4, NoneAssumption
    <3> QED BY <1>26, <2>1, <3>1, <3>2, <3>3, <3>4
  <2>2. CASE g \notin C
    <3>1. M.ft[g] = B.ft[g]
      BY <1>4, <2>2
    <3>2. ASSUME B.ft[g] = x PROVE M.fb[x] = g
      <4>1. M.fb[x] = B.fb[x]
        BY <1>6, <1>28, <3>2
      <4> QED BY <1>27, <3>2, <4>1
    <3>3. ASSUME M.fb[x] = g PROVE B.ft[g] = x
      <4>1. M.fb[x] = B.fb[x]
        BY <1>6, <2>2, <3>3
      <4> QED BY <1>27, <3>3, <4>1
    <3>4. ASSUME B.ft[g] = x PROVE Len(M.body[g]) > 0 /\ Len(M.body[x]) > 0
      BY <1>26, <1>27, <3>4
    <3> QED BY <3>1, <3>2, <3>3, <3>4
  <2> QED BY <2>1, <2>2
<1>30. Sizes(M)
  <2> SUFFICES ASSUME NEW h \in Insn, Len(M.body[h]) > 0
               PROVE  M.size[h] = CalculateSize(M.body[h], M.ft[h])
    BY DEF Sizes
  <2>1. CASE h \in C
    BY <1>4, <2>1
  <2>2. CASE h \notin C
    <3>1. M.body[h] = B.body[h] /\ M.ft[h] = B.ft[h] /\ M.size[h] = B.size[h]
      BY <1>4, <2>2
    <3>2. B.size[h] = CalculateSize(B.body[h], B.ft[h])
      BY <1>9, <3>1 DEF Sound, Sizes
    <3> QED BY <3>1, <3>2
  <2> QED BY <2>1, <2>2
<1>31. \A x \in Insn : m.where[x] = x => M.where[x] = x
  <2>1. \A x \in Insn : m.where[x] = x => B.where[x] = x
    BY <1>9 DEF HeadsKept
  <2> QED BY <1>18, <2>1, NoneAssumption
<1>32. \A x \in Insn : m.where[x] # None => M.where[x] # None
  BY <1>16, <1>18 DEF Contained
<1>33. ASSUME NEW S, start \in S,
              \A j \in S \cap Insn : Fallthrough(j) # None => Fallthrough(j) \in S,
              NEW x \in Insn, M.where[x] # None
       PROVE  m.where[x] # None \/ x \in S
  <2>1. CASE M.where[x] = B.where[x]
    BY <1>16, <1>33, <2>1 DEF Contained
  <2>2. ASSUME NEW h \in C, NEW k \in 1 .. Len(RunFrom(m, h)), RunFrom(m, h)[k] = x
        PROVE  x \in S
    <3>1. h \in S /\ h \in Insn
      BY <1>11, <1>33, ChainStays DEF C
    <3> QED BY <1>33, <2>2, <3>1, RunStays
  <2> QED BY <1>5, <2>1, <2>2
<1>34. start \in C
  BY <1>11
<1>35. Sound(M)
  BY <1>7, <1>20, <1>21, <1>22, <1>29, <1>30 DEF Sound
<1> QED BY <1>2, <1>19, <1>31, <1>32, <1>33, <1>34, <1>35 DEF Added

LEMMA AddNewDollopsSound ==
    ASSUME NEW m, Sound(m), ProgramOK, NEW i \in Insn
    PROVE  Added(m, i, AddNewDollops(m, i))
<1>1. CASE Contained(m, i)
  <2>1. AddNewDollops(m, i) = EnsureHead(m, i)
    BY <1>1 DEF AddNewDollops
  <2>2. /\ Sound(EnsureHead(m, i)) /\ EnsureHead(m, i).where[i] = i
        /\ HeadsKept(m, EnsureHead(m, i))
    BY <1>1, EnsureHeadSound
  <2> QED BY <2>1, <2>2 DEF Added, HeadsKept
<1>2. CASE ~ Contained(m, i)
  BY <1>2, AddFreshSound DEF AddNewDollops
<1> QED BY <1>1, <1>2

-----------------------------------------------------------------------------
(* The inductive invariant: the tables are sound; the targets recorded     *)
(* are heads; in a pass that has changed nothing so far, an instruction    *)
(* whose target is not up to date is one the pass has yet to come to; and  *)
(* what is in dollops or about to be can be reached, from pins and         *)
(* relocations that are in dollops or about to be.                         *)

StateTyped ==
    /\ prog \in Programs
    /\ target \in [Insn -> InsnOrNone]
    /\ phase \in {"pins", "relocs", "targets", "place"}
    /\ todo \in SUBSET Insn /\ entries \in Seq(Insn) /\ changed \in BOOLEAN

Recorded == \A i \in Insn : target[i] # None =>
                target[i] = prog.target[i] /\ dollops.where[target[i]] = target[i]

UpToDate(i) == target[i] = prog.target[i]

PassWorks ==
    /\ phase = "targets" /\ ~ changed =>
          \A i \in Insn : dollops.where[i] # None =>
              \/ UpToDate(i)
              \/ \E k \in 1 .. Len(entries) : entries[k] = i
              \/ dollops.where[i] \in todo
    /\ phase = "place" => \A i \in Insn : dollops.where[i] # None => UpToDate(i)

RootsTaken ==
    /\ \A i \in prog.pins : dollops.where[i] # None \/ (phase = "pins" /\ i \in todo)
    /\ \A i \in prog.relocs : \/ dollops.where[i] # None \/ phase = "pins"
                              \/ phase = "relocs" /\ i \in todo

OnlyReachable ==
    /\ \A k \in 1 .. Len(entries) : dollops.where[entries[k]] # None
    /\ phase = "pins" => todo \subseteq prog.pins
    /\ phase = "relocs" => todo \subseteq prog.relocs
    /\ \A S \in Reaching : \A i \in Insn : dollops.where[i] # None => i \in S

IInv == /\ StateTyped /\ Sound(dollops) /\ Recorded
        /\ PassWorks /\ RootsTaken /\ OnlyReachable

LEMMA ProgramIsOK ==
    ASSUME StateTyped
    PROVE  ProgramOK
BY ProgramsAssumption DEF ProgramsAssumption, StateTyped, ProgramOK

(* A set that reaches holds where control goes on to.                      *)
LEMMA ReachingIsClosed ==
    ASSUME NEW S \in Reaching
    PROVE  /\ prog.pins \subseteq S /\ prog.relocs \subseteq S
           /\ \A j \in S \cap Insn : Fallthrough(j) # None => Fallthrough(j) \in S
           /\ \A j \in S : prog.target[j] # None => prog.target[j] \in S
<1>1. /\ prog.pins \cup prog.relocs \subseteq S
      /\ \A i \in S : {Fallthrough(i), prog.target[i]} \subseteq S \cup {None}
  BY DEF Reaching
<1> QED BY <1>1

LEMMA SoundStays ==
    ASSUME NEW M, Sound(M), dollops' = M, prog' = prog
    PROVE  Sound(dollops)'
<1>1. (\A h : Fallthrough(h)' = Fallthrough(h))
  BY DEF Fallthrough
<1>2. Bodies(dollops)' /\ MapAgrees(dollops)'
  BY DEF Sound, Bodies, MapAgrees
<1>3. Follows(dollops)'
  BY DEF Sound, Follows, Fallthrough
<1>4. Fronts(dollops)' /\ Links(dollops)'
  BY DEF Sound, Fronts, Links
<1>5. Sizes(dollops)'
  BY DEF Sound, Sizes, CalculateSize, Fallthrough
<1> QED BY <1>2, <1>3, <1>4, <1>5 DEF Sound

(* What a step that adds dollops at i leaves for the invariant.            *)
LEMMA AddStep ==
    ASSUME IInv, NEW i \in Insn, \A S \in Reaching : i \in S,
           dollops' = AddNewDollops(dollops, i), prog' = prog
    PROVE  /\ Sound(dollops)' /\ dollops'.where[i] = i
           /\ \A x \in Insn : dollops.where[x] = x => dollops'.where[x] = x
           /\ \A x \in Insn : dollops.where[x] # None => dollops'.where[x] # None
           /\ \A S \in Reaching : \A x \in Insn : dollops'.where[x] # None => x \in S
<1>1. ProgramOK /\ Sound(dollops)
  BY ProgramIsOK DEF IInv
<1>2. PICK M : M = AddNewDollops(dollops, i)
  OBVIOUS
<1>3. Added(dollops, i, AddNewDollops(dollops, i))
  BY <1>1, AddNewDollopsSound
<1>4. Added(dollops, i, M)
  BY <1>2, <1>3
<1>5. dollops' = M
  BY <1>2
<1>6. Sound(dollops)'
  BY <1>4, <1>5, SoundStays DEF Added
<1>7. ASSUME NEW S \in Reaching, NEW x \in Insn, M.where[x] # None PROVE x \in S
  <2>1. i \in S /\ \A j \in S \cap Insn : Fallthrough(j) # None => Fallthrough(j) \in S
    BY ReachingIsClosed
  <2>2. dollops.where[x] # None \/ x \in S
    BY <1>4, <1>7, <2>1 DEF Added
  <2> QED BY <2>2 DEF IInv, OnlyReachable
<1> QED BY <1>4, <1>5, <1>6, <1>7 DEF Added

LEMMA HeadsOfSound ==
    ASSUME Sound(dollops)
    PROVE  \A h \in Insn : h \in Heads(dollops) <=> dollops.where[h] = h
<1>1. \A h \in Insn : dollops.body[h] \in Seq(Insn) /\ Len(dollops.body[h]) \in Nat
  BY SoundFacts
<1>2. \A h \in Insn : dollops.body[h] # <<>> <=> Len(dollops.body[h]) > 0
  BY <1>1
<1>3. \A h \in Insn : Len(dollops.body[h]) > 0 <=> dollops.where[h] = h
  BY SoundFacts
<1> QED BY <1>2, <1>3 DEF Heads

LEMMA InitOK == Init => IInv
<1> SUFFICES ASSUME Init PROVE IInv
  OBVIOUS
<1>1. StateTyped
  <2>1. prog \in Programs
    BY DEF Init
  <2>2. Typed(prog)
    BY <2>1, ProgramsAssumption DEF ProgramsAssumption
  <2>3. todo \in SUBSET Insn
    BY <2>2 DEF Init, Typed
  <2>4. target \in [Insn -> InsnOrNone]
    BY DEF Init, InsnOrNone
  <2>5. entries \in Seq(Insn)
    BY DEF Init
  <2>6. phase \in {"pins", "relocs", "targets", "place"} /\ changed \in BOOLEAN
    BY DEF Init
  <2> QED BY <2>1, <2>3, <2>4, <2>5, <2>6 DEF StateTyped
<1>2. /\ dollops.body = [i \in Insn |-> <<>>] /\ dollops.where = [i \in Insn |-> None]
      /\ dollops.ft = [i \in Insn |-> None] /\ dollops.fb = [i \in Insn |-> None]
      /\ dollops.size = [i \in Insn |-> 0]
  BY DEF Init, NoDollops
<1>3. \A i \in Insn : /\ dollops.body[i] = <<>> /\ Len(dollops.body[i]) = 0
                      /\ dollops.where[i] = None
                      /\ dollops.ft[i] = None /\ dollops.fb[i] = None
  BY <1>2
<1>4. Bodies(dollops)
  <2>1. dollops.body \in [Insn -> Seq(Insn)]
    BY <1>2
  <2> QED BY <1>2, <2>1 DEF Bodies, InsnOrNone
<1>5. MapAgrees(dollops)
  BY <1>3 DEF MapAgrees
<1>6. Follows(dollops) /\ Sizes(dollops)
  BY <1>3 DEF Follows, Sizes
<1>7. Fronts(dollops) /\ Links(dollops)
  <2>1. prog.ibta \subseteq Insn
    BY <1>1, ProgramIsOK DEF ProgramOK, Typed
  <2> QED BY <1>3, <2>1, NoneAssumption DEF Fronts, Links
<1>8. Recorded
  BY DEF Init, Recorded
<1>9. PassWorks
  BY <1>3 DEF Init, PassWorks
<1>10. RootsTaken
  BY DEF Init, RootsTaken
<1>11. OnlyReachable
  <2>1. Len(entries) = 0
    BY DEF Init
  <2> QED BY <1>3, <2>1 DEF Init, OnlyReachable
<1> QED BY <1>1, <1>4, <1>5, <1>6, <1>7, <1>8, <1>9, <1>10, <1>11 DEF IInv, Sound

(* The step of the loops over pins and relocations.                        *)
LEMMA CreateStep ==
    ASSUME IInv, CreateForPin \/ CreateForReloc
    PROVE  IInv'
<1>1. PICK i \in todo : /\ dollops' = AddNewDollops(dollops, i)
                        /\ todo' = todo \ {i}
  BY DEF CreateForPin, CreateForReloc
<1>2. UNCHANGED <<prog, target, phase, entries, changed>> /\ phase \in {"pins", "relocs"}
  BY DEF CreateForPin, CreateForReloc
<1>3. i \in Insn
  BY DEF IInv, StateTyped
<1>4. i \in prog.pins \/ i \in prog.relocs
  BY <1>2 DEF IInv, OnlyReachable
<1>5. \A S \in Reaching : i \in S
  BY <1>4, ReachingIsClosed
<1>6. /\ Sound(dollops)' /\ dollops'.where[i] = i
      /\ \A x \in Insn : dollops.where[x] = x => dollops'.where[x] = x
      /\ \A x \in Insn : dollops.where[x] # None => dollops'.where[x] # None
      /\ \A S \in Reaching : \A x \in Insn : dollops'.where[x] # None => x \in S
  BY <1>1, <1>2, <1>3, <1>5, AddStep
<1>7. ProgramOK
  BY ProgramIsOK DEF IInv
<1>8. StateTyped'
  BY <1>1, <1>2 DEF IInv, StateTyped
<1>9. Recorded'
  <2>1. \A x \in Insn : target[x] # None => target[x] \in Insn
    BY DEF IInv, StateTyped, InsnOrNone
  <2> QED BY <1>2, <1>6, <2>1 DEF IInv, Recorded
<1>10. PassWorks'
  BY <1>2 DEF PassWorks
<1>11. RootsTaken'
  <2>1. prog.pins \subseteq Insn /\ prog.relocs \subseteq Insn
    BY <1>7 DEF ProgramOK, Typed
  <2> QED BY <1>1, <1>2, <1>3, <1>6, <2>1, NoneAssumption DEF IInv, RootsTaken
<1>12. OnlyReachable'
  <2>1. Reaching' = Reaching
    BY <1>2 DEF Reaching, Fallthrough
  <2>2. \A k \in 1 .. Len(entries) : entries[k] \in Insn
    BY DEF IInv, StateTyped
  <2>3. \A k \in 1 .. Len(entries) : dollops'.where[entries[k]] # None
    BY <1>6, <2>2 DEF IInv, OnlyReachable
  <2>4. \A S \in Reaching' : \A x \in Insn : dollops'.where[x] # None => x \in S
    BY <1>6, <2>1
  <2>5. /\ phase' = "pins" => todo' \subseteq prog'.pins
        /\ phase' = "relocs" => todo' \subseteq prog'.relocs
    BY <1>1, <1>2 DEF IInv, OnlyReachable
  <2> QED BY <1>2, <2>3, <2>4, <2>5 DEF OnlyReachable
<1> QED BY <1>6, <1>8, <1>9, <1>10, <1>11, <1>12 DEF IInv

(* The steps that leave the tables alone.                                  *)
LEMMA QuietStep ==
    ASSUME UNCHANGED <<prog, dollops, target>>, IInv
    PROVE  /\ Sound(dollops)' /\ Recorded'
           /\ Reaching' = Reaching /\ \A S \in Reaching : \A i \in Insn :
                                         dollops'.where[i] # None => i \in S
<1>1. PICK M : M = dollops
  OBVIOUS
<1>2. Sound(M)
  BY <1>1 DEF IInv
<1>3. Sound(dollops)'
  BY <1>1, <1>2, SoundStays
<1>4. Recorded'
  BY DEF IInv, Recorded
<1>5. Reaching' = Reaching
  BY DEF Reaching, Fallthrough
<1> QED BY <1>3, <1>4, <1>5 DEF IInv, OnlyReachable

LEMMA LoopStep ==
    ASSUME IInv, PinsDone \/ RelocsDone
    PROVE  IInv'
<1>1. UNCHANGED <<prog, dollops, target, entries, changed>>
  BY DEF PinsDone, RelocsDone
<1>2. Sound(dollops)' /\ Recorded' /\ Reaching' = Reaching
      /\ \A S \in Reaching : \A i \in Insn : dollops'.where[i] # None => i \in S
  BY <1>1, QuietStep
<1>3. ProgramOK /\ Sound(dollops)
  BY ProgramIsOK DEF IInv
<1>4. \A h \in Insn : h \in Heads(dollops) <=> dollops.where[h] = h
  BY <1>3, HeadsOfSound
<1>5. todo = {} /\ \/ phase = "pins" /\ phase' = "relocs" /\ todo' = prog.relocs
                   \/ phase = "relocs" /\ phase' = "targets" /\ todo' = Heads(dollops)
  BY DEF PinsDone, RelocsDone
<1>6. StateTyped'
  <2>1. Heads(dollops) \subseteq Insn /\ prog.relocs \subseteq Insn
    BY <1>3 DEF Heads, ProgramOK, Typed
  <2> QED BY <1>1, <1>5, <2>1 DEF IInv, StateTyped
<1>7. PassWorks'
  <2>1. \A i \in Insn : dollops.where[i] # None => dollops.where[i] \in Heads(dollops)
    <3>1. ASSUME NEW i \in Insn, dollops.where[i] # None
          PROVE  /\ dollops.where[i] \in Insn /\ Len(dollops.body[dollops.where[i]]) > 0
                 /\ dollops.where[dollops.where[i]] = dollops.where[i]
      BY <1>3, <3>1, SoundFacts
    <3> QED BY <1>4, <3>1
  <2> QED BY <1>1, <1>5, <2>1 DEF PassWorks
<1>8. RootsTaken'
  BY <1>1, <1>5 DEF IInv, RootsTaken
<1>9. OnlyReachable'
  BY <1>1, <1>2, <1>5 DEF IInv, OnlyReachable
<1> QED BY <1>2, <1>6, <1>7, <1>8, <1>9 DEF IInv

LEMMA PassStep ==
    ASSUME IInv, UpdateTargets \/ NextPass \/ TargetsDone
    PROVE  IInv'
<1>1. UNCHANGED <<prog, dollops, target>> /\ phase = "targets" /\ entries = <<>>
  BY DEF UpdateTargets, NextPass, TargetsDone
<1>2. Sound(dollops)' /\ Recorded' /\ Reaching' = Reaching
      /\ \A S \in Reaching : \A i \in Insn : dollops'.where[i] # None => i \in S
  BY <1>1, QuietStep
<1>3. Sound(dollops)
  BY DEF IInv
<1>4. \A h \in Insn : h \in Heads(dollops) <=> dollops.where[h] = h
  BY <1>3, HeadsOfSound
<1>5. RootsTaken'
  <2>1. phase' \in {"targets", "place"}
    BY <1>1 DEF UpdateTargets, NextPass, TargetsDone
  <2> QED BY <1>1, <2>1 DEF IInv, RootsTaken
<1>6. Len(entries) = 0
  BY <1>1
<1>7. CASE UpdateTargets
  <2>1. PICK d \in todo : entries' = dollops.body[d] /\ todo' = todo \ {d}
    BY <1>7 DEF UpdateTargets
  <2>2. UNCHANGED <<phase, changed>>
    BY <1>7 DEF UpdateTargets
  <2>3. d \in Insn
    BY DEF IInv, StateTyped
  <2>4. /\ entries' \in Seq(Insn)
        /\ \A k \in 1 .. Len(entries') : dollops.where[entries'[k]] = d
        /\ \A i \in Insn : dollops.where[i] = d => \E k \in 1 .. Len(entries') : entries'[k] = i
    <3>1. entries' \in Seq(Insn)
      BY <1>3, <2>1, <2>3, SoundFacts
    <3>2. \A k \in 1 .. Len(dollops.body[d]) : dollops.where[dollops.body[d][k]] = d
      BY <1>3, <2>3 DEF Sound, MapAgrees
    <3>3. ASSUME NEW i \in Insn, dollops.where[i] = d
          PROVE  \E k \in 1 .. Len(dollops.body[d]) : dollops.body[d][k] = i
      <4>1. dollops.where[i] # None
        BY <2>3, <3>3, NoneAssumption
      <4>2. \E k \in 1 .. Len(dollops.body[dollops.where[i]]) :
                dollops.body[dollops.where[i]][k] = i
        BY <1>3, <4>1 DEF Sound, MapAgrees
      <4> QED BY <3>3, <4>2
    <3> QED BY <2>1, <3>1, <3>2, <3>3
  <2>5. StateTyped'
    BY <1>1, <2>1, <2>2, <2>4 DEF IInv, StateTyped
  <2>6. PassWorks'
    <3> SUFFICES ASSUME ~ changed, NEW i \in Insn, dollops.where[i] # None
                 PROVE  \/ UpToDate(i)
                        \/ \E k \in 1 .. Len(entries') : entries'[k] = i
                        \/ dollops.where[i] \in todo'
      BY <1>1, <2>2 DEF PassWorks, UpToDate
    <3>1. UpToDate(i) \/ dollops.where[i] \in todo
      BY <1>1, <1>6 DEF IInv, PassWorks
    <3> QED BY <2>1, <2>4, <3>1
  <2>7. OnlyReachable'
    BY <1>1, <1>2, <2>2, <2>3, <2>4, NoneAssumption DEF OnlyReachable
  <2> QED BY <1>2, <1>5, <2>5, <2>6, <2>7 DEF IInv
<1>8. CASE NextPass
  <2>1. phase' = phase /\ entries' = entries /\ changed' = FALSE /\ todo' = Heads(dollops)
    BY <1>8 DEF NextPass
  <2>2. StateTyped'
    BY <1>1, <2>1 DEF IInv, StateTyped, Heads
  <2>3. PassWorks'
    <3>1. \A i \in Insn : dollops.where[i] # None => dollops.where[i] \in Heads(dollops)
      <4>1. ASSUME NEW i \in Insn, dollops.where[i] # None
            PROVE  /\ dollops.where[i] \in Insn /\ Len(dollops.body[dollops.where[i]]) > 0
                   /\ dollops.where[dollops.where[i]] = dollops.where[i]
        BY <1>3, <4>1, SoundFacts
      <4> QED BY <1>4, <4>1
    <3> QED BY <1>1, <2>1, <3>1 DEF PassWorks
  <2>4. OnlyReachable'
    BY <1>1, <1>2, <1>6, <2>1 DEF OnlyReachable
  <2> QED BY <1>2, <1>5, <2>2, <2>3, <2>4 DEF IInv
<1>9. CASE TargetsDone
  <2>1. /\ phase' = "place" /\ entries' = entries /\ changed' = changed /\ todo' = todo
        /\ ~ changed /\ todo = {}
    BY <1>9 DEF TargetsDone
  <2>2. StateTyped'
    BY <1>1, <2>1 DEF IInv, StateTyped
  <2>3. PassWorks'
    <3>1. \A i \in Insn : dollops.where[i] # None => UpToDate(i)
      BY <1>1, <1>6, <2>1 DEF IInv, PassWorks
    <3> QED BY <1>1, <2>1, <3>1 DEF PassWorks, UpToDate
  <2>4. OnlyReachable'
    BY <1>1, <1>2, <1>6, <2>1 DEF OnlyReachable
  <2> QED BY <1>2, <1>5, <2>2, <2>3, <2>4 DEF IInv
<1> QED BY <1>7, <1>8, <1>9

LEMMA UpdateEntryStep ==
    ASSUME IInv, UpdateEntry
    PROVE  IInv'
<1>1. /\ phase = "targets" /\ entries # <<>> /\ entries' = Tail(entries)
      /\ prog' = prog /\ phase' = phase /\ todo' = todo
  BY DEF UpdateEntry
<1>2. PICK i, t : i = Head(entries) /\ t = prog.target[i]
  OBVIOUS
<1>3. IF t = None THEN UNCHANGED <<dollops, target, changed>>
      ELSE /\ dollops' = AddNewDollops(dollops, t)
           /\ target' = [target EXCEPT ![i] = dollops'.where[t]]
           /\ changed' = (changed \/ target[i] # dollops'.where[t])
  BY <1>2 DEF UpdateEntry
<1>4. entries \in Seq(Insn) /\ Len(entries) \in Nat /\ Len(entries) > 0
  BY <1>1 DEF IInv, StateTyped
<1>5. /\ i = entries[1] /\ i \in Insn
      /\ entries' \in Seq(Insn) /\ Len(entries') = Len(entries) - 1
      /\ \A k \in 1 .. Len(entries') : entries'[k] = entries[k + 1]
  BY <1>1, <1>2, <1>4, HeadTailProperties
<1>6. ProgramOK /\ Sound(dollops)
  BY ProgramIsOK DEF IInv
<1>7. t \in InsnOrNone
  BY <1>2, <1>5, <1>6 DEF ProgramOK, Typed
<1>8. dollops.where[i] # None
  <2>1. 1 \in 1 .. Len(entries)
    BY <1>4
  <2> QED BY <1>5, <2>1 DEF IInv, OnlyReachable
(* The entries left are entries of the list; the first is the one gone.    *)
<1>9. /\ \A k \in 1 .. Len(entries') : \E l \in 1 .. Len(entries) : entries'[k] = entries[l]
      /\ \A l \in 1 .. Len(entries) :
            entries[l] = i \/ \E k \in 1 .. Len(entries') : entries'[k] = entries[l]
  <2>1. \A k \in 1 .. Len(entries') : k + 1 \in 1 .. Len(entries) /\ entries'[k] = entries[k + 1]
    BY <1>4, <1>5
  <2>2. ASSUME NEW l \in 1 .. Len(entries), l # 1
        PROVE  \E k \in 1 .. Len(entries') : entries'[k] = entries[l]
    <3>1. l - 1 \in 1 .. Len(entries') /\ (l - 1) + 1 = l
      BY <1>4, <1>5, <2>2
    <3> QED BY <1>5, <3>1
  <2> QED BY <1>5, <2>1, <2>2
<1>10. \A k \in 1 .. Len(entries) : entries[k] \in Insn /\ dollops.where[entries[k]] # None
  BY <1>4 DEF IInv, OnlyReachable
<1>11. CASE t = None
  <2>1. UNCHANGED <<prog, dollops, target>> /\ changed' = changed
    BY <1>1, <1>3, <1>11
  <2>2. Sound(dollops)' /\ Recorded' /\ Reaching' = Reaching
        /\ \A S \in Reaching : \A x \in Insn : dollops'.where[x] # None => x \in S
    BY <2>1, QuietStep
  <2>3. StateTyped'
    BY <1>1, <1>5, <2>1 DEF IInv, StateTyped
  <2>4. UpToDate(i)
    BY <1>2, <1>5, <1>11 DEF IInv, Recorded, UpToDate
  <2>5. PassWorks'
    <3> SUFFICES ASSUME ~ changed, NEW x \in Insn, dollops.where[x] # None
                 PROVE  \/ UpToDate(x)
                        \/ \E k \in 1 .. Len(entries') : entries'[k] = x
                        \/ dollops.where[x] \in todo
      BY <1>1, <2>1 DEF PassWorks, UpToDate
    <3>1. \/ UpToDate(x) \/ dollops.where[x] \in todo
          \/ \E k \in 1 .. Len(entries) : entries[k] = x
      BY <1>1 DEF IInv, PassWorks
    <3> QED BY <1>9, <2>4, <3>1
  <2>6. RootsTaken'
    BY <1>1, <2>1 DEF IInv, RootsTaken
  <2>7. OnlyReachable'
    <3>1. \A k \in 1 .. Len(entries') : dollops'.where[entries'[k]] # None
      BY <1>9, <1>10, <2>1
    <3> QED BY <1>1, <2>2, <3>1 DEF OnlyReachable
  <2> QED BY <2>2, <2>3, <2>5, <2>6, <2>7 DEF IInv
<1>12. CASE t # None
  <2>1. t \in Insn
    BY <1>7, <1>12 DEF InsnOrNone
  <2>2. /\ dollops' = AddNewDollops(dollops, t)
        /\ target' = [target EXCEPT ![i] = dollops'.where[t]]
        /\ changed' = (changed \/ target[i] # dollops'.where[t])
    BY <1>3, <1>12
  <2>3. \A S \in Reaching : t \in S
    <3>1. \A S \in Reaching : i \in S
      BY <1>5, <1>8 DEF IInv, OnlyReachable
    <3> QED BY <1>2, <1>12, <3>1, ReachingIsClosed
  <2>4. /\ Sound(dollops)' /\ dollops'.where[t] = t
        /\ \A x \in Insn : dollops.where[x] = x => dollops'.where[x] = x
        /\ \A x \in Insn : dollops.where[x] # None => dollops'.where[x] # None
        /\ \A S \in Reaching : \A x \in Insn : dollops'.where[x] # None => x \in S
    BY <1>1, <2>1, <2>2, <2>3, AddStep
  <2>5. target' = [target EXCEPT ![i] = t] /\ target \in [Insn -> InsnOrNone]
    BY <2>2, <2>4 DEF IInv, StateTyped
  <2>6. StateTyped'
    <3>1. target' \in [Insn -> InsnOrNone]
      BY <1>7, <2>5
    <3>2. changed' \in BOOLEAN
      BY <2>2
    <3> QED BY <1>1, <1>5, <3>1, <3>2 DEF IInv, StateTyped
  <2>7. Recorded'
    <3> SUFFICES ASSUME NEW x \in Insn, target'[x] # None
                 PROVE  target'[x] = prog.target[x] /\ dollops'.where[target'[x]] = target'[x]
      BY <1>1 DEF Recorded
    <3>1. CASE x = i
      BY <1>2, <1>5, <2>4, <2>5, <3>1
    <3>2. CASE x # i
      <4>1. target'[x] = target[x] /\ target[x] \in Insn
        BY <2>5, <3>2 DEF InsnOrNone
      <4>2. target[x] = prog.target[x] /\ dollops.where[target[x]] = target[x]
        BY <4>1, NoneAssumption DEF IInv, Recorded
      <4> QED BY <2>4, <4>1, <4>2
    <3> QED BY <3>1, <3>2
(* A pass that has changed nothing has left the tables as they were.       *)
  <2>8. ASSUME ~ changed' PROVE dollops' = dollops /\ target' = target /\ ~ changed
    <3>1. ~ changed /\ target[i] = t
      BY <2>2, <2>4, <2>8
    <3>2. dollops.where[t] = t
      BY <1>5, <1>12, <3>1 DEF IInv, Recorded
    <3>3. AddNewDollops(dollops, t) = dollops
      BY <1>12, <3>2 DEF AddNewDollops, EnsureHead, Contained
    <3>4. target' = target
      BY <1>5, <2>5, <3>1
    <3> QED BY <2>2, <3>1, <3>3, <3>4
  <2>9. PassWorks'
    <3> SUFFICES ASSUME ~ changed', NEW x \in Insn, dollops'.where[x] # None
                 PROVE  \/ target'[x] = prog.target[x]
                        \/ \E k \in 1 .. Len(entries') : entries'[k] = x
                        \/ dollops'.where[x] \in todo
      BY <1>1 DEF PassWorks, UpToDate
    <3>1. dollops' = dollops /\ target' = target /\ ~ changed
      BY <2>8
    <3>2. target'[i] = prog.target[i]
      BY <1>2, <1>5, <2>5
    <3>3. \/ target[x] = prog.target[x] \/ dollops.where[x] \in todo
          \/ \E k \in 1 .. Len(entries) : entries[k] = x
      BY <1>1, <3>1 DEF IInv, PassWorks, UpToDate
    <3> QED BY <1>9, <3>1, <3>2, <3>3
  <2>10. RootsTaken'
    <3>1. prog.pins \subseteq Insn /\ prog.relocs \subseteq Insn
      BY <1>6 DEF ProgramOK, Typed
    <3> QED BY <1>1, <2>4, <3>1 DEF IInv, RootsTaken
  <2>11. OnlyReachable'
    <3>1. Reaching' = Reaching
      BY <1>1 DEF Reaching, Fallthrough
    <3>2. \A k \in 1 .. Len(entries') : dollops'.where[entries'[k]] # None
      BY <1>9, <1>10, <2>4
    <3>3. \A S \in Reaching' : \A x \in Insn : dollops'.where[x] # None => x \in S
      BY <2>4, <3>1
    <3> QED BY <1>1, <3>2, <3>3 DEF OnlyReachable
  <2> QED BY <2>4, <2>6, <2>7, <2>9, <2>10, <2>11 DEF IInv
<1> QED BY <1>11, <1>12

LEMMA SplitStep ==
    ASSUME IInv, SplitToFit
    PROVE  IInv'
<1>1. phase = "place" /\ UNCHANGED <<prog, target, phase, todo, entries, changed>>
  BY DEF SplitToFit
<1>2. PICK h \in Heads(dollops) : \E k \in 2 .. Len(dollops.body[h]) :
          dollops' = Split(dollops, h, dollops.body[h][k])
  BY DEF SplitToFit
<1>3. PICK k \in 2 .. Len(dollops.body[h]) : dollops' = Split(dollops, h, dollops.body[h][k])
  BY <1>2
<1>4. PICK s, M : s = dollops.body[h][k] /\ M = Split(dollops, h, s)
  OBVIOUS
<1>5. h \in Insn /\ ProgramOK /\ Sound(dollops)
  BY ProgramIsOK DEF IInv, Heads
<1>6. /\ Sound(M)
      /\ \A x \in Insn : /\ M.where[x] = None <=> dollops.where[x] = None
                         /\ dollops.where[x] = x => M.where[x] = x
  BY <1>4, <1>5, SplitSound
<1>7. dollops' = M
  BY <1>3, <1>4
<1>8. Sound(dollops)'
  BY <1>1, <1>6, <1>7, SoundStays
<1>9. StateTyped'
  BY <1>1 DEF IInv, StateTyped
<1>10. Recorded'
  <2>1. \A x \in Insn : target[x] # None => target[x] \in Insn
    BY DEF IInv, StateTyped, InsnOrNone
  <2> QED BY <1>1, <1>6, <1>7, <2>1 DEF IInv, Recorded
<1>11. PassWorks'
  BY <1>1, <1>6, <1>7 DEF IInv, PassWorks, UpToDate
<1>12. RootsTaken'
  <2>1. prog.pins \subseteq Insn /\ prog.relocs \subseteq Insn
    BY <1>5 DEF ProgramOK, Typed
  <2> QED BY <1>1, <1>6, <1>7, <2>1 DEF IInv, RootsTaken
<1>13. OnlyReachable'
  <2>1. Reaching' = Reaching
    BY <1>1 DEF Reaching, Fallthrough
  <2>2. \A j \in 1 .. Len(entries) : entries[j] \in Insn
    BY DEF IInv, StateTyped
  <2> QED BY <1>1, <1>6, <1>7, <2>1, <2>2 DEF IInv, OnlyReachable
<1> QED BY <1>8, <1>9, <1>10, <1>11, <1>12, <1>13 DEF IInv

(* Invariance: the inductive invariant holds in every state of the two     *)
(* loops that collect the dollops and of the splits placement asks for.    *)
THEOREM Invariance == Spec => []IInv
<1>1. Init => IInv
  BY InitOK
<1>2. IInv /\ [Next]_vars => IInv'
  <2> SUFFICES ASSUME IInv, [Next]_vars PROVE IInv'
    OBVIOUS
  <2>1. CASE CreateForPin \/ CreateForReloc
    BY <2>1, CreateStep
  <2>2. CASE PinsDone \/ RelocsDone
    BY <2>2, LoopStep
  <2>3. CASE UpdateTargets \/ NextPass \/ TargetsDone
    BY <2>3, PassStep
  <2>4. CASE UpdateEntry
    BY <2>4, UpdateEntryStep
  <2>5. CASE SplitToFit
    BY <2>5, SplitStep
  <2>6. CASE UNCHANGED vars
    <3>1. UNCHANGED <<prog, dollops, target, phase, todo, entries, changed>>
      BY <2>6 DEF vars
    <3>2. Sound(dollops)' /\ Recorded' /\ Reaching' = Reaching
          /\ \A S \in Reaching : \A i \in Insn : dollops'.where[i] # None => i \in S
      BY <3>1, QuietStep
    <3>3. StateTyped'
      BY <3>1 DEF IInv, StateTyped
    <3>4. PassWorks'
      BY <3>1 DEF IInv, PassWorks, UpToDate
    <3>5. RootsTaken'
      BY <3>1 DEF IInv, RootsTaken
    <3>6. OnlyReachable'
      BY <3>1, <3>2 DEF IInv, OnlyReachable
    <3> QED BY <3>2, <3>3, <3>4, <3>5, <3>6 DEF IInv
  <2> QED BY <2>1, <2>2, <2>3, <2>4, <2>5, <2>6 DEF Next
<1> QED BY <1>1, <1>2, PTL DEF Spec

-----------------------------------------------------------------------------
(* What the invariant says of the properties the runs check.               *)

LEMMA InvIsTyped ==
    ASSUME IInv
    PROVE  TypeOK
<1>1. ProgramOK /\ Sound(dollops)
  BY ProgramIsOK DEF IInv
<1>2. prog.pins \cup prog.relocs \subseteq Insn
  BY <1>1 DEF ProgramOK, Typed
<1>3. \A h \in Insn : \A k \in 1 .. Len(dollops.body[h]) : dollops.body[h][k] \in Insn
  BY <1>1, SoundFacts
<1> QED BY <1>1, <1>2, <1>3 DEF IInv, StateTyped, Sound, Bodies, TypeOK

LEMMA InvIsOneDollopEach ==
    ASSUME IInv
    PROVE  OneDollopEach
<1>1. Sound(dollops)
  BY DEF IInv
<1>2. \A h \in Insn : dollops.body[h] \in Seq(Insn) /\ Len(dollops.body[h]) \in Nat
  BY <1>1, SoundFacts
<1>3. ASSUME NEW h \in Heads(dollops)
      PROVE  Head(dollops.body[h]) = h /\ IsInjective(dollops.body[h])
  <2>1. h \in Insn /\ dollops.body[h] # <<>>
    BY DEF Heads
  <2>2. dollops.body[h][1] = h
    BY <1>1, <1>2, <2>1 DEF Sound, MapAgrees
  <2>3. \A k, l \in 1 .. Len(dollops.body[h]) :
            dollops.body[h][k] = dollops.body[h][l] => k = l
    BY <1>1, <2>1 DEF Sound, MapAgrees
  <2>4. DOMAIN dollops.body[h] = 1 .. Len(dollops.body[h])
    BY <1>2, <2>1
  <2>5. IsInjective(dollops.body[h])
    BY <2>3, <2>4 DEF IsInjective
  <2> QED BY <1>2, <2>1, <2>2, <2>5
<1>4. ASSUME NEW i \in Insn, NEW h \in Insn
      PROVE  i \in Range(dollops.body[h]) <=> dollops.where[i] = h
  <2>1. DOMAIN dollops.body[h] = 1 .. Len(dollops.body[h])
    BY <1>2
  <2>2. i \in Range(dollops.body[h]) <=>
            \E k \in 1 .. Len(dollops.body[h]) : dollops.body[h][k] = i
    BY <2>1 DEF Range
  <2>3. \A k \in 1 .. Len(dollops.body[h]) : dollops.where[dollops.body[h][k]] = h
    BY <1>1 DEF Sound, MapAgrees
  <2>4. ASSUME dollops.where[i] = h
        PROVE  \E k \in 1 .. Len(dollops.body[h]) : dollops.body[h][k] = i
    <3>1. dollops.where[i] # None
      BY <2>4, NoneAssumption
    <3>2. \E k \in 1 .. Len(dollops.body[dollops.where[i]]) :
              dollops.body[dollops.where[i]][k] = i
      BY <1>1, <3>1 DEF Sound, MapAgrees
    <3> QED BY <2>4, <3>2
  <2> QED BY <2>2, <2>3, <2>4
<1> QED BY <1>3, <1>4, InvIsTyped DEF OneDollopEach

(* What comes after a contained instruction, at its place in its dollop.   *)
LEMMA LayoutIs ==
    ASSUME IInv, NEW i \in Insn, dollops.where[i] # None
    PROVE  LayoutNext(i) = Fallthrough(i)
<1>1. Sound(dollops)
  BY DEF IInv
<1>2. PICK h, b : h = dollops.where[i] /\ b = dollops.body[h]
  OBVIOUS
<1>3. h \in Insn /\ Len(b) > 0 /\ Len(b) \in Nat
  BY <1>1, <1>2, SoundFacts
<1>4. PICK k \in 1 .. Len(b) : b[k] = i
  BY <1>1, <1>2 DEF Sound, MapAgrees
<1>5. \A j, l \in 1 .. Len(b) : b[j] = b[l] => j = l
  BY <1>1, <1>2, <1>3 DEF Sound, MapAgrees
<1>6. k = CHOOSE n \in 1 .. Len(b) : b[n] = i
  BY <1>4, <1>5
<1>7. LayoutNext(i) = IF k < Len(b) THEN b[k + 1] ELSE dollops.ft[h]
  BY <1>2, <1>6 DEF LayoutNext
<1>8. CASE k < Len(b)
  <2>1. k \in 1 .. Len(b) - 1
    BY <1>3, <1>4, <1>8
  <2>2. b[k + 1] = Fallthrough(b[k])
    BY <1>1, <1>2, <1>3, <2>1 DEF Sound, Follows
  <2> QED BY <1>4, <1>7, <1>8, <2>2
<1>9. CASE ~ (k < Len(b))
  <2>1. k = Len(b)
    BY <1>3, <1>4, <1>9
  <2>2. dollops.ft[h] = Fallthrough(b[Len(b)])
    BY <1>1, <1>2, <1>3 DEF Sound, Follows
  <2> QED BY <1>4, <1>7, <1>9, <2>1, <2>2
<1> QED BY <1>8, <1>9

LEMMA InvFollowsFallthrough ==
    ASSUME IInv
    PROVE  LayoutFollowsFallthrough
<1>1. Sound(dollops)
  BY DEF IInv
<1>2. \A i \in Covered : LayoutNext(i) = Fallthrough(i)
  BY LayoutIs DEF Covered, Contained
<1>3. \A h \in Insn : h \in Heads(dollops) <=> Len(dollops.body[h]) > 0
  <2>1. \A h \in Insn : h \in Heads(dollops) <=> dollops.where[h] = h
    BY <1>1, HeadsOfSound
  <2>2. \A h \in Insn : Len(dollops.body[h]) > 0 <=> dollops.where[h] = h
    BY <1>1, SoundFacts
  <2> QED BY <2>1, <2>2
<1>4. \A g, h \in Insn : /\ dollops.ft[g] = h <=> dollops.fb[h] = g
                         /\ dollops.ft[g] = h => {g, h} \subseteq Heads(dollops)
  BY <1>1, <1>3 DEF Sound, Links
<1>5. \A h \in Heads(dollops) : dollops.size[h] = CalculateSize(dollops.body[h], dollops.ft[h])
  <2>1. Heads(dollops) \subseteq Insn
    BY DEF Heads
  <2> QED BY <1>1, <1>3, <2>1 DEF Sound, Sizes
<1> QED BY <1>2, <1>4, <1>5 DEF LayoutFollowsFallthrough

LEMMA InvTargetsAreFronts ==
    ASSUME IInv
    PROVE  TargetsAreFronts
<1>1. Sound(dollops)
  BY DEF IInv
<1>2. \A h \in Insn : h \in Heads(dollops) <=> dollops.where[h] = h
  BY <1>1, HeadsOfSound
<1>3. \A i \in Covered \cap prog.ibta : dollops.where[i] = i
  BY <1>1 DEF Sound, Fronts, Covered, Contained
<1>4. ASSUME NEW i \in Insn, target[i] # None
      PROVE  target[i] = prog.target[i] /\ target[i] \in Heads(dollops)
  <2>1. target[i] \in Insn
    BY <1>4 DEF IInv, StateTyped, InsnOrNone
  <2> QED BY <1>2, <1>4, <2>1 DEF IInv, Recorded
<1>5. phase = "place" => \A i \in Covered : target[i] = prog.target[i]
  BY DEF IInv, PassWorks, UpToDate, Covered, Contained
<1> QED BY <1>3, <1>4, <1>5 DEF TargetsAreFronts

LEMMA InvExactlyReachable ==
    ASSUME IInv
    PROVE  ExactlyReachable
<1> SUFFICES ASSUME phase = "place" PROVE Covered = ReachableInsns
  BY DEF ExactlyReachable
<1>1. ProgramOK /\ Sound(dollops)
  BY ProgramIsOK DEF IInv
<1>2. Covered \subseteq ReachableInsns
  BY DEF IInv, OnlyReachable, Covered, Contained, ReachableInsns
(* What is in dollops holds the pins and the relocations, and all that     *)
(* control can go on to from there.                                        *)
<1>3. prog.pins \cup prog.relocs \subseteq Covered
  <2>1. prog.pins \subseteq Insn /\ prog.relocs \subseteq Insn
    BY <1>1 DEF ProgramOK, Typed
  <2> QED BY <2>1 DEF IInv, RootsTaken, Covered, Contained
<1>4. ASSUME NEW i \in Covered PROVE Fallthrough(i) \in Covered \cup {None}
  <2>1. i \in Insn /\ dollops.where[i] # None
    BY DEF Covered, Contained
  <2>2. PICK h, b : h = dollops.where[i] /\ b = dollops.body[h]
    OBVIOUS
  <2>3. h \in Insn /\ Len(b) > 0 /\ Len(b) \in Nat
    BY <1>1, <2>1, <2>2, SoundFacts
  <2>4. PICK k \in 1 .. Len(b) : b[k] = i
    BY <1>1, <2>1, <2>2 DEF Sound, MapAgrees
  <2>5. CASE k < Len(b)
    <3>1. k \in 1 .. Len(b) - 1 /\ k + 1 \in 1 .. Len(b)
      BY <2>3, <2>4, <2>5
    <3>2. b[k + 1] = Fallthrough(i) /\ b[k + 1] \in Insn
      BY <1>1, <2>2, <2>3, <2>4, <3>1, SoundFacts DEF Sound, Follows
    <3>3. dollops.where[b[k + 1]] = h
      BY <1>1, <2>2, <2>3, <3>1 DEF Sound, MapAgrees
    <3> QED BY <2>3, <3>2, <3>3, NoneAssumption DEF Covered, Contained
  <2>6. CASE ~ (k < Len(b))
    <3>1. k = Len(b)
      BY <2>3, <2>4, <2>6
    <3>2. dollops.ft[h] = Fallthrough(i)
      BY <1>1, <2>2, <2>3, <2>4, <3>1 DEF Sound, Follows
    <3>3. dollops.ft[h] \in InsnOrNone
      BY <1>1, <2>3 DEF Sound, Bodies
    <3>4. CASE dollops.ft[h] = None
      BY <3>2, <3>4
    <3>5. CASE dollops.ft[h] # None
      <4>1. dollops.ft[h] \in Insn
        BY <3>3, <3>5 DEF InsnOrNone
      <4>2. Len(dollops.body[dollops.ft[h]]) > 0
        BY <1>1, <2>3, <4>1 DEF Sound, Links
      <4>3. dollops.where[dollops.ft[h]] = dollops.ft[h]
        BY <1>1, <4>1, <4>2, SoundFacts
      <4> QED BY <3>2, <4>1, <4>3, NoneAssumption DEF Covered, Contained
    <3> QED BY <3>4, <3>5
  <2> QED BY <2>5, <2>6
<1>5. ASSUME NEW i \in Covered PROVE prog.target[i] \in Covered \cup {None}
  <2>1. i \in Insn /\ target[i] = prog.target[i]
    BY DEF IInv, PassWorks, UpToDate, Covered, Contained
  <2>2. CASE target[i] # None
    <3>1. target[i] \in Insn
      BY <2>1, <2>2 DEF IInv, StateTyped, InsnOrNone
    <3>2. dollops.where[target[i]] = target[i]
      BY <2>1, <2>2 DEF IInv, Recorded
    <3> QED BY <2>1, <3>1, <3>2, NoneAssumption DEF Covered, Contained
  <2> QED BY <2>1, <2>2
<1>6. Covered \in Reaching
  <2>1. Covered \subseteq Insn
    BY DEF Covered
  <2> QED BY <1>3, <1>4, <1>5, <2>1 DEF Reaching
<1>7. ReachableInsns \subseteq Covered
  BY <1>6 DEF ReachableInsns
<1> QED BY <1>2, <1>7

(* OneDollopForEach: whatever the program, the manager's map and the       *)
(* entries of the dollops tell the same story after every addition and     *)
(* every split.                                                            *)
THEOREM OneDollopForEach == Spec => []OneDollopEach
<1>1. IInv => OneDollopEach
  BY InvIsOneDollopEach
<1> QED BY <1>1, Invariance, PTL

(* LayoutIsFallthrough: the dollops and their links lay the instructions   *)
(* out as the program falls through them, and the cached sizes and the     *)
(* links in both directions are never stale.                               *)
THEOREM LayoutIsFallthrough == Spec => []LayoutFollowsFallthrough
<1>1. IInv => LayoutFollowsFallthrough
  BY InvFollowsFallthrough
<1> QED BY <1>1, Invariance, PTL

(* TargetsStayFronts: indirect branch targets and recorded target dollops  *)
(* start with the instruction they are about, through every later split,   *)
(* and when the updates end every entry with a target has its dollop.      *)
THEOREM TargetsStayFronts == Spec => []TargetsAreFronts
<1>1. IInv => TargetsAreFronts
  BY InvTargetsAreFronts
<1> QED BY <1>1, Invariance, PTL

(* DollopsHoldTheReachable: when the updates end, the dollops hold exactly *)
(* what can be reached from the pins and the relocations.                  *)
THEOREM DollopsHoldTheReachable == Spec => []ExactlyReachable
<1>1. IInv => ExactlyReachable
  BY InvExactlyReachable
<1> QED BY <1>1, Invariance, PTL

=============================================================================
