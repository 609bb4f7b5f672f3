---------------------------- MODULE ScoopsProofs ----------------------------
(***************************************************************************)
(* FindFreeRanges and UpdateScoops, for every layout a linker makes: the   *)
(* ranges declared free are no reversed ones and are apart, no page is     *)
(* shared with writable data, and what is left of the scoops at the end    *)
(* holds all code and begins and ends with a byte that is used.            *)
(***************************************************************************)
EXTENDS Scoops, FiniteSetTheorems, WellFoundedInduction, TLAPS

(* Minima and maxima.                                                      *)
LEMMA MinIs ==
    ASSUME NEW S \in SUBSET Nat, S # {}
    PROVE  Min(S) \in S /\ \A x \in S : Min(S) <= x
<1>1. PICK m \in S : \A y \in S : ~ (<<y, m>> \in OpToRel(<, Nat))
  BY NatLessThanWellFounded, WFMin
<1>2. ASSUME NEW y \in S, y < m PROVE FALSE
  <2>1. <<y, m>> \in Nat \X Nat /\ <<y, m>>[1] < <<y, m>>[2]
    BY <1>2
  <2> QED BY <1>1, <2>1 DEF OpToRel
<1>3. \E x \in S : \A y \in S : x <= y
  BY <1>2
<1> QED BY <1>3 DEF Min

LEMMA MaxIs ==
    ASSUME NEW S \in SUBSET Nat, S # {}, NEW b \in Nat, \A x \in S : x <= b
    PROVE  Max(S) \in S /\ \A x \in S : x <= Max(S)
<1> DEFINE D == {b - x : x \in S}
<1>1. D \in SUBSET Nat /\ D # {}
  <2>1. \A x \in S : b - x \in Nat
    OBVIOUS
  <2> QED BY <2>1
<1>2. Min(D) \in D /\ \A y \in D : Min(D) <= y
  BY <1>1, MinIs
<1>3. PICK m \in S : Min(D) = b - m
  BY <1>2
<1>4. \A x \in S : x <= m
  <2> TAKE x \in S
  <2>1. b - m <= b - x
    BY <1>2, <1>3
  <2> QED BY <2>1
<1> HIDE DEF D
<1>5. \E x \in S : \A y \in S : x >= y
  BY <1>4
<1> QED BY <1>5 DEF Max

-----------------------------------------------------------------------------
(* Pages.                                                                  *)
LEMMA SizesAre ==
    /\ PAGE_SIZE \in Nat \ {0} /\ ALIGNMENT \in Nat \ {0} /\ UIntMod \in Nat \ {0}
    /\ MinimumDistance \in Nat /\ LastAddress \in Nat
    /\ MinimumDistance >= PAGE_SIZE /\ PAGE_SIZE >= 2
BY SizesAssumption

LEMMA PageIs ==
    ASSUME NEW a \in Int
    PROVE  /\ PageOf(a) \in Int /\ PageOf(a) * PAGE_SIZE <= a
           /\ a < PageOf(a) * PAGE_SIZE + PAGE_SIZE
BY SizesAre DEF PageOf

(* Pages are in the order of their addresses.                              *)
LEMMA PagesInOrder ==
    ASSUME NEW a \in Int, NEW b \in Int
    PROVE  /\ a <= b => PageOf(a) <= PageOf(b)
           /\ PageOf(a) < PageOf(b) => a < b
BY SizesAre DEF PageOf

(* The start of a page is on that page.                                    *)
LEMMA StartOfPage ==
    ASSUME NEW q \in Int
    PROVE  q * PAGE_SIZE \in Int /\ PageOf(q * PAGE_SIZE) = q
BY SizesAre DEF PageOf

LEMMA RoundUp ==
    ASSUME NEW a \in Nat
    PROVE  /\ page_round_up(a) \in Nat
           /\ a <= page_round_up(a) /\ page_round_up(a) <= a + PAGE_SIZE - 1
           /\ \A b \in Nat : b < a => PageOf(b) < PageOf(page_round_up(a))
           /\ a % PAGE_SIZE # 0 => PageOf(a) < PageOf(page_round_up(a))
<1> DEFINE q == PageOf(a + PAGE_SIZE - 1)
<1>1. q \in Int /\ q * PAGE_SIZE <= a + PAGE_SIZE - 1 /\ a + PAGE_SIZE - 1 < q * PAGE_SIZE + PAGE_SIZE
  BY PageIs, SizesAre
<1>2. page_round_up(a) = q * PAGE_SIZE
  BY DEF page_round_up
<1>3. q * PAGE_SIZE \in Int /\ PageOf(q * PAGE_SIZE) = q
  BY StartOfPage, <1>1
<1> HIDE DEF q
<1>4. a <= q * PAGE_SIZE /\ q * PAGE_SIZE <= a + PAGE_SIZE - 1
  BY <1>1, <1>3, SizesAre
<1>5. ASSUME NEW b \in Nat, b < q * PAGE_SIZE
      PROVE  PageOf(b) < q
  <2>1. PageOf(b) \in Int /\ PageOf(b) * PAGE_SIZE <= b
    BY PageIs
  <2> QED BY <1>1, <1>5, <2>1, SizesAre
<1>6. ASSUME a % PAGE_SIZE # 0
      PROVE  a < q * PAGE_SIZE
  <2>1. (q * PAGE_SIZE) % PAGE_SIZE = 0
    BY <1>1, SizesAre
  <2> QED BY <1>4, <1>3, <1>6, <2>1
<1> QED BY <1>2, <1>3, <1>4, <1>5, <1>6

(* The start of a page is its own rounding.                                *)
LEMMA RoundUpOfPage ==
    ASSUME NEW a \in Nat, a % PAGE_SIZE = 0
    PROVE  page_round_up(a) = a
<1> DEFINE q == a \div PAGE_SIZE
<1>1. q \in Nat /\ a = q * PAGE_SIZE
  BY SizesAre
<1>2. PageOf(a + PAGE_SIZE - 1) = q
  BY <1>1, SizesAre DEF PageOf
<1> QED BY <1>1, <1>2 DEF page_round_up

(* Before a writable scoop at n: the last page before that of n.           *)
LEMMA RoundDown ==
    ASSUME NEW n \in Nat
    PROVE  /\ page_round_down(n - 1) \in Int /\ page_round_down(n - 1) <= n - 1
           /\ PageOf(page_round_down(n - 1)) < PageOf(n)
           /\ \A b \in Nat : PageOf(b) < PageOf(n) => b + 1 - page_round_down(n - 1) <= PAGE_SIZE
<1> DEFINE q == PageOf(n - 1 - (PAGE_SIZE - 1))
<1>1. page_round_down(n - 1) = q * PAGE_SIZE
  BY DEF page_round_down
<1>2. q \in Int /\ q * PAGE_SIZE \in Int /\ PageOf(q * PAGE_SIZE) = q
  BY StartOfPage, PageIs, SizesAre
<1>3. q * PAGE_SIZE <= n - PAGE_SIZE /\ n - PAGE_SIZE < q * PAGE_SIZE + PAGE_SIZE
  <2>1. n - PAGE_SIZE \in Int /\ n - 1 - (PAGE_SIZE - 1) = n - PAGE_SIZE
    BY SizesAre
  <2> QED BY <2>1, PageIs
<1> HIDE DEF q
<1>4. PageOf(n) = q + 1
  <2>1. /\ PageOf(n) \in Int /\ PageOf(n) * PAGE_SIZE <= n
        /\ n < PageOf(n) * PAGE_SIZE + PAGE_SIZE
    BY PageIs
  <2> QED BY <1>2, <1>3, <2>1, SizesAre
<1>5. ASSUME NEW b \in Nat, PageOf(b) < PageOf(n)
      PROVE  b + 1 - q * PAGE_SIZE <= PAGE_SIZE
  <2>1. PageOf(b) \in Int /\ b < PageOf(b) * PAGE_SIZE + PAGE_SIZE
    BY PageIs
  <2>2. PageOf(b) <= q
    BY <1>2, <1>4, <1>5, <2>1
  <2>3. PageOf(b) * PAGE_SIZE <= q * PAGE_SIZE
    BY <1>2, <2>1, <2>2, SizesAre
  <2> QED BY <1>2, <2>1, <2>3, SizesAre
<1> QED BY <1>1, <1>2, <1>3, <1>4, <1>5, SizesAre

LEMMA AlignUp ==
    ASSUME NEW a \in Nat, NEW n \in Nat \ {0}
    PROVE  /\ align_up_to(a, n) \in Nat
           /\ a <= align_up_to(a, n) /\ align_up_to(a, n) <= a + n - 1
BY DEF align_up_to

LEMMA ModIsNoMore ==
    ASSUME NEW a \in Nat, NEW n \in Nat \ {0}
    PROVE  a % n \in Nat /\ a % n <= a
OBVIOUS

-----------------------------------------------------------------------------
(* A layout, and the scoops made of its sections.                          *)
Items(l) == l.data \cup SectionScoops(l.sections)

LEMMA TopIs ==
    ASSUME NEW l, LinkerMade(l)
    PROVE  TopOf(l) \in Nat /\ EndsWithData(l, TopOf(l))
<1> DEFINE E == {x.end : x \in l.sections}
<1>1. PICK last \in l.sections : EndsWithData(l, last.end)
  BY DEF LinkerMade
<1>2. \A x \in l.sections : x.end \in Nat /\ x.end <= last.end
  BY <1>1 DEF LinkerMade, Ranges, EndsWithData
<1>3. E \in SUBSET Nat /\ E # {} /\ last.end \in Nat /\ \A e \in E : e <= last.end
  BY <1>2
<1>4. Max(E) \in E /\ \A e \in E : e <= Max(E)
  BY <1>3, MaxIs
<1>5. Max(E) = last.end
  <2>1. last.end \in E
    OBVIOUS
  <2> HIDE DEF E
  <2>2. Max(E) \in Nat /\ Max(E) <= last.end
    BY <1>3, <1>4
  <2>3. last.end <= Max(E)
    BY <1>4, <2>1
  <2> QED BY <1>3, <2>2, <2>3
<1> QED BY <1>1, <1>3, <1>5 DEF TopOf

(* Where a scoop made of sections starts and ends, when the last section   *)
(* holds data.                                                             *)
Before(S, x)   == {y.start : y \in {v \in S : v.start < x.start}}
InTheWay(S, x) == {y.start : y \in Following(S, x) \ Exec(S)}
Opens(S, x)    == /\ x \in Exec(S)
                  /\ \/ {y \in S : y.start < x.start} = {}
                     \/ Max(Before(S, x)) \notin {y.start : y \in Exec(S)}

LEMMA SectionScoop ==
    ASSUME NEW l, LinkerMade(l), NEW z \in SectionScoops(l.sections)
    PROVE  \E x \in l.sections :
             /\ Opens(l.sections, x) /\ InTheWay(l.sections, x) # {}
             /\ z = Zipr(x.start, Min(InTheWay(l.sections, x)) - 1)
<1> DEFINE S == l.sections
           Starts == {x \in Exec(S) :
                         LET before == {y \in S : y.start < x.start}
                         IN  before = {} \/ Max({y.start : y \in before})
                                             \notin {y.start : y \in Exec(S)}}
<1>1. PICK x \in Starts :
         z = Zipr(x.start, IF Following(S, x) \ Exec(S) # {} THEN StartOf(Following(S, x) \ Exec(S)) - 1
                           ELSE page_round_up(Max({y.end : y \in S})) - 1)
  BY DEF SectionScoops
<1>2. Opens(S, x) /\ x \in S
  BY DEF Opens, Before, Exec
<1>3. PICK last \in S \ Exec(S) : last.end = TopOf(l)
  BY TopIs DEF EndsWithData
<1>4. last \in Following(S, x)
  <2>1. x # last /\ x.end <= last.end
    BY <1>2, <1>3, TopIs DEF EndsWithData, Opens
  <2>2. {x.start, x.end, last.start, last.end} \subseteq Nat /\ last.start <= last.end
    BY <1>2, <1>3 DEF LinkerMade, Ranges, Proper
  <2>3. Apart(x, last) /\ x.start <= x.end
    BY <1>2, <1>3, <2>1 DEF LinkerMade, Proper
  <2> QED BY <2>1, <2>2, <2>3, <1>3 DEF Apart, Following
<1>5. Following(S, x) \ Exec(S) # {}
  BY <1>3, <1>4
<1>6. InTheWay(S, x) # {} /\ StartOf(Following(S, x) \ Exec(S)) = Min(InTheWay(S, x))
  BY <1>5 DEF InTheWay, StartOf
<1> QED BY <1>1, <1>2, <1>5, <1>6

LEMMA WayIs ==
    ASSUME NEW l, LinkerMade(l), NEW x \in l.sections, InTheWay(l.sections, x) # {}
    PROVE  \E y \in l.sections \ Exec(l.sections) :
             /\ y.start = Min(InTheWay(l.sections, x)) /\ x.end < y.start
             /\ \A v \in l.sections \ Exec(l.sections) :
                   x.start < v.start => y.start <= v.start
<1> DEFINE S == l.sections  W == InTheWay(S, x)
<1>1. \A y \in S : y.start \in Nat /\ y.end \in Nat /\ y.start <= y.end
  BY DEF LinkerMade, Ranges, Proper
<1>2. W \in SUBSET Nat /\ W # {}
  BY <1>1 DEF InTheWay, Following
<1>3. Min(W) \in W /\ \A v \in W : Min(W) <= v
  BY <1>2, MinIs
<1>4. PICK y \in Following(S, x) \ Exec(S) : y.start = Min(W)
  BY <1>3 DEF InTheWay
<1>5. y \in S \ Exec(S) /\ x.start < y.start
  BY <1>1, <1>4 DEF Following
<1>6. Apart(x, y)
  BY <1>1, <1>5 DEF LinkerMade, Proper
<1>7. x.end < y.start
  BY <1>1, <1>5, <1>6 DEF Apart
<1>8. ASSUME NEW v \in S \ Exec(S), x.start < v.start
      PROVE  y.start <= v.start
  <2>1. v.start \in W
    BY <1>1, <1>8 DEF InTheWay, Following
  <2> QED BY <1>3, <1>4, <2>1
<1> QED BY <1>4, <1>5, <1>7, <1>8

LEMMA SectionScoopsAreApart ==
    ASSUME NEW l, LinkerMade(l)
    PROVE  /\ SectionScoops(l.sections) \subseteq Ranges({"x"})
           /\ Proper(SectionScoops(l.sections))
           /\ \A z \in SectionScoops(l.sections) : z.end < TopOf(l)
<1> DEFINE S == l.sections
<1>1. \A y \in S : y.start \in Nat \ {0} /\ y.end \in Nat /\ y.start <= y.end
  BY DEF LinkerMade, Ranges, Proper
<1>2. ASSUME NEW z \in SectionScoops(S)
      PROVE  z \in Ranges({"x"}) /\ z.start <= z.end /\ z.end < TopOf(l)
  <2>1. PICK x \in S : InTheWay(S, x) # {} /\ z = Zipr(x.start, Min(InTheWay(S, x)) - 1)
    BY SectionScoop
  <2>2. PICK y \in S : y.start = Min(InTheWay(S, x)) /\ x.end < y.start
    BY <2>1, WayIs
  <2>3. y.end <= TopOf(l) /\ TopOf(l) \in Nat
    BY TopIs DEF EndsWithData
  <2>4. z.start = x.start /\ z.end = y.start - 1 /\ z = [start |-> x.start, end |-> y.start - 1, kind |-> "x"]
    BY <2>1, <2>2 DEF Zipr
  <2>5. y.start - 1 \in Nat /\ x.start <= y.start - 1 /\ y.start - 1 < TopOf(l)
    BY <1>1, <2>2, <2>3
  <2> QED BY <1>1, <2>4, <2>5 DEF Ranges
<1>3. ASSUME NEW v \in SectionScoops(S), NEW z \in SectionScoops(S), v.start < z.start
      PROVE  v.end < z.start
  <2>1. PICK a \in S : InTheWay(S, a) # {} /\ v = Zipr(a.start, Min(InTheWay(S, a)) - 1)
    BY SectionScoop
  <2>2. PICK x \in S : Opens(S, x) /\ z = Zipr(x.start, Min(InTheWay(S, x)) - 1)
    BY SectionScoop
  <2>3. a.start < x.start /\ z.start = x.start /\ v.end = Min(InTheWay(S, a)) - 1 /\ v.start = a.start
    BY <1>3, <2>1, <2>2 DEF Zipr
  <2>4. a.start \in Before(S, x) /\ Before(S, x) \in SUBSET Nat /\ \A e \in Before(S, x) : e <= x.start
    BY <1>1, <2>3 DEF Before
  <2>5. Max(Before(S, x)) \in Before(S, x) /\ a.start <= Max(Before(S, x))
    BY <1>1, <2>4, MaxIs
  <2>6. PICK p \in S : p.start = Max(Before(S, x)) /\ p.start < x.start
    BY <2>5 DEF Before
  <2>7. {y \in S : y.start < x.start} # {}
    BY <2>6
  <2>8. p \notin Exec(S)
    BY <2>2, <2>6, <2>7 DEF Opens
  <2>9. PICK y \in S \ Exec(S) :
           /\ y.start = Min(InTheWay(S, a))
           /\ \A w \in S \ Exec(S) : a.start < w.start => y.start <= w.start
    BY <2>1, WayIs
  <2>10. a.start < p.start
    <3>1. a \in Exec(S)
      <4>1. PICK c \in S : Opens(S, c) /\ v = Zipr(c.start, Min(InTheWay(S, c)) - 1)
        BY SectionScoop
      <4>2. c.start = a.start /\ c \in Exec(S)
        BY <2>3, <4>1 DEF Zipr, Opens
      <4>3. ~ Apart(a, c)
        BY <1>1, <4>2 DEF Apart
      <4> QED BY <4>2, <4>3 DEF LinkerMade, Proper
    <3>2. a # p
      BY <3>1, <2>8
    <3>3. Apart(a, p)
      BY <3>2 DEF LinkerMade, Proper
    <3> QED BY <1>1, <2>5, <2>6, <3>3 DEF Apart
  <2>11. y.start <= p.start
    BY <2>8, <2>9, <2>10
  <2> QED BY <1>1, <2>3, <2>6, <2>9, <2>11
<1>4. ASSUME NEW v \in SectionScoops(S), NEW z \in SectionScoops(S), v.start = z.start
      PROVE  v = z
  <2>1. PICK a \in S : v = Zipr(a.start, Min(InTheWay(S, a)) - 1)
    BY SectionScoop
  <2>2. PICK x \in S : z = Zipr(x.start, Min(InTheWay(S, x)) - 1)
    BY SectionScoop
  <2>3. a.start = x.start
    BY <1>4, <2>1, <2>2 DEF Zipr
  <2>4. ~ Apart(a, x)
    BY <1>1, <2>3 DEF Apart
  <2>5. a = x
    BY <2>4 DEF LinkerMade, Proper
  <2> QED BY <2>1, <2>2, <2>5
<1>5. ASSUME NEW v \in SectionScoops(S), NEW z \in SectionScoops(S), v # z
      PROVE  Apart(v, z)
  <2>1. v.start # z.start /\ v.start \in Nat /\ z.start \in Nat
    BY <1>2, <1>4, <1>5 DEF Ranges
  <2>2. CASE v.start < z.start
    BY <1>3, <2>2 DEF Apart
  <2>3. CASE z.start < v.start
    BY <1>3, <2>3 DEF Apart
  <2> QED BY <2>1, <2>2, <2>3
<1> QED BY <1>2, <1>5 DEF Proper

(* There is code, so there is a scoop.                                     *)
LEMMA SomeSectionScoop ==
    ASSUME NEW l, LinkerMade(l)
    PROVE  SectionScoops(l.sections) # {}
<1> DEFINE S == l.sections  E == {y.start : y \in Exec(S)}
<1>1. \A y \in S : y.start \in Nat
  BY DEF LinkerMade, Ranges
<1>2. E \in SUBSET Nat /\ E # {}
  BY <1>1 DEF Exec, LinkerMade
<1>3. Min(E) \in E /\ \A e \in E : Min(E) <= e
  BY <1>2, MinIs
<1>4. PICK x \in Exec(S) : x.start = Min(E)
  BY <1>3
<1> DEFINE before == {y \in S : y.start < x.start}
           B == {y.start : y \in before}
<1>5. ASSUME before # {}, Max(B) \in E
      PROVE  FALSE
  <2>1. B \in SUBSET Nat /\ B # {} /\ x.start \in Nat /\ \A e \in B : e <= x.start
    BY <1>1, <1>5 DEF Exec
  <2>2. Max(B) \in B
    BY <2>1, MaxIs
  <2>3. PICK p \in before : p.start = Max(B)
    BY <2>2
  <2>4. p.start \in Nat /\ p.start < x.start /\ x.start \in Nat
    BY <1>1, <2>1
  <2>5. Min(E) <= p.start
    BY <1>3, <1>5, <2>3
  <2> QED BY <1>4, <2>4, <2>5
<1>6. before = {} \/ Max(B) \notin E
  BY <1>5
<1> QED BY <1>4, <1>6 DEF SectionScoops

-----------------------------------------------------------------------------
(* What FindFreeRanges looks for gaps between: data, and the scoops made   *)
(* of sections.                                                            *)
ItemsAreRanges(l) ==
    \A r \in Items(l) :
        /\ r.start \in Nat /\ r.end \in Nat /\ r.start <= r.end /\ r.end <= TopOf(l)
        /\ r.kind \in {"x", "r", "w"}

ItemsAreApart(l) ==
    \A r, s \in Items(l) :
        /\ r.start = s.start => r = s
        /\ r.start < s.start => r.end < s.start \/ (r.kind # "w" /\ s.kind # "w" /\ s.end = r.end)
        /\ r.kind = "w" /\ s.kind # "w" => PagesApart(r, s)

LEMMA ItemsAre ==
    ASSUME NEW l, LinkerMade(l)
    PROVE  ItemsAreRanges(l) /\ ItemsAreApart(l)
<1> DEFINE Z == SectionScoops(l.sections)  D == l.data
<1>1. \A z \in Z : /\ z.start \in Nat /\ z.end \in Nat /\ z.start <= z.end
                   /\ z.end <= TopOf(l) /\ z.kind = "x"
  <2>1. TopOf(l) \in Nat
    BY TopIs
  <2> QED BY <2>1, SectionScoopsAreApart DEF Ranges, Proper
<1>2. \A d \in D : /\ d.start \in Nat /\ d.end \in Nat /\ d.start <= d.end
                   /\ d.end <= TopOf(l) /\ d.kind \in {"r", "w"}
  BY TopIs DEF EndsWithData, LinkerMade, Ranges, Proper
<1>3. \A d \in D, z \in Z : Apart(d, z) \/ (z.start < d.start /\ d.end = z.end)
  BY DEF LinkerMade, DataIsApart
<1>4. \A w \in D, r \in D \cup Z : w.kind = "w" /\ r.kind # "w" => PagesApart(w, r)
  BY <1>1 DEF LinkerMade, DataIsApart, Writeable
<1>5. ASSUME NEW r \in Items(l), NEW s \in Items(l)
      PROVE  r # s => \/ Apart(r, s)
                      \/ r \in D /\ s \in Z /\ s.start < r.start /\ r.end = s.end
                      \/ r \in Z /\ s \in D /\ r.start < s.start /\ s.end = r.end
  <2>1. r \in D /\ s \in D => (r # s => Apart(r, s))
    BY DEF LinkerMade, Proper
  <2>2. r \in Z /\ s \in Z => (r # s => Apart(r, s))
    BY SectionScoopsAreApart DEF Proper
  <2>3. Apart(r, s) <=> Apart(s, r)
    BY DEF Apart
  <2> HIDE DEF Z, D
  <2>4. (r \in D \/ r \in Z) /\ (s \in D \/ s \in Z)
    BY DEF Items, Z, D
  <2> QED BY <1>3, <2>1, <2>2, <2>3, <2>4
<1>6. ItemsAreRanges(l)
  BY <1>1, <1>2 DEF ItemsAreRanges, Items
<1>7. ASSUME NEW r \in Items(l), NEW s \in Items(l)
      PROVE  /\ r.start = s.start => r = s
             /\ r.start < s.start => r.end < s.start \/ (r.kind # "w" /\ s.kind # "w" /\ s.end = r.end)
             /\ r.kind = "w" /\ s.kind # "w" => PagesApart(r, s)
  <2>1. /\ r.start \in Nat /\ r.end \in Nat /\ r.start <= r.end
        /\ s.start \in Nat /\ s.end \in Nat /\ s.start <= s.end
    BY <1>6 DEF ItemsAreRanges
  <2>2. r.start = s.start => r = s
    BY <1>5, <2>1 DEF Apart
  <2>3. r.kind = "w" /\ s.kind # "w" => PagesApart(r, s)
    BY <1>1, <1>4 DEF Items
  <2>4. ASSUME r \in Z, s \in D, s.end = r.end
        PROVE  r.kind # "w" /\ s.kind # "w"
    <3>1. r.kind = "x"
      BY <1>1, <2>4
    <3>2. ASSUME s.kind = "w" PROVE FALSE
      <4>1. PagesApart(s, r)
        BY <1>4, <2>4, <3>1, <3>2
      <4>2. /\ PageOf(s.end) \in Int /\ PageOf(s.start) \in Int /\ PageOf(r.start) \in Int
            /\ PageOf(s.start) <= PageOf(s.end) /\ PageOf(r.start) <= PageOf(r.end)
        BY <2>1, PageIs, PagesInOrder
      <4> QED BY <2>4, <4>1, <4>2 DEF PagesApart
    <3> QED BY <3>1, <3>2
  <2>5. r.start < s.start => r.end < s.start \/ (r.kind # "w" /\ s.kind # "w" /\ s.end = r.end)
    <3> SUFFICES ASSUME r.start < s.start, ~ (r.end < s.start)
                 PROVE  r.kind # "w" /\ s.kind # "w" /\ s.end = r.end
      OBVIOUS
    <3>1. r # s /\ ~ Apart(r, s) /\ ~ (s.start < r.start)
      BY <2>1 DEF Apart
    <3>2. r \in Z /\ s \in D /\ s.end = r.end
      BY <1>5, <3>1
    <3> QED BY <2>4, <3>2
  <2> QED BY <2>2, <2>3, <2>5
<1> QED BY <1>6, <1>7 DEF ItemsAreApart

(* A gap that is filled is no reversed range and lies between the two.     *)
LEMMA GapIs ==
    ASSUME NEW l, LinkerMade(l), NEW r \in Items(l), NEW n \in Items(l),
           r.start < n.start, FillsGap(r, n)
    PROVE  /\ GapStart(r) \in Nat /\ GapEnd(n) \in Nat
           /\ r.end < GapStart(r) /\ GapStart(r) <= GapEnd(n) /\ GapEnd(n) < n.start
           /\ r.kind = "w" => PageOf(r.end) < PageOf(GapStart(r))
           /\ n.kind = "w" => PageOf(GapEnd(n)) < PageOf(n.start)
<1>1. /\ r.start \in Nat /\ r.end \in Nat /\ r.start <= r.end
      /\ n.start \in Nat /\ n.end \in Nat /\ n.start <= n.end
  BY ItemsAre DEF ItemsAreRanges
<1>2. /\ r.kind = "w" => r.end < n.start
      /\ n.kind = "w" /\ r.kind # "w" => PagesApart(n, r)
  BY <1>1, ItemsAre DEF ItemsAreApart
<1>3. /\ page_round_up(r.end + 1) \in Nat /\ r.end + 1 <= page_round_up(r.end + 1)
      /\ page_round_up(r.end + 1) <= r.end + PAGE_SIZE
      /\ PageOf(r.end) < PageOf(page_round_up(r.end + 1))
  <2>1. r.end + 1 \in Nat /\ r.end < r.end + 1 /\ r.end + 1 + PAGE_SIZE - 1 = r.end + PAGE_SIZE
    BY <1>1, SizesAre
  <2> QED BY <1>1, <2>1, RoundUp
<1>4. /\ page_round_down(n.start - 1) \in Int /\ page_round_down(n.start - 1) <= n.start - 1
      /\ PageOf(page_round_down(n.start - 1)) < PageOf(n.start)
  BY <1>1, RoundDown
<1>5. /\ GapStart(r) \in Nat /\ r.end < GapStart(r)
      /\ r.kind = "w" => PageOf(r.end) < PageOf(GapStart(r))
  BY <1>1, <1>3 DEF GapStart
<1>6. /\ GapEnd(n) \in Int /\ GapEnd(n) < n.start
      /\ n.kind = "w" => PageOf(GapEnd(n)) < PageOf(n.start)
  BY <1>1, <1>4 DEF GapEnd
<1>7. GapStart(r) - GapEnd(n) <= PAGE_SIZE
  <2>1. CASE r.kind = "w"
    <3>1. n.kind # "w"
      BY <2>1 DEF FillsGap
    <3>2. GapStart(r) = page_round_up(r.end + 1) /\ GapEnd(n) = n.start - 1
      BY <2>1, <3>1 DEF GapStart, GapEnd
    <3>3. r.end < n.start
      BY <1>2, <2>1
    <3>4. n.start - 1 >= r.end /\ PAGE_SIZE \in Nat
      BY <1>1, <3>3, SizesAre
    <3>5. page_round_up(r.end + 1) - (n.start - 1) <= PAGE_SIZE
      BY <1>1, <1>3, <3>4
    <3> QED BY <3>2, <3>5
  <2>2. CASE r.kind # "w" /\ n.kind = "w"
    <3>1. PageOf(r.end) < PageOf(n.start)
      <4>1. /\ PageOf(n.end) \in Int /\ PageOf(r.start) \in Int /\ PageOf(n.start) \in Int
            /\ PageOf(r.start) <= PageOf(n.end)
        BY <1>1, PageIs, PagesInOrder
      <4> QED BY <1>2, <2>2, <4>1 DEF PagesApart
    <3>2. r.end + 1 - page_round_down(n.start - 1) <= PAGE_SIZE
      BY <1>1, <3>1, RoundDown
    <3>3. GapStart(r) = r.end + 1 /\ GapEnd(n) = page_round_down(n.start - 1)
      BY <2>2 DEF GapStart, GapEnd
    <3> QED BY <1>1, <1>4, <3>2, <3>3
  <2>3. CASE r.kind # "w" /\ n.kind # "w"
    <3>1. r.end <= n.start
      BY DEF FillsGap
    <3>2. GapStart(r) = r.end + 1 /\ GapEnd(n) = n.start - 1
      BY <2>3 DEF GapStart, GapEnd
    <3> QED BY <1>1, <3>1, <3>2, SizesAre
  <2> QED BY <2>1, <2>2, <2>3
<1>8. ASSUME GapEnd(n) < GapStart(r)
      PROVE  FALSE
  <2>1. GapStart(r) - GapEnd(n) \in Nat
    BY <1>5, <1>6, <1>8
  <2>2. GapSize(r, n) \in Nat /\ GapSize(r, n) <= GapStart(r) - GapEnd(n)
    BY <2>1, ModIsNoMore, SizesAre DEF GapSize
  <2>3. GapSize(r, n) > MinimumDistance
    BY DEF FillsGap
  <2> QED BY <1>5, <1>6, <1>7, <2>2, <2>3, SizesAre
<1>9. GapStart(r) <= GapEnd(n) /\ GapEnd(n) \in Nat
  BY <1>5, <1>6, <1>8
<1> QED BY <1>5, <1>6, <1>9

(* It shares no page with a writable item, when nothing starts between.    *)
LEMMA GapPages ==
    ASSUME NEW l, LinkerMade(l), NEW r \in Items(l), NEW n \in Items(l),
           r.start < n.start, FillsGap(r, n),
           NEW w \in Items(l), w.kind = "w", w = r \/ w.start < r.start \/ n.start <= w.start
    PROVE  PageOf(w.end) < PageOf(GapStart(r)) \/ PageOf(GapEnd(n)) < PageOf(w.start)
<1>1. /\ r.start \in Nat /\ r.end \in Nat /\ r.start <= r.end
      /\ n.start \in Nat /\ n.end \in Nat /\ n.start <= n.end
      /\ w.start \in Nat /\ w.end \in Nat /\ w.start <= w.end
  BY ItemsAre DEF ItemsAreRanges
<1>2. /\ GapStart(r) \in Nat /\ GapEnd(n) \in Nat
      /\ r.end < GapStart(r) /\ GapStart(r) <= GapEnd(n) /\ GapEnd(n) < n.start
      /\ r.kind = "w" => PageOf(r.end) < PageOf(GapStart(r))
      /\ n.kind = "w" => PageOf(GapEnd(n)) < PageOf(n.start)
  BY GapIs
<1>3. /\ PageOf(r.start) \in Int /\ PageOf(r.end) \in Int /\ PageOf(n.start) \in Int
      /\ PageOf(n.end) \in Int /\ PageOf(w.start) \in Int /\ PageOf(w.end) \in Int
      /\ PageOf(GapStart(r)) \in Int /\ PageOf(GapEnd(n)) \in Int
  BY <1>1, <1>2, PageIs
<1>4. CASE w = r
  BY <1>2, <1>4
<1>5. CASE w.start < r.start
  <2>1. CASE r.kind = "w"
    <3>1. w.end < r.start
      BY <1>5, <2>1, ItemsAre DEF ItemsAreApart
    <3>2. w.end <= r.end
      BY <1>1, <3>1
    <3>3. PageOf(w.end) <= PageOf(r.end)
      BY <1>1, <3>2, PagesInOrder
    <3> QED BY <1>2, <1>3, <2>1, <3>3
  <2>2. CASE r.kind # "w"
    <3>1. PagesApart(w, r)
      BY <2>2, ItemsAre DEF ItemsAreApart
    <3>2. PageOf(w.start) <= PageOf(r.end) /\ w.start <= r.start
      BY <1>1, <1>5, PagesInOrder
    <3>3. PageOf(w.start) <= PageOf(w.end) /\ PageOf(w.start) <= PageOf(r.start)
      BY <1>1, <3>2, PagesInOrder
    <3>4. PageOf(w.end) < PageOf(r.start)
      BY <1>3, <3>1, <3>2 DEF PagesApart
    <3>5. PageOf(r.start) <= PageOf(GapStart(r))
      <4>1. r.start <= GapStart(r)
        BY <1>1, <1>2
      <4> QED BY <1>1, <1>2, <4>1, PagesInOrder
    <3> QED BY <1>3, <3>4, <3>5
  <2> QED BY <2>1, <2>2
<1>6. CASE n.start <= w.start
  <2>1. CASE n.kind = "w"
    <3>1. PageOf(n.start) <= PageOf(w.start)
      BY <1>1, <1>6, PagesInOrder
    <3> QED BY <1>2, <1>3, <2>1, <3>1
  <2>2. CASE n.kind # "w"
    <3>1. PagesApart(w, n)
      BY <2>2, ItemsAre DEF ItemsAreApart
    <3>2. PageOf(n.start) <= PageOf(w.end)
      <4>1. n.start <= w.end
        BY <1>1, <1>6
      <4> QED BY <1>1, <4>1, PagesInOrder
    <3>3. PageOf(n.end) < PageOf(w.start)
      BY <1>3, <3>1, <3>2 DEF PagesApart
    <3>4. PageOf(GapEnd(n)) <= PageOf(n.end)
      <4>1. GapEnd(n) <= n.end
        BY <1>1, <1>2
      <4> QED BY <1>1, <1>2, <4>1, PagesInOrder
    <3> QED BY <1>3, <3>3, <3>4
  <2> QED BY <2>1, <2>2
<1> QED BY <1>4, <1>5, <1>6

-----------------------------------------------------------------------------
(* The inductive invariant.  While gaps are filled, what is still to be    *)
(* looked at comes behind what was, and a scoop in a gap ends before it;   *)
(* all scoops end below the last section's end, above which the scoops     *)
(* without an address go, for which there is room.  Then every byte of a   *)
(* scoop is free, code or data.                                            *)
Finding == pc \in {"gaps", "unplaced"}

LayoutKept ==
    /\ layout \in Layouts
    /\ pc \in {"sections", "gaps"} => data = layout.data /\ unplaced = layout.unplaced
    /\ pc = "sections" => zipr_scoops = {} /\ free = {}

FillingGaps ==
    pc = "gaps" =>
        /\ max_addr = TopOf(layout) /\ zipr_scoops # {}
        /\ \A r \in Items(layout), s \in todo : s.start <= r.start => r \in todo
        /\ \A z \in zipr_scoops : \/ z \in SectionScoops(layout.sections)
                                  \/ \A s \in todo : z.end < s.start

BelowTop ==
    Finding => /\ TopOf(layout) <= max_addr
               /\ \A z \in zipr_scoops : z.end < TopOf(layout)
               /\ free = BytesOf(zipr_scoops)

(* No page below the last byte of the sections reaches up to a.            *)
AboveTop(a) == \A b \in Nat : b < TopOf(layout) => PageOf(b) < PageOf(a)

DataIsPlaced ==
    /\ \A d \in data : d.start <= d.end
    /\ Finding => /\ \A d \in data : d.end <= TopOf(layout) \/ d.end < max_addr
                  /\ pc = "unplaced" /\ todo # {} => AboveTop(max_addr)

RoomAbove(size) ==
    /\ \A x \in layout.unplaced : x.size <= size
    /\ max_addr + Cardinality(unplaced) * (PAGE_SIZE - 1 + ALIGNMENT - 1 + size) + PAGE_SIZE - 1
          <= LastAddress + (IF pc = "unplaced" /\ todo # {} THEN PAGE_SIZE - 1 ELSE 0)

RoomLeft == Finding => \E size \in 0 .. LastAddress : RoomAbove(size)

CodeAndData ==
    /\ pc \in {"sections", "gaps", "unplaced", "write"} => code = {}
    /\ pc \in {"write", "update"} => LastAddress \in free
    /\ pc = "write" => BytesOf(zipr_scoops) \subseteq free \cup BytesOf(data)
    /\ pc = "write" => free \subseteq BytesOf(zipr_scoops)
    /\ pc = "update" => BytesOf(todo) \subseteq free \cup code \cup BytesOf(data)
    /\ code \cap free = {} /\ code \subseteq BytesOf(zipr_scoops)
    /\ pc \in {"update", "done"} =>
          \A z \in zipr_scoops \ todo : {z.start, z.end} \subseteq code \cup BytesOf(data)

IInv == /\ FreeSpaceIsApart /\ PagesKeepPermissions
        /\ LayoutKept /\ FillingGaps /\ BelowTop /\ DataIsPlaced /\ RoomLeft /\ CodeAndData

LEMMA LayoutIs ==
    ASSUME IInv
    PROVE  /\ LinkerMade(layout) /\ TopOf(layout) \in Nat
           /\ PageOf(TopOf(layout)) \in Int
BY LayoutsAssumption, TopIs, PageIs DEF IInv, LayoutKept, LayoutsAssumption

-----------------------------------------------------------------------------
LEMMA InitOK == Init => IInv
<1> SUFFICES ASSUME Init PROVE IInv
  OBVIOUS
<1> USE DEF Init
<1>1. LinkerMade(layout)
  BY LayoutsAssumption DEF LayoutsAssumption
<1>2. FreeSpaceIsApart
  BY <1>1 DEF FreeSpaceIsApart, TypeOK, Proper, LinkerMade, Ranges
<1>3. PagesKeepPermissions /\ LayoutKept /\ FillingGaps /\ BelowTop /\ DataIsPlaced /\ RoomLeft
  BY <1>1 DEF PagesKeepPermissions, LayoutKept, FillingGaps, BelowTop, DataIsPlaced, RoomLeft,
              Finding, LinkerMade, Proper
<1>4. CodeAndData
  BY DEF CodeAndData, BytesOf
<1> QED BY <1>2, <1>3, <1>4 DEF IInv

LEMMA CreateStep ==
    ASSUME IInv, CreateExecutableScoops
    PROVE  IInv'
<1> DEFINE Z == SectionScoops(layout.sections)  top == TopOf(layout)
<1> USE DEF CreateExecutableScoops
<1>1. LinkerMade(layout) /\ top \in Nat
  BY LayoutIs
<1>2. /\ data = layout.data /\ unplaced = layout.unplaced /\ code = {} /\ layout \in Layouts
      /\ zipr_scoops' = Z /\ free' = BytesOf(Z) /\ max_addr' = top /\ todo' = Items(layout)
  BY DEF IInv, LayoutKept, CodeAndData, TopOf, Items
<1>3. /\ Z \subseteq [start : Nat, end : Nat, kind : {"x"}] /\ Proper(Z) /\ Z # {}
      /\ \A z \in Z : z.end < top /\ z.kind = "x" /\ z.start \in Nat /\ z.end \in Nat
  BY <1>1, SectionScoopsAreApart, SomeSectionScoop DEF Ranges
<1>4. TypeOK' /\ pc' = "gaps"
  <2>1. BytesOf(Z) \subseteq Nat
    BY <1>3 DEF BytesOf, BytesIn
  <2>2. layout.data \subseteq [start : Nat, end : Nat, kind : {"r", "w"}]
    BY <1>1 DEF LinkerMade, Ranges
  <2> QED BY <1>1, <1>2, <1>3, <2>1, <2>2 DEF TypeOK, Items
<1>5. PagesKeepPermissions'
  <2> SUFFICES ASSUME NEW z \in Z, NEW w \in Writeable(layout.data) PROVE PagesApart(z, w)
    BY <1>2 DEF PagesKeepPermissions
  <2>1. w \in Items(layout) /\ z \in Items(layout) /\ w.kind = "w" /\ z.kind = "x"
    BY <1>3 DEF Items, Writeable
  <2>2. PagesApart(w, z)
    BY <1>1, <2>1, ItemsAre DEF ItemsAreApart
  <2> QED BY <2>2 DEF PagesApart
<1>6. FreeSpaceIsApart' /\ LayoutKept' /\ CodeAndData'
  BY <1>2, <1>3, <1>4 DEF FreeSpaceIsApart, LayoutKept, CodeAndData
<1>7. FillingGaps' /\ BelowTop'
  BY <1>1, <1>2, <1>3 DEF FillingGaps, BelowTop
<1>8. DataIsPlaced'
  BY <1>1, <1>2, TopIs DEF DataIsPlaced, EndsWithData, LinkerMade, Proper
<1>9. RoomLeft'
  <2>1. RoomFor(layout.unplaced, top)
    BY <1>1, TopIs DEF EndsWithData
  <2>2. PICK size \in 0 .. LastAddress :
           /\ \A x \in layout.unplaced : x.size <= size
           /\ top + Cardinality(layout.unplaced) * (PAGE_SIZE - 1 + ALIGNMENT - 1 + size)
                  + PAGE_SIZE - 1 <= LastAddress
    BY <2>1 DEF RoomFor
  <2>3. pc' # "unplaced" /\ layout' = layout /\ unplaced' = layout.unplaced /\ max_addr' = top
    BY <1>2, <1>4
  <2>4. RoomAbove(size)'
    BY <2>2, <2>3, SizesAre DEF RoomAbove
  <2> QED BY <2>4 DEF RoomLeft
<1> QED BY <1>5, <1>6, <1>7, <1>8, <1>9 DEF IInv

(* The neighbours between which a gap is looked at.                        *)
LEMMA NeighboursAre ==
    ASSUME IInv, pc = "gaps", NEW r \in todo, r.start = StartOf(todo),
           NEW n \in todo, Neighbours(r, n)
    PROVE  /\ r \in Items(layout) /\ n \in Items(layout) /\ r.start < n.start
           /\ \A s \in todo : r.start <= s.start
           /\ \A s \in todo : s = r \/ n.start <= s.start
           /\ \A w \in Items(layout) : w = r \/ w.start < r.start \/ n.start <= w.start
<1>1. todo \subseteq Items(layout)
  BY DEF IInv, FreeSpaceIsApart, TypeOK, Items
<1>2. \A s \in Items(layout) : s.start \in Nat
  BY LayoutIs, ItemsAre DEF ItemsAreRanges
<1>3. \A s \in todo : r.start <= s.start
  <2>1. {s.start : s \in todo} \in SUBSET Nat /\ {s.start : s \in todo} # {}
    BY <1>1, <1>2
  <2> QED BY <2>1, MinIs DEF StartOf
<1>4. r.start < n.start /\ \A s \in todo : r.start < s.start => n.start <= s.start
  <2>1. /\ {s.start : s \in Following(todo, r)} \in SUBSET Nat
        /\ {s.start : s \in Following(todo, r)} # {}
    BY <1>1, <1>2 DEF Neighbours, Following
  <2>2. \A s \in Following(todo, r) : n.start <= s.start
    BY <2>1, MinIs DEF StartOf, Neighbours
  <2>3. \A s \in todo : r.start < s.start => s \in Following(todo, r)
    BY <1>1, <1>2 DEF Following
  <2>4. r.start < n.start
    BY <1>1, <1>2 DEF Neighbours, Following
  <2> QED BY <2>2, <2>3, <2>4
<1>5. \A s \in todo : s = r \/ n.start <= s.start
  <2> TAKE s \in todo
  <2>1. s.start = r.start => s = r
    BY <1>1, LayoutIs, ItemsAre DEF ItemsAreApart
  <2>2. r.start <= s.start /\ s.start \in Nat /\ r.start \in Nat
    BY <1>1, <1>2, <1>3
  <2> QED BY <1>4, <2>1, <2>2
<1>6. \A w \in Items(layout) : w = r \/ w.start < r.start \/ n.start <= w.start
  <2> TAKE w \in Items(layout)
  <2>1. r.start <= w.start => w \in todo
    BY DEF IInv, FillingGaps
  <2>2. w.start \in Nat /\ r.start \in Nat
    BY <1>1, <1>2
  <2> QED BY <1>5, <2>1, <2>2
<1> QED BY <1>1, <1>3, <1>4, <1>5, <1>6

LEMMA FillGapStep ==
    ASSUME IInv, FillGap
    PROVE  IInv'
<1> DEFINE Z == SectionScoops(layout.sections)  top == TopOf(layout)
<1>1. LinkerMade(layout) /\ top \in Nat
  BY LayoutIs
<1>2. PICK r \in todo, n \in todo :
         /\ r.start = StartOf(todo) /\ Neighbours(r, n) /\ todo' = todo \ {r}
         /\ zipr_scoops' = zipr_scoops \cup
              (IF FillsGap(r, n) THEN {Zipr(GapStart(r), GapEnd(n))} ELSE {})
         /\ free' = free \cup
              BytesOf(IF FillsGap(r, n) THEN {Zipr(GapStart(r), GapEnd(n))} ELSE {})
  BY DEF FillGap
<1>3. /\ pc = "gaps" /\ pc' = "gaps" /\ layout' = layout /\ data' = data /\ unplaced' = unplaced
      /\ max_addr' = max_addr /\ code' = code
  BY DEF FillGap
<1>4. /\ r \in Items(layout) /\ n \in Items(layout) /\ r.start < n.start
      /\ \A s \in todo : r.start <= s.start
      /\ \A s \in todo : s = r \/ n.start <= s.start
      /\ \A w \in Items(layout) : w = r \/ w.start < r.start \/ n.start <= w.start
  BY <1>2, <1>3, NeighboursAre
<1>5. /\ r.start \in Nat /\ r.end \in Nat /\ r.start <= r.end
      /\ n.start \in Nat /\ n.end \in Nat /\ n.start <= n.end /\ n.end <= top
  BY <1>1, <1>4, ItemsAre DEF ItemsAreRanges
<1> DEFINE g == Zipr(GapStart(r), GapEnd(n))
<1>6. ASSUME FillsGap(r, n)
      PROVE  /\ g.start \in Nat /\ g.end \in Nat /\ g.kind = "x" /\ g.start <= g.end
             /\ g \in [start : Nat, end : Nat, kind : {"x"}]
             /\ r.end < g.start /\ g.end < n.start
             /\ g.start = GapStart(r) /\ g.end = GapEnd(n)
  BY <1>1, <1>4, <1>6, GapIs DEF Zipr
<1>7. \A z \in zipr_scoops' : z \in zipr_scoops \/ (z = g /\ FillsGap(r, n))
  BY <1>2
<1>8. \A z \in zipr_scoops : z.start \in Nat /\ z.end \in Nat /\ z.start <= z.end
  BY DEF IInv, FreeSpaceIsApart, TypeOK, Proper
<1> HIDE DEF g
<1>9. TypeOK'
  <2>1. TypeOK
    BY DEF IInv, FreeSpaceIsApart
  <2>2. free' = free \cup (IF FillsGap(r, n) THEN BytesIn(g) ELSE {})
    BY <1>2 DEF g, BytesOf
  <2>3. FillsGap(r, n) => BytesIn(g) \subseteq Nat
    BY <1>6 DEF BytesIn
  <2>4. free' \subseteq Nat
    BY <2>1, <2>2, <2>3 DEF TypeOK
  <2>5. zipr_scoops' \subseteq [start : Nat, end : Nat, kind : {"x"}]
    BY <1>6, <1>7, <2>1 DEF TypeOK
  <2> QED BY <1>2, <1>3, <2>1, <2>4, <2>5 DEF TypeOK
<1>10. ASSUME FillsGap(r, n), NEW z \in zipr_scoops
       PROVE  z.end < g.start \/ g.end < z.start
  <2>1. CASE z \in Z
    <3>1. z \in Items(layout)
      BY <2>1 DEF Items
    <3>2. CASE z = r
      BY <1>6, <1>10, <3>2
    <3>3. CASE z.start < r.start
      <4>1. z.end < r.start \/ z.end = r.end
        BY <1>1, <1>4, <3>1, <3>3, ItemsAre DEF ItemsAreApart
      <4> QED BY <1>5, <1>6, <1>8, <1>10, <4>1
    <3>4. CASE n.start <= z.start
      BY <1>5, <1>6, <1>8, <1>10, <3>4
    <3> QED BY <1>4, <3>1, <3>2, <3>3, <3>4
  <2>2. CASE \A s \in todo : z.end < s.start
    BY <1>2, <1>5, <1>6, <1>8, <1>10, <2>2
  <2> QED BY <1>3, <2>1, <2>2 DEF IInv, FillingGaps
<1>11. Proper(zipr_scoops')
  <2> SUFFICES ASSUME NEW y \in zipr_scoops', NEW z \in zipr_scoops'
               PROVE  y.start <= y.end /\ (y # z => Apart(y, z))
    BY DEF Proper
  <2>1. y.start <= y.end
    BY <1>6, <1>7, <1>8
  <2>2. CASE y \in zipr_scoops /\ z \in zipr_scoops
    BY <2>1, <2>2 DEF IInv, FreeSpaceIsApart, Proper
  <2>3. CASE y \in zipr_scoops /\ z = g /\ FillsGap(r, n)
    BY <1>10, <2>1, <2>3 DEF Apart
  <2>4. CASE z \in zipr_scoops /\ y = g /\ FillsGap(r, n)
    BY <1>10, <2>1, <2>4 DEF Apart
  <2> QED BY <1>7, <2>1, <2>2, <2>3, <2>4
<1>12. FreeSpaceIsApart'
  BY <1>3, <1>9, <1>11 DEF FreeSpaceIsApart
<1>13. PagesKeepPermissions'
  <2> SUFFICES ASSUME NEW z \in zipr_scoops', NEW w \in Writeable(data)
               PROVE  PagesApart(z, w) \/ OnLastByte(z, w)
    BY <1>3 DEF PagesKeepPermissions, OnLastByte
  <2>1. CASE z \in zipr_scoops
    BY <2>1 DEF IInv, PagesKeepPermissions
  <2>2. CASE z = g /\ FillsGap(r, n)
    <3>1. w \in Items(layout) /\ w.kind = "w"
      BY <1>3 DEF IInv, LayoutKept, Items, Writeable
    <3>2. PageOf(w.end) < PageOf(GapStart(r)) \/ PageOf(GapEnd(n)) < PageOf(w.start)
      BY <1>1, <1>4, <2>2, <3>1, GapPages
    <3> QED BY <1>6, <2>2, <3>2 DEF PagesApart
  <2> QED BY <1>7, <2>1, <2>2
<1>14. FillingGaps'
  <2>1. max_addr' = TopOf(layout') /\ data' = layout'.data /\ zipr_scoops' # {}
    BY <1>2, <1>3 DEF IInv, FillingGaps, LayoutKept
  <2>2. ASSUME NEW v \in Items(layout), NEW s \in todo', s.start <= v.start
        PROVE  v \in todo'
    <3>1. v \in todo /\ n.start <= s.start /\ s \in todo
      BY <1>2, <1>3, <1>4, <2>2 DEF IInv, FillingGaps
    <3>2. s.start \in Nat /\ v.start \in Nat
      <4>1. s \in Items(layout)
        BY <1>3, <3>1 DEF IInv, FreeSpaceIsApart, TypeOK, Items
      <4> QED BY <1>1, <4>1, ItemsAre DEF ItemsAreRanges
    <3>3. v # r
      BY <1>4, <1>5, <2>2, <3>1, <3>2
    <3> QED BY <1>2, <3>1, <3>3
  <2>3. ASSUME NEW z \in zipr_scoops'
        PROVE  z \in Z \/ \A s \in todo' : z.end < s.start
    <3>1. CASE z \in zipr_scoops
      BY <1>2, <1>3, <3>1 DEF IInv, FillingGaps
    <3>2. CASE z = g /\ FillsGap(r, n)
      <4> SUFFICES ASSUME NEW s \in todo' PROVE z.end < s.start
        OBVIOUS
      <4>1. n.start <= s.start /\ s \in Items(layout)
        BY <1>2, <1>3, <1>4 DEF IInv, FreeSpaceIsApart, TypeOK, Items
      <4>2. s.start \in Nat
        BY <1>1, <4>1, ItemsAre DEF ItemsAreRanges
      <4> QED BY <1>5, <1>6, <3>2, <4>1, <4>2
    <3> QED BY <1>7, <3>1, <3>2
  <2> QED BY <1>3, <2>1, <2>2, <2>3 DEF FillingGaps
<1>15. BelowTop'
  <2>1. BelowTop /\ Finding /\ Finding'
    BY <1>3 DEF IInv, Finding
  <2>2. ASSUME NEW z \in zipr_scoops' PROVE z.end < top
    <3>1. FillsGap(r, n) => g.end < top
      BY <1>1, <1>5, <1>6
    <3> QED BY <1>7, <2>1, <3>1 DEF BelowTop
  <2>3. free' = BytesOf(zipr_scoops')
    BY <1>2, <2>1 DEF BelowTop, BytesOf
  <2> QED BY <1>3, <2>1, <2>2, <2>3 DEF BelowTop
<1>16. DataIsPlaced' /\ RoomLeft'
  BY <1>3 DEF IInv, DataIsPlaced, RoomLeft, RoomAbove, Finding
<1>17. LayoutKept' /\ CodeAndData'
  BY <1>3 DEF IInv, LayoutKept, CodeAndData
<1> QED BY <1>12, <1>13, <1>14, <1>15, <1>16, <1>17 DEF IInv

LEMMA GapsDoneStep ==
    ASSUME IInv, GapsDone
    PROVE  IInv'
<1>1. /\ pc = "gaps" /\ todo' = {} /\ layout' = layout /\ data' = data /\ unplaced' = unplaced
      /\ max_addr' = max_addr /\ code' = code /\ zipr_scoops' = zipr_scoops /\ free' = free
  BY DEF GapsDone
<1>2. Finding /\ TopOf(layout) \in Nat
  BY <1>1, LayoutIs DEF Finding
<1>3. pc' = "unplaced"
  <2> DEFINE E == {x.end : x \in zipr_scoops}
  <2>1. zipr_scoops # {} /\ max_addr = TopOf(layout)
    BY <1>1 DEF IInv, FillingGaps
  <2>2. \A z \in zipr_scoops : z.end \in Nat /\ z.end <= TopOf(layout)
    BY <1>2 DEF IInv, FreeSpaceIsApart, TypeOK, BelowTop
  <2>3. E \in SUBSET Nat /\ E # {} /\ \A e \in E : e <= TopOf(layout)
    BY <2>1, <2>2
  <2>4. Max(E) \in E
    BY <1>2, <2>3, MaxIs
  <2> HIDE DEF E
  <2>5. Max(E) \in Nat /\ Max(E) <= TopOf(layout)
    BY <2>3, <2>4
  <2>6. max_addr >= Max(E)
    BY <1>2, <2>1, <2>5
  <2> QED BY <2>6 DEF GapsDone, E
<1>4. FreeSpaceIsApart' /\ PagesKeepPermissions'
  BY <1>1, <1>3 DEF IInv, FreeSpaceIsApart, TypeOK, PagesKeepPermissions, OnLastByte
<1>5. LayoutKept' /\ FillingGaps' /\ BelowTop' /\ DataIsPlaced'
  BY <1>1, <1>2, <1>3 DEF IInv, LayoutKept, FillingGaps, BelowTop, DataIsPlaced, Finding
<1>6. RoomLeft'
  <2>1. PICK size \in 0 .. LastAddress : RoomAbove(size)
    BY <1>2 DEF IInv, RoomLeft
  <2>2. RoomAbove(size)'
    BY <1>1, <2>1 DEF RoomAbove
  <2> QED BY <2>2 DEF RoomLeft
<1>7. CodeAndData'
  BY <1>1, <1>3 DEF IInv, CodeAndData
<1> QED BY <1>4, <1>5, <1>6, <1>7 DEF IInv

(* Placing a scoop and rounding up take no more than the room for it.      *)
LEMMA RoomForRounding ==
    ASSUME NEW m \in Nat, NEW n \in Nat, NEW room \in Nat, NEW page \in Nat, NEW end \in Nat,
           n <= m + page - 1, m + room + page - 1 <= end
    PROVE  n + room + page - 1 <= end + (page - 1)
OBVIOUS

LEMMA RoomForScoop ==
    ASSUME NEW m \in Nat, NEW n \in Nat, NEW room \in Int, NEW page \in Nat, NEW end \in Nat,
           NEW align \in Nat, NEW size \in Nat,
           n <= m + align - 1 + size,
           m + (room + (page - 1 + align - 1 + size)) + page - 1 <= end + (page - 1)
    PROVE  n + room + page - 1 <= end
OBVIOUS

(* Scoops without an address, as long as there are some.                   *)
LEMMA UnplacedIs ==
    ASSUME IInv
    PROVE  /\ IsFiniteSet(unplaced) /\ Cardinality(unplaced) \in Nat
           /\ \A x \in unplaced : /\ x \in layout.unplaced /\ x.size \in Nat \ {0}
                                  /\ x.perms \in Nat /\ x.kind \in {"r", "w"}
           /\ \A x \in unplaced : Cardinality(unplaced \ {x}) = Cardinality(unplaced) - 1
<1>1. unplaced \subseteq layout.unplaced /\ IsFiniteSet(layout.unplaced)
  BY LayoutIs DEF IInv, FreeSpaceIsApart, TypeOK, LinkerMade
<1>2. IsFiniteSet(unplaced)
  BY <1>1, FS_Subset
<1>3. Cardinality(unplaced) \in Nat
  BY <1>2, FS_CardinalityType
<1>4. \A x \in unplaced : Cardinality(unplaced \ {x}) = Cardinality(unplaced) - 1
  BY <1>2, FS_RemoveElement
<1> QED BY <1>1, <1>2, <1>3, <1>4, LayoutIs DEF LinkerMade

LEMMA BeginPermissionsStep ==
    ASSUME IInv, BeginPermissions
    PROVE  IInv'
<1> DEFINE top == TopOf(layout)
<1>1. /\ pc = "unplaced" /\ todo = {} /\ unplaced # {} /\ max_addr' = page_round_up(max_addr)
      /\ layout' = layout /\ data' = data /\ unplaced' = unplaced /\ pc' = pc
      /\ code' = code /\ zipr_scoops' = zipr_scoops /\ free' = free
      /\ todo' = {x \in unplaced : x.perms = Min({y.perms : y \in unplaced})}
  BY DEF BeginPermissions
<1>2. Finding /\ top \in Nat /\ max_addr \in Nat /\ top <= max_addr
  BY <1>1, LayoutIs DEF IInv, BelowTop, Finding, FreeSpaceIsApart, TypeOK
<1>3. todo' # {} /\ todo' \subseteq unplaced
  <2>1. {y.perms : y \in unplaced} \in SUBSET Nat /\ {y.perms : y \in unplaced} # {}
    BY <1>1, UnplacedIs
  <2>2. Min({y.perms : y \in unplaced}) \in {y.perms : y \in unplaced}
    BY <2>1, MinIs
  <2> QED BY <1>1, <2>2
<1>4. /\ max_addr' \in Nat /\ max_addr <= max_addr' /\ max_addr' <= max_addr + PAGE_SIZE - 1
      /\ \A b \in Nat : b < top => PageOf(b) < PageOf(max_addr')
  <2>1. max_addr' \in Nat /\ max_addr <= max_addr' /\ max_addr' <= max_addr + PAGE_SIZE - 1
    BY <1>1, <1>2, RoundUp
  <2>2. \A b \in Nat : b < top => b < max_addr
    BY <1>2
  <2> QED BY <1>1, <1>2, <2>1, <2>2, RoundUp
<1>5. FreeSpaceIsApart' /\ PagesKeepPermissions'
  BY <1>1, <1>3, <1>4 DEF IInv, FreeSpaceIsApart, TypeOK, PagesKeepPermissions, OnLastByte
<1>6. LayoutKept' /\ FillingGaps' /\ CodeAndData'
  BY <1>1 DEF IInv, LayoutKept, FillingGaps, CodeAndData
<1>7. BelowTop'
  BY <1>1, <1>2, <1>4 DEF IInv, BelowTop, Finding
<1>8. DataIsPlaced'
  <2>1. ASSUME NEW d \in data PROVE d.end <= top \/ d.end < max_addr'
    <3>1. d.end \in Nat /\ (d.end <= top \/ d.end < max_addr)
      BY <1>2 DEF IInv, FreeSpaceIsApart, TypeOK, DataIsPlaced
    <3> QED BY <1>2, <1>4, <3>1
  <2>2. AboveTop(max_addr)'
    BY <1>1, <1>4 DEF AboveTop
  <2> QED BY <1>1, <1>2, <2>1, <2>2 DEF IInv, DataIsPlaced
<1>9. RoomLeft'
  <2>1. PICK size \in 0 .. LastAddress : RoomAbove(size)
    BY <1>2 DEF IInv, RoomLeft
  <2> DEFINE room == Cardinality(unplaced) * (PAGE_SIZE - 1 + ALIGNMENT - 1 + size)
  <2>2. room \in Nat
    BY UnplacedIs, SizesAre
  <2>3. max_addr + room + PAGE_SIZE - 1 <= LastAddress
    BY <1>1, <2>1, SizesAre DEF RoomAbove
  <2> HIDE DEF room
  <2>4. max_addr' + room + PAGE_SIZE - 1 <= LastAddress + (PAGE_SIZE - 1)
    <3>1. PAGE_SIZE \in Nat /\ LastAddress \in Nat
      BY SizesAre
    <3> QED BY <1>2, <1>4, <2>2, <2>3, <3>1, RoomForRounding
  <2>5. RoomAbove(size)'
    BY <1>1, <1>3, <2>1, <2>4 DEF RoomAbove, room
  <2> QED BY <2>5 DEF RoomLeft
<1> QED BY <1>5, <1>6, <1>7, <1>8, <1>9 DEF IInv

LEMMA PlaceScoopStep ==
    ASSUME IInv, NEW x \in todo, PlaceScoop(x)
    PROVE  IInv'
<1> DEFINE top == TopOf(layout)
           a == align_up_to(max_addr, ALIGNMENT)
           d == [start |-> a, end |-> a + x.size - 1, kind |-> x.kind]
<1>1. /\ pc = "unplaced" /\ max_addr' = a + x.size /\ data' = data \cup {d}
      /\ todo' = todo \ {x} /\ unplaced' = unplaced \ {x} /\ layout' = layout /\ pc' = pc
      /\ code' = code /\ zipr_scoops' = zipr_scoops /\ free' = free
  BY DEF PlaceScoop
<1>2. /\ Finding /\ top \in Nat /\ max_addr \in Nat /\ top <= max_addr
      /\ \A b \in Nat : b < top => PageOf(b) < PageOf(max_addr)
  BY <1>1, LayoutIs DEF IInv, BelowTop, DataIsPlaced, Finding, FreeSpaceIsApart, TypeOK, AboveTop
<1>3. x \in unplaced /\ x.size \in Nat \ {0} /\ x.kind \in {"r", "w"}
  BY <1>1, UnplacedIs DEF IInv, FreeSpaceIsApart, TypeOK
<1>4. a \in Nat /\ max_addr <= a /\ a <= max_addr + ALIGNMENT - 1
  BY <1>2, AlignUp, SizesAre
<1>5. PageOf(max_addr) <= PageOf(a)
  BY <1>2, <1>4, PagesInOrder
<1> HIDE DEF a
<1>6. d.start = a /\ d.end = a + x.size - 1 /\ d.kind = x.kind /\ d.end \in Nat
  BY <1>3, <1>4
<1>7. max_addr' \in Nat /\ max_addr < max_addr' /\ d.end < max_addr'
  BY <1>1, <1>2, <1>3, <1>4, <1>6
<1>8. \A b \in Nat : b < top => PageOf(b) < PageOf(a)
  BY <1>2, <1>4, <1>5, PageIs
<1>9. TypeOK'
  <2>1. d \in [start : Nat, end : Nat, kind : {"r", "w"}]
    BY <1>3, <1>4, <1>6
  <2> QED BY <1>1, <1>7, <2>1 DEF IInv, FreeSpaceIsApart, TypeOK
<1> HIDE DEF d
<1>10. FreeSpaceIsApart'
  BY <1>1, <1>9 DEF IInv, FreeSpaceIsApart
<1>11. PagesKeepPermissions'
  <2> SUFFICES ASSUME NEW z \in zipr_scoops, NEW w \in Writeable(data)'
               PROVE  PagesApart(z, w) \/ OnLastByte(z, w)
    BY <1>1 DEF PagesKeepPermissions, OnLastByte
  <2>1. CASE w \in data
    BY <2>1 DEF IInv, PagesKeepPermissions, Writeable
  <2>2. CASE w = d
    <3>1. z.end \in Nat /\ z.end < top
      BY <1>2 DEF IInv, BelowTop, FreeSpaceIsApart, TypeOK
    <3>2. PageOf(z.end) < PageOf(a)
      BY <1>8, <3>1
    <3> QED BY <1>6, <2>2, <3>2 DEF PagesApart
  <2> QED BY <1>1, <2>1, <2>2 DEF Writeable
<1>12. LayoutKept' /\ FillingGaps' /\ CodeAndData'
  BY <1>1 DEF IInv, LayoutKept, FillingGaps, CodeAndData
<1>13. BelowTop'
  BY <1>1, <1>2, <1>7 DEF IInv, BelowTop, Finding
<1>14. DataIsPlaced'
  <2>1. ASSUME NEW e \in data' PROVE e.end <= top \/ e.end < max_addr'
    <3>1. CASE e \in data
      <4>1. e.end \in Nat /\ (e.end <= top \/ e.end < max_addr)
        BY <1>2, <3>1 DEF IInv, FreeSpaceIsApart, TypeOK, DataIsPlaced
      <4> QED BY <1>2, <1>7, <4>1
    <3>2. CASE e = d
      BY <1>7, <3>2
    <3> QED BY <1>1, <3>1, <3>2
  <2>2. ASSUME NEW e \in data' PROVE e.start <= e.end
    <3>1. CASE e \in data
      BY <3>1 DEF IInv, DataIsPlaced
    <3>2. CASE e = d
      BY <1>3, <1>4, <1>6, <3>2
    <3> QED BY <1>1, <3>1, <3>2
  <2>3. AboveTop(max_addr)'
    <3>1. PageOf(a) <= PageOf(max_addr')
      <4>1. a <= max_addr'
        BY <1>1, <1>3, <1>4
      <4> QED BY <1>4, <1>7, <4>1, PagesInOrder
    <3>2. \A b \in Nat : b < top => PageOf(b) < PageOf(max_addr')
      BY <1>4, <1>7, <1>8, <3>1, PageIs
    <3> QED BY <1>1, <3>2 DEF AboveTop
  <2> QED BY <1>1, <2>1, <2>2, <2>3 DEF DataIsPlaced
<1>15. RoomLeft'
  <2>1. PICK size \in 0 .. LastAddress : RoomAbove(size)
    BY <1>2 DEF IInv, RoomLeft
  <2> DEFINE step == PAGE_SIZE - 1 + ALIGNMENT - 1 + size
             n == Cardinality(unplaced)
  <2>2. n \in Nat /\ Cardinality(unplaced \ {x}) = n - 1 /\ size \in Nat /\ x.size <= size
    BY <1>3, <2>1, UnplacedIs, SizesAre DEF RoomAbove
  <2>3. step \in Nat /\ (n - 1) * step \in Int /\ n * step = (n - 1) * step + step
    BY <2>2, SizesAre
  <2>4. max_addr + n * step + PAGE_SIZE - 1 <= LastAddress + (PAGE_SIZE - 1)
    BY <1>1, <2>1 DEF RoomAbove
  <2>5. max_addr' <= max_addr + ALIGNMENT - 1 + size
    BY <1>1, <1>2, <1>3, <1>4, <2>2, SizesAre
  <2> DEFINE less == (n - 1) * step
  <2>6. less \in Int /\ max_addr + (less + step) + PAGE_SIZE - 1 <= LastAddress + (PAGE_SIZE - 1)
    BY <2>3, <2>4
  <2> HIDE DEF less, n
  <2>7. max_addr' + less + PAGE_SIZE - 1 <= LastAddress
    <3>1. PAGE_SIZE \in Nat /\ LastAddress \in Nat /\ ALIGNMENT \in Nat
      BY SizesAre
    <3> QED BY <1>2, <1>7, <2>2, <2>5, <2>6, <3>1, RoomForScoop
  <2>8. max_addr' + less + PAGE_SIZE - 1
          <= LastAddress + (IF pc' = "unplaced" /\ todo' # {} THEN PAGE_SIZE - 1 ELSE 0)
    <3>1. PAGE_SIZE - 1 \in Nat /\ LastAddress \in Nat /\ LastAddress + 0 = LastAddress
      BY SizesAre
    <3>2. max_addr' + less + PAGE_SIZE - 1 \in Int
      BY <1>7, <2>6, SizesAre
    <3>3. LastAddress <= LastAddress + (PAGE_SIZE - 1) /\ LastAddress + (PAGE_SIZE - 1) \in Nat
      BY <3>1
    <3>4. max_addr' + less + PAGE_SIZE - 1 <= LastAddress + (PAGE_SIZE - 1)
      BY <2>7, <3>1, <3>2, <3>3
    <3> QED BY <2>7, <3>1, <3>4
  <2>9. RoomAbove(size)'
    BY <1>1, <2>1, <2>2, <2>8 DEF RoomAbove, less
  <2> QED BY <2>9 DEF RoomLeft
<1> QED BY <1>10, <1>11, <1>12, <1>13, <1>14, <1>15 DEF IInv

LEMMA AddOverflowStep ==
    ASSUME IInv, AddOverflow
    PROVE  IInv'
<1> DEFINE top == TopOf(layout)
<1>1. /\ pc = "unplaced" /\ unplaced = {} /\ todo = {} /\ pc' = "write"
      /\ zipr_scoops' = zipr_scoops \cup {Overflow}
      /\ free' = (free \cup BytesIn(Overflow)) \ BytesOf(data)
      /\ layout' = layout /\ data' = data /\ unplaced' = unplaced /\ max_addr' = max_addr
      /\ code' = code /\ todo' = todo
  BY DEF AddOverflow
<1>2. Finding /\ top \in Nat /\ max_addr \in Nat /\ top <= max_addr
  BY <1>1, LayoutIs DEF IInv, BelowTop, Finding, FreeSpaceIsApart, TypeOK
<1>3. max_addr + PAGE_SIZE - 1 <= LastAddress
  <2>1. PICK size \in 0 .. LastAddress : RoomAbove(size)
    BY <1>2 DEF IInv, RoomLeft
  <2>2. Cardinality(unplaced) = 0
    BY <1>1, FS_EmptySet
  <2>3. Cardinality(unplaced) * (PAGE_SIZE - 1 + ALIGNMENT - 1 + size) = 0
    BY <2>2, SizesAre
  <2> QED BY <1>1, <1>2, <2>1, <2>3, SizesAre DEF RoomAbove
<1> DEFINE start == page_round_up(max_addr)
<1>4. start \in Nat /\ max_addr <= start /\ start <= LastAddress
  BY <1>2, <1>3, RoundUp, SizesAre
<1>5. ASSUME NEW d \in data
      PROVE  /\ d.end \in Nat /\ d.end < LastAddress
             /\ \/ PageOf(d.end) < PageOf(start)
                \/ start = d.end /\ d.end = top /\ d.end % PAGE_SIZE = 0
  <2>1. d.end \in Nat /\ (d.end <= top \/ d.end < max_addr)
    BY <1>2 DEF IInv, FreeSpaceIsApart, TypeOK, DataIsPlaced
  <2>2. d.end < LastAddress
    BY <1>2, <1>3, <2>1, SizesAre
  <2>3. CASE d.end < max_addr
    BY <1>2, <2>1, <2>2, <2>3, RoundUp
  <2>4. CASE d.end = top /\ top = max_addr
    <3>1. CASE top % PAGE_SIZE # 0
      BY <1>2, <2>1, <2>2, <2>4, <3>1, RoundUp
    <3>2. CASE top % PAGE_SIZE = 0
      BY <1>2, <2>1, <2>2, <2>4, <3>2, RoundUpOfPage
    <3> QED BY <3>1, <3>2
  <2> QED BY <1>2, <2>1, <2>3, <2>4
<1> HIDE DEF start
<1>6. /\ Overflow.start = start /\ Overflow.end = LastAddress /\ Overflow.kind = "x"
      /\ Overflow \in [start : Nat, end : Nat, kind : {"x"}]
  BY <1>4, SizesAre DEF Overflow, Zipr, start
<1>7. \A z \in zipr_scoops : z.start \in Nat /\ z.end \in Nat /\ z.start <= z.end /\ z.end < start
  <2> TAKE z \in zipr_scoops
  <2>1. z.start \in Nat /\ z.end \in Nat /\ z.start <= z.end /\ z.end < top
    BY <1>2 DEF IInv, FreeSpaceIsApart, TypeOK, Proper, BelowTop
  <2> QED BY <1>2, <1>4, <2>1
<1>8. BytesOf(zipr_scoops') = BytesOf(zipr_scoops) \cup BytesIn(Overflow)
  BY <1>1 DEF BytesOf
<1>9. BytesIn(Overflow) \subseteq Nat /\ LastAddress \in BytesIn(Overflow)
  BY <1>4, <1>6, SizesAre DEF BytesIn
<1>10. TypeOK'
  BY <1>1, <1>6, <1>9 DEF IInv, FreeSpaceIsApart, TypeOK
<1>11. Proper(zipr_scoops')
  <2> SUFFICES ASSUME NEW y \in zipr_scoops', NEW z \in zipr_scoops'
               PROVE  y.start <= y.end /\ (y # z => Apart(y, z))
    BY DEF Proper
  <2>1. CASE y \in zipr_scoops /\ z \in zipr_scoops
    BY <2>1 DEF IInv, FreeSpaceIsApart, Proper
  <2>2. CASE y = Overflow
    BY <1>1, <1>4, <1>6, <1>7, <2>2 DEF Apart
  <2>3. CASE z = Overflow
    BY <1>1, <1>4, <1>6, <1>7, <2>3 DEF Apart
  <2> QED BY <1>1, <2>1, <2>2, <2>3
<1>12. PagesKeepPermissions'
  <2> SUFFICES ASSUME NEW z \in zipr_scoops', NEW w \in Writeable(data)
               PROVE  PagesApart(z, w) \/ OnLastByte(z, w)
    BY <1>1 DEF PagesKeepPermissions, OnLastByte
  <2>1. CASE z \in zipr_scoops
    BY <2>1 DEF IInv, PagesKeepPermissions
  <2>2. CASE z = Overflow
    BY <1>5, <1>6, <2>2 DEF PagesApart, OnLastByte, Writeable
  <2> QED BY <1>1, <2>1, <2>2
<1>13. FreeSpaceIsApart'
  BY <1>1, <1>10, <1>11 DEF FreeSpaceIsApart
<1>14. LayoutKept' /\ FillingGaps' /\ BelowTop' /\ DataIsPlaced' /\ RoomLeft'
  BY <1>1 DEF IInv, LayoutKept, FillingGaps, BelowTop, DataIsPlaced, RoomLeft, Finding
<1>15. LastAddress \notin BytesOf(data)
  <2> SUFFICES ASSUME NEW d \in data, LastAddress \in d.start .. d.end PROVE FALSE
    BY DEF BytesOf, BytesIn
  <2>1. LastAddress <= d.end
    BY DEF IInv, FreeSpaceIsApart, TypeOK
  <2> QED BY <1>5, <2>1, SizesAre
<1>16. CodeAndData'
  <2>1. code = {} /\ free = BytesOf(zipr_scoops)
    BY <1>1, <1>2 DEF IInv, CodeAndData, BelowTop
  <2>2. LastAddress \in free'
    BY <1>1, <1>9, <1>15
  <2>3. BytesOf(zipr_scoops') \subseteq free' \cup BytesOf(data) /\ free' \subseteq BytesOf(zipr_scoops')
    BY <1>1, <1>8, <2>1
  <2> QED BY <1>1, <2>1, <2>2, <2>3 DEF CodeAndData
<1> QED BY <1>12, <1>13, <1>14, <1>16 DEF IInv

LEMMA WriteCodeStep ==
    ASSUME IInv, NEW S \in SUBSET (free \ {LastAddress}), WriteCode(S)
    PROVE  IInv'
<1>1. /\ pc = "write" /\ pc' = "update" /\ code' = S /\ free' = free \ S /\ todo' = zipr_scoops
      /\ layout' = layout /\ data' = data /\ unplaced' = unplaced /\ max_addr' = max_addr
      /\ zipr_scoops' = zipr_scoops
  BY DEF WriteCode
<1>2. FreeSpaceIsApart' /\ PagesKeepPermissions'
  BY <1>1 DEF IInv, FreeSpaceIsApart, TypeOK, PagesKeepPermissions, OnLastByte
<1>3. LayoutKept' /\ FillingGaps' /\ BelowTop' /\ DataIsPlaced' /\ RoomLeft'
  BY <1>1 DEF IInv, LayoutKept, FillingGaps, BelowTop, DataIsPlaced, RoomLeft, Finding
<1>4. CodeAndData'
  BY <1>1 DEF IInv, CodeAndData
<1> QED BY <1>2, <1>3, <1>4 DEF IInv

(* What is cut off a scoop is free, and what is left of it begins and ends *)
(* with a byte that is not.                                                *)
LEMMA UpdateScoopStep ==
    ASSUME IInv, NEW z \in zipr_scoops, UpdateScoop(z)
    PROVE  IInv'
<1> DEFINE end  == IF z.end = LastAddress THEN LastFreeStart ELSE z.end
           busy == (z.start .. end) \ free
           cut  == Zipr(Min(busy), Max(busy))
           new  == IF busy = {} THEN {} ELSE {cut}
<1>1. /\ pc = "update" /\ z \in todo /\ pc' \in {"update", "done"}
      /\ zipr_scoops' = (zipr_scoops \ {z}) \cup new /\ todo' = todo \ {z}
      /\ pc' = "done" => todo' = {}
      /\ layout' = layout /\ data' = data /\ unplaced' = unplaced /\ max_addr' = max_addr
      /\ free' = free /\ code' = code
  BY DEF UpdateScoop
<1>2. /\ z.start \in Nat /\ z.end \in Nat /\ z.start <= z.end /\ z.kind = "x"
      /\ free \subseteq Nat /\ code \subseteq Nat /\ LastAddress \in free /\ LastAddress \in Nat
      /\ code \cap free = {} /\ todo \subseteq zipr_scoops
  BY <1>1, SizesAre DEF IInv, FreeSpaceIsApart, TypeOK, Proper, CodeAndData
<1>3. /\ end \in Nat /\ end <= z.end
      /\ \A c \in BytesIn(z) \cap code : c <= end
  <2>1. CASE z.end # LastAddress
    BY <1>2, <2>1 DEF BytesIn
  <2>2. CASE z.end = LastAddress
    <3> DEFINE F == {a \in free : a .. LastAddress \subseteq free}
    <3>1. LastAddress \in F
      <4>1. LastAddress .. LastAddress = {LastAddress}
        BY <1>2
      <4> QED BY <1>2, <4>1
    <3>2. F \in SUBSET Nat /\ F # {}
      BY <1>2, <3>1
    <3>3. Min(F) \in F /\ \A x \in F : Min(F) <= x
      BY <3>2, MinIs
    <3>4. end = Min(F)
      BY <2>2 DEF LastFreeStart
    <3>5. Min(F) .. LastAddress \subseteq free /\ Min(F) \in Nat /\ Min(F) <= LastAddress
      BY <1>2, <3>1, <3>3
    <3> HIDE DEF F, end
    <3>6. \A c \in BytesIn(z) \cap code : c <= end
      <4> TAKE c \in BytesIn(z) \cap code
      <4>1. c \in Nat /\ c <= LastAddress /\ c \notin free
        BY <1>2, <2>2 DEF BytesIn
      <4>2. c \notin Min(F) .. LastAddress
        BY <3>5, <4>1
      <4> QED BY <3>4, <3>5, <4>1, <4>2, <1>2
    <3> QED BY <2>2, <3>4, <3>5, <3>6
  <2> QED BY <2>1, <2>2
<1> HIDE DEF end
<1>3a. z.start \notin free => z.start \in busy
  <2> SUFFICES ASSUME z.start \notin free PROVE z.start <= end
    BY <1>2, <1>3
  <2>1. CASE z.end # LastAddress
    BY <1>2, <2>1 DEF end
  <2>2. CASE z.end = LastAddress
    <3> DEFINE F == {a \in free : a .. LastAddress \subseteq free}
    <3>1. LastAddress .. LastAddress = {LastAddress}
      BY <1>2
    <3>2. F \in SUBSET Nat /\ F # {}
      BY <1>2, <3>1
    <3>3. Min(F) \in F
      BY <3>2, MinIs
    <3>4. z.start \notin Min(F) .. LastAddress /\ Min(F) \in Nat
      BY <1>2, <3>3
    <3>5. end = Min(F)
      BY <2>2 DEF end, LastFreeStart
    <3> HIDE DEF F
    <3> QED BY <1>2, <2>2, <3>4, <3>5
  <2> QED BY <2>1, <2>2
<1>4. /\ busy \in SUBSET Nat /\ busy \subseteq BytesIn(z) /\ busy \cap free = {}
      /\ \A x \in busy : z.start <= x /\ x <= end
  BY <1>2, <1>3 DEF BytesIn
<1>5. BytesIn(z) \cap code \subseteq busy
  <2> SUFFICES ASSUME NEW c \in BytesIn(z) \cap code PROVE c \in busy
    OBVIOUS
  <2>1. c \in Nat /\ z.start <= c /\ c <= end /\ c \notin free
    BY <1>2, <1>3 DEF BytesIn
  <2> QED BY <1>2, <1>3, <2>1
<1> HIDE DEF busy
<1>6. ASSUME busy # {}
      PROVE  /\ Min(busy) \in busy /\ Max(busy) \in busy
             /\ \A x \in busy : Min(busy) <= x /\ x <= Max(busy)
             /\ cut.start = Min(busy) /\ cut.end = Max(busy) /\ cut.kind = "x"
             /\ cut.start \in Nat /\ cut.end \in Nat /\ cut.start <= cut.end
             /\ z.start <= cut.start /\ cut.end <= z.end
             /\ cut \in [start : Nat, end : Nat, kind : {"x"}]
  <2>1. Min(busy) \in busy /\ \A x \in busy : Min(busy) <= x
    BY <1>4, <1>6, MinIs
  <2>2. Max(busy) \in busy /\ \A x \in busy : x <= Max(busy)
    BY <1>3, <1>4, <1>6, MaxIs
  <2>3. cut.start = Min(busy) /\ cut.end = Max(busy) /\ cut.kind = "x"
    BY DEF Zipr
  <2>4. Min(busy) \in Nat /\ Max(busy) \in Nat /\ Min(busy) <= Max(busy)
    BY <1>4, <2>1, <2>2
  <2>5. z.start <= Min(busy) /\ Max(busy) <= z.end
    BY <1>2, <1>3, <1>4, <2>1, <2>2, <2>4
  <2>6. cut \in [start : Nat, end : Nat, kind : {"x"}]
    BY <2>4 DEF Zipr
  <2> QED BY <2>1, <2>2, <2>3, <2>4, <2>5, <2>6
<1> HIDE DEF cut
<1>7. \A y \in zipr_scoops' : (y \in zipr_scoops /\ y # z) \/ (y = cut /\ busy # {})
  BY <1>1
<1>8. \A y \in zipr_scoops : y # z =>
        /\ y.start \in Nat /\ y.end \in Nat /\ y.start <= y.end /\ Apart(y, z) /\ Apart(z, y)
  BY <1>2 DEF IInv, FreeSpaceIsApart, TypeOK, Proper
<1>9. TypeOK'
  <2>1. zipr_scoops' \subseteq [start : Nat, end : Nat, kind : {"x"}]
    BY <1>6, <1>7 DEF IInv, FreeSpaceIsApart, TypeOK
  <2>2. todo' \subseteq zipr_scoops' /\ (pc' = "done" => todo' = {})
    BY <1>1, <1>2
  <2> QED BY <1>1, <2>1, <2>2 DEF IInv, FreeSpaceIsApart, TypeOK
<1>10. Proper(zipr_scoops')
  <2> SUFFICES ASSUME NEW x \in zipr_scoops', NEW y \in zipr_scoops'
               PROVE  x.start <= x.end /\ (x # y => Apart(x, y))
    BY DEF Proper
  <2>1. x.start <= x.end
    BY <1>6, <1>7, <1>8
  <2>2. CASE x \in zipr_scoops /\ y \in zipr_scoops
    BY <2>1, <2>2 DEF IInv, FreeSpaceIsApart, Proper
  <2>3. CASE x \in zipr_scoops /\ x # z /\ y = cut /\ busy # {}
    BY <1>2, <1>6, <1>8, <2>1, <2>3 DEF Apart
  <2>4. CASE y \in zipr_scoops /\ y # z /\ x = cut /\ busy # {}
    BY <1>2, <1>6, <1>8, <2>1, <2>4 DEF Apart
  <2> QED BY <1>7, <2>1, <2>2, <2>3, <2>4
<1>11. FreeSpaceIsApart'
  BY <1>1, <1>9, <1>10 DEF IInv, FreeSpaceIsApart
<1>12. PagesKeepPermissions'
  <2> SUFFICES ASSUME NEW y \in zipr_scoops', NEW w \in Writeable(data)
               PROVE  PagesApart(y, w) \/ OnLastByte(y, w)
    BY <1>1 DEF PagesKeepPermissions, OnLastByte
  <2>1. CASE y \in zipr_scoops
    BY <2>1 DEF IInv, PagesKeepPermissions
  <2>2. CASE y = cut /\ busy # {} /\ OnLastByte(z, w)
    <3>1. z.start \notin free
      <4>1. w \in data /\ w.start \in Nat /\ w.end \in Nat /\ w.start <= w.end
        BY DEF IInv, FreeSpaceIsApart, TypeOK, DataIsPlaced, Writeable
      <4>2. z.start \in BytesIn(w)
        BY <2>2, <4>1 DEF OnLastByte, BytesIn
      <4>3. z.start \in BytesOf(data)
        BY <4>1, <4>2 DEF BytesOf
      <4> QED BY <1>1, <4>3 DEF IInv, FreeSpaceIsApart
    <3>2. cut.start = z.start
      BY <1>2, <1>6, <1>3a, <2>2, <3>1
    <3> QED BY <2>2, <3>2 DEF OnLastByte
  <2>3. CASE y = cut /\ busy # {} /\ PagesApart(z, w)
    <3>1. PagesApart(z, w) /\ w.start \in Nat /\ w.end \in Nat
      BY <2>3 DEF IInv, FreeSpaceIsApart, TypeOK, Writeable
    <3>2. PageOf(z.start) <= PageOf(cut.start) /\ PageOf(cut.end) <= PageOf(z.end)
      BY <1>2, <1>6, <2>3, PagesInOrder
    <3>3. /\ PageOf(z.start) \in Int /\ PageOf(cut.start) \in Int /\ PageOf(cut.end) \in Int
          /\ PageOf(z.end) \in Int /\ PageOf(w.start) \in Int /\ PageOf(w.end) \in Int
      BY <1>2, <1>6, <2>3, <3>1, PageIs
    <3> QED BY <2>3, <3>1, <3>2, <3>3 DEF PagesApart
  <2>4. PagesApart(z, w) \/ OnLastByte(z, w)
    BY DEF IInv, PagesKeepPermissions
  <2> QED BY <1>7, <2>1, <2>2, <2>3, <2>4
<1>13. LayoutKept' /\ FillingGaps' /\ BelowTop' /\ DataIsPlaced' /\ RoomLeft'
  BY <1>1 DEF IInv, LayoutKept, FillingGaps, BelowTop, DataIsPlaced, RoomLeft, Finding
<1>14. code' \subseteq BytesOf(zipr_scoops')
  <2> SUFFICES ASSUME NEW c \in code PROVE \E y \in zipr_scoops' : c \in BytesIn(y)
    BY <1>1 DEF BytesOf
  <2>1. PICK y \in zipr_scoops : c \in BytesIn(y)
    BY DEF IInv, CodeAndData, BytesOf
  <2>2. CASE y # z
    BY <1>1, <2>1, <2>2
  <2>3. CASE y = z
    <3>1. c \in busy
      BY <1>5, <2>1, <2>3
    <3>2. cut \in zipr_scoops' /\ c \in Nat /\ cut.start <= c /\ c <= cut.end
      BY <1>1, <1>4, <1>6, <3>1
    <3>3. c \in BytesIn(cut)
      BY <1>6, <3>1, <3>2 DEF BytesIn
    <3> QED BY <3>2, <3>3
  <2> QED BY <2>2, <2>3
<1>15. ASSUME NEW y \in zipr_scoops' \ todo'
       PROVE  {y.start, y.end} \subseteq code \cup BytesOf(data)
  <2>1. CASE y \in zipr_scoops /\ y # z
    BY <1>1, <2>1 DEF IInv, CodeAndData
  <2>2. CASE y = cut /\ busy # {}
    <3>1. busy \subseteq code \cup BytesOf(data)
      <4>1. BytesIn(z) \subseteq BytesOf(todo)
        BY <1>1 DEF BytesOf
      <4>2. BytesOf(todo) \subseteq free \cup code \cup BytesOf(data)
        BY <1>1 DEF IInv, CodeAndData
      <4> QED BY <1>4, <4>1, <4>2
    <3> QED BY <1>6, <2>2, <3>1
  <2> QED BY <1>7, <2>1, <2>2
<1>16. CodeAndData'
  <2>1. BytesOf(todo') \subseteq BytesOf(todo)
    BY <1>1 DEF BytesOf
  <2>2. /\ LastAddress \in free' /\ code' \cap free' = {}
        /\ BytesOf(todo') \subseteq free' \cup code' \cup BytesOf(data')
    BY <1>1, <1>2, <2>1 DEF IInv, CodeAndData
  <2> QED BY <1>1, <1>14, <1>15, <2>2 DEF CodeAndData
<1> QED BY <1>11, <1>12, <1>13, <1>16 DEF IInv

(* No step leads out of the invariant, from any layout a linker makes.     *)
THEOREM Invariance == Spec => []IInv
<1>1. IInv /\ [Next]_vars => IInv'
  <2> SUFFICES ASSUME IInv, [Next]_vars PROVE IInv'
    OBVIOUS
  <2>1. CASE CreateExecutableScoops
    BY <2>1, CreateStep
  <2>2. CASE FillGap
    BY <2>2, FillGapStep
  <2>3. CASE GapsDone
    BY <2>3, GapsDoneStep
  <2>4. CASE BeginPermissions
    BY <2>4, BeginPermissionsStep
  <2>5. CASE \E x \in todo : PlaceScoop(x)
    BY <2>5, PlaceScoopStep
  <2>6. CASE AddOverflow
    BY <2>6, AddOverflowStep
  <2>7. CASE \E a, b \in free \ {LastAddress} : WriteCode({a, b})
    <3>1. PICK a \in free \ {LastAddress}, b \in free \ {LastAddress} : WriteCode({a, b})
      BY <2>7
    <3>2. {a, b} \in SUBSET (free \ {LastAddress})
      OBVIOUS
    <3> QED BY <3>1, <3>2, WriteCodeStep
  <2>8. CASE \E z \in zipr_scoops : UpdateScoop(z)
    BY <2>8, UpdateScoopStep
  <2>9. CASE UNCHANGED vars
    BY <2>9 DEF vars, IInv, FreeSpaceIsApart, TypeOK, PagesKeepPermissions, OnLastByte, LayoutKept,
                FillingGaps, BelowTop, DataIsPlaced, AboveTop, RoomLeft, RoomAbove, CodeAndData,
                Finding
  <2> QED BY <2>1, <2>2, <2>3, <2>4, <2>5, <2>6, <2>7, <2>8, <2>9 DEF Next
<1> QED BY InitOK, <1>1, PTL DEF Spec

(* FreeRangesAreApart: FindFreeRanges never hands the memory space a range *)
(* that is reversed or overlaps another, its assert holds, and when it is  *)
(* through no byte of the program's data is free.  Layouts with data in    *)
(* the middle of the text are excluded (DataIsApart).                      *)
THEOREM FreeRangesAreApart == Spec => []FreeSpaceIsApart
<1>1. IInv => FreeSpaceIsApart
  BY DEF IInv
<1> QED BY <1>1, Invariance, PTL

(* NoPageIsShared: no page holds both space for code and a byte of a       *)
(* writable scoop, whether the program or PlaceUnplacedScoops put it there,*)
(* but for the overflow area when it begins on the last byte of the        *)
(* sections, where that byte is the first of a page (zipr.cpp:390, 632).   *)
THEOREM NoPageIsShared == Spec => []PagesKeepPermissions
<1>1. IInv => PagesKeepPermissions
  BY DEF IInv
<1> QED BY <1>1, Invariance, PTL

(* ScoopsHoldTheCode: UpdateScoops loses no byte of code, and cuts every   *)
(* scoop to bytes that are used.                                           *)
THEOREM ScoopsHoldTheCode == Spec => []CodeIsInScoops
<1>1. IInv => CodeIsInScoops
  BY DEF IInv, CodeAndData, CodeIsInScoops, FreeSpaceIsApart, TypeOK
<1> QED BY <1>1, Invariance, PTL
=============================================================================
