------------------------- MODULE MemorySpaceProofs -------------------------
(***************************************************************************)
(* The invariants of MemorySpace for every size of the address space and   *)
(* any number of buckets, that it implements FreeBytes, and that           *)
(* getFreeRange finds room whenever there is any.                          *)
(*                                                                         *)
(* In three parts: what the operators of FreeRanges do to a well-formed    *)
(* pair of indexes; the invariants and the refinement; the search by size. *)
(***************************************************************************)
EXTENDS FreeRangeSearch, WellFoundedInduction, TLAPS

(* A pair of indexes in the states the class is meant to be in: proper,    *)
(* pairwise disjoint ranges, each filed in the bucket of its size.         *)
Proper(R) ==
    /\ R \in SUBSET Range_t
    /\ \A r \in R : r.start <= r.end
    /\ \A r, s \in R : Equiv(r, s) => r = s
FiledBySize(fr) ==
    \A k \in Bucket : fr.by_size[k] = {r \in fr.by_address : BucketOf(r) = k}
GoodIndex(fr) ==
    /\ fr \in FreeRanges_t
    /\ Proper(fr.by_address)
    /\ FiledBySize(fr)

(* Every range has a bucket: the narrowed size is an unsigned int.         *)
LEMMA BucketOfType ==
    ASSUME NEW r \in Range_t PROVE BucketOf(r) \in Bucket
<1>1. getSize(r) \in Int
  BY AddressAssumption DEF getSize, Range_t, Addr
<1>2. getSize(r) % IntMod \in 0 .. IntMod - 1
  BY <1>1, BucketAssumption
<1>3. QED
  BY <1>2, BucketAssumption DEF BucketOf

(* FindFreeRange: the range that holds a free byte exists and is the only  *)
(* one, so that CHOOSE, like std::set::find, has one answer.               *)
LEMMA FindFreeRangeUnique ==
    ASSUME NEW fr, GoodIndex(fr), NEW a \in Addr, IsByteFree(fr, a)
    PROVE  /\ FindFreeRange(fr, a) \in fr.by_address
           /\ a \in Bytes(FindFreeRange(fr, a))
           /\ \A r \in fr.by_address : a \in Bytes(r) => r = FindFreeRange(fr, a)
<1> DEFINE f == FindFreeRange(fr, a)
<1>1. f \in fr.by_address /\ a \in Bytes(f)
  BY DEF FindFreeRange, IsByteFree
<1>2. ASSUME NEW r \in fr.by_address, a \in Bytes(r)
      PROVE  r = f
  <2>1. r \in Range_t /\ f \in Range_t
    BY <1>1 DEF GoodIndex, Proper
  <2>2. Equiv(r, f)
    BY <1>1, <1>2, <2>1, AddressAssumption DEF Equiv, Bytes, Range_t, Addr
  <2>3. QED
    BY <1>1, <2>2 DEF GoodIndex, Proper
<1>3. QED
  BY <1>1, <1>2

(* erase takes one range out of both indexes and disturbs no other.        *)
LEMMA EraseGood ==
    ASSUME NEW fr, GoodIndex(fr), NEW r \in fr.by_address
    PROVE  /\ GoodIndex(erase(fr, r))
           /\ erase(fr, r).by_address = fr.by_address \ {r}
<1> DEFINE e == erase(fr, r)
<1>1. e.by_address = fr.by_address \ {r}
  BY DEF erase
<1>2. r \in Range_t /\ fr \in FreeRanges_t
  BY DEF GoodIndex, Proper
<1>3. BucketOf(r) \in Bucket
  BY <1>2, BucketOfType
<1>4. e \in FreeRanges_t
  <2>1. fr.by_size \in [Bucket -> SUBSET Range_t] /\ fr.by_address \in SUBSET Range_t
    BY <1>2 DEF FreeRanges_t
  <2>2. SetErase(fr.by_size[BucketOf(r)], r) \in SUBSET Range_t
    BY <2>1, <1>3 DEF SetErase
  <2>3. QED
    BY <2>1, <2>2 DEF FreeRanges_t, erase
<1>5. Proper(e.by_address)
  BY <1>1 DEF GoodIndex, Proper
<1>6. FiledBySize(e)
  <2> SUFFICES ASSUME NEW k \in Bucket
               PROVE  e.by_size[k] = {s \in e.by_address : BucketOf(s) = k}
    BY DEF FiledBySize
  <2>1. fr.by_size[k] = {s \in fr.by_address : BucketOf(s) = k}
    BY DEF GoodIndex, FiledBySize
  <2>2. fr.by_size \in [Bucket -> SUBSET Range_t]
    BY <1>2 DEF FreeRanges_t
  <2>3. CASE k # BucketOf(r)
    <3>1. e.by_size[k] = fr.by_size[k]
      BY <2>2, <2>3 DEF erase
    <3>2. QED
      BY <3>1, <2>1, <1>1, <2>3
  <2>4. CASE k = BucketOf(r)
    <3>1. e.by_size[k] = SetErase(fr.by_size[k], r)
      BY <2>2, <2>4 DEF erase
    <3>2. \A s \in fr.by_address : Equiv(s, r) <=> s = r
      <4>1. Equiv(r, r)
        BY <1>2, AddressAssumption DEF Equiv, GoodIndex, Proper, Range_t, Addr
      <4>2. QED
        BY <4>1 DEF GoodIndex, Proper
    <3>3. QED
      BY <3>1, <3>2, <2>1, <1>1 DEF SetErase
  <2>5. QED
    BY <2>3, <2>4
<1>7. QED
  BY <1>1, <1>4, <1>5, <1>6 DEF GoodIndex

(* insert of a proper range that meets no other adds it to both indexes.   *)
LEMMA InsertGood ==
    ASSUME NEW fr, GoodIndex(fr), NEW r \in Range_t, r.start <= r.end,
           \A s \in fr.by_address : ~ Equiv(s, r)
    PROVE  /\ GoodIndex(insert(fr, r))
           /\ insert(fr, r).by_address = fr.by_address \cup {r}
<1> DEFINE e == insert(fr, r)
<1>1. e.by_address = fr.by_address \cup {r}
  BY DEF insert, SetInsert
<1>2. fr \in FreeRanges_t
  BY DEF GoodIndex
<1>3. BucketOf(r) \in Bucket
  BY BucketOfType
<1>4. \A k \in Bucket : SetInsert(fr.by_size[k], r) = fr.by_size[k] \cup {r}
  BY DEF GoodIndex, FiledBySize, SetInsert
<1>5. fr.by_size \in [Bucket -> SUBSET Range_t] /\ fr.by_address \in SUBSET Range_t
  BY <1>2 DEF FreeRanges_t
<1>6. e \in FreeRanges_t
  <2>1. SetInsert(fr.by_size[BucketOf(r)], r) \in SUBSET Range_t
    BY <1>3, <1>4, <1>5
  <2>2. e.by_address \in SUBSET Range_t
    BY <1>1, <1>5
  <2>3. QED
    BY <2>1, <2>2, <1>5 DEF FreeRanges_t, insert
<1>7. Proper(e.by_address)
  <2>1. e.by_address \in SUBSET Range_t
    BY <1>1, <1>5
  <2>2. \A s \in e.by_address : s.start <= s.end
    BY <1>1 DEF GoodIndex, Proper
  <2>3. ASSUME NEW s \in e.by_address, NEW t \in e.by_address, Equiv(s, t)
        PROVE  s = t
    <3>1. Equiv(t, s)
      BY <2>3 DEF Equiv
    <3>2. QED
      BY <1>1, <2>3, <3>1 DEF GoodIndex, Proper
  <2>4. QED
    BY <2>1, <2>2, <2>3 DEF Proper
<1>8. FiledBySize(e)
  <2> SUFFICES ASSUME NEW k \in Bucket
               PROVE  e.by_size[k] = {s \in e.by_address : BucketOf(s) = k}
    BY DEF FiledBySize
  <2>1. fr.by_size[k] = {s \in fr.by_address : BucketOf(s) = k}
    BY DEF GoodIndex, FiledBySize
  <2>2. CASE k # BucketOf(r)
    <3>1. e.by_size[k] = fr.by_size[k]
      BY <1>5, <2>2 DEF insert
    <3>2. QED
      BY <3>1, <2>1, <1>1, <2>2
  <2>3. CASE k = BucketOf(r)
    <3>1. e.by_size[k] = fr.by_size[k] \cup {r}
      BY <1>5, <2>3, <1>4 DEF insert
    <3>2. QED
      BY <3>1, <2>1, <1>1, <2>3
  <2>4. QED
    BY <2>2, <2>3
<1>9. QED
  BY <1>1, <1>6, <1>7, <1>8 DEF GoodIndex

(* SplitFreeRange of a free byte keeps both indexes good and takes exactly *)
(* that byte out of the free ones.                                         *)
LEMMA SplitFreeRangeGood ==
    ASSUME NEW fr, GoodIndex(fr), NEW a \in Addr, IsByteFree(fr, a)
    PROVE  /\ GoodIndex(SplitFreeRange(fr, a))
           /\ \A b \in Addr : IsByteFree(SplitFreeRange(fr, a), b)
                                 <=> IsByteFree(fr, b) /\ b # a
<1> DEFINE r     == FindFreeRange(fr, a)
           none  == erase(fr, r)
           left  == Rng(r.start, a - 1)
           right == Rng(a + 1, r.end)
           low   == IF r.start < a THEN insert(none, left) ELSE none
           new   == IF a < r.end THEN insert(low, right) ELSE low
<1>1. r \in fr.by_address /\ a \in Bytes(r)
  BY FindFreeRangeUnique
<1>2. r \in Range_t /\ r.start <= r.end /\ r.start <= a /\ a <= r.end
  BY <1>1, AddressAssumption DEF GoodIndex, Proper, Bytes, Range_t, Addr
<1>3. GoodIndex(none) /\ none.by_address = fr.by_address \ {r}
  BY <1>1, EraseGood
<1>4. \A s \in fr.by_address \ {r} :
          /\ s \in Range_t /\ s.start <= s.end
          /\ s.end < r.start \/ r.end < s.start
  BY <1>1 DEF GoodIndex, Proper, Equiv
<1>5. r.start < a => left \in Range_t /\ left.start = r.start /\ left.end = a - 1
  BY <1>2, AddressAssumption DEF Range_t, Rng, Addr
<1>6. a < r.end => right \in Range_t /\ right.start = a + 1 /\ right.end = r.end
  BY <1>2, AddressAssumption DEF Range_t, Rng, Addr
<1>7. /\ GoodIndex(low)
      /\ low.by_address = (fr.by_address \ {r}) \cup (IF r.start < a THEN {left} ELSE {})
  <2>1. CASE r.start < a
    <3>1. \A s \in none.by_address : ~ Equiv(s, left)
      BY <1>2, <1>3, <1>4, <1>5, <2>1, AddressAssumption DEF Equiv, Range_t, Addr
    <3>2. left.start <= left.end
      BY <1>2, <1>5, <2>1, AddressAssumption DEF Range_t, Addr
    <3>3. QED
      BY <1>3, <1>5, <2>1, <3>1, <3>2, InsertGood
  <2>2. CASE ~ (r.start < a)
    BY <1>3, <2>2
  <2>3. QED
    BY <2>1, <2>2
<1>8. /\ GoodIndex(new)
      /\ new.by_address = low.by_address \cup (IF a < r.end THEN {right} ELSE {})
  <2>1. CASE a < r.end
    <3>1. ASSUME NEW s \in low.by_address
          PROVE  ~ Equiv(s, right)
      <4>1. CASE s \in fr.by_address \ {r}
        BY <1>2, <1>4, <1>6, <2>1, <4>1, AddressAssumption DEF Equiv, Range_t, Addr
      <4>2. CASE r.start < a /\ s = left
        BY <1>2, <1>5, <1>6, <2>1, <4>2, AddressAssumption DEF Equiv, Range_t, Addr
      <4>3. QED
        BY <1>7, <4>1, <4>2
    <3>2. right.start <= right.end
      BY <1>2, <1>6, <2>1, AddressAssumption DEF Range_t, Addr
    <3>3. QED
      BY <1>6, <1>7, <2>1, <3>1, <3>2, InsertGood
  <2>2. CASE ~ (a < r.end)
    BY <1>7, <2>2
  <2>3. QED
    BY <2>1, <2>2
<1>9. new = SplitFreeRange(fr, a)
  BY DEF SplitFreeRange
<1>10. ASSUME NEW b \in Addr
       PROVE  IsByteFree(new, b) <=> IsByteFree(fr, b) /\ b # a
  <2>1. IsByteFree(new, b) <=>
           \/ \E s \in fr.by_address \ {r} : b \in Bytes(s)
           \/ r.start < a /\ b \in Bytes(left)
           \/ a < r.end /\ b \in Bytes(right)
    BY <1>7, <1>8 DEF IsByteFree
  <2>2. r.start < a => (b \in Bytes(left) <=> r.start <= b /\ b < a)
    BY <1>2, <1>5, AddressAssumption DEF Bytes, Range_t, Addr
  <2>3. a < r.end => (b \in Bytes(right) <=> a < b /\ b <= r.end)
    BY <1>2, <1>6, AddressAssumption DEF Bytes, Range_t, Addr
  <2>4. b \in Bytes(r) /\ b # a <=>
           \/ r.start < a /\ r.start <= b /\ b < a
           \/ a < r.end /\ a < b /\ b <= r.end
    BY <1>2, AddressAssumption DEF Bytes, Range_t, Addr
  <2>5. \A s \in fr.by_address \ {r} : a \notin Bytes(s)
    BY <1>1, <1>2, <1>4, AddressAssumption DEF Bytes, Range_t, Addr
  <2>6. IsByteFree(fr, b) <=> b \in Bytes(r) \/ \E s \in fr.by_address \ {r} : b \in Bytes(s)
    BY <1>1 DEF IsByteFree
  <2>7. QED
    BY <2>1, <2>2, <2>3, <2>4, <2>5, <2>6
<1>11. QED
  BY <1>8, <1>9, <1>10

(* MergeFreeRange of a busy byte away from both ends of the address space: *)
(* its asserts hold, the indexes stay good and exactly that byte joins the *)
(* free ones.                                                              *)
LEMMA MergeFreeRangeGood ==
    ASSUME NEW fr, GoodIndex(fr), NEW a \in 1 .. MaxAddr - 1, ~ IsByteFree(fr, a)
    PROVE  /\ MergeAssert(fr, a)
           /\ GoodIndex(MergeFreeRange(fr, a))
           /\ \A b \in Addr : IsByteFree(MergeFreeRange(fr, a), b)
                                 <=> IsByteFree(fr, b) \/ b = a
<1> DEFINE up    == IsByteFree(fr, Succ(a))
           down  == IsByteFree(fr, Pred(a))
           p1    == FindFreeRange(fr, Succ(a))
           m1    == FindFreeRange(fr, Pred(a))
           nr    == Rng(IF down THEN m1.start ELSE a, IF up THEN p1.end ELSE a)
           below == IF down THEN erase(fr, m1) ELSE fr
           gone  == IF up THEN erase(below, p1) ELSE below
<1>1. /\ a \in Addr /\ Succ(a) = a + 1 /\ Pred(a) = a - 1
      /\ Succ(a) \in Addr /\ Pred(a) \in Addr
  BY AddressAssumption DEF Addr, Succ, Pred
<1>2. \A s \in fr.by_address : /\ s \in Range_t /\ s.start <= s.end
                               /\ s.end < a \/ a < s.start
  BY <1>1, AddressAssumption DEF GoodIndex, Proper, IsByteFree, Bytes, Range_t, Addr
<1>3. up => p1 \in fr.by_address /\ p1.start = a + 1
  <2> SUFFICES ASSUME up PROVE p1 \in fr.by_address /\ p1.start = a + 1
    OBVIOUS
  <2>1. p1 \in fr.by_address /\ a + 1 \in Bytes(p1)
    BY <1>1, FindFreeRangeUnique
  <2>2. QED
    BY <2>1, <1>1, <1>2, AddressAssumption DEF Bytes, Range_t, Addr
<1>4. down => m1 \in fr.by_address /\ m1.end = a - 1
  <2> SUFFICES ASSUME down PROVE m1 \in fr.by_address /\ m1.end = a - 1
    OBVIOUS
  <2>1. m1 \in fr.by_address /\ a - 1 \in Bytes(m1)
    BY <1>1, FindFreeRangeUnique
  <2>2. QED
    BY <2>1, <1>1, <1>2, AddressAssumption DEF Bytes, Range_t, Addr
<1>5. MergeAssert(fr, a)
  BY <1>1, <1>3, <1>4 DEF MergeAssert
<1>6. GoodIndex(below) /\ below.by_address = fr.by_address \ (IF down THEN {m1} ELSE {})
  BY <1>4, EraseGood
<1>7. up => p1 \in below.by_address
  <2>1. up /\ down => p1 # m1
    BY <1>2, <1>3, <1>4, AddressAssumption DEF Range_t, Addr
  <2>2. QED
    BY <1>3, <1>6, <2>1
<1>8. /\ GoodIndex(gone)
      /\ gone.by_address = fr.by_address \ ((IF down THEN {m1} ELSE {})
                                               \cup (IF up THEN {p1} ELSE {}))
  BY <1>6, <1>7, EraseGood
<1>9. /\ nr \in Range_t /\ nr.start <= a /\ a <= nr.end
      /\ nr.start = (IF down THEN m1.start ELSE a)
      /\ nr.end = (IF up THEN p1.end ELSE a)
  BY <1>1, <1>2, <1>3, <1>4, AddressAssumption DEF Rng, Range_t, Addr
<1>10. ASSUME NEW s \in gone.by_address
       PROVE  s.end < nr.start \/ nr.end < s.start
  <2>1. s \in fr.by_address /\ s \in Range_t /\ s.start <= s.end
    BY <1>2, <1>8
  <2>2. up => ~ Equiv(s, p1)
    BY <1>3, <1>8, <2>1 DEF GoodIndex, Proper
  <2>3. down => ~ Equiv(s, m1)
    BY <1>4, <1>8, <2>1 DEF GoodIndex, Proper
  <2>4. CASE s.end < a
    <3>1. CASE down
      BY <1>2, <1>4, <1>9, <2>1, <2>3, <2>4, <3>1, AddressAssumption
         DEF Equiv, Range_t, Addr
    <3>2. CASE ~ down
      BY <1>9, <2>4, <3>2
    <3>3. QED
      BY <3>1, <3>2
  <2>5. CASE a < s.start
    <3>1. CASE up
      BY <1>2, <1>3, <1>9, <2>1, <2>2, <2>5, <3>1, AddressAssumption
         DEF Equiv, Range_t, Addr
    <3>2. CASE ~ up
      BY <1>9, <2>5, <3>2
    <3>3. QED
      BY <3>1, <3>2
  <2>6. QED
    BY <1>2, <2>1, <2>4, <2>5
<1>11. /\ GoodIndex(insert(gone, nr))
       /\ insert(gone, nr).by_address = gone.by_address \cup {nr}
  <2>1. \A s \in gone.by_address : ~ Equiv(s, nr)
    BY <1>10 DEF Equiv
  <2>2. nr.start <= nr.end
    BY <1>1, <1>9, AddressAssumption DEF Range_t, Addr
  <2>3. QED
    BY <1>8, <1>9, <2>1, <2>2, InsertGood
<1>12. insert(gone, nr) = MergeFreeRange(fr, a)
  BY DEF MergeFreeRange
<1>13. ASSUME NEW b \in Addr
       PROVE  IsByteFree(insert(gone, nr), b) <=> IsByteFree(fr, b) \/ b = a
  <2>1. IsByteFree(insert(gone, nr), b) <=>
           (\E s \in gone.by_address : b \in Bytes(s)) \/ b \in Bytes(nr)
    BY <1>11 DEF IsByteFree
  <2>2. IsByteFree(fr, b) <=> \/ \E s \in gone.by_address : b \in Bytes(s)
                              \/ down /\ b \in Bytes(m1)
                              \/ up /\ b \in Bytes(p1)
    BY <1>3, <1>4, <1>8 DEF IsByteFree
  <2>3. b \in Bytes(nr) <=> \/ down /\ b \in Bytes(m1)
                            \/ up /\ b \in Bytes(p1)
                            \/ b = a
    <3>1. down => (b \in Bytes(m1) <=> m1.start <= b /\ b < a)
      BY <1>1, <1>2, <1>4, AddressAssumption DEF Bytes, Range_t, Addr
    <3>2. up => (b \in Bytes(p1) <=> a < b /\ b <= p1.end)
      BY <1>1, <1>2, <1>3, AddressAssumption DEF Bytes, Range_t, Addr
    <3>3. b \in Bytes(nr) <=> nr.start <= b /\ b <= nr.end
      BY <1>9, AddressAssumption DEF Bytes, Range_t, Addr
    <3>4. b < a \/ b = a \/ a < b
      BY <1>1, AddressAssumption DEF Addr
    <3>5. (down => m1.start <= a) /\ (up => a <= p1.end)
      BY <1>9
    <3>6. (b \in Int /\ a \in Int) /\ (down => m1.start \in Int) /\ (up => p1.end \in Int)
      BY <1>1, <1>2, <1>3, <1>4, AddressAssumption DEF Range_t, Addr
    <3>7. QED
      BY <1>9, <3>1, <3>2, <3>3, <3>4, <3>5, <3>6
  <2>4. QED
    BY <2>1, <2>2, <2>3
<1>14. QED
  BY <1>5, <1>11, <1>12, <1>13

-----------------------------------------------------------------------------
(* The memory space.                                                       *)

(* The inductive invariant.  IndexesAgree and RangesDisjoint need each     *)
(* other (GoodIndex): erase removes every range of a bucket equivalent to  *)
(* the erased one, which is that one alone only when ranges are disjoint.  *)
(* A loop's asserts need what is left of its range (LoopProgress), and     *)
(* that the range lies strictly inside the address space.                  *)
IInv ==
    /\ TypeOK
    /\ GoodIndex(free_ranges)
    /\ AssertsHold
    /\ phase = "rewrite" => IsFree(MaxAddr)
    /\ loop.op # "none" => phase = "rewrite" /\ 1 <= loop.first
    /\ loop.op = "none" => loop = Idle
    /\ LoopProgress

(* Ranges of which neither ends before the other starts share a byte.      *)
LEMMA EquivShareByte ==
    ASSUME NEW r \in Range_t, NEW s \in Range_t, r.start <= r.end, s.start <= s.end,
           Equiv(s, r)
    PROVE  \E a \in Addr : a \in Bytes(r) /\ a \in Bytes(s)
<1>1. CASE s.start < r.start
  BY <1>1, AddressAssumption DEF Equiv, Bytes, Range_t, Addr
<1>2. CASE ~ (s.start < r.start)
  BY <1>2, AddressAssumption DEF Equiv, Bytes, Range_t, Addr
<1>3. QED
  BY <1>1, <1>2

(* The three byte operations on a state whose indexes are good.            *)
LEMMA SplitByteEffect ==
    ASSUME IInv, NEW a \in CodeAddr, IsFree(a), SplitByte(a)
    PROVE  /\ GoodIndex(free_ranges') /\ UNCHANGED aborted
           /\ \A b \in Addr : IsFree(b)' <=> IsFree(b) /\ b # a
           /\ UNCHANGED <<plopped, min_plopped, max_plopped>>
<1>1. a \in Addr
  BY AddressAssumption DEF CodeAddr, Addr
<1>2. QED
  BY <1>1, SplitFreeRangeGood DEF IInv, SplitByte, IsFree

LEMMA MergeByteEffect ==
    ASSUME IInv, NEW a \in CodeAddr, ~ IsFree(a), MergeByte(a)
    PROVE  /\ GoodIndex(free_ranges') /\ UNCHANGED aborted
           /\ \A b \in Addr : IsFree(b)' <=> IsFree(b) \/ b = a
           /\ UNCHANGED <<plopped, min_plopped, max_plopped>>
  BY MergeFreeRangeGood DEF IInv, MergeByte, IsFree, CodeAddr

LEMMA PlopByteEffect ==
    ASSUME IInv, NEW a \in CodeAddr, PlopByte(a)
    PROVE  /\ GoodIndex(free_ranges') /\ UNCHANGED aborted
           /\ \A b \in Addr : IsFree(b)' <=> IsFree(b) /\ b # a
           /\ plopped' = plopped \cup {a}
           /\ min_plopped' = IF a < min_plopped THEN a ELSE min_plopped
           /\ max_plopped' = IF a > max_plopped THEN a ELSE max_plopped
<1>1. a \in Addr
  BY AddressAssumption DEF CodeAddr, Addr
<1>2. CASE IsFree(a)
  BY <1>1, <1>2, SplitFreeRangeGood DEF IInv, PlopByte, IsFree
<1>3. CASE ~ IsFree(a)
  BY <1>1, <1>3 DEF IInv, PlopByte, IsFree
<1>4. QED
  BY <1>2, <1>3

LEMMA AddFreeRangeEffect ==
    ASSUME IInv, NEW r \in Range_t, r.start <= r.end, AddFreeRange(r)
    PROVE  /\ GoodIndex(free_ranges')
           /\ \A b \in Addr : IsFree(b)' <=> IsFree(b) \/ b \in Bytes(r)
<1>1. \A s \in free_ranges.by_address : ~ Equiv(s, r)
  <2> SUFFICES ASSUME NEW s \in free_ranges.by_address, Equiv(s, r)
               PROVE  FALSE
    OBVIOUS
  <2>1. s \in Range_t /\ s.start <= s.end
    BY DEF IInv, GoodIndex, Proper
  <2>2. PICK a \in Addr : a \in Bytes(r) /\ a \in Bytes(s)
    BY <2>1, EquivShareByte
  <2>3. QED
    BY <2>2 DEF AddFreeRange, IsFree, IsByteFree
<1>2. /\ GoodIndex(insert(free_ranges, r))
      /\ insert(free_ranges, r).by_address = free_ranges.by_address \cup {r}
  BY <1>1, InsertGood DEF IInv
<1>3. QED
  BY <1>2 DEF AddFreeRange, IsFree, IsByteFree

LEMMA RemoveFreeRangeEffect ==
    ASSUME IInv, NEW r, RemoveFreeRange(r)
    PROVE  /\ GoodIndex(free_ranges') /\ r \in Range_t
           /\ \A b \in Addr : /\ IsFree(b)' <=> IsFree(b) /\ b \notin Bytes(r)
                              /\ b \in Bytes(r) => IsFree(b)
<1>1. r \in free_ranges.by_address /\ free_ranges' = erase(free_ranges, r)
  BY DEF RemoveFreeRange
<1>2. /\ GoodIndex(free_ranges')
      /\ free_ranges'.by_address = free_ranges.by_address \ {r}
  BY <1>1, EraseGood DEF IInv
<1>3. r \in Range_t
  BY <1>1 DEF IInv, GoodIndex, Proper
<1>4. ASSUME NEW s \in free_ranges.by_address \ {r}, NEW b \in Addr, b \in Bytes(r)
      PROVE  b \notin Bytes(s)
  <2>1. s \in Range_t /\ ~ Equiv(s, r)
    BY <1>1 DEF IInv, GoodIndex, Proper
  <2>2. QED
    BY <1>3, <1>4, <2>1, AddressAssumption DEF Equiv, Bytes, Range_t, Addr
<1>5. QED
  BY <1>1, <1>2, <1>3, <1>4 DEF IsFree, IsByteFree

-----------------------------------------------------------------------------
(* The invariant holds initially.                                          *)
LEMMA InitIInv == Init => IInv
<1> SUFFICES ASSUME Init PROVE IInv
  OBVIOUS
<1> USE AddressAssumption DEF Init, Idle, EmptyRanges
<1>1. TypeOK
  <2>1. free_ranges \in FreeRanges_t
    BY DEF FreeRanges_t
  <2>2. loop \in Loops
    <3>1. 0 \in Addr
      BY DEF Addr
    <3>2. QED
      BY <3>1 DEF Loops
  <2>3. /\ plopped \in SUBSET Addr /\ min_plopped \in Addr /\ max_plopped \in Addr
        /\ phase \in {"find_ranges", "rewrite"}
    BY DEF Addr
  <2>4. aborted \in BOOLEAN
    BY Zenon
  <2>5. QED
    BY <2>1, <2>2, <2>3, <2>4 DEF TypeOK
<1>2. GoodIndex(free_ranges)
  BY DEF GoodIndex, Proper, FiledBySize, FreeRanges_t
<1>3. LoopProgress
  BY DEF LoopProgress
<1>4. QED
  BY <1>1, <1>2, <1>3 DEF IInv, AssertsHold

(* A byte operation that is not part of a loop.                            *)
LEMMA ByteCallIInv ==
    ASSUME IInv, Ready, NEW a \in CodeAddr, UNCHANGED <<phase, loop>>,
           GoodIndex(free_ranges'), UNCHANGED aborted,
           IsFree(MaxAddr) => IsFree(MaxAddr)',
           plopped' \in SUBSET Addr, min_plopped' \in Addr, max_plopped' \in Addr
    PROVE  IInv'
<1>1. TypeOK'
  BY DEF IInv, TypeOK, GoodIndex
<1>2. LoopProgress'
  BY AddressAssumption DEF IInv, Ready, Idle, LoopProgress, AssertsHold
<1>3. QED
  BY <1>1, <1>2 DEF IInv, Ready, AssertsHold, Idle

(* One iteration of a loop: the byte at the counter is the loop's next.    *)
LEMMA LoopByte ==
    ASSUME IInv, loop.op # "none", loop.counter # loop.end
    PROVE  /\ loop.counter \in CodeAddr /\ loop.counter < loop.end
           /\ Succ(loop.counter) = loop.counter + 1
           /\ loop.op = "split" => IsFree(loop.counter)
           /\ loop.op = "merge" => ~ IsFree(loop.counter)
<1>1. /\ loop.first \in Addr /\ loop.counter \in Addr /\ loop.end \in Addr
  BY DEF IInv, TypeOK, Loops
<1>2. /\ 1 <= loop.first /\ loop.first <= loop.counter /\ loop.counter <= loop.end
      /\ loop.end < MaxAddr
  BY DEF IInv, LoopProgress
<1>3. /\ loop.counter < loop.end /\ loop.counter \in CodeAddr
      /\ loop.counter \in loop.counter .. loop.end - 1
  BY <1>1, <1>2, AddressAssumption DEF CodeAddr, Addr
<1>4. QED
  BY <1>1, <1>2, <1>3, AddressAssumption DEF IInv, LoopProgress, Succ, Addr

LEMMA LoopStepIInv ==
    ASSUME IInv, LoopStep
    PROVE  IInv'
<1> DEFINE c == loop.counter
<1>1. /\ loop.op # "none" /\ c # loop.end /\ UNCHANGED phase
      /\ loop' = [loop EXCEPT !.counter = Succ(c)]
  BY DEF LoopStep, LoopBody
<1>2. /\ c \in CodeAddr /\ c < loop.end /\ Succ(c) = c + 1
      /\ loop.op = "split" => IsFree(c)
      /\ loop.op = "merge" => ~ IsFree(c)
  BY <1>1, LoopByte
<1>3. \/ loop.op = "split" /\ SplitByte(c)
      \/ loop.op = "merge" /\ MergeByte(c)
      \/ loop.op = "plop"  /\ PlopByte(c)
  BY DEF LoopStep, LoopBody
<1>4. /\ loop \in Loops /\ loop.first \in Addr /\ c \in Addr /\ loop.end \in Addr
      /\ plopped \in SUBSET Addr /\ min_plopped \in Addr /\ max_plopped \in Addr
  BY DEF IInv, TypeOK, Loops
<1>5. /\ loop.first <= c /\ loop.end < MaxAddr /\ 1 <= loop.first
      /\ phase = "rewrite" /\ IsFree(MaxAddr)
  BY <1>1 DEF IInv, LoopProgress
<1>6. /\ loop' \in Loops /\ loop'.op = loop.op /\ loop'.first = loop.first
      /\ loop'.counter = c + 1 /\ loop'.end = loop.end
  <2>1. c + 1 \in Addr
    BY <1>2, <1>4, <1>5, AddressAssumption DEF Addr
  <2>2. QED
    BY <1>1, <1>2, <1>4, <2>1 DEF Loops
<1>7. \A a \in loop.first .. c : a \in Addr /\ (a # c => a \in loop.first .. c - 1)
  BY <1>4, AddressAssumption DEF Addr
<1>8. \A a \in c + 1 .. loop.end - 1 : a \in Addr /\ a # c /\ a \in c .. loop.end - 1
  BY <1>4, AddressAssumption DEF Addr
<1>9. (c + 1) - 1 = c
  BY <1>4, AddressAssumption DEF Addr
<1>10. MaxAddr \in Addr /\ MaxAddr # c
  BY <1>2, AddressAssumption DEF CodeAddr, Addr
<1>11. /\ GoodIndex(free_ranges') /\ UNCHANGED aborted /\ IsFree(MaxAddr)'
       /\ plopped' \in SUBSET Addr /\ min_plopped' \in Addr /\ max_plopped' \in Addr
       /\ LoopProgress'
  <2>1. CASE loop.op = "split" /\ SplitByte(c)
    <3>1. /\ GoodIndex(free_ranges') /\ UNCHANGED aborted
          /\ \A b \in Addr : IsFree(b)' <=> IsFree(b) /\ b # c
          /\ UNCHANGED <<plopped, min_plopped, max_plopped>>
      BY <1>2, <2>1, SplitByteEffect
    <3>2. /\ \A a \in loop.first .. c : ~ IsFree(a)'
          /\ \A a \in c + 1 .. loop.end - 1 : IsFree(a)'
      BY <1>7, <1>8, <2>1, <3>1 DEF IInv, LoopProgress
    <3>3. LoopProgress'
      BY <1>2, <1>4, <1>5, <1>6, <1>9, <2>1, <3>2, AddressAssumption
         DEF LoopProgress, Addr
    <3>4. QED
      BY <1>4, <1>5, <1>10, <3>1, <3>3
  <2>2. CASE loop.op = "merge" /\ MergeByte(c)
    <3>1. /\ GoodIndex(free_ranges') /\ UNCHANGED aborted
          /\ \A b \in Addr : IsFree(b)' <=> IsFree(b) \/ b = c
          /\ UNCHANGED <<plopped, min_plopped, max_plopped>>
      BY <1>2, <2>2, MergeByteEffect
    <3>2. /\ \A a \in loop.first .. c : IsFree(a)'
          /\ \A a \in c + 1 .. loop.end - 1 : ~ IsFree(a)'
      BY <1>7, <1>8, <2>2, <3>1 DEF IInv, LoopProgress
    <3>3. LoopProgress'
      BY <1>2, <1>4, <1>5, <1>6, <1>9, <2>2, <3>2, AddressAssumption
         DEF LoopProgress, Addr
    <3>4. QED
      BY <1>4, <1>5, <1>10, <3>1, <3>3
  <2>3. CASE loop.op = "plop" /\ PlopByte(c)
    <3>1. /\ GoodIndex(free_ranges') /\ UNCHANGED aborted
          /\ \A b \in Addr : IsFree(b)' <=> IsFree(b) /\ b # c
          /\ plopped' = plopped \cup {c}
          /\ min_plopped' \in Addr /\ max_plopped' \in Addr
      BY <1>2, <1>4, <2>3, PlopByteEffect
    <3>2. \A a \in loop.first .. c : a \in plopped' /\ ~ IsFree(a)'
      BY <1>7, <2>3, <3>1 DEF IInv, LoopProgress
    <3>3. LoopProgress'
      BY <1>2, <1>4, <1>5, <1>6, <1>9, <2>3, <3>2, AddressAssumption
         DEF LoopProgress, Addr
    <3>4. QED
      BY <1>4, <1>5, <1>10, <3>1, <3>3
  <2>4. QED
    BY <1>3, <2>1, <2>2, <2>3
<1>12. TypeOK'
  BY <1>1, <1>6, <1>11 DEF IInv, TypeOK, GoodIndex
<1>13. QED
  BY <1>1, <1>5, <1>6, <1>11, <1>12 DEF IInv, AssertsHold

(* Every step of the memory space keeps the invariant.                     *)
LEMMA NextIInv == IInv /\ [Next]_vars => IInv'
<1> SUFFICES ASSUME IInv, [Next]_vars PROVE IInv'
  OBVIOUS
<1>1. /\ plopped \in SUBSET Addr /\ min_plopped \in Addr /\ max_plopped \in Addr
      /\ MaxAddr \in Addr /\ MaxAddr \notin CodeAddr
      /\ \A a \in CodeAddr : a \in Addr /\ a # MaxAddr
  BY AddressAssumption DEF IInv, TypeOK, Addr, CodeAddr
<1>2. ASSUME NEW s \in CodeAddr \cup {MaxAddr}, NEW e \in CodeAddr \cup {MaxAddr},
             s <= e, AddFreeRange(Rng(s, e))
      PROVE  IInv'
  <2> DEFINE r == Rng(s, e)
  <2>1. r \in Range_t /\ r.start <= r.end /\ r.end = e
    BY <1>2, AddressAssumption DEF Rng, Range_t, Addr, CodeAddr
  <2>2. /\ GoodIndex(free_ranges')
        /\ \A b \in Addr : IsFree(b)' <=> IsFree(b) \/ b \in Bytes(r)
    BY <1>2, <2>1, AddFreeRangeEffect
  <2>3. /\ loop = Idle /\ phase = "find_ranges"
        /\ phase' = (IF e = MaxAddr THEN "rewrite" ELSE phase)
        /\ UNCHANGED <<plopped, min_plopped, max_plopped, loop, aborted>>
    BY <1>2, <2>1 DEF AddFreeRange
  <2>4. e = MaxAddr => MaxAddr \in Bytes(r)
    BY <2>1, AddressAssumption DEF Bytes, Range_t, Addr
  <2>5. phase' = "rewrite" => IsFree(MaxAddr)'
    BY <1>1, <2>2, <2>3, <2>4
  <2>6. TypeOK'
    BY <2>2, <2>3 DEF IInv, TypeOK, GoodIndex
  <2>7. LoopProgress'
    BY <2>3, AddressAssumption DEF LoopProgress, Idle
  <2>8. QED
    BY <2>2, <2>3, <2>5, <2>6, <2>7 DEF IInv, AssertsHold, Idle
<1>3. ASSUME NEW r, RemoveFreeRange(r)
      PROVE  IInv'
  <2>1. /\ GoodIndex(free_ranges') /\ r \in Range_t
        /\ \A b \in Addr : IsFree(b)' <=> IsFree(b) /\ b \notin Bytes(r)
    BY <1>3, RemoveFreeRangeEffect
  <2>2. /\ Ready /\ r.end # MaxAddr
        /\ UNCHANGED <<plopped, min_plopped, max_plopped, phase, loop, aborted>>
    BY <1>3 DEF RemoveFreeRange, Ready
  <2>3. MaxAddr \notin Bytes(r)
    BY <2>1, <2>2, AddressAssumption DEF Bytes, Range_t, Addr
  <2>4. TypeOK'
    BY <2>1, <2>2 DEF IInv, TypeOK, GoodIndex
  <2>5. LoopProgress'
    BY <2>2, AddressAssumption DEF LoopProgress, Idle, Ready
  <2>6. QED
    BY <1>1, <2>1, <2>2, <2>3, <2>4, <2>5 DEF IInv, AssertsHold, Idle, Ready
<1>4. ASSUME NEW a \in CodeAddr, SplitOne(a)
      PROVE  IInv'
  <2>1. Ready /\ IsFree(a) /\ SplitByte(a) /\ UNCHANGED <<phase, loop>>
    BY <1>4 DEF SplitOne
  <2>2. QED
    BY <1>1, <2>1, SplitByteEffect, ByteCallIInv
<1>5. ASSUME NEW a \in CodeAddr, MergeOne(a)
      PROVE  IInv'
  <2>1. Ready /\ ~ IsFree(a) /\ MergeByte(a) /\ UNCHANGED <<phase, loop>>
    BY <1>5 DEF MergeOne
  <2>2. QED
    BY <1>1, <2>1, MergeByteEffect, ByteCallIInv
<1>6. ASSUME NEW a \in CodeAddr, PlopOne(a)
      PROVE  IInv'
  <2>1. Ready /\ PlopByte(a) /\ UNCHANGED <<phase, loop>>
    BY <1>6 DEF PlopOne
  <2>2. QED
    BY <1>1, <2>1, PlopByteEffect, ByteCallIInv
<1>7. ASSUME NEW op \in {"split", "merge", "plop"}, NEW s \in CodeAddr,
             NEW e \in CodeAddr, s <= e, BeginLoop(op, s, e)
      PROVE  IInv'
  <2>1. /\ Ready
        /\ op = "split" => \A a \in s .. e - 1 : IsFree(a)
        /\ op = "merge" => \A a \in s .. e - 1 : ~ IsFree(a)
        /\ loop' = [op |-> op, first |-> s, counter |-> s, end |-> e]
        /\ UNCHANGED <<free_ranges, plopped, min_plopped, max_plopped, phase, aborted>>
    BY <1>7 DEF BeginLoop
  <2>2. \A a \in s .. s - 1 : FALSE
    BY AddressAssumption DEF CodeAddr
  <2>3. LoopProgress'
    BY <1>7, <2>1, <2>2, AddressAssumption DEF LoopProgress, CodeAddr, IsFree
  <2>4. loop' \in Loops
    BY <1>1, <2>1 DEF Loops
  <2>5. TypeOK'
    BY <2>1, <2>4 DEF IInv, TypeOK
  <2>6. 1 <= s
    BY AddressAssumption DEF CodeAddr
  <2>7. QED
    BY <2>1, <2>3, <2>5, <2>6 DEF IInv, AssertsHold, Ready, IsFree
<1>8. CASE LoopStep
  BY <1>8, LoopStepIInv
<1>9. CASE LoopReturn
  <2>1. /\ loop' = Idle
        /\ UNCHANGED <<free_ranges, plopped, min_plopped, max_plopped, phase, aborted>>
    BY <1>9 DEF LoopReturn
  <2>2. LoopProgress'
    BY <2>1, AddressAssumption DEF LoopProgress, Idle
  <2>3. loop' \in Loops
    BY <2>1, AddressAssumption DEF Loops, Idle, Addr
  <2>4. TypeOK'
    BY <2>1, <2>3 DEF IInv, TypeOK
  <2>5. QED
    BY <2>1, <2>2, <2>4 DEF IInv, AssertsHold, Idle, IsFree
<1>10. CASE UNCHANGED vars
  BY <1>10 DEF vars, IInv, TypeOK, AssertsHold, LoopProgress, IsFree
<1>11. QED
  BY <1>2, <1>3, <1>4, <1>5, <1>6, <1>7, <1>8, <1>9, <1>10 DEF Next

-----------------------------------------------------------------------------
THEOREM Invariance == Spec => []IInv
<1>1. QED
  BY InitIInv, NextIInv, PTL DEF Spec

(* TypeCorrect: every variable of the memory space keeps its type.         *)
THEOREM TypeCorrect == Spec => []TypeOK
<1>1. IInv => TypeOK
  BY DEF IInv
<1>2. QED
  BY <1>1, Invariance, PTL

(* RangesStayDisjoint: Range_tCompare's condition, that the ranges of the  *)
(* set do not overlap, is never broken by SplitFreeRange, MergeFreeRange,  *)
(* PlopByte or their loops.                                                *)
THEOREM RangesStayDisjoint == Spec => []RangesDisjoint
<1>1. IInv => RangesDisjoint
  BY DEF IInv, GoodIndex, Proper, RangesDisjoint
<1>2. QED
  BY <1>1, Invariance, PTL

(* IndexesStayInAgreement: by_size holds the ranges of by_address, each in *)
(* the bucket FreeRanges_t::insert computes for it.                        *)
THEOREM IndexesStayInAgreement == Spec => []IndexesAgree
<1>1. IInv => IndexesAgree
  BY DEF IInv, GoodIndex, FiledBySize, IndexesAgree
<1>2. QED
  BY <1>1, Invariance, PTL

(* NoAssertFails: the asserts of SplitFreeRange and MergeFreeRange hold    *)
(* for callers that keep the contract, in every iteration of a loop.       *)
THEOREM NoAssertFails == Spec => []AssertsHold
<1>1. IInv => AssertsHold
  BY DEF IInv
<1>2. QED
  BY <1>1, Invariance, PTL

(* RangeCallsAreExact: the loop of a range call has done the bytes before  *)
(* its counter and none of the others.                                     *)
THEOREM RangeCallsAreExact == Spec => []LoopProgress
<1>1. IInv => LoopProgress
  BY DEF IInv
<1>2. QED
  BY <1>1, Invariance, PTL

(* InfiniteRangeStaysFree: getInfiniteFreeRange always finds the one free  *)
(* range that ends at the last address, once FindFreeRanges has added it.  *)
THEOREM InfiniteRangeStaysFree == Spec => []InfiniteRangeFree
<1>1. ASSUME IInv
      PROVE  InfiniteRangeFree
  <2> SUFFICES ASSUME phase = "rewrite"
               PROVE  \E r \in free_ranges.by_address :
                         /\ r.end = MaxAddr
                         /\ \A s \in free_ranges.by_address :
                               s.end = MaxAddr => s = r
    BY DEF InfiniteRangeFree
  <2>1. PICK r \in free_ranges.by_address : MaxAddr \in Bytes(r)
    BY <1>1 DEF IInv, IsFree, IsByteFree
  <2>2. \A s \in free_ranges.by_address : s \in Range_t /\ s.start <= s.end
    BY <1>1 DEF IInv, GoodIndex, Proper
  <2>3. r.end = MaxAddr
    BY <2>1, <2>2, AddressAssumption DEF Bytes, Range_t, Addr
  <2>4. ASSUME NEW s \in free_ranges.by_address, s.end = MaxAddr
        PROVE  s = r
    <3>1. Equiv(s, r)
      BY <2>2, <2>3, <2>4, AddressAssumption DEF Equiv, Range_t, Addr
    <3>2. QED
      BY <1>1, <3>1 DEF IInv, GoodIndex, Proper
  <2>5. QED
    BY <2>3, <2>4
<1>2. QED
  BY <1>1, Invariance, PTL

-----------------------------------------------------------------------------
(* Implementation of FreeBytes.                                            *)

(* One byte taken out, put back or written, as a set of free bytes.        *)
LEMMA ByteIsAbstract ==
    ASSUME NEW a \in CodeAddr, phase = "rewrite", UNCHANGED phase
    PROVE  /\ (/\ IsFree(a) /\ UNCHANGED plopped
               /\ \A b \in Addr : IsFree(b)' <=> IsFree(b) /\ b # a) => FB!Reserve(a)
           /\ (/\ ~ IsFree(a) /\ UNCHANGED plopped
               /\ \A b \in Addr : IsFree(b)' <=> IsFree(b) \/ b = a) => FB!Release(a)
           /\ (/\ plopped' = plopped \cup {a}
               /\ \A b \in Addr : IsFree(b)' <=> IsFree(b) /\ b # a) => FB!Plop(a)
<1> DEFINE F == FreeBytesOf(free_ranges)
<1>1. a \in Addr /\ (a \in F <=> IsFree(a))
  BY AddressAssumption DEF CodeAddr, Addr, FreeBytesOf, IsFree
<1>2. ASSUME \A b \in Addr : IsFree(b)' <=> IsFree(b) /\ b # a
      PROVE  F' = F \ {a}
  BY <1>1, <1>2 DEF FreeBytesOf, IsFree
<1>3. ASSUME \A b \in Addr : IsFree(b)' <=> IsFree(b) \/ b = a
      PROVE  F' = F \cup {a}
  BY <1>1, <1>3 DEF FreeBytesOf, IsFree
<1>4. QED
  BY <1>1, <1>2, <1>3 DEF FB!Reserve, FB!Release, FB!Plop

(* The calls on one byte, and every iteration of a loop over a range.      *)
LEMMA ByteCallsAreAbstract ==
    ASSUME IInv, Next
    PROVE  ByteCalls
<1>1. ASSUME NEW a \in CodeAddr
      PROVE  /\ SplitOne(a) => FB!Reserve(a)
             /\ MergeOne(a) => FB!Release(a)
             /\ PlopOne(a) => FB!Plop(a)
  <2>1. ASSUME SplitOne(a) PROVE FB!Reserve(a)
    <3>1. /\ phase = "rewrite" /\ UNCHANGED phase /\ IsFree(a) /\ SplitByte(a)
      BY <2>1 DEF SplitOne, Ready
    <3>2. QED
      BY <3>1, SplitByteEffect, ByteIsAbstract
  <2>2. ASSUME MergeOne(a) PROVE FB!Release(a)
    <3>1. /\ phase = "rewrite" /\ UNCHANGED phase /\ ~ IsFree(a) /\ MergeByte(a)
      BY <2>2 DEF MergeOne, Ready
    <3>2. QED
      BY <3>1, MergeByteEffect, ByteIsAbstract
  <2>3. ASSUME PlopOne(a) PROVE FB!Plop(a)
    <3>1. /\ phase = "rewrite" /\ UNCHANGED phase /\ PlopByte(a)
      BY <2>3 DEF PlopOne, Ready
    <3>2. QED
      BY <3>1, PlopByteEffect, ByteIsAbstract
  <2>4. QED
    BY <2>1, <2>2, <2>3
<1>2. ASSUME NEW op \in {"split", "merge", "plop"}, LoopBody(op)
      PROVE  /\ op = "split" => FB!Reserve(loop.counter)
             /\ op = "merge" => FB!Release(loop.counter)
             /\ op = "plop" => FB!Plop(loop.counter)
  <2>1. loop.op = op /\ loop.counter # loop.end /\ UNCHANGED phase
    BY <1>2 DEF LoopBody
  <2>2. /\ loop.counter \in CodeAddr
        /\ op = "split" => IsFree(loop.counter)
        /\ op = "merge" => ~ IsFree(loop.counter)
    BY <2>1, LoopByte
  <2>3. phase = "rewrite" /\ loop # Idle
    BY <2>1 DEF IInv, Idle
  <2>4. LoopStep
    BY <2>1, <2>3 DEF Next, AddFreeRange, RemoveFreeRange, SplitOne, MergeOne, PlopOne,
       BeginLoop, LoopReturn, Ready
  <2>5. /\ op = "split" => SplitByte(loop.counter)
        /\ op = "merge" => MergeByte(loop.counter)
        /\ op = "plop" => PlopByte(loop.counter)
    BY <2>1, <2>4 DEF LoopStep, LoopBody
  <2>6. QED
    BY <2>1, <2>2, <2>3, <2>5, ByteIsAbstract, SplitByteEffect, MergeByteEffect,
       PlopByteEffect
<1>3. QED
  BY <1>1, <1>2 DEF ByteCalls

(* The calls on a whole range, and the begin and the end of a loop.        *)
LEMMA RangeCallsAreAbstract ==
    ASSUME IInv, Next
    PROVE  RangeCalls
<1> DEFINE F == FreeBytesOf(free_ranges)
<1>1. \A b \in Addr : b \in F <=> IsFree(b)
  BY DEF FreeBytesOf, IsFree
<1>2. ASSUME NEW s \in CodeAddr \cup {MaxAddr}, NEW e \in CodeAddr \cup {MaxAddr},
             s <= e
      PROVE  /\ Rng(s, e) \in Range_t /\ Bytes(Rng(s, e)) = s .. e
             /\ Rng(s, e).start <= Rng(s, e).end /\ Rng(s, e).end = e
             /\ s .. e \subseteq Addr
  BY <1>2, AddressAssumption DEF Rng, Range_t, Addr, CodeAddr, Bytes
<1>3. ASSUME NEW s \in CodeAddr \cup {MaxAddr}, NEW e \in CodeAddr \cup {MaxAddr},
             s <= e, AddFreeRange(Rng(s, e))
      PROVE  FB!Add(s, e)
  <2> DEFINE r == Rng(s, e)
  <2>1. \A b \in Addr : IsFree(b)' <=> IsFree(b) \/ b \in s .. e
    BY <1>2, <1>3, AddFreeRangeEffect
  <2>2. F' = F \cup s .. e
    BY <1>1, <1>2, <1>3, <2>1 DEF FreeBytesOf, IsFree
  <2>3. /\ phase = "find_ranges" /\ UNCHANGED plopped
        /\ phase' = IF e = MaxAddr THEN "rewrite" ELSE phase
        /\ \A b \in s .. e : ~ IsFree(b)
    BY <1>2, <1>3 DEF AddFreeRange
  <2>4. s .. e \cap F = {}
    BY <1>1, <1>2, <1>3, <2>3
  <2>5. QED
    BY <2>2, <2>3, <2>4 DEF FB!Add
<1>4. ASSUME NEW s \in CodeAddr \cup {MaxAddr}, NEW e \in CodeAddr \cup {MaxAddr},
             s <= e, RemoveFreeRange(Rng(s, e))
      PROVE  FB!Drop(s, e)
  <2>1. \A b \in Addr : /\ IsFree(b)' <=> IsFree(b) /\ b \notin s .. e
                        /\ b \in s .. e => IsFree(b)
    <3>1. \A b \in Addr : /\ IsFree(b)' <=> IsFree(b) /\ b \notin Bytes(Rng(s, e))
                          /\ b \in Bytes(Rng(s, e)) => IsFree(b)
      BY <1>4, RemoveFreeRangeEffect
    <3>2. QED
      BY <1>2, <1>4, <3>1
  <2>2. F' = F \ s .. e /\ s .. e \subseteq F
    BY <1>1, <1>2, <1>4, <2>1 DEF FreeBytesOf, IsFree
  <2>3. phase = "rewrite" /\ UNCHANGED <<plopped, phase>>
    BY <1>4 DEF RemoveFreeRange
  <2>4. QED
    BY <2>2, <2>3 DEF FB!Drop
<1>5. loop'.op # loop.op => UNCHANGED FB!vars
  <2>1. ASSUME loop'.op # loop.op
        PROVE  LoopReturn \/ \E op, s, e : BeginLoop(op, s, e)
    <3>1. loop \in Loops
      BY DEF IInv, TypeOK
    <3>2. LoopStep => loop'.op = loop.op
      BY <3>1 DEF LoopStep, LoopBody, Loops
    <3>3. QED
      BY <2>1, <3>2 DEF Next, AddFreeRange, RemoveFreeRange, SplitOne, MergeOne, PlopOne
  <2>2. QED
    BY <2>1 DEF LoopReturn, BeginLoop, FB!vars, FreeBytesOf
<1>6. QED
  BY <1>3, <1>4, <1>5 DEF RangeCalls

(* Every step is a step of FreeBytes, or leaves its variables alone.       *)
LEMMA NextFreeBytes ==
    ASSUME IInv, [Next]_vars
    PROVE  [FB!Next]_(FB!vars)
<1>1. CASE UNCHANGED vars
  BY <1>1 DEF vars, FB!vars, FreeBytesOf
<1>2. CASE Next
  <2>1. ByteCalls /\ RangeCalls
    BY <1>2, ByteCallsAreAbstract, RangeCallsAreAbstract
  <2>2. CodeAddr = FB!Code
    BY DEF CodeAddr, FB!Code
  <2>3. ASSUME NEW a \in CodeAddr, SplitOne(a) \/ MergeOne(a) \/ PlopOne(a)
        PROVE  FB!Next
    BY <2>1, <2>2, <2>3 DEF ByteCalls, FB!Next
  <2>4. ASSUME NEW s \in CodeAddr \cup {MaxAddr}, NEW e \in CodeAddr \cup {MaxAddr},
               s <= e, AddFreeRange(Rng(s, e))
        PROVE  FB!Next
    BY <2>1, <2>2, <2>4 DEF RangeCalls, FB!Next
  <2>5. ASSUME NEW s \in CodeAddr \cup {MaxAddr}, NEW e \in CodeAddr \cup {MaxAddr},
               s <= e, RemoveFreeRange(Rng(s, e))
        PROVE  FB!Next
    <3>1. e # MaxAddr
      BY <2>5 DEF RemoveFreeRange, Rng
    <3>2. e \in CodeAddr /\ s \in CodeAddr
      BY <2>5, <3>1, AddressAssumption DEF CodeAddr
    <3>3. FB!Drop(s, e)
      BY <2>1, <2>5 DEF RangeCalls
    <3>4. QED
      BY <2>2, <2>5, <3>2, <3>3 DEF FB!Next
  <2>6. CASE LoopStep
    <3>1. /\ loop.op # "none" /\ loop.counter # loop.end
          /\ LoopBody("split") \/ LoopBody("merge") \/ LoopBody("plop")
      BY <2>6 DEF LoopStep, LoopBody
    <3>2. loop.counter \in CodeAddr
      BY <3>1, LoopByte
    <3>3. QED
      BY <2>1, <2>2, <3>1, <3>2 DEF ByteCalls, FB!Next
  <2>7. CASE LoopReturn \/ \E op, s, e : BeginLoop(op, s, e)
    BY <2>7 DEF LoopReturn, BeginLoop, FB!vars, FreeBytesOf
  <2>8. QED
    BY <1>2, <2>3, <2>4, <2>5, <2>6, <2>7 DEF Next
<1>3. QED
  BY <1>1, <1>2

(* Implementation: with its free bytes read off the ranges, the memory     *)
(* space implements FreeBytes, and each call implements the call of its    *)
(* name: a split takes exactly its byte out, a merge puts exactly its byte *)
(* back whatever ranges it joins, a plop takes out the byte it writes, and *)
(* no other byte is gained or lost but by AddFreeRange, while              *)
(* FindFreeRanges runs, and by RemoveFreeRange.                            *)
THEOREM Implementation == Spec => ImplementsFreeBytes
<1>1. Init => FB!Init
  BY DEF Init, FB!Init, FreeBytesOf, IsByteFree, EmptyRanges
<1>2. IInv /\ [Next]_vars => [FB!Next]_(FB!vars)
  BY NextFreeBytes
<1>3. IInv /\ [Next]_vars => [ByteCalls /\ RangeCalls]_vars
  BY ByteCallsAreAbstract, RangeCallsAreAbstract
<1>4. QED
  BY <1>1, <1>2, <1>3, Invariance, PTL DEF Spec, ImplementsFreeBytes, FB!Spec

(* PloppedBoundsExact: PlopByte's running minimum and maximum are the      *)
(* least and the greatest address written.                                 *)
THEOREM PloppedBoundsExact == Spec => []PloppedBounds
<1> DEFINE Bounds == /\ PloppedBounds
                     /\ plopped = {} => min_plopped = MaxAddr /\ max_plopped = 0
<1>1. Init => Bounds
  BY DEF Init, PloppedBounds
<1>2. IInv /\ Bounds /\ [Next]_vars => Bounds'
  <2> SUFFICES ASSUME IInv, Bounds, [Next]_vars PROVE Bounds'
    OBVIOUS
  <2>1. plopped \subseteq Addr /\ min_plopped \in Addr /\ max_plopped \in Addr
    BY DEF IInv, TypeOK
  <2>2. ASSUME NEW a \in CodeAddr, PlopByte(a)
        PROVE  Bounds'
    <3>1. /\ plopped' = plopped \cup {a}
          /\ min_plopped' = IF a < min_plopped THEN a ELSE min_plopped
          /\ max_plopped' = IF a > max_plopped THEN a ELSE max_plopped
      BY <2>2 DEF PlopByte
    <3>2. a \in Addr /\ 0 < a /\ a < MaxAddr
      BY AddressAssumption DEF CodeAddr, Addr
    <3>3. CASE plopped = {}
      BY <2>1, <3>1, <3>2, <3>3, AddressAssumption DEF PloppedBounds, Addr
    <3>4. CASE plopped # {}
      BY <2>1, <3>1, <3>2, <3>4, AddressAssumption DEF PloppedBounds, Addr
    <3>5. QED
      BY <3>3, <3>4
  <2>3. ASSUME UNCHANGED <<plopped, min_plopped, max_plopped>>
        PROVE  Bounds'
    BY <2>3 DEF PloppedBounds
  <2>4. CASE LoopStep
    <3>1. loop.op # "none" /\ loop.counter # loop.end
      BY <2>4 DEF LoopStep, LoopBody
    <3>2. loop.counter \in CodeAddr
      BY <3>1, LoopByte
    <3>3. \/ SplitByte(loop.counter)
          \/ MergeByte(loop.counter)
          \/ PlopByte(loop.counter)
      BY <2>4 DEF LoopStep
    <3>4. QED
      BY <2>2, <2>3, <3>2, <3>3 DEF SplitByte, MergeByte
  <2>5. QED
    BY <2>2, <2>3, <2>4 DEF Next, vars, AddFreeRange, RemoveFreeRange, SplitOne,
       MergeOne, PlopOne, SplitByte, MergeByte, BeginLoop, LoopReturn
<1>3. QED
  BY <1>1, <1>2, Invariance, PTL DEF Spec

-----------------------------------------------------------------------------
(* The search by size relies on two roundings of the same logarithm: a     *)
(* range is filed by its size rounded down, a request asks for its size    *)
(* rounded up, so what is filed where a request looks is large enough.     *)

(* The least-number principle, for sets.                                   *)
LEMMA Least ==
    ASSUME NEW T \in SUBSET Nat, T # {}
    PROVE  \E m \in T : \A k \in T : m <= k
<1>1. PICK m \in T : \A k \in T : ~ (<<k, m>> \in OpToRel(<, Nat))
  BY NatLessThanWellFounded, WFMin
<1>2. ASSUME NEW k \in T, k < m
      PROVE  FALSE
  <2>1. <<k, m>> \in Nat \X Nat /\ <<k, m>>[1] < <<k, m>>[2]
    BY <1>2
  <2>2. <<k, m>> \in OpToRel(<, Nat)
    BY <2>1 DEF OpToRel
  <2>3. QED
    BY <1>1, <2>2
<1>3. QED
  BY <1>2

-----------------------------------------------------------------------------
(* The two logarithms count how often a number can be halved before it is  *)
(* at most c.                                                              *)
Halvings(c, n, g) ==
    /\ g \in [0 .. n -> Nat]
    /\ \A m \in 0 .. n : g[m] = IF m <= c THEN 0 ELSE 1 + g[m \div 2]

LEMMA HalvingsExist ==
    ASSUME NEW c \in {0, 1}, NEW n \in Nat
    PROVE  \E g : Halvings(c, n, g)
<1> DEFINE Bad == {m \in Nat : ~ \E g : Halvings(c, m, g)}
<1> SUFFICES ASSUME Bad # {} PROVE FALSE
  OBVIOUS
<1>1. PICK m \in Bad : \A k \in Bad : m <= k
  BY Least
<1>2. CASE m = 0
  <2>1. Halvings(c, 0, [i \in 0 .. 0 |-> 0])
    BY DEF Halvings
  <2>2. QED
    BY <1>2, <2>1
<1>3. CASE m # 0
  <2>1. m - 1 \in Nat /\ m - 1 \notin Bad
    BY <1>1, <1>3
  <2>2. PICK g : Halvings(c, m - 1, g)
    BY <2>1
  <2> DEFINE h == [i \in 0 .. m |-> IF i = m THEN IF m <= c THEN 0 ELSE 1 + g[m \div 2]
                                    ELSE g[i]]
  <2>3. m > c => m \div 2 \in 0 .. m - 1
    BY <1>3
  <2>4. ASSUME NEW i \in 0 .. m - 1
        PROVE  i \div 2 \in 0 .. m - 1
    OBVIOUS
  <2>5. h \in [0 .. m -> Nat]
    BY <2>2, <2>3 DEF Halvings
  <2>6. \A i \in 0 .. m : h[i] = IF i <= c THEN 0 ELSE 1 + h[i \div 2]
    <3>1. h[m] = IF m <= c THEN 0 ELSE 1 + h[m \div 2]
      BY <2>3
    <3>2. ASSUME NEW i \in 0 .. m - 1
          PROVE  h[i] = IF i <= c THEN 0 ELSE 1 + h[i \div 2]
      <4>1. h[i] = g[i] /\ h[i \div 2] = g[i \div 2]
        BY <2>4
      <4>2. QED
        BY <2>2, <4>1 DEF Halvings
    <3>3. QED
      BY <3>1, <3>2
  <2>7. Halvings(c, m, h)
    BY <2>5, <2>6 DEF Halvings
  <2>8. QED
    BY <2>7
<1>4. QED
  BY <1>2, <1>3

LEMMA HalvingsAgree ==
    ASSUME NEW c \in {0, 1}, NEW n \in Nat, NEW k \in Nat, NEW g, NEW h,
           Halvings(c, n, g), Halvings(c, k, h), k <= n
    PROVE  \A i \in 0 .. k : g[i] = h[i]
<1> DEFINE Bad == {i \in 0 .. k : g[i] # h[i]}
<1> SUFFICES ASSUME Bad # {} PROVE FALSE
  OBVIOUS
<1>1. PICK m \in Bad : \A i \in Bad : m <= i
  <2>1. Bad \in SUBSET Nat
    OBVIOUS
  <2>2. QED
    BY <2>1, Least
<1>2. m > c
  BY DEF Halvings
<1>3. m \div 2 \in 0 .. k /\ m \div 2 < m
  BY <1>2
<1>4. g[m \div 2] = h[m \div 2]
  BY <1>1, <1>3
<1>5. m \in 0 .. n /\ m \in 0 .. k
  OBVIOUS
<1>6. g[m] = h[m]
  BY <1>2, <1>4, <1>5 DEF Halvings
<1>7. QED
  BY <1>6

(* So the recursive definition has a value.                                *)
LEMMA HalvingDefined ==
    ASSUME NEW c \in {0, 1}
    PROVE  \E f : f = [n \in Nat |-> IF n <= c THEN 0 ELSE 1 + f[n \div 2]]
<1> DEFINE G(n) == CHOOSE g : Halvings(c, n, g)
           F == [n \in Nat |-> G(n)[n]]
<1>1. \A n \in Nat : Halvings(c, n, G(n))
  BY HalvingsExist
<1> HIDE DEF G
<1>2. ASSUME NEW n \in Nat
      PROVE  F[n] = IF n <= c THEN 0 ELSE 1 + F[n \div 2]
  <2>1. F[n] = G(n)[n] /\ n \in 0 .. n
    OBVIOUS
  <2>2. CASE n <= c
    BY <1>1, <2>1, <2>2 DEF Halvings
  <2>3. CASE n > c
    <3>1. n \div 2 \in Nat /\ n \div 2 <= n /\ n \div 2 \in 0 .. (n \div 2)
      OBVIOUS
    <3>2. Halvings(c, n, G(n)) /\ Halvings(c, n \div 2, G(n \div 2))
      BY <1>1, <3>1
    <3>3. G(n)[n \div 2] = G(n \div 2)[n \div 2]
      BY <3>1, <3>2, HalvingsAgree
    <3>4. F[n \div 2] = G(n \div 2)[n \div 2]
      BY <3>1
    <3>5. G(n)[n] = 1 + G(n)[n \div 2]
      BY <2>1, <2>3, <3>2 DEF Halvings
    <3>6. QED
      BY <2>1, <2>3, <3>3, <3>4, <3>5
  <2>4. QED
    BY <2>2, <2>3
<1>3. F = [n \in Nat |-> F[n]]
  OBVIOUS
<1> HIDE DEF F
<1>4. F = [n \in Nat |-> IF n <= c THEN 0 ELSE 1 + F[n \div 2]]
  BY <1>2, <1>3
<1>5. QED
  BY <1>4

LEMMA LogarithmsDefined ==
    /\ \A n \in Nat : integerlog2floor[n] =
                          IF n <= 1 THEN 0 ELSE 1 + integerlog2floor[n \div 2]
    /\ \A n \in Nat : SignificantBits[n] =
                          IF n = 0 THEN 0 ELSE 1 + SignificantBits[n \div 2]
<1>1. \E f : f = [n \in Nat |-> IF n <= 1 THEN 0 ELSE 1 + f[n \div 2]]
  BY HalvingDefined
<1>2. integerlog2floor = [n \in Nat |-> IF n <= 1 THEN 0 ELSE 1 + integerlog2floor[n \div 2]]
  BY <1>1 DEF integerlog2floor
<1>3. PICK f : f = [n \in Nat |-> IF n <= 0 THEN 0 ELSE 1 + f[n \div 2]]
  BY HalvingDefined
<1>4. f = [n \in Nat |-> IF n = 0 THEN 0 ELSE 1 + f[n \div 2]]
  BY <1>3
<1>5. SignificantBits = [n \in Nat |-> IF n = 0 THEN 0 ELSE 1 + SignificantBits[n \div 2]]
  BY <1>4 DEF SignificantBits
<1>6. \A n \in Nat : integerlog2floor[n] =
                         IF n <= 1 THEN 0 ELSE 1 + integerlog2floor[n \div 2]
  BY <1>2
<1>7. \A n \in Nat : SignificantBits[n] =
                         IF n = 0 THEN 0 ELSE 1 + SignificantBits[n \div 2]
  BY <1>5
<1>8. QED
  BY <1>6, <1>7

LEMMA FloorType == \A n \in Nat : integerlog2floor[n] \in Nat
<1> DEFINE Bad == {n \in Nat : integerlog2floor[n] \notin Nat}
<1> SUFFICES ASSUME Bad # {} PROVE FALSE
  OBVIOUS
<1>1. PICK m \in Bad : \A k \in Bad : m <= k
  BY Least
<1>2. CASE m <= 1
  BY <1>2, LogarithmsDefined
<1>3. CASE m > 1
  <2>1. m \div 2 \in Nat /\ m \div 2 < m
    BY <1>3
  <2>2. integerlog2floor[m \div 2] \in Nat
    BY <1>1, <2>1
  <2>3. QED
    BY <1>3, <2>2, LogarithmsDefined
<1>4. QED
  BY <1>2, <1>3

(* The number of significant bits is one more than the logarithm rounded   *)
(* down.                                                                   *)
LEMMA BitsAndFloor ==
    \A n \in Nat \ {0} : SignificantBits[n] = integerlog2floor[n] + 1
<1> DEFINE Bad == {n \in Nat \ {0} : SignificantBits[n] # integerlog2floor[n] + 1}
<1> SUFFICES ASSUME Bad # {} PROVE FALSE
  OBVIOUS
<1>1. PICK m \in Bad : \A k \in Bad : m <= k
  BY Least
<1>2. CASE m = 1
  <2>1. SignificantBits[1] = 1 + SignificantBits[0] /\ SignificantBits[0] = 0
    BY LogarithmsDefined
  <2>2. QED
    BY <1>2, <2>1, LogarithmsDefined
<1>3. CASE m > 1
  <2>1. m \div 2 \in Nat \ {0} /\ m \div 2 < m
    BY <1>3
  <2>2. SignificantBits[m \div 2] = integerlog2floor[m \div 2] + 1
    BY <1>1, <2>1
  <2>3. QED
    BY <1>3, <2>1, <2>2, LogarithmsDefined, FloorType
<1>4. QED
  BY <1>2, <1>3

LEMMA FloorIsMonotone ==
    \A n \in Nat : \A m \in 0 .. n : integerlog2floor[m] <= integerlog2floor[n]
<1> DEFINE Bad == {n \in Nat : \E m \in 0 .. n : ~ (integerlog2floor[m] <= integerlog2floor[n])}
<1> SUFFICES ASSUME Bad # {} PROVE FALSE
  OBVIOUS
<1>1. PICK n \in Bad : \A k \in Bad : n <= k
  BY Least
<1>2. PICK m \in 0 .. n : ~ (integerlog2floor[m] <= integerlog2floor[n])
  OBVIOUS
<1>3. m \in Nat /\ n \in Nat /\ integerlog2floor[n] \in Nat
  BY FloorType
<1>4. m > 1 /\ n > 1
  BY <1>2, <1>3, LogarithmsDefined
<1>5. n \div 2 \in Nat /\ n \div 2 < n /\ m \div 2 \in 0 .. (n \div 2)
  BY <1>3, <1>4
<1>6. integerlog2floor[m \div 2] <= integerlog2floor[n \div 2]
  BY <1>1, <1>5
<1>7. integerlog2floor[m \div 2] \in Nat /\ integerlog2floor[n \div 2] \in Nat
  BY <1>5, FloorType
<1>8. QED
  BY <1>2, <1>3, <1>4, <1>6, <1>7, LogarithmsDefined

LEMMA CeilType == \A n \in Nat \ {0} : integerlog2ceil(n) \in Nat
<1> SUFFICES ASSUME NEW n \in Nat \ {0} PROVE integerlog2ceil(n) \in Nat
  OBVIOUS
<1>1. n - 1 \in Nat
  OBVIOUS
<1>2. QED
  BY <1>1, LogarithmsDefined, BitsAndFloor, FloorType DEF integerlog2ceil

(* What is filed by its size rounded down under the rounded-up logarithm   *)
(* of n holds n: the size the code files by may have been truncated, but   *)
(* not to less than n unless n is 1.                                       *)
LEMMA FiledFits ==
    ASSUME NEW n \in Nat \ {0}, NEW a \in Nat, integerlog2floor[a] = integerlog2ceil(n)
    PROVE  a >= n \/ n = 1
<1> SUFFICES ASSUME a < n, n # 1 PROVE FALSE
  OBVIOUS
<1>1. n - 1 \in Nat \ {0} /\ a \in 0 .. n - 1
  OBVIOUS
<1>2. integerlog2floor[a] <= integerlog2floor[n - 1]
  BY <1>1, FloorIsMonotone
<1>3. integerlog2ceil(n) = integerlog2floor[n - 1] + 1
  BY <1>1, BitsAndFloor DEF integerlog2ceil
<1>4. integerlog2floor[n - 1] \in Nat
  BY <1>1, FloorType
<1>5. QED
  BY <1>2, <1>3, <1>4

(* Twice the size is filed one bucket up.                                  *)
LEMMA DoubledCeil ==
    ASSUME NEW n \in Nat \ {0}
    PROVE  integerlog2ceil(2 * n) = integerlog2ceil(n) + 1
<1>1. 2 * n - 1 \in Nat \ {0} /\ (2 * n - 1) \div 2 = n - 1
  OBVIOUS
<1>2. SignificantBits[2 * n - 1] = 1 + SignificantBits[n - 1]
  BY <1>1, LogarithmsDefined
<1>3. n - 1 \in Nat /\ SignificantBits[n - 1] \in Nat
  BY LogarithmsDefined, BitsAndFloor, FloorType
<1>4. QED
  BY <1>2, <1>3 DEF integerlog2ceil

(* and it still fits the integers as long as some range is filed there.    *)
LEMMA DoubledFits ==
    ASSUME NEW n \in Nat \ {0}, NEW a \in 0 .. IntMod - 1,
           integerlog2ceil(n) < integerlog2floor[a]
    PROVE  Doubled(n) = 2 * n
<1>1. 2 * n - 1 \in Nat \ {0}
  OBVIOUS
<1>2. integerlog2ceil(2 * n) = integerlog2floor[2 * n - 1] + 1
  BY <1>1, BitsAndFloor DEF integerlog2ceil
<1>3. a \in Nat /\ integerlog2floor[a] \in Nat /\ integerlog2floor[2 * n - 1] \in Nat
  BY <1>1, BucketAssumption, FloorType
<1>4. integerlog2ceil(n) \in Int
  BY CeilType
<1>5. ~ (integerlog2floor[a] <= integerlog2floor[2 * n - 1])
  BY <1>2, <1>3, <1>4, DoubledCeil
<1>6. 2 * n - 1 < a
  BY <1>1, <1>3, <1>5, FloorIsMonotone
<1>7. 2 * n \in 0 .. IntMod - 1
  BY <1>6, BucketAssumption
<1>8. (n * 2) % IntMod = 2 * n
  BY <1>7, BucketAssumption
<1>9. QED
  BY <1>8 DEF Doubled

-----------------------------------------------------------------------------
(* The sizes the nested calls are asked for.                               *)
Asking(size, n, g) ==
    /\ g \in [0 .. n -> Nat]
    /\ \A k \in 0 .. n : g[k] = AtLeastOne(IF k = 0 THEN size ELSE Doubled(g[k - 1]))

LEMMA DoubledType == \A n \in Nat : Doubled(n) \in Nat
BY BucketAssumption DEF Doubled

LEMMA AskingExists ==
    ASSUME NEW size \in Nat, NEW n \in Nat
    PROVE  \E g : Asking(size, n, g)
<1> DEFINE Bad == {m \in Nat : ~ \E g : Asking(size, m, g)}
<1> SUFFICES ASSUME Bad # {} PROVE FALSE
  OBVIOUS
<1>1. PICK m \in Bad : \A k \in Bad : m <= k
  BY Least
<1>2. CASE m = 0
  <2>1. Asking(size, 0, [i \in 0 .. 0 |-> AtLeastOne(size)])
    BY DEF Asking, AtLeastOne
  <2>2. QED
    BY <1>2, <2>1
<1>3. CASE m # 0
  <2>1. m - 1 \in Nat /\ m - 1 \notin Bad
    BY <1>1, <1>3
  <2>2. PICK g : Asking(size, m - 1, g)
    BY <2>1
  <2>3. g[m - 1] \in Nat
    BY <2>1, <2>2 DEF Asking
  <2>4. AtLeastOne(Doubled(g[m - 1])) \in Nat
    BY <2>3, DoubledType DEF AtLeastOne
  <2> DEFINE h == [i \in 0 .. m |-> IF i = m THEN AtLeastOne(Doubled(g[m - 1])) ELSE g[i]]
  <2>5. h \in [0 .. m -> Nat]
    BY <2>2, <2>4 DEF Asking
  <2>6. ASSUME NEW i \in 0 .. m
        PROVE  h[i] = AtLeastOne(IF i = 0 THEN size ELSE Doubled(h[i - 1]))
    <3>1. CASE i = m
      <4>1. h[i - 1] = g[m - 1]
        BY <3>1, <2>1
      <4>2. QED
        BY <1>3, <3>1, <4>1
    <3>2. CASE i # m
      <4>1. h[i] = g[i] /\ (i # 0 => h[i - 1] = g[i - 1]) /\ i \in 0 .. m - 1
        BY <3>2, <2>1
      <4>2. QED
        BY <2>2, <4>1 DEF Asking
    <3>3. QED
      BY <3>1, <3>2
  <2>7. Asking(size, m, h)
    BY <2>5, <2>6 DEF Asking
  <2>8. QED
    BY <2>7
<1>4. QED
  BY <1>2, <1>3

LEMMA AskedDefined ==
    ASSUME NEW size \in Nat
    PROVE  \A k \in 0 .. NumBuckets :
               Asked(size)[k] = AtLeastOne(IF k = 0 THEN size ELSE Doubled(Asked(size)[k - 1]))
<1>1. PICK g : Asking(size, NumBuckets, g)
  BY AskingExists, BucketAssumption
<1>2. g = [k \in 0 .. NumBuckets |-> g[k]]
  BY <1>1 DEF Asking
<1>3. g = [k \in 0 .. NumBuckets |->
              AtLeastOne(IF k = 0 THEN size ELSE Doubled(g[k - 1]))]
  BY <1>1, <1>2 DEF Asking
<1>4. Asked(size) = [k \in 0 .. NumBuckets |->
              AtLeastOne(IF k = 0 THEN size ELSE Doubled(Asked(size)[k - 1]))]
  BY <1>3 DEF Asked
<1>5. QED
  BY <1>4

(* As long as some range is filed further up, each nested call looks one   *)
(* bucket up, for no less than the first one was asked for.                *)
LEMMA AskedClimbs ==
    ASSUME NEW size \in Nat, NEW a \in 0 .. IntMod - 1,
           NEW n \in 0 .. NumBuckets,
           integerlog2floor[a] = integerlog2ceil(AtLeastOne(size)) + n
    PROVE  \A k \in 0 .. n :
               /\ Asked(size)[k] \in Nat \ {0}
               /\ Asked(size)[k] >= size
               /\ integerlog2ceil(Asked(size)[k]) = integerlog2ceil(AtLeastOne(size)) + k
<1> DEFINE c == integerlog2ceil(AtLeastOne(size))
           Climbs(k) == /\ Asked(size)[k] \in Nat \ {0}
                        /\ Asked(size)[k] >= size
                        /\ integerlog2ceil(Asked(size)[k]) = c + k
           Bad == {k \in 0 .. n : ~ Climbs(k)}
<1> SUFFICES ASSUME Bad # {} PROVE FALSE
  OBVIOUS
<1>1. PICK m \in Bad : \A k \in Bad : m <= k
  <2>1. Bad \in SUBSET Nat
    BY BucketAssumption
  <2>2. QED
    BY <2>1, Least
<1>2. AtLeastOne(size) \in Nat \ {0} /\ AtLeastOne(size) >= size
  BY DEF AtLeastOne
<1>3. c \in Nat
  BY <1>2, CeilType
<1>4. n \in Nat /\ m \in 0 .. n /\ m \in 0 .. NumBuckets
  BY BucketAssumption
<1>5. CASE m = 0
  <2>1. Asked(size)[0] = AtLeastOne(size)
    BY <1>4, <1>5, AskedDefined
  <2>2. Climbs(0)
    BY <1>2, <1>3, <2>1
  <2>3. QED
    BY <1>5, <2>2
<1>6. CASE m # 0
  <2> DEFINE x == Asked(size)[m - 1]
  <2>1. m - 1 \in 0 .. n /\ m - 1 < m
    BY <1>4, <1>6
  <2>2. Climbs(m - 1)
    BY <1>1, <2>1
  <2>3. integerlog2ceil(x) < integerlog2floor[a]
    BY <1>3, <1>4, <2>1, <2>2
  <2>4. Doubled(x) = 2 * x
    BY <2>2, <2>3, DoubledFits
  <2>5. Asked(size)[m] = AtLeastOne(Doubled(x))
    BY <1>4, <1>6, AskedDefined
  <2>6. Asked(size)[m] = 2 * x
    BY <2>2, <2>4, <2>5 DEF AtLeastOne
  <2>7. integerlog2ceil(2 * x) = integerlog2ceil(x) + 1
    BY <2>2, DoubledCeil
  <2>8. Asked(size)[m] \in Nat \ {0} /\ Asked(size)[m] >= size
    BY <2>2, <2>6
  <2>9. integerlog2ceil(Asked(size)[m]) = c + m
    BY <1>3, <1>4, <2>2, <2>6, <2>7
  <2>10. QED
    BY <2>8, <2>9
<1>7. QED
  BY <1>5, <1>6

-----------------------------------------------------------------------------
(* The search, on indexes in a good state.                                 *)
LEMMA SearchFitsGood ==
    ASSUME GoodIndex(free_ranges), NEW size \in 0 .. IntMod - 1, Reachable(size)
    PROVE  LET k == LastCall(size)
           IN  /\ k <= NumBuckets /\ InVector(Asked(size)[k])
               /\ \A r \in Candidates(Asked(size)[k]) :
                     /\ r \in free_ranges.by_address
                     /\ getSize(r) >= Asked(size)[k] /\ getSize(r) >= size
<1> DEFINE c == integerlog2ceil(AtLeastOne(size))
           Narrowed(r) == getSize(r) % IntMod
           ends == {j \in 0 .. NumBuckets : \/ ~ InVector(Asked(size)[j])
                                            \/ Candidates(Asked(size)[j]) # {}}
<1>1. \A r \in free_ranges.by_address :
          /\ r \in Range_t /\ getSize(r) \in Nat \ {0}
          /\ Narrowed(r) \in 0 .. IntMod - 1 /\ Narrowed(r) <= getSize(r)
          /\ BucketOf(r) = integerlog2floor[Narrowed(r)] /\ BucketOf(r) \in Bucket
  <2> SUFFICES ASSUME NEW r \in free_ranges.by_address
               PROVE  /\ r \in Range_t /\ getSize(r) \in Nat \ {0}
                      /\ Narrowed(r) \in 0 .. IntMod - 1 /\ Narrowed(r) <= getSize(r)
                      /\ BucketOf(r) = integerlog2floor[Narrowed(r)] /\ BucketOf(r) \in Bucket
    OBVIOUS
  <2>1. r \in Range_t /\ r.start <= r.end
    BY DEF GoodIndex, Proper
  <2>2. getSize(r) \in Nat \ {0}
    BY <2>1, AddressAssumption DEF getSize, Range_t, Addr
  <2>3. Narrowed(r) \in 0 .. IntMod - 1 /\ Narrowed(r) <= getSize(r)
    BY <2>2, BucketAssumption
  <2>4. QED
    BY <2>1, <2>2, <2>3, BucketOfType DEF BucketOf
<1>2. size \in Nat /\ AtLeastOne(size) \in Nat \ {0} /\ c \in Nat
  BY BucketAssumption, CeilType DEF AtLeastOne
<1>3. PICK r \in free_ranges.by_address : BucketOf(r) >= c
  BY DEF Reachable
<1> DEFINE n == BucketOf(r) - c
<1>4. n \in 0 .. NumBuckets /\ n \in Nat /\ integerlog2floor[Narrowed(r)] = c + n
  BY <1>1, <1>2, <1>3, BucketAssumption DEF Bucket
<1>5. \A k \in 0 .. n : /\ Asked(size)[k] \in Nat \ {0}
                        /\ Asked(size)[k] >= size
                        /\ integerlog2ceil(Asked(size)[k]) = c + k
  BY <1>1, <1>2, <1>4, AskedClimbs
<1>6. n \in ends
  <2>1. integerlog2ceil(Asked(size)[n]) = BucketOf(r)
    BY <1>1, <1>2, <1>4, <1>5 DEF Bucket
  <2>2. r \in Candidates(Asked(size)[n])
    BY <1>1, <2>1 DEF Candidates, bySize, GoodIndex, FiledBySize
  <2>3. QED
    BY <1>4, <2>2
<1>7. PICK k \in ends : \A j \in ends : k <= j
  <2>1. ends \in SUBSET Nat
    BY BucketAssumption
  <2>2. QED
    BY <1>6, <2>1, Least
<1>8. LastCall(size) = k
  <2>1. \A i \in ends : (\A j \in ends : i <= j) => i = k
    BY <1>7, BucketAssumption
  <2>2. QED
    BY <1>6, <1>7, <2>1 DEF LastCall
<1>9. k \in 0 .. n /\ k <= NumBuckets
  BY <1>4, <1>6, <1>7, BucketAssumption
<1>10. integerlog2ceil(Asked(size)[k]) \in Bucket
  BY <1>1, <1>2, <1>4, <1>5, <1>9, BucketAssumption DEF Bucket
<1>11. ASSUME NEW q \in Candidates(Asked(size)[k])
       PROVE  /\ q \in free_ranges.by_address
              /\ getSize(q) >= Asked(size)[k] /\ getSize(q) >= size
  <2>1. q \in free_ranges.by_address /\ BucketOf(q) = integerlog2ceil(Asked(size)[k])
    BY <1>10 DEF Candidates, bySize, GoodIndex, FiledBySize
  <2>2. Narrowed(q) \in Nat
    BY <1>1, <2>1, BucketAssumption
  <2>3. Narrowed(q) >= Asked(size)[k] \/ Asked(size)[k] = 1
    BY <1>1, <1>5, <1>9, <2>1, <2>2, FiledFits
  <2>4. QED
    BY <1>1, <1>2, <1>5, <1>9, <2>1, <2>2, <2>3
<1>12. QED
  BY <1>8, <1>9, <1>10, <1>11 DEF InVector

(* After any calls, getFreeRange's recursion ends inside the vector, and   *)
(* whichever range it returns is free and holds the bytes asked for, for   *)
(* every size that some range is filed for.                                *)
THEOREM FreeRangeSearchFits == Spec => []SearchFits
<1>1. IInv => SearchFits
  BY SearchFitsGood DEF IInv, SearchFits
<1>2. QED
  BY Invariance, <1>1, PTL

=============================================================================
