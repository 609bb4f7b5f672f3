----------------------------- MODULE FreeRanges -----------------------------
(***************************************************************************)
(* The class FreeRanges_t and the single-byte algorithms                   *)
(* ZiprMemorySpace_t runs on it (zipr/include/zipr_mem_space.h,            *)
(* zipr/src/memory_space.cpp).  The value is a record of the two indexes   *)
(* the class keeps: by_address, a std::set ordered by Range_tCompare, and  *)
(* by_size, one such set per power of two.  Everything here is a pure      *)
(* operator on that record; the state machine is in MemorySpace.           *)
(***************************************************************************)
EXTENDS Integers, FiniteSets

CONSTANTS MaxAddr,     \* the address the code writes (RangeAddress_t)-1
          NumBuckets,  \* by_size.size(): 32 in the code
          IntMod       \* 2^32 in the code: what an unsigned int can hold

Addr   == 0 .. MaxAddr
Bucket == 0 .. NumBuckets - 1

\* RangeAddress_t arithmetic is modular: 0 - 1 is the last address.
Succ(a) == IF a = MaxAddr THEN 0 ELSE a + 1
Pred(a) == IF a = 0 THEN MaxAddr ELSE a - 1

(* integerlog2floor: halve until nothing is left, counting the halvings.   *)
integerlog2floor[n \in Nat] ==
    IF n <= 1 THEN 0 ELSE 1 + integerlog2floor[n \div 2]

(* integerlog2ceil: the number of significant bits of n - 1.               *)
SignificantBits[n \in Nat] ==
    IF n = 0 THEN 0 ELSE 1 + SignificantBits[n \div 2]
integerlog2ceil(n) == SignificantBits[n - 1]

(* The vector by_size has an element for every value integerlog2floor can  *)
(* return, whatever unsigned int it is given.                              *)
ASSUME AddressAssumption == MaxAddr \in Nat \ {0}
ASSUME BucketAssumption ==
    /\ NumBuckets \in Nat \ {0} /\ IntMod \in Nat \ {0}
    /\ \A n \in 0 .. IntMod - 1 : integerlog2floor[n] \in Bucket

-----------------------------------------------------------------------------
(* Ranges are inclusive at both ends.                                      *)
Range_t == [start : Addr, end : Addr]
Rng(s, e)  == [start |-> s, end |-> e]
Bytes(r)   == r.start .. r.end
getSize(r) == r.end - r.start + 1

(* Range_tCompare makes two ranges equivalent when neither ends before the *)
(* other starts; a std::set keeps one element of an equivalence class.     *)
Equiv(r, s) == ~ (r.end < s.start) /\ ~ (s.end < r.start)
SetInsert(S, r) == IF \E s \in S : Equiv(s, r) THEN S ELSE S \cup {r}
SetErase(S, r)  == {s \in S : ~ Equiv(s, r)}

(* The size_t size is narrowed to the unsigned int parameter.              *)
BucketOf(r) == integerlog2floor[getSize(r) % IntMod]

FreeRanges_t == [by_address : SUBSET Range_t,
                 by_size    : [Bucket -> SUBSET Range_t]]

EmptyRanges == [by_address |-> {}, by_size |-> [k \in Bucket |-> {}]]

insert(fr, r) ==
    [by_address |-> SetInsert(fr.by_address, r),
     by_size    |-> [fr.by_size EXCEPT ![BucketOf(r)] = SetInsert(@, r)]]

(* A mistake: the size index is forgotten.                                 *)
erase_AddressOnly(fr, r) == [fr EXCEPT !.by_address = @ \ {r}]

(* erase by iterator: r is the element the iterator stands on.             *)
erase(fr, r) ==
    [by_address |-> fr.by_address \ {r},
     by_size    |-> [fr.by_size EXCEPT ![BucketOf(r)] = SetErase(@, r)]]

bySize(fr, size) == fr.by_size[integerlog2ceil(size)]

-----------------------------------------------------------------------------
(* Queries.                                                                *)
IsByteFree(fr, a)    == \E r \in fr.by_address : a \in Bytes(r)
FindFreeRange(fr, a) == CHOOSE r \in fr.by_address : a \in Bytes(r)
FreeBytesOf(fr)      == {a \in Addr : IsByteFree(fr, a)}

(* A mistake: the one-byte range has no case of its own; the byte          *)
(* stays in the part below it.                                             *)
SplitFreeRange_NoSingleton(fr, a) ==
    LET r    == FindFreeRange(fr, a)
        none == erase(fr, r)
        low  == IF r.start < a THEN insert(none, Rng(r.start, a - 1)) ELSE none
    IN  insert(low, Rng(a + 1, r.end))
SplitFreeRange_KeepsByte(fr, a) ==
    LET r    == FindFreeRange(fr, a)
        none == erase(fr, r)
        low  == IF r.start < a THEN insert(none, Rng(r.start, a)) ELSE none
    IN  IF a < r.end THEN insert(low, Rng(a + 1, r.end)) ELSE low

(* SplitFreeRange(addr): the range that holds the byte is replaced by what *)
(* is left of it below and above the byte.                                 *)
SplitFreeRange(fr, a) ==
    LET r    == FindFreeRange(fr, a)
        none == erase(fr, r)
        low  == IF r.start < a THEN insert(none, Rng(r.start, a - 1)) ELSE none
    IN  IF a < r.end THEN insert(low, Rng(a + 1, r.end)) ELSE low

(* MergeFreeRange(addr): the byte joins the free range above it, the one   *)
(* below it, both or none.  The two asserts of the code are                *)
(* MergeAssert.                                                            *)
MergeAssert(fr, a) ==
    IF IsByteFree(fr, Succ(a))
    THEN FindFreeRange(fr, Succ(a)).start = Succ(a)
    ELSE IsByteFree(fr, Pred(a)) => FindFreeRange(fr, Pred(a)).end = Pred(a)

(* A mistake, one slip each in the bounds of the joined range: a           *)
(* byte too many when nothing is above; the range above erased and not     *)
(* joined; the setStart after the second merge missing.                    *)
MergeWithBounds(fr, a, Bounds(_, _, _, _)) ==
    LET up    == IsByteFree(fr, Succ(a))
        down  == IsByteFree(fr, Pred(a))
        p1    == FindFreeRange(fr, Succ(a))
        m1    == FindFreeRange(fr, Pred(a))
        below == IF down THEN erase(fr, m1) ELSE fr
        gone  == IF up THEN erase(below, p1) ELSE below
    IN  insert(gone, Bounds(up, down, p1, m1))
MergeFreeRange_OneTooMany(fr, a) ==
    LET B(up, down, p1, m1) == Rng(IF down THEN m1.start ELSE a,
                                   IF up THEN p1.end ELSE a + 1)
    IN  MergeWithBounds(fr, a, B)
MergeFreeRange_DropsAbove(fr, a) ==
    LET B(up, down, p1, m1) == Rng(IF down THEN m1.start ELSE a, a)
    IN  MergeWithBounds(fr, a, B)
MergeFreeRange_NoSetStart(fr, a) ==
    LET B(up, down, p1, m1) == Rng(IF down /\ ~ up THEN m1.start ELSE a,
                                   IF up THEN p1.end ELSE a)
    IN  MergeWithBounds(fr, a, B)

MergeFreeRange(fr, a) ==
    LET up    == IsByteFree(fr, Succ(a))
        down  == IsByteFree(fr, Pred(a))
        p1    == FindFreeRange(fr, Succ(a))
        m1    == FindFreeRange(fr, Pred(a))
        nr    == Rng(IF down THEN m1.start ELSE a, IF up THEN p1.end ELSE a)
        below == IF down THEN erase(fr, m1) ELSE fr
        gone  == IF up THEN erase(below, p1) ELSE below
    IN  insert(gone, nr)

=============================================================================
