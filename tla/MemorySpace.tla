---------------------------- MODULE MemorySpace ----------------------------
(***************************************************************************)
(* ZiprMemorySpace_t: the address space the rewriter places code in.       *)
(* FindFreeRanges fills it once; from then on pins, dollops, patches and   *)
(* sleds take bytes out (SplitFreeRange, PlopByte) and give bytes back     *)
(* (MergeFreeRange).  A call on a range is a loop of calls on bytes, and   *)
(* is modelled one byte per step.                                          *)
(*                                                                         *)
(* The callers' contract, read from every call site: a byte is split only  *)
(* while free and merged only while busy, and the byte at MaxAddr, the end *)
(* of the overflow area, is never taken.                                   *)
(***************************************************************************)
EXTENDS FreeRanges

VARIABLES free_ranges,   \* FreeRanges_t free_ranges
          plopped,       \* keys of the map<addr, char> the class inherits
          min_plopped, max_plopped,
          phase,         \* FindFreeRanges still running, or done
          loop,          \* the range call that is executing
          aborted        \* an assert of the class has failed

vars == <<free_ranges, plopped, min_plopped, max_plopped, phase, loop, aborted>>

CodeAddr == 1 .. MaxAddr - 1

Idle  == [op |-> "none", first |-> 0, counter |-> 0, end |-> 0]
Loops == [op : {"none", "split", "merge", "plop"},
          first : Addr, counter : Addr, end : Addr]

IsFree(a) == IsByteFree(free_ranges, a)

Init ==
    /\ free_ranges = EmptyRanges
    /\ plopped = {} /\ min_plopped = MaxAddr /\ max_plopped = 0
    /\ phase = "find_ranges"
    /\ loop = Idle
    /\ aborted = FALSE

-----------------------------------------------------------------------------
(* The body of each single-byte member function.                           *)

SplitByte(a) ==
    /\ IF IsFree(a)
       THEN free_ranges' = SplitFreeRange(free_ranges, a) /\ UNCHANGED aborted
       ELSE aborted' = TRUE /\ UNCHANGED free_ranges
    /\ UNCHANGED <<plopped, min_plopped, max_plopped>>

MergeByte(a) ==
    /\ IF MergeAssert(free_ranges, a)
       THEN free_ranges' = MergeFreeRange(free_ranges, a) /\ UNCHANGED aborted
       ELSE aborted' = TRUE /\ UNCHANGED free_ranges
    /\ UNCHANGED <<plopped, min_plopped, max_plopped>>

PlopByte(a) ==
    /\ min_plopped' = IF a < min_plopped THEN a ELSE min_plopped
    /\ max_plopped' = IF a > max_plopped THEN a ELSE max_plopped
    /\ free_ranges' = IF IsFree(a) THEN SplitFreeRange(free_ranges, a)
                                   ELSE free_ranges
    /\ plopped' = plopped \cup {a}
    /\ UNCHANGED aborted

-----------------------------------------------------------------------------
(* The calls.  FindFreeRanges adds the scoops' ranges, the overflow area   *)
(* [.., MaxAddr] last.                                                     *)

AddFreeRange(r) ==
    /\ phase = "find_ranges" /\ loop = Idle
    /\ \A a \in Bytes(r) : ~ IsFree(a)
    /\ free_ranges' = insert(free_ranges, r)
    /\ phase' = IF r.end = MaxAddr THEN "rewrite" ELSE phase
    /\ UNCHANGED <<plopped, min_plopped, max_plopped, loop, aborted>>

RemoveFreeRange(r) ==
    /\ phase = "rewrite" /\ loop = Idle
    /\ r \in free_ranges.by_address /\ r.end # MaxAddr
    /\ free_ranges' = erase(free_ranges, r)
    /\ UNCHANGED <<plopped, min_plopped, max_plopped, phase, loop, aborted>>

Ready == phase = "rewrite" /\ loop = Idle

SplitOne(a) == Ready /\ IsFree(a)   /\ SplitByte(a) /\ UNCHANGED <<phase, loop>>
MergeOne(a) == Ready /\ ~ IsFree(a) /\ MergeByte(a) /\ UNCHANGED <<phase, loop>>
PlopOne(a)  == Ready /\ PlopByte(a) /\ UNCHANGED <<phase, loop>>

(* A call on the half-open range [s, e): its caller owns the bytes.        *)
BeginLoop(op, s, e) ==
    /\ Ready
    /\ op = "split" => \A a \in s .. e - 1 : IsFree(a)
    /\ op = "merge" => \A a \in s .. e - 1 : ~ IsFree(a)
    /\ loop' = [op |-> op, first |-> s, counter |-> s, end |-> e]
    /\ UNCHANGED <<free_ranges, plopped, min_plopped, max_plopped, phase, aborted>>

LoopBody(op) ==
    /\ loop.op = op
    /\ loop.counter # loop.end
    /\ loop' = [loop EXCEPT !.counter = Succ(loop.counter)]
    /\ UNCHANGED phase

LoopStep ==
    \/ LoopBody("split") /\ SplitByte(loop.counter)
    \/ LoopBody("merge") /\ MergeByte(loop.counter)
    \/ LoopBody("plop")  /\ PlopByte(loop.counter)

LoopReturn ==
    /\ loop.op # "none" /\ loop.counter = loop.end
    /\ loop' = Idle
    /\ UNCHANGED <<free_ranges, plopped, min_plopped, max_plopped, phase, aborted>>

Next ==
    /\ ~ aborted
    /\ \/ \E s, e \in CodeAddr \cup {MaxAddr} :
             s <= e /\ (AddFreeRange(Rng(s, e)) \/ RemoveFreeRange(Rng(s, e)))
       \/ \E a \in CodeAddr : SplitOne(a) \/ MergeOne(a) \/ PlopOne(a)
       \/ \E op \in {"split", "merge", "plop"}, s, e \in CodeAddr :
             s <= e /\ BeginLoop(op, s, e)
       \/ LoopStep
       \/ LoopReturn

Spec == Init /\ [][Next]_vars

-----------------------------------------------------------------------------
TypeOK ==
    /\ free_ranges \in FreeRanges_t
    /\ plopped \in SUBSET Addr /\ min_plopped \in Addr /\ max_plopped \in Addr
    /\ phase \in {"find_ranges", "rewrite"}
    /\ loop \in Loops
    /\ aborted \in BOOLEAN

(* RangesDisjoint: Range_tCompare "only works for non-overlapping ranges"; *)
(* no sequence of splits, merges and plops ever builds an overlap, or an   *)
(* empty or reversed range.                                                *)
RangesDisjoint ==
    /\ \A r \in free_ranges.by_address : r.start <= r.end
    /\ \A r, s \in free_ranges.by_address : Equiv(r, s) => r = s

(* IndexesAgree: by_size files exactly the ranges of by_address, each in   *)
(* the bucket of its size, so that getFreeRange, which reads only by_size, *)
(* never returns a stale range and never misses a current one.             *)
IndexesAgree ==
    \A k \in Bucket : free_ranges.by_size[k] =
                          {r \in free_ranges.by_address : BucketOf(r) = k}

(* AssertsHold: callers that keep the contract never hit an assert of      *)
(* SplitFreeRange or MergeFreeRange, not even in the middle of a loop.     *)
AssertsHold == ~ aborted

(* InfiniteRangeFree: once the overflow area is added, exactly one free    *)
(* range ends at MaxAddr: what GetLargeRange and getInfiniteFreeRange      *)
(* assert.                                                                 *)
InfiniteRangeFree ==
    phase = "rewrite" =>
        \E r \in free_ranges.by_address :
            /\ r.end = MaxAddr
            /\ \A s \in free_ranges.by_address : s.end = MaxAddr => s = r

(* LoopProgress: a range call has handled exactly the bytes before its     *)
(* counter; those from the counter up to, not including, end are as the    *)
(* caller left them.                                                       *)
LoopProgress ==
    /\ loop.first <= loop.counter /\ loop.counter <= loop.end
    /\ loop.end < MaxAddr
    /\ loop.op = "split" => /\ \A a \in loop.first .. loop.counter - 1 : ~ IsFree(a)
                            /\ \A a \in loop.counter .. loop.end - 1 : IsFree(a)
    /\ loop.op = "merge" => /\ \A a \in loop.first .. loop.counter - 1 : IsFree(a)
                            /\ \A a \in loop.counter .. loop.end - 1 : ~ IsFree(a)
    /\ loop.op = "plop"  => \A a \in loop.first .. loop.counter - 1 :
                               a \in plopped /\ ~ IsFree(a)

(* PloppedBounds: min_plopped and max_plopped are the exact bounds of the  *)
(* bytes written so far.                                                   *)
PloppedBounds ==
    plopped # {} => /\ min_plopped \in plopped /\ max_plopped \in plopped
                    /\ \A a \in plopped : min_plopped <= a /\ a <= max_plopped

(* ImplementsFreeBytes: read as a set of bytes, the ranges behave as the   *)
(* abstract memory does, and each call is the abstract call of its name:   *)
(* a split, alone or in a loop, takes out the byte it is given and no      *)
(* other, a merge puts that one byte back whatever ranges it joins, a plop *)
(* takes out the byte it writes, and a range comes or goes as a whole only *)
(* with AddFreeRange and RemoveFreeRange.                                  *)
FB == INSTANCE FreeBytes WITH Last <- MaxAddr, free <- FreeBytesOf(free_ranges)

ByteCalls ==
    /\ \A a \in CodeAddr : /\ SplitOne(a) => FB!Reserve(a)
                           /\ MergeOne(a) => FB!Release(a)
                           /\ PlopOne(a) => FB!Plop(a)
    /\ LoopBody("split") => FB!Reserve(loop.counter)
    /\ LoopBody("merge") => FB!Release(loop.counter)
    /\ LoopBody("plop") => FB!Plop(loop.counter)

RangeCalls ==
    /\ \A s, e \in CodeAddr \cup {MaxAddr} :
           s <= e => /\ AddFreeRange(Rng(s, e)) => FB!Add(s, e)
                     /\ RemoveFreeRange(Rng(s, e)) => FB!Drop(s, e)
    /\ loop'.op # loop.op => UNCHANGED FB!vars

ImplementsFreeBytes == FB!Spec /\ [][ByteCalls /\ RangeCalls]_vars

=============================================================================
