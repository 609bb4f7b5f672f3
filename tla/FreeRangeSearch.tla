-------------------------- MODULE FreeRangeSearch --------------------------
(***************************************************************************)
(* getFreeRange(int size): the search that finds room for a dollop, asked  *)
(* of the free ranges whatever calls came before.  It looks only in the    *)
(* bucket of the rounded-up size, returns a random range of it, and calls  *)
(* itself with twice the size when the bucket is empty.  The request is an *)
(* int: the doubling is a 32-bit multiplication (IntMod), and a bucket     *)
(* past the end of the vector is an access out of bounds.                  *)
(***************************************************************************)
EXTENDS MemorySpace

(* if(size == 0) size++;                                                   *)
AtLeastOne(n) == IF n = 0 THEN 1 ELSE n

InVector(n) == integerlog2ceil(n) \in Bucket

(* A mistake: the bucket of the size rounded down is searched.             *)
Candidates_RoundDown(n) == free_ranges.by_size[integerlog2floor[n]]

Candidates(n) == bySize(free_ranges, n)

Doubled(n) == (n * 2) % IntMod

(* What the k-th nested call is asked for.                                 *)
Asked(size) ==
    LET asked[k \in 0 .. NumBuckets] ==
            AtLeastOne(IF k = 0 THEN size ELSE Doubled(asked[k - 1]))
    IN  asked

(* The nested call that returns: the first with a range in its bucket, or  *)
(* with no bucket at all; NumBuckets + 1 if there is none.                 *)
LastCall(size) ==
    LET ends == {k \in 0 .. NumBuckets : \/ ~ InVector(Asked(size)[k])
                                         \/ Candidates(Asked(size)[k]) # {}}
    IN  IF ends = {} THEN NumBuckets + 1
        ELSE CHOOSE k \in ends : \A j \in ends : k <= j

-----------------------------------------------------------------------------
(* Some range is filed at or above the bucket of the request: true as long *)
(* as the size of the overflow area, taken modulo 2^32, is not small.      *)
Reachable(size) == \E r \in free_ranges.by_address :
                      BucketOf(r) >= integerlog2ceil(AtLeastOne(size))

(* SearchFits: after any calls, and for any size that some range is filed  *)
(* for, the recursion ends inside the vector; assert(r.getSize() >= size)  *)
(* holds for every range each nested call looks at; and whichever range is *)
(* returned is free and holds the bytes the first caller asked for,        *)
(* although a call only knows its own, doubled size, and although the      *)
(* sizes that choose the buckets are truncated.                            *)
SearchFits ==
    \A size \in 0 .. IntMod - 1 : Reachable(size) =>
        LET k == LastCall(size)
        IN  /\ k <= NumBuckets /\ InVector(Asked(size)[k])
            /\ \A r \in Candidates(Asked(size)[k]) :
                  /\ r \in free_ranges.by_address
                  /\ getSize(r) >= Asked(size)[k] /\ getSize(r) >= size

=============================================================================
