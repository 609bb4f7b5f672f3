-------------------------------- MODULE Scoops --------------------------------
(***************************************************************************)
(* Where the bytes Zipr may write come from and where they end up:         *)
(* ZiprImpl_t::FindFreeRanges makes scoops of the executable sections, of  *)
(* the gaps between scoops and of an overflow area, and declares them free;*)
(* it gives addresses to the scoops that have none and takes the bytes of  *)
(* the program's own scoops back.  After everything is written,            *)
(* UpdateScoops cuts the scoops to what was used (zipr/src/zipr.cpp).      *)
(*                                                                         *)
(* Between the two stand pinning and placement, which take free bytes (see *)
(* PinnerX86 and Placement).                                               *)
(***************************************************************************)
EXTENDS Integers, FiniteSets, FiniteSetsExt

CONSTANTS Layouts,          \* what the program's sections and scoops are
          PAGE_SIZE, ALIGNMENT,
          MinimumDistance,  \* m_paddable_minimum_distance
          LastAddress,      \* (RangeAddress_t)-1
          UIntMod           \* 2^32 in the code

ASSUME SizesAssumption ==
    /\ {PAGE_SIZE, ALIGNMENT, UIntMod} \subseteq Nat \ {0}
    /\ {MinimumDistance, LastAddress} \subseteq Nat
    /\ MinimumDistance >= PAGE_SIZE /\ PAGE_SIZE >= 2

-----------------------------------------------------------------------------
PageOf(a) == a \div PAGE_SIZE

page_round_up(a) == PageOf(a + PAGE_SIZE - 1) * PAGE_SIZE

(* The mask is applied after a page less one is taken away: unless a is    *)
(* the last byte of a page, the result is the start of the page before.    *)
page_round_down(a) == PageOf(a - (PAGE_SIZE - 1)) * PAGE_SIZE

align_up_to(a, n) == ((a + n - 1) \div n) * n

BytesIn(r)   == r.start .. r.end
BytesOf(S)   == UNION {BytesIn(r) : r \in S}
StartOf(S)   == Min({r.start : r \in S})
Following(S, r) == {x \in S : x.start > r.start}
Exec(S)      == {x \in S : x.kind = "x"}
Writeable(S) == {x \in S : x.kind = "w"}

Zipr(a, b) == [start |-> a, end |-> b, kind |-> "x"]

(* Neighbouring executable sections make one scoop, up to the section that *)
(* gets in the way or, after the last section, to the end of the page.     *)
SectionScoops(S) ==
    LET Starts == {x \in Exec(S) :
                      LET before == {y \in S : y.start < x.start}
                      IN  before = {} \/ Max({y.start : y \in before})
                                          \notin {y.start : y \in Exec(S)}}
        InTheWay(x) == Following(S, x) \ Exec(S)
        LastEnd == Max({x.end : x \in S})
    IN  {Zipr(x.start, IF InTheWay(x) # {} THEN StartOf(InTheWay(x)) - 1
                       ELSE page_round_up(LastEnd) - 1) : x \in Starts}

(* The layouts a linker makes.  Sections do not overlap, and the last one  *)
(* holds data.  Of the data with an address, what is writable has pages of *)
(* its own, and what is in the text ends where the scoop made of it ends.  *)
(* Behind all that there is room for the scoops that have no address.      *)
Apart(r, s)      == r.end < s.start \/ s.end < r.start
PagesApart(r, s) == PageOf(r.end) < PageOf(s.start) \/ PageOf(s.end) < PageOf(r.start)

Ranges(kinds) == [start : Nat \ {0}, end : Nat, kind : kinds]
Proper(S)     == \A r, s \in S : r.start <= r.end /\ (r # s => Apart(r, s))

RoomFor(U, end) ==
    \E size \in 0 .. LastAddress :
        /\ \A x \in U : x.size <= size
        /\ end + Cardinality(U) * (PAGE_SIZE - 1 + ALIGNMENT - 1 + size)
               + PAGE_SIZE - 1 <= LastAddress

EndsWithData(l, end) ==
    /\ \E x \in l.sections \ Exec(l.sections) : x.end = end
    /\ \A r \in l.sections \cup l.data : r.end <= end
    /\ RoomFor(l.unplaced, end)

DataIsApart(D, Z) ==
    /\ \A d \in D, z \in Z : Apart(d, z) \/ (z.start < d.start /\ d.end = z.end)
    /\ \A w \in Writeable(D), r \in (D \ Writeable(D)) \cup Z : PagesApart(w, r)

LinkerMade(l) ==
    /\ l.sections \subseteq Ranges({"x", "r", "w"}) /\ Proper(l.sections)
    /\ l.data \subseteq Ranges({"r", "w"}) /\ Proper(l.data)
    /\ IsFiniteSet(l.unplaced)
    /\ \A x \in l.unplaced : x.size \in Nat \ {0} /\ x.perms \in Nat /\ x.kind \in {"r", "w"}
    /\ Exec(l.sections) # {}
    /\ \E x \in l.sections : EndsWithData(l, x.end)
    /\ DataIsApart(l.data, SectionScoops(l.sections))

ASSUME LayoutsAssumption == \A l \in Layouts : LinkerMade(l)

-----------------------------------------------------------------------------
VARIABLES layout,
          zipr_scoops,      \* m_zipr_scoops
          data,             \* the program's scoops that have an address
          unplaced,         \* those that have none yet
          max_addr, free,
          code,             \* the bytes that hold code when all is written
          todo, pc

vars == <<layout, zipr_scoops, data, unplaced, max_addr, free, code, todo, pc>>

Init ==
    /\ layout \in Layouts
    /\ zipr_scoops = {} /\ free = {} /\ code = {} /\ todo = {}
    /\ data = layout.data /\ unplaced = layout.unplaced
    /\ max_addr = 0
    /\ pc = "sections"

CreateExecutableScoops ==
    /\ pc = "sections"
    /\ zipr_scoops' = SectionScoops(layout.sections)
    /\ free' = BytesOf(zipr_scoops')
    /\ max_addr' = Max({x.end : x \in layout.sections})
    /\ todo' = data \cup zipr_scoops'
    /\ pc' = "gaps"
    /\ UNCHANGED <<layout, data, unplaced, code>>

(* Gaps are looked at between neighbours in the order of their starts, the *)
(* gap's size is the start less the end, as an unsigned int.               *)
Neighbours(r, n) == n \in Following(todo, r) /\ n.start = StartOf(Following(todo, r))
(* A mistake: space for code may start behind a writable scoop at once.    *)
GapStart_SamePage(r) == r.end + 1

GapStart(r) == IF r.kind = "w" THEN page_round_up(r.end + 1) ELSE r.end + 1
GapEnd(n)   == IF n.kind = "w" THEN page_round_down(n.start - 1) ELSE n.start - 1
(* A mistake: the gap is taken to be large, overlapping or not.            *)
GapSize_Always(r, n) == MinimumDistance + 1

GapSize(r, n) == (GapStart(r) - GapEnd(n)) % UIntMod

FillsGap(r, n) ==
    /\ r.end <= n.start
    /\ GapSize(r, n) > MinimumDistance
    /\ r.kind # "w" \/ n.kind # "w"

FillGap ==
    /\ pc = "gaps"
    /\ \E r \in todo : r.start = StartOf(todo) /\
          \E n \in todo :
             /\ Neighbours(r, n)
             /\ LET new == IF FillsGap(r, n) THEN {Zipr(GapStart(r), GapEnd(n))} ELSE {}
                IN  zipr_scoops' = zipr_scoops \cup new /\ free' = free \cup BytesOf(new)
             /\ todo' = todo \ {r}
    /\ UNCHANGED <<layout, data, unplaced, max_addr, code, pc>>

(* The assert that no scoop of Zipr's goes beyond the sections.            *)
GapsDone ==
    /\ pc = "gaps" /\ Cardinality(todo) = 1
    /\ todo' = {}
    /\ pc' = IF max_addr >= Max({x.end : x \in zipr_scoops}) THEN "unplaced" ELSE "aborted"
    /\ UNCHANGED <<layout, zipr_scoops, data, unplaced, max_addr, free, code>>

(* Scoops of the same permissions are placed next to each other, in the    *)
(* order of a set of pointers; a page boundary lies between permissions.   *)
(* todo holds what is left of the permissions that are being placed.       *)
BeginPermissions ==
    /\ pc = "unplaced" /\ todo = {} /\ unplaced # {}
    /\ todo' = {x \in unplaced : x.perms = Min({y.perms : y \in unplaced})}
    /\ max_addr' = page_round_up(max_addr)
    /\ UNCHANGED <<layout, zipr_scoops, data, unplaced, free, code, pc>>

PlaceScoop(x) ==
    /\ pc = "unplaced" /\ x \in todo
    /\ LET a == align_up_to(max_addr, ALIGNMENT)
       IN  /\ data' = data \cup {[start |-> a, end |-> a + x.size - 1, kind |-> x.kind]}
           /\ max_addr' = a + x.size
    /\ todo' = todo \ {x} /\ unplaced' = unplaced \ {x}
    /\ UNCHANGED <<layout, zipr_scoops, free, code, pc>>

(* The overflow area, and then the program's own bytes are taken back, in  *)
(* case they overlap with free ranges.                                     *)
Overflow == Zipr(page_round_up(max_addr), LastAddress)

AddOverflow ==
    /\ pc = "unplaced" /\ unplaced = {} /\ todo = {}
    /\ zipr_scoops' = zipr_scoops \cup {Overflow}
    /\ free' = (free \cup BytesIn(Overflow)) \ BytesOf(data)
    /\ pc' = "write"
    /\ UNCHANGED <<layout, data, unplaced, max_addr, code, todo>>

(* Pinning and placement: some free bytes now hold code, never the last    *)
(* one (the overflow area is taken from its start).  Two bytes stand for   *)
(* the first and the last one of a scoop, or for two scoops.               *)
WriteCode(S) ==
    /\ pc = "write"
    /\ code' = S /\ free' = free \ S
    /\ todo' = zipr_scoops
    /\ pc' = "update"
    /\ UNCHANGED <<layout, zipr_scoops, data, unplaced, max_addr>>

LastFreeStart == Min({a \in free : a .. LastAddress \subseteq free})
(* A mistake: the scoop is cut to one byte less than it holds.             *)
UpdateScoop_Short(z) ==
    /\ pc = "update" /\ z \in todo
    /\ LET end  == IF z.end = LastAddress THEN LastFreeStart ELSE z.end
           busy == (z.start .. end - 1) \ free
       IN  zipr_scoops' = (zipr_scoops \ {z})
                          \cup (IF busy = {} THEN {} ELSE {Zipr(Min(busy), Max(busy))})
    /\ todo' = todo \ {z}
    /\ pc' = IF todo = {z} THEN "done" ELSE pc
    /\ UNCHANGED <<layout, data, unplaced, max_addr, free, code>>

UpdateScoop(z) ==
    /\ pc = "update" /\ z \in todo
    /\ LET end  == IF z.end = LastAddress THEN LastFreeStart ELSE z.end
           busy == (z.start .. end) \ free
       IN  zipr_scoops' = (zipr_scoops \ {z})
                          \cup (IF busy = {} THEN {} ELSE {Zipr(Min(busy), Max(busy))})
    /\ todo' = todo \ {z}
    /\ pc' = IF todo = {z} THEN "done" ELSE pc
    /\ UNCHANGED <<layout, data, unplaced, max_addr, free, code>>

Next == \/ CreateExecutableScoops \/ FillGap \/ GapsDone
        \/ BeginPermissions \/ \E x \in todo : PlaceScoop(x)
        \/ AddOverflow
        \/ \E a, b \in free \ {LastAddress} : WriteCode({a, b})
        \/ \E z \in zipr_scoops : UpdateScoop(z)

Spec == Init /\ [][Next]_vars

-----------------------------------------------------------------------------
TypeOK ==
    /\ zipr_scoops \subseteq [start : Nat, end : Nat, kind : {"x"}]
    /\ data \subseteq [start : Nat, end : Nat, kind : {"r", "w"}]
    /\ unplaced \subseteq layout.unplaced
    /\ max_addr \in Nat /\ free \subseteq Nat /\ code \subseteq Nat
    /\ pc \in {"sections", "gaps", "unplaced", "write", "update", "done", "aborted"}
    /\ todo \subseteq CASE pc = "gaps" -> layout.data \cup SectionScoops(layout.sections)
                       [] pc = "unplaced" -> unplaced
                       [] pc = "update" -> zipr_scoops
                       [] OTHER -> {}

(* FreeSpaceIsApart: the ranges handed to the memory space are no reversed *)
(* ones and overlap no other, which its sets are not made for, no assert   *)
(* fails on the way, scoops stay apart while they are cut, and once        *)
(* FindFreeRanges is through no byte of the program's own data is free.    *)
FreeSpaceIsApart ==
    /\ TypeOK
    /\ pc # "aborted"
    /\ Proper(zipr_scoops)
    /\ pc \in {"write", "update", "done"} => free \cap BytesOf(data) = {}

(* What goes wrong when the last section ends with the first byte of a     *)
(* page: max_addr is an inclusive end, rounding it up leaves it where it   *)
(* is, and the overflow area begins on that byte.                          *)
TopOf(l) == Max({x.end : x \in l.sections})
OnLastByte(z, w) ==
    z.start = w.end /\ w.end = TopOf(layout) /\ w.end % PAGE_SIZE = 0

(* PagesKeepPermissions: no page holds both space for code and a byte of a *)
(* writable scoop, of those with an address from the start and of those    *)
(* that are given one, but for the overflow area of OnLastByte.            *)
PagesKeepPermissions ==
    \A z \in zipr_scoops, w \in Writeable(data) : PagesApart(z, w) \/ OnLastByte(z, w)

(* CodeIsInScoops: when UpdateScoops is through, every byte of code is in  *)
(* a scoop of the file that is written, and those scoops begin and end     *)
(* with a byte that was written: none is left over, and none too long.     *)
CodeIsInScoops ==
    pc = "done" =>
        /\ code \subseteq BytesOf(zipr_scoops)
        /\ \A z \in zipr_scoops : {z.start, z.end} \subseteq code \cup BytesOf(data)
===============================================================================
