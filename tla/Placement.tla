------------------------------ MODULE Placement ------------------------------
(***************************************************************************)
(* ZiprImpl_t::PlaceDollops (zipr/src/zipr.cpp): dollops come off a queue  *)
(* and get an address, from a plugin or from the sizer.  A dollop that     *)
(* does not fit is split; a fallthrough dollop that still fits is placed   *)
(* right behind (coalesced); otherwise a jump leads to it, unless control  *)
(* runs into its pin or its preplaced code anyway.  The bytes of a chain   *)
(* are reserved at its end.                                                *)
(*                                                                         *)
(* Dollops are named by their first instruction, as in Dollops, which is   *)
(* what this phase starts from: the dollop of front h runs along the       *)
(* fallthroughs up to the next front, and splitting one makes a front.     *)
(***************************************************************************)
EXTENDS Integers, FiniteSets

CONSTANTS Insn, None,
          Programs,         \* what CreateDollops and the pinner hand over
          TRAMPOLINE_SIZE, SHORT_PIN_SIZE, LONG_PIN_SIZE,
          ALIGNMENT, UNPIN_ALIGNMENT,
          RoomyPlans,       \* whether plugins only answer with room to spare
          UIntMod           \* 2^32 in the code: what an unsigned int can hold

ASSUME SizesAssumption ==
    /\ {TRAMPOLINE_SIZE, SHORT_PIN_SIZE, LONG_PIN_SIZE, UIntMod} \subseteq Nat
    /\ {ALIGNMENT, UNPIN_ALIGNMENT} \subseteq Nat \ {0}
ASSUME NoneAssumption == None \notin Nat \cup Insn

-----------------------------------------------------------------------------
(* A program as it reaches this phase.  Pins are the bytes of the jumps at *)
(* the addresses indirect branches may go to.                              *)
BytesFrom(a, n) == a .. a + n - 1

PinsOf(p)     == {i \in Insn : p.ibta[i] \notin {None, 0}}
PinSize(p, i) == IF p.longPin[i] THEN LONG_PIN_SIZE ELSE SHORT_PIN_SIZE
PinAt(p, i)   == BytesFrom(p.ibta[i], PinSize(p, i))

(* What a plugin hands over with its answer: plugins are not part of the   *)
(* repository.  One that answers has planned ahead, keeps the bytes of its *)
(* answers to itself, hands them over when h is taken off the queue, and   *)
(* answers the same when asked about h beforehand.                         *)
Handed(p, h) ==
    IF p.plan[h] = None THEN {}
    ELSE LET a == p.plan[h]
         IN  (a.start .. a.end) \ (IF h \in PinsOf(p) /\ p.ibta[h] = a.start
                                   THEN PinAt(p, h) ELSE {})

OrNone(S) == S \cup {None}
Answers   == [start : Nat, end : Nat, coalesce : BOOLEAN, fallthrough : BOOLEAN]

Typed(p) ==
    /\ p.size \in [Insn -> Nat] /\ p.ibta \in [Insn -> OrNone(Nat)]
    /\ p.ft \in [Insn -> OrNone(Insn)] /\ p.target \in [Insn -> OrNone(p.fronts)]
    /\ p.plan \in [Insn -> OrNone(Answers)]
    /\ p.fronts \subseteq Insn /\ p.referenced \subseteq p.fronts
    /\ \A i \in Insn : p.ibta[i] # None => i \in p.fronts
    /\ p.free \subseteq Nat

(* What Dollops promises: an instruction that starts no dollop is in one,  *)
(* behind one other; and what it asks for: code does not fall through in a *)
(* circle.                                                                 *)
DollopsAreChains(p) ==
    /\ \A i, j \in Insn : p.ft[i] = p.ft[j] /\ p.ft[i] \in Insn \ p.fronts => i = j
    /\ \A S \in (SUBSET Insn) \ {{}} : \E i \in S : p.ft[i] \notin S

(* What the pinner and the plugin leave: pins, answers and free space have *)
(* no byte in common.                                                      *)
BytesAreApart(p) ==
    /\ \A i \in PinsOf(p) : PinAt(p, i) \cap p.free = {}
    /\ \A i, j \in PinsOf(p) : i # j => PinAt(p, i) \cap PinAt(p, j) = {}
    /\ \A h \in Insn : /\ Handed(p, h) \cap p.free = {}
                       /\ \A i \in PinsOf(p) : Handed(p, h) \cap PinAt(p, i) = {}
                       /\ \A g \in Insn \ {h} : Handed(p, h) \cap Handed(p, g) = {}

ASSUME ProgramsAssumption ==
    \A p \in Programs : Typed(p) /\ DollopsAreChains(p) /\ BytesAreApart(p)

VARIABLES prog,             \* sizes, fallthroughs, targets, pins, plugin's plan
          fronts,           \* the first instruction of each dollop
          place,            \* DollopEntry_t::getPlace
          jump,             \* the entry splitDollop appends to a dollop
          coalesced,        \* dollops with m_coalesced
          patch_list, placement_queue,
          free,             \* the memory space, as FreeBytes promises it
          cur, pc           \* locals of the loop, and where it stands

vars == <<prog, fronts, place, jump, coalesced, patch_list, placement_queue,
          free, cur, pc>>

-----------------------------------------------------------------------------
(* Dollops as they are now.                                                *)

Placed(h) == place[h] # None

NextEntry(i) == IF prog.ft[i] \in fronts THEN None ELSE prog.ft[i]

back(h) == LET last[i \in Insn] == IF NextEntry(i) = None THEN i
                                   ELSE last[NextEntry(i)]
           IN  last[h]

FallthroughDollop(h) == prog.ft[back(h)]

EntrySize(i, andJump) ==
    prog.size[i] + IF andJump THEN TRAMPOLINE_SIZE ELSE 0

(* Dollop_t::CalculateSize: the jump out of the dollop, once appended, is  *)
(* an entry, and until then it is counted in advance.                      *)
CalculateSize(h) ==
    LET entries[i \in Insn] == prog.size[i] + IF NextEntry(i) = None THEN 0
                                              ELSE entries[NextEntry(i)]
    IN  entries[h] + IF FallthroughDollop(h) = None \/ h \in coalesced
                     THEN 0 ELSE TRAMPOLINE_SIZE

(* Code that ends one function is not joined with a branch target of       *)
(* another one.                                                            *)
canCoalesce(h) ==
    LET f == FallthroughDollop(h)
    IN  f = None \/ prog.ibta[f] = None \/ prog.function[f] = prog.function[back(h)]

(* A mistake: the chain goes on past a dollop it cannot be joined with.    *)
SizeInclFallthrough_PastTargets(h) ==
    LET chain[d \in Insn] ==
            CalculateSize(d) +
            IF Placed(d) THEN TRAMPOLINE_SIZE
            ELSE IF FallthroughDollop(d) = None THEN 0
            ELSE chain[FallthroughDollop(d)] - TRAMPOLINE_SIZE
    IN  chain[h]

(* DetermineDollopSizeInclFallthrough: the chain of fallthroughs without   *)
(* the jumps between them, up to the first dollop that has to be jumped to.*)
SizeInclFallthrough(h) ==
    LET chain[d \in Insn] ==
            CalculateSize(d) +
            IF ~ canCoalesce(d) \/ Placed(d) THEN TRAMPOLINE_SIZE
            ELSE IF FallthroughDollop(d) = None THEN 0
            ELSE chain[FallthroughDollop(d)] - TRAMPOLINE_SIZE
    IN  chain[h]

Lesser(m, n) == IF m < n THEN m ELSE n
Needed(h)    == Lesser(EntrySize(h, TRUE), SizeInclFallthrough(h))
minimum_valid_req_size(h) == Needed(h) + 1

Pinned(i) == i \in PinsOf(prog)

-----------------------------------------------------------------------------
(* What a plugin says where dollop h goes.                                 *)
Addressed(h) == prog.plan[h] # None

(* Where the fallthrough of h is or is going to be placed.                 *)
FallthroughPlace(h) ==
    LET f == FallthroughDollop(h)
    IN  IF f = None \/ ~ prog.plan[h].fallthrough THEN None
        ELSE IF Placed(f) THEN place[f]
        ELSE IF Addressed(f) THEN prog.plan[f].start ELSE None

AbutsPin(h) ==
    LET f == FallthroughDollop(h)
    IN  f # None /\ Pinned(f) /\
        prog.ibta[f] = prog.plan[h].start + CalculateSize(h) - TRAMPOLINE_SIZE

AbutsFallthrough(h) ==
    /\ FallthroughPlace(h) # None
    /\ FallthroughPlace(h) = prog.plan[h].start + CalculateSize(h) - TRAMPOLINE_SIZE

Accepted(h) ==
    LET room == prog.plan[h].end - prog.plan[h].start
    IN  \/ room >= minimum_valid_req_size(h)
        \/ AbutsPin(h) \/ AbutsFallthrough(h) \/ CalculateSize(h) <= room

(* What the code leaves to a plugin: an answer for a dollop that ends      *)
(* where its fallthrough is reaches up to there; another one holds the     *)
(* dollop, or the first entry and a jump, if coalescing is not allowed.    *)
Roomy(h) ==
    LET room == prog.plan[h].end - prog.plan[h].start
    IN  IF AbutsPin(h) \/ AbutsFallthrough(h)
        THEN room + 1 >= CalculateSize(h) - TRAMPOLINE_SIZE
        ELSE \/ prog.plan[h].coalesce
             \/ CalculateSize(h) <= room \/ EntrySize(h, TRUE) <= room

-----------------------------------------------------------------------------
Idle == [dollop |-> None]

Init ==
    /\ prog \in Programs
    /\ fronts = prog.fronts
    /\ place = [i \in Insn |-> None] /\ jump = [i \in Insn |-> None]
    /\ coalesced = {}
    /\ patch_list = {i \in Insn : Pinned(i)}
    /\ placement_queue = patch_list \cup prog.referenced
    /\ free = prog.free
    /\ cur = Idle /\ pc = "pop"

(* A mistake: what is already placed stays queued.                         *)
SkipPlaced_Keeps(h) ==
    /\ pc = "pop" /\ h \in placement_queue /\ Placed(h)
    /\ UNCHANGED vars

SkipPlaced(h) ==
    /\ pc = "pop" /\ h \in placement_queue /\ Placed(h)
    /\ placement_queue' = placement_queue \ {h}
    /\ UNCHANGED <<prog, fronts, place, jump, coalesced, patch_list, free, cur, pc>>

(* "Placed atop its own pin": the bytes of the pin are given back, by a    *)
(* loop that counts in an unsigned int and never ends when the address is  *)
(* beyond one; the patch is dropped, and must have been there.             *)
AtopOwnPin(h, a) == Pinned(h) /\ prog.ibta[h] = a

Started(h, c, handed) ==
    /\ placement_queue' = placement_queue \ {h}
    /\ cur' = c
    /\ IF ~ AtopOwnPin(h, c.addr)
       THEN pc' = "dollop" /\ free' = free \cup handed /\ UNCHANGED patch_list
       ELSE /\ free' = free \cup handed \cup BytesFrom(c.addr, PinSize(prog, h))
            /\ patch_list' = patch_list \ {h}
            /\ pc' = IF c.addr + PinSize(prog, h) >= UIntMod THEN "spinning"
                     ELSE IF h \notin patch_list THEN "aborted" ELSE "dollop"
    /\ UNCHANGED <<prog, fronts, place, jump, coalesced>>

Local(h, s, e) ==
    [dollop |-> h, entry |-> h, addr |-> s, start |-> s, end |-> e,
     allowed_coalescing |-> TRUE, am_coalescing |-> FALSE,
     abuts |-> FALSE, ftPlace |-> None, fits |-> FALSE, allFit |-> FALSE]

PlaceByPlugin(h) ==
    /\ pc = "pop" /\ h \in placement_queue /\ ~ Placed(h)
    /\ Addressed(h) /\ Accepted(h) /\ (RoomyPlans => Roomy(h))
    /\ LET p == prog.plan[h]
       IN  Started(h, [Local(h, p.start, p.end) EXCEPT
                          !.allowed_coalescing = p.coalesce,
                          !.abuts = AbutsPin(h) \/ AbutsFallthrough(h),
                          !.ftPlace = FallthroughPlace(h)], Handed(prog, h))

(* sizer->DoPlacement: getFreeRange returns some free range that is large  *)
(* enough, all of it, and the dollop starts at its first aligned byte.     *)
FreeRangesOf(S) ==
    {r \in [start : {a \in S : a - 1 \notin S}, end : {a \in S : a + 1 \notin S}] :
        r.start <= r.end /\ (r.start .. r.end) \subseteq S}

AlignUp(a, n) == ((a + n - 1) \div n) * n
AlignmentOf(h) == IF prog.ibta[h] = 0 THEN UNPIN_ALIGNMENT ELSE ALIGNMENT

PlaceBySizer(h) ==
    /\ pc = "pop" /\ h \in placement_queue /\ ~ Placed(h)
    /\ Addressed(h) => ~ Accepted(h)
    /\ \E r \in FreeRangesOf(free \cup Handed(prog, h)) :
          /\ r.end - r.start + 1 >= minimum_valid_req_size(h) + AlignmentOf(h) - 1
          /\ Started(h, [Local(h, AlignUp(r.start, AlignmentOf(h)), r.end) EXCEPT
                            !.ftPlace = IF Addressed(h) THEN FallthroughPlace(h)
                                        ELSE None], Handed(prog, h))

-----------------------------------------------------------------------------
(* One round of the do-while loop.  BeginDollop is the part before the     *)
(* entries are placed one by one.                                          *)
Room == cur.end - cur.addr

BeginDollop ==
    /\ pc = "dollop"
    /\ cur' = [cur EXCEPT !.fits   = CalculateSize(cur.dollop) <= Room,
                          !.allFit = SizeInclFallthrough(cur.dollop) <= Room]
    /\ pc' = "entries"
    /\ UNCHANGED <<prog, fronts, place, jump, coalesced, patch_list,
                   placement_queue, free>>

could_fit_here(i) ==
    \/ cur.end >= cur.addr + EntrySize(i, TRUE)
    \/ cur.fits
    \/ /\ NextEntry(i) = None
       /\ cur.end >= cur.addr + EntrySize(i, prog.ft[i] # None)
    \/ cur.abuts

(* The code calls it tramp_fits: the entry fits, a jump after it does not. *)
NoRoomForJump(i) == Room - prog.size[i] \in 0 .. TRAMPOLINE_SIZE - 1

EntryGoesHere(i) ==
    /\ could_fit_here(i) \/ cur.allFit
    /\ cur.allowed_coalescing \/ could_fit_here(i) \/ ~ cur.allFit \/ ~ NoRoomForJump(i)

(* A mistake: the target of a branch is not queued.                        *)
PlaceEntry_NoTarget ==
    /\ pc = "entries" /\ cur.entry # None
    /\ EntryGoesHere(cur.entry)
    /\ place' = [place EXCEPT ![cur.entry] = cur.addr]
    /\ cur' = [cur EXCEPT !.entry = NextEntry(cur.entry),
                          !.addr  = cur.addr + prog.size[cur.entry]]
    /\ UNCHANGED <<prog, fronts, jump, coalesced, patch_list, placement_queue, free, pc>>

PlaceEntry ==
    /\ pc = "entries" /\ cur.entry # None
    /\ EntryGoesHere(cur.entry)
    /\ place' = [place EXCEPT ![cur.entry] = cur.addr]
    /\ placement_queue' = placement_queue \cup ({prog.target[cur.entry]} \ {None})
    /\ cur' = [cur EXCEPT !.entry = NextEntry(cur.entry),
                          !.addr  = cur.addr + prog.size[cur.entry]]
    /\ UNCHANGED <<prog, fronts, jump, coalesced, patch_list, free, pc>>

(* The rest becomes a dollop; a dollop may not lose all its entries.       *)
SplitToFit ==
    /\ pc = "entries" /\ cur.entry # None
    /\ ~ EntryGoesHere(cur.entry)
    /\ fronts' = fronts \cup {cur.entry}
    /\ cur' = [cur EXCEPT !.entry = None]
    /\ pc' = IF cur.entry = cur.dollop THEN "emptied" ELSE pc
    /\ UNCHANGED <<prog, place, jump, coalesced, patch_list, placement_queue, free>>

-----------------------------------------------------------------------------
(* What follows the last entry that was placed.                            *)
AtEnd == pc = "entries" /\ cur.entry = None
Next_ == FallthroughDollop(cur.dollop)

(* A mistake: a pin anywhere will do.                                      *)
RunsIntoPin_Anywhere == Next_ # None /\ Pinned(Next_)

(* Control runs into the pin of the fallthrough dollop.                    *)
RunsIntoPin  == Next_ # None /\ Pinned(Next_) /\ prog.ibta[Next_] = cur.addr
(* Control runs into the fallthrough dollop, at the place it has or gets.  *)
RunsIntoCode == ~ cur.am_coalescing /\ cur.ftPlace # None /\ cur.ftPlace = cur.addr

NeedsNoJump ==
    /\ AtEnd
    /\ \/ /\ Next_ = None \/ RunsIntoPin
          /\ UNCHANGED placement_queue
       \/ /\ Next_ # None /\ ~ RunsIntoPin /\ RunsIntoCode
          /\ placement_queue' = placement_queue \cup (IF Placed(Next_) THEN {} ELSE {Next_})
    /\ pc' = "reserve"
    /\ UNCHANGED <<prog, fronts, place, jump, coalesced, patch_list, free, cur>>

MayCoalesce ==
    /\ cur.allowed_coalescing /\ canCoalesce(cur.dollop)
    /\ ~ Placed(Next_)
    /\ Room < 0 \/ Room >= Needed(Next_)

(* archhelper->splitDollop appends a jump to the fallthrough dollop.       *)
AppendJump ==
    /\ AtEnd /\ Next_ # None /\ ~ RunsIntoPin /\ ~ RunsIntoCode
    /\ ~ MayCoalesce
    /\ jump' = [jump EXCEPT ![cur.dollop] = cur.addr]
    /\ placement_queue' = placement_queue \cup {Next_}
    /\ cur' = [cur EXCEPT !.addr = cur.addr + TRAMPOLINE_SIZE]
    /\ pc' = "reserve"
    /\ UNCHANGED <<prog, fronts, place, coalesced, patch_list, free>>

Coalesce ==
    /\ AtEnd /\ Next_ # None /\ ~ RunsIntoPin /\ ~ RunsIntoCode
    /\ MayCoalesce
    /\ coalesced' = coalesced \cup {cur.dollop}
    /\ cur' = [cur EXCEPT !.dollop = Next_, !.entry = Next_, !.am_coalescing = TRUE]
    /\ pc' = "dollop"
    /\ UNCHANGED <<prog, fronts, place, jump, patch_list, placement_queue, free>>

(* A mistake: the last byte of the chain is not reserved.                  *)
ReserveChain_Short ==
    /\ pc = "reserve"
    /\ LET used == cur.start .. cur.addr - 2
       IN  /\ free' = free \ used
           /\ pc' = IF cur.addr - 1 <= cur.end /\ used \subseteq free
                    THEN "pop" ELSE "aborted"
    /\ cur' = Idle
    /\ UNCHANGED <<prog, fronts, place, jump, coalesced, patch_list, placement_queue>>

(* splitFreeRange asserts that each byte is free.                          *)
ReserveChain ==
    /\ pc = "reserve"
    /\ LET used == cur.start .. cur.addr - 1
       IN  /\ free' = free \ used
           /\ pc' = IF cur.addr - 1 <= cur.end /\ used \subseteq free
                    THEN "pop" ELSE "aborted"
    /\ cur' = Idle
    /\ UNCHANGED <<prog, fronts, place, jump, coalesced, patch_list, placement_queue>>

Next == \/ \E h \in Insn : SkipPlaced(h) \/ PlaceByPlugin(h) \/ PlaceBySizer(h)
        \/ BeginDollop \/ PlaceEntry \/ SplitToFit
        \/ NeedsNoJump \/ AppendJump \/ Coalesce \/ ReserveChain

Spec == Init /\ [][Next]_vars /\ WF_vars(Next)

-----------------------------------------------------------------------------
Locals == [dollop : Insn, entry : Insn \cup {None}, addr : Nat, start : Nat, end : Nat,
           allowed_coalescing : BOOLEAN, am_coalescing : BOOLEAN, abuts : BOOLEAN,
           ftPlace : Nat \cup {None}, fits : BOOLEAN, allFit : BOOLEAN]

TypeOK ==
    /\ fronts \subseteq Insn /\ coalesced \subseteq fronts
    /\ place \in [Insn -> Nat \cup {None}] /\ jump \in [Insn -> Nat \cup {None}]
    /\ patch_list \subseteq Insn /\ placement_queue \subseteq fronts
    /\ free \subseteq Nat
    /\ cur \in Locals \cup {Idle}
    /\ pc \in {"pop", "dollop", "entries", "reserve", "aborted", "emptied", "spinning"}

(* What the phase has put somewhere: entries, jumps, and the pins.         *)
Things == {<<"entry", i>> : i \in {j \in Insn : Placed(j)}}
          \cup {<<"jump", h>> : h \in {j \in Insn : jump[j] # None}}
          \cup {<<"pin", i>> : i \in patch_list}
BytesOf(x) ==
    CASE x[1] = "entry" -> BytesFrom(place[x[2]], prog.size[x[2]])
      [] x[1] = "jump"  -> BytesFrom(jump[x[2]], TRAMPOLINE_SIZE)
      [] OTHER          -> PinAt(prog, x[2])

(* What the chain in the making has used of the range it was given; it is  *)
(* reserved when the chain ends.                                           *)
Running == pc \in {"pop", "dollop", "entries", "reserve"}
Claimed == IF pc \in {"dollop", "entries", "reserve"} THEN cur.start .. cur.addr - 1 ELSE {}

(* PlacedBytesAreKept: entries, appended jumps and pins share no byte, and *)
(* none of their bytes is free for a later dollop, as long as each chain   *)
(* stays within free bytes: what splitFreeRange asserts at its end.        *)
PlacedBytesAreKept ==
    /\ TypeOK
    /\ Running /\ Claimed \subseteq free =>
          /\ \A x, y \in Things : x # y => BytesOf(x) \cap BytesOf(y) = {}
          /\ \A x \in Things : BytesOf(x) \cap (free \ Claimed) = {}

(* AssertsHold: no assert of PlaceDollops or of splitFreeRange fails: a    *)
(* chain never leaves the free bytes of the range it was given; and no     *)
(* dollop is split before its first entry.                                 *)
AssertsHold == Running /\ Claimed \subseteq free

Done == pc = "pop" /\ placement_queue = {}

(* ControlFollows: when the queue is empty, the byte after each placed     *)
(* entry starts its fallthrough: the instruction itself, a jump appended   *)
(* to reach its dollop, or its pin.  No elided jump was needed after all.  *)
ControlFollows ==
    Done => \A i \in Insn : Placed(i) /\ prog.ft[i] # None =>
        LET f == prog.ft[i]
            a == place[i] + prog.size[i]
        IN  /\ Placed(f)
            /\ \/ place[f] = a
               \/ f \in fronts /\ \E h \in fronts : jump[h] = a /\ FallthroughDollop(h) = f
               \/ f \in patch_list /\ prog.ibta[f] = a

(* An unpinned indirect branch target is at a multiple of UNPIN_ALIGNMENT, *)
(* unless a plugin chose the place, or control falls into it from its own  *)
(* function.                                                               *)
Aligned(i) ==
    \/ place[i] % UNPIN_ALIGNMENT = 0
    \/ Addressed(i)
    \/ \E j \in Insn : /\ prog.ft[j] = i /\ prog.function[i] = prog.function[j]
                      /\ Placed(j) /\ place[i] = place[j] + prog.size[j]

(* NothingForgotten: when the queue is empty, everything that is pinned,   *)
(* referenced, or the target of a placed branch is placed, the unpinned    *)
(* targets of indirect branches at aligned addresses.                      *)
NothingForgotten ==
    Done => \A i \in Insn :
        /\ \/ Pinned(i) \/ i \in prog.referenced
           \/ \E j \in Insn : Placed(j) /\ prog.target[j] = i
           => Placed(i)
        /\ Placed(i) /\ prog.ibta[i] = 0 => Aligned(i)

(* PlacementEnds: the queue, which grows while it is worked through, runs  *)
(* empty, and the loop that clears a pin ends.                             *)
PlacementEnds == <>Done

=============================================================================
