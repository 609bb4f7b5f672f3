# Zipr: a TLA+ development

Zipr is a static binary rewriter.  Disassemblers and analyses fill a database
(the IRDB) with the instructions of a program; transforms change them; the
rewriter `zipr` places the result in the address space of the original binary
and writes a new one.  This directory holds TLA+ models of the parts of the
system whose correctness rests on sequences of state changes, the TLC runs that
check them, and TLAPS proofs about them.

## 1. Inventory

| component | state it keeps | operations | what makes it correct |
|---|---|---|---|
| memory space (`zipr/src/memory_space.cpp`, `zipr/include/zipr_mem_space.h`) | free ranges indexed by address and by size, the bytes written, lowest and highest address written | add and remove ranges, split and merge a byte or a range, plop bytes, search by size | free ranges never overlap, the indexes agree, no byte is lost or handed out twice, a search returns a range that fits |
| free space and scoops (`FindFreeRanges`, `UpdateScoops` in `zipr/src/zipr.cpp`; `fill_in_cfg.cpp`) | the program's scoops, Zipr's own scoops | make scoops of sections and gaps, place scoops without address, cut scoops to what was used | free space is nobody's data, pages keep their permissions, all code is in scoops |
| x86 pinner (`zipr/src/pinner_x86.cpp`) | two-byte and five-byte pins, reservations, sleds | reserve, pre-reserve, expand, chain, sled | every pinned address leads to its instruction, reservations are disjoint and given back |
| dollops (`zipr/src/dollop.cpp`, `zipr/src/zipr_dollop_man.cpp`) | dollops with entries, fallthrough and fallback links, cached size; instruction map; target dollop of each entry | create, split, link, update targets | each reachable instruction is in one dollop, and the dollops have the control flow of the IR |
| placement (`PlaceDollops` in `zipr/src/zipr.cpp`; sizers; plugins) | placement queue, places, patch list, the locals of a long loop | ask plugins, search, split, coalesce, append or elide jumps, reserve | entries never overlap, control finds each fallthrough, the queue runs empty |
| emission (`FixTwoByteWithPrefix`, `FixNoFallthroughs`, `FixMultipleFallthroughs`, `WriteDollops`, `ReplopDollopEntriesWithTargets`, `UpdatePins`, `UpdateCallbacks`) | the IR, places and final locations, bytes written, patches | repair the IR, write each entry, write branches again, patch | what is written is as long as what was reserved, control goes where it went |
| ELF writer (`zipr/src/elfwrite.cpp`, `zipr/include/exewrite.h`) | page map, segment list, program headers, the file | lay out pages, join segments, find a place for the headers, write, add sections | a loader gets every scoop's bytes and permissions and finds the headers |
| exception tables (`irdb-libs/ir_builders/split_eh_frame.cpp`, `zipr/src/ehwrite.cpp`) | an unwind program and a call site for each instruction; FDEs and LSDAs being joined | split the input's tables, join them for the new order of instructions | an unwinder finds the same rows and handlers as before |
| thanos (`irdb-libs/thanos/thanos.cpp`) with the shared objects (`libIRDB-core/src/IRDB_Objects.cpp`) and the transaction (`pqxxdb.cpp`) | list of steps, IR objects in memory, open transaction | run a step, save before and after, abort, final save | the database only shows whole steps, an optional step that fails leaves no trace |
| IRDB core (`libIRDB-core/src/fileir.cpp` and the classes beside it) and transform library (`libIRDB-transform`, `rewrite_util.cpp`) | the objects of a file, their ids, the assembly registry, the rows | insert before and after, split a scoop, write, read | rows read back as what was written, edits keep the program |
| other pinners, sizers and patchers, plugin manager, PE writer | per architecture or format | | |
| CFG, deep analysis, IR builders, builtin transforms | what is derived from the IR | | |

How they interact.  `thanos` loads transform steps as shared objects and runs
them one by one on `FileIR_t` objects that stay in memory between steps; the
database is written at save points.  `zipr` is the last consumer:
`ZiprImpl_t::CreateBinaryFile` calls, in order, the repairs of the IR,
`FindFreeRanges` (fills the memory space), the pinner (takes and gives back
bytes), `CreateDollops` (dollops from the pins and relocations),
`PlaceDollops` (takes dollops off a queue, asks plugins and the sizer for a
place, coalesces or splits dollops, reserves the bytes), `WriteDollops`,
`UpdatePins`, `UpdateCallbacks` and `UpdateScoops`; then the exception tables and
the ELF file are written.  Pinner and placement share the memory space;
placement splits dollops while it walks them.  Everything runs in one thread.

What is hard.  There are no threads.  The difficulty is in long sequences of
legal calls on shared structures (free ranges, dollops), where each call depends
on what all earlier ones left; in caches that must follow (the size index, the
dollop size, the instruction map, target dollops); in orders that nothing fixes
(sets of pointers are walked in address order); in tables that are taken apart
for one order of instructions and put together for another; in arithmetic at the
ends of the address space, of pages and of narrow integers; and, in `thanos`, in
the failure of one step of several with a transaction and objects in memory to
keep in accord.  `PROJECT.json` lists these hazards at their lines, with the
properties that cover them.

## 2. Modules

    FreeRanges            operators: the class FreeRanges_t, split and merge of a byte
      '- MemorySpace      state machine of ZiprMemorySpace_t ----implements---> FreeBytes
           |- FreeRangeSearch  the recursion of getFreeRange
           |    '- MCMemorySpace, MCMemorySpace.cfg
           '- MemorySpaceProofs, with the search
    Scoops                FindFreeRanges and UpdateScoops
      |- MCScoops         the layouts TLC tries, MCScoops.cfg
      '- ScoopsProofs
    SledWords             layout and words of a 68-sled
      |- Sled68           the processor in a sled, MCSled68.cfg
      |    '- Sled68Proofs
      '- PinnerX86        all passes of doPinning
           |- PinnedCode  the processor over what is pinned
           |    '- MCPinnerX86, MCPinnerX86.cfg
           '- PinnerX86Proofs
    Dollops               dollops and their manager
      |- MCDollops        the programs TLC tries, MCDollops.cfg
      '- DollopsProofs
    Placement             PlaceDollops
      |- MCPlacement, MCPlacement.cfg
      '- PlacementProofs
    Emission              the repairs of the IR, WriteDollops, pins, callbacks
      |- MCEmission       the programs and orders TLC tries, MCEmission.cfg
      '- EmissionProofs
    ElfWriter             the output file
      '- MCElfWriter, MCElfWriter.cfg
    EhFrames              exception tables, from input to output
      '- MCEhFrames, MCEhFrames.cfg
    Thanos                the step pipeline, MCThanos.cfg
      '- ThanosProofs
    FileIR                the objects of a file, rows, edits
      '- MCFileIR, MCFileIR.cfg, MCFileIRChunks.cfg

The modules of `zipr` meet at contracts.  `MemorySpace` implements `FreeBytes`, the
set of free bytes that `Scoops`, `PinnerX86` and `Placement` take from: `Scoops`
shows that it hands out disjoint ranges, which `MemorySpace` assumes, and the other
two that they take free bytes only and give back what they took.  `Emission`
establishes the programs `Dollops` starts from (at most one predecessor by
fallthrough), `Dollops` the partition `Placement` starts from (each dollop runs
along the fallthroughs to the next front), and `Placement` the layout the second
half of `Emission` starts from.

### FreeRanges, MemorySpace, FreeBytes

`FreeRanges` translates the class `FreeRanges_t` and the two byte algorithms as
operators on a record with the two indexes `by_address` and `by_size`.
`std::set` semantics are kept: `SetInsert` refuses an element equivalent to one
already there under `Range_tCompare`, `SetErase` removes what is equivalent;
`find` with a one-byte key is membership.  Addresses wrap (`Succ`, `Pred`),
sizes are narrowed modulo `IntMod` (2^32 in the code) before the bucket is
computed.  `MemorySpace` is the state machine: one action per member function
that changes state.  A call on a range is a `loop` record, one byte per step, so
that invariants are checked in the middle of calls as well; an assert of the
code that fails sets `aborted`.  The callers' contract is in the guards, read
from all call sites in `zipr.cpp`, `pinner_*.cpp` and the plugins: a byte is
split only while it is free, merged only while it is busy, the last address is
never taken, ranges are added while nothing is taken and do not overlap.
`PlopByte` has no contract.  `FreeBytes` says what all this promises: a set of
free bytes and a set of written bytes.  Runs of bytes are added until the last
address is in one, which is the end of `FindFreeRanges`; from then on bytes are
reserved, released and written one at a time, and a run of free bytes may be dropped as a
whole (`RemoveFreeRange`, which only a test calls).  Left out: the values of the bytes, and
`original_free_ranges`, which only feeds statistics.

`FreeRangeSearch` is the search by size, over every state of the memory space: the
recursion of `getFreeRange` as a function of the number of nested calls, and the
random choice as "whichever range of the bucket".

### Scoops

`CreateExecutableScoops` makes scoops of neighbouring executable sections, `FillGap`
of the space between two scoops, one gap per step in the order of addresses, with the
unsigned size `new_padding_scoop_size` modulo `UIntMod`; `PlaceScoop` gives an address to
a scoop that has none, in any order within the scoops of the same permissions; `AddOverflow` adds the overflow area and takes the program's data back from the free
bytes.  `WriteCode` stands for pinning and placement: any free bytes become code.
`UpdateScoop` cuts a scoop to its first and last byte that is not free, the overflow area first
to the start of the last free range, and drops a scoop that has none.
`page_round_down` is kept as it is written: for the first byte of a page it yields the page
before; and so is `page_round_up`, which is given the inclusive end of the last section, so that a section
that ends with the first byte of a page leaves that byte's page to what is put behind it.  Which layouts the
code is made for is `LinkerMade`, an assumption about the constant `Layouts` that TLC evaluates for each
layout it tries and that the proofs start from (section 4).

### Sled68, PinnerX86

Every address a program may compute (a pin) must lead to its instruction.  In
`PinnerX86` one action is one turn of a loop of `ReservePinnedInstructions`,
`PreReserve2ByteJumpTargets`, `ExpandPinnedInstructions`,
`Fix2BytePinnedInstructions` or `OptimizePinnedInstructions`; `doPinning` moves to
the next pass.  The variables are the members of the same names; `mem` and `free`
are the memory space, used by its contract (`FreeBytes`); `disp` is the
displacement in a two-byte jump.  `two_byte_pins` and `five_byte_pins` are ordered
by heap addresses in the code, so any pin may be next; `unresolved_pinned_addrs` is
ordered by address.  A byte is a class of byte, because that is what the processor tells
apart.  An instruction is its pin, the `lea` behind a push, or a whole chain of
compares with the range and the jump points it was made for.  `Do68Sled` is an operator: its clearing
of the area has no effect that outlasts the call and is not spelled out.
`PinnedCode` adds the processor: `Reaches(a)` runs it from `a` over these bytes; in a sled it uses the
words of the pushes, in the chain the compares that `Emit68Sled` made.  `aborted`
stands for a failed assert of the pinner, the memory space or `PatchJump`.
Left out: indirect targets without an address, which only become dollops, and
`ShouldPinImmediately`, which returns false.

`Sled68` is the same question for one sled, with the stack of the program below
the pushed words: the compares of an entry look as deep as that entry pushes, so
a shorter entry's compares see words of the program.

### Dollops

A dollop is named by its first instruction, which no operation changes.  The
manager's state is one record: `body` (entries), `where` (m_insn_to_dollop),
`ft` and `fb` (fallthrough and fallback pointers) and `size` (cached).
`AddNewDollops` is the whole function with the recursion along the fallthrough
path: the run of the constructor, cut where a dollop is met; the chain of
further dollops at indirect branch targets; the link to the dollop that is met,
which is split if it is met in the middle; `addDollops` on the chain.  The phases are the
loop of `CreateDollops`, the two parts of `UpdateAllTargets` with its copies of
the dollop set and of each entry list, and `SplitToFit`, the split of
`PlaceDollops`.  Sets of pointers are walked in any order.  Entry sizes are one
unit each; the trampoline has its own.  `Programs` are IRs after
`FixMultipleFallthroughs`: an instruction has at most one predecessor by
fallthrough; and fallthroughs make no circle.  On a circle without a branch
target the constructor, and with one `AddDollops`, would not return.

### Placement

The dollop of front `h` runs along the fallthroughs to the next front, so splitting a
dollop adds a front and nothing else.  The steps are those of the loop:
`SkipPlaced`, `PlaceByPlugin` or `PlaceBySizer` (with the pin whose jump the dollop
replaces), `BeginDollop`, `PlaceEntry` or `SplitToFit` for each entry with the three
tests of room, and at the end of a dollop `Coalesce`, `AppendJump` or an elided jump,
then `ReserveChain`.  `cur` holds the locals of the loop.  Bytes are taken from `free`
only at the end of a chain, as in the code.  The queue is a set ordered by pointers, so
any dollop may be next.  The size of a pin and of the trampoline are constants; sizes
that the code keeps in an `unsigned int` are taken modulo `UIntMod`, with the
addresses a long loop in `zipr.cpp:1023` runs over.
Plugins are not in the repository: one that answers has planned ahead, keeps the bytes of
its answers to itself and answers the same when asked about a dollop beforehand.
The code takes an answer that abuts on the fallthrough without asking how far the answer reaches, and
one that forbids coalescing on the strength of the whole chain's size (the TODO at `zipr.cpp:897`).
`RoomyPlans` restricts `PlaceByPlugin` to what the code leaves to its plugins: an answer that abuts reaches up to
there, another one holds the dollop, or its first entry and a jump, if it forbids coalescing (`Roomy`); without it
the asserts on the dollop's first entry and behind the loop fail.  It is asked of an answer when it is
used, since only then the sizes are final.

### Emission

`FixTwoByteWithPrefix`, `FixNoFallthroughs` and `FixMultipleFallthroughs` are one action each, on a
program whose instruction is its kind, prefix, fallthrough and target; which of several
predecessors keeps a shared fallthrough is open.  `PlaceDollops` here is only the
result of placement: dollops in some order, a jump to the fallthrough unless it comes next.
`WriteEntry` writes one entry, target known or not; `ReplopEntry` writes every branch again;
`UpdatePin` and `UpdateCallback` patch.  An instruction a plugin plops begins with a byte of the plugin's,
which writes the byte and moves the address it was given by one (`PlacedAddress`, `PluginByte`); the instruction itself is
left to Zipr.  Both writings go through `_PlopDollopEntry`, so plugins are asked twice for a branch, the second time with the
address they moved it to.  What they do then is not in the repository: `PluginsStartOver` says they begin again at the place of the
entry, else they open at the address they are given (section 3).  `Programs` are what the transforms leave: targets on branches
only, and none of the instructions Zipr adds later (`Lifted`).  A callback is as long as the sizer's
constant says, which is so for 64-bit code.  `mem` holds operations at addresses, not bytes; a short
branch becomes what `sizer_x86.cpp` makes of it (a `loop` with a short jump around a long one).

### ElfWriter

`CreatePagemap` (which leaves out a `.tbss`, whose addresses belong to what follows it, while the smallest and largest
address and the section headers count it), `CreateSegmap`, the places for the program headers
(`CreateNewPhdrs_GapAllocate`, `_FirstPageAllocate`, `_PreAllocate`, each
with its condition and in the code's order; the fourth, `_PostAllocate`, always declines), the
assert when there is none, `WriteElf` and `AddSections` are one action each.
A byte of a page is its own address or 0, so a byte that ends up in the wrong place is seen.
`file` maps offsets to what was written last: segments, then ELF header, then program headers.

### EhFrames

`build_ir` gives each instruction the unwind program up to its address and the call
site that applies; `PlaceInsns` moves the instructions to any slots;
`IgnoreInsn`, `ExtendFDE` and `BeginFDE` are a turn of `BuildFDEs`;
`GenerateEhOutput` turns the result into tables.  `RowAt`, `OldHandler` and `NewHandler` are the
unwinder, which is outside the program: it executes a program up to an address and searches a
call-site table up to the first entry that ends behind it.  A landing pad may lie outside the
function, as it may in tables with a base of its own; the offset 0 means none.

### Thanos

The state is the position in the pipeline (`step`, `pc`), the file IRs in memory,
the view of the open transaction, whether an SQL error has spoiled it, and what
the database would show after a crash.  The IR of a file is the set of steps
whose changes it contains.  `StepUnusable` stands for a failing `dlopen`,
`dlsym` or `parseArgs`; `BeginStep`, the saves, `StepSucceeds`, `CriticalFails`,
`OptionalFails` follow `executeStep` and `main` branch by branch; a write-back
that fails may have written any of the files.  `Crash` stands for every death of
the process: a signal, an uncaught exception, and two places where the code's
behaviour is undefined, `tidyIR` and `writeBackFileIR` on a file that was never
loaded (null pointer), and `deleteAll`, which erases from the map it iterates
over; the outcome in which those go on as intended is the one the other actions
take.  A commit whose answer is lost is a commit followed by `Crash`.

### FileIR

A heap of objects, a registry of assembly text still to be assembled, and the rows.
`Insert` is any of the insertions of `libIRDB-transform` with the copy that
`insertBefore` makes and everything that points to either; `Analyse` sets indirect targets anew;
`SplitGlobals` is `splitScoop` as `move_globals` calls it; `Write` assembles, gives ids, drops
unused sets of targets, merges equal ones and makes the rows; `Read` builds new objects from them,
with the lookups by id and by address that the code makes.  `ReadContents` keeps the way the code reads long
contents, in pieces whose borders count from zero in one place and from one in the other.

## 3. Runs

| run | instance | states | shows |
|---|---|---|---|
| `memory_space` | 7 addresses, 3 buckets, sizes modulo 6 | 432,729 | section below |
| `scoops` | 3 sections of 2 or 5 bytes, pages of 4 | 926,615 | free space is nobody's data, code is in scoops |
| `sled68` | sleds of up to 11 bytes, words 1 and 5 below | 391,168 | the compares find the entry |
| `pinner_x86` | up to 5 pins in 9 addresses, 60 bytes, reach 6 | 18,787 | pins lead to their instructions, taken bytes stay taken |
| `dollops` | 4 instructions, up to 2 branches, trampoline of 5 units | 384,817 | dollops partition the code and keep its flow |
| `placement` | 4 instructions of up to 6 bytes, a hole, a gap before a pin, the overflow area | 511,771 | nothing is put over another, no elided jump was needed |
| `emission` | 3 instructions, 2 layouts, 2 orders of writing | 644,924 | what is written fits and keeps control |
| `elf_writer` | 2 to 4 scoops and a `.tbss` on pages of 16 bytes | 263,476 | a loader gets what the scoops hold |
| `eh_frames` | 2 functions, 5 instructions in 6 slots in every order | 292,436 | an unwinder finds what it found before |
| `thanos` | 3 steps, 2 files | 59,467 | only whole steps are ever committed |
| `fileir` | 2 programs, 2 edits, 2 writes | 23,069 | rows read back, edits keep the program |
| `fileir_full_chunks` | the same with scoops of full chunks | | the reader loses the last byte of such scoops |

A property of a passing run has a mutant in `PROJECT.json`: a wrong variant of
a mapped definition, kept beside the right one after a comment "A mistake", that
violates it.  Type invariants are conjuncts of the first invariant of their module.

**memory_space.**  `RangesDisjoint` and `IndexesAgree` (the
representation); `AssertsHold` (the code's asserts); `InfiniteRangeFree` (what
`getInfiniteFreeRange` asserts); `LoopProgress` (range calls, in the middle too);
`SearchFits` (the search by size in every state reached); `ImplementsFreeBytes` (refinement, with each
call of the code an action of `FreeBytes` of its own: what is gained in a merge or lost in a split is the byte named and no
other, and ranges come and go as a whole only with `AddFreeRange` and `RemoveFreeRange`).
Seven addresses allow three separate ranges, a byte with free ranges on both
sides, on one or on none, one-byte ranges, and the overflow area; three buckets
separate ranges of one byte, of two and three, and longer ones, and the sizes 6 and 7 of the longest ranges are truncated
to 0 and 1, as 2^32 truncates that of the overflow area.  The run reaches every branch of
split and merge.  `SearchFits` carries the precondition `Reachable`: some range is filed at
or above the bucket of the request.  It can fail in the code when the overflow area's size
modulo 2^32 is small and no other range is left; then the recursion leaves the vector.
No deadlock is possible.

**scoops.**  `FreeSpaceIsApart`, `PagesKeepPermissions`, `CodeIsInScoops`.  A page size of 4
lets sections begin, end and leave gaps at every offset of a page; three sections make a gap
before, between and behind executable ones; data in the last byte of the text is what is taken
back at the end.  `FreeSpaceIsApart` is about every state: ranges are apart while gaps are filled, scoops
placed and scoops cut, not only in the end.  The layouts are what a linker makes (`LinkerMade`): a writable section has
pages of its own, the last section is data, and there is
room behind it.  Outside of that the properties fail: a writable section that shares a page with a read-only
one makes the gap's size negative, or space for code is put on the writable page; an
executable section that comes last fails the assert at `zipr.cpp:626`.  Inside of it `PagesKeepPermissions` has
one exception, `OnLastByte`: when a writable last section ends with the first byte of a page, rounding its inclusive end up
(`zipr.cpp:632`, `390`) gives that byte's own page, so the overflow area begins on the byte and so do
scoops that have no address yet.  No assert excludes that layout; the run reaches it, and without the exception TLC finds the
property violated.  The program ends, so
deadlock is not checked; neither is it in the runs below, for the same reason.

**sled68.**  `Resynchronises`: every entry reaches the jump behind the nops.
`EntryFound`: the compares pick the entry and restore the stack.
The stack below is 1 (`0x90686868`) or 5 (any word no sled pushes).  With
`0x68686868`, the word of a full push (`ProgramWords = {0, 5}`), TLC finds `EntryFound`
violated: the compares at `pinner_x86.cpp:570` look below the words of a short entry, at
what the program has on its stack.  Eleven bytes give entries of one, two and three pushes.
Fairness: the processor goes on.

**pinner_x86.**  `TakenIsBusy` (no dollop can be placed over a jump,
a sled or a reserved slot, reserved slots are apart, and no assert fails); `PinsLead` (at the end
each pin leads to its instruction, but for the case below); `PinningEnds`.  A
reach of 6 stands for 120: with it a handful of pins crowd each other out of
reach, so chains of two-byte jumps, emergency sleds and updates of old sleds occur
within 60 bytes.  The invariants also hold for 4 pins in 40 bytes with the reach 9 and
with the reach 120 of the code, where no emergency occurs.  Nine addresses let runs of
two, three and more adjacent pins and lone pins meet.  Fairness: weak fairness of `Next`, one thread.
Two ways an emergency sled goes wrong were met on the way.  The jump behind the push of
two adjacent pins may find no slot; its emergency sled starts at the jump (`pinner_x86.cpp:441`), the push
stays outside (`CutPush`), and the word it leaves on the stack is not one the compares know: with the
pins 1, 2 and 8 and the reach 6 a pin is lost, although the comment at `pinner_x86.cpp:333` says
that sled handles it; with the reach of the code the same takes a section of 24 bytes.  In a
section of 20 bytes, with the pins 1, 3, 4 and 8 and the reach of the code, the assert `sled_size>2` at
`pinner_x86.cpp:950` fails for an emergency sled at the end of a chain.

**dollops.**  `OneDollopEach`, `LayoutFollowsFallthrough` (with the links in both directions and the
cached sizes) and `TargetsAreFronts` (with the order of entries and branch targets) hold after every single
`AddNewDollops` and split; `ExactlyReachable` when `UpdateAllTargets` returns;
`UpdateTerminates` says that the passes end.  Four instructions allow a chain that is met in its middle, a
dollop that is split by a branch out of its own body, a branch target inside a run,
and two separate runs.  Fairness: weak fairness of `Next`, since the code is one
sequential loop.

**placement.**  `PlacedBytesAreKept`: entries, jumps and pins share no byte, though a chain's bytes
are only reserved at its end, and between two dollops nothing placed is free.  Bytes that are not free
when a chain claims them are a failed assert, so the property speaks of claims on free bytes; that
there are no others is `AssertsHold`.  `MCSpec` begins with answers that are accepted and roomy; that they
still are when they are used shows in `PlacementEnds`, since the loop would stop before one that is not.
`ControlFollows`: what follows each entry is its fallthrough, a jump to it or its pin; the places that plugins
announced for dollops not yet placed are where those elided jumps end.  `NothingForgotten`: what is pinned,
referenced or the target of a placed branch is placed, unpinned targets aligned.  `PlacementEnds`.
Sizes of 1 to 6 against trampolines of 5, holes of 9 and 14 and seven bytes before a pin
give a first entry that just fits, an entry that fits without the jump, a dollop
that fits as a whole, and one that has to be split after each of its entries.
The loop at `zipr.cpp:1023` counts with an `unsigned int`; `UIntMod` is above all addresses here,
as it is for a program linked below 4 GiB: for a dollop on its own pin above that, `PlacementEnds` fails.
Fairness: weak fairness of `Next`, one thread.

**emission.**  `OneFallthrough`: when dollops are made, no instruction has two predecessors by fallthrough,
with the jumps and the `hlt` added on the way.  `SizesAgree`: what is first written for an entry, a plugin's byte
included, is as long as what was reserved; the second writing has no assert.  `ControlKept`: in the end control
goes from pin to instruction and from instruction to fallthrough and target as in the program.  It holds when
plugins start over (`PluginsStartOver`), which the warning at `zipr.cpp:1731` ("sanity check that we aren't moving an
instruction that's already been placed") and the comment at `zipr.cpp:737` ("completely and fully assigned during the call to
_PlopDollopEntry") expect of them.  With a plugin that puts its byte at the address it is given, the second
writing moves a branch by a byte once more and over the first byte of the next entry: with `PluginsStartOver = FALSE` TLC finds
`ControlKept` violated.
Two instructions of any kind after a first one that is pinned give branches forward, backward and to
themselves, with the fallthrough next, elsewhere or missing.  Callbacks take ten bytes, what
64-bit code needs: `SizesAgree` is a statement about 64-bit code.  For 32-bit code nine are written (`zipr.cpp:1848`), and the
assert at `zipr.cpp:1854` with the same constant fails.
Opcodes are kinds here: the lists of opcodes at which the patcher and the sizer recognise a
short branch have gaps (0x80 and 0x87, 0x70), which the kinds do not show.

**elf_writer.**  `ScoopsLoaded`: in the image a loader makes, every byte of a scoop is there once, with
its value and permissions, and PT_LOADs ascend.  `HeadersLoaded`: the address the kernel computes for the program headers
is that of PT_PHDR, and they are there, readable.  `SectionsFound`: sections and the headers that stand for one
have the file offset of their bytes.  Scoops of 3 or 12 bytes at three offsets, and the next
one directly behind, on the next page, or up to three pages on, give segments that share a page, touch,
or leave room for the headers in a gap, before the first scoop, on a page before it, or nowhere; a `.tbss` begins where
a writable scoop does and may end behind it.  The first
scoop is readable and has contents, only writable scoops are zero, the headers fit in a page.

**eh_frames.**  `RowsKept` and `HandlersKept`: for each byte of a moved instruction an unwinder finds the same
CFA and saved registers, landing pad, types and personality in the new tables as in the old.
Six slots and five instructions give every order, with one hole; a threshold of 3 for 100
lets FDEs be joined and be closed for length; programs remember and restore, overwrite an offset, and advance by 1 and
2 units; LSDAs have no types, one and two, a catch-all, and two encodings.  An FDE has an LSDA exactly if its CIE has a
personality, call sites are in order, and there are no dynamic exception specifications.  That a
call site is missing (the C++ runtime calls `terminate`) and that it has no landing pad (it goes on)
is one outcome here, `NoHandler`.

**thanos.**  `CommittedIsAPrefix`: the database is at every moment the result of a
number of whole steps in order, whatever fails and whenever the process dies.
`LastGoodVersion`: a step starts from what the saved steps before it
did, and from nothing of a step that failed.  `SuccessIsSaved`: exit status 0 means that what all applied steps did is committed.
`SavedIsKept`: committed changes stay.  Three steps give a step before, an optional step
that fails, and a step after; two files let a write-back fail half way and a step load one file and
not the other.  No fairness is assumed and no liveness claimed.  Two comments of `executeStep` are contradicted
by the code.  "abort changes by resetting DB interface" (`thanos.cpp:403`): when the save of an optional
step fails, the reset drops the transaction but not the objects, so the next step starts on the changes and the next save commits
them.  `UnsavedOutlivesTheReset` says so and is proved; `LastGoodVersion`, which means the opposite, therefore leaves such steps
out, and `CommittedIsAPrefix` and `SuccessIsSaved` count them as done, since they end up committed.
"the failure must be from a critical step, abort" (`thanos.cpp:360`): the return ends only the optional step; `main` ignores
the failed save and goes on.

**fileir.**  `ReadsBack`: after a write, what `readFromDB` would build is the heap that was written, reference by
reference; every object has an id of its own, past those that `splitScoop` gave out too.  `ProgramKept`: insertions, splits,
writes and reads leave the program the analyses built: flow, indirect targets, handlers, relocations, data and
pointers into it.  `AssertsHold`: whatever was edited, writing and reading fail no assert or lookup.
`Flow` has a branch, two pins, two equal sets of targets, a try block and a handler; `Data` five bytes and a pointer from
inside and from outside.  Two edits give an insertion before what was inserted, a split of a part, and an edit on each side
of a write; two writes, ids given before and after a split.  The bounds are `MaxEdits` and `MaxWrites`; when they are used
up, `Read` goes on.

**fileir_full_chunks.**  `ScoopsReadBack` states the assert at `fileir.cpp:1544`.  Contents are written in one row up to a
threshold and in two above it, and any row is read in chunks with `substr`, whose positions count from 1 while the loop's
(`fileir.cpp:1512`) count from 0.  The first chunk ends one byte early and the next begins there, so nothing is lost unless the size
of a row is a multiple of the chunk's.

## 4. Proofs

A theorem holds for every value of the constants that satisfies the assumptions named in the
module, and the hypotheses a theorem states: any number of instructions, steps, files, sections or addresses.  TLC evaluates the
assumptions on each instance it checks.

| module | proved, as `Spec => []...` | about |
|---|---|---|
| `MemorySpaceProofs` | `TypeOK`, `RangesDisjoint`, `IndexesAgree`, `AssertsHold`, `InfiniteRangeFree`, `LoopProgress`, `PloppedBounds`, `ImplementsFreeBytes` | the representation, and that it implements a set of bytes |
| `MemorySpaceProofs`, last part | `SearchFits` | the search by size |
| `Sled68Proofs` | `EntryFound` (no word of the program is that of a full push) | the words on the stack and the compares |
| `PinnerX86Proofs` | `TakenIsBusy` and an action property, `OnlyReservingAborts` (both until an assert fails) | the passes of `doPinning` |
| `ScoopsProofs` | `FreeSpaceIsApart`, `PagesKeepPermissions`, `CodeIsInScoops` | gaps, scoops, the cut at the end |
| `DollopsProofs` | `OneDollopEach`, `LayoutFollowsFallthrough`, `TargetsAreFronts`, `ExactlyReachable` | the manager, call by call |
| `PlacementProofs` | `PlacedBytesAreKept`, `NothingForgotten`, `AssertsHold` (under two hypotheses, below), `ControlFollows` (under two more) | the loop of `PlaceDollops` |
| `EmissionProofs` | `OneFallthrough`, `SizesAgree`, `ControlKept` (when plugins start over) | the repairs of the IR, the writing, the program that runs |
| `ThanosProofs` | `CommittedIsAPrefix`, `LastGoodVersion`, `SuccessIsSaved`, `SavedIsKept`; `UnsavedOutlivesTheReset`, which no run checks | what the database shows; where the code does not do what its comment says |

Each module has an inductive invariant `IInv` made of named parts.  TLC checked
each as an invariant of its run before it was proved.  Two things the provers lack are worked
around in the same way everywhere.  Induction over numbers is the least-number principle for sets
(`Least` in most modules, from `WFMin` of the library), applied to the set of counterexamples.  What a recursive function
computes is only known once the function is known to exist; lemmas such as `RunsDefined` build it from the runs a
recursion walks along, and a rank (`RankExists`) says that it stops.

**MemorySpace.**  Assumed: there are two addresses or more, and the vector has an element for each value
`integerlog2floor` returns on an unsigned int (`FREE_RANGES_BY_SIZE` does).  `IInv`: the ranges by address are proper and
disjoint, each bucket of the size index is the set of those ranges that fall in it, the running call has done exactly the
bytes before its counter, the last address is free once the overflow area is added, and no assert has failed.
`IndexesAgree` alone is not inductive: erasing from a bucket by equivalence removes
exactly one range only because the ranges are disjoint; disjointness after a merge
holds only because the byte was busy, which for a range call is `LoopProgress`.
The lemmas on `FreeRanges` are about the operators: erasing and inserting keep
both indexes good (`EraseGood`, `InsertGood`), and split and merge change the set of
free bytes by exactly the byte (`SplitFreeRangeGood`, `MergeFreeRangeGood`).
The last part of the module adds what the two logarithms do for every argument: a range is filed by its size rounded
down, a request looks from its size rounded up, so that any range it meets is large enough.

**Sled68.**  Assumed in the theorem: `NoWordOf68`, no word of the program's stack is 0x68686868, the word of a full push.  That
it is needed shows in the run: with that word TLC finds `EntryFound` violated.  The invariant gives the stack while
the processor is among the pushes, and behind them; with it every group before the one of the entry differs from the stack at
its topmost word, or, if it is longer, where the stack holds a word of the program.  So that word is the only one that can
mislead the compares, however long the sled is.

**PinnerX86.**  Assumed: the text is a finite set of addresses and pins are in it; nothing is assumed of `Reach`, of
`MaxPins` or of gaps in the text.  Between the passes a pin's range means different things, so `IInv` says pass by pass what
it is (`PinInv`): its own two-byte jump (`AtHome`), a slot nothing but sleds wrote to (`Slot`), or, for a pin a sled has
overrun, either (`Moved`).  `BytesAreBusy` alone is not inductive: what `ExpandPinnedInstructions` and
`Fix2BytePinnedInstructions` give back must be neither written nor part of another pin's range, and a sled is written over
whatever stands there.  That it cuts no slot and no jump rests on marks: a slot begins at one, a jump stands at one or
five bytes behind one (`Shielded`), and a sled ends, with its nops and its jump, before the next mark (`SledEndIs`,
`SledLeavesPins`); and a sled never takes the second byte of a slot without the first.  A failed assert ends the program,
so the invariant holds until then.  The same proof shows where asserts can fail: `OnlyReservingAborts` says
only in a pass that reserves, when a jump would leave the text or an emergency sled is too short (section 3); the
later passes never give bytes back twice, never look for a mark that is gone, and always find the jump they patch.

**Scoops.**  Assumed: `LinkerMade` of every layout, and that the gap after which a scoop is made is no smaller than a page
(5 * 1024 and 4096 in the code).  Two clauses of `LinkerMade` are asserted by the code: section starts above 0 at `zipr.cpp:495`,
and that no executable section comes last, whose end Zipr's own scoops would share, at `zipr.cpp:626`.  The others are not: that
writable sections have pages of their own, and that there is room above the program for the
scoops without an address, is what linkers and 64-bit address spaces provide; that data of the text is at its end
(`DataIsApart`) is true but for what section 6 says.  `PagesKeepPermissions` is proved with the exception `OnLastByte`, since nothing
excludes a writable last section that ends with the first byte of a page.  `FreeSpaceIsApart` speaks of
scoops and of free bytes from the end of `FindFreeRanges` on: before that the bytes of a gap are free that the data of the
text is taken from.  `IInv` follows the addresses: the gaps still to be filled lie above all that were
filled, scoops placed above the top stay below the overflow area with room left for each scoop still to come, and
what is free is in a scoop.  A gap is `start - end` as an unsigned number; the minimum distance keeps the reversed ones out.

**Dollops.**  Assumed of `Programs`: fallthroughs are instructions, an instruction has one predecessor by
fallthrough at most, which `Emission` proves of `FixMultipleFallthroughs`, and no circle of fallthroughs, on
which the constructor of `Dollop_t` would not return.  `IInv` is `Sound` of the manager: bodies are runs along the
fallthroughs without a repetition, the map and the bodies agree, the links of two dollops are each
other's inverse, recorded targets are fronts.  `Sound` holds between two calls; inside `AddNewDollops` a chain of dollops not yet in the map is
built, so the lemmas follow that chain: it ends where it meets a known dollop, which is split if it is met in its middle.
`ExactlyReachable` comes from two invariants: every set that is closed under what control reaches holds what is in
dollops, and when nothing has changed in a pass what is in dollops is such a set.

**Placement.**  Assumed of `Programs`: dollops are chains and fallthroughs make no circle, as in `Dollops` (the loop
of `DetermineDollopSizeInclFallthrough`, `sizer_base.cpp:69`, would not end on one), and pins, answers of plugins and free bytes are apart, as the pinner leaves them and plugins keep.  `IInv`
has a part per question: where the cursor of the loop is, what is still to come of a dollop, that what a plugin handed over
is still its own while the dollop waits (`WithPlugins`), and that bytes claimed for a chain belong to nothing else (`Apart`).
`Apart` is about bytes that are taken only at the end of the chain, while entries have their places at
once; it needs the claim to be free, which is `AssertsHold`.
`Remembered` relates the queue to the branches of what is placed.

`AssertsHold` has the hypotheses `RoomyPlans`, without which it is false, and `PinsBelow`: pins end below `UIntMod`,
as in programs linked below 4 GiB, else the loop at `zipr.cpp:1023` does not end.  It is about room, and room is a
sum along fallthroughs: of the entries of a dollop, and of the dollops of a chain.  `SumsDefined` shows that such
recursive functions exist where fallthroughs make no circle, `RestAlong` and `ChainAlong` give them as equations, and
`ChainStays` says that placing or joining a dollop changes no sum behind it.  `RoomInv`, inductive together with `IInv`,
follows the room through the loop: what a dollop starts with (`RoomToStart`), what
the tests made once per dollop (`fits`, `allFit`) still promise at a later entry (`RoomToGoOn`), and that behind the last entry
there is room for the jump, or for the dollop that is joined instead (`RoomToEnd`).

`ControlFollows` speaks of the end only, when the queue is empty; `FlowInv`, inductive on top of both, says what holds
on the way: each placed entry leads to its fallthrough, which is behind it, or is jumped to from behind it, or has its
pin there, or is promised there (`Linked`), but for the entry behind which the loop is still at work (`Open`).  A jump
counts once its dollop is complete, since a complete dollop is never split (`LaidStays`); a pin counts because it only
loses its patch to its own instruction at the same address (`PinsHold`).  The hard part is the jump that is
left out because a plugin has said where the fallthrough will go (`FallthroughKnown`, `Promised`).  A dollop that has been split ends
elsewhere (`SplitIsElsewhere`): there is free room for a jump behind it, and what was promised is not free.  That the promise is
kept needs `PromisesHold`, which the loop never checks: the promised dollop has only one predecessor, since the
loop joins a dollop with any predecessor it comes to first and does not ask where it was promised to go (the TODO at
`zipr.cpp:1291`), and the promise has room for the first entry and a jump, so that the answer is still accepted after a
split.  Without plugins that promise places in advance the hypothesis is void; with one whose promised
dollop has two predecessors TLC finds `ControlFollows` violated.  `InsnsHaveBytes`: no instruction is empty.

**Emission.**  Assumed: `Lifted` of every program, orders that name each front once, callbacks as long as
`CALLBACK_TRAMPOLINE_SIZE`, as they are in 64-bit code, and pins with five bytes of their own (`PinsAssumption`), which
is what `TakenIsBusy` of `PinnerX86` is about.  `ControlKept` has the hypothesis `PluginsStartOver`, without which it is
false (section 3); the rest holds for either kind of plugin.  `FallsOnce` is what `FixMultipleFallthroughs` establishes; it needs to know of
the earlier repairs that only a `hlt` falls into the jump behind it and nothing yet into jumps not made (`AsRepaired`).
`SizesAgree` needs that prefixes are gone from branches, that a branch has a target and a
conditional one a fallthrough, and that whatever is being written, and what it falls into, has a place (`AllPlaced`).  It is
about the first writing, the only one with an assert.

`ControlKept` says of the bytes at the end what the transforms said of the program at the start; between the two lies everything
`CreateBinaryFile` does, and `CInv` has a part for each stage.  `SourceKept`: through the repairs each instruction still goes
where the source says, by its own links or by those of an instruction made for it.  `LaidOut`: placed
entries do not overlap (`Addressed`), what an entry falls into comes right behind it, or the jump to it does (`LinksPlaced`), every entry with a place
is in one dollop, and what a placed entry jumps or falls to has a place.  That needs `Run` and `Reached` as
what the code computes, a run that ends and a set that is closed, which a number of
steps bounded by the number of instructions gives only because no run repeats an instruction (`RunEnds`) and a set that
still grows has grown in every step (`ReachedCloses`).  `WInv` follows the writing: every item in memory belongs
to one pin or one written entry and lies inside it (`InPlace`), and a written entry is exactly the items of its kind
(`Settled`), with the final address of its target in them unless it is on the list to be written again; final addresses are those of what
has been written (`Progress`).  It is inductive since an entry
is written over its own bytes only (`ChangeInside`), also the second time, when a plugin puts its byte where it already is
(`BranchAgain`).  At the end nothing is left to be written again, so all targets are final
(`DoneIs`), and following at most three jumps and the bytes of a plugin leads from each instruction to the next (`FallsOn`, `JumpsOn`).

**Thanos.**  Assumed: a natural number of steps.  The invariant relates the three copies of a file, in memory,
in the open transaction and in the database, to the steps done so far: what is in memory is up to date; what is not is up to date
in the transaction and in the database, since the one would be loaded and the other fallen back to.  "Up to date" counts the
steps that could not be saved; `StartIsAfter` says so of what a step starts from, and both `LastGoodVersion` (without those
steps) and `UnsavedOutlivesTheReset` (about those alone) follow.

Only model-checked:

- liveness, which needs fairness and ENABLED: `PlacementEnds`, `UpdateTerminates`, `PinningEnds`, `Resynchronises`;
- `PinnedCode`: `PinsLead`, which runs a processor over the memory by recursion;
- `ElfWriter`, `EhFrames` and `FileIR`: `ElfWriter` folds over bytes whose number the proofs would need
  induction for, the others are next.

## 5. Plan

Done: all modules of section 2, and the proofs of section 4.

Next, in this order, are proofs:

1. `FileIR`: `ProgramKept` under insertions and splits.
2. `PinnerX86`: that a text without gaps behind the pins lets only emergency sleds fail an assert.

After that the pinners of the other architectures and the unpin plugin could be modelled.

## 6. Not modelled

Most of the lines of the repository compute data: which bytes are instructions, which constants are
addresses, where a call returns to (`fill_in_indtargs`, `fix_calls`, `meds2pdb`, the deep analyses, most of
`move_globals`).  They are single passes of heuristics with no protocol between their parts; what would be modelled is the
heuristic itself.  For the same reason the models cover a small share of the lines, though they cover the core that all
those passes feed.  Also left out:

- the PE writer and unwind tables of PE: another format behind the same two passes over pages and segments;
- pinners, sizers and patchers of ARM and MIPS: tables, and pins of a fixed four bytes;
- the unpin and push64 plugins: local rewrites, one constant or instruction at a time;
- variants, functions' types, the derived CFG and call graph; loading of plugins; symbols and string tables;
- scripts, tests, examples and build files.

Seen while modelling and outside the properties.  In the scoops: on ARM and AArch64 `detect_scoops_in_code` (`fill_in_cfg.cpp:535`)
makes read-only scoops of words of data in the middle of the text; they are pinned on AArch64, and the gap
behind such a scoop is declared free although code is there.  `FreeSpaceIsApart` fails for these layouts, which `LinkerMade`
leaves out (`DataIsApart`).  In the exception tables: an instruction without tables between two that have
them is covered by their FDE; a function whose LSDA has no entry for a call (`noexcept`) gets none that says so;
`ehwrite.cpp:411` does not look at the advance opcodes that carry their operand in the opcode byte.  In the ELF writer: `LoadSegment_t` takes
`unsigned int`, so addresses above 4 GiB are cut; program headers of more than a page; a minimum number of headers that does not
count one of those added; the second of two PT_NOTE headers.  In the IRDB: merging of ICFSs ignores their analysis status;
`splitScoop` drops the RELRO flag and the type; a relocation one past the end of a scoop fails the assert at `fileir.cpp:1751`; inserting before an
instruction copies its callback too.  In the pinner: a sled at the end of a section writes past it (`pinner_x86.cpp:1190`).
