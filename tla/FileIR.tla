------------------------------- MODULE FileIR -------------------------------
(***************************************************************************)
(* The program representation of one file (FileIR_t): its objects in       *)
(* memory, the rows they are written to, the reading of the rows, and the  *)
(* edits transforms make in between, the insertions of libIRDB-transform   *)
(* and the splitting of a data scoop.                                      *)
(*                                                                         *)
(* A pointer is a pair <<kind, number>>; Null is the null pointer.  The    *)
(* heap maps the pointers of the file's sets to the objects.  Left out:    *)
(* types, names, comments and callbacks; how Postgres keeps the rows.      *)
(***************************************************************************)
EXTENDS Integers, Sequences, FiniteSets, TLC
LOCAL INSTANCE FiniteSetsExt
LOCAL INSTANCE SequencesExt

CONSTANTS
  Programs,        \* heaps the analyses may have built, no object with an id
  Exits,           \* the contents of returns and unconditional branches
  Branches,        \* those of direct branches
  MaxEdits,        \* bound: edits in a behaviour
  MaxWrites,       \* bound: writes in a behaviour
  IdMultiple,      \* splitScoop rounds ids to a multiple of this
  SCOOP_CHUNK_SIZE, SCOOP_THRESHOLD,
  FullChunks       \* whether a scoop's size may be a multiple of the chunk's

ASSUME SizesAssumption ==
  /\ {IdMultiple, SCOOP_CHUNK_SIZE, SCOOP_THRESHOLD} \subseteq Nat \ {0}
  /\ SCOOP_THRESHOLD % SCOOP_CHUNK_SIZE # 0

VARIABLES
  heap,                \* the objects of the file's sets, by pointer
  assembly_registry,   \* instruction -> the contents to assemble on writing
  max_id,              \* the id move_globals hands to splitScoop, 0 before it
  tables,              \* the rows, << >> before the first write
  clean,               \* nothing was changed since the rows were written or read
  program,             \* what the analyses built, as View shows it
  edits, writes

vars == <<heap, assembly_registry, max_id, tables, clean, program, edits, writes>>

NOT_IN_DATABASE == -1
Null == <<"null", 0>>
NoAssembly == [p \in {} |-> "none"]

\* Contents of inserted instructions: one that only falls through, one that may jump.
Plain == "plain"
Jump == "jump"

\* The order in which setBaseIDS walks the sets.
Kinds == <<"func", "addr", "insn", "reloc", "scoop", "icfs", "ehpgm", "ehcs">>
KindRank(p) == CHOOSE k \in DOMAIN Kinds : Kinds[k] = p[1]

Of(h, kind) == {p \in DOMAIN h : p[1] = kind}
Id(h, p) == IF p = Null THEN NOT_IN_DATABASE ELSE h[p].id
New(h, kind, k) == <<kind, k + Max({0} \cup {p[2] : p \in Of(h, kind)})>>
Start(h, s) == h[h[s].start].vo

-----------------------------------------------------------------------------
(* libIRDB-transform.                                                      *)

allocateNewInstruction(h, template) ==
  [id |-> NOT_IN_DATABASE, addr |-> New(h, "addr", 1), func |-> h[template].func,
   orig |-> NOT_IN_DATABASE, ft |-> Null, targ |-> Null, icfs |-> Null, ind |-> Null,
   ehpgm |-> Null, ehcs |-> Null, relocs |-> {}, data |-> "none"]

\* The new instruction and its address enter the sets of the file and the function.
Allocated(h, insn) ==
  LET p == New(h, "insn", 1)
      own == [f \in Of(h, "func") \cap {insn.func} |->
                [h[f] EXCEPT !.insns = @ \cup {p}]]
  IN own @@ (p :> insn) @@ (insn.addr :> [id |-> NOT_IN_DATABASE, vo |-> 0]) @@ h

Contents(target) == IF target = Null THEN Plain ELSE Jump

\* setInstructionAssembly leaves the bits to assembleRegistry, setInstructionsDetails sets them.
WithContents(insn, target, asm) ==
  IF asm THEN insn ELSE [insn EXCEPT !.data = Contents(target)]

\* changeRegistryKey: assembly that waits for orig is for updated from now on.
changeRegistryKey_Stays(orig, updated) == assembly_registry
changeRegistryKey(orig, updated) ==
  [p \in {IF q = orig THEN updated ELSE q : q \in DOMAIN assembly_registry} |->
     assembly_registry[IF p = updated THEN orig ELSE p]]

\* copyInstruction, and the original address, which the copy takes over.
CopyOf_NoOriginal(first) ==
  LET old == heap[first]
  IN [allocateNewInstruction(heap, first) EXCEPT
        !.data = old.data, !.ft = old.ft, !.targ = old.targ, !.icfs = old.icfs,
        !.relocs = old.relocs, !.ehpgm = old.ehpgm, !.ehcs = old.ehcs]
CopyOf(first) ==
  LET old == heap[first]
  IN [allocateNewInstruction(heap, first) EXCEPT
        !.data = old.data, !.ft = old.ft, !.targ = old.targ, !.icfs = old.icfs,
        !.relocs = old.relocs, !.ehpgm = old.ehpgm, !.ehcs = old.ehcs, !.orig = old.orig]

\* insertAssemblyBefore, insertDataBitsBefore: first gets the new contents, and falls
\* through to a copy of what it was.
InsertBefore(first, target, asm) ==
  LET next == New(heap, "insn", 1)
      new == WithContents([heap[first] EXCEPT !.orig = NOT_IN_DATABASE, !.relocs = {},
                             !.icfs = Null, !.ft = next, !.targ = target], target, asm)
      registry == changeRegistryKey(first, next)
  IN /\ heap' = (first :> new) @@ Allocated(heap, CopyOf(first))
     /\ assembly_registry' = IF asm THEN (first :> Contents(target)) @@ registry
                             ELSE registry

\* insertAssemblyAfter, insertDataBitsAfter, and addNewAssembly and addNewDataBits
\* behind an instruction.
InsertAfter(first, target, asm) ==
  LET p == New(heap, "insn", 1)
      new == WithContents([allocateNewInstruction(heap, first) EXCEPT
                             !.ft = heap[first].ft, !.targ = target], target, asm)
      h == Allocated(heap, new)
  IN /\ heap' = [h EXCEPT ![first].ft = p]
     /\ assembly_registry' =
          IF asm THEN (p :> Contents(target)) @@ assembly_registry ELSE assembly_registry

-----------------------------------------------------------------------------
(* Edits of FileIR_t itself.                                               *)

addNewICFS(insn, targets, status) ==
  LET p == New(heap, "icfs", 1)
  IN heap' = (p :> [id |-> NOT_IN_DATABASE, targets |-> targets, status |-> status])
               @@ [heap EXCEPT ![insn].icfs = p]

getMaxBaseID(h) == Max({0} \cup {h[p].id : p \in DOMAIN h}) + 1

\* The object ids splitScoop gives out begin here.
SplitIds(m) == ((m + IdMultiple \div 2) \div IdMultiple) * IdMultiple + IdMultiple

\* One part of a split scoop, from first to last, with ids id, id+1, id+2.
Part(s, first, last, k, id, relocs) ==
  LET a == New(heap, "addr", 2 * k - 1)
      b == New(heap, "addr", 2 * k)
      at == first - Start(heap, s)
  IN (New(heap, "scoop", k) :>
        [id |-> id + 2, start |-> a, end |-> b, perms |-> heap[s].perms, relocs |-> relocs,
         contents |-> SubSeq(heap[s].contents, at + 1, at + last - first + 1)])
     @@ (a :> [id |-> id, vo |-> first]) @@ (b :> [id |-> id + 1, vo |-> last])

splitScoop(s, addr, size) ==
  LET begin == Start(heap, s)
      end == heap[heap[s].end].vo
      id == SplitIds(IF max_id = 0 THEN getMaxBaseID(heap) ELSE max_id)
      needs_before == addr # begin
      needs_after == addr + size - 1 # end
      k == IF needs_before THEN 2 ELSE 1          \* the containing part is the k-th
      at(v) == CASE v < addr -> 1 [] v > addr + size - 1 -> k + 1 [] OTHER -> k
      from(i) == CASE i = k -> addr [] i < k -> begin [] OTHER -> addr + size
      to(i) == CASE i = k -> addr + size - 1 [] i < k -> addr - 1 [] OTHER -> end
      parts == 1 .. IF needs_after THEN k + 1 ELSE k
      relocsOf(i) == {r \in heap[s].relocs : at(begin + heap[r].offset) = i}
      moved == [r \in Of(heap, "reloc") |->
        LET i == at(begin + heap[r].offset)
            j == at(begin + heap[r].addend)
            o == IF r \in heap[s].relocs THEN begin + heap[r].offset - from(i)
                 ELSE heap[r].offset
        IN IF heap[r].wrt = s
           THEN [heap[r] EXCEPT !.offset = o, !.wrt = New(heap, "scoop", j),
                                !.addend = begin + @ - from(j)]
           ELSE [heap[r] EXCEPT !.offset = o]]
      new(i) == Part(s, from(i), to(i), i, id + 3 * (i - 1), relocsOf(i))
      gone == {s, heap[s].start, heap[s].end}
  IN /\ needs_before \/ needs_after
     /\ heap' = FoldSet(LAMBDA i, h : new(i) @@ h,
                        moved @@ [p \in DOMAIN heap \ gone |-> heap[p]], parts)
     /\ max_id' = id + 3 * Cardinality(parts)

-----------------------------------------------------------------------------
(* Writing.                                                                *)

assembleRegistry(h) ==
  [p \in DOMAIN h |-> IF p \in DOMAIN assembly_registry
                      THEN [h[p] EXCEPT !.data = assembly_registry[p]] ELSE h[p]]

setBaseIDS(h) ==
  LET unset == {p \in DOMAIN h : h[p].id = NOT_IN_DATABASE}
      before(p, q) == \/ KindRank(p) < KindRank(q)
                      \/ p[1] = q[1] /\ p[2] < q[2]
      first == getMaxBaseID(h) + 1
  IN [p \in DOMAIN h |-> IF p \in unset
        THEN [h[p] EXCEPT !.id = first + Cardinality({q \in unset : before(q, p)})]
        ELSE h[p]]

GarbageCollectICFS(h) ==
  LET used == {h[i].icfs : i \in Of(h, "insn")}
  IN [p \in {q \in DOMAIN h : q[1] # "icfs" \/ q \in used} |-> h[p]]

\* Of the sets with the same targets the one that comes first in the (unspecified)
\* order of the set of pointers stays.
DedupICFS(h, kept) ==
  LET same(p) == CHOOSE q \in kept : h[q].targets = h[p].targets
  IN [p \in {q \in DOMAIN h : q[1] # "icfs" \/ q \in kept} |->
        IF p[1] = "insn" /\ h[p].icfs # Null
        THEN [h[p] EXCEPT !.icfs = same(h[p].icfs)] ELSE h[p]]

Representatives(h) ==
  LET sets == Of(h, "icfs")
  IN {kept \in SUBSET sets :
        /\ \A p, q \in kept : h[p].targets = h[q].targets => p = q
        /\ \A p \in sets : \E q \in kept : h[p].targets = h[q].targets}

InsnRow(h, i) ==
  [id |-> h[i].id, addr |-> Id(h, h[i].addr), func |-> Id(h, h[i].func), orig |-> h[i].orig,
   ft |-> Id(h, h[i].ft), targ |-> Id(h, h[i].targ), icfs |-> Id(h, h[i].icfs),
   ind |-> Id(h, h[i].ind), ehpgm |-> Id(h, h[i].ehpgm), ehcs |-> Id(h, h[i].ehcs),
   data |-> h[i].data]

ScoopRow(h, s) ==
  LET c == h[s].contents
      n == IF Len(c) < SCOOP_THRESHOLD THEN Len(c) ELSE SCOOP_THRESHOLD
  IN [id |-> h[s].id, start |-> Id(h, h[s].start), end |-> Id(h, h[s].end),
      perms |-> h[s].perms, data |-> SubSeq(c, 1, n), part2 |-> SubSeq(c, n + 1, Len(c))]

\* The relocations of these kinds of objects are written, with the object they are on.
RelocRows(h) ==
  {[id |-> h[r].id, on |-> h[p].id, offset |-> h[r].offset, addend |-> h[r].addend,
    type |-> h[r].type, wrt |-> Id(h, h[r].wrt)] :
     <<p, r>> \in UNION {{p} \X h[p].relocs :
       p \in Of(h, "insn") \cup Of(h, "scoop") \cup Of(h, "ehpgm") \cup Of(h, "ehcs")}}

Rows(h) ==
  [func  |-> {[id |-> h[f].id, entry |-> Id(h, h[f].entry)] : f \in Of(h, "func")},
   addr  |-> {h[a] : a \in Of(h, "addr")},
   insn  |-> {InsnRow(h, i) : i \in Of(h, "insn")},
   icfs  |-> {[id |-> h[s].id, status |-> h[s].status] : s \in Of(h, "icfs")},
   map   |-> UNION {{[icfs |-> h[s].id, addr |-> h[h[i].addr].id] : i \in h[s].targets} :
                      s \in Of(h, "icfs")},
   scoop |-> {ScoopRow(h, s) : s \in Of(h, "scoop")},
   ehpgm |-> {[id |-> h[e].id, pgm |-> h[e].pgm] : e \in Of(h, "ehpgm")},
   ehcs  |-> {[id |-> h[e].id, lp |-> Id(h, h[e].lp)] : e \in Of(h, "ehcs")},
   reloc |-> RelocRows(h)]

\* The checks of writeToDB: an instruction without an original address must name its
\* successors.
Writable(h) ==
  \A i \in Of(h, "insn") : h[i].orig = NOT_IN_DATABASE =>
    /\ h[i].ft = Null => h[i].data \in Exits
    /\ h[i].data \in Branches \cup {Jump} => h[i].targ # Null

writeToDB ==
  \E h \in {GarbageCollectICFS(setBaseIDS(assembleRegistry(heap)))} :
  \E kept \in Representatives(h) :
    /\ heap' = DedupICFS(h, kept)
    /\ tables' = Rows(heap')
    /\ assembly_registry' = NoAssembly

-----------------------------------------------------------------------------
(* Reading.  The object read from a row with id n is called <<kind, n>>.   *)

Pointer(kind, id) == IF id = NOT_IN_DATABASE THEN Null ELSE <<kind, id>>
Ids(rows) == {r.id : r \in rows}

\* idMap[id]: null where there is no such instruction.
InsnAt(t, id) == IF id \in Ids(t.insn) THEN <<"insn", id>> ELSE Null

\* addressToInstructionMap: the last instruction read at an address.
InsnAtAddress(t, addr) == {<<"insn", r.id>> : r \in {q \in t.insn : q.addr = addr}}

\* A mistake: a chunk but the first lacks its first byte.
ReadContents_Skips(data) ==
  LET n == (Len(data) + SCOOP_CHUNK_SIZE - 1) \div SCOOP_CHUNK_SIZE
      chunk(k) == SubSeq(data, (k - 1) * SCOOP_CHUNK_SIZE + 1,
                         Min({Len(data), k * SCOOP_CHUNK_SIZE - 1}))
  IN FlattenSeq([k \in 1 .. n |-> chunk(k)])
\* substr counts from one, the loop from zero: each chunk but the first begins with the
\* byte the one before left out, and ends one byte early.
ReadContents(data) ==
  LET n == (Len(data) + SCOOP_CHUNK_SIZE - 1) \div SCOOP_CHUNK_SIZE
      chunk(k) == SubSeq(data, Max({1, (k - 1) * SCOOP_CHUNK_SIZE}),
                         Min({Len(data), k * SCOOP_CHUNK_SIZE - 1}))
  IN FlattenSeq([k \in 1 .. n |-> chunk(k)])

\* The kinds of objects put into objMap, in the order of their insertion.
ObjAt(t, id) ==
  IF id \in Ids(t.insn) THEN <<"insn", id>>
  ELSE IF id \in Ids(t.scoop) THEN <<"scoop", id>>
  ELSE IF id \in Ids(t.ehcs) THEN <<"ehcs", id>>
  ELSE IF id \in Ids(t.ehpgm) THEN <<"ehpgm", id>> ELSE Null

Objects(kind, rows, Make(_)) ==
  [p \in {<<kind, r.id>> : r \in rows} |-> Make(CHOOSE r \in rows : r.id = p[2])]

ReadFromDB(t) ==
  LET relocsOn(p) == {<<"reloc", r.id>> : r \in {q \in t.reloc : ObjAt(t, q.on) = p}}
      func(r) == [id |-> r.id, entry |-> InsnAt(t, r.entry),
                  insns |-> {<<"insn", i.id>> : i \in {q \in t.insn : q.func = r.id}}]
      insn(r) == [id |-> r.id, addr |-> <<"addr", r.addr>>, func |-> Pointer("func", r.func),
                  orig |-> r.orig, ft |-> InsnAt(t, r.ft), targ |-> InsnAt(t, r.targ),
                  icfs |-> Pointer("icfs", r.icfs), ind |-> Pointer("addr", r.ind),
                  ehpgm |-> Pointer("ehpgm", r.ehpgm), ehcs |-> Pointer("ehcs", r.ehcs),
                  relocs |-> relocsOn(<<"insn", r.id>>), data |-> r.data]
      icfs(r) == [id |-> r.id, status |-> r.status,
                  targets |-> UNION {InsnAtAddress(t, m.addr) :
                                       m \in {q \in t.map : q.icfs = r.id}}]
      scoop(r) == [id |-> r.id, start |-> <<"addr", r.start>>, end |-> <<"addr", r.end>>,
                   perms |-> r.perms, relocs |-> relocsOn(<<"scoop", r.id>>),
                   contents |-> ReadContents(r.data) \o ReadContents(r.part2)]
      ehpgm(r) == [id |-> r.id, pgm |-> r.pgm, relocs |-> relocsOn(<<"ehpgm", r.id>>)]
      ehcs(r) == [id |-> r.id, lp |-> InsnAt(t, r.lp), relocs |-> relocsOn(<<"ehcs", r.id>>)]
      reloc(r) == [id |-> r.id, offset |-> r.offset, addend |-> r.addend, type |-> r.type,
                   wrt |-> ObjAt(t, r.wrt)]
      addr(r) == r
  IN Objects("func", t.func, func) @@ Objects("addr", t.addr, addr)
     @@ Objects("insn", t.insn, insn) @@ Objects("icfs", t.icfs, icfs)
     @@ Objects("scoop", t.scoop, scoop) @@ Objects("ehpgm", t.ehpgm, ehpgm)
     @@ Objects("ehcs", t.ehcs, ehcs) @@ Objects("reloc", t.reloc, reloc)

\* assert(scoop->getContents().size() == scoop->getSize())
ContentsRead(t) ==
  \A r \in t.scoop : \A a, b \in t.addr :
    a.id = r.start /\ b.id = r.end =>
      Len(ReadContents(r.data)) + Len(ReadContents(r.part2)) = b.vo - a.vo + 1

\* The lookups and asserts of ReadFromDB.  A missing entry point is looked up under -1,
\* which is in the map once an instruction without a fallthrough or target was looked at.
Readable(t) ==
  LET none == \E r \in t.insn : NOT_IN_DATABASE \in {r.ft, r.targ}
  IN /\ \A r \in t.insn :
          /\ r.addr \in Ids(t.addr)
          /\ r.func \in {NOT_IN_DATABASE} \cup Ids(t.func)
          /\ r.icfs \in {NOT_IN_DATABASE} \cup Ids(t.icfs)
          /\ r.ind \in {NOT_IN_DATABASE} \cup Ids(t.addr)
          /\ r.ehpgm \in {NOT_IN_DATABASE} \cup Ids(t.ehpgm)
          /\ r.ehcs \in {NOT_IN_DATABASE} \cup Ids(t.ehcs)
     /\ \A r \in t.func : r.entry \in Ids(t.insn) \/ (r.entry = NOT_IN_DATABASE /\ none)
     /\ \A r \in t.ehcs : r.lp \in {NOT_IN_DATABASE} \cup Ids(t.insn)
     /\ \A r \in t.reloc : ObjAt(t, r.on) # Null
     /\ ContentsRead(t)

-----------------------------------------------------------------------------
(* What the program is, whatever was inserted into it and however its data *)
(* is cut into scoops.                                                     *)

View(h, registry) ==
  LET insns == Of(h, "insn")
      code(p) == IF p \in DOMAIN registry THEN registry[p] ELSE h[p].data
      \* the program's instruction that control reaches from p
      lands(p) ==
        LET walk[n \in 0 .. Cardinality(insns)] ==
              IF n = 0 THEN p
              ELSE IF walk[n - 1] # Null /\ code(walk[n - 1]) \in {Plain, Jump}
                   THEN h[walk[n - 1]].ft ELSE walk[n - 1]
            last == walk[Cardinality(insns)]
        IN IF last = Null THEN "nowhere" ELSE code(last)
      refers(r) ==
        LET w == h[r].wrt
        IN CASE w[1] = "scoop" -> <<"data", Start(h, w) + h[r].addend>>
             [] w[1] = "insn" -> <<lands(w), h[r].addend>>
             [] OTHER -> <<"nothing", h[r].addend>>
      relocs(p, base) == {<<h[r].type, base + h[r].offset, refers(r)>> :
                            r \in {q \in h[p].relocs : h[q].type # "added"}}
      targets(i) == IF h[i].icfs = Null THEN <<"none", {}>>
                    ELSE <<h[h[i].icfs].status, {lands(j) : j \in h[h[i].icfs].targets}>>
      pad(i) == IF h[i].ehcs = Null THEN "none" ELSE lands(h[h[i].ehcs].lp)
      unwind(i) == IF h[i].ehpgm = Null THEN "none" ELSE h[h[i].ehpgm].pgm
      shown(i) == [code |-> code(i), ft |-> lands(h[i].ft), targ |-> lands(h[i].targ),
                   func |-> lands(h[h[i].func].entry), orig |-> h[i].orig,
                   relocs |-> relocs(i, 0), targets |-> targets(i), pad |-> pad(i),
                   unwind |-> unwind(i)]
      own == {i \in insns : code(i) \notin {Plain, Jump}}
  IN [insns |-> {shown(i) : i \in own},
      size |-> Cardinality(own),
      pins |-> {<<h[h[i].ind].vo, lands(i)>> : i \in {j \in insns : h[j].ind # Null}},
      data |-> UNION {{<<Start(h, s) + k - 1, h[s].contents[k], h[s].perms>> :
                         k \in DOMAIN h[s].contents} : s \in Of(h, "scoop")},
      pointers |-> UNION {relocs(s, Start(h, s)) : s \in Of(h, "scoop")}]

-----------------------------------------------------------------------------
(* A chain of tools: each edits what is in memory; it is written; the next *)
(* goes on with it or reads the rows again, as it does after a failure.    *)

Init ==
  /\ heap \in Programs
  /\ assembly_registry = NoAssembly
  /\ max_id = 0
  /\ tables = << >>
  /\ clean = FALSE
  /\ program = View(heap, NoAssembly)
  /\ edits = 0
  /\ writes = 0

Edited == /\ edits < MaxEdits
          /\ edits' = edits + 1
          /\ clean' = FALSE
          /\ UNCHANGED <<tables, program, writes>>

\* Bound: inserted jumps and new relocations are to the entry points of functions.
Entries == {heap[f].entry : f \in Of(heap, "func")} \ {Null}

Insert ==
  /\ Edited
  /\ \E i \in Of(heap, "insn"), target \in {Null} \cup Entries, asm \in BOOLEAN :
       \/ InsertBefore(i, target, asm)
       \/ heap[i].ft # Null /\ InsertAfter(i, target, asm)
  /\ UNCHANGED max_id

\* An analysis finds the targets of an indirect branch again.
Analyse ==
  /\ Edited
  /\ \E i \in {j \in Of(heap, "insn") : heap[j].icfs # Null} :
       addNewICFS(i, heap[heap[i].icfs].targets, heap[heap[i].icfs].status)
  /\ UNCHANGED <<assembly_registry, max_id>>

addNewRelocation ==
  /\ Edited
  /\ \E on, wrt \in Entries \cup Of(heap, "scoop") :
       LET r == New(heap, "reloc", 1)
       IN heap' = (r :> [id |-> NOT_IN_DATABASE, offset |-> 0, addend |-> 0,
                         type |-> "added", wrt |-> wrt])
                    @@ [heap EXCEPT ![on].relocs = @ \cup {r}]
  /\ UNCHANGED <<assembly_registry, max_id>>

\* A row whose size is a multiple of the chunk's does not read back (ScoopsReadBack): left
\* out unless FullChunks.
Chunked(h) ==
  FullChunks \/ \A s \in Of(h, "scoop") :
    LET row == ScoopRow(h, s)
    IN \A d \in {row.data, row.part2} : d = << >> \/ Len(d) % SCOOP_CHUNK_SIZE # 0

\* move_globals splits a scoop around a symbol that lies in it.
SplitGlobals ==
  /\ Edited
  /\ \E s \in Of(heap, "scoop") : \E size \in 1 .. Len(heap[s].contents) :
     \E at \in 0 .. Len(heap[s].contents) - size :
       splitScoop(s, Start(heap, s) + at, size)
  /\ Chunked(heap')
  /\ UNCHANGED assembly_registry

Write ==
  /\ writes < MaxWrites
  /\ writes' = writes + 1
  /\ clean' = TRUE
  /\ max_id' = 0
  /\ writeToDB
  /\ UNCHANGED <<program, edits>>

Read ==
  /\ writes > 0
  /\ heap' = ReadFromDB(tables)
  /\ assembly_registry' = NoAssembly
  /\ max_id' = 0
  /\ clean' = TRUE
  /\ UNCHANGED <<tables, program, edits, writes>>

Next == Insert \/ Analyse \/ addNewRelocation \/ SplitGlobals \/ Write \/ Read

Spec == Init /\ [][Next]_vars

-----------------------------------------------------------------------------
(* Properties.                                                             *)

\* The objects of the heap, each called by its kind and id.
Named(h) ==
  LET name(p) == IF p = Null THEN Null ELSE <<p[1], h[p].id>>
      single == {"addr", "func", "ft", "targ", "icfs", "ind", "ehpgm", "ehcs", "entry",
                 "start", "end", "wrt", "lp"}
      several == {"relocs", "insns", "targets"}
      named(o) == [f \in DOMAIN o |-> CASE f \in single -> name(o[f])
                                       [] f \in several -> {name(p) : p \in o[f]}
                                       [] OTHER -> o[f]]
  IN [n \in {name(p) : p \in DOMAIN h} |->
        named(h[CHOOSE p \in DOMAIN h : name(p) = n])]

\* What the rows read back as is what was in memory when they were written: the same
\* objects, and every reference to the object it was to (writeToDB, ReadFromDB).  For
\* that every object has an id no other object has, of whatever kind ("assign each item
\* a unique ID", fileir.cpp:644), also past the ids a split gave out; and no two
\* instructions are at one address, through which the targets of a set are found again.
ReadsBack ==
  clean =>
    /\ \A p, q \in DOMAIN heap : heap[p].id = heap[q].id => p = q
    /\ \A p \in DOMAIN heap : heap[p].id > 0
    /\ \A i, j \in Of(heap, "insn") : heap[i].addr = heap[j].addr => i = j
    /\ ReadFromDB(tables) = Named(heap)

\* Insertions, splits, writes and reads leave the program what the analyses built: every
\* instruction once, behind it and at its targets the same program instructions, with
\* its relocations, handlers, indirect targets and original address; pins and entry
\* points where they were; every byte of data, and every pointer into it, the same.
ProgramKept == View(heap, assembly_registry) = program

\* The asserts and lookups of writeToDB and ReadFromDB do not fail, whenever they run:
\* an instruction inserted before one that falls through to nothing does not keep its
\* original address, but has a successor (fileir.cpp:728).
AssertsHold ==
  /\ Writable(assembleRegistry(heap))
  /\ writes > 0 => Readable(tables)

\* The contents read for a scoop are as long as the scoop, the assert of fileir.cpp:1544,
\* whatever the size a tool cut it to.
ScoopsReadBack == writes > 0 => ContentsRead(tables)
=============================================================================
