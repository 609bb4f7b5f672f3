------------------------------- MODULE ElfWriter -------------------------------
(***************************************************************************)
(* ElfWriter: the output file.  CreatePagemap lays the scoops out in       *)
(* pages, CreateSegmap joins the pages into load segments, CreateNewPhdrs  *)
(* looks for a place in memory and in the file for the program headers,    *)
(* which are more than the input had, WriteElf writes segments, ELF header *)
(* and program headers in that order over each other, and AddSections adds *)
(* section headers.                                                        *)
(*                                                                         *)
(* A byte of a page is its own address when a scoop gave it a value and 0  *)
(* when it is zero.  Addresses and file offsets are the program's; sizes   *)
(* of pages and headers are constants.                                     *)
(***************************************************************************)
EXTENDS Integers, Sequences, FiniteSets, SequencesExt, FiniteSetsExt, Functions

CONSTANTS PAGE_SIZE,   \* 4096
          EhdrSize, PhdrSize,
          Binaries     \* the programs: scoops, original program headers, options

VARIABLES bin, pagemap, segvec, new_phdrs, e_phoff, file, file_positions, pc

vars == <<bin, pagemap, segvec, new_phdrs, e_phoff, file, file_positions, pc>>

Fill == -1                   \* 0xf4, what PreAllocate puts under the headers
EhdrByte == -2
PhdrByte(k) == -2 - k        \* a byte of the k-th program header

page_align(a) == a - (a % PAGE_SIZE)
page_round_up(a) == page_align(a + PAGE_SIZE - 1)

BytesIn(s) == s.start .. s.end
min_addr == Min({s.start : s \in bin.scoops})
max_addr == Max({s.end : s \in bin.scoops})

Init ==
    /\ bin \in Binaries
    /\ pagemap = <<>> /\ segvec = <<>> /\ new_phdrs = <<>> /\ file = <<>>
    /\ file_positions = <<>> /\ e_phoff = 0
    /\ pc = "pagemap"

-----------------------------------------------------------------------------
(* CreatePagemap.  A .tbss, which shares its addresses with what follows,  *)
(* is left out here, though not in min_addr, max_addr and AddSections.     *)
InPages == {s \in bin.scoops : s.name # ".tbss"}
PagesOf(s) == {p \in page_align(s.start) .. s.end : p % PAGE_SIZE = 0}
ContentAt(a) == IF \E s \in InPages : a \in BytesIn(s) /\ ~ s.zero THEN a ELSE 0

CreatePagemap ==
    /\ pc = "pagemap" /\ pc' = "segmap"
    /\ pagemap' =
          [p \in UNION {PagesOf(s) : s \in InPages} |->
              [perms |-> UNION {s.perms : s \in {t \in InPages : p \in PagesOf(t)}},
               data  |-> [j \in 0 .. PAGE_SIZE - 1 |-> ContentAt(p + j)],
               inuse |-> {a \in p .. p + PAGE_SIZE - 1 :
                             \E s \in InPages : a \in BytesIn(s)}]]
    /\ UNCHANGED <<bin, segvec, new_phdrs, e_phoff, file, file_positions>>

(* CreateSegmap: adjacent pages of the same permissions are one segment.   *)
(* With bss_opts the zero pages at its end are not in the file.            *)
should_bss_optimize(p) == bin.bss_opts /\ \A j \in DOMAIN pagemap[p].data : pagemap[p].data[j] = 0

\* A mistake: the permissions of the first page are those of the segment.
StartsSegment_AnyPerms(p) == p - PAGE_SIZE \notin DOMAIN pagemap

StartsSegment(p) ==
    \/ p - PAGE_SIZE \notin DOMAIN pagemap
    \/ pagemap[p - PAGE_SIZE].perms # pagemap[p].perms

LoadSegment(start) ==
    LET next  == {p \in DOMAIN pagemap : p > start /\ StartsSegment(p)}
        pages == {p \in DOMAIN pagemap : p >= start /\ \A q \in next : p < q}
        init  == {p + PAGE_SIZE : p \in {q \in pages : ~ should_bss_optimize(q)}}
    IN  [start_page |-> start, perms |-> pagemap[start].perms,
         memsz  |-> Max(pages) + PAGE_SIZE - start,
         filesz |-> Max(init \cup {start}) - start]

CreateSegmap ==
    /\ pc = "segmap" /\ pc' = "phdrs"
    /\ segvec' = LET starts == SetToSortSeq({p \in DOMAIN pagemap : StartsSegment(p)}, <)
                 IN  [k \in 1 .. Len(starts) |-> LoadSegment(starts[k])]
    /\ UNCHANGED <<bin, pagemap, new_phdrs, e_phoff, file, file_positions>>

-----------------------------------------------------------------------------
(* Where the program headers go.                                           *)

(* "each entry in the segvec may need a relro header", one PT_PHDR, and "a *)
(* possible PT_LOAD section to load the phdr".                             *)
DetermineMaxPhdrSize ==
    PhdrSize * (Len(SelectSeq(bin.phdrs, LAMBDA h : h.type \notin {"LOAD", "PHDR"}))
                + 2 * Len(segvec) + 2)
total_header_size == DetermineMaxPhdrSize + EhdrSize

(* A page that is not allocated yet is free.                               *)
readonly_space_at(a, n) ==
    \A b \in a .. a + n - 1 :
        page_align(b) \in DOMAIN pagemap =>
            /\ b \notin pagemap[page_align(b)].inuse
            /\ "w" \notin pagemap[page_align(b)].perms

\* A mistake: the bss of an earlier segment is overlooked.
locate_segment_index_InMemory(a) ==
    LET found == {i \in 1 .. Len(segvec) :
                     segvec[i].start_page <= a /\ a < segvec[i].start_page + segvec[i].filesz}
    IN  IF found = {} THEN 0 ELSE Min(found)

(* The segment a byte of the file is in; none, 0 here, from the first      *)
(* segment on that is not wholly in the file.                              *)
locate_segment_index(a) ==
    LET found == {i \in 1 .. Len(segvec) :
                     /\ segvec[i].start_page <= a
                     /\ a < segvec[i].start_page + segvec[i].filesz
                     /\ \A j \in 1 .. i : segvec[j].filesz = segvec[j].memsz}
    IN  IF found = {} THEN 0 ELSE Min(found)

FileSizeUpTo(k) == FoldFunctionOnSet(LAMBDA s, n : s.filesz + n, 0, segvec, 1 .. k)
count_filesz_to_seg(k) == FileSizeUpTo(k - 1)

Header(type, perms, offset, vaddr, filesz, memsz) ==
    [type |-> type, perms |-> perms, offset |-> offset, vaddr |-> vaddr,
     filesz |-> filesz, memsz |-> memsz]

(* update_phdr_for_scoop_sections: a header for a section is moved to the  *)
(* scoop of its name.  The loop over the headers that hold its address     *)
(* meets the header itself too, and the last one wins.                     *)
SectionName == [INTERP |-> ".interp", DYNAMIC |-> ".dynamic", NOTE |-> ".note.ABI-tag",
                GNU_EH_FRAME |-> ".eh_frame_hdr"]

MoveToScoop(headers, i) ==
    LET h      == headers[i]
        scoops == IF h.type \in DOMAIN SectionName
                  THEN {s \in bin.scoops : s.name = SectionName[h.type]} ELSE {}
        scoop  == CHOOSE s \in scoops : TRUE
        holds  == {j \in DOMAIN headers \ {i} :
                      /\ headers[j].vaddr <= scoop.start
                      /\ scoop.start < headers[j].vaddr + headers[j].filesz}
        offset == IF holds = {} THEN 0
                  ELSE headers[Max(holds)].offset + scoop.start - headers[Max(holds)].vaddr
        size   == scoop.end - scoop.start + 1
    IN  IF scoops = {} THEN headers
        ELSE [headers EXCEPT ![i] = Header(h.type, h.perms, offset, scoop.start, size, size)]

update_phdr_for_scoop_sections(headers) ==
    FoldLeft(MoveToScoop, headers, [i \in DOMAIN headers |-> i])

(* CreateNewPhdrs_internal: one PT_LOAD for each segment, with the file    *)
(* offsets running on; then the original headers but those made anew; in   *)
(* front a PT_LOAD for the headers, if they got a page of their own, and   *)
(* PT_PHDR.                                                                *)
LoadHeaders(segments, first_seg_file_offset) ==
    [k \in DOMAIN segments |->
        Header("LOAD", segments[k].perms,
               first_seg_file_offset
                   + FoldFunctionOnSet(LAMBDA s, n : s.filesz + n, 0, segments, 1 .. k - 1),
               segments[k].start_page, segments[k].filesz, segments[k].memsz)]

Kept(loads) ==
    LET old == SelectSeq(bin.phdrs, LAMBDA h : h.type \notin {"LOAD", "PHDR", "RELRO"})
        within(h) == {j \in DOMAIN loads : loads[j].vaddr <= h.vaddr
                                           /\ h.vaddr <= loads[j].vaddr + loads[j].filesz}
    IN  [k \in DOMAIN old |->
            IF within(old[k]) = {} THEN old[k]
            ELSE LET l == loads[Min(within(old[k]))]
                 IN  [old[k] EXCEPT !.offset = l.offset + old[k].vaddr - l.vaddr]]

HeaderPages(vaddr, n) ==
    LET size == page_round_up((n + 1) * PhdrSize)
    IN  Header("LOAD", {"r"}, 0, page_align(vaddr), size, size)

CreateNewPhdrs_internal(segments, pages, first_seg_file_offset, add_pt_load_for_phdr, phdr_map_offset, new_phdr_addr) ==
    LET loads == LoadHeaders(segments, first_seg_file_offset)
        body  == loads \o Kept(loads)
        front == IF add_pt_load_for_phdr
                 THEN <<HeaderPages(new_phdr_addr, Len(body))>> ELSE <<>>
        n     == Len(front \o body) + 1
        all   == <<Header("PHDR", {"r"}, phdr_map_offset, new_phdr_addr, n * PhdrSize,
                          n * PhdrSize)>> \o front \o body
        \* The permissions given to these pages in the map are garbage, which
        \* nothing reads any more.
        filled == UNION {{p \in front[1].vaddr .. front[1].vaddr + front[1].memsz - 1 :
                             p % PAGE_SIZE = 0} : k \in DOMAIN front}
        moved == update_phdr_for_scoop_sections(all)
    IN  /\ new_phdrs' = moved
        /\ e_phoff' = phdr_map_offset
        /\ segvec' = segments
        /\ pagemap' = [p \in filled |->
                          [perms |-> {"r"}, data |-> [j \in 0 .. PAGE_SIZE - 1 |-> Fill],
                           inuse |-> p .. p + PAGE_SIZE - 1]] @@ pages
        /\ pc' = IF \E h \in Range(moved) : \E s \in bin.scoops :
                        h.type \in DOMAIN SectionName /\ s.name = SectionName[h.type] /\ h.offset = 0
                 THEN "aborted" ELSE "write"
        /\ UNCHANGED <<bin, file, file_positions>>

(* GapAllocate: unused read-only bytes right behind a byte of a segment.   *)
(* Where they run off its end it grows, at most up to the next segment.    *)
GapAddr == LET gaps == {i \in min_addr .. max_addr - 1 :
                           readonly_space_at(i, DetermineMaxPhdrSize)}
           IN  IF gaps = {} THEN 0 ELSE Min(gaps)

CanGapAllocate(addr) ==
    /\ page_align(min_addr) + EhdrSize < min_addr
    /\ locate_segment_index(addr - 1) # 0

Crossing(addr, seg) ==
    {b \in addr .. addr + DetermineMaxPhdrSize - 1 : locate_segment_index(b) \notin {0, seg}}

pages_to_extend(addr, seg) ==
    Cardinality({b \in addr .. addr + DetermineMaxPhdrSize - 1 :
                    /\ b = page_align(b) /\ locate_segment_index(b) = 0
                    /\ \A c \in Crossing(addr, seg) : b < c})

CreateNewPhdrs_GapAllocate ==
    /\ pc = "phdrs"
    /\ \E addr \in {GapAddr} :
        /\ CanGapAllocate(addr)
        /\ LET seg   == locate_segment_index(addr - 1)
               grown == PAGE_SIZE * pages_to_extend(addr, seg)
               cross == Crossing(addr, seg)
               bytes == addr .. addr + DetermineMaxPhdrSize - 1
               zero  == [perms |-> {}, inuse |-> {}, data |-> [j \in 0 .. PAGE_SIZE - 1 |-> 0]]
               mark(p) == LET page == IF p \in DOMAIN pagemap THEN pagemap[p] ELSE zero
                          IN  [page EXCEPT !.perms = @ \cup {"r"},
                                           !.inuse = @ \cup {b \in bytes : page_align(b) = p}]
               pages == [p \in {page_align(b) : b \in bytes} |-> mark(p)] @@ pagemap
               segs  == [segvec EXCEPT ![seg].filesz = @ + grown, ![seg].memsz = @ + grown]
           IN  IF cross # {} /\ \E b \in bytes : b > Min(cross) /\ locate_segment_index(b)
                                                                    # locate_segment_index(Min(cross))
               THEN pc' = "aborted" /\ UNCHANGED <<bin, pagemap, segvec, new_phdrs, e_phoff,
                                                   file, file_positions>>
               ELSE CreateNewPhdrs_internal(segs, pages, 0, FALSE,
                        count_filesz_to_seg(seg) + addr - segvec[seg].start_page, addr)

(* FirstPageAllocate: the unused bytes before the first scoop.             *)
CanFirstPageAllocate == page_align(min_addr) + total_header_size < min_addr
CreateNewPhdrs_FirstPageAllocate ==
    /\ pc = "phdrs" /\ ~ CanGapAllocate(GapAddr)
    /\ CanFirstPageAllocate
    /\ CreateNewPhdrs_internal(segvec, pagemap, 0, FALSE, EhdrSize,
                               page_align(min_addr) + EhdrSize)

(* PreAllocate: a page before the first scoop's.  When that is not         *)
(* possible either, the program stops: "cannot find a place in the program *)
(* for the PHDRS".                                                         *)
CanPreAllocate == total_header_size <= min_addr
CreateNewPhdrs_PreAllocate ==
    /\ pc = "phdrs" /\ ~ CanGapAllocate(GapAddr) /\ ~ CanFirstPageAllocate
    /\ CanPreAllocate
    /\ CreateNewPhdrs_internal(segvec, pagemap, page_round_up(DetermineMaxPhdrSize), TRUE,
                               EhdrSize, page_align(min_addr) - PAGE_SIZE + EhdrSize)

NoPlaceForPhdrs ==
    /\ pc = "phdrs" /\ ~ CanGapAllocate(GapAddr) /\ ~ CanFirstPageAllocate
    /\ ~ CanPreAllocate
    /\ pc' = "no place"
    /\ UNCHANGED <<bin, pagemap, segvec, new_phdrs, e_phoff, file, file_positions>>

-----------------------------------------------------------------------------
(* WriteElf: the segments, then the ELF header, then the program headers,  *)
(* each over what was written before.                                      *)
Loads == {h \in Range(new_phdrs) : h.type = "LOAD"}
InFile(h) == h.offset .. h.offset + h.filesz - 1

FileByte(o) ==
    LET table == {k \in DOMAIN new_phdrs : /\ e_phoff + (k - 1) * PhdrSize <= o
                                           /\ o < e_phoff + k * PhdrSize}
        loads == {k \in DOMAIN new_phdrs : new_phdrs[k].type = "LOAD" /\ o \in InFile(new_phdrs[k])}
        addr  == new_phdrs[Max(loads)].vaddr + o - new_phdrs[Max(loads)].offset
    IN  IF table # {} THEN PhdrByte(Max(table))
        ELSE IF o < EhdrSize THEN EhdrByte
        ELSE IF loads = {} THEN 0
        ELSE pagemap[page_align(addr)].data[addr % PAGE_SIZE]

WriteElf ==
    /\ pc = "write" /\ pc' = "sections"
    /\ file' = [o \in 0 .. Max({e_phoff + Len(new_phdrs) * PhdrSize - 1}
                                \cup UNION {InFile(h) : h \in Loads}) |-> FileByte(o)]
    /\ UNCHANGED <<bin, pagemap, segvec, new_phdrs, e_phoff, file_positions>>

(* AddSections: the first header whose memory holds the start of a scoop,  *)
(* which must be there, says where the scoop is in the file.               *)
HeadersAt(a) == {k \in DOMAIN new_phdrs : /\ new_phdrs[k].vaddr <= a
                                          /\ a < new_phdrs[k].vaddr + new_phdrs[k].memsz}

\* A mistake: the offset in the segment is left out.
FilePosition_OfHeader(s) == new_phdrs[Min(HeadersAt(s.start))].offset

FilePosition(s) ==
    LET h == new_phdrs[Min(HeadersAt(s.start))] IN h.offset + s.start - h.vaddr

AddSections ==
    /\ pc = "sections"
    /\ IF \E s \in bin.scoops : HeadersAt(s.start) = {}
       THEN pc' = "aborted" /\ UNCHANGED file_positions
       ELSE pc' = "done" /\ file_positions' = [s \in bin.scoops |-> FilePosition(s)]
    /\ UNCHANGED <<bin, pagemap, segvec, new_phdrs, e_phoff, file>>

Next ==
    \/ CreatePagemap \/ CreateSegmap
    \/ CreateNewPhdrs_GapAllocate \/ CreateNewPhdrs_FirstPageAllocate
    \/ CreateNewPhdrs_PreAllocate \/ NoPlaceForPhdrs
    \/ WriteElf \/ AddSections

Spec == Init /\ [][Next]_vars

-----------------------------------------------------------------------------
(* What the loader makes of the file: every PT_LOAD is mapped, its bytes   *)
(* from the file and zeros behind them.                                    *)
Holders(a) == {h \in Loads : h.vaddr <= a /\ a < h.vaddr + h.memsz}
Image(a) ==
    LET h == CHOOSE x \in Holders(a) : TRUE
        o == h.offset + a - h.vaddr
    IN  IF a < h.vaddr + h.filesz /\ o \in DOMAIN file THEN file[o] ELSE 0

(* ScoopsLoaded: every byte of every scoop but .tbss is mapped once, with  *)
(* its value and at least its permissions: not overwritten by the headers, *)
(* which go into unused bytes, nor by another segment, when segments       *)
(* share, skip or leave out pages of the file or grow for the headers, and *)
(* a .tbss begins in one of them.  PT_LOADs ascend.                        *)
ScoopsLoaded ==
    /\ pc # "aborted"
    /\ pc = "done" =>
        /\ \A s \in InPages : \A a \in BytesIn(s) :
              /\ Cardinality(Holders(a)) = 1
              /\ \A h \in Holders(a) : s.perms \subseteq h.perms
              /\ Image(a) = ContentAt(a)
        /\ \A i, j \in DOMAIN new_phdrs :
              i < j /\ new_phdrs[i].type = "LOAD" /\ new_phdrs[j].type = "LOAD"
                => new_phdrs[i].vaddr + new_phdrs[i].memsz <= new_phdrs[j].vaddr

(* HeadersLoaded: "we need the PHDR file offset to be equal to the memory  *)
(* offset because the kernel passes base_address+Ehdr::ph_off": the        *)
(* address the kernel passes, the first segment's plus e_phoff, is that of *)
(* PT_PHDR, and all the program headers are in memory there, readable.     *)
KernelPhdr == LET first == CHOOSE h \in Loads : \A g \in Loads : h.vaddr <= g.vaddr
              IN  first.vaddr - first.offset + e_phoff
HeadersLoaded ==
    pc = "done" =>
        /\ file[0] = EhdrByte
        /\ \A h \in Range(new_phdrs) : h.type = "PHDR" => h.vaddr = KernelPhdr
        /\ \A k \in DOMAIN new_phdrs : \A b \in 0 .. PhdrSize - 1 :
              LET a == KernelPhdr + (k - 1) * PhdrSize + b
              IN  /\ \E h \in Holders(a) : "r" \in h.perms
                  /\ Image(a) = PhdrByte(k)

(* SectionsFound: a debugger or the dynamic linker that goes by a section  *)
(* header, or by the program header of a section, finds the bytes of the   *)
(* scoop in the file (but those of a bss, which are not there).            *)
SectionsFound ==
    pc = "done" =>
        /\ \A s \in bin.scoops : ~ s.zero =>
              \A a \in BytesIn(s) : file[file_positions[s] + a - s.start] = a
        /\ \A h \in Range(new_phdrs) : \A s \in bin.scoops :
              h.type \in DOMAIN SectionName /\ s.name = SectionName[h.type] =>
                  h.vaddr = s.start /\ h.offset = file_positions[s]

===============================================================================
