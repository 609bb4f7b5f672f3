------------------------------ MODULE MCElfWriter ------------------------------
(* Small programs for ElfWriter: two or three scoops, the first readable   *)
(* and not zero, with each scoop right behind the one before, on the next  *)
(* page or further on.  The program headers fit into a page, and a program *)
(* whose first scoop is on page 0 has no room for them before it.  A .tbss *)
(* begins where a writable scoop does, and may end behind it.              *)
EXTENDS ElfWriter

CONSTANTS Starts,   \* of the first scoop
          Sizes

\* The next scoop is this many pages on, at this offset.
Gaps == {[page |-> p, offset |-> 0] : p \in 0 .. 3} \cup {[page |-> 1, offset |-> 5]}

Scoop(s, n, k) ==
    [start |-> s, end |-> s + n - 1, name |-> k.name, perms |-> k.perms, zero |-> k.zero]
Text == [name |-> "text", perms |-> {"r", "x"}, zero |-> FALSE]
Note == [name |-> ".note.ABI-tag", perms |-> {"r"}, zero |-> FALSE]
Rodata == [name |-> "rodata", perms |-> {"r"}, zero |-> FALSE]
Data == [name |-> "data", perms |-> {"r", "w"}, zero |-> FALSE]
Bss  == [name |-> "bss", perms |-> {"r", "w"}, zero |-> TRUE]

\* Behind byte e: the byte after it, or one on the gap-th page after its page.
After(e, g) == IF g.page = 0 THEN e + 1 + g.offset
               ELSE page_align(e) + g.page * PAGE_SIZE + g.offset

Second(s, k) == {Scoop(After(s.end, g), n, k) : g \in Gaps, n \in Sizes}
\* A fourth scoop, two pages on, where the headers may have to go behind a bss.
Fourth(b, c) == IF b.zero /\ c.name = "text"
                THEN {Scoop(After(c.end, [page |-> 2, offset |-> 0]), 3, Rodata)} ELSE {}
NoTbss ==
    UNION {{{a, b}} \cup UNION {{{a, b, c} \cup Fourth(b, c) : c \in Second(b, k)} :
                                  k \in {Text, Data, Bss}} :
              <<a, b>> \in UNION {UNION {{a} \X Second(a, k) : k \in {Rodata, Text, Data, Bss}} :
                                     a \in {Scoop(s, n, Note) : s \in Starts, n \in Sizes}}}

Tbss == [name |-> ".tbss", perms |-> {"r", "w"}, zero |-> TRUE]
ScoopSets ==
    NoTbss \cup UNION {{S \cup {Scoop(s.start, Max(Sizes), Tbss)} :
                           s \in {t \in S : t.name = "data"}} : S \in NoTbss}

OldPhdr(type, vaddr) == Header(type, {"r"}, 0, vaddr, 0, 0)
MCBinaries ==
    {[scoops |-> S, phdrs |-> p, bss_opts |-> o] :
        S \in ScoopSets, o \in BOOLEAN,
        p \in {<<OldPhdr("PHDR", 1), OldPhdr("LOAD", 0), OldPhdr("RELRO", 5)>>,
               <<OldPhdr("LOAD", 0), OldPhdr("NOTE", 3), OldPhdr("STACK", 0)>>}}
===============================================================================
