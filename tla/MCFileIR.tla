------------------------------ MODULE MCFileIR ------------------------------
(* Two small programs for FileIR: one of four instructions, one with data. *)
EXTENDS FileIR

Insn(addr, fields) ==
  fields @@ [id |-> -1, addr |-> <<"addr", addr>>, func |-> <<"func", 1>>, orig |-> addr,
             ft |-> Null, targ |-> Null, icfs |-> Null, ind |-> Null, ehpgm |-> Null,
             ehcs |-> Null, relocs |-> {}]

\* test; jcc test; jmp *reg; hlt: the jump and the hlt are pinned, the jump reaches both of
\* its targets through either of two sets, and test is in a try block hlt catches.
Flow ==
  [p \in {<<"addr", k>> : k \in 1 .. 4} |-> [id |-> -1, vo |-> 10 * p[2]]]
  @@ <<"func", 1>> :> [id |-> -1, entry |-> <<"insn", 1>>,
                       insns |-> {<<"insn", k>> : k \in 1 .. 4}]
  @@ <<"func", 2>> :> [id |-> -1, entry |-> Null, insns |-> {}]
  @@ <<"insn", 1>> :> Insn(1, [data |-> "test", ft |-> <<"insn", 2>>,
                               ehcs |-> <<"ehcs", 1>>, ehpgm |-> <<"ehpgm", 1>>,
                               relocs |-> {<<"reloc", 1>>}])
  @@ <<"insn", 2>> :> Insn(2, [data |-> "jcc", ft |-> <<"insn", 3>>, targ |-> <<"insn", 1>>,
                               ehpgm |-> <<"ehpgm", 1>>])
  @@ <<"insn", 3>> :> Insn(3, [data |-> "jmpreg", icfs |-> <<"icfs", 1>>,
                               ind |-> <<"addr", 3>>])
  @@ <<"insn", 4>> :> Insn(4, [data |-> "hlt", icfs |-> <<"icfs", 2>>,
                               ind |-> <<"addr", 4>>])
  @@ [p \in {<<"icfs", 1>>, <<"icfs", 2>>} |->
        [id |-> -1, status |-> "module", targets |-> {<<"insn", 3>>, <<"insn", 4>>}]]
  @@ <<"ehcs", 1>> :> [id |-> -1, lp |-> <<"insn", 4>>, relocs |-> {}]
  @@ <<"ehpgm", 1>> :> [id |-> -1, pgm |-> "cfa", relocs |-> {}]
  @@ <<"reloc", 1>> :> [id |-> -1, offset |-> 2, addend |-> 0, type |-> "pcrel",
                        wrt |-> <<"insn", 3>>]

\* One instruction and five bytes of data: pointers from either into the data.
Data ==
  <<"addr", 1>> :> [id |-> -1, vo |-> 10]
  @@ <<"addr", 2>> :> [id |-> -1, vo |-> 20]
  @@ <<"addr", 3>> :> [id |-> -1, vo |-> 24]
  @@ <<"func", 1>> :> [id |-> -1, entry |-> <<"insn", 1>>, insns |-> {<<"insn", 1>>}]
  @@ <<"insn", 1>> :> Insn(1, [data |-> "hlt", relocs |-> {<<"reloc", 1>>}])
  @@ <<"scoop", 1>> :> [id |-> -1, start |-> <<"addr", 2>>, end |-> <<"addr", 3>>,
                        perms |-> 6, contents |-> <<11, 12, 13, 14, 15>>,
                        relocs |-> {<<"reloc", 2>>}]
  @@ <<"reloc", 1>> :> [id |-> -1, offset |-> 0, addend |-> 3, type |-> "pcrel",
                        wrt |-> <<"scoop", 1>>]
  @@ <<"reloc", 2>> :> [id |-> -1, offset |-> 2, addend |-> 1, type |-> "dataptr",
                        wrt |-> <<"scoop", 1>>]

MCPrograms == {Flow, Data}
=============================================================================
