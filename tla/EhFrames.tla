------------------------------- MODULE EhFrames -------------------------------
(***************************************************************************)
(* EhFrames: the unwind and exception tables of an ELF program, from input *)
(* to output.  split_eh_frame turns the tables of the input into a program *)
(* and a call site for each instruction; the instructions get their new    *)
(* addresses; ehwrite builds new tables from the instructions in the order *)
(* of these addresses.                                                     *)
(*                                                                         *)
(* An operation of a CFA program is a record: an advance of n code         *)
(* alignment units, an offset (def_cfa_offset) or a save of a register, or *)
(* remember, restore and nop.  The type a call site catches is a           *)
(* relocation at its offset in the type table, with a null pointer for a   *)
(* catch-all.  The parser of the input's tables and the unwinder that uses *)
(* the output's are outside the program.                                   *)
(***************************************************************************)
EXTENDS Integers, Sequences, FiniteSets, SequencesExt, FiniteSetsExt, Functions

CONSTANTS Insns,            \* instructions, named by their original address
          Size,             \* of each instruction
          Tables,           \* the tables an input may have
          Layouts,          \* functions from Insns to new addresses
          new_fde_thresh,   \* 100
          None

VARIABLES tables,           \* the input's tables: a set of FDEs
          ehpgm, ehsite,    \* EhProgram and EhCallSite of each instruction
          loc,              \* ZiprImpl_t's location map
          todo,             \* BuildFDEs: instructions not looked at, by new address
          all_cies, all_fdes,
          out,              \* the FDEs of the output, with their LSDAs
          pc

vars == <<tables, ehpgm, ehsite, loc, todo, all_cies, all_fdes, out, pc>>

IsAdvance(o) == o.op = "advance"
EntrySize(enc) == IF enc = "sdata8" THEN 8 ELSE 4

Init ==
    /\ tables \in Tables
    /\ ehpgm = [i \in Insns |-> None] /\ ehsite = [i \in Insns |-> None]
    /\ loc = <<>> /\ todo = <<>> /\ all_cies = <<>> /\ all_fdes = <<>> /\ out = <<>>
    /\ pc = "split"

-----------------------------------------------------------------------------
(* split_eh_frame: one program and one call site for each instruction.     *)
FindFde(a) == {f \in tables : f.start <= a /\ a < f.end}

\* restore_state takes back everything from its remember_state on.
PopState(pgm) ==
    LET k == SelectLastInSubSeq(pgm, 1, Len(pgm), LAMBDA o : o.op = "remember")
    IN  SubSeq(pgm, 1, k - 1)

EndsInOffset(pgm) == pgm # <<>> /\ Last(pgm).op = "offset"

\* import_pgm: the operations in force at address a, without the advances;
\* an offset replaces an offset right before it.
import_pgm(in, start, caf, a) ==
    LET Import(s, o) ==
          IF s.cur > a THEN s
          ELSE CASE IsAdvance(o)       -> [s EXCEPT !.cur = @ + o.n * caf]
                 [] o.op = "nop"       -> s
                 [] o.op = "restore"   -> [s EXCEPT !.pgm = PopState(@)]
                 [] o.op = "offset" /\ EndsInOffset(s.pgm)
                                       -> [s EXCEPT !.pgm = Append(Front(@), o)]
                 [] OTHER              -> [s EXCEPT !.pgm = Append(@, o)]
    IN  FoldLeft(Import, [pgm |-> <<>>, cur |-> start], in).pgm

ProgramFor(f, a) ==
    [cie |-> [f.cie EXCEPT !.pgm = import_pgm(@, f.start, f.cie.caf, a)],
     pgm |-> import_pgm(f.pgm, f.start, f.cie.caf, a)]

lsda_call_site_appliesTo(cs, a) == cs.start <= a /\ a < cs.start + cs.len

\* The first call site that applies; its actions name the types to catch by
\* their position in the type table, from 1 on.  An action of 0 is a cleanup.
CallSiteFor(f, a) ==
    LET k == SelectInSeq(f.lsda.sites, LAMBDA cs : lsda_call_site_appliesTo(cs, a))
        cs == f.lsda.sites[k]
        enc == f.lsda.enc
    IN  IF f.lsda = None \/ k = 0 THEN None
        ELSE [enc |-> enc,
              lp |-> IF cs.lp \in Insns THEN cs.lp ELSE None,
              ttov |-> cs.actions,
              relocs |-> {[offset |-> (t - 1) * EntrySize(enc), wrt |-> f.lsda.types[t]] :
                            t \in ToSet(cs.actions) \ {0}}]

build_ir ==
    /\ pc = "split" /\ pc' = "place"
    /\ ehpgm' = [i \in Insns |-> IF FindFde(i) = {} THEN None
                                 ELSE ProgramFor(CHOOSE f \in FindFde(i) : TRUE, i)]
    /\ ehsite' = [i \in Insns |-> IF FindFde(i) = {} THEN None
                                  ELSE CallSiteFor(CHOOSE f \in FindFde(i) : TRUE, i)]
    /\ UNCHANGED <<tables, loc, todo, all_cies, all_fdes, out>>

\* The instructions get their addresses.
PlaceInsns ==
    /\ pc = "place" /\ pc' = "build"
    /\ loc' \in Layouts
    /\ todo' = SetToSortSeq(Insns, LAMBDA i, j : loc'[i] < loc'[j])
    /\ UNCHANGED <<tables, ehpgm, ehsite, all_cies, all_fdes, out>>

-----------------------------------------------------------------------------
(* An LSDA under construction: encoding, call sites, action table, and the *)
(* type table with None where no call site has used an entry.              *)
NoLsda == [enc |-> "omit", sites |-> <<>>, acts |-> <<>>, types |-> <<>>]

TypeAt(types, t) == IF t \in DOMAIN types THEN types[t] ELSE None
TypeIndex(r, enc) == r.offset \div EntrySize(enc) + 1

LsdaCanExtend(lsda, i) ==
    ehsite[i] # None =>
       /\ lsda.enc = ehsite[i].enc \/ "omit" \in {lsda.enc, ehsite[i].enc}
       /\ \A r \in ehsite[i].relocs :
             TypeAt(lsda.types, TypeIndex(r, lsda.enc)) \in {None, r}

\* type_table.resize and its new elements.
WithTypes(types, new) ==
    [t \in 1 .. Max({Len(types)} \cup DOMAIN new) |->
        IF t \in DOMAIN new THEN new[t] ELSE TypeAt(types, t)]

LsdaExtend(lsda, i) ==
    LET cs == ehsite[i]
        new == [t \in {TypeIndex(r, cs.enc) : r \in cs.relocs} |->
                  CHOOSE r \in cs.relocs : TypeIndex(r, cs.enc) = t]
        acts == IF cs.ttov \in ToSet(lsda.acts) THEN lsda.acts ELSE Append(lsda.acts, cs.ttov)
    IN  IF cs = None THEN lsda
        ELSE [enc   |-> IF lsda.enc = "omit" THEN cs.enc ELSE lsda.enc,
              sites |-> Append(lsda.sites, [insn |-> i, lp |-> cs.lp,
                                            act |-> SelectInSeq(acts, LAMBDA a : a = cs.ttov)]),
              acts  |-> acts,
              types |-> WithTypes(lsda.types, new)]

(* The program of an FDE under construction has the operations of its      *)
(* instructions' programs and advances between them.                       *)
Operations(pgm) == SelectSeq(pgm, LAMBDA o : ~ IsAdvance(o))
PgmCanExtend(pgm, other) == IsPrefix(Operations(pgm), other)

Advance(n) == [op |-> "advance", n |-> n]

\* A mistake: the new advance takes the place of the old one.
WithAdvance_Replaces(pgm, n) ==
    IF pgm # <<>> /\ IsAdvance(Last(pgm))
    THEN Append(Front(pgm), Advance(n))
    ELSE Append(pgm, Advance(n))

\* An advance with nothing after it takes the new one in.
WithAdvance(pgm, n) ==
    IF pgm # <<>> /\ IsAdvance(Last(pgm))
    THEN Append(Front(pgm), Advance(Last(pgm).n + n))
    ELSE Append(pgm, Advance(n))

PgmExtend(pgm, n, other) ==
    WithAdvance(pgm, n) \o SubSeq(other, Len(Operations(pgm)) + 1, Len(other))

FdeCanExtend(fde, i) ==
    /\ loc[i] >= fde.start
    /\ loc[i] <= fde.end + new_fde_thresh
    /\ all_cies[fde.cie] = ehpgm[i].cie
    /\ PgmCanExtend(fde.pgm, ehpgm[i].pgm)
    /\ LsdaCanExtend(fde.lsda, i)

LastCanExtend(i) == all_fdes # <<>> /\ FdeCanExtend(Last(all_fdes), i)

FdeExtend(fde, i) ==
    [fde EXCEPT !.pgm = PgmExtend(@, (loc[i] - fde.last_advance) \div all_cies[fde.cie].caf,
                                  ehpgm[i].pgm),
                !.last_advance = loc[i],
                !.lsda = LsdaExtend(@, i),
                !.end = loc[i] + Size]

NewFdeFor(i, cies) ==
    [start |-> loc[i], last_advance |-> loc[i], end |-> loc[i] + Size,
     cie |-> SelectInSeq(cies, LAMBDA c : c = ehpgm[i].cie),
     pgm |-> ehpgm[i].pgm, lsda |-> LsdaExtend(NoLsda, i)]

(* BuildFDEs: the next instruction is ignored, extends the last FDE, or    *)
(* begins a new one.                                                       *)
NextInsn ==
    /\ pc = "build" /\ todo # <<>> /\ todo' = Tail(todo)
    /\ UNCHANGED <<tables, ehpgm, ehsite, loc, out, pc>>

IgnoreInsn ==
    /\ NextInsn
    /\ ehpgm[Head(todo)] = None /\ ehsite[Head(todo)] = None
    /\ UNCHANGED <<all_cies, all_fdes>>

ExtendFDE ==
    /\ NextInsn
    /\ ehpgm[Head(todo)] # None
    /\ LastCanExtend(Head(todo))
    /\ all_fdes' = Append(Front(all_fdes), FdeExtend(Last(all_fdes), Head(todo)))
    /\ UNCHANGED all_cies

BeginFDE ==
    /\ NextInsn
    /\ ehpgm[Head(todo)] # None
    /\ ~ LastCanExtend(Head(todo))
    /\ \E cie \in {ehpgm[Head(todo)].cie} :
          all_cies' = IF cie \in ToSet(all_cies) THEN all_cies ELSE Append(all_cies, cie)
    /\ all_fdes' = Append(all_fdes, NewFdeFor(Head(todo), all_cies'))

-----------------------------------------------------------------------------
(* GenerateEhOutput.                                                       *)
LandingPads(lsda) == {loc[cs.lp] : cs \in {c \in ToSet(lsda.sites) : c.lp # None}}

\* A landing pad is an offset from the base, where 0 is no landing pad.
\* A mistake: the base is always the start of the FDE.
calc_landing_pad_base_Start(fde) == fde.start

calc_landing_pad_base(fde) ==
    IF fde.start \in LandingPads(fde.lsda)
    THEN Min(LandingPads(fde.lsda) \cup {fde.start}) - 1
    ELSE fde.start

\* An advance at the end of a program is left out.
output_program(pgm) == IF pgm # <<>> /\ IsAdvance(Last(pgm)) THEN Front(pgm) ELSE pgm

\* An action index of 0 is no action; an empty entry of the type table is null.
output_lsda(fde) ==
    LET base == calc_landing_pad_base(fde)
        Entry(cs) ==
           [start |-> loc[cs.insn] - fde.start, len |-> Size,
            lp  |-> IF cs.lp = None THEN 0 ELSE loc[cs.lp] - base,
            act |-> IF fde.lsda.acts[cs.act] = <<>> THEN 0 ELSE cs.act]
    IN  IF fde.lsda.sites = <<>> THEN None
        ELSE [base  |-> base,
              sites |-> [k \in DOMAIN fde.lsda.sites |-> Entry(fde.lsda.sites[k])],
              acts  |-> fde.lsda.acts,
              types |-> [t \in DOMAIN fde.lsda.types |->
                           IF fde.lsda.types[t] = None THEN 0 ELSE fde.lsda.types[t].wrt]]

GenerateEhOutput ==
    /\ pc = "build" /\ todo = <<>> /\ pc' = "done"
    /\ out' = [k \in DOMAIN all_fdes |->
                 LET fde == all_fdes[k] IN
                 [start |-> fde.start, end |-> fde.end, cie |-> all_cies[fde.cie],
                  pgm |-> output_program(fde.pgm), lsda |-> output_lsda(fde)]]
    /\ UNCHANGED <<tables, ehpgm, ehsite, loc, todo, all_cies, all_fdes>>

Next ==
    \/ build_ir
    \/ PlaceInsns
    \/ IgnoreInsn
    \/ ExtendFDE
    \/ BeginFDE
    \/ GenerateEhOutput

Spec == Init /\ [][Next]_vars

-----------------------------------------------------------------------------
(* The unwinder, as the tables' format defines it.                         *)

\* The row of the register table at address a: CFA offset and saved registers.
RowAt(fde, a) ==
    LET Execute(s, o) ==
          IF s.cur > a THEN s
          ELSE CASE IsAdvance(o)       -> [s EXCEPT !.cur = @ + o.n * fde.cie.caf]
                 [] o.op = "offset"    -> [s EXCEPT !.row.cfa = o.n]
                 [] o.op = "save"      -> [s EXCEPT !.row.saved = @ \cup {o.n}]
                 [] o.op = "remember"  -> [s EXCEPT !.stack = Append(@, s.row)]
                 [] o.op = "restore"   -> [s EXCEPT !.row = Last(s.stack), !.stack = Front(@)]
                 [] o.op = "nop"       -> s
        start == [cur |-> fde.start, row |-> [cfa |-> 0, saved |-> {}], stack |-> <<>>]
    IN  FoldLeft(Execute, start, fde.cie.pgm \o fde.pgm).row

\* What the types of a chain of actions are; 0 is a cleanup.
Caught(actions, types) ==
    [k \in DOMAIN actions |-> IF actions[k] = 0 THEN "cleanup" ELSE types[actions[k]]]

NoHandler == [lp |-> None, catches |-> <<>>]

\* The call site for address a, in a table that is searched up to the first
\* entry that ends behind a.
OldHandler(fde, a) ==
    LET k == SelectInSeq(fde.lsda.sites, LAMBDA cs : a < cs.start + cs.len)
        cs == fde.lsda.sites[k]
    IN  IF fde.lsda = None \/ k = 0 \/ cs.start > a THEN NoHandler
        ELSE [lp |-> IF cs.lp = 0 THEN None ELSE loc[cs.lp],
              catches |-> Caught(cs.actions, fde.lsda.types)]

NewHandler(fde, a) ==
    LET lsda == fde.lsda
        k == SelectInSeq(lsda.sites, LAMBDA cs : a < fde.start + cs.start + cs.len)
        cs == lsda.sites[k]
    IN  IF lsda = None \/ k = 0 \/ fde.start + cs.start > a THEN NoHandler
        ELSE [lp |-> IF cs.lp = 0 THEN None ELSE lsda.base + cs.lp,
              catches |-> IF cs.act = 0 THEN <<>> ELSE Caught(lsda.acts[cs.act], lsda.types)]

\* The FDE the output's search table has for address a.
FdeOf(a) == {k \in DOMAIN out : out[k].start <= a /\ a < out[k].end}
Bytes(i) == loc[i] .. loc[i] + Size - 1

(* At every byte of a moved instruction the unwinder finds one FDE, and in *)
(* it the CFA and the saved registers that the input's tables gave at the  *)
(* instruction.  That is what import_pgm's cut at an address and           *)
(* BuildFDEs' joining of the programs of neighbours come to together,      *)
(* whatever the order the instructions were placed in.                     *)
RowsKept ==
    pc = "done" =>
      \A i \in Insns : \A f \in FindFde(i) : \A a \in Bytes(i) :
         /\ Cardinality(FdeOf(a)) = 1
         /\ \A k \in FdeOf(a) : RowAt(out[k], a) = RowAt(f, i)

(* At every byte of a moved instruction the unwinder finds the landing pad *)
(* and the types, in the order of the actions, that the input's tables     *)
(* gave, with the same personality, and none where the input had none.     *)
(* The tables of several functions may be joined into one: their type      *)
(* tables must agree, and an offset of 0 must not be a landing pad.        *)
HandlersKept ==
    pc = "done" =>
      \A i \in Insns : \A a \in Bytes(i) : \A k \in FdeOf(a) :
         IF FindFde(i) = {} THEN NewHandler(out[k], a) = NoHandler
         ELSE \A f \in FindFde(i) :
                /\ NewHandler(out[k], a) = OldHandler(f, i)
                /\ out[k].cie.personality = f.cie.personality
===============================================================================
