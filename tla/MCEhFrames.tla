------------------------------ MODULE MCEhFrames ------------------------------
(* Small inputs for EhFrames: a function of three instructions, one of a   *)
(* single instruction and an instruction without tables, put into six      *)
(* slots in every order.  An FDE has an LSDA if its CIE has a personality, *)
(* its call sites are in order, and a call site without a landing pad has  *)
(* no actions.                                                             *)
EXTENDS EhFrames

Slots == {20 + 2 * s : s \in 0 .. 5}
MCLayouts == {l \in [Insns -> Slots] : IsInjective(l)}

Adv(n) == Advance(n)
Off(n) == [op |-> "offset", n |-> n]
Save(r) == [op |-> "save", n |-> r]
Op(o) == [op |-> o, n |-> 0]

\* Code alignment 1 and 2: an instruction is 2 bytes.
Cie(caf, p) == [caf |-> caf, personality |-> p, pgm |-> <<Off(8), Save(16)>>]

Programs(unit) ==
    {<<>>,
     <<Off(16), Adv(unit), Save(6), Adv(unit), Off(24)>>,
     <<Adv(unit), Off(16), Adv(unit), Off(8), Op("nop")>>,
     <<Adv(unit), Op("remember"), Off(16), Save(6), Adv(unit), Op("restore")>>,
     <<Off(16), Op("remember"), Off(32), Adv(unit), Op("restore"), Off(24), Adv(unit), Save(6)>>,
     <<Op("remember"), Save(6), Adv(unit), Op("remember"), Off(16), Adv(unit), Op("restore"), Op("restore")>>}

Site(s, n, lp, acts) == [start |-> s, len |-> n, lp |-> lp, actions |-> acts]
Lsda(enc, types, sites) == [enc |-> enc, types |-> types, sites |-> sites]

\* For the function at 2..7; the landing pads are in it, or in the other one.
Lsdas ==
    {Lsda("omit", <<>>, <<>>),
     Lsda("omit", <<>>, <<Site(2, 4, 6, <<>>)>>),
     Lsda("omit", <<>>, <<Site(2, 2, 4, <<>>), Site(4, 2, 0, <<>>), Site(6, 2, 2, <<>>)>>),
     Lsda("sdata4", <<"A">>, <<Site(2, 2, 6, <<1>>), Site(4, 2, 8, <<1, 0>>)>>),
     Lsda("sdata8", <<"A", 0>>, <<Site(2, 2, 6, <<2>>), Site(6, 2, 4, <<1, 2>>)>>)}
\* For the function at 8.
OtherLsdas ==
    {Lsda("omit", <<>>, <<Site(8, 2, 2, <<>>)>>),
     Lsda("sdata4", <<"B">>, <<Site(8, 2, 8, <<1>>)>>),
     Lsda("sdata4", <<"B", "C">>, <<Site(8, 2, 4, <<2>>)>>),
     Lsda("sdata8", <<"A">>, <<Site(8, 2, 2, <<0>>)>>)}

Fde(start, end, cie, pgm, lsda) ==
    [start |-> start, end |-> end, cie |-> cie, pgm |-> pgm, lsda |-> lsda]

\* Functions without call sites, with every pair of programs; and functions
\* with every pair of LSDAs.
MCTables ==
    {{Fde(2, 8, Cie(c, None), p, None), Fde(8, 10, Cie(d, None), q, None)} :
        p \in Programs(2), q \in {<<>>, <<Off(16)>>}, c \in {1}, d \in {1}}
    \cup {{Fde(2, 8, Cie(2, None), p, None), Fde(8, 10, Cie(1, None), <<Off(16)>>, None)} :
        p \in Programs(1)}
    \cup {{Fde(2, 8, Cie(1, "p"), p, l), Fde(8, 10, Cie(1, "p"), <<>>, m)} :
        p \in {<<>>, <<Adv(2), Off(16), Adv(2), Off(8)>>}, l \in Lsdas, m \in OtherLsdas}
===============================================================================
