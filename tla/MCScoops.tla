------------------------------- MODULE MCScoops -------------------------------
(* Small layouts for Scoops: three sections of the kinds executable (x),   *)
(* read-only (r) and writable (w), with and without a gap between them and *)
(* on several alignments; data in the text or not; scoops to be placed.    *)
EXTENDS Scoops, Sequences

CONSTANTS First,    \* where the first section may start
          Sizes, Gaps

Section(s, n, k) == [start |-> s, end |-> s + n - 1, kind |-> k]
Chained ==
    {<<Section(s, n1, k[1]), Section(s + n1 + g1, n2, k[2]),
       Section(s + n1 + g1 + n2 + g2, 2, k[3])>> :
        s \in First, n1, n2 \in Sizes, g1, g2 \in Gaps,
        k \in {x \in [1 .. 3 -> {"x", "r", "w"}] :
                  x[3] # "x" /\ \E i \in 1 .. 2 : x[i] = "x"}}

(* Data in the text, as on ARM: the last byte before the next section.     *)
DataInText(q) ==
    {[start |-> q[i + 1].start - 1, end |-> q[i + 1].start - 1, kind |-> "r"] :
        i \in {j \in 1 .. 2 : q[j].kind = "x" /\ q[j + 1].kind # "x"}}

Unplaced(p, k, n) == [perms |-> p, kind |-> k, size |-> n]

MCLayouts ==
    {l \in {[sections |-> {q[i] : i \in 1 .. 3},
              data     |-> {q[i] : i \in {j \in 1 .. 3 : q[j].kind # "x"}} \cup t,
              unplaced |-> u] :
                <<q, t, u>> \in
                   UNION {{q} \X {{}, DataInText(q)}
                          \X {{}, {Unplaced(4, "r", 2), Unplaced(6, "w", 1), Unplaced(6, "w", 2)}} :
                             q \in Chained}} :
        LinkerMade(l)}
===============================================================================
