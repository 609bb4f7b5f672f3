------------------------------ MODULE MCEmission ------------------------------
(* Programs of three instructions for Emission: the second and the third   *)
(* are of any kind, control may run from each into any other; the first is *)
(* pinned.                                                                 *)
EXTENDS Emission

Ops == {"plain", "jcc8", "jmp8", "loop", "jcc32", "jmp32", "callback"}
Unused(f, x) == [n \in Node |-> IF n \in Original THEN f[n] ELSE x]

Fits(op, ft, t) ==
    /\ op \in {"jmp8", "jmp32"} => ft = None
    /\ op \notin Branch => t = None

Instructions == {<<op, p, ft, t>> \in Ops \X {0, 1} \X ({None} \cup Original) \X ({None} \cup Original) :
                    Fits(op, ft, t) /\ (p = 1 => op \in {"jcc8", "loop", "jcc32"})}

MCPrograms ==
    {[op |-> Unused([i \in Original |-> q[i][1]], "none"), prefix |-> Unused([i \in Original |-> q[i][2]], 0),
      ft |-> Unused([i \in Original |-> q[i][3]], None), target |-> Unused([i \in Original |-> q[i][4]], None),
      pin |-> Unused([i \in Original |-> IF i = 1 THEN 10 ELSE None], None), plopped |-> p] :
        q \in {x \in Instructions : x[1] \in {"plain", "loop"} /\ x[2] = 0 /\ x[3] = 2 /\ x[4] # 1}
              \X {x \in Instructions : x[3] # 1}
              \X {x \in Instructions : x[1] \in {"plain", "jcc8", "callback"} /\ x[2] = 0 /\ x[3] # 3 /\ x[4] \in {None, 2}},
        p \in {{}, {2}}}

MCOrders(F) ==
    LET ascending == [k \in 1 .. Cardinality(F) |->
                         CHOOSE x \in F : Cardinality({y \in F : y < x}) = k - 1]
    IN  {ascending, Reverse(ascending)}
===============================================================================
