------------------------------ MODULE SledWords ------------------------------
(***************************************************************************)
(* The layout of a 68-sled and the words its pushes leave on the stack.  A *)
(* word is known by the number of 0x90 bytes in it, 0 .. 4; any other word *)
(* is Other.                                                               *)
(***************************************************************************)
EXTENDS Integers

Other == 5

(* A mistake: one nop too few behind the pushes.                           *)
nop_overhead_Three == 3

nop_overhead == 4
jmp_overhead == 5
sled_overhead == nop_overhead + jmp_overhead
ceildiv(n, d) == (n + d - 1) \div d

(* pushed_values: the top of the stack first.                              *)
PushedValues(n, number) ==
    [i \in 1 .. ceildiv(n - number, 5) |->
        IF i = 1 THEN 4 - ((n - number - 1) % 5) ELSE 0]
=============================================================================
