------------------------------ MODULE FreeBytes ------------------------------
(***************************************************************************)
(* What the memory space of the rewriter promises its clients: a set of    *)
(* addresses code may be placed at, and a set of addresses that have been  *)
(* written.  FindFreeRanges fills the free set with runs of bytes, the     *)
(* last of which ends at the last address.  From then on reserving takes   *)
(* one byte out of the free set, releasing puts one back, plopping writes  *)
(* one and takes it out, and only a whole range is ever dropped.           *)
(* MemorySpace implements this with ranges and two indexes.                *)
(***************************************************************************)
EXTENDS Integers

CONSTANT Last
VARIABLES free, plopped, phase

vars == <<free, plopped, phase>>

Code == 1 .. Last - 1

Init == free = {} /\ plopped = {} /\ phase = "find_ranges"

Add(s, e)  == /\ phase = "find_ranges"
              /\ s .. e \cap free = {}
              /\ free' = free \cup s .. e
              /\ phase' = IF e = Last THEN "rewrite" ELSE phase
              /\ UNCHANGED plopped

Reserve(a) == /\ phase = "rewrite" /\ a \in free
              /\ free' = free \ {a}
              /\ UNCHANGED <<plopped, phase>>

Release(a) == /\ phase = "rewrite" /\ a \notin free
              /\ free' = free \cup {a}
              /\ UNCHANGED <<plopped, phase>>

Plop(a)    == /\ phase = "rewrite"
              /\ free' = free \ {a}
              /\ plopped' = plopped \cup {a}
              /\ UNCHANGED phase

Drop(s, e) == /\ phase = "rewrite" /\ s .. e \subseteq free
              /\ free' = free \ s .. e
              /\ UNCHANGED <<plopped, phase>>

Next == \/ \E s \in Code \cup {Last}, e \in Code \cup {Last} : s <= e /\ Add(s, e)
        \/ \E s \in Code, e \in Code : s <= e /\ Drop(s, e)
        \/ \E a \in Code : Reserve(a) \/ Release(a) \/ Plop(a)

Spec == Init /\ [][Next]_vars

=============================================================================
