---------------------------- MODULE MCPlacement ----------------------------
(* Small programs and layouts for Placement.  Instructions are numbered    *)
(* along the fallthroughs.  The first is pinned at Pin1; the third is a    *)
(* plain one, an unpinned indirect branch target, or pinned at Pin3.  Free *)
(* are a hole, the bytes in front of Pin3, and the overflow area.          *)
EXTENDS Placement

CONSTANTS Pin1, Pin3, HoleSizes, Overflow, MaxAddr

N      == 4
MCInsn == 1 .. N

MCSizes == {<<1, 1, 1, 1>>, <<1, 6, 1, 6>>, <<6, 1, 6, 1>>, <<6, 6, 6, 6>>, <<3, 4, 1, 3>>}

NoPlan == [i \in MCInsn |-> None]
Answer(s, e, c, f) == [start |-> s, end |-> e, coalesce |-> c, fallthrough |-> f]

(* Plans of a plugin: none; on top of a pin; in front of Pin3; two dollops *)
(* side by side.                                                           *)
MCPlans ==
    {NoPlan}
    \cup {[NoPlan EXCEPT ![1] = Answer(Pin1, Pin1 + n, c, TRUE)] : n \in {8, 13}, c \in BOOLEAN}
    \cup {[NoPlan EXCEPT ![1] = Answer(Pin3 - 7, Pin3 - 1, c, TRUE)] : c \in BOOLEAN}
    \cup {[NoPlan EXCEPT ![1] = Answer(240, 246, c, f), ![3] = Answer(247, 247 + n, c, TRUE)] :
              c, f \in BOOLEAN, n \in {4, 13}}

Planned(plan) == UNION {plan[i].start .. plan[i].end : i \in {j \in MCInsn : plan[j] # None}}

MCPrograms ==
    {[size |-> z,
      ft |-> [i \in MCInsn |-> IF i \in falls THEN i + 1 ELSE None],
      target |-> [i \in MCInsn |-> IF i = 2 THEN t ELSE None],
      ibta |-> [i \in MCInsn |-> CASE i = 1 -> Pin1 [] i = 3 -> b [] OTHER -> None],
      longPin |-> [i \in MCInsn |-> i = 1],
      function |-> [i \in MCInsn |-> IF i < 3 THEN 1 ELSE g],
      fronts |-> {1} \cup ({i + 1 : i \in MCInsn \ falls} \cap MCInsn)
                 \cup ({t} \ {None}) \cup (IF b # None THEN {3} ELSE {}),
      referenced |-> IF b = 0 THEN {3} ELSE {},
      plan |-> p,
      free |-> ((100 .. 99 + hole) \cup (Pin3 - 16 .. Pin3 - 1) \cup (Overflow .. MaxAddr))
               \ Planned(p)] :
        z \in MCSizes, falls \in {{1}, {2}, {1, 2}, {2, 3}, {1, 2, 3}},
        t \in {None, 2, 4}, b \in {None, 0, Pin3}, g \in {1, 2},
        hole \in HoleSizes, p \in MCPlans}

(* Plugins whose answers are good from the start.  That they are still    *)
(* good when they are asked for shows in PlacementEnds: else the loop      *)
(* would stop before PlaceByPlugin.                                        *)
MCInit == Init /\ \A h \in fronts : Addressed(h) => Accepted(h) /\ Roomy(h)
MCSpec == MCInit /\ [][Next]_vars /\ WF_vars(Next)
=============================================================================
