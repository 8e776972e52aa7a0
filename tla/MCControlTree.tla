---------------------------- MODULE MCControlTree ----------------------------
(* A root group r of a group g and a control b; a control a in g.          *)
EXTENDS ControlTree

MCControls == {"r", "g", "a", "b"}

MCParent == [n \in MCControls \ {"r"} |-> IF n = "a" THEN "g" ELSE "r"]
MCChildren == [n \in {"r", "g"} |-> IF n = "g" THEN <<"a">> ELSE <<"g", "b">>]

MCValues == [n \in {"a", "b"} |-> IF n = "a" THEN {0, 1, 2} ELSE {0, 1}]

MCBuilt == [n \in MCControls |-> CASE n = "r" -> [g |-> [a |-> 0], b |-> 0]
                                   [] n = "g" -> [a |-> 0]
                                   [] OTHER -> 0]

\* a must not be 2, a and b must not be 1 and 0 when both are there, and g
\* learns late that a must not be 1.
MCRejects == [n \in MCControls |-> CASE n = "a" -> {2}
                                     [] n = "r" -> {[g |-> [a |-> 1], b |-> 0]}
                                     [] OTHER -> {}]
MCRejectsLater == [n \in MCControls |-> IF n = "g" THEN {[a |-> 1]} ELSE {}]
=============================================================================
