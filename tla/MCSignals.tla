----------------------------- MODULE MCSignals -----------------------------
(* Small programs over two signals that exercise the graph; see the cfgs.  *)
EXTENDS SignalsRef

CONSTANTS a, b, c1, c2, w1, w2

ReadOf(p) == [op |-> "read", node |-> p]
PeekOf(p) == [op |-> "peek", node |-> p]
SetTo(s, v) == [op |-> "set", node |-> s, val |-> v]
Kill(w) == [op |-> "destroy", node |-> w]
Return(v) == [op |-> "return", val |-> v]

AllZero == [s \in Signal |-> 0]

\* Code given as a sequence of operations, the same whatever they return.
Script(ops, t) == IF Len(t) < Len(ops) THEN ops[Len(t) + 1] ELSE Return(0)
Failed(t) == \E k \in DOMAIN t : t[k] = ERRORED
Last(t) == t[Len(t)]
Give(t) == Return(IF Last(t) \in Value THEN Last(t) ELSE ERRORED)

\* c2 = c1 + a (mod 2): reads a directly and through c1, a diamond.
DiamondStep(t) ==
    IF Len(t) < 2 THEN Script(<<ReadOf(c1), ReadOf(a)>>, t)
    ELSE Return(IF t[1] = t[2] THEN 0 ELSE 1)

\* Dynamic dependencies: c1 = a ? b : 0 in the order a, b; w1 drops c1 and b.
DiamondBody ==
    [n \in Consumer |-> [t \in Trace |->
       IF Failed(t) \/ Len(t) = MaxOps THEN Return(ERRORED)
       ELSE CASE n = c1 -> IF t = <<>> THEN ReadOf(a)
                           ELSE IF Len(t) = 1 /\ t[1] = 1 THEN ReadOf(b) ELSE Give(t)
              [] n = c2 -> DiamondStep(t)
              [] n = w1 -> IF t = <<>> THEN ReadOf(c2)
                           ELSE IF Len(t) = 1 /\ t[1] = 1 THEN ReadOf(c1) ELSE Return(0)
              [] OTHER  -> Script(<<ReadOf(b), PeekOf(c2), PeekOf(a)>>, t)]]

\* w1 copies c1 = a into b; c2 = a + b is read by w2, and by w1 afterwards.
WritesBody ==
    [n \in Consumer |-> [t \in Trace |->
       IF Failed(t) \/ Len(t) = MaxOps THEN Return(ERRORED)
       ELSE CASE n = c1 -> IF t = <<>> THEN ReadOf(a) ELSE Give(t)
              [] n = c2 -> IF Len(t) < 2 THEN Script(<<ReadOf(c1), ReadOf(b)>>, t)
                           ELSE Return(IF t[1] = t[2] THEN 1 ELSE 0)
              [] n = w1 -> IF t = <<>> THEN ReadOf(c2)
                           ELSE IF Len(t) = 1 THEN PeekOf(c1)
                           ELSE IF Len(t) = 2 /\ t[1] = 0
                                THEN SetTo(b, IF t[2] \in Value THEN t[2] ELSE 0)
                           ELSE Return(0)
              [] OTHER  -> Script(<<ReadOf(b), ReadOf(c2)>>, t)]]

\* c1 and c2 depend on each other in the code but never for one value of a:
\* the stale edge of the other branch must not be taken for a cycle.
SwapBody ==
    [n \in Consumer |-> [t \in Trace |->
       IF Failed(t) \/ Len(t) = MaxOps THEN Return(ERRORED)
       ELSE CASE n = c1 -> IF t = <<>> THEN ReadOf(a)
                           ELSE IF Len(t) = 1 /\ t[1] = 1 THEN ReadOf(c2) ELSE Give(t)
              [] n = c2 -> IF t = <<>> THEN ReadOf(a)
                           ELSE IF Len(t) = 1 /\ t[1] = 0 THEN ReadOf(c1) ELSE Give(t)
              [] n = w1 -> Script(<<ReadOf(c1)>>, t)
              [] OTHER  -> Script(<<ReadOf(c2), ReadOf(b)>>, t)]]

\* c1 = a ? throw : b, c2 reads c1 and recovers; w1 reads c2 and destroys w2
\* when b is set; w2 reads c1 and then writes, which it is not allowed to.
ThrowBody ==
    [n \in Consumer |-> [t \in Trace |->
       IF Len(t) = MaxOps THEN Return(ERRORED)
       ELSE CASE n = c1 -> IF t = <<>> THEN ReadOf(a)
                           ELSE IF t[1] = 1 THEN Return(ERRORED)
                           ELSE IF Len(t) = 1 THEN ReadOf(b) ELSE Give(t)
              [] n = c2 -> IF t = <<>> THEN ReadOf(c1)
                           ELSE IF Failed(t) THEN Return(1) ELSE Give(t)
              [] n = w1 -> IF Len(t) < 2 THEN Script(<<ReadOf(c2), ReadOf(b)>>, t)
                           ELSE IF Len(t) = 2 /\ t[2] = 1 THEN Kill(w2) ELSE Return(0)
              [] OTHER  -> Script(<<ReadOf(c1), SetTo(a, 0)>>, t)]]

\* c1 = a ? c2 : 0 and c2 = c1: a cycle while a is set, none afterwards.
CycleBody ==
    [n \in Consumer |-> [t \in Trace |->
       IF Failed(t) \/ Len(t) = MaxOps THEN Return(ERRORED)
       ELSE CASE n = c1 -> IF t = <<>> THEN ReadOf(a)
                           ELSE IF Len(t) = 1 /\ t[1] = 1 THEN ReadOf(c2) ELSE Return(0)
              [] n = c2 -> IF t = <<>> THEN ReadOf(c1) ELSE Give(t)
              [] OTHER  -> Script(<<ReadOf(c1)>>, t)]]

\* c1 and c2 always depend on each other; both always fail.
LoopBody ==
    [n \in Consumer |-> [t \in Trace |->
       IF Failed(t) \/ Len(t) = MaxOps THEN Return(ERRORED)
       ELSE CASE n = c1 -> Script(<<ReadOf(a), ReadOf(c2)>>, t)
              [] n = c2 -> Script(<<ReadOf(b), ReadOf(c1)>>, t)
              [] n = w1 -> Script(<<ReadOf(c1)>>, t)
              [] OTHER  -> Script(<<ReadOf(b), ReadOf(c2)>>, t)]]

\* c1 = a, c2 = b; w1 reads both and registers a cleanup function.
CleanupBody ==
    [n \in Consumer |-> [t \in Trace |->
       IF Failed(t) \/ Len(t) = MaxOps THEN Return(ERRORED)
       ELSE CASE n = c1 -> IF t = <<>> THEN ReadOf(a) ELSE Give(t)
              [] n = c2 -> IF t = <<>> THEN ReadOf(b) ELSE Give(t)
              [] n = w1 -> Script(<<ReadOf(c1), ReadOf(c2)>>, t)
              [] OTHER  -> Script(<<ReadOf(c1)>>, t)]]

Bodies ==
    [p \in Program |-> CASE p = "diamond" -> DiamondBody
                         [] p = "writes"  -> WritesBody
                         [] p = "swap"    -> SwapBody
                         [] p = "throw"   -> ThrowBody
                         [] p = "loop"    -> LoopBody
                         [] p = "cycle"   -> CycleBody
                         [] OTHER         -> CleanupBody]
Fragile == [p \in Program |-> IF p = "cleanup" THEN {w1} ELSE {}]
Writers == [p \in Program |-> IF p = "writes" THEN {w1} ELSE {}]

\* The programs about which module SignalsRefProof speaks: those without a cycle
\* and without untracked() in a computed. "swap" is one although no fixed order
\* of its computeds will do.
ASSUME GroundedPrograms == \A p \in Program : Grounded(p) <=> p \notin {"loop", "cycle"}
=============================================================================
