------------------------- MODULE MCChangeDetection -------------------------
(* Two roots; r1 shows a, and a shows a container with two embedded views, e1
   and e2, both declared in r1. *)
EXTENDS ChangeDetection, TLC

CONSTANTS r1, r2, a, e1, e2

MCIn == e1 :> "container" @@ e2 :> "container"
MCParent == a :> r1 @@ e1 :> a @@ e2 :> a
MCDeclaredIn == e1 :> r1 @@ e2 :> r1
=============================================================================
