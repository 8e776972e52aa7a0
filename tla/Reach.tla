------------------------------- MODULE Reach -------------------------------
(***************************************************************************)
(* Reachability in a finite directed graph, as a least fixed point rather  *)
(* than by recursion: what is reachable is what belongs to every set that  *)
(* is closed under the edges.                                              *)
(***************************************************************************)

\* The members of nodes reachable from roots by edges whose targets are all
\* in nodes; succ[x] is the set of successors of x.
Closed(S, roots, nodes, succ) ==
    \A d \in nodes : (\E x \in roots \cup S : d \in succ[x]) => d \in S

Reachable(roots, nodes, succ) ==
    {n \in nodes : \A S \in SUBSET nodes : Closed(S, roots, nodes, succ) => n \in S}
=============================================================================
