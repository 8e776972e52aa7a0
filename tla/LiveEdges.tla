----------------------------- MODULE LiveEdges -----------------------------
(***************************************************************************)
(* The doubly linked edges of the reactive graph (graph.ts).  A consumer   *)
(* lists its producers; a producer lists those of its consumers that are   *)
(* live; each entry holds the index of its twin in the other list, so that *)
(* an edge is removed in constant time by moving the last entry into its   *)
(* place.  A computed is live while its list of live consumers is not      *)
(* empty, and gaining the first or losing the last one cascades to its own *)
(* producers.                                                              *)
(*                                                                         *)
(* The functions that do this call each other down the graph; calls is     *)
(* their part of the JavaScript stack, and one step goes from one call to  *)
(* the next. No other code runs in between.                                *)
(*                                                                         *)
(* Module Signals derives liveness from the producer lists alone; here it  *)
(* is what the arrays say, and LivenessExact shows the two agree.          *)
(***************************************************************************)
EXTENDS Naturals, Sequences, Functions, Reach

CONSTANTS Signal, Computed, Watch,
          MaxDeps,  \* bound: reads in one run of a consumer
          MaxEdges, \* bound: dependencies of all consumers together
          NoNode    \* hole of a sparse array

Consumer == Computed \cup Watch
Producer == Signal \cup Computed
Node     == Signal \cup Consumer

ASSUME EdgeNodes ==
    /\ Signal \cap Computed = {} /\ Signal \cap Watch = {} /\ Computed \cap Watch = {}
    /\ NoNode \notin Node /\ MaxDeps \in Nat /\ MaxEdges \in Nat

VARIABLES
    prods,      \* prods[c]: producerNode with producerIndexOfThis of c
    cons,       \* cons[p]: liveConsumerNode with liveConsumerIndexOfThis of p
    destroyed,
    running,    \* the consumers in mid-computation, the innermost last, each
                \* with its nextProducerIndex, which is not used otherwise
    calls       \* the calls in progress of the functions below, innermost last

edgeVars == <<prods, cons, destroyed, running, calls>>

Init ==
    /\ prods = [n \in Node |-> <<>>] /\ cons = [n \in Node |-> <<>>]
    /\ destroyed = {}
    /\ running = <<>>
    /\ calls = <<>>

Live(n) == n \in Watch \/ cons[n] # <<>>

-----------------------------------------------------------------------------
\* A call that goes through the dependencies of n from the first-th to the
\* last-th and is at the next-th of them.
Loop(op, n, first, last, arg) ==
    [op |-> op, node |-> n, first |-> first, next |-> first, last |-> last, arg |-> arg]

\* producerAddLiveConsumer: p links its own dependencies before its first consumer.
AddLive(p) == Loop("add", p, 1, IF cons[p] = <<>> THEN Len(prods[p]) ELSE 0, 0)

\* producerRemoveLiveConsumerAtIndex: p unlinks its own before its last one goes.
RemoveLive(p, k) ==
    Loop("remove", p, 1, IF Len(cons[p]) = 1 THEN Len(prods[p]) ELSE 0, k)

Cur    == calls[Len(calls)]
Caller == calls[Len(calls) - 1]
Linking == {"add", "read"}

\* The next dependency in the loop.
Descend ==
    /\ calls # <<>> /\ Cur.next <= Cur.last
    /\ LET e == prods[Cur.node][Cur.next] IN
       calls' = Append(calls, IF Cur.op \in Linking THEN AddLive(e.node)
                              ELSE RemoveLive(e.node, e.at))
    /\ UNCHANGED <<prods, cons, destroyed, running>>

Ends(op) == calls # <<>> /\ Cur.op = op /\ Cur.next > Cur.last

\* The call returns, and its caller goes on with the next dependency.
Return ==
    calls' = [k \in 1..(Len(calls) - 1) |->
                IF k = Len(calls) - 1 THEN [calls[k] EXCEPT !.next = @ + 1] ELSE calls[k]]

\* The end of producerAddLiveConsumer, with the assignment of what it returns.
Attach ==
    /\ Ends("add")
    /\ LET p == Cur.node
           c == Caller.node
           i == Caller.next
       IN  /\ cons' = [cons EXCEPT ![p] = Append(@, [node |-> c, at |-> i])]
           /\ prods' = [prods EXCEPT ![c][i].at = Len(cons[p]) + 1]
    /\ Return
    /\ UNCHANGED <<destroyed, running>>

\* The cons of p without its k-th entry, whose place the last one takes.
Without(p, k) ==
    LET last == Len(cons[p]) IN
    [j \in 1..(last - 1) |-> IF j = k THEN cons[p][last] ELSE cons[p][j]]

\* Mutant: the entry that moves is not told of its new index.
DetachUnrepaired ==
    /\ Ends("remove")
    /\ cons' = [cons EXCEPT ![Cur.node] = Without(Cur.node, Cur.arg)]
    /\ Return
    /\ UNCHANGED <<prods, destroyed, running>>

\* The end of producerRemoveLiveConsumerAtIndex, with the pointer of the entry
\* that moves.
Detach ==
    /\ Ends("remove")
    /\ LET p == Cur.node
           k == Cur.arg
           last  == Len(cons[p])
           moved == cons[p][last]
       IN  /\ cons' = [cons EXCEPT ![p] = Without(p, k)]
           /\ prods' = IF k < last THEN [prods EXCEPT ![moved.node][moved.at].at = k]
                       ELSE prods
    /\ Return
    /\ UNCHANGED <<destroyed, running>>

-----------------------------------------------------------------------------
Top == running[Len(running)].node
NextIndex == running[Len(running)].next
IsRunning(n) == \E k \in 1..Len(running) : running[k].node = n

EdgeCount == SumFunction([c \in Consumer |-> Len(prods[c])])

Deps == [c \in Node |-> {prods[c][i].node : i \in 1..Len(prods[c])}]

\* p is not running and depends on nothing that is: reading a computed first
\* brings it up to date, which throws in that case (Signals!ReadsAreBelow).
Readable(p) ==
    /\ ~IsRunning(p)
    /\ \A n \in Reachable({p}, Computed, Deps) : ~IsRunning(n)

\* consumerBeforeComputation: a watch runs from its scheduler, a computed when
\* it is read or polled.
Begin(n) ==
    /\ calls = <<>>
    /\ n \in Watch => running = <<>> /\ n \notin destroyed
    /\ ~IsRunning(n)
    /\ running' = Append(running, [node |-> n, next |-> 0])
    /\ UNCHANGED <<prods, cons, destroyed, calls>>

\* The idx-th dependency of c becomes p; it is linked if c is live. A destroyed
\* watch may get holes before it.
Store(c, idx, p) ==
    LET old  == prods[c]
        item(j) == IF j = idx THEN [node |-> p, at |-> 0]
                   ELSE IF j \in 1..Len(old) THEN old[j] ELSE [node |-> NoNode, at |-> 0]
        len  == IF idx > Len(old) THEN idx ELSE Len(old)
    IN  /\ prods' = [prods EXCEPT ![c] = [j \in 1..len |-> item(j)]]
        /\ calls' = IF Live(c) THEN <<Loop("read", c, idx, idx, 0)>> ELSE <<>>

\* producerAccessed: the same dependency as in the last run is kept, another one
\* is unlinked first if the consumer is live.
Access(p) ==
    /\ calls = <<>> /\ running # <<>> /\ Readable(p)
    /\ LET c   == Top
           idx == NextIndex + 1
           present == idx \in 1..Len(prods[c])
           kept    == present /\ prods[c][idx].node = p
           stale   == present /\ ~kept /\ Live(c)
       IN  /\ idx <= MaxDeps /\ (present \/ EdgeCount < MaxEdges)
           /\ \/ kept /\ UNCHANGED <<prods, calls>>
              \/ stale /\ calls' = <<Loop("replace", c, idx, idx, p)>> /\ UNCHANGED prods
              \/ ~kept /\ ~stale /\ Store(c, idx, p)
           /\ running' = [running EXCEPT ![Len(running)].next = idx]
    /\ UNCHANGED <<cons, destroyed>>

Replace ==
    /\ Ends("replace")
    /\ Store(Cur.node, Cur.first, Cur.arg)
    /\ UNCHANGED <<cons, destroyed, running>>

Accessed ==
    /\ Ends("read")
    /\ calls' = <<>>
    /\ UNCHANGED <<prods, cons, destroyed, running>>

\* Mutant: the dependencies that the run did not read are dropped but not unlinked.
FinishWithoutUnlinking ==
    /\ calls = <<>> /\ running # <<>>
    /\ calls' = <<Loop("finish", Top, NextIndex + 1, 0, 0)>>
    /\ UNCHANGED <<prods, cons, destroyed, running>>

\* consumerAfterComputation: unlink and drop what this run did not read.
Finish ==
    /\ calls = <<>> /\ running # <<>>
    /\ LET last == IF Live(Top) THEN Len(prods[Top]) ELSE 0 IN
       calls' = <<Loop("finish", Top, NextIndex + 1, last, 0)>>
    /\ UNCHANGED <<prods, cons, destroyed, running>>

Truncate ==
    /\ Ends("finish")
    /\ prods' = [prods EXCEPT ![Top] = IF Len(@) > NextIndex THEN SubSeq(@, 1, NextIndex) ELSE @]
    /\ running' = SubSeq(running, 1, Len(running) - 1)
    /\ calls' = <<>>
    /\ UNCHANGED <<cons, destroyed>>

\* consumerDestroy, of a watch that may be running itself.
Destroy(w) ==
    /\ calls = <<>> /\ w \notin destroyed
    /\ destroyed' = destroyed \cup {w}
    /\ calls' = <<Loop("destroy", w, 1, Len(prods[w]), 0)>>
    /\ UNCHANGED <<prods, cons, running>>

Clear ==
    /\ Ends("destroy")
    /\ prods' = [prods EXCEPT ![Cur.node] = <<>>]
    /\ calls' = <<>>
    /\ UNCHANGED <<cons, destroyed, running>>

Next ==
    \/ \E n \in Consumer : Begin(n)
    \/ \E p \in Producer : Access(p)
    \/ Finish
    \/ \E w \in Watch : Destroy(w)
    \/ Descend \/ Attach \/ Detach
    \/ Replace \/ Accessed \/ Truncate \/ Clear

Spec == Init /\ [][Next]_edgeVars

-----------------------------------------------------------------------------
\* Whenever none of the functions is in the middle of its work, every edge of a
\* live consumer has its twin, and the twins hold each other's index, in both
\* directions and for the stale dependencies of a running consumer too: an edge
\* removed by its index is the edge that was meant.
Linked ==
    calls = <<>> =>
    /\ \A c \in Consumer : Live(c) =>
          \A i \in 1..Len(prods[c]) :
             LET e == prods[c][i] IN
             e.node # NoNode =>
                /\ e.at \in 1..Len(cons[e.node])
                /\ cons[e.node][e.at] = [node |-> c, at |-> i]
    /\ \A p \in Node : \A k \in 1..Len(cons[p]) :
          LET e == cons[p][k] IN
            /\ e.at \in 1..Len(prods[e.node])
            /\ prods[e.node][e.at] = [node |-> p, at |-> k]

\* A computed is kept alive by the graph exactly as long as some watch depends
\* on it: none leaks when the last watch lets go, in whatever order the edges
\* go, and none that a watch needs misses its notifications.
LivenessExact ==
    calls = <<>> =>
    \A c \in Computed :
        cons[c] # <<>> <=> c \in Reachable(Watch, Computed, Deps)
=============================================================================
