--------------------------- MODULE LiveEdgesProof ---------------------------
(***************************************************************************)
(* Proofs about module LiveEdges, for all sets of nodes and all bounds.    *)
(*                                                                         *)
(* Linked and LivenessExact speak of the moments when no function is at    *)
(* work; IInv says what the arrays are like in the middle of it.  An edge  *)
(* is On when it should have a twin: if its consumer is live, or, while a  *)
(* loop goes through the dependencies of that consumer, if the loop has    *)
(* linked it already or has not yet unlinked it.  HaveTwins and AreTwins   *)
(* say that the edges that are On, and no others, are linked.  For that a  *)
(* call must know which edges are its own: it is made for the dependency   *)
(* that its caller is at (Inner), and no node is in two calls at once      *)
(* (OneCall), since dependencies do not lead back (Grounded).  A producer  *)
(* becomes live, or stops being so, in the same step in which the call     *)
(* about it leaves the stack, and just then its own edges are On, or are   *)
(* not, whether one asks the loop or the list (OnAttach, OnDetach).        *)
(*                                                                         *)
(* That dependencies have no end to go round in either direction           *)
(* (Grounded, Rooted) takes the place of induction along the graph: a live *)
(* computed that no watch depends on would have a consumer of that kind,   *)
(* and among those there would be one that has none (InvExact).            *)
(***************************************************************************)
EXTENDS LiveEdges, TLAPS

\* What the lists hold, a call in progress, and a consumer in mid-computation.
Entry == [node : Producer \cup {NoNode}, at : Nat]
Twin  == [node : Consumer, at : Nat]
Frame == [op : {"add", "remove", "read", "replace", "finish", "destroy"}, node : Node,
          first : Nat, next : Nat, last : Nat, arg : Nat \cup Producer]
Run   == [node : Consumer, next : Nat]

Types ==
    /\ prods \in [Node -> Seq(Entry)] /\ cons \in [Node -> Seq(Twin)]
    /\ destroyed \in SUBSET Watch
    /\ running \in Seq(Run)
    /\ calls \in Seq(Frame)

\* A signal depends on nothing, and nothing depends on a watch.
Leaves ==
    /\ \A s \in Signal : prods[s] = <<>>
    /\ \A w \in Watch : cons[w] = <<>>

\* A consumer is in one computation at a time, and has a dependency for each of
\* its reads unless it was destroyed since.
Runs ==
    /\ \A j, k \in 1..Len(running) : running[j].node = running[k].node => j = k
    /\ \A k \in 1..Len(running) :
          running[k].node \notin destroyed => running[k].next <= Len(prods[running[k].node])

\* Only a watch destroyed in mid-run has holes, among what it has read before.
Holes ==
    \A n \in Node : \A i \in 1..Len(prods[n]) :
        prods[n][i].node = NoNode =>
            /\ n \in destroyed
            /\ \A k \in 1..Len(running) : running[k].node = n => i <= running[k].next

\* m depends on n; no dependency leads back, nor on for ever.
Edge(m, n) == \E i \in 1..Len(prods[m]) : prods[m][i].node = n
Grounded ==
    \A S \in SUBSET Node : S # {} => \E n \in S : \A m \in S : ~Edge(n, m)
Rooted ==
    \A S \in SUBSET Node : S # {} => \E n \in S : \A m \in S : ~Edge(m, n)

\* What a call made from outside is about, and one made by call g.
Base(f) ==
    /\ f.node \in Consumer
    /\ \/ f.op \in {"replace", "read"} /\ f.last = f.first /\ Live(f.node)
       \/ /\ f.op = "finish"
          /\ f.last = IF Live(f.node) THEN Len(prods[f.node]) ELSE 0
          /\ running # <<>> /\ f.node = Top /\ f.first = NextIndex + 1
       \/ /\ f.op = "destroy" /\ f.first = 1 /\ f.last = Len(prods[f.node])
          /\ f.node \in destroyed
    /\ f.op = "replace" =>
          /\ f.arg \in Producer /\ Readable(f.arg)
          /\ running # <<>> /\ f.node = Top /\ f.first = NextIndex

Inner(f, g) ==
    /\ g.next <= g.last /\ f.node = prods[g.node][g.next].node /\ f.first = 1
    /\ \/ /\ f.op = "add" /\ g.op \in Linking
          /\ f.last = IF cons[f.node] = <<>> THEN Len(prods[f.node]) ELSE 0
       \/ /\ f.op = "remove" /\ g.op \notin Linking
          /\ f.last = IF Len(cons[f.node]) = 1 THEN Len(prods[f.node]) ELSE 0
          /\ f.arg = prods[g.node][g.next].at

\* The loop of f goes through dependencies that are no holes.
InRange(f) ==
    /\ f.first # 0 /\ f.first <= f.next /\ (f.next = f.first \/ f.next <= f.last + 1)
    /\ f.last <= Len(prods[f.node])
    /\ \A i \in f.first..f.last : prods[f.node][i].node \in Producer

Frames ==
    \A k \in 1..Len(calls) :
        /\ InRange(calls[k])
        /\ k = 1 => Base(calls[k])
        /\ k # 1 => Inner(calls[k], calls[k - 1])

\* No node is in two calls at once.
OneCall(cs) == \A j, k \in 1..Len(cs) : cs[j].node = cs[k].node => j = k

\* The i-th dependency of c is linked, as far as calls cs and lists cn go: a loop
\* over the dependencies of c has linked the ones before its place, or unlinked
\* them; otherwise c is live.
Within(f, c, i) == f.node = c /\ i \in f.first..f.last
On(cs, cn, c, i) ==
    \/ \E k \in 1..Len(cs) : Within(cs[k], c, i) /\ (cs[k].op \in Linking <=> i < cs[k].next)
    \/ (c \in Watch \/ cn[c] # <<>>) /\ \A k \in 1..Len(cs) : ~Within(cs[k], c, i)

HaveTwins ==
    \A c \in Node : \A i \in 1..Len(prods[c]) :
        LET e == prods[c][i] IN
        On(calls, cons, c, i) /\ e.node # NoNode =>
            /\ e.at \in 1..Len(cons[e.node])
            /\ cons[e.node][e.at].node = c /\ cons[e.node][e.at].at = i

AreTwins ==
    \A p \in Node : \A k \in 1..Len(cons[p]) :
        LET e == cons[p][k] IN
        /\ e.at \in 1..Len(prods[e.node])
        /\ prods[e.node][e.at].node = p /\ prods[e.node][e.at].at = k
        /\ On(calls, cons, e.node, e.at)

IInv ==
    /\ Types /\ Leaves /\ Runs /\ Holes /\ Grounded /\ Rooted
    /\ Frames /\ OneCall(calls) /\ HaveTwins /\ AreTwins

-----------------------------------------------------------------------------
LEMMA NodeFacts ==
    /\ Producer \subseteq Node /\ Consumer \subseteq Node /\ NoNode \notin Node
    /\ \A w \in Watch : w \notin Producer
    /\ \A s \in Signal : s \notin Consumer
BY EdgeNodes DEF Producer, Consumer, Node

LEMMA CurIs ==
    ASSUME Types, calls # <<>>
    PROVE  /\ Len(calls) \in Nat /\ Len(calls) >= 1 /\ Cur = calls[Len(calls)] /\ Cur \in Frame
           /\ \A k \in 1..Len(calls) : calls[k] \in Frame
BY DEF Types, Cur

LEMMA ListsAre ==
    ASSUME Types, NEW n \in Node
    PROVE  /\ Len(prods[n]) \in Nat /\ \A i \in 1..Len(prods[n]) : prods[n][i] \in Entry
           /\ Len(cons[n]) \in Nat /\ \A i \in 1..Len(cons[n]) : cons[n][i] \in Twin
           /\ cons[n] = <<>> <=> Len(cons[n]) = 0
           /\ prods[n] = <<>> <=> Len(prods[n]) = 0
<1>1. prods[n] \in Seq(Entry) /\ cons[n] \in Seq(Twin) BY DEF Types
<1> QED BY <1>1

LEMMA RunningIs ==
    ASSUME Types
    PROVE  /\ Len(running) \in Nat /\ (running # <<>> => Len(running) >= 1)
           /\ \A k \in 1..Len(running) :
                 /\ running[k] \in Run
                 /\ running[k].node \in Consumer /\ running[k].node \in Node
                 /\ running[k].next \in Nat
<1>1. running \in Seq(Run) BY DEF Types
<1>2. ASSUME NEW k \in 1..Len(running)
      PROVE  /\ running[k] \in Run
             /\ running[k].node \in Consumer /\ running[k].node \in Node
             /\ running[k].next \in Nat
  <2>1. running[k] \in Run BY <1>1
  <2> QED BY <2>1, NodeFacts DEF Run
<1>3. Len(running) \in Nat /\ (running # <<>> => Len(running) # 0) BY <1>1
<1> QED BY <1>2, <1>3

\* What a call and the call that made it have to do with each other.
LEMMA InnerIs ==
    ASSUME Types, Frames, NEW k \in 2..Len(calls)
    PROVE  /\ k \in 1..Len(calls) /\ k - 1 \in 1..Len(calls)
           /\ Inner(calls[k], calls[k - 1])
           /\ calls[k - 1].next \in calls[k - 1].first..calls[k - 1].last
           /\ calls[k - 1].next \in 1..Len(prods[calls[k - 1].node])
           /\ calls[k].node \in Producer /\ calls[k].op \in {"add", "remove"}
<1>1. k \in 1..Len(calls) /\ k - 1 \in 1..Len(calls) /\ k # 1 BY DEF Types
<1>2. Inner(calls[k], calls[k - 1]) /\ InRange(calls[k - 1]) BY <1>1 DEF Frames
<1>3. calls[k - 1] \in Frame /\ calls[k] \in Frame BY <1>1 DEF Types
<1>4. calls[k - 1].node \in Node /\ calls[k - 1].first \in Nat /\ calls[k - 1].next \in Nat
      /\ calls[k - 1].last \in Nat
  BY <1>3 DEF Frame
<1>5. Len(prods[calls[k - 1].node]) \in Nat BY <1>4, ListsAre
<1>6. calls[k - 1].next \in calls[k - 1].first..calls[k - 1].last
      /\ calls[k - 1].next \in 1..Len(prods[calls[k - 1].node])
  <2>1. calls[k - 1].next <= calls[k - 1].last BY <1>2 DEF Inner
  <2>2. /\ calls[k - 1].first # 0 /\ calls[k - 1].first <= calls[k - 1].next
        /\ calls[k - 1].last <= Len(prods[calls[k - 1].node])
    BY <1>2 DEF InRange
  <2> QED BY <1>4, <1>5, <2>1, <2>2
<1>7. calls[k].node \in Producer BY <1>2, <1>6 DEF Inner, InRange
<1> QED BY <1>1, <1>2, <1>6, <1>7 DEF Inner

\* The innermost call, when it is one of the two recursive functions.
LEMMA BottomIs ==
    ASSUME Types, Frames, calls # <<>>, Cur.op \notin {"add", "remove"}
    PROVE  Len(calls) = 1 /\ Cur = calls[1] /\ Base(Cur) /\ InRange(Cur)
<1>1. Len(calls) \in Nat /\ Len(calls) >= 1 /\ Cur = calls[Len(calls)] BY CurIs
<1>2. Len(calls) = 1
  <2> SUFFICES ASSUME Len(calls) # 1 PROVE FALSE OBVIOUS
  <2>1. PICK n \in Nat : n = Len(calls) /\ n >= 1 /\ n # 1 BY <1>1
  <2>2. n \in 2..n BY <2>1
  <2> QED BY <1>1, <2>1, <2>2, InnerIs
<1> QED BY <1>1, <1>2 DEF Frames

LEMMA DeepIs ==
    ASSUME Types, Frames, calls # <<>>, Cur.op \in {"add", "remove"}
    PROVE  Len(calls) \in 2..Len(calls)
<1>1. Len(calls) \in Nat /\ Len(calls) >= 1 /\ Cur = calls[Len(calls)] BY CurIs
<1>2. Len(calls) # 1
  <2> SUFFICES ASSUME Len(calls) = 1 PROVE FALSE OBVIOUS
  <2>1. Base(Cur) BY <1>1 DEF Frames
  <2> QED BY <2>1 DEF Base
<1>3. PICK n \in Nat : n = Len(calls) /\ n >= 1 /\ n # 1 BY <1>1, <1>2
<1>4. n \in 2..n BY <1>3
<1> QED BY <1>3, <1>4

-----------------------------------------------------------------------------
LEMMA OnFrame ==
    ASSUME NEW cs, NEW cn, OneCall(cs), NEW k \in 1..Len(cs), NEW i
    PROVE  On(cs, cn, cs[k].node, i) <=>
              IF i \in cs[k].first..cs[k].last
              THEN cs[k].op \in Linking <=> i < cs[k].next
              ELSE cs[k].node \in Watch \/ cn[cs[k].node] # <<>>
<1>1. \A j \in 1..Len(cs) : Within(cs[j], cs[k].node, i) => j = k BY DEF OneCall, Within
<1>2. Within(cs[k], cs[k].node, i) <=> i \in cs[k].first..cs[k].last BY DEF Within
<1> QED BY <1>1, <1>2 DEF On

LEMMA OnFree ==
    ASSUME NEW cs, NEW cn, NEW c, NEW i, \A k \in 1..Len(cs) : cs[k].node # c
    PROVE  On(cs, cn, c, i) <=> c \in Watch \/ cn[c] # <<>>
BY DEF On, Within

-----------------------------------------------------------------------------
\* p is what the innermost call is about, made for the i-th dependency of c.
Called(p, c, i) ==
    /\ calls # <<>> /\ Cur.op \in {"add", "remove"}
    /\ p = Cur.node /\ c = Caller.node /\ i = Caller.next

LEMMA CalledIs ==
    ASSUME Types, Frames, OneCall(calls), NEW p, NEW c, NEW i, Called(p, c, i)
    PROVE  /\ p \in Producer /\ p \in Node /\ c \in Node /\ c # p
           /\ i \in 1..Len(prods[c]) /\ prods[c][i].node = p
           /\ \A k \in 1..Len(calls) : calls[k].node = p => k = Len(calls)
           /\ \A k \in 1..Len(calls) : calls[k].node = c => k = Len(calls) - 1
           /\ Len(calls) \in 2..Len(calls) /\ Len(calls) - 1 \in 1..Len(calls)
           /\ Inner(Cur, Caller) /\ i \in Caller.first..Caller.last
           /\ Cur = calls[Len(calls)] /\ Caller = calls[Len(calls) - 1]
<1>1. Len(calls) \in 2..Len(calls) BY DeepIs DEF Called
<1>2. /\ Cur = calls[Len(calls)] /\ Caller = calls[Len(calls) - 1]
      /\ p = Cur.node /\ c = Caller.node /\ i = Caller.next
  BY DEF Called, Cur, Caller
<1>3. PICK n : n = Len(calls) /\ n \in Nat /\ n >= 2 BY <1>1 DEF Types
<1>4. n \in 1..n /\ n - 1 \in 1..n /\ n # n - 1 BY <1>3
<1>5. c \in Node
  <2>1. Caller \in Frame BY <1>2, <1>3, <1>4, CurIs
  <2> QED BY <1>2, <2>1 DEF Frame
<1>6. /\ Inner(Cur, Caller) /\ i \in Caller.first..Caller.last
      /\ i \in 1..Len(prods[c]) /\ p \in Producer
  BY <1>1, <1>2, InnerIs
<1>7. prods[c][i].node = p BY <1>2, <1>6 DEF Inner
<1>8. /\ \A k \in 1..n : calls[k].node = p => k = n
      /\ \A k \in 1..n : calls[k].node = c => k = n - 1
  BY <1>2, <1>3, <1>4 DEF OneCall
<1>9. c # p BY <1>2, <1>3, <1>4, <1>8
<1> QED BY <1>1, <1>2, <1>3, <1>4, <1>5, <1>6, <1>7, <1>8, <1>9, NodeFacts

LEMMA ReturnIs ==
    ASSUME Types, Len(calls) \in 2..Len(calls), Return
    PROVE  /\ calls' \in Seq(Frame) /\ Len(calls') = Len(calls) - 1
           /\ \A k \in 1..(Len(calls) - 1) :
                 /\ k \in 1..Len(calls) /\ calls[k] \in Frame /\ calls'[k] \in Frame
                 /\ calls'[k].op = calls[k].op /\ calls'[k].node = calls[k].node
                 /\ calls'[k].first = calls[k].first /\ calls'[k].last = calls[k].last
                 /\ calls'[k].arg = calls[k].arg
                 /\ k # Len(calls) - 1 => calls'[k] = calls[k]
                 /\ k = Len(calls) - 1 => calls'[k].next = calls[k].next + 1
<1>1. PICK n \in Nat : n = Len(calls) /\ n >= 2 BY DEF Types
<1> DEFINE g(k) == IF k = n - 1 THEN [calls[k] EXCEPT !.next = @ + 1] ELSE calls[k]
<1>2. calls' = [k \in 1..(n - 1) |-> g(k)] BY <1>1 DEF Return
<1>3. ASSUME NEW k \in 1..(n - 1)
      PROVE  /\ k \in 1..n /\ calls[k] \in Frame /\ g(k) \in Frame
             /\ g(k).op = calls[k].op /\ g(k).node = calls[k].node
             /\ g(k).first = calls[k].first /\ g(k).last = calls[k].last
             /\ g(k).arg = calls[k].arg
             /\ k # n - 1 => g(k) = calls[k]
             /\ k = n - 1 => g(k).next = calls[k].next + 1
  <2>1. k \in 1..n BY <1>1
  <2>2. calls[k] \in Frame BY <1>1, <2>1 DEF Types
  <2>3. CASE k = n - 1
    <3>1. PICK f \in Frame : f = calls[k] BY <2>2
    <3>2. PICK h : h = [f EXCEPT !.next = f.next + 1] OBVIOUS
    <3>3. /\ h \in Frame /\ h.op = f.op /\ h.node = f.node /\ h.first = f.first
          /\ h.last = f.last /\ h.arg = f.arg /\ h.next = f.next + 1
      BY <3>2 DEF Frame
    <3>4. g(k) = h BY <2>3, <3>1, <3>2
    <3> QED BY <2>1, <2>2, <2>3, <3>1, <3>3, <3>4
  <2>4. CASE k # n - 1
    <3>1. g(k) = calls[k] BY <2>4
    <3> QED BY <2>1, <2>2, <2>4, <3>1
  <2> QED BY <2>3, <2>4
<1> HIDE DEF g
<1>4. n - 1 \in Nat BY <1>1
<1>5. calls' \in Seq(Frame) /\ Len(calls') = n - 1 /\ \A k \in 1..(n - 1) : calls'[k] = g(k)
  BY <1>2, <1>3, <1>4
<1>6. Len(calls) - 1 = n - 1 /\ calls' \in Seq(Frame) /\ Len(calls') = Len(calls) - 1
  BY <1>1, <1>5
<1> SUFFICES ASSUME NEW k \in 1..(Len(calls) - 1)
             PROVE  /\ k \in 1..Len(calls) /\ calls[k] \in Frame /\ calls'[k] \in Frame
                    /\ calls'[k].op = calls[k].op /\ calls'[k].node = calls[k].node
                    /\ calls'[k].first = calls[k].first /\ calls'[k].last = calls[k].last
                    /\ calls'[k].arg = calls[k].arg
                    /\ k # Len(calls) - 1 => calls'[k] = calls[k]
                    /\ k = Len(calls) - 1 => calls'[k].next = calls[k].next + 1
  BY <1>6
<1>7. k \in 1..(n - 1) /\ calls'[k] = g(k) BY <1>5, <1>6
<1> QED BY <1>1, <1>3, <1>6, <1>7

\* What a return does to the loop of the caller, and to no other.
LEMMA OnReturn ==
    ASSUME Types, Frames, OneCall(calls), NEW p, NEW c, NEW i, Called(p, c, i), Return
    PROVE  /\ OneCall(calls')
           /\ On(calls, cons, c, i) <=> Caller.op \notin Linking
           /\ \A n, j : n # p /\ cons'[n] = cons[n] =>
                 (On(calls', cons', n, j) <=>
                    IF n = c /\ j = i THEN Caller.op \in Linking ELSE On(calls, cons, n, j))
           /\ \A j : On(calls', cons', p, j) <=> p \in Watch \/ cons'[p] # <<>>
<1>0. Len(calls) \in Nat /\ Len(calls) \in 2..Len(calls) BY CalledIs DEF Types
<1>1. PICK m \in Nat : m = Len(calls) - 1 /\ m >= 1 /\ Len(calls) = m + 1 BY <1>0
<1>2. /\ m \in 1..Len(calls) /\ Caller = calls[m] /\ c = calls[m].node /\ i = calls[m].next
      /\ i \in calls[m].first..calls[m].last /\ c # p /\ calls[m + 1].node = p
      /\ \A k \in 1..Len(calls) : calls[k].node = p => k = m + 1
      /\ \A k \in 1..Len(calls) : calls[k].node = c => k = m
  BY <1>1, CalledIs DEF Called
<1>3. /\ Len(calls') = m
      /\ \A k \in 1..m :
             /\ k \in 1..Len(calls) /\ calls[k] \in Frame
             /\ calls'[k].op = calls[k].op /\ calls'[k].node = calls[k].node
             /\ calls'[k].first = calls[k].first /\ calls'[k].last = calls[k].last
             /\ k # m => calls'[k] = calls[k]
             /\ k = m => calls'[k].next = calls[k].next + 1
  BY <1>1, CalledIs, ReturnIs
<1>4. OneCall(calls') BY <1>3 DEF OneCall
<1>5. i \in Nat
  <2>1. calls[m] \in Frame BY <1>1, <1>3
  <2> QED BY <1>2, <2>1 DEF Frame
<1>6. On(calls, cons, c, i) <=> Caller.op \notin Linking
  <2>0. i = calls[m].next BY <1>2
  <2>1. ~(i < calls[m].next) BY <1>5, <2>0
  <2> QED BY <1>2, <2>1, OnFrame
<1>7. ASSUME NEW n, NEW j, n # p, cons'[n] = cons[n]
      PROVE  On(calls', cons', n, j) <=>
               IF n = c /\ j = i THEN Caller.op \in Linking ELSE On(calls, cons, n, j)
  <2>1. CASE n = c
    <3>1. m \in 1..Len(calls')
      <4>1. Len(calls') = m BY <1>3
      <4>2. m \in 1..m BY <1>1
      <4> QED BY <4>1, <4>2
    <3>2. On(calls', cons', c, j) <=>
             IF j \in calls[m].first..calls[m].last
             THEN calls[m].op \in Linking <=> j < i + 1
             ELSE c \in Watch \/ cons[c] # <<>>
      <4>1. On(calls', cons', calls'[m].node, j) <=>
               IF j \in calls'[m].first..calls'[m].last
               THEN calls'[m].op \in Linking <=> j < calls'[m].next
               ELSE calls'[m].node \in Watch \/ cons'[calls'[m].node] # <<>>
        BY <1>4, <3>1, OnFrame
      <4>2. /\ calls'[m].node = c /\ calls'[m].first = calls[m].first
            /\ calls'[m].last = calls[m].last /\ calls'[m].op = calls[m].op
            /\ calls'[m].next = i + 1 /\ cons'[c] = cons[c]
        BY <1>1, <1>2, <1>3, <1>7, <2>1
      <4> QED BY <4>1, <4>2
    <3>3. On(calls, cons, c, j) <=>
             IF j \in calls[m].first..calls[m].last
             THEN calls[m].op \in Linking <=> j < i
             ELSE c \in Watch \/ cons[c] # <<>>
      BY <1>2, OnFrame
    <3>4. CASE j \in calls[m].first..calls[m].last
      <4>1. calls[m] \in Frame BY <1>1, <1>3
      <4>2. j \in Nat BY <3>4, <4>1 DEF Frame
      <4>3. j # i => (j < i + 1 <=> j < i) BY <1>5, <4>2
      <4>4. i < i + 1 BY <1>5
      <4> QED BY <1>2, <2>1, <3>2, <3>3, <3>4, <4>3, <4>4
    <3>5. CASE j \notin calls[m].first..calls[m].last
      BY <1>2, <2>1, <3>2, <3>3, <3>5
    <3> QED BY <3>4, <3>5
  <2>2. CASE n # c /\ \E k \in 1..m : calls[k].node = n
    <3>1. PICK k \in 1..m : calls[k].node = n BY <2>2
    <3>2. k # m /\ calls'[k] = calls[k] /\ k \in 1..Len(calls) /\ k \in 1..Len(calls')
      BY <1>2, <1>3, <2>2, <3>1
    <3> QED BY <1>4, <1>7, <2>2, <3>1, <3>2, OnFrame
  <2>3. CASE n # c /\ \A k \in 1..m : calls[k].node # n
    <3>1. \A k \in 1..Len(calls') : calls'[k].node # n BY <1>3, <2>3
    <3>2. \A k \in 1..Len(calls) : calls[k].node # n
      <4>1. \A k \in 1..Len(calls) : k = m + 1 \/ k \in 1..m BY <1>1
      <4> QED BY <1>2, <1>7, <2>3, <4>1
    <3> QED BY <1>7, <2>3, <3>1, <3>2, OnFree
  <2> QED BY <2>1, <2>2, <2>3
<1>8. ASSUME NEW j PROVE On(calls', cons', p, j) <=> p \in Watch \/ cons'[p] # <<>>
  <2>1. \A k \in 1..Len(calls') : calls'[k].node # p BY <1>1, <1>2, <1>3
  <2> QED BY <2>1, OnFree
<1> QED BY <1>4, <1>6, <1>7, <1>8

-----------------------------------------------------------------------------
\* The dependencies are the same, and so are their indices but for the i-th of c.
SameNodes ==
    \A n \in Node :
        /\ Len(prods'[n]) = Len(prods[n])
        /\ \A j \in 1..Len(prods[n]) : prods'[n][j].node = prods[n][j].node

SameBut(c, i) ==
    \A n \in Node : \A j \in 1..Len(prods[n]) :
        ~(n = c /\ j = i) => prods'[n][j].at = prods[n][j].at

LEMMA Pointed ==
    ASSUME Types, NEW c \in Node, NEW i \in 1..Len(prods[c]), NEW v \in Nat,
           prods' = [prods EXCEPT ![c][i].at = v]
    PROVE  /\ prods' \in [Node -> Seq(Entry)] /\ SameNodes /\ SameBut(c, i)
           /\ prods'[c][i].at = v
<1>1. prods[c] \in Seq(Entry) BY DEF Types
<1>2. prods[c][i] \in Entry BY <1>1
<1> DEFINE e == [prods[c][i] EXCEPT !.at = v]
           l == [prods[c] EXCEPT ![i] = e]
<1>3. e \in Entry /\ e.node = prods[c][i].node /\ e.at = v BY <1>2 DEF Entry
<1>4. prods' = [prods EXCEPT ![c] = l] OBVIOUS
<1> HIDE DEF e
<1>5. /\ l \in Seq(Entry) /\ Len(l) = Len(prods[c]) /\ l[i] = e
      /\ \A j \in 1..Len(prods[c]) : j # i => l[j] = prods[c][j]
  BY <1>1, <1>3
<1> HIDE DEF l
<1>6. prods' \in [Node -> Seq(Entry)] BY <1>4, <1>5 DEF Types
<1>7. prods'[c] = l /\ \A n \in Node : n # c => prods'[n] = prods[n] BY <1>4 DEF Types
<1>8. SameNodes
  <2> SUFFICES ASSUME NEW n \in Node
               PROVE  /\ Len(prods'[n]) = Len(prods[n])
                      /\ \A j \in 1..Len(prods[n]) : prods'[n][j].node = prods[n][j].node
    BY DEF SameNodes
  <2>1. CASE n = c BY <1>3, <1>5, <1>7, <2>1
  <2>2. CASE n # c BY <1>7, <2>2
  <2> QED BY <2>1, <2>2
<1>9. SameBut(c, i) BY <1>5, <1>7 DEF SameBut
<1> QED BY <1>3, <1>5, <1>6, <1>7, <1>8, <1>9

LEMMA CalledByConsumer ==
    ASSUME IInv, NEW p, NEW c, NEW i, Called(p, c, i)
    PROVE  c \in Consumer /\ i \in Nat
<1>1. c \in Node /\ i \in 1..Len(prods[c]) BY CalledIs DEF IInv
<1>2. c \notin Signal
  <2> SUFFICES ASSUME c \in Signal PROVE FALSE OBVIOUS
  <2>1. Len(prods[c]) = 0 BY DEF IInv, Leaves
  <2> QED BY <1>1, <2>1
<1> QED BY <1>1, <1>2 DEF Node

LEMMA AttachIs ==
    ASSUME IInv, NEW p, NEW c, NEW i, Called(p, c, i), Attach
    PROVE  /\ prods' \in [Node -> Seq(Entry)] /\ SameNodes /\ SameBut(c, i)
           /\ prods'[c][i].at = Len(cons[p]) + 1
           /\ cons' \in [Node -> Seq(Twin)] /\ Len(cons'[p]) = Len(cons[p]) + 1
           /\ cons'[p][Len(cons[p]) + 1].node = c /\ cons'[p][Len(cons[p]) + 1].at = i
           /\ \A k \in 1..Len(cons[p]) : cons'[p][k] = cons[p][k]
           /\ \A n \in Node : n # p => cons'[n] = cons[n]
<1>1. /\ p \in Node /\ c \in Node /\ i \in 1..Len(prods[c]) /\ Types BY CalledIs DEF IInv
<1>2. c \in Consumer /\ i \in Nat BY CalledByConsumer
<1>3. cons[p] \in Seq(Twin) /\ Len(cons[p]) \in Nat BY <1>1 DEF Types
<1>4. PICK t : t = [node |-> c, at |-> i] OBVIOUS
<1>5. t \in Twin /\ t.node = c /\ t.at = i BY <1>2, <1>4 DEF Twin
<1>6. /\ cons' = [cons EXCEPT ![p] = Append(cons[p], t)]
      /\ prods' = [prods EXCEPT ![c][i].at = Len(cons[p]) + 1]
  BY <1>4 DEF Attach, Called
<1>7. /\ prods' \in [Node -> Seq(Entry)] /\ SameNodes /\ SameBut(c, i)
      /\ prods'[c][i].at = Len(cons[p]) + 1
  <2>1. Len(cons[p]) + 1 \in Nat BY <1>3
  <2> QED BY <1>1, <1>6, <2>1, Pointed
<1> DEFINE l == Append(cons[p], t)
<1>8. /\ l \in Seq(Twin) /\ Len(l) = Len(cons[p]) + 1 /\ l[Len(cons[p]) + 1] = t
      /\ \A k \in 1..Len(cons[p]) : l[k] = cons[p][k]
  BY <1>3, <1>5
<1> HIDE DEF l
<1>9. /\ cons' \in [Node -> Seq(Twin)] /\ cons'[p] = l
      /\ \A n \in Node : n # p => cons'[n] = cons[n]
  BY <1>1, <1>6, <1>8 DEF l, Types
<1> QED BY <1>5, <1>7, <1>8, <1>9

LEMMA TwinOf ==
    ASSUME IInv, NEW n \in Node, NEW j \in 1..Len(prods[n]), On(calls, cons, n, j),
           NEW q, q = prods[n][j].node, q # NoNode, NEW a, a = prods[n][j].at
    PROVE  q \in Node /\ a \in 1..Len(cons[q]) /\ cons[q][a].node = n /\ cons[q][a].at = j
<1>1. HaveTwins BY DEF IInv
<1>2. On(calls, cons, n, j) /\ prods[n][j].node # NoNode =>
         /\ prods[n][j].at \in 1..Len(cons[prods[n][j].node])
         /\ cons[prods[n][j].node][prods[n][j].at].node = n
         /\ cons[prods[n][j].node][prods[n][j].at].at = j
  BY <1>1 DEF HaveTwins
<1>3. prods[n][j] \in Entry BY ListsAre DEF IInv
<1> QED BY <1>2, <1>3, NodeFacts DEF Entry

LEMMA TwinFrom ==
    ASSUME IInv, NEW q \in Node, NEW k \in 1..Len(cons[q]),
           NEW n, n = cons[q][k].node, NEW j, j = cons[q][k].at
    PROVE  /\ n \in Node /\ n \in Consumer /\ j \in 1..Len(prods[n])
           /\ prods[n][j].node = q /\ prods[n][j].at = k /\ On(calls, cons, n, j)
<1>1. AreTwins BY DEF IInv
<1>2. cons[q][k] \in Twin BY ListsAre DEF IInv
<1> QED BY <1>1, <1>2, NodeFacts DEF AreTwins, Twin

\* Of the m consumers of p the k-th, the i-th dependency of c, has been removed,
\* and the last one, the r-th of q, has taken its place.
Removed(p, c, i, k, m, q, r) ==
    /\ m = Len(cons[p]) /\ m \in Nat /\ k \in 1..m
    /\ prods[c][i].at = k /\ cons[p][k].node = c /\ cons[p][k].at = i
    /\ q = cons[p][m].node /\ r = cons[p][m].at /\ q \in Node /\ r \in 1..Len(prods[q])
    /\ prods[q][r].node = p /\ prods[q][r].at = m /\ On(calls, cons, q, r)
    /\ prods' \in [Node -> Seq(Entry)] /\ SameNodes /\ SameBut(q, r)
    /\ prods'[q][r].at = IF k < m THEN k ELSE prods[q][r].at
    /\ cons' \in [Node -> Seq(Twin)] /\ Len(cons'[p]) = m - 1
    /\ \A j \in 1..(m - 1) : cons'[p][j] = IF j = k THEN cons[p][m] ELSE cons[p][j]
    /\ \A n \in Node : n # p => cons'[n] = cons[n]

LEMMA DetachIs ==
    ASSUME IInv, NEW p, NEW c, NEW i, Called(p, c, i), Detach
    PROVE  \E k, m, q, r : Removed(p, c, i, k, m, q, r)
<1>1. /\ p \in Node /\ c \in Node /\ i \in 1..Len(prods[c]) /\ Types /\ Frames /\ OneCall(calls)
      /\ prods[c][i].node = p /\ Inner(Cur, Caller)
  BY CalledIs DEF IInv
<1>2. Cur.op = "remove" /\ p = Cur.node /\ c = Caller.node /\ i = Caller.next
  BY DEF Detach, Ends, Called
<1>3. Caller.op \notin Linking /\ Cur.arg = prods[c][i].at BY <1>1, <1>2 DEF Inner
<1>4. Return BY DEF Detach
<1>5. On(calls, cons, c, i) BY <1>1, <1>3, <1>4, OnReturn
<1>6. p # NoNode BY <1>1, NodeFacts
<1>7. PICK k : k = prods[c][i].at /\ k = Cur.arg BY <1>3
<1>8. k \in 1..Len(cons[p]) /\ cons[p][k].node = c /\ cons[p][k].at = i
  <2>1. HaveTwins BY DEF IInv
  <2>2. On(calls, cons, c, i) /\ prods[c][i].node # NoNode =>
           /\ prods[c][i].at \in 1..Len(cons[prods[c][i].node])
           /\ cons[prods[c][i].node][prods[c][i].at].node = c
           /\ cons[prods[c][i].node][prods[c][i].at].at = i
    BY <1>1, <2>1 DEF HaveTwins
  <2> QED BY <1>1, <1>5, <1>6, <1>7, <2>2
<1>9. PICK m \in Nat : m = Len(cons[p]) BY <1>1, ListsAre
<1>10. m \in 1..m /\ k \in Nat BY <1>8, <1>9
<1>11. PICK q, r : q = cons[p][m].node /\ r = cons[p][m].at OBVIOUS
<1>12. cons[p] \in Seq(Twin) BY <1>1 DEF Types
<1>13. m \in 1..Len(cons[p]) BY <1>9, <1>10
<1>14. /\ q \in Node /\ r \in 1..Len(prods[q]) /\ prods[q][r].node = p /\ prods[q][r].at = m
       /\ On(calls, cons, q, r)
  BY <1>1, <1>11, <1>13, TwinFrom
<1>15. r \in Nat /\ cons[p][m] \in Twin BY <1>12, <1>13, <1>14
<1>16. /\ cons' = [cons EXCEPT ![p] = Without(p, k)]
       /\ prods' = IF k < m THEN [prods EXCEPT ![q][r].at = k] ELSE prods
  BY <1>2, <1>7, <1>9, <1>11 DEF Detach
<1>17. /\ prods' \in [Node -> Seq(Entry)] /\ SameNodes /\ SameBut(q, r)
       /\ prods'[q][r].at = IF k < m THEN k ELSE prods[q][r].at
  <2>1. CASE k < m
    <3>1. prods' = [prods EXCEPT ![q][r].at = k] BY <1>16, <2>1
    <3> QED BY <1>1, <1>10, <1>14, <1>15, <2>1, <3>1, Pointed
  <2>2. CASE ~(k < m)
    <3>1. prods' = prods BY <1>16, <2>2
    <3> QED BY <1>1, <2>2, <3>1 DEF Types, SameNodes, SameBut
  <2> QED BY <2>1, <2>2
<1> DEFINE h(j) == IF j = k THEN cons[p][m] ELSE cons[p][j]
           l == [j \in 1..(m - 1) |-> h(j)]
<1>18. \A j \in 1..(m - 1) : h(j) \in Twin
  <2>1. \A j \in 1..(m - 1) : cons[p][j] \in Twin BY <1>9, <1>12
  <2> QED BY <1>15, <2>1
<1>19. Without(p, k) = l BY <1>9 DEF Without
<1>20. m - 1 \in Nat BY <1>8, <1>9
<1> HIDE DEF h
<1>21. l \in Seq(Twin) /\ Len(l) = m - 1 /\ \A j \in 1..(m - 1) : l[j] = h(j) BY <1>18, <1>20
<1> HIDE DEF l
<1>22. /\ cons' \in [Node -> Seq(Twin)] /\ cons'[p] = l
       /\ \A n \in Node : n # p => cons'[n] = cons[n]
  BY <1>1, <1>16, <1>19, <1>21 DEF Types
<1>23. \A j \in 1..(m - 1) : cons'[p][j] = IF j = k THEN cons[p][m] ELSE cons[p][j]
  BY <1>21, <1>22 DEF h
<1>24. Removed(p, c, i, k, m, q, r)
  BY <1>7, <1>8, <1>9, <1>11, <1>14, <1>15, <1>17, <1>21, <1>22, <1>23 DEF Removed
<1> QED BY <1>24

-----------------------------------------------------------------------------
\* A producer that is about to gain a consumer has linked all its dependencies;
\* one that is about to lose its last one has unlinked them.
LEMMA OnAttach ==
    ASSUME IInv, NEW p, NEW c, NEW i, Called(p, c, i), Attach
    PROVE  /\ OneCall(calls') /\ ~On(calls, cons, c, i)
           /\ \A n \in Node : \A j \in 1..Len(prods[n]) :
                 On(calls', cons', n, j) <=> On(calls, cons, n, j) \/ (n = c /\ j = i)
<1>1. Types /\ Frames /\ OneCall(calls) BY DEF IInv
<1>2. /\ p \in Node /\ Inner(Cur, Caller) /\ Cur = calls[Len(calls)] /\ p = Cur.node
      /\ Len(calls) \in 1..Len(calls)
  <2>1. Len(calls) \in 1..Len(calls) BY <1>1, CurIs DEF Called
  <2> QED BY <1>1, <2>1, CalledIs DEF Called
<1>3. Cur.op = "add" /\ Cur.next > Cur.last /\ Return BY DEF Attach, Ends
<1>4. Caller.op \in Linking BY <1>2, <1>3 DEF Inner
<1>5. ~On(calls, cons, c, i) /\ OneCall(calls') BY <1>1, <1>3, <1>4, OnReturn
<1>6. \A n \in Node : n # p => cons'[n] = cons[n] BY AttachIs
<1>7. ASSUME NEW j \in 1..Len(prods[p])
      PROVE  On(calls, cons, p, j) /\ On(calls', cons', p, j)
  <2>1. On(calls, cons, p, j) <=> IF j \in Cur.first..Cur.last
                                  THEN Cur.op \in Linking <=> j < Cur.next
                                  ELSE p \in Watch \/ cons[p] # <<>>
    BY <1>1, <1>2, OnFrame
  <2>2. Cur.first = 1 /\ Cur.last = IF cons[p] = <<>> THEN Len(prods[p]) ELSE 0
    BY <1>2, <1>3 DEF Inner
  <2>3. Cur \in Frame BY <1>1, CurIs DEF Called
  <2>4. Cur.next \in Nat /\ Cur.last \in Nat /\ Len(prods[p]) \in Nat
    BY <1>1, <1>2, <2>3, ListsAre DEF Frame
  <2>5. Cur.op \in Linking BY <1>3 DEF Linking
  <2>6. On(calls, cons, p, j)
    <3>1. CASE cons[p] = <<>>
      <4>1. Cur.last = Len(prods[p]) BY <2>2, <3>1
      <4>2. j \in Cur.first..Cur.last /\ j < Cur.next BY <1>3, <2>2, <2>4, <4>1
      <4> QED BY <2>1, <2>5, <4>2
    <3>2. CASE cons[p] # <<>>
      <4>1. j \notin Cur.first..Cur.last BY <2>2, <3>2
      <4> QED BY <2>1, <3>2, <4>1
    <3> QED BY <3>1, <3>2
  <2>7. cons'[p] # <<>>
    <3>1. Len(cons'[p]) = Len(cons[p]) + 1 /\ Len(cons[p]) \in Nat
      BY <1>1, <1>2, AttachIs, ListsAre
    <3> QED BY <3>1
  <2> QED BY <1>1, <1>3, <2>6, <2>7, OnReturn
<1>8. c # p BY <1>1, CalledIs
<1>9. ASSUME NEW n \in Node, n # p, NEW j
      PROVE  On(calls', cons', n, j) <=> On(calls, cons, n, j) \/ (n = c /\ j = i)
  BY <1>1, <1>3, <1>4, <1>6, <1>9, OnReturn
<1> QED BY <1>5, <1>7, <1>8, <1>9

LEMMA OnDetach ==
    ASSUME IInv, NEW p, NEW c, NEW i, Called(p, c, i), Detach
    PROVE  /\ OneCall(calls')
           /\ \A n \in Node : \A j \in 1..Len(prods[n]) :
                 On(calls', cons', n, j) <=> On(calls, cons, n, j) /\ ~(n = c /\ j = i)
<1>1. Types /\ Frames /\ OneCall(calls) BY DEF IInv
<1>2. /\ p \in Node /\ Inner(Cur, Caller) /\ Cur = calls[Len(calls)] /\ p = Cur.node
      /\ Len(calls) \in 1..Len(calls) /\ p \notin Watch
  <2>1. Len(calls) \in 1..Len(calls) BY <1>1, CurIs DEF Called
  <2> QED BY <1>1, <2>1, CalledIs, NodeFacts DEF Called
<1>3. Cur.op = "remove" /\ Cur.next > Cur.last /\ Return BY DEF Detach, Ends
<1>4. Caller.op \notin Linking BY <1>2, <1>3 DEF Inner
<1>5. OneCall(calls') BY <1>1, <1>3, OnReturn
<1>6. PICK m \in Nat : /\ m = Len(cons[p]) /\ m # 0 /\ Len(cons'[p]) = m - 1
                       /\ cons' \in [Node -> Seq(Twin)]
                       /\ \A n \in Node : n # p => cons'[n] = cons[n]
  <2>1. PICK k, m, q, r : Removed(p, c, i, k, m, q, r) BY DetachIs
  <2>2. m \in Nat /\ k \in 1..m BY <2>1 DEF Removed
  <2>3. m # 0 BY <2>2
  <2>4. /\ m = Len(cons[p]) /\ Len(cons'[p]) = m - 1 /\ cons' \in [Node -> Seq(Twin)]
        /\ \A n \in Node : n # p => cons'[n] = cons[n]
    BY <2>1 DEF Removed
  <2> QED BY <2>2, <2>3, <2>4
<1>7. ASSUME NEW j \in 1..Len(prods[p])
      PROVE  On(calls, cons, p, j) <=> On(calls', cons', p, j)
  <2>1. On(calls, cons, p, j) <=> IF j \in Cur.first..Cur.last
                                  THEN Cur.op \in Linking <=> j < Cur.next
                                  ELSE p \in Watch \/ cons[p] # <<>>
    BY <1>1, <1>2, OnFrame
  <2>2. Cur.first = 1 /\ Cur.last = IF m = 1 THEN Len(prods[p]) ELSE 0
    BY <1>2, <1>3, <1>6 DEF Inner
  <2>3. Cur \in Frame BY <1>1, CurIs DEF Called
  <2>4. Cur.next \in Nat /\ Cur.last \in Nat /\ Len(prods[p]) \in Nat
    BY <1>1, <1>2, <2>3, ListsAre DEF Frame
  <2>5. Cur.op \notin Linking BY <1>3 DEF Linking
  <2>6. cons'[p] \in Seq(Twin) BY <1>2, <1>6
  <2>7. On(calls', cons', p, j) <=> cons'[p] # <<>> BY <1>1, <1>2, <1>3, OnReturn
  <2>8. CASE m = 1
    <3>1. j \in Cur.first..Cur.last /\ j < Cur.next BY <1>3, <2>2, <2>4, <2>8
    <3>2. cons'[p] = <<>> BY <1>6, <2>6, <2>8
    <3> QED BY <2>1, <2>5, <2>7, <3>1, <3>2
  <2>9. CASE m # 1
    <3>1. j \notin Cur.first..Cur.last BY <2>2, <2>9
    <3>2. cons[p] # <<>> BY <1>1, <1>2, <1>6, ListsAre
    <3>3. cons'[p] # <<>>
      <4>1. Len(cons'[p]) # 0 BY <1>6, <2>9
      <4> QED BY <4>1
    <3> QED BY <1>2, <2>1, <2>7, <3>1, <3>2, <3>3
  <2> QED BY <2>8, <2>9
<1>8. c # p BY <1>1, CalledIs
<1>9. ASSUME NEW n \in Node, n # p, NEW j
      PROVE  On(calls', cons', n, j) <=> On(calls, cons, n, j) /\ ~(n = c /\ j = i)
  <2>1. cons'[n] = cons[n] BY <1>6, <1>9
  <2>2. On(calls', cons', n, j) <=>
           IF n = c /\ j = i THEN Caller.op \in Linking ELSE On(calls, cons, n, j)
    BY <1>1, <1>3, <1>9, <2>1, OnReturn
  <2> QED BY <1>4, <2>2
<1> QED BY <1>5, <1>7, <1>8, <1>9

LEMMA AttachTwins ==
    ASSUME IInv, NEW p, NEW c, NEW i, Called(p, c, i), Attach
    PROVE  HaveTwins' /\ AreTwins'
<1>1. /\ p \in Node /\ c \in Node /\ i \in 1..Len(prods[c]) /\ prods[c][i].node = p
      /\ Len(cons[p]) \in Nat
  BY CalledIs, ListsAre DEF IInv
<1>2. /\ SameNodes /\ SameBut(c, i) /\ prods'[c][i].at = Len(cons[p]) + 1
      /\ Len(cons'[p]) = Len(cons[p]) + 1
      /\ cons'[p][Len(cons[p]) + 1].node = c /\ cons'[p][Len(cons[p]) + 1].at = i
      /\ \A k \in 1..Len(cons[p]) : cons'[p][k] = cons[p][k]
      /\ \A n \in Node : n # p => cons'[n] = cons[n]
  BY AttachIs
<1>3. /\ ~On(calls, cons, c, i)
      /\ \A n \in Node : \A j \in 1..Len(prods[n]) :
            On(calls', cons', n, j) <=> On(calls, cons, n, j) \/ (n = c /\ j = i)
  BY OnAttach
<1>4. PICK L \in Nat : L = Len(cons[p]) BY <1>1
<1>5. /\ L + 1 \in 1..(L + 1)
      /\ \A k \in 1..L : k \in 1..(L + 1)
      /\ \A k \in 1..(L + 1) : k = L + 1 \/ k \in 1..L
  OBVIOUS
<1>6. HaveTwins'
  <2> SUFFICES ASSUME NEW n \in Node, NEW j \in 1..Len(prods'[n]),
                      On(calls', cons', n, j), prods'[n][j].node # NoNode
               PROVE  /\ prods'[n][j].at \in 1..Len(cons'[prods'[n][j].node])
                      /\ cons'[prods'[n][j].node][prods'[n][j].at].node = n
                      /\ cons'[prods'[n][j].node][prods'[n][j].at].at = j
    BY DEF HaveTwins
  <2>1. j \in 1..Len(prods[n]) /\ prods'[n][j].node = prods[n][j].node BY <1>2 DEF SameNodes
  <2>2. PICK q : q = prods[n][j].node /\ q # NoNode BY <2>1
  <2>3. q \in Node
    <3>1. prods[n][j] \in Entry BY <2>1, ListsAre DEF IInv
    <3> QED BY <2>2, <3>1, NodeFacts DEF Entry
  <2>4. CASE n = c /\ j = i BY <1>1, <1>2, <1>4, <1>5, <2>1, <2>4
  <2>5. CASE ~(n = c /\ j = i)
    <3>1. On(calls, cons, n, j) BY <1>3, <2>1, <2>5
    <3>2. PICK a : a = prods[n][j].at OBVIOUS
    <3>3. a \in 1..Len(cons[q]) /\ cons[q][a].node = n /\ cons[q][a].at = j
      <4>1. HaveTwins BY DEF IInv
      <4>2. On(calls, cons, n, j) /\ prods[n][j].node # NoNode =>
               /\ prods[n][j].at \in 1..Len(cons[prods[n][j].node])
               /\ cons[prods[n][j].node][prods[n][j].at].node = n
               /\ cons[prods[n][j].node][prods[n][j].at].at = j
        BY <2>1, <4>1 DEF HaveTwins
      <4> QED BY <2>2, <3>1, <3>2, <4>2
    <3>4. prods'[n][j].at = a BY <1>2, <2>1, <2>5, <3>2 DEF SameBut
    <3>5. a \in 1..Len(cons'[q]) /\ cons'[q][a] = cons[q][a]
      BY <1>2, <1>4, <1>5, <2>3, <3>3
    <3> QED BY <2>1, <2>2, <3>3, <3>4, <3>5
  <2> QED BY <2>4, <2>5
<1>7. AreTwins'
  <2> SUFFICES ASSUME NEW q \in Node, NEW k \in 1..Len(cons'[q])
               PROVE  /\ cons'[q][k].at \in 1..Len(prods'[cons'[q][k].node])
                      /\ prods'[cons'[q][k].node][cons'[q][k].at].node = q
                      /\ prods'[cons'[q][k].node][cons'[q][k].at].at = k
                      /\ On(calls', cons', cons'[q][k].node, cons'[q][k].at)
    BY DEF AreTwins
  <2>1. CASE q = p /\ k = L + 1
    <3>1. cons'[q][k].node = c /\ cons'[q][k].at = i BY <1>2, <1>4, <2>1
    <3>2. i \in 1..Len(prods'[c]) /\ prods'[c][i].node = q BY <1>1, <1>2, <2>1 DEF SameNodes
    <3>3. prods'[c][i].at = k BY <1>2, <1>4, <2>1
    <3>4. On(calls', cons', c, i) BY <1>1, <1>3
    <3> QED BY <3>1, <3>2, <3>3, <3>4
  <2>2. CASE ~(q = p /\ k = L + 1)
    <3>1. k \in 1..Len(cons[q]) /\ cons'[q][k] = cons[q][k] BY <1>2, <1>4, <1>5, <2>2
    <3>2. PICK n, j : n = cons[q][k].node /\ j = cons[q][k].at OBVIOUS
    <3>3. n \in Node
      <4>1. cons[q][k] \in Twin BY <3>1, ListsAre DEF IInv
      <4> QED BY <3>2, <4>1, NodeFacts DEF Twin
    <3>4. /\ j \in 1..Len(prods[n]) /\ prods[n][j].node = q /\ prods[n][j].at = k
          /\ On(calls, cons, n, j)
      <4>1. AreTwins BY DEF IInv
      <4> QED BY <3>1, <3>2, <4>1 DEF AreTwins
    <3>5. ~(n = c /\ j = i) BY <1>3, <3>4
    <3>6. prods'[n][j].at = k BY <1>2, <3>3, <3>4, <3>5 DEF SameBut
    <3>7. /\ j \in 1..Len(prods'[n]) /\ prods'[n][j].node = q
      BY <1>2, <3>3, <3>4 DEF SameNodes
    <3>8. On(calls', cons', n, j) BY <1>3, <3>3, <3>4
    <3> QED BY <3>1, <3>2, <3>6, <3>7, <3>8
  <2> QED BY <2>1, <2>2
<1> QED BY <1>6, <1>7

LEMMA DetachTwins ==
    ASSUME IInv, NEW p, NEW c, NEW i, Called(p, c, i), Detach
    PROVE  HaveTwins' /\ AreTwins'
<1>1. p \in Node /\ c \in Node /\ i \in 1..Len(prods[c]) /\ prods[c][i].node = p
  BY CalledIs DEF IInv
<1>2. PICK k, m, q, r : Removed(p, c, i, k, m, q, r) BY DetachIs
<1>3. /\ m = Len(cons[p]) /\ m \in Nat /\ k \in 1..m
      /\ prods[c][i].at = k /\ cons[p][k].node = c /\ cons[p][k].at = i
      /\ q = cons[p][m].node /\ r = cons[p][m].at /\ q \in Node /\ r \in 1..Len(prods[q])
      /\ prods[q][r].node = p /\ prods[q][r].at = m /\ On(calls, cons, q, r)
  BY <1>2 DEF Removed
<1>4. /\ SameNodes /\ SameBut(q, r)
      /\ prods'[q][r].at = IF k < m THEN k ELSE prods[q][r].at
      /\ Len(cons'[p]) = m - 1
      /\ \A j \in 1..(m - 1) : cons'[p][j] = IF j = k THEN cons[p][m] ELSE cons[p][j]
      /\ \A n \in Node : n # p => cons'[n] = cons[n]
  BY <1>2 DEF Removed
<1>5. \A n \in Node : \A j \in 1..Len(prods[n]) :
         On(calls', cons', n, j) <=> On(calls, cons, n, j) /\ ~(n = c /\ j = i)
  BY OnDetach
<1>6. /\ k \in Nat /\ (k # m => k < m /\ k \in 1..(m - 1))
      /\ \A a \in 1..m : a # m => a \in 1..(m - 1)
      /\ \A a \in 1..(m - 1) : a \in 1..m /\ a # m /\ (k = m \/ k # m)
  BY <1>3
<1>7. HaveTwins'
  <2> SUFFICES ASSUME NEW n \in Node, NEW j \in 1..Len(prods'[n]),
                      On(calls', cons', n, j), prods'[n][j].node # NoNode
               PROVE  /\ prods'[n][j].at \in 1..Len(cons'[prods'[n][j].node])
                      /\ cons'[prods'[n][j].node][prods'[n][j].at].node = n
                      /\ cons'[prods'[n][j].node][prods'[n][j].at].at = j
    BY DEF HaveTwins
  <2>1. j \in 1..Len(prods[n]) /\ prods'[n][j].node = prods[n][j].node BY <1>4 DEF SameNodes
  <2>2. PICK x, a : x = prods[n][j].node /\ x # NoNode /\ a = prods[n][j].at BY <2>1
  <2>3. On(calls, cons, n, j) /\ ~(n = c /\ j = i) BY <1>5, <2>1
  <2>4. x \in Node /\ a \in 1..Len(cons[x]) /\ cons[x][a].node = n /\ cons[x][a].at = j
    BY <2>1, <2>2, <2>3, TwinOf
  <2>5. CASE n = q /\ j = r
    <3>1. x = p /\ a = m /\ k # m BY <1>3, <2>2, <2>3, <2>4, <2>5
    <3>2. prods'[n][j].at = k /\ k \in 1..(m - 1) BY <1>4, <1>6, <2>5, <3>1
    <3>3. cons'[p][k] = cons[p][m] BY <1>4, <3>2
    <3> QED BY <1>4, <2>1, <2>2, <2>4, <3>1, <3>2, <3>3
  <2>6. CASE ~(n = q /\ j = r)
    <3>1. prods'[n][j].at = a BY <1>4, <2>1, <2>2, <2>6 DEF SameBut
    <3>2. CASE x = p
      <4>1. a # m /\ a # k /\ a \in 1..m BY <1>3, <2>3, <2>4, <2>6, <3>2
      <4>2. a \in 1..(m - 1) /\ cons'[p][a] = cons[p][a] BY <1>4, <1>6, <4>1
      <4> QED BY <1>4, <2>1, <2>2, <2>4, <3>1, <3>2, <4>2
    <3>3. CASE x # p
      <4>1. cons'[x] = cons[x] BY <1>4, <2>4, <3>3
      <4> QED BY <2>1, <2>2, <2>4, <3>1, <4>1
    <3> QED BY <3>2, <3>3
  <2> QED BY <2>5, <2>6
<1>8. AreTwins'
  <2> SUFFICES ASSUME NEW x \in Node, NEW b \in 1..Len(cons'[x])
               PROVE  /\ cons'[x][b].at \in 1..Len(prods'[cons'[x][b].node])
                      /\ prods'[cons'[x][b].node][cons'[x][b].at].node = x
                      /\ prods'[cons'[x][b].node][cons'[x][b].at].at = b
                      /\ On(calls', cons', cons'[x][b].node, cons'[x][b].at)
    BY DEF AreTwins
  <2>1. CASE x = p /\ b = k
    <3>1. b \in 1..(m - 1) BY <1>4, <2>1
    <3>2. k # m /\ cons'[x][b] = cons[p][m] BY <1>4, <1>6, <2>1, <3>1
    <3>3. ~(q = c /\ r = i) BY <1>3, <3>2
    <3>4. On(calls', cons', q, r) BY <1>3, <1>5, <3>3
    <3>5. prods'[q][r].at = k BY <1>4, <1>6, <3>2
    <3>6. r \in 1..Len(prods'[q]) /\ prods'[q][r].node = p BY <1>3, <1>4 DEF SameNodes
    <3>7. cons'[x][b].node = q /\ cons'[x][b].at = r BY <1>3, <3>2
    <3> QED BY <2>1, <3>4, <3>5, <3>6, <3>7
  <2>2. CASE ~(x = p /\ b = k)
    <3>1. b \in 1..Len(cons[x]) /\ cons'[x][b] = cons[x][b] /\ (x = p => b # m)
      <4>1. CASE x = p
        <5>1. b \in 1..(m - 1) BY <1>4, <4>1
        <5>2. b \in 1..m /\ b # m BY <1>3, <5>1
        <5>3. b # k BY <2>2, <4>1
        <5> QED BY <1>3, <1>4, <4>1, <5>1, <5>2, <5>3
      <4>2. CASE x # p BY <1>4, <4>2
      <4> QED BY <4>1, <4>2
    <3>2. PICK n, j : n = cons[x][b].node /\ j = cons[x][b].at OBVIOUS
    <3>3. /\ n \in Node /\ j \in 1..Len(prods[n]) /\ prods[n][j].node = x /\ prods[n][j].at = b
          /\ On(calls, cons, n, j)
      BY <3>1, <3>2, TwinFrom
    <3>4. ~(n = q /\ j = r) BY <1>3, <3>1, <3>3
    <3>5. ~(n = c /\ j = i) BY <1>1, <1>3, <2>2, <3>3
    <3>6. prods'[n][j].at = b BY <1>4, <3>3, <3>4 DEF SameBut
    <3>7. j \in 1..Len(prods'[n]) /\ prods'[n][j].node = x BY <1>4, <3>3 DEF SameNodes
    <3>8. On(calls', cons', n, j) BY <1>5, <3>3, <3>5
    <3> QED BY <3>1, <3>2, <3>6, <3>7, <3>8
  <2> QED BY <2>1, <2>2
<1> QED BY <1>7, <1>8

-----------------------------------------------------------------------------
LEMMA DepsSame ==
    ASSUME SameNodes
    PROVE  Deps' = Deps
<1>1. \A n \in Node : {prods'[n][i].node : i \in 1..Len(prods'[n])}
                     = {prods[n][i].node : i \in 1..Len(prods[n])}
  BY DEF SameNodes
<1> QED BY <1>1 DEF Deps

\* What a return leaves of the calls in progress.
LEMMA FramesReturn ==
    ASSUME IInv, NEW p, NEW c, NEW i, Called(p, c, i), Return, SameNodes,
           UNCHANGED <<destroyed, running>>, \A n \in Node : n # p => cons'[n] = cons[n],
           \A n \in Node : \A j \in 1..Len(prods[n]) :
               n # c /\ prods[n][j].node # p => prods'[n][j].at = prods[n][j].at
    PROVE  Frames'
<1>1. Types /\ Frames /\ OneCall(calls) BY DEF IInv
<1>2. PICK m \in Nat : m = Len(calls) - 1 /\ m >= 1 /\ Len(calls) = m + 1
  <2>1. Len(calls) \in Nat /\ Len(calls) \in 2..Len(calls) BY <1>1, CalledIs DEF Types
  <2> QED BY <2>1
<1>3. /\ Caller = calls[m] /\ c = calls[m].node /\ i = calls[m].next
      /\ i \in calls[m].first..calls[m].last
      /\ \A k \in 1..Len(calls) : calls[k].node = p => k = m + 1
      /\ \A k \in 1..Len(calls) : calls[k].node = c => k = m
  BY <1>1, <1>2, CalledIs DEF Called
<1>4. /\ Len(calls') = m
      /\ \A k \in 1..m :
             /\ k \in 1..Len(calls) /\ calls[k] \in Frame
             /\ calls'[k].op = calls[k].op /\ calls'[k].node = calls[k].node
             /\ calls'[k].first = calls[k].first /\ calls'[k].last = calls[k].last
             /\ calls'[k].arg = calls[k].arg
             /\ k # m => calls'[k] = calls[k]
             /\ k = m => calls'[k].next = calls[k].next + 1
  BY <1>1, <1>2, CalledIs, ReturnIs
<1> SUFFICES ASSUME NEW k \in 1..Len(calls')
             PROVE  /\ InRange(calls[k])'
                    /\ k = 1 => Base(calls[k])'
                    /\ k # 1 => Inner(calls[k], calls[k - 1])'
  BY DEF Frames
<1>5. PICK f, g : f = calls[k] /\ g = calls'[k] OBVIOUS
<1>6. /\ k \in 1..m /\ k \in 1..Len(calls) /\ f \in Frame
      /\ g.op = f.op /\ g.node = f.node /\ g.first = f.first /\ g.last = f.last /\ g.arg = f.arg
      /\ (k # m => g = f) /\ (k = m => g.next = f.next + 1)
  BY <1>4, <1>5
<1>7. f.node # p /\ f.node \in Node
  <2>1. k # m + 1 BY <1>2, <1>6
  <2> QED BY <1>3, <1>5, <1>6, <2>1 DEF Frame
<1>8. cons'[f.node] = cons[f.node] /\ Len(prods'[f.node]) = Len(prods[f.node])
      /\ \A j \in 1..Len(prods[f.node]) : prods'[f.node][j].node = prods[f.node][j].node
  BY <1>7 DEF SameNodes
<1>9. InRange(f) BY <1>1, <1>5, <1>6 DEF Frames
<1>10. InRange(g)'
  <2>0. /\ f.first \in Nat /\ f.next \in Nat /\ f.last \in Nat /\ Len(prods[f.node]) \in Nat
    BY <1>1, <1>6, <1>7, ListsAre DEF Frame
  <2>1. /\ f.first # 0 /\ f.first <= f.next /\ (f.next = f.first \/ f.next <= f.last + 1)
        /\ f.last <= Len(prods[f.node])
    BY <1>9 DEF InRange
  <2>2. g.first <= g.next /\ (g.next = g.first \/ g.next <= g.last + 1)
    <3>1. CASE k = m
      <4>1. f.next \in f.first..f.last BY <1>3, <1>5, <3>1
      <4> QED BY <1>6, <2>0, <3>1, <4>1
    <3>2. CASE k # m BY <1>6, <2>1, <3>2
    <3> QED BY <3>1, <3>2
  <2>3. \A j \in f.first..f.last : prods'[f.node][j].node \in Producer
    <3> TAKE j \in f.first..f.last
    <3>1. j \in 1..Len(prods[f.node]) BY <2>0, <2>1
    <3>2. prods[f.node][j].node \in Producer BY <1>9 DEF InRange
    <3> QED BY <1>8, <3>1, <3>2
  <2> QED BY <1>6, <1>8, <2>1, <2>2, <2>3 DEF InRange
<1>11. ASSUME k = 1 PROVE Base(g)'
  <2>1. Base(f) BY <1>1, <1>5, <1>6, <1>11 DEF Frames
  <2>2. Live(f.node)' <=> Live(f.node) BY <1>8 DEF Live
  <2>3. Top' = Top /\ NextIndex' = NextIndex BY DEF Top, NextIndex
  <2>4. Readable(f.arg) => Readable(f.arg)' BY DepsSame DEF Readable, IsRunning
  <2> QED BY <1>6, <1>8, <2>1, <2>2, <2>3, <2>4 DEF Base
<1>12. ASSUME k # 1 PROVE Inner(calls[k], calls[k - 1])'
  <2>1. k \in 2..Len(calls) /\ k - 1 \in 1..m /\ k - 1 # m BY <1>2, <1>6, <1>12
  <2>2. PICK h : h = calls[k - 1] /\ h = calls'[k - 1] BY <1>4, <2>1
  <2>3. /\ Inner(f, h) /\ h.next \in 1..Len(prods[h.node]) /\ h.node \in Node
    <3>1. h \in Frame BY <1>4, <2>1, <2>2
    <3> QED BY <1>1, <1>5, <2>1, <2>2, <3>1, InnerIs DEF Frame
  <2>4. h.node # c BY <1>3, <1>4, <2>1, <2>2
  <2>5. f.node = prods[h.node][h.next].node BY <2>3 DEF Inner
  <2>6. /\ prods'[h.node][h.next].node = prods[h.node][h.next].node
        /\ prods'[h.node][h.next].at = prods[h.node][h.next].at
    BY <1>7, <2>3, <2>4, <2>5 DEF SameNodes
  <2>7. Inner(g, h)' BY <1>6, <1>8, <2>3, <2>6 DEF Inner
  <2> QED BY <1>5, <2>2, <2>7
<1> QED BY <1>5, <1>10, <1>11, <1>12

-----------------------------------------------------------------------------
\* Without new edges there are no new cycles.
LEMMA FewerEdges ==
    ASSUME Grounded, Rooted, \A m, n \in Node : Edge(m, n)' => Edge(m, n)
    PROVE  Grounded' /\ Rooted'
<1>1. Grounded'
  <2> SUFFICES ASSUME NEW S \in SUBSET Node, S # {}
               PROVE  \E n \in S : \A m \in S : ~Edge(n, m)'
    BY DEF Grounded
  <2>1. PICK n \in S : \A m \in S : ~Edge(n, m) BY DEF Grounded
  <2> QED BY <2>1
<1>2. Rooted'
  <2> SUFFICES ASSUME NEW S \in SUBSET Node, S # {}
               PROVE  \E n \in S : \A m \in S : ~Edge(m, n)'
    BY DEF Rooted
  <2>1. PICK n \in S : \A m \in S : ~Edge(m, n) BY DEF Rooted
  <2> QED BY <2>1
<1> QED BY <1>1, <1>2

\* A step that links or unlinks changes no dependency.
LEMMA LinkingKeeps ==
    ASSUME IInv, SameNodes, UNCHANGED <<destroyed, running>>, prods' \in [Node -> Seq(Entry)]
    PROVE  Runs' /\ Holes' /\ Grounded' /\ Rooted' /\ \A s \in Signal : prods'[s] = <<>>
<1>1. Runs'
  <2>1. \A k \in 1..Len(running) : running[k].node \in Node BY RunningIs DEF IInv
  <2> QED BY <2>1 DEF IInv, Runs, SameNodes
<1>2. Holes'
  <2> SUFFICES ASSUME NEW n \in Node, NEW i \in 1..Len(prods'[n]), prods'[n][i].node = NoNode
               PROVE  /\ n \in destroyed
                      /\ \A k \in 1..Len(running) : running[k].node = n => i <= running[k].next
    BY DEF Holes
  <2>1. i \in 1..Len(prods[n]) /\ prods[n][i].node = NoNode BY DEF SameNodes
  <2> QED BY <2>1 DEF IInv, Holes
<1>3. \A m, n \in Node : Edge(m, n)' => Edge(m, n) BY DEF SameNodes, Edge
<1>4. Grounded' /\ Rooted' BY <1>3, FewerEdges DEF IInv
<1>5. ASSUME NEW s \in Signal PROVE prods'[s] = <<>>
  <2>1. s \in Node BY DEF Node
  <2>2. Len(prods[s]) = 0 BY DEF IInv, Leaves
  <2>3. prods'[s] \in Seq(Entry) /\ Len(prods'[s]) = 0 BY <2>1, <2>2 DEF SameNodes
  <2> QED BY <2>3
<1> QED BY <1>1, <1>2, <1>4, <1>5

LEMMA AttachInv == IInv /\ Attach => IInv'
<1> SUFFICES ASSUME IInv, Attach PROVE IInv' OBVIOUS
<1>1. PICK p, c, i : Called(p, c, i) BY DEF Attach, Ends, Called
<1>2. /\ prods' \in [Node -> Seq(Entry)] /\ SameNodes /\ SameBut(c, i)
      /\ cons' \in [Node -> Seq(Twin)] /\ \A n \in Node : n # p => cons'[n] = cons[n]
  BY <1>1, AttachIs
<1>3. UNCHANGED <<destroyed, running>> /\ Return BY DEF Attach
<1>4. /\ p \notin Watch /\ calls' \in Seq(Frame)
  <2>1. p \in Producer /\ Len(calls) \in 2..Len(calls) BY <1>1, CalledIs DEF IInv
  <2> QED BY <1>3, <2>1, NodeFacts, ReturnIs DEF IInv
<1>5. Types' BY <1>2, <1>3, <1>4 DEF IInv, Types
<1>6. Runs' /\ Holes' /\ Grounded' /\ Rooted' /\ \A s \in Signal : prods'[s] = <<>>
  BY <1>2, <1>3, LinkingKeeps
<1>7. Leaves'
  <2>1. \A w \in Watch : w \in Node /\ w # p BY <1>4 DEF Node, Consumer
  <2>2. \A w \in Watch : cons'[w] = <<>> BY <1>2, <2>1 DEF IInv, Leaves
  <2> QED BY <1>6, <2>2 DEF Leaves
<1>8. Frames'
  <2>1. \A n \in Node : \A j \in 1..Len(prods[n]) :
           n # c /\ prods[n][j].node # p => prods'[n][j].at = prods[n][j].at
    BY <1>2 DEF SameBut
  <2> QED BY <1>1, <1>2, <1>3, <2>1, FramesReturn
<1>9. OneCall(calls') BY <1>1, OnAttach
<1>10. HaveTwins' /\ AreTwins' BY <1>1, AttachTwins
<1>11. OneCall(calls)' BY <1>9 DEF OneCall
<1> QED BY <1>5, <1>6, <1>7, <1>8, <1>10, <1>11 DEF IInv

LEMMA DetachInv == IInv /\ Detach => IInv'
<1> SUFFICES ASSUME IInv, Detach PROVE IInv' OBVIOUS
<1>1. PICK p, c, i : Called(p, c, i) BY DEF Detach, Ends, Called
<1>2. PICK k, m, q, r : Removed(p, c, i, k, m, q, r) BY <1>1, DetachIs
<1>3. /\ prods' \in [Node -> Seq(Entry)] /\ SameNodes /\ SameBut(q, r) /\ prods[q][r].node = p
      /\ cons' \in [Node -> Seq(Twin)] /\ \A n \in Node : n # p => cons'[n] = cons[n]
  BY <1>2 DEF Removed
<1>4. UNCHANGED <<destroyed, running>> /\ Return BY DEF Detach
<1>5. /\ p \notin Watch /\ calls' \in Seq(Frame)
  <2>1. p \in Producer /\ Len(calls) \in 2..Len(calls) BY <1>1, CalledIs DEF IInv
  <2> QED BY <1>4, <2>1, NodeFacts, ReturnIs DEF IInv
<1>6. Types' BY <1>3, <1>4, <1>5 DEF IInv, Types
<1>7. Runs' /\ Holes' /\ Grounded' /\ Rooted' /\ \A s \in Signal : prods'[s] = <<>>
  BY <1>3, <1>4, LinkingKeeps
<1>8. Leaves'
  <2>1. \A w \in Watch : w \in Node /\ w # p BY <1>5 DEF Node, Consumer
  <2>2. \A w \in Watch : cons'[w] = <<>> BY <1>3, <2>1 DEF IInv, Leaves
  <2> QED BY <1>7, <2>2 DEF Leaves
<1>9. Frames'
  <2>1. \A n \in Node : \A j \in 1..Len(prods[n]) :
           n # c /\ prods[n][j].node # p => prods'[n][j].at = prods[n][j].at
    BY <1>3 DEF SameBut
  <2> QED BY <1>1, <1>3, <1>4, <2>1, FramesReturn
<1>10. OneCall(calls') BY <1>1, OnDetach
<1>11. HaveTwins' /\ AreTwins' BY <1>1, DetachTwins
<1>12. OneCall(calls)' BY <1>10 DEF OneCall
<1> QED BY <1>6, <1>7, <1>8, <1>9, <1>11, <1>12 DEF IInv

-----------------------------------------------------------------------------
\* The next call is about a node that no call in progress is about.
LEMMA NewNode ==
    ASSUME IInv, calls # <<>>, Cur.next \in 1..Len(prods[Cur.node]),
           NEW p \in Producer, prods[Cur.node][Cur.next].node = p,
           NEW j \in 1..Len(calls), calls[j].node = p
    PROVE  FALSE
<1>1. Types /\ Frames /\ Grounded BY DEF IInv
<1>2. PICK N \in Nat : N = Len(calls) /\ N >= 1 /\ Cur = calls[N] BY <1>1, CurIs
<1> DEFINE S == {calls[k].node : k \in j..N}
<1>3. j \in j..N /\ j \in Nat /\ \A k \in j..N : k \in 1..N BY <1>2
<1>4. \A k \in 1..N : calls[k] \in Frame BY <1>1, <1>2, CurIs
<1>5. S \in SUBSET Node /\ S # {} BY <1>3, <1>4 DEF Frame
<1> HIDE DEF S
<1>6. PICK n \in S : \A m \in S : ~Edge(n, m) BY <1>1, <1>5 DEF Grounded
<1>7. PICK k \in j..N : n = calls[k].node BY <1>6 DEF S
<1>8. CASE k = N
  <2>1. p \in S BY <1>3 DEF S
  <2>2. Edge(n, p) BY <1>2, <1>7, <1>8 DEF Edge
  <2> QED BY <1>6, <2>1, <2>2
<1>9. CASE k # N
  <2>1. k + 1 \in 2..Len(calls) /\ k + 1 \in j..N /\ (k + 1) - 1 = k BY <1>2, <1>3, <1>7, <1>9
  <2>2. /\ calls[k].next \in 1..Len(prods[calls[k].node])
        /\ Inner(calls[k + 1], calls[k])
    BY <1>1, <2>1, InnerIs
  <2>3. calls[k + 1].node \in S BY <2>1 DEF S
  <2>4. Edge(n, calls[k + 1].node) BY <1>7, <2>2 DEF Inner, Edge
  <2> QED BY <1>6, <2>3, <2>4
<1> QED BY <1>8, <1>9

LEMMA OnCall ==
    ASSUME NEW cs \in Seq(Frame), NEW f \in Frame, NEW cn, OneCall(cs),
           \A k \in 1..Len(cs) : cs[k].node # f.node, f.node \notin Watch, f.first = 1,
           f.next = 1, NEW N \in Nat, f.last = N \/ f.last = 0,
           f.last # 0 => ((cn[f.node] # <<>>) <=> f.op \notin Linking)
    PROVE  /\ OneCall(Append(cs, f))
           /\ \A n, j : On(Append(cs, f), cn, n, j) <=> On(cs, cn, n, j)
<1>1. PICK L \in Nat : L = Len(cs) OBVIOUS
<1>2. PICK ds : ds = Append(cs, f) OBVIOUS
<1>3. Len(ds) = L + 1 /\ ds[L + 1] = f /\ \A k \in 1..L : ds[k] = cs[k] BY <1>1, <1>2
<1>4. \A k \in 1..(L + 1) : k \in 1..L \/ k = L + 1 BY <1>1
<1>5. OneCall(ds) BY <1>1, <1>3, <1>4 DEF OneCall
<1>6. ASSUME NEW n, NEW j PROVE On(ds, cn, n, j) <=> On(cs, cn, n, j)
  <2>1. CASE n = f.node
    <3>1. L + 1 \in 1..Len(ds) BY <1>1, <1>3
    <3>2. On(ds, cn, n, j) <=> IF j \in f.first..f.last THEN f.op \in Linking <=> j < f.next
                               ELSE n \in Watch \/ cn[n] # <<>>
      BY <1>3, <1>5, <2>1, <3>1, OnFrame
    <3>3. On(cs, cn, n, j) <=> n \in Watch \/ cn[n] # <<>> BY <2>1, OnFree
    <3>4. CASE j \in f.first..f.last
      <4>1. f.last \in Nat BY DEF Frame
      <4>2. ~(j < f.next) /\ f.last # 0 BY <3>4, <4>1
      <4> QED BY <2>1, <3>2, <3>3, <3>4, <4>2
    <3> QED BY <3>2, <3>3, <3>4
  <2>2. CASE n # f.node /\ \E k \in 1..L : cs[k].node = n
    <3>1. PICK k \in 1..L : cs[k].node = n BY <2>2
    <3>2. k \in 1..Len(ds) /\ k \in 1..Len(cs) /\ ds[k] = cs[k] BY <1>1, <1>3, <3>1
    <3> QED BY <1>5, <3>1, <3>2, OnFrame
  <2>3. CASE n # f.node /\ \A k \in 1..L : cs[k].node # n
    <3>1. \A k \in 1..Len(ds) : ds[k].node # n BY <1>3, <1>4, <2>3
    <3> QED BY <1>1, <2>3, <3>1, OnFree
  <2> QED BY <2>1, <2>2, <2>3
<1> QED BY <1>2, <1>5, <1>6

-----------------------------------------------------------------------------
LEMMA TwinsAre ==
    ASSUME \A q \in Node : \A k \in 1..Len(cons'[q]) :
              /\ cons'[q][k].at \in 1..Len(prods'[cons'[q][k].node])
              /\ prods'[cons'[q][k].node][cons'[q][k].at].node = q
              /\ prods'[cons'[q][k].node][cons'[q][k].at].at = k
              /\ On(calls', cons', cons'[q][k].node, cons'[q][k].at)
    PROVE  AreTwins'
BY DEF AreTwins

\* The lists of consumers do not change, nor what is linked.
LEMMA TwinsKept ==
    ASSUME IInv, cons' = cons,
           \A n \in Node : \A j \in 1..Len(prods[n]) :
              On(calls, cons, n, j) =>
                 On(calls', cons, n, j) /\ j \in 1..Len(prods'[n]) /\ prods'[n][j] = prods[n][j],
           \A n \in Node : \A j \in 1..Len(prods'[n]) :
              On(calls', cons, n, j) /\ prods'[n][j].node # NoNode =>
                 On(calls, cons, n, j) /\ j \in 1..Len(prods[n]) /\ prods'[n][j] = prods[n][j]
    PROVE  HaveTwins' /\ AreTwins'
<1>1. HaveTwins'
  <2> SUFFICES ASSUME NEW n \in Node, NEW j \in 1..Len(prods'[n]),
                      On(calls', cons, n, j), prods'[n][j].node # NoNode
               PROVE  /\ prods'[n][j].at \in 1..Len(cons[prods'[n][j].node])
                      /\ cons[prods'[n][j].node][prods'[n][j].at].node = n
                      /\ cons[prods'[n][j].node][prods'[n][j].at].at = j
    BY DEF HaveTwins
  <2>1. j \in 1..Len(prods[n]) /\ On(calls, cons, n, j) /\ prods'[n][j] = prods[n][j] OBVIOUS
  <2>2. PICK q, a : q = prods[n][j].node /\ a = prods[n][j].at /\ q # NoNode BY <2>1
  <2>3. a \in 1..Len(cons[q]) /\ cons[q][a].node = n /\ cons[q][a].at = j BY <2>1, <2>2, TwinOf
  <2> QED BY <2>1, <2>2, <2>3
<1>2. AreTwins'
  <2> SUFFICES ASSUME NEW q \in Node, NEW k \in 1..Len(cons'[q])
               PROVE  /\ cons'[q][k].at \in 1..Len(prods'[cons'[q][k].node])
                      /\ prods'[cons'[q][k].node][cons'[q][k].at].node = q
                      /\ prods'[cons'[q][k].node][cons'[q][k].at].at = k
                      /\ On(calls', cons', cons'[q][k].node, cons'[q][k].at)
    BY TwinsAre
  <2>1. PICK n, j : n = cons[q][k].node /\ j = cons[q][k].at OBVIOUS
  <2>2. k \in 1..Len(cons[q]) /\ n = cons'[q][k].node /\ j = cons'[q][k].at BY <2>1
  <2>3. /\ n \in Node /\ j \in 1..Len(prods[n]) /\ prods[n][j].node = q
        /\ prods[n][j].at = k /\ On(calls, cons, n, j)
    BY <2>1, <2>2, TwinFrom
  <2>4. On(calls', cons', n, j) /\ j \in 1..Len(prods'[n]) /\ prods'[n][j] = prods[n][j]
    BY <2>3
  <2> QED BY <2>2, <2>3, <2>4
<1> QED BY <1>1, <1>2

LEMMA SameFrames ==
    ASSUME UNCHANGED <<prods, cons, destroyed, running>>
    PROVE  \A h : /\ InRange(h) => InRange(h)'
                  /\ Base(h) => Base(h)'
                  /\ \A e : Inner(h, e) => Inner(h, e)'
<1>1. ASSUME NEW h PROVE InRange(h) => InRange(h)' BY DEF InRange
<1>2. ASSUME NEW h PROVE Base(h) => Base(h)'
  <2>1. Live(h.node) => Live(h.node)' BY DEF Live
  <2>2. ~Live(h.node) => ~Live(h.node)' BY DEF Live
  <2>3. Top' = Top /\ NextIndex' = NextIndex BY DEF Top, NextIndex
  <2>4. Readable(h.arg) => Readable(h.arg)' BY DEF Readable, IsRunning, Deps
  <2> QED BY <2>1, <2>2, <2>3, <2>4 DEF Base
<1>3. ASSUME NEW h, NEW e PROVE Inner(h, e) => Inner(h, e)' BY DEF Inner
<1> QED BY <1>1, <1>2, <1>3

LEMMA DescendInv == IInv /\ Descend => IInv'
<1> SUFFICES ASSUME IInv, Descend PROVE IInv' OBVIOUS
<1>1. /\ Types /\ Frames /\ OneCall(calls) /\ calls # <<>> /\ Cur.next <= Cur.last
      /\ UNCHANGED <<prods, cons, destroyed, running>>
  BY DEF IInv, Descend
<1>2. PICK N \in Nat : /\ N = Len(calls) /\ N >= 1 /\ Cur = calls[N] /\ Cur \in Frame
                      /\ \A k \in 1..N : calls[k] \in Frame
  BY <1>1, CurIs
<1>3. PICK g : g = Cur OBVIOUS
<1>4. /\ g.node \in Node /\ g.first \in Nat /\ g.next \in Nat /\ g.last \in Nat
      /\ Len(prods[g.node]) \in Nat /\ InRange(g)
  <2>1. N \in 1..N BY <1>2
  <2>2. g.node \in Node /\ g.first \in Nat /\ g.next \in Nat /\ g.last \in Nat
    BY <1>2, <1>3 DEF Frame
  <2> QED BY <1>1, <1>2, <1>3, <2>1, <2>2, ListsAre DEF Frames
<1>5. PICK i : i = g.next OBVIOUS
<1>6. i \in 1..Len(prods[g.node]) /\ i \in g.first..g.last /\ prods[g.node][i].node \in Producer
  <2>1. i \in g.first..g.last /\ i \in 1..Len(prods[g.node]) BY <1>1, <1>3, <1>4, <1>5 DEF InRange
  <2> QED BY <1>4, <2>1 DEF InRange
<1>7. PICK p \in Producer : p = prods[g.node][i].node BY <1>6
<1>8. /\ p \in Node /\ p \notin Watch /\ p \notin destroyed
      /\ Len(prods[p]) \in Nat /\ Len(cons[p]) \in Nat
      /\ cons[p] = <<>> <=> Len(cons[p]) = 0
      /\ \A j \in 1..Len(prods[p]) : prods[p][j].node \in Producer
  <2>1. p \in Node /\ p \notin Watch BY NodeFacts
  <2>2. p \notin destroyed BY <1>1, <2>1 DEF Types
  <2>3. ASSUME NEW j \in 1..Len(prods[p]) PROVE prods[p][j].node \in Producer
    <3>1. prods[p][j].node # NoNode BY <2>1, <2>2 DEF IInv, Holes
    <3>2. prods[p][j] \in Entry BY <1>1, <2>1, ListsAre
    <3> QED BY <3>1, <3>2 DEF Entry
  <2> QED BY <1>1, <2>1, <2>2, <2>3, ListsAre
<1>9. PICK a : a = prods[g.node][i].at /\ a \in Nat
  <2>1. prods[g.node][i] \in Entry BY <1>1, <1>4, <1>6, ListsAre
  <2> QED BY <2>1 DEF Entry
<1>10. PICK f : /\ f = IF g.op \in Linking THEN AddLive(p) ELSE RemoveLive(p, a)
                /\ calls' = Append(calls, f)
  BY <1>1, <1>3, <1>5, <1>7, <1>9 DEF Descend
<1>11. /\ f \in Frame /\ f.node = p /\ f.first = 1 /\ f.next = 1
       /\ \/ /\ f.op = "add" /\ g.op \in Linking
             /\ f.last = IF cons[p] = <<>> THEN Len(prods[p]) ELSE 0
          \/ /\ f.op = "remove" /\ g.op \notin Linking
             /\ f.last = IF Len(cons[p]) = 1 THEN Len(prods[p]) ELSE 0
             /\ f.arg = a
  <2>1. CASE g.op \in Linking BY <1>8, <1>10, <2>1 DEF AddLive, Loop, Frame
  <2>2. CASE g.op \notin Linking BY <1>8, <1>9, <1>10, <2>2 DEF RemoveLive, Loop, Frame
  <2> QED BY <2>1, <2>2
<1>12. Inner(f, g) BY <1>1, <1>3, <1>5, <1>7, <1>9, <1>11 DEF Inner
<1>13. InRange(f)
  <2>1. f.last \in Nat /\ f.last <= Len(prods[p]) BY <1>8, <1>11
  <2>2. \A j \in 1..f.last : j \in 1..Len(prods[p]) BY <1>8, <2>1
  <2> QED BY <1>8, <1>11, <2>1, <2>2 DEF InRange
<1>14. \A k \in 1..Len(calls) : calls[k].node # f.node
  BY <1>1, <1>3, <1>5, <1>6, <1>7, <1>11, NewNode
<1>15. /\ OneCall(calls')
       /\ \A n, j : On(calls', cons, n, j) <=> On(calls, cons, n, j)
  <2>1. f.last = Len(prods[p]) \/ f.last = 0 BY <1>11
  <2>2. f.last # 0 => ((cons[f.node] # <<>>) <=> f.op \notin Linking)
    <3>1. CASE f.op = "add"
      <4>1. f.op \in Linking BY <3>1 DEF Linking
      <4>2. f.last # 0 => cons[p] = <<>> BY <1>11, <3>1
      <4> QED BY <1>11, <4>1, <4>2
    <3>2. CASE f.op = "remove"
      <4>1. f.op \notin Linking BY <3>2 DEF Linking
      <4>2. f.last # 0 => Len(cons[p]) = 1 BY <1>11, <3>2
      <4>3. Len(cons[p]) = 1 => cons[p] # <<>> OBVIOUS
      <4> QED BY <1>11, <4>1, <4>2, <4>3
    <3> QED BY <1>11, <3>1, <3>2
  <2>3. calls \in Seq(Frame) /\ OneCall(calls) BY <1>1 DEF Types
  <2>4. f \in Frame /\ f.node \notin Watch /\ f.first = 1 /\ f.next = 1 BY <1>8, <1>11
  <2>5. /\ OneCall(Append(calls, f))
        /\ \A n, j : On(Append(calls, f), cons, n, j) <=> On(calls, cons, n, j)
    BY <1>8, <1>14, <2>1, <2>2, <2>3, <2>4, OnCall
  <2> QED BY <1>10, <2>5
<1>16. Types'
  <2>1. calls \in Seq(Frame) /\ Append(calls, f) \in Seq(Frame) BY <1>1, <1>11 DEF Types
  <2> QED BY <1>1, <1>10, <2>1 DEF Types
<1>17. Leaves' /\ Runs' /\ Holes' /\ Grounded' /\ Rooted'
  <2>1. SameNodes BY <1>1 DEF SameNodes
  <2>2. Runs' /\ Holes' /\ Grounded' /\ Rooted' BY <1>1, <2>1, LinkingKeeps DEF Types
  <2> QED BY <1>1, <2>2 DEF IInv, Leaves
<1>18. Frames'
  <2>1. /\ Len(calls') = N + 1 /\ calls'[N + 1] = f
        /\ \A k \in 1..N : calls'[k] = calls[k]
    <3>1. calls \in Seq(Frame) BY <1>1 DEF Types
    <3> QED BY <1>2, <1>10, <1>11, <3>1
  <2>2. \A h : (InRange(h) => InRange(h)') /\ (Base(h) => Base(h)')
             /\ \A e : Inner(h, e) => Inner(h, e)'
    BY <1>1, SameFrames
  <2> SUFFICES ASSUME NEW k \in 1..Len(calls')
               PROVE  /\ InRange(calls[k])'
                      /\ k = 1 => Base(calls[k])'
                      /\ k # 1 => Inner(calls[k], calls[k - 1])'
    BY DEF Frames
  <2>3. CASE k = N + 1
    <3>1. k # 1 /\ k - 1 = N /\ N \in 1..N BY <1>2, <2>3
    <3>2. PICK h, e : h = calls'[k] /\ h = f /\ e = calls'[k - 1] /\ e = g
      BY <1>2, <1>3, <2>1, <2>3, <3>1
    <3>3. InRange(h)' /\ Inner(h, e)' BY <1>12, <1>13, <2>2, <3>2
    <3> QED BY <3>1, <3>2, <3>3
  <2>4. CASE k # N + 1
    <3>1. k \in 1..N /\ (k # 1 => k - 1 \in 1..N) BY <1>2, <2>1, <2>4
    <3>2. PICK h, e : h = calls'[k] /\ h = calls[k] /\ e = calls'[k - 1]
                      /\ (k # 1 => e = calls[k - 1])
      BY <2>1, <3>1
    <3>3. InRange(h)' /\ (k = 1 => Base(h)') /\ (k # 1 => Inner(h, e)')
      BY <1>1, <1>2, <2>2, <3>1, <3>2 DEF Frames
    <3> QED BY <3>2, <3>3
  <2> QED BY <2>3, <2>4
<1>19. HaveTwins' /\ AreTwins' BY <1>1, <1>15, TwinsKept
<1>20. OneCall(calls)' BY <1>15 DEF OneCall
<1> QED BY <1>16, <1>17, <1>18, <1>19, <1>20 DEF IInv

-----------------------------------------------------------------------------
LEMMA ReachStep ==
    ASSUME NEW roots, NEW nodes, NEW succ, NEW x \in roots \cup Reachable(roots, nodes, succ),
           NEW d \in nodes, d \in succ[x]
    PROVE  d \in Reachable(roots, nodes, succ)
<1> SUFFICES ASSUME NEW S \in SUBSET nodes, Closed(S, roots, nodes, succ) PROVE d \in S
  BY DEF Reachable
<1>1. x \in roots \cup S BY DEF Reachable
<1> QED BY <1>1 DEF Closed

LEMMA ReachWithin ==
    ASSUME NEW roots, NEW nodes, NEW succ, NEW S \in SUBSET nodes, Closed(S, roots, nodes, succ)
    PROVE  Reachable(roots, nodes, succ) \subseteq S
BY DEF Reachable

\* What is reachable from something reachable is reachable.
LEMMA ReachOn ==
    ASSUME NEW nodes, NEW succ, NEW m, NEW n \in nodes, n \in succ[m]
    PROVE  {n} \cup Reachable({n}, nodes, succ) \subseteq Reachable({m}, nodes, succ)
<1>1. n \in Reachable({m}, nodes, succ) BY ReachStep
<1> SUFFICES ASSUME NEW S \in SUBSET nodes, Closed(S, {m}, nodes, succ), NEW x,
                    x \in Reachable({n}, nodes, succ)
             PROVE  x \in S
  BY <1>1 DEF Reachable
<1>2. n \in S BY <1>1 DEF Reachable
<1>3. Closed(S, {n}, nodes, succ) BY <1>2 DEF Closed
<1> QED BY <1>3, ReachWithin

LEMMA EdgeIs ==
    ASSUME NEW m \in Node, NEW n
    PROVE  Edge(m, n) <=> n \in Deps[m]
BY DEF Edge, Deps

\* The running consumer gains a dependency that no running consumer is below.
LEMMA NewEdge ==
    ASSUME IInv, NEW c \in Consumer, NEW p \in Producer, IsRunning(c), Readable(p),
           \A m, n \in Node : Edge(m, n)' => Edge(m, n) \/ (m = c /\ n = p)
    PROVE  Grounded' /\ Rooted'
<1>1. /\ Leaves /\ Grounded /\ Rooted /\ c \in Node /\ c \notin Signal /\ p \in Node
      /\ \A m, n \in Node : Edge(m, n) => n \in Producer /\ m \notin Signal
  <2>1. Leaves /\ Grounded /\ Rooted BY DEF IInv
  <2>2. ASSUME NEW m \in Node, NEW n \in Node, Edge(m, n) PROVE n \in Producer /\ m \notin Signal
    <3>1. PICK i \in 1..Len(prods[m]) : prods[m][i].node = n BY <2>2 DEF Edge
    <3>2. prods[m][i] \in Entry BY <3>1, ListsAre DEF IInv
    <3>3. n \in Producer BY <3>1, <3>2, NodeFacts DEF Entry
    <3>4. Len(prods[m]) # 0 BY <3>1, ListsAre DEF IInv
    <3>5. prods[m] # <<>> BY <3>4
    <3> QED BY <2>1, <3>3, <3>5 DEF Leaves
  <2> QED BY <2>1, <2>2, NodeFacts
<1> DEFINE R(x) == {x} \cup Reachable({x}, Computed, Deps)
<1>2. c \notin R(p) BY DEF Readable
<1>3. ASSUME NEW m \in Node, NEW n \in Computed, Edge(m, n) PROVE R(n) \subseteq R(m)
  <2>1. n \in Deps[m] BY <1>3, EdgeIs
  <2> QED BY <2>1, ReachOn
<1>4. \A x : R(x) \subseteq {x} \cup Computed BY DEF Reachable
<1>5. \A n \in Node : n \in Producer /\ n \notin Signal => n \in Computed BY DEF Producer
<1>6. ASSUME NEW s \in Signal PROVE c \notin R(s)
  <2>1. s \in Node BY DEF Node
  <2>2. ~\E d \in Computed : d \in Deps[s]
    <3>1. ASSUME NEW d \in Computed PROVE d \notin Deps[s]
      <4>1. d \in Node BY DEF Node, Consumer
      <4> QED BY <1>1, <2>1, <4>1, EdgeIs
    <3> QED BY <3>1
  <2>3. Closed({}, {s}, Computed, Deps) BY <2>2 DEF Closed
  <2>4. Reachable({s}, Computed, Deps) \subseteq {} BY <2>3, ReachWithin
  <2> QED BY <1>1, <2>4
<1>7. \A n, m \in Node : m \in R(n) => \A d \in Computed : Edge(m, d) => d \in R(n)
  <2> SUFFICES ASSUME NEW n \in Node, NEW m \in Node, m \in R(n), NEW d \in Computed, Edge(m, d)
               PROVE  d \in R(n)
    OBVIOUS
  <2>1. d \in Deps[m] BY EdgeIs
  <2> QED BY <2>1, ReachStep
<1> HIDE DEF R
<1>8. Grounded'
  <2> SUFFICES ASSUME NEW S \in SUBSET Node, S # {}
               PROVE  \E n \in S : \A m \in S : ~Edge(n, m)'
    BY DEF Grounded
  <2>1. CASE \E s \in S : s \in Signal
    <3>1. PICK s \in S : s \in Signal BY <2>1
    <3> QED BY <1>1, <3>1
  <2>2. CASE ~(\E s \in S : s \in Signal) /\ S \cap R(p) = {}
    <3>1. PICK n \in S : \A m \in S : ~Edge(n, m) BY <1>1 DEF Grounded
    <3>2. p \notin S BY <2>2 DEF R
    <3> QED BY <3>1, <3>2
  <2>3. CASE ~(\E s \in S : s \in Signal) /\ S \cap R(p) # {}
    <3>1. PICK n \in S \cap R(p) : \A m \in S \cap R(p) : ~Edge(n, m)
      <4>1. S \cap R(p) \in SUBSET Node OBVIOUS
      <4> QED BY <1>1, <2>3, <4>1 DEF Grounded
    <3>2. \A m \in S : ~Edge(n, m) BY <1>1, <1>5, <1>7, <2>3, <3>1
    <3>3. n # c BY <1>2, <3>1
    <3> QED BY <3>1, <3>2, <3>3
  <2> QED BY <2>1, <2>2, <2>3
<1>9. Rooted'
  <2> SUFFICES ASSUME NEW S \in SUBSET Node, S # {}
               PROVE  \E n \in S : \A m \in S : ~Edge(m, n)'
    BY DEF Rooted
  <2> DEFINE U == {x \in S : c \in R(x)}
  <2>1. CASE U = {}
    <3>1. PICK n \in S : \A m \in S : ~Edge(m, n) BY <1>1 DEF Rooted
    <3>2. c \notin S BY <2>1 DEF R
    <3> QED BY <3>1, <3>2
  <2>2. CASE U # {}
    <3>1. PICK n \in U : \A m \in U : ~Edge(m, n)
      <4>1. U \in SUBSET Node OBVIOUS
      <4> QED BY <1>1, <2>2, <4>1 DEF Rooted
    <3>2. n # p BY <1>2, <3>1
    <3>3. n \notin Signal BY <1>6, <3>1
    <3>4. ASSUME NEW m \in S, Edge(m, n) PROVE FALSE
      <4>1. n \in Computed BY <1>1, <1>5, <3>1, <3>3, <3>4
      <4>2. m \in U BY <1>3, <3>1, <3>4, <4>1
      <4> QED BY <3>1, <3>4, <4>2
    <3> QED BY <3>1, <3>2, <3>4
  <2> QED BY <2>1, <2>2
<1> QED BY <1>8, <1>9

-----------------------------------------------------------------------------
LEMMA NoFrame ==
    ASSUME NEW cn, NEW n, NEW j
    PROVE  OneCall(<<>>) /\ (On(<<>>, cn, n, j) <=> n \in Watch \/ cn[n] # <<>>)
<1>1. OneCall(<<>>) BY DEF OneCall
<1> QED BY <1>1, OnFree

LEMMA OneFrame ==
    ASSUME NEW f, NEW cn, NEW n, NEW j
    PROVE  /\ OneCall(<<f>>)
           /\ On(<<f>>, cn, n, j) <=> IF n = f.node /\ j \in f.first..f.last
                                      THEN f.op \in Linking <=> j < f.next
                                      ELSE n \in Watch \/ cn[n] # <<>>
<1>1. PICK cs : cs = <<f>> OBVIOUS
<1>2. Len(cs) = 1 /\ cs[1] = f /\ 1 \in 1..Len(cs) /\ \A k \in 1..Len(cs) : k = 1 BY <1>1
<1>3. OneCall(cs) BY <1>2 DEF OneCall
<1>4. CASE n = f.node
  <2>1. On(cs, cn, cs[1].node, j) <=> IF j \in cs[1].first..cs[1].last
                                      THEN cs[1].op \in Linking <=> j < cs[1].next
                                      ELSE cs[1].node \in Watch \/ cn[cs[1].node] # <<>>
    BY <1>2, <1>3, OnFrame
  <2> QED BY <1>1, <1>2, <1>3, <1>4, <2>1
<1>5. CASE n # f.node
  <2>1. \A k \in 1..Len(cs) : cs[k].node # n BY <1>2, <1>5
  <2>2. On(cs, cn, n, j) <=> n \in Watch \/ cn[n] # <<>> BY <2>1, OnFree
  <2> QED BY <1>1, <1>3, <1>5, <2>2
<1> QED BY <1>4, <1>5

\* Outside the recursive functions there is at most one call.
LEMMA Outermost ==
    ASSUME calls' = <<>> \/ \E f : calls' = <<f>> /\ InRange(f)' /\ Base(f)'
    PROVE  Frames' /\ OneCall(calls)'
<1>1. CASE calls' = <<>>
  <2>1. Frames' BY <1>1 DEF Frames
  <2> QED BY <1>1, <2>1 DEF OneCall
<1>2. CASE \E f : calls' = <<f>> /\ InRange(f)' /\ Base(f)'
  <2>1. PICK f : calls' = <<f>> /\ InRange(f)' /\ Base(f)' BY <1>2
  <2>2. Len(calls') = 1 /\ calls'[1] = f BY <2>1
  <2>3. \A k \in 1..Len(calls') : k = 1 BY <2>2
  <2>4. Frames'
    <3> SUFFICES ASSUME NEW k \in 1..Len(calls')
                 PROVE  /\ InRange(calls[k])'
                        /\ k = 1 => Base(calls[k])'
                        /\ k # 1 => Inner(calls[k], calls[k - 1])'
      BY DEF Frames
    <3>1. k = 1 BY <2>3
    <3>2. calls'[k] = f BY <2>2, <3>1
    <3> QED BY <2>1, <3>1, <3>2
  <2> QED BY <2>3, <2>4 DEF OneCall
<1> QED BY <1>1, <1>2

LEMMA TopIs ==
    ASSUME IInv, running # <<>>
    PROVE  /\ Len(running) \in Nat /\ Len(running) \in 1..Len(running)
           /\ Top = running[Len(running)].node /\ NextIndex = running[Len(running)].next
           /\ Top \in Consumer /\ Top \in Node /\ Top \notin Signal /\ NextIndex \in Nat
           /\ IsRunning(Top)
           /\ Top \notin destroyed => NextIndex <= Len(prods[Top])
           /\ \A i \in 1..Len(prods[Top]) : i > NextIndex => prods[Top][i].node \in Producer
<1>1. Types /\ Runs /\ Holes BY DEF IInv
<1>2. PICK L \in Nat : L = Len(running) /\ L \in 1..L
  <2>1. PICK L \in Nat : L = Len(running) /\ L >= 1 BY <1>1, RunningIs
  <2> QED BY <2>1
<1>3. /\ Top = running[L].node /\ NextIndex = running[L].next
      /\ Top \in Consumer /\ Top \in Node /\ NextIndex \in Nat
  BY <1>1, <1>2, RunningIs DEF Top, NextIndex
<1>4. IsRunning(Top) /\ Top \notin Signal BY <1>2, <1>3, NodeFacts DEF IsRunning
<1>5. Top \notin destroyed => NextIndex <= Len(prods[Top]) BY <1>1, <1>2, <1>3 DEF Runs
<1>6. ASSUME NEW i \in 1..Len(prods[Top]), i > NextIndex PROVE prods[Top][i].node \in Producer
  <2>1. prods[Top][i] \in Entry BY <1>1, <1>3, ListsAre
  <2>2. i \in Nat OBVIOUS
  <2>3. prods[Top][i].node # NoNode
    <3> SUFFICES ASSUME prods[Top][i].node = NoNode PROVE FALSE OBVIOUS
    <3>1. i <= running[L].next BY <1>1, <1>2, <1>3 DEF Holes
    <3> QED BY <1>3, <1>6, <2>2, <3>1
  <2> QED BY <2>1, <2>3 DEF Entry
<1> QED BY <1>2, <1>3, <1>4, <1>5, <1>6

LEMMA InitInv == Init => IInv
<1> SUFFICES ASSUME Init PROVE IInv OBVIOUS
<1>1. /\ prods = [n \in Node |-> <<>>] /\ cons = [n \in Node |-> <<>>]
      /\ destroyed = {} /\ running = <<>> /\ calls = <<>>
  BY DEF Init
<1>2. \A n \in Node : Len(prods[n]) = 0 /\ Len(cons[n]) = 0 BY <1>1
<1>3. Types
  <2>1. <<>> \in Seq(Entry) /\ <<>> \in Seq(Twin) /\ <<>> \in Seq(Run) /\ <<>> \in Seq(Frame)
    OBVIOUS
  <2> QED BY <1>1, <2>1 DEF Types
<1>4. Leaves BY <1>1 DEF Leaves, Node, Consumer
<1>5. Runs /\ Holes BY <1>1, <1>2 DEF Runs, Holes
<1>6. \A m \in Node : \A n : ~Edge(m, n) BY <1>2 DEF Edge
<1>7. Grounded /\ Rooted
  <2>1. \A S \in SUBSET Node : \A m, n \in S : ~Edge(m, n) BY <1>6
  <2> QED BY <2>1 DEF Grounded, Rooted
<1>8. Frames /\ OneCall(calls) BY <1>1 DEF Frames, OneCall
<1>9. HaveTwins /\ AreTwins
  <2>1. \A n \in Node : 1..Len(prods[n]) = {} /\ 1..Len(cons[n]) = {} BY <1>2
  <2>2. HaveTwins BY <2>1 DEF HaveTwins
  <2>3. AreTwins BY <2>1 DEF AreTwins
  <2> QED BY <2>2, <2>3
<1> QED BY <1>3, <1>4, <1>5, <1>7, <1>8, <1>9 DEF IInv

LEMMA BeginInv == ASSUME IInv, NEW n \in Consumer, Begin(n) PROVE IInv'
<1>1. /\ calls = <<>> /\ ~IsRunning(n) /\ (n \in Watch => n \notin destroyed)
      /\ running' = Append(running, [node |-> n, next |-> 0])
      /\ UNCHANGED <<prods, cons, destroyed, calls>>
  BY DEF Begin
<1>2. Types /\ Leaves /\ Runs /\ Holes /\ Grounded /\ Rooted BY DEF IInv
<1>3. n \notin destroyed /\ n \in Node /\ Len(prods[n]) \in Nat
  <2>1. n \notin destroyed BY <1>1, <1>2 DEF Types
  <2> QED BY <1>2, <2>1, NodeFacts, ListsAre
<1>4. PICK r : r = [node |-> n, next |-> 0] OBVIOUS
<1>5. r \in Run /\ r.node = n /\ r.next = 0 BY <1>4 DEF Run
<1>6. PICK L \in Nat : L = Len(running) BY <1>2, RunningIs
<1>7. /\ running' \in Seq(Run) /\ Len(running') = L + 1 /\ running'[L + 1] = r
      /\ \A k \in 1..L : running'[k] = running[k]
      /\ \A k \in 1..(L + 1) : k \in 1..L \/ k = L + 1
  BY <1>1, <1>2, <1>4, <1>5, <1>6 DEF Types
<1>8. Types' BY <1>1, <1>2, <1>7 DEF Types
<1>9. Runs'
  <2>1. \A k \in 1..L : running[k].node # n BY <1>1, <1>6 DEF IsRunning
  <2>2. \A j, k \in 1..(L + 1) : running'[j].node = running'[k].node => j = k
    BY <1>2, <1>5, <1>6, <1>7, <2>1 DEF Runs
  <2>3. \A k \in 1..(L + 1) :
           running'[k].node \notin destroyed => running'[k].next <= Len(prods[running'[k].node])
    BY <1>2, <1>3, <1>5, <1>6, <1>7 DEF Runs
  <2> QED BY <1>1, <1>7, <2>2, <2>3 DEF Runs
<1>10. Holes'
  <2> SUFFICES ASSUME NEW m \in Node, NEW i \in 1..Len(prods[m]), prods[m][i].node = NoNode
               PROVE  /\ m \in destroyed
                      /\ \A k \in 1..(L + 1) : running'[k].node = m => i <= running'[k].next
    BY <1>1, <1>7 DEF Holes
  <2>1. m \in destroyed /\ \A k \in 1..L : running[k].node = m => i <= running[k].next
    BY <1>2, <1>6 DEF Holes
  <2> QED BY <1>3, <1>5, <1>7, <2>1
<1>11. Leaves' BY <1>1, <1>2 DEF Leaves
<1>12. Grounded' /\ Rooted'
  <2>1. \A m, k \in Node : Edge(m, k)' => Edge(m, k) BY <1>1 DEF Edge
  <2> QED BY <1>2, <2>1, FewerEdges
<1>13. Frames' /\ OneCall(calls)' BY <1>1, Outermost
<1>14. HaveTwins' /\ AreTwins' BY <1>1, TwinsKept
<1> QED BY <1>8, <1>9, <1>10, <1>11, <1>12, <1>13, <1>14 DEF IInv

\* A loop from outside starts, and nothing else happens.
LEMMA LoopInv ==
    ASSUME IInv, calls = <<>>, UNCHANGED <<prods, cons>>, destroyed' \in SUBSET Watch,
           destroyed \subseteq destroyed', NEW f \in Frame, calls' = <<f>>,
           f.node \in Consumer, f.next = f.first, f.op \notin Linking,
           running' \in Seq(Run), Runs', Holes', InRange(f)', Base(f)',
           f.first..f.last # {} => Live(f.node)
    PROVE  IInv'
<1>1. Types /\ Leaves /\ Grounded /\ Rooted BY DEF IInv
<1>2. Types'
  <2>1. <<f>> \in Seq(Frame) OBVIOUS
  <2> QED BY <1>1, <2>1 DEF Types
<1>3. Leaves' BY <1>1 DEF Leaves
<1>4. Grounded' /\ Rooted'
  <2>1. \A m, k \in Node : Edge(m, k)' => Edge(m, k) BY DEF Edge
  <2> QED BY <1>1, <2>1, FewerEdges
<1>5. Frames' /\ OneCall(calls)' BY Outermost
<1>6. ASSUME NEW n \in Node, NEW j \in 1..Len(prods[n])
      PROVE  On(calls', cons, n, j) <=> On(calls, cons, n, j)
  <2>1. On(calls, cons, n, j) <=> Live(n) BY NoFrame DEF Live
  <2>2. On(calls', cons, n, j) <=> IF n = f.node /\ j \in f.first..f.last
                                   THEN f.op \in Linking <=> j < f.next ELSE Live(n)
    BY OneFrame DEF Live
  <2>3. CASE n = f.node /\ j \in f.first..f.last
    <3>1. ~(j < f.next)
      <4>1. f.first \in Nat /\ f.last \in Nat BY DEF Frame
      <4> QED BY <2>3, <4>1
    <3>2. Live(n) BY <2>3
    <3> QED BY <2>1, <2>2, <2>3, <3>1, <3>2
  <2>4. CASE ~(n = f.node /\ j \in f.first..f.last) BY <2>1, <2>2, <2>4
  <2> QED BY <2>3, <2>4
<1>7. HaveTwins' /\ AreTwins' BY <1>6, TwinsKept
<1> QED BY <1>2, <1>3, <1>4, <1>5, <1>7 DEF IInv

LEMMA FinishInv == IInv /\ Finish => IInv'
<1> SUFFICES ASSUME IInv, Finish PROVE IInv' OBVIOUS
<1>1. PICK c, first, last, f :
         /\ c = Top /\ first = NextIndex + 1
         /\ last = IF Live(c) THEN Len(prods[c]) ELSE 0
         /\ f = Loop("finish", c, first, last, 0) /\ calls' = <<f>>
         /\ calls = <<>> /\ running # <<>> /\ UNCHANGED <<prods, cons, destroyed, running>>
  BY DEF Finish
<1>2. /\ c \in Consumer /\ c \in Node /\ NextIndex \in Nat /\ first \in Nat
      /\ \A i \in 1..Len(prods[c]) : i > NextIndex => prods[c][i].node \in Producer
  BY <1>1, TopIs
<1>3. Types /\ Len(prods[c]) \in Nat BY <1>2, ListsAre DEF IInv
<1>4. last \in Nat BY <1>1, <1>3
<1>5. /\ f \in Frame /\ f.op = "finish" /\ f.node = c /\ f.first = first /\ f.next = first
      /\ f.last = last
  BY <1>1, <1>2, <1>4 DEF Loop, Frame
<1>6. InRange(f)
  <2>1. first # 0 /\ last <= Len(prods[c]) BY <1>1, <1>2, <1>3
  <2>2. \A i \in first..last : i \in 1..Len(prods[c]) /\ i > NextIndex
    BY <1>1, <1>2, <1>3, <1>4, <2>1
  <2> QED BY <1>2, <1>5, <2>1, <2>2 DEF InRange
<1>7. Base(f) BY <1>1, <1>2, <1>5 DEF Base
<1>8. InRange(f)' /\ Base(f)' BY <1>1, <1>6, <1>7, SameFrames
<1>9. f.op \notin Linking BY <1>5 DEF Linking
<1>10. f.first..f.last # {} => Live(f.node)
  <2>1. ~Live(c) => last = 0 BY <1>1
  <2>2. first >= 1 BY <1>1, <1>2
  <2>3. ~Live(c) => first..last = {} BY <1>2, <2>1, <2>2
  <2> QED BY <1>5, <2>3
<1>11. Runs' /\ Holes' BY <1>1 DEF IInv, Runs, Holes
<1> QED BY <1>1, <1>2, <1>3, <1>5, <1>8, <1>9, <1>10, <1>11, LoopInv DEF Types

LEMMA DestroyInv == ASSUME IInv, NEW w \in Watch, Destroy(w) PROVE IInv'
<1>1. /\ calls = <<>> /\ w \notin destroyed /\ destroyed' = destroyed \cup {w}
      /\ UNCHANGED <<prods, cons, running>>
  BY DEF Destroy
<1>2. PICK f : f = Loop("destroy", w, 1, Len(prods[w]), 0) /\ calls' = <<f>> BY DEF Destroy
<1>3. Types /\ w \in Consumer /\ w \in Node /\ Len(prods[w]) \in Nat
  BY ListsAre DEF IInv, Node, Consumer
<1>4. /\ f \in Frame /\ f.op = "destroy" /\ f.node = w /\ f.first = 1 /\ f.next = 1
      /\ f.last = Len(prods[w])
  BY <1>2, <1>3 DEF Loop, Frame
<1>5. InRange(f)'
  <2>1. ASSUME NEW i \in 1..Len(prods[w]) PROVE prods[w][i].node \in Producer
    <3>1. prods[w][i] \in Entry BY <1>3, ListsAre
    <3>2. prods[w][i].node # NoNode BY <1>1, <1>3 DEF IInv, Holes
    <3> QED BY <3>1, <3>2 DEF Entry
  <2> QED BY <1>1, <1>3, <1>4, <2>1 DEF InRange
<1>6. Base(f)' BY <1>1, <1>3, <1>4 DEF Base
<1>7. f.op \notin Linking BY <1>4 DEF Linking
<1>8. Live(f.node) BY <1>4 DEF Live
<1>9. Runs' /\ Holes'
  <2>1. Runs /\ Holes BY DEF IInv
  <2>2. Runs' BY <1>1, <2>1 DEF Runs
  <2>3. Holes' BY <1>1, <2>1 DEF Holes
  <2> QED BY <2>2, <2>3
<1>10. destroyed' \in SUBSET Watch /\ running' \in Seq(Run) BY <1>1, <1>3 DEF Types
<1> QED BY <1>1, <1>2, <1>3, <1>4, <1>5, <1>6, <1>7, <1>8, <1>9, <1>10, LoopInv

\* A loop from outside that has come to its end has unlinked all it was to unlink.
LEMMA EndIs ==
    ASSUME IInv, NEW op, Ends(op), op \notin {"add", "remove"}
    PROVE  /\ Cur \in Frame /\ Cur.op = op /\ calls = <<Cur>> /\ Base(Cur) /\ InRange(Cur)
           /\ Cur.node \in Consumer /\ Cur.node \in Node /\ Cur.first \in Nat /\ Cur.last \in Nat
           /\ \A n \in Node : \A j \in 1..Len(prods[n]) :
                 On(calls, cons, n, j) <=>
                    IF n = Cur.node /\ j \in Cur.first..Cur.last THEN op \in Linking ELSE Live(n)
<1>1. Types /\ Frames /\ calls # <<>> /\ Cur.op = op /\ Cur.next > Cur.last BY DEF IInv, Ends
<1>2. Len(calls) = 1 /\ Cur = calls[1] /\ Base(Cur) /\ InRange(Cur) /\ Cur \in Frame
  BY <1>1, BottomIs, CurIs
<1>3. calls = <<Cur>> BY <1>1, <1>2 DEF Types
<1>4. Cur.node \in Consumer /\ Cur.node \in Node BY <1>2, NodeFacts DEF Base
<1>5. Cur.first \in Nat /\ Cur.last \in Nat /\ Cur.next \in Nat BY <1>2 DEF Frame
<1>6. ASSUME NEW n \in Node, NEW j \in 1..Len(prods[n])
      PROVE  On(calls, cons, n, j) <=>
                IF n = Cur.node /\ j \in Cur.first..Cur.last THEN op \in Linking ELSE Live(n)
  <2>1. PICK f : f = Cur OBVIOUS
  <2>2. On(<<f>>, cons, n, j) <=> IF n = f.node /\ j \in f.first..f.last
                                  THEN f.op \in Linking <=> j < f.next ELSE Live(n)
    BY OneFrame DEF Live
  <2>3. j \in f.first..f.last => j < f.next BY <1>1, <1>5, <2>1
  <2> QED BY <1>1, <1>3, <2>1, <2>2, <2>3
<1> QED BY <1>1, <1>2, <1>3, <1>4, <1>5, <1>6

LEMMA AccessedInv == IInv /\ Accessed => IInv'
<1> SUFFICES ASSUME IInv, Accessed PROVE IInv' OBVIOUS
<1>1. Ends("read") /\ calls' = <<>> /\ UNCHANGED <<prods, cons, destroyed, running>>
  BY DEF Accessed
<1>2. /\ Cur.op = "read" /\ Base(Cur)
      /\ \A n \in Node : \A j \in 1..Len(prods[n]) :
            On(calls, cons, n, j) <=>
               IF n = Cur.node /\ j \in Cur.first..Cur.last THEN "read" \in Linking ELSE Live(n)
  BY <1>1, EndIs
<1>3. "read" \in Linking BY DEF Linking
<1>4. Live(Cur.node) BY <1>2 DEF Base
<1>5. \A n \in Node : \A j \in 1..Len(prods[n]) : On(calls, cons, n, j) <=> Live(n)
  BY <1>2, <1>3, <1>4
<1>6. \A n, j : On(calls', cons, n, j) <=> Live(n) BY <1>1, NoFrame DEF Live
<1>7. HaveTwins' /\ AreTwins' BY <1>1, <1>5, <1>6, TwinsKept
<1>8. Frames' /\ OneCall(calls)' BY <1>1, Outermost
<1>9. /\ Types /\ Leaves /\ Runs /\ Holes /\ Grounded /\ Rooted BY DEF IInv
<1>10. Types'
  <2>1. <<>> \in Seq(Frame) OBVIOUS
  <2> QED BY <1>1, <1>9, <2>1 DEF Types
<1>11. Leaves' /\ Runs' /\ Holes' BY <1>1, <1>9 DEF Leaves, Runs, Holes
<1>12. Grounded' /\ Rooted'
  <2>1. \A m, k \in Node : Edge(m, k)' => Edge(m, k) BY <1>1 DEF Edge
  <2> QED BY <1>9, <2>1, FewerEdges
<1> QED BY <1>7, <1>8, <1>10, <1>11, <1>12 DEF IInv

\* A loop from outside has unlinked all but the first m dependencies of c, which
\* are all that it keeps.
LEMMA DropInv ==
    ASSUME IInv, NEW op \in {"finish", "destroy"}, Ends(op), NEW c, c = Cur.node,
           calls' = <<>>, UNCHANGED <<cons, destroyed>>, running' \in Seq(Run), Runs', Holes',
           NEW m \in Nat, m <= Len(prods[c]),
           prods' \in [Node -> Seq(Entry)], \A n \in Node : n # c => prods'[n] = prods[n],
           Len(prods'[c]) = m, \A j \in 1..m : prods'[c][j] = prods[c][j],
           \A j \in 1..Len(prods[c]) :
              IF j <= m THEN j \notin Cur.first..Cur.last
              ELSE Live(c) => j \in Cur.first..Cur.last
    PROVE  IInv'
<1>1. /\ c \in Consumer /\ c \in Node
      /\ \A n \in Node : \A j \in 1..Len(prods[n]) :
            On(calls, cons, n, j) <=>
               IF n = c /\ j \in Cur.first..Cur.last THEN op \in Linking ELSE Live(n)
  BY EndIs
<1>2. op \notin Linking BY DEF Linking
<1>3. Types /\ Leaves /\ Grounded /\ Rooted /\ Len(prods[c]) \in Nat
  BY <1>1, ListsAre DEF IInv
<1>4. \A j \in 1..m : j \in 1..Len(prods[c]) /\ j <= m BY <1>3
<1>5. \A n, j : On(calls', cons, n, j) <=> Live(n) BY NoFrame DEF Live
<1>6. ASSUME NEW n \in Node, NEW j \in 1..Len(prods[n]), On(calls, cons, n, j)
      PROVE  On(calls', cons, n, j) /\ j \in 1..Len(prods'[n]) /\ prods'[n][j] = prods[n][j]
  <2>1. Live(n) /\ ~(n = c /\ j \in Cur.first..Cur.last) BY <1>1, <1>2, <1>6
  <2>2. n = c => j \in 1..m
    <3>1. j \in Nat /\ j >= 1 BY <1>3
    <3>2. n = c => j <= m BY <2>1
    <3> QED BY <3>1, <3>2
  <2> QED BY <1>5, <2>1, <2>2
<1>7. ASSUME NEW n \in Node, NEW j \in 1..Len(prods'[n]), On(calls', cons, n, j)
      PROVE  On(calls, cons, n, j) /\ j \in 1..Len(prods[n]) /\ prods'[n][j] = prods[n][j]
  <2>1. Live(n) BY <1>5, <1>7
  <2>2. j \in 1..Len(prods[n]) /\ prods'[n][j] = prods[n][j] BY <1>4
  <2>3. ~(n = c /\ j \in Cur.first..Cur.last) BY <1>4
  <2> QED BY <1>1, <2>1, <2>2, <2>3
<1>8. HaveTwins' /\ AreTwins' BY <1>6, <1>7, TwinsKept
<1>9. Frames' /\ OneCall(calls)' BY Outermost
<1>10. Types'
  <2>1. <<>> \in Seq(Frame) OBVIOUS
  <2> QED BY <1>3, <2>1 DEF Types
<1>11. Leaves'
  <2>1. \A s \in Signal : s \in Node /\ s # c BY <1>1, NodeFacts DEF Node
  <2> QED BY <1>3, <2>1 DEF Leaves
<1>12. Grounded' /\ Rooted'
  <2>1. ASSUME NEW n \in Node, NEW k, Edge(n, k)' PROVE Edge(n, k)
    <3>1. PICK j \in 1..Len(prods'[n]) : prods'[n][j].node = k BY <2>1 DEF Edge
    <3>2. j \in 1..Len(prods[n]) /\ prods'[n][j] = prods[n][j] BY <1>4
    <3> QED BY <3>1, <3>2 DEF Edge
  <2> QED BY <1>3, <2>1, FewerEdges
<1> QED BY <1>8, <1>9, <1>10, <1>11, <1>12 DEF IInv

LEMMA ClearInv == IInv /\ Clear => IInv'
<1> SUFFICES ASSUME IInv, Clear PROVE IInv' OBVIOUS
<1>1. PICK c : /\ c = Cur.node /\ Ends("destroy") /\ prods' = [prods EXCEPT ![c] = <<>>]
               /\ calls' = <<>> /\ UNCHANGED <<cons, destroyed, running>>
  BY DEF Clear
<1>2. Base(Cur) /\ Cur.op = "destroy" /\ c \in Node BY <1>1, EndIs
<1>3. c \in destroyed /\ Cur.first = 1 /\ Cur.last = Len(prods[c]) BY <1>1, <1>2 DEF Base
<1>4. Types /\ Runs /\ Holes BY DEF IInv
<1>5. /\ prods' \in [Node -> Seq(Entry)] /\ \A n \in Node : n # c => prods'[n] = prods[n]
      /\ prods'[c] = <<>>
  <2>1. <<>> \in Seq(Entry) OBVIOUS
  <2> QED BY <1>1, <1>2, <1>4, <2>1 DEF Types
<1>6. Len(prods'[c]) = 0 BY <1>5
<1>7. Runs'
  <2>1. \A k \in 1..Len(running) : running[k].node \in Node BY <1>4, RunningIs
  <2> QED BY <1>1, <1>3, <1>4, <1>5, <2>1 DEF Runs
<1>8. Holes'
  <2> SUFFICES ASSUME NEW n \in Node, NEW i \in 1..Len(prods'[n]), prods'[n][i].node = NoNode
               PROVE  /\ n \in destroyed
                      /\ \A k \in 1..Len(running) : running[k].node = n => i <= running[k].next
    BY <1>1 DEF Holes
  <2>1. n # c BY <1>6
  <2> QED BY <1>4, <1>5, <2>1 DEF Holes
<1>9. running' \in Seq(Run) BY <1>1, <1>4 DEF Types
<1>10. Len(prods[c]) \in Nat BY <1>2, <1>4, ListsAre
<1>11. \A j \in 1..Len(prods[c]) : IF j <= 0 THEN j \notin Cur.first..Cur.last
                                    ELSE Live(c) => j \in Cur.first..Cur.last
  BY <1>3, <1>10
<1>12. \A j \in 1..0 : prods'[c][j] = prods[c][j] OBVIOUS
<1> QED BY <1>1, <1>5, <1>6, <1>7, <1>8, <1>9, <1>10, <1>11, <1>12, DropInv

LEMMA TruncateInv == IInv /\ Truncate => IInv'
<1> SUFFICES ASSUME IInv, Truncate PROVE IInv' OBVIOUS
<1>1. PICK c, x, L :
         /\ c = Top /\ x = NextIndex /\ L = Len(running) /\ Ends("finish")
         /\ prods' = [prods EXCEPT ![c] = IF Len(@) > x THEN SubSeq(@, 1, x) ELSE @]
         /\ running' = SubSeq(running, 1, L - 1) /\ calls' = <<>> /\ UNCHANGED <<cons, destroyed>>
  BY DEF Truncate
<1>2. Base(Cur) /\ Cur.op = "finish" /\ Cur.node \in Node BY <1>1, EndIs
<1>3. /\ c = Cur.node /\ Cur.first = x + 1 /\ running # <<>>
      /\ Cur.last = IF Live(c) THEN Len(prods[c]) ELSE 0
  BY <1>1, <1>2 DEF Base
<1>4. Types /\ Runs /\ Holes BY DEF IInv
<1>5. c \in Node /\ x \in Nat /\ L \in Nat /\ L \in 1..L /\ running[L].node = c
  BY <1>1, <1>3, TopIs
<1>6. prods[c] \in Seq(Entry) /\ Len(prods[c]) \in Nat BY <1>4, <1>5 DEF Types
<1>7. PICK m \in Nat : m = IF Len(prods[c]) > x THEN x ELSE Len(prods[c]) BY <1>5, <1>6
<1>8. PICK l : /\ l = IF Len(prods[c]) > x THEN SubSeq(prods[c], 1, x) ELSE prods[c]
               /\ l \in Seq(Entry) /\ Len(l) = m /\ \A j \in 1..m : l[j] = prods[c][j]
  <2>1. CASE Len(prods[c]) > x
    <3>1. /\ SubSeq(prods[c], 1, x) \in Seq(Entry) /\ Len(SubSeq(prods[c], 1, x)) = x
          /\ \A j \in 1..x : SubSeq(prods[c], 1, x)[j] = prods[c][j]
      <4>1. \A j \in 1..x : j \in 1..Len(prods[c]) BY <1>5, <1>6, <2>1
      <4> QED BY <1>5, <1>6, <2>1, <4>1
    <3> QED BY <1>7, <2>1, <3>1
  <2>2. CASE ~(Len(prods[c]) > x) BY <1>6, <1>7, <2>2
  <2> QED BY <2>1, <2>2
<1>9. /\ prods' \in [Node -> Seq(Entry)] /\ \A n \in Node : n # c => prods'[n] = prods[n]
      /\ prods'[c] = l
  <2>1. prods' = [prods EXCEPT ![c] = l] BY <1>1, <1>8
  <2> QED BY <1>4, <1>5, <1>8, <2>1 DEF Types
<1>10. /\ running' \in Seq(Run) /\ Len(running') = L - 1
       /\ \A k \in 1..(L - 1) : /\ running'[k] = running[k] /\ k \in 1..Len(running)
                                 /\ running[k].node # c /\ running[k].node \in Node
  <2>1. running \in Seq(Run) /\ L - 1 \in Nat BY <1>4, <1>5 DEF Types
  <2>2. \A k \in 1..(L - 1) : k \in 1..Len(running) /\ k # L BY <1>1, <1>5
  <2>3. /\ running' \in Seq(Run) /\ Len(running') = L - 1
        /\ \A k \in 1..(L - 1) : running'[k] = running[k]
    <3>1. PICK M \in Nat : M = L - 1 BY <2>1
    <3>2. M <= Len(running) BY <1>1, <1>5, <3>1
    <3>3. running' = SubSeq(running, 1, M) BY <1>1, <3>1
    <3>4. /\ running' \in Seq(Run) /\ Len(running') = M
          /\ \A k \in 1..M : running'[k] = running[k]
      BY <2>1, <3>2, <3>3
    <3> QED BY <3>1, <3>4
  <2>4. \A k \in 1..(L - 1) : running[k].node # c /\ running[k].node \in Node
    BY <1>1, <1>4, <1>5, <2>2, RunningIs DEF Runs
  <2> QED BY <2>2, <2>3, <2>4
<1>11. Runs' BY <1>1, <1>4, <1>9, <1>10 DEF Runs
<1>12. m <= Len(prods[c]) /\ \A j \in 1..m : j \in 1..Len(prods[c]) BY <1>5, <1>6, <1>7
<1>13. Holes'
  <2> SUFFICES ASSUME NEW n \in Node, NEW i \in 1..Len(prods'[n]), prods'[n][i].node = NoNode
               PROVE  /\ n \in destroyed'
                      /\ \A k \in 1..Len(running') : running'[k].node = n => i <= running'[k].next
    BY DEF Holes
  <2>1. i \in 1..Len(prods[n]) /\ prods[n][i].node = NoNode BY <1>8, <1>9, <1>12
  <2>2. /\ n \in destroyed
        /\ \A k \in 1..Len(running) : running[k].node = n => i <= running[k].next
    BY <1>4, <2>1 DEF Holes
  <2> QED BY <1>1, <1>10, <2>2
<1>14. \A j \in 1..Len(prods[c]) : IF j <= m THEN j \notin Cur.first..Cur.last
                                    ELSE Live(c) => j \in Cur.first..Cur.last
  <2> TAKE j \in 1..Len(prods[c])
  <2>1. j \in Nat /\ j <= Len(prods[c]) BY <1>6
  <2>2. CASE j <= m
    <3>1. j <= x BY <1>5, <1>6, <1>7, <2>1, <2>2
    <3>2. j \notin (x + 1)..Cur.last
      <4>1. Cur.last \in Nat BY <1>3, <1>6
      <4> QED BY <1>5, <2>1, <3>1, <4>1
    <3> QED BY <1>3, <2>2, <3>2
  <2>3. CASE ~(j <= m)
    <3>1. j \in (x + 1)..Len(prods[c]) BY <1>5, <1>6, <1>7, <2>1, <2>3
    <3> QED BY <1>3, <2>3, <3>1
  <2> QED BY <2>2, <2>3
<1>15. Len(prods'[c]) = m /\ \A j \in 1..m : prods'[c][j] = prods[c][j] BY <1>8, <1>9
<1>16. Ends("finish") /\ calls' = <<>> /\ UNCHANGED <<cons, destroyed>> BY <1>1
<1>17. c = Cur.node /\ m <= Len(prods[c]) /\ running' \in Seq(Run) BY <1>3, <1>10, <1>12
<1> QED BY <1>9, <1>11, <1>13, <1>14, <1>15, <1>16, <1>17, DropInv

-----------------------------------------------------------------------------
LEMMA StoreIs ==
    ASSUME Types, NEW c \in Node, NEW idx \in Nat, idx >= 1, NEW p \in Producer, Store(c, idx, p)
    PROVE  /\ prods' \in [Node -> Seq(Entry)] /\ \A n \in Node : n # c => prods'[n] = prods[n]
           /\ Len(prods'[c]) = IF idx > Len(prods[c]) THEN idx ELSE Len(prods[c])
           /\ idx \in 1..Len(prods'[c]) /\ prods'[c][idx].node = p
           /\ \A j \in 1..Len(prods[c]) :
                 j # idx => j \in 1..Len(prods'[c]) /\ prods'[c][j] = prods[c][j]
           /\ \A j \in 1..Len(prods'[c]) :
                 j # idx => j \in 1..Len(prods[c]) \/ (prods'[c][j].node = NoNode /\ j < idx)
<1>1. PICK L \in Nat : L = Len(prods[c]) BY ListsAre
<1>2. PICK e, h, old : /\ e = [node |-> p, at |-> 0] /\ h = [node |-> NoNode, at |-> 0]
                       /\ old = prods[c]
  OBVIOUS
<1>3. e \in Entry /\ e.node = p /\ h \in Entry /\ h.node = NoNode BY <1>2 DEF Entry
<1>4. \A j \in 1..L : old[j] \in Entry BY <1>1, <1>2, ListsAre
<1> DEFINE item(j) == IF j = idx THEN e ELSE IF j \in 1..L THEN old[j] ELSE h
           len == IF idx > L THEN idx ELSE L
           l == [j \in 1..len |-> item(j)]
<1>5. prods' = [prods EXCEPT ![c] = l] BY <1>1, <1>2 DEF Store
<1>6. len \in Nat /\ idx \in 1..len /\ \A j \in 1..L : j \in 1..len BY <1>1
<1>7. \A j \in 1..len : item(j) \in Entry BY <1>3, <1>4
<1>8. item(idx) = e /\ \A j : j # idx => IF j \in 1..L THEN item(j) = old[j] ELSE item(j) = h
  OBVIOUS
<1>9. \A j \in 1..len : j # idx /\ j \notin 1..L => j < idx BY <1>1
<1> HIDE DEF item, len
<1>10. l \in Seq(Entry) /\ Len(l) = len /\ \A j \in 1..len : l[j] = item(j) BY <1>6, <1>7
<1> HIDE DEF l
<1>11. /\ prods' \in [Node -> Seq(Entry)] /\ \A n \in Node : n # c => prods'[n] = prods[n]
       /\ prods'[c] = l
  BY <1>5, <1>10 DEF Types
<1>12. Len(prods'[c]) = len /\ idx \in 1..len /\ prods'[c][idx].node = p
  BY <1>3, <1>6, <1>8, <1>10, <1>11
<1>13. \A j \in 1..L : j # idx => j \in 1..len /\ prods'[c][j] = old[j]
  BY <1>6, <1>8, <1>10, <1>11
<1>14. \A j \in 1..len : j # idx => j \in 1..L \/ (prods'[c][j].node = NoNode /\ j < idx)
  BY <1>3, <1>8, <1>9, <1>10, <1>11
<1>15. len = IF idx > L THEN idx ELSE L BY DEF len
<1> QED BY <1>1, <1>2, <1>11, <1>12, <1>13, <1>14, <1>15

\* The idx-th read of the running consumer c is stored: what was there is not linked.
LEMMA StoreInv ==
    ASSUME IInv, NEW c, NEW idx \in Nat, idx >= 1, NEW p \in Producer, Readable(p),
           running # <<>>, c = Top, NextIndex <= idx,
           c \notin destroyed => idx <= Len(prods[c]) + 1,
           Store(c, idx, p), UNCHANGED <<cons, destroyed>>,
           running' \in Seq(Run), Len(running') = Len(running),
           \A k \in 1..Len(running) :
              /\ running'[k].node = running[k].node
              /\ k # Len(running) => running'[k] = running[k],
           running'[Len(running)].next = idx,
           \A n \in Node : \A j \in 1..Len(prods[n]) :
              On(calls, cons, n, j) <=> Live(n) /\ ~(n = c /\ j = idx)
    PROVE  IInv'
<1>1. Types /\ Leaves /\ Runs /\ Holes /\ Grounded /\ Rooted BY DEF IInv
<1>2. PICK L \in Nat : /\ L = Len(running) /\ L \in 1..L /\ c = running[L].node
                      /\ NextIndex = running[L].next
  BY TopIs
<1>3. c \in Consumer /\ c \in Node /\ c \notin Signal /\ IsRunning(c) /\ Len(prods[c]) \in Nat
  BY <1>1, TopIs, ListsAre
<1>4. /\ prods' \in [Node -> Seq(Entry)] /\ \A n \in Node : n # c => prods'[n] = prods[n]
      /\ Len(prods'[c]) = IF idx > Len(prods[c]) THEN idx ELSE Len(prods[c])
      /\ idx \in 1..Len(prods'[c]) /\ prods'[c][idx].node = p
      /\ \A j \in 1..Len(prods[c]) :
            j # idx => j \in 1..Len(prods'[c]) /\ prods'[c][j] = prods[c][j]
      /\ \A j \in 1..Len(prods'[c]) :
            j # idx => j \in 1..Len(prods[c]) \/ (prods'[c][j].node = NoNode /\ j < idx)
  BY <1>1, <1>3, StoreIs
<1>5. PICK f : f = Loop("read", c, idx, idx, 0) /\ calls' = IF Live(c) THEN <<f>> ELSE <<>>
  BY DEF Store
<1>6. f \in Frame /\ f.op = "read" /\ f.node = c /\ f.first = idx /\ f.next = idx /\ f.last = idx
  BY <1>3, <1>5 DEF Loop, Frame
<1>7. Types'
  <2>1. <<f>> \in Seq(Frame) /\ <<>> \in Seq(Frame) BY <1>6
  <2> QED BY <1>1, <1>4, <1>5, <2>1 DEF Types
<1>8. Leaves'
  <2>1. \A s \in Signal : s \in Node /\ s # c BY <1>3 DEF Node
  <2> QED BY <1>1, <1>4, <2>1 DEF Leaves
<1>9. Runs'
  <2>1. \A j, k \in 1..L : running'[j].node = running'[k].node => j = k BY <1>1, <1>2 DEF Runs
  <2>2. \A k \in 1..L : /\ running[k].node \in Node /\ (running[k].node = c => k = L)
                        /\ running[k].node \notin destroyed =>
                              running[k].next <= Len(prods[running[k].node])
    BY <1>1, <1>2, RunningIs DEF Runs
  <2>3. idx <= Len(prods'[c]) BY <1>3, <1>4
  <2>4. \A k \in 1..L : running'[k].node \notin destroyed =>
                           running'[k].next <= Len(prods'[running'[k].node])
    BY <1>2, <1>4, <2>2, <2>3
  <2> QED BY <1>2, <2>1, <2>4 DEF Runs
<1>10. Holes'
  <2> SUFFICES ASSUME NEW n \in Node, NEW i \in 1..Len(prods'[n]), prods'[n][i].node = NoNode
               PROVE  /\ n \in destroyed
                      /\ \A k \in 1..L : running'[k].node = n => i <= running'[k].next
    BY <1>2 DEF Holes
  <2>1. CASE n = c
    <3>1. i # idx BY <1>4, <2>1, NodeFacts
    <3>2. \A k \in 1..L : running'[k].node = c => running'[k].next = idx BY <1>1, <1>2 DEF Runs
    <3>3. CASE i \in 1..Len(prods[c])
      <4>1. prods[c][i].node = NoNode BY <1>4, <2>1, <3>1, <3>3
      <4>2. c \in destroyed /\ i <= NextIndex BY <1>1, <1>2, <1>3, <3>3, <4>1 DEF Holes
      <4>3. NextIndex \in Nat /\ i \in Nat BY <3>3, TopIs
      <4>4. i <= idx BY <4>2, <4>3
      <4> QED BY <2>1, <3>2, <4>2, <4>4
    <3>4. CASE i \notin 1..Len(prods[c])
      <4>1. i < idx BY <1>4, <2>1, <3>1, <3>4
      <4>2. i \in Nat /\ i >= 1 BY <1>3, <1>4, <2>1
      <4>3. c \in destroyed
        <5> SUFFICES ASSUME c \notin destroyed PROVE FALSE OBVIOUS
        <5>1. i <= Len(prods[c]) BY <1>3, <4>1, <4>2
        <5> QED BY <1>3, <3>4, <4>2, <5>1
      <4>4. i <= idx BY <4>1, <4>2
      <4> QED BY <2>1, <3>2, <4>3, <4>4
    <3> QED BY <3>3, <3>4
  <2>2. CASE n # c
    <3>1. /\ n \in destroyed
          /\ \A k \in 1..L : running[k].node = n => i <= running[k].next
      BY <1>1, <1>2, <1>4, <2>2 DEF Holes
    <3>2. \A k \in 1..L : running'[k].node = n => k # L /\ running'[k] = running[k]
      BY <1>2, <2>2
    <3> QED BY <1>2, <3>1, <3>2
  <2> QED BY <2>1, <2>2
<1>11. Grounded' /\ Rooted'
  <2>1. ASSUME NEW m \in Node, NEW n \in Node, Edge(m, n)' PROVE Edge(m, n) \/ (m = c /\ n = p)
    <3>1. PICK j \in 1..Len(prods'[m]) : prods'[m][j].node = n BY <2>1 DEF Edge
    <3>2. n # NoNode BY NodeFacts
    <3>3. CASE m = c /\ j = idx BY <1>4, <3>1, <3>3
    <3>4. CASE m = c /\ j # idx
      <4>1. j \in 1..Len(prods[c]) /\ prods'[c][j] = prods[c][j] BY <1>4, <3>1, <3>2, <3>4
      <4> QED BY <3>1, <3>4, <4>1 DEF Edge
    <3>5. CASE m # c BY <1>4, <3>1, <3>5 DEF Edge
    <3> QED BY <3>3, <3>4, <3>5
  <2> QED BY <1>3, <2>1, NewEdge
<1>12. Frames' /\ OneCall(calls)'
  <2>1. InRange(f)'
    <3>1. \A i \in idx..idx : i = idx OBVIOUS
    <3>2. idx <= Len(prods'[c]) BY <1>3, <1>4
    <3> QED BY <1>4, <1>6, <3>1, <3>2 DEF InRange
  <2>2. Live(c) => Base(f)'
    <3>1. Live(c) => Live(c)' BY DEF Live
    <3> QED BY <1>3, <1>6, <3>1 DEF Base
  <2> QED BY <1>5, <2>1, <2>2, Outermost
<1>13. ASSUME NEW n \in Node, NEW j
       PROVE  On(calls', cons, n, j) <=> Live(n) /\ ~(n = c /\ j = idx)
  <2>1. CASE Live(c)
    <3>1. calls' = <<f>> BY <1>5, <2>1
    <3>2. On(calls', cons, n, j) <=> IF n = f.node /\ j \in f.first..f.last
                                     THEN f.op \in Linking <=> j < f.next ELSE Live(n)
      BY <3>1, OneFrame DEF Live
    <3>3. f.op \in Linking BY <1>6 DEF Linking
    <3>4. j \in idx..idx <=> j = idx OBVIOUS
    <3>5. ~(idx < idx) OBVIOUS
    <3> QED BY <1>6, <3>2, <3>3, <3>4, <3>5
  <2>2. CASE ~Live(c)
    <3>1. calls' = <<>> BY <1>5, <2>2
    <3>2. On(calls', cons, n, j) <=> Live(n) BY <3>1, NoFrame DEF Live
    <3> QED BY <2>2, <3>2
  <2> QED BY <2>1, <2>2
<1>14. HaveTwins' /\ AreTwins'
  <2>1. ASSUME NEW n \in Node, NEW j \in 1..Len(prods[n]), On(calls, cons, n, j)
        PROVE  On(calls', cons, n, j) /\ j \in 1..Len(prods'[n]) /\ prods'[n][j] = prods[n][j]
    BY <1>4, <1>13, <2>1
  <2>2. ASSUME NEW n \in Node, NEW j \in 1..Len(prods'[n]), On(calls', cons, n, j),
               prods'[n][j].node # NoNode
        PROVE  On(calls, cons, n, j) /\ j \in 1..Len(prods[n]) /\ prods'[n][j] = prods[n][j]
    BY <1>4, <1>13, <2>2
  <2> QED BY <2>1, <2>2, TwinsKept
<1> QED BY <1>7, <1>8, <1>9, <1>10, <1>11, <1>12, <1>14 DEF IInv

LEMMA ReplaceInv == IInv /\ Replace => IInv'
<1> SUFFICES ASSUME IInv, Replace PROVE IInv' OBVIOUS
<1>1. PICK c, idx, p : /\ c = Cur.node /\ idx = Cur.first /\ p = Cur.arg /\ Ends("replace")
                       /\ Store(c, idx, p) /\ UNCHANGED <<cons, destroyed, running>>
  BY DEF Replace
<1>2. /\ Cur.op = "replace" /\ Base(Cur) /\ InRange(Cur) /\ c \in Node
      /\ Cur.first \in Nat /\ Cur.last \in Nat
      /\ \A n \in Node : \A j \in 1..Len(prods[n]) :
            On(calls, cons, n, j) <=>
               IF n = c /\ j \in Cur.first..Cur.last THEN "replace" \in Linking ELSE Live(n)
  BY <1>1, EndIs
<1>3. /\ Cur.last = idx /\ p \in Producer /\ Readable(p) /\ running # <<>> /\ c = Top
      /\ idx = NextIndex /\ Live(c)
  BY <1>1, <1>2 DEF Base
<1>4. idx \in Nat /\ idx >= 1 /\ idx <= Len(prods[c]) /\ Len(prods[c]) \in Nat
  BY <1>1, <1>2, <1>3, ListsAre DEF InRange, IInv
<1>5. PICK L \in Nat : L = Len(running) /\ running[L].next = NextIndex BY <1>3, TopIs
<1>6. "replace" \notin Linking BY DEF Linking
<1>7. \A j : j \in idx..idx <=> j = idx BY <1>4
<1>8. \A n \in Node : \A j \in 1..Len(prods[n]) :
         On(calls, cons, n, j) <=> Live(n) /\ ~(n = c /\ j = idx)
  BY <1>1, <1>2, <1>3, <1>6, <1>7
<1>9. running' \in Seq(Run) /\ running' = running BY <1>1 DEF IInv, Types
<1>10. NextIndex <= idx /\ idx <= Len(prods[c]) + 1 BY <1>3, <1>4
<1>11. running'[Len(running)].next = idx BY <1>3, <1>5, <1>9
<1>12. /\ Len(running') = Len(running)
       /\ \A k \in 1..Len(running) : /\ running'[k].node = running[k].node
                                     /\ k # Len(running) => running'[k] = running[k]
  BY <1>9
<1>13. idx \in Nat /\ idx >= 1 /\ p \in Producer /\ running' \in Seq(Run) BY <1>3, <1>4, <1>9
<1>14. Readable(p) /\ running # <<>> /\ c = Top BY <1>3
<1>15. Store(c, idx, p) /\ UNCHANGED <<cons, destroyed>> BY <1>1
<1> QED BY <1>8, <1>10, <1>11, <1>12, <1>13, <1>14, <1>15, StoreInv

LEMMA AccessInv == ASSUME IInv, NEW p \in Producer, Access(p) PROVE IInv'
<1> DEFINE present(c, idx) == idx \in 1..Len(prods[c])
           kept(c, idx) == present(c, idx) /\ prods[c][idx].node = p
           stale(c, idx) == present(c, idx) /\ ~kept(c, idx) /\ Live(c)
<1>1. PICK c, idx :
         /\ c = Top /\ idx = NextIndex + 1
         /\ \/ kept(c, idx) /\ UNCHANGED <<prods, calls>>
            \/ stale(c, idx) /\ calls' = <<Loop("replace", c, idx, idx, p)>> /\ UNCHANGED prods
            \/ ~kept(c, idx) /\ ~stale(c, idx) /\ Store(c, idx, p)
         /\ running' = [running EXCEPT ![Len(running)].next = idx]
         /\ calls = <<>> /\ running # <<>> /\ Readable(p) /\ UNCHANGED <<cons, destroyed>>
  BY DEF Access
<1> HIDE DEF kept, stale
<1>2. Types /\ Leaves /\ Runs /\ Holes /\ Grounded /\ Rooted BY DEF IInv
<1>3. PICK L \in Nat : /\ L = Len(running) /\ L \in 1..L /\ c = running[L].node
                      /\ NextIndex = running[L].next
  BY <1>1, TopIs
<1>4. /\ c \in Consumer /\ c \in Node /\ NextIndex \in Nat /\ Len(prods[c]) \in Nat
      /\ c \notin destroyed => NextIndex <= Len(prods[c])
      /\ \A i \in 1..Len(prods[c]) : i > NextIndex => prods[c][i].node \in Producer
  BY <1>1, <1>2, TopIs, ListsAre
<1>5. /\ idx \in Nat /\ idx >= 1 /\ NextIndex <= idx /\ idx > NextIndex
      /\ c \notin destroyed => idx <= Len(prods[c]) + 1
  BY <1>1, <1>4
<1>6. /\ running' \in Seq(Run) /\ Len(running') = L /\ running'[L].next = idx
      /\ \A k \in 1..L : /\ running'[k].node = running[k].node
                         /\ k # L => running'[k] = running[k]
  <2>1. running \in Seq(Run) /\ running[L] \in Run BY <1>2, <1>3, RunningIs DEF Types, Run
  <2>2. PICK r : r = [running[L] EXCEPT !.next = idx] OBVIOUS
  <2>3. r \in Run /\ r.next = idx /\ r.node = running[L].node BY <1>5, <2>1, <2>2 DEF Run
  <2>4. running' = [running EXCEPT ![L] = r] BY <1>1, <1>3, <2>2
  <2> QED BY <1>3, <2>1, <2>3, <2>4
<1>7. ASSUME prods' = prods, present(c, idx) PROVE Runs' /\ Holes'
  <2>1. Runs'
    <3>1. \A j, k \in 1..L : running'[j].node = running'[k].node => j = k
      BY <1>2, <1>3, <1>6 DEF Runs
    <3>2. idx <= Len(prods[c]) BY <1>5, <1>7
    <3>3. \A k \in 1..L : running'[k].node \notin destroyed =>
                             running'[k].next <= Len(prods[running'[k].node])
      BY <1>2, <1>3, <1>6, <3>2 DEF Runs
    <3> QED BY <1>1, <1>6, <1>7, <3>1, <3>3 DEF Runs
  <2>2. Holes'
    <3> SUFFICES ASSUME NEW n \in Node, NEW i \in 1..Len(prods[n]), prods[n][i].node = NoNode
                 PROVE  /\ n \in destroyed
                        /\ \A k \in 1..L : running'[k].node = n => i <= running'[k].next
      BY <1>1, <1>6, <1>7 DEF Holes
    <3>1. /\ n \in destroyed
          /\ \A k \in 1..L : running[k].node = n => i <= running[k].next
      BY <1>2, <1>3 DEF Holes
    <3>2. i \in Nat BY ListsAre, <1>2
    <3>3. ASSUME NEW k \in 1..L, running'[k].node = n PROVE i <= running'[k].next
      <4>1. i <= running[k].next BY <1>6, <3>1, <3>3
      <4>2. CASE k = L BY <1>3, <1>4, <1>5, <1>6, <3>2, <4>1, <4>2
      <4>3. CASE k # L BY <1>6, <4>1, <4>3
      <4> QED BY <4>2, <4>3
    <3> QED BY <3>1, <3>3
  <2> QED BY <2>1, <2>2
<1>8. CASE kept(c, idx) /\ UNCHANGED <<prods, calls>>
  <2>1. present(c, idx) BY <1>8 DEF kept
  <2>2. Runs' /\ Holes' BY <1>7, <1>8, <2>1
  <2>3. Types' /\ Leaves' BY <1>1, <1>2, <1>6, <1>8 DEF Types, Leaves
  <2>4. Grounded' /\ Rooted'
    <3>1. \A m, k \in Node : Edge(m, k)' => Edge(m, k) BY <1>8 DEF Edge
    <3> QED BY <1>2, <3>1, FewerEdges
  <2>5. Frames' /\ OneCall(calls)' BY <1>1, <1>8, Outermost
  <2>6. HaveTwins' /\ AreTwins' BY <1>1, <1>8, TwinsKept
  <2> QED BY <2>2, <2>3, <2>4, <2>5, <2>6 DEF IInv
<1>9. CASE stale(c, idx) /\ calls' = <<Loop("replace", c, idx, idx, p)>> /\ UNCHANGED prods
  <2>1. present(c, idx) /\ Live(c) BY <1>9 DEF stale
  <2>2. Runs' /\ Holes' BY <1>7, <1>9, <2>1
  <2>3. PICK f : f = Loop("replace", c, idx, idx, p) /\ calls' = <<f>> BY <1>9
  <2>4. /\ f \in Frame /\ f.op = "replace" /\ f.node = c /\ f.first = idx /\ f.next = idx
        /\ f.last = idx /\ f.arg = p
    BY <1>4, <1>5, <2>3 DEF Loop, Frame
  <2>5. InRange(f)'
    <3>1. \A i \in idx..idx : i = idx BY <1>5
    <3>2. prods[c][idx].node \in Producer BY <1>4, <1>5, <2>1
    <3>3. idx <= Len(prods[c]) BY <1>5, <2>1
    <3> QED BY <1>5, <1>9, <2>4, <3>1, <3>2, <3>3 DEF InRange
  <2>6. Base(f)'
    <3>1. Live(c)' BY <1>1, <2>1 DEF Live
    <3>2. running' # <<>> BY <1>3, <1>6
    <3>3. Top' = c /\ NextIndex' = idx BY <1>3, <1>6 DEF Top, NextIndex
    <3>4. \A n : IsRunning(n)' => IsRunning(n) BY <1>3, <1>6 DEF IsRunning
    <3>5. Deps' = Deps BY <1>9 DEF Deps
    <3>6. Readable(p)' BY <1>1, <3>4, <3>5 DEF Readable
    <3> QED BY <1>4, <2>4, <3>1, <3>2, <3>3, <3>6 DEF Base
  <2>7. f.op \notin Linking BY <2>4 DEF Linking
  <2>8. destroyed' \in SUBSET Watch /\ destroyed \subseteq destroyed' BY <1>1, <1>2 DEF Types
  <2>9. UNCHANGED <<prods, cons>> /\ calls = <<>> BY <1>1, <1>9
  <2>10. f.node \in Consumer /\ f.next = f.first /\ Live(f.node) BY <1>4, <2>1, <2>4
  <2> QED BY <1>6, <2>2, <2>3, <2>4, <2>5, <2>6, <2>7, <2>8, <2>9, <2>10, LoopInv
<1>10. CASE ~kept(c, idx) /\ ~stale(c, idx) /\ Store(c, idx, p)
  <2>1. ASSUME NEW n \in Node, NEW j \in 1..Len(prods[n])
        PROVE  On(calls, cons, n, j) <=> Live(n) /\ ~(n = c /\ j = idx)
    <3>1. On(calls, cons, n, j) <=> Live(n) BY <1>1, NoFrame DEF Live
    <3>2. n = c /\ j = idx => ~Live(n) BY <1>10 DEF stale
    <3> QED BY <3>1, <3>2
  <2>2. /\ Len(running') = Len(running) /\ running'[Len(running)].next = idx
        /\ \A k \in 1..Len(running) : /\ running'[k].node = running[k].node
                                       /\ k # Len(running) => running'[k] = running[k]
    BY <1>3, <1>6
  <2>3. c = Top /\ running # <<>> /\ Readable(p) /\ UNCHANGED <<cons, destroyed>> BY <1>1
  <2> QED BY <1>5, <1>6, <1>10, <2>1, <2>2, <2>3, StoreInv
<1> QED BY <1>1, <1>8, <1>9, <1>10

LEMMA NextInv == IInv /\ [Next]_edgeVars => IInv'
<1> SUFFICES ASSUME IInv, [Next]_edgeVars PROVE IInv' OBVIOUS
<1>1. ASSUME NEW n \in Consumer, Begin(n) PROVE IInv' BY <1>1, BeginInv
<1>2. ASSUME NEW p \in Producer, Access(p) PROVE IInv' BY <1>2, AccessInv
<1>3. CASE Finish BY <1>3, FinishInv
<1>4. ASSUME NEW w \in Watch, Destroy(w) PROVE IInv' BY <1>4, DestroyInv
<1>5. CASE Descend BY <1>5, DescendInv
<1>6. CASE Attach BY <1>6, AttachInv
<1>7. CASE Detach BY <1>7, DetachInv
<1>8. CASE Replace BY <1>8, ReplaceInv
<1>9. CASE Accessed BY <1>9, AccessedInv
<1>10. CASE Truncate BY <1>10, TruncateInv
<1>11. CASE Clear BY <1>11, ClearInv
<1>12. CASE UNCHANGED edgeVars
  <2>1. UNCHANGED <<prods, cons, destroyed, running, calls>> BY <1>12 DEF edgeVars
  <2>2. Types' /\ Leaves' BY <2>1 DEF IInv, Types, Leaves
  <2>3. SameNodes BY <2>1 DEF SameNodes
  <2>4. Runs' /\ Holes' /\ Grounded' /\ Rooted' BY <2>1, <2>2, <2>3, LinkingKeeps DEF Types
  <2>5. Frames'
    <3>1. \A h : /\ InRange(h) => InRange(h)' /\ (Base(h) => Base(h)')
                 /\ \A e : Inner(h, e) => Inner(h, e)'
      BY <2>1, SameFrames
    <3> SUFFICES ASSUME NEW k \in 1..Len(calls')
                 PROVE  /\ InRange(calls[k])'
                        /\ k = 1 => Base(calls[k])'
                        /\ k # 1 => Inner(calls[k], calls[k - 1])'
      BY DEF Frames
    <3>2. PICK h, e : h = calls[k] /\ h = calls'[k] /\ e = calls[k - 1] /\ e = calls'[k - 1]
      BY <2>1
    <3>3. /\ InRange(h) /\ (k = 1 => Base(h)) /\ (k # 1 => Inner(h, e))
      BY <2>1, <3>2 DEF IInv, Frames
    <3>4. InRange(h)' /\ (k = 1 => Base(h)') /\ (k # 1 => Inner(h, e)')
      BY <3>1, <3>3
    <3> QED BY <3>2, <3>4
  <2>6. OneCall(calls)' BY <2>1 DEF IInv, OneCall
  <2>7. HaveTwins' /\ AreTwins' BY <2>1, TwinsKept
  <2> QED BY <2>2, <2>4, <2>5, <2>6, <2>7 DEF IInv
<1> QED BY <1>1, <1>2, <1>3, <1>4, <1>5, <1>6, <1>7, <1>8, <1>9, <1>10, <1>11, <1>12 DEF Next

LEMMA InvAlways == Spec => []IInv
<1>1. Init => IInv BY InitInv
<1>2. IInv /\ [Next]_edgeVars => IInv' BY NextInv
<1> QED BY <1>1, <1>2, PTL DEF Spec

-----------------------------------------------------------------------------
LEMMA InvLinked == IInv => Linked
<1> SUFFICES ASSUME IInv, calls = <<>> PROVE Linked BY DEF Linked
<1>1. \A n \in Node : \A j : On(calls, cons, n, j) <=> Live(n) BY NoFrame DEF Live
<1>2. ASSUME NEW c \in Consumer, Live(c), NEW i \in 1..Len(prods[c]), prods[c][i].node # NoNode
      PROVE  /\ prods[c][i].at \in 1..Len(cons[prods[c][i].node])
             /\ cons[prods[c][i].node][prods[c][i].at] = [node |-> c, at |-> i]
  <2>1. PICK q, a : q = prods[c][i].node /\ a = prods[c][i].at OBVIOUS
  <2>2. c \in Node BY NodeFacts
  <2>3. q \in Node /\ a \in 1..Len(cons[q]) /\ cons[q][a].node = c /\ cons[q][a].at = i
    BY <1>1, <1>2, <2>1, <2>2, TwinOf
  <2>4. cons[q][a] \in Twin BY <2>3, ListsAre DEF IInv
  <2>5. cons[q][a] = [node |-> c, at |-> i] BY <2>3, <2>4 DEF Twin
  <2> QED BY <2>1, <2>3, <2>5
<1>3. ASSUME NEW p \in Node, NEW k \in 1..Len(cons[p])
      PROVE  /\ cons[p][k].at \in 1..Len(prods[cons[p][k].node])
             /\ prods[cons[p][k].node][cons[p][k].at] = [node |-> p, at |-> k]
  <2>1. PICK c, i : c = cons[p][k].node /\ i = cons[p][k].at OBVIOUS
  <2>2. c \in Node /\ i \in 1..Len(prods[c]) /\ prods[c][i].node = p /\ prods[c][i].at = k
    BY <2>1, TwinFrom
  <2>3. prods[c][i] \in Entry BY <2>2, ListsAre DEF IInv
  <2>4. prods[c][i] = [node |-> p, at |-> k] BY <2>2, <2>3 DEF Entry
  <2> QED BY <2>1, <2>2, <2>4
<1> QED BY <1>2, <1>3 DEF Linked

LEMMA InvExact == IInv => LivenessExact
<1> SUFFICES ASSUME IInv, calls = <<>>
             PROVE  \A c \in Computed : cons[c] # <<>> <=> c \in Reachable(Watch, Computed, Deps)
  BY DEF LivenessExact
<1> DEFINE L == {c \in Computed : cons[c] # <<>>}
           R == Reachable(Watch, Computed, Deps)
<1>1. \A n \in Node : \A j : On(calls, cons, n, j) <=> Live(n) BY NoFrame DEF Live
<1>2. Computed \subseteq Node /\ Watch \subseteq Node /\ NoNode \notin Node /\ Rooted
  BY NodeFacts DEF IInv, Node, Consumer
<1>3. ASSUME NEW d \in Computed, NEW x \in Watch \cup L, d \in Deps[x] PROVE d \in L
  <2>1. x \in Node /\ Live(x) BY <1>2 DEF Live
  <2>2. PICK i \in 1..Len(prods[x]) : prods[x][i].node = d BY <1>3, <2>1, EdgeIs DEF Edge
  <2>3. d # NoNode BY <1>2
  <2>4. PICK a : a = prods[x][i].at OBVIOUS
  <2>5. a \in 1..Len(cons[d]) BY <1>1, <2>1, <2>2, <2>3, <2>4, TwinOf
  <2>6. Len(cons[d]) # 0 BY <1>2, <2>5, ListsAre DEF IInv
  <2>7. cons[d] # <<>> BY <2>6
  <2> QED BY <2>7
<1>4. R \subseteq L
  <2>1. Closed(L, Watch, Computed, Deps) BY <1>3 DEF Closed
  <2>2. L \in SUBSET Computed OBVIOUS
  <2> QED BY <2>1, <2>2, ReachWithin
<1>5. L \subseteq R
  <2> DEFINE S == L \ R
  <2> SUFFICES ASSUME S # {} PROVE FALSE OBVIOUS
  <2>1. S \in SUBSET Node BY <1>2
  <2>2. PICK n \in S : \A m \in S : ~Edge(m, n) BY <1>2, <2>1 DEF Rooted
  <2>3. n \in Node /\ n \in Computed /\ n \notin R /\ 1 \in 1..Len(cons[n])
    <3>1. n \in Node /\ n \in Computed /\ n \notin R /\ cons[n] # <<>> BY <1>2
    <3>2. Len(cons[n]) \in Nat /\ Len(cons[n]) # 0 BY <3>1, ListsAre DEF IInv
    <3> QED BY <3>1, <3>2
  <2>4. PICK m, j : m = cons[n][1].node /\ j = cons[n][1].at OBVIOUS
  <2>5. /\ m \in Node /\ m \in Consumer /\ j \in 1..Len(prods[m]) /\ prods[m][j].node = n
        /\ Live(m)
    BY <1>1, <2>3, <2>4, TwinFrom
  <2>6. Edge(m, n) /\ n \in Deps[m] BY <2>5, EdgeIs DEF Edge
  <2>7. m \notin Watch \cup R BY <2>3, <2>6, ReachStep
  <2>8. m \in S BY <2>5, <2>7 DEF Live, Consumer
  <2> QED BY <2>2, <2>6, <2>8
<1> QED BY <1>4, <1>5

\* Whenever none of the functions is in the middle of its work, the arrays of the
\* reactive graph are each other's mirror: the edge removed by an index is the
\* edge that was meant, after any sequence of reads, runs and destructions.
THEOREM EdgesAreLinked == Spec => []Linked
BY InvAlways, InvLinked, PTL

\* A computed has live consumers exactly while a watch depends on it, directly or
\* through others: none leaks, none is cut off.
THEOREM LivenessIsExact == Spec => []LivenessExact
BY InvAlways, InvExact, PTL
=============================================================================
