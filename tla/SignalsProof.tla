---------------------------- MODULE SignalsProof ----------------------------
(***************************************************************************)
(* Proofs about modules Signals and SignalsRef, for every set of nodes,    *)
(* every program and every value of the bounds.  TypeOK is not inductive:  *)
(* which operation the user code performs next is only defined while its   *)
(* trace is within the bound, and what is polled is only a node while the  *)
(* producer lists have no holes.  IInv says what the call stack and the    *)
(* lists are like.                                                         *)
(*                                                                         *)
(* That what is skipped is current rests on Trust.  Flags and epochs say   *)
(* too little to be inductive: between a write and the next read a stale   *)
(* computed may look like a current one, and the other way round.  So the  *)
(* proof follows the computeds whose value is right whether the algorithm  *)
(* knows it or not (Good: the largest set of clean ones whose recorded     *)
(* versions are the present ones all the way down), shows that whatever is *)
(* skipped is one of them, and that a call in progress has seen them only. *)
(***************************************************************************)
EXTENDS SignalsRef, SequenceTheorems, FiniteSetTheorems, WellFoundedInduction, TLAPS

\* A signal always has a value and never a dependency.
SignalsPlain == \A s \in Signal : value[s] \in Value /\ deps[s] = <<>>

\* Only a watch destroyed in mid-run gets holes in its producer list.
NoHoles ==
    \A n \in Node \ destroyed :
        /\ nextIndex[n] <= Len(deps[n])
        /\ \A i \in 1..Len(deps[n]) : deps[n][i].node # NoNode

\* Frame f in program p, when the watches in gone are destroyed.
GoodFrame(f, p, gone) ==
    /\ f \in Frame
    /\ f.at = "update" => f.node \in Producer
    /\ f.at \in {"body", "await"} => f.node \in Consumer
    /\ f.at = "await" => Body[p][f.node][f.trace].op \in {"read", "peek"}
    /\ f.at \in {"poll", "polled"} => f.node \notin gone

\* A watch is only ever run from its scheduler, at the bottom of the stack.
GoodStack(st, p, gone) ==
    /\ st \in Seq(Frame)
    /\ \A k \in 1..Len(st) :
        /\ GoodFrame(st[k], p, gone)
        /\ st[k].node \in Watch => k = 1

IInv ==
    /\ TypeOK
    /\ SignalsPlain
    /\ NoHoles
    /\ GoodStack(stack, program, destroyed)

-----------------------------------------------------------------------------
(* The call stack.                                                         *)

LEMMA PopGood ==
    ASSUME NEW st, NEW p, NEW gone, GoodStack(st, p, gone), NEW n \in Nat, n <= Len(st)
    PROVE  GoodStack(SubSeq(st, 1, n), p, gone)
<1> DEFINE new == SubSeq(st, 1, n)
<1>1. st \in Seq(Frame) BY DEF GoodStack
<1>2. new \in Seq(Frame) /\ Len(new) = n /\ \A k \in 1..n : new[k] = st[k]
  BY <1>1
<1> QED BY <1>1, <1>2 DEF GoodStack

LEMMA ReplaceGood ==
    ASSUME NEW st, NEW p, NEW gone, GoodStack(st, p, gone), st # <<>>,
           NEW f, GoodFrame(f, p, gone), f.node = st[Len(st)].node
    PROVE  GoodStack([st EXCEPT ![Len(st)] = f], p, gone)
<1> DEFINE new == [st EXCEPT ![Len(st)] = f]
<1>1. st \in Seq(Frame) /\ f \in Frame BY DEF GoodStack, GoodFrame
<1>2. new \in Seq(Frame) /\ Len(new) = Len(st)
      /\ \A k \in 1..Len(st) : new[k] = IF k = Len(st) THEN f ELSE st[k]
  BY <1>1
<1> QED BY <1>1, <1>2 DEF GoodStack

LEMMA PushGood ==
    ASSUME NEW st, NEW p, NEW gone, GoodStack(st, p, gone),
           NEW f, GoodFrame(f, p, gone), f.node \notin Watch
    PROVE  GoodStack(Append(st, f), p, gone)
<1> DEFINE new == Append(st, f)
<1>1. st \in Seq(Frame) /\ f \in Frame BY DEF GoodStack, GoodFrame
<1>2. new \in Seq(Frame) /\ Len(new) = Len(st) + 1
      /\ \A k \in 1..(Len(st) + 1) : new[k] = IF k = Len(st) + 1 THEN f ELSE st[k]
  BY <1>1
<1>3. \A k \in 1..Len(new) : k \in 1..Len(st) \/ k = Len(st) + 1
  BY <1>1, <1>2
<1> QED BY <1>1, <1>2, <1>3 DEF GoodStack

LEMMA SingleGood ==
    ASSUME NEW p, NEW gone, NEW f, GoodFrame(f, p, gone)
    PROVE  GoodStack(<<f>>, p, gone)
<1>1. <<f>> \in Seq(Frame) /\ Len(<<f>>) = 1 /\ <<f>>[1] = f BY DEF GoodFrame
<1> QED BY <1>1 DEF GoodStack

LEMMA CallType ==
    ASSUME NEW n \in Node
    PROVE  Call(n) \in Frame /\ <<>> \in Trace
<1>1. <<>> \in Trace
  <2>1. <<>> \in [1..0 -> Result] OBVIOUS
  <2>2. 0 \in 0..MaxOps BY BoundsAssumption
  <2> QED BY <2>1, <2>2 DEF Trace
<1>2. UNSET \in Content BY DEF Content
<1> QED BY <1>1, <1>2 DEF Frame, Call

LEMMA CallGood ==
    ASSUME NEW n \in Producer, NEW p, NEW gone
    PROVE  GoodFrame(Call(n), p, gone)
<1>1. n \in Node BY DEF Producer, Node
<1>2. Call(n).at = "update" /\ Call(n).node = n BY DEF Call
<1> QED BY <1>1, <1>2, CallType DEF GoodFrame

\* What is known of the innermost frame.
LEMMA TopGood ==
    ASSUME IInv, Busy
    PROVE  /\ Len(stack) \in Nat \ {0}
           /\ GoodFrame(Top, program, destroyed)
           /\ Top.node \in Watch => Len(stack) = 1
<1>1. stack \in Seq(Frame) /\ stack # <<>> BY DEF IInv, GoodStack, Busy
<1>2. Len(stack) \in Nat \ {0} BY <1>1
<1>3. Len(stack) \in 1..Len(stack) BY <1>2
<1>4. /\ GoodFrame(stack[Len(stack)], program, destroyed)
      /\ stack[Len(stack)].node \in Watch => Len(stack) = 1
  BY <1>3 DEF IInv, GoodStack
<1> QED BY <1>2, <1>4 DEF Top

-----------------------------------------------------------------------------
(* User code.                                                              *)

LEMMA AppendTrace ==
    ASSUME NEW t \in Trace, Len(t) # MaxOps, NEW r \in Result
    PROVE  Append(t, r) \in Trace
<1>1. PICK k \in 0..MaxOps : t \in [1..k -> Result] BY DEF Trace
<1>2. t \in Seq(Result) /\ Len(t) = k /\ k + 1 \in 0..MaxOps BY <1>1, BoundsAssumption
<1>3. Append(t, r) \in Seq(Result) /\ Len(Append(t, r)) = k + 1 BY <1>2
<1>4. Append(t, r) \in [1..(k + 1) -> Result] BY <1>3, LenProperties
<1> QED BY <1>2, <1>4 DEF Trace

LEMMA OpCases ==
    ASSUME NEW o \in Op
    PROVE  /\ o.op \in {"read", "peek"} => o.node \in Producer
           /\ o.op = "set" => o.node \in Signal /\ o.val \in Value
           /\ o.op = "destroy" => o.node \in Watch
           /\ o.op = "return" => o.val \in Outcome
BY DEF Op

\* The operation that user code performs next, and the frame after it.
LEMMA CurrentGood ==
    ASSUME IInv, Busy, Top.at \in {"body", "await"}
    PROVE  /\ Top.node \in Consumer /\ Top.trace \in Trace
           /\ Current \in Op
           /\ Top.node \in Computed => Current.op # "destroy"
           /\ Current.op # "return" =>
                \A r \in Result : Append(Top.trace, r) \in Trace
<1>1. Top.node \in Consumer /\ Top.trace \in Trace
  BY TopGood DEF GoodFrame, Frame
<1>2. program \in Program BY DEF IInv, TypeOK
<1>3. Current \in Op
  BY <1>1, <1>2, BodyAssumption DEF Current
<1>4. Top.node \in Computed => Current.op # "destroy"
  BY <1>1, <1>2, BodyAssumption DEF Current
<1>5. Current.op # "return" => Len(Top.trace) # MaxOps
  BY <1>1, <1>2, BodyAssumption DEF Current
<1> QED BY <1>1, <1>3, <1>4, <1>5, AppendTrace

LEMMA ResumeGood ==
    ASSUME IInv, Busy, Top.at \in {"body", "await"}, Current.op # "return",
           NEW r \in Result, NEW gone,
           \A k \in 1..Len(stack) : GoodFrame(stack[k], program, gone)
    PROVE  GoodStack(Resume(r), program, gone)
<1> DEFINE f == [Top EXCEPT !.at = "body", !.trace = Append(@, r)]
<1>1. Top \in Frame /\ Top.node \in Consumer /\ Append(Top.trace, r) \in Trace
  BY TopGood, CurrentGood DEF GoodFrame
<1>2. f \in Frame /\ f.node = Top.node /\ f.at = "body"
  <2>1. PICK t \in Trace : t = Append(Top.trace, r) BY <1>1
  <2>2. f = [Top EXCEPT !.at = "body", !.trace = t] BY <2>1
  <2> QED BY <1>1, <2>2 DEF Frame
<1>3. GoodFrame(f, program, gone)
  BY <1>1, <1>2 DEF GoodFrame
<1>4. GoodStack(stack, program, gone)
  BY DEF IInv, GoodStack
<1>5. stack # <<>> /\ f.node = stack[Len(stack)].node
  BY <1>2 DEF Busy, Top
<1>6. Resume(r) = [stack EXCEPT ![Len(stack)] = f]
  BY DEF Resume, SetTop
<1> HIDE DEF f
<1>7. GoodStack([stack EXCEPT ![Len(stack)] = f], program, gone)
  BY <1>3, <1>4, <1>5, ReplaceGood
<1> QED BY <1>6, <1>7

-----------------------------------------------------------------------------
(* The pieces the actions are made of.                                     *)

LEMMA TopReplaced ==
    ASSUME IInv, Busy, NEW f, GoodFrame(f, program, destroyed), f.node = Top.node
    PROVE  GoodStack(SetTop(f), program, destroyed)
<1>1. GoodStack(stack, program, destroyed) /\ stack # <<>> BY DEF IInv, Busy
<1>2. f.node = stack[Len(stack)].node BY DEF Top
<1>3. GoodStack([stack EXCEPT ![Len(stack)] = f], program, destroyed)
  BY <1>1, <1>2, ReplaceGood
<1> QED BY <1>3 DEF SetTop

LEMMA TopPopped ==
    ASSUME IInv, Busy
    PROVE  GoodStack(Pop, program, destroyed)
<1>1. Len(stack) \in Nat \ {0} BY TopGood
<1>2. Len(stack) - 1 \in Nat /\ Len(stack) - 1 <= Len(stack) BY <1>1
<1>3. GoodStack(stack, program, destroyed) BY DEF IInv
<1> QED BY <1>2, <1>3, PopGood DEF Pop

\* A call of producer n from the frame on top, which becomes f.
LEMMA TopCalls ==
    ASSUME IInv, Busy, NEW f, GoodFrame(f, program, destroyed), f.node = Top.node,
           NEW n \in Producer
    PROVE  GoodStack(Append(SetTop(f), Call(n)), program, destroyed)
<1>1. GoodStack(SetTop(f), program, destroyed) BY TopReplaced
<1>2. n \in Node /\ n \notin Watch BY NodesDisjoint DEF Producer, Node
<1>3. GoodFrame(Call(n), program, destroyed) BY CallGood
<1>4. Call(n).node \notin Watch BY <1>2 DEF Call
<1> QED BY <1>1, <1>3, <1>4, PushGood

LEMMA SetSignalType ==
    ASSUME TypeOK, SignalsPlain, NEW s \in Signal, NEW v \in Value, SetSignal(s, v)
    PROVE  /\ value' \in [Node -> Content] /\ \A x \in Signal : value'[x] \in Value
           /\ version' \in [Node -> Nat]
           /\ lastCleanEpoch' \in [Node -> Nat]
           /\ dirty' \in [Node -> BOOLEAN]
           /\ epoch' \in Nat
           /\ scheduled' \subseteq Watch
<1>1. CASE value[s] = v
  BY <1>1 DEF SetSignal, nodeVars, TypeOK, SignalsPlain
<1>2. CASE value[s] # v
  <2>1. /\ value' = [value EXCEPT ![s] = v]
        /\ version' = [version EXCEPT ![s] = @ + 1]
        /\ epoch' = epoch + 1
        /\ dirty' = [n \in Node |-> dirty[n] \/ n \in Notified(s)]
        /\ scheduled' = scheduled \cup ((Notified(s) \cap Watch) \ destroyed)
        /\ UNCHANGED lastCleanEpoch
    BY <1>2 DEF SetSignal
  <2>2. s \in Node /\ v \in Content BY DEF Node, Content
  <2>3. value' \in [Node -> Content] /\ \A x \in Signal : value'[x] \in Value
    BY <2>1, <2>2 DEF TypeOK, SignalsPlain, Node
  <2>4. version' \in [Node -> Nat] BY <2>1, <2>2 DEF TypeOK
  <2>5. dirty' \in [Node -> BOOLEAN] BY <2>1, Zenon DEF TypeOK
  <2> QED BY <2>1, <2>3, <2>4, <2>5 DEF TypeOK
<1> QED BY <1>1, <1>2

\* While its consumer is not destroyed, a recorded dependency leaves no hole.
LEMMA AccessType ==
    ASSUME IInv, NEW c \in Consumer, NEW p \in Producer, Access(c, p)
    PROVE  /\ deps' \in [Node -> Seq(Dep)] /\ \A s \in Signal : deps'[s] = <<>>
           /\ nextIndex' \in [Node -> Nat]
           /\ \A n \in Node \ destroyed :
                 /\ nextIndex'[n] <= Len(deps'[n])
                 /\ \A i \in 1..Len(deps'[n]) : deps'[n][i].node # NoNode
<1> DEFINE idx == nextIndex[c] + 1
           len == IF idx > Len(deps[c]) THEN idx ELSE Len(deps[c])
           hole == [node |-> NoNode, seen |-> 0]
           item(j) == IF j = idx THEN [node |-> p, seen |-> version[p]]
                      ELSE IF j \in 1..Len(deps[c]) THEN deps[c][j] ELSE hole
           list == [j \in 1..len |-> item(j)]
<1>1. c \in Node /\ p \in Node /\ c \notin Signal /\ p # NoNode
  BY NodesDisjoint DEF Consumer, Producer, Node
<1>2. /\ deps \in [Node -> Seq(Dep)] /\ nextIndex \in [Node -> Nat]
      /\ version[p] \in Nat /\ nextIndex[c] \in Nat /\ deps[c] \in Seq(Dep)
  BY <1>1 DEF IInv, TypeOK
<1>3. Len(deps[c]) \in Nat /\ idx \in Nat /\ len \in Nat /\ idx \in 1..len
  BY <1>2
<1>4. deps' = [deps EXCEPT ![c] = list] /\ nextIndex' = [nextIndex EXCEPT ![c] = idx]
  BY DEF Access
<1>5. \A j \in 1..len : item(j) \in Dep
  <2> TAKE j \in 1..len
  <2>1. [node |-> p, seen |-> version[p]] \in Dep /\ hole \in Dep
    BY <1>2 DEF Dep
  <2>2. j \in 1..Len(deps[c]) => deps[c][j] \in Dep
    BY <1>2, ElementOfSeq
  <2> QED BY <2>1, <2>2
<1>6. list \in Seq(Dep) /\ Len(list) = len
  <2>1. list \in [1..len -> Dep] BY <1>5
  <2> QED BY <2>1, <1>3
<1>7. \A j \in 1..len : list[j] = item(j)
  OBVIOUS
<1>8. c \notin destroyed => \A j \in 1..len : item(j).node # NoNode
  <2> HAVE c \notin destroyed
  <2> TAKE j \in 1..len
  <2>1. nextIndex[c] <= Len(deps[c]) /\ \A i \in 1..Len(deps[c]) : deps[c][i].node # NoNode
    BY <1>1 DEF IInv, NoHoles
  <2>2. j = idx \/ j \in 1..Len(deps[c])
    BY <1>2, <1>3, <2>1
  <2> QED BY <1>1, <2>1, <2>2
<1> HIDE DEF list, item
<1>9. deps' \in [Node -> Seq(Dep)] /\ \A s \in Signal : deps'[s] = <<>>
  BY <1>1, <1>2, <1>4, <1>6 DEF IInv, SignalsPlain, Node
<1>10. nextIndex' \in [Node -> Nat]
  BY <1>1, <1>2, <1>3, <1>4
<1>11. ASSUME NEW n \in Node \ destroyed
       PROVE  /\ nextIndex'[n] <= Len(deps'[n])
              /\ \A i \in 1..Len(deps'[n]) : deps'[n][i].node # NoNode
  <2>1. CASE n = c
    <3>1. deps'[n] = list /\ nextIndex'[n] = idx BY <1>1, <1>2, <1>4, <2>1
    <3> QED BY <1>3, <1>6, <1>7, <1>8, <2>1, <3>1
  <2>2. CASE n # c
    <3>1. deps'[n] = deps[n] /\ nextIndex'[n] = nextIndex[n] BY <1>1, <1>2, <1>4, <2>2
    <3> QED BY <3>1 DEF IInv, NoHoles
  <2> QED BY <2>1, <2>2
<1> QED BY <1>9, <1>10, <1>11

LEMMA TruncateType ==
    ASSUME IInv, NEW c \in Consumer, Truncate(c)
    PROVE  /\ deps' \in [Node -> Seq(Dep)] /\ \A s \in Signal : deps'[s] = <<>>
           /\ \A n \in Node \ destroyed :
                 /\ nextIndex[n] <= Len(deps'[n])
                 /\ \A i \in 1..Len(deps'[n]) : deps'[n][i].node # NoNode
<1> DEFINE list == IF Len(deps[c]) > nextIndex[c]
                   THEN SubSeq(deps[c], 1, nextIndex[c]) ELSE deps[c]
<1>1. c \in Node /\ c \notin Signal BY NodesDisjoint DEF Consumer, Node
<1>2. /\ deps \in [Node -> Seq(Dep)]
      /\ nextIndex[c] \in Nat /\ deps[c] \in Seq(Dep) /\ Len(deps[c]) \in Nat
  BY <1>1 DEF IInv, TypeOK
<1>3. deps' = [deps EXCEPT ![c] = list] BY DEF Truncate
<1>4. /\ list \in Seq(Dep) /\ Len(list) <= Len(deps[c])
      /\ nextIndex[c] <= Len(deps[c]) => nextIndex[c] <= Len(list)
      /\ \A i \in 1..Len(list) : i \in 1..Len(deps[c]) /\ list[i] = deps[c][i]
  BY <1>2
<1> HIDE DEF list
<1>5. deps' \in [Node -> Seq(Dep)] /\ \A s \in Signal : deps'[s] = <<>>
  BY <1>1, <1>2, <1>3, <1>4 DEF IInv, SignalsPlain, Node
<1>6. ASSUME NEW n \in Node \ destroyed
      PROVE  /\ nextIndex[n] <= Len(deps'[n])
             /\ \A i \in 1..Len(deps'[n]) : deps'[n][i].node # NoNode
  <2>1. nextIndex[n] <= Len(deps[n]) /\ \A i \in 1..Len(deps[n]) : deps[n][i].node # NoNode
    BY DEF IInv, NoHoles
  <2>2. deps'[n] = IF n = c THEN list ELSE deps[n] BY <1>2, <1>3
  <2> QED BY <1>4, <2>1, <2>2
<1> QED BY <1>5, <1>6

-----------------------------------------------------------------------------
(* Every action preserves IInv.                                            *)

LEMMA InitIInv == Init => IInv
<1> SUFFICES ASSUME Init PROVE IInv OBVIOUS
<1>1. value \in [Node -> Content] /\ \A s \in Signal : value[s] \in Value
  BY ValuesDistinct DEF Init, Content, Node
<1>2. dirty \in [Node -> BOOLEAN]
  <2>1. dirty = [n \in Node |-> n \in Computed] BY DEF Init
  <2>2. \A n \in Node : (n \in Computed) \in BOOLEAN OBVIOUS
  <2> QED BY <2>1, <2>2
<1>3. deps \in [Node -> Seq(Dep)] /\ stack \in Seq(Frame)
  BY DEF Init
<1>4. TypeOK BY <1>1, <1>2, <1>3 DEF Init, TypeOK
<1>5. SignalsPlain BY <1>1 DEF Init, SignalsPlain, Node
<1>6. NoHoles BY DEF Init, NoHoles
<1>7. GoodStack(stack, program, destroyed) BY <1>3 DEF Init, GoodStack
<1> QED BY <1>4, <1>5, <1>6, <1>7 DEF IInv

\* Most actions leave the lists and the destroyed watches alone.
LEMMA SameEdges ==
    ASSUME IInv, UNCHANGED <<program, edgeVars, destroyed>>,
           value' \in [Node -> Content], \A s \in Signal : value'[s] = value[s],
           version' \in [Node -> Nat], lastCleanEpoch' \in [Node -> Nat],
           dirty' \in [Node -> BOOLEAN], epoch' \in Nat,
           hasRun' \subseteq Watch, scheduled' \subseteq Watch,
           GoodStack(stack', program, destroyed)
    PROVE  IInv'
<1>1. stack' \in Seq(Frame) BY DEF GoodStack
<1>2. TypeOK' BY <1>1 DEF IInv, TypeOK, edgeVars
<1>3. SignalsPlain' /\ NoHoles' BY DEF IInv, SignalsPlain, NoHoles, edgeVars
<1>4. GoodStack(stack, program, destroyed)' BY DEF edgeVars
<1> QED BY <1>2, <1>3, <1>4 DEF IInv

\* Actions that only move on in the stack.
LEMMA OnlyStack ==
    ASSUME IInv, UNCHANGED <<program, nodeVars, edgeVars, epoch, watchVars>>,
           GoodStack(stack', program, destroyed)
    PROVE  IInv'
BY SameEdges DEF IInv, TypeOK, nodeVars, edgeVars, watchVars

LEMMA SetIInv ==
    ASSUME IInv, UNCHANGED program, NEW s \in Signal, NEW v \in Value, Set(s, v)
    PROVE  IInv'
<1>1. SetSignal(s, v) /\ UNCHANGED <<edgeVars, hasRun, destroyed, stack>>
  BY DEF Set
<1>2. TypeOK /\ SignalsPlain BY DEF IInv
<1>3. TypeOK' BY <1>1, <1>2, SetSignalType DEF TypeOK, edgeVars
<1>4. SignalsPlain' BY <1>1, <1>2, SetSignalType DEF SignalsPlain, edgeVars
<1>5. NoHoles' BY <1>1 DEF IInv, NoHoles, edgeVars
<1>6. GoodStack(stack, program, destroyed)' BY <1>1 DEF IInv
<1> QED BY <1>3, <1>4, <1>5, <1>6 DEF IInv

LEMMA ReadIInv ==
    ASSUME IInv, UNCHANGED program, NEW c \in Computed, Read(c)
    PROVE  IInv'
<1>1. c \in Producer BY DEF Producer
<1>2. GoodStack(<<Call(c)>>, program, destroyed) BY <1>1, CallGood, SingleGood
<1> QED BY <1>2, OnlyStack DEF Read

LEMMA NotifyIInv ==
    ASSUME IInv, UNCHANGED program, NEW w \in Watch, Notify(w)
    PROVE  IInv'
<1>1. dirty' \in [Node -> BOOLEAN] BY DEF Notify, IInv, TypeOK
<1> QED BY <1>1, SameEdges DEF Notify, IInv, TypeOK, nodeVars, edgeVars

\* Destroying a watch that no frame is polling for.
LEMMA DestroyIInv ==
    ASSUME IInv, UNCHANGED <<program, nodeVars, nextIndex, epoch, hasRun, scheduled>>,
           NEW w \in Watch, DestroyWatch(w),
           GoodStack(stack', program, destroyed')
    PROVE  IInv'
<1>1. w \in Node /\ w \notin Signal BY NodesDisjoint DEF Node
<1>2. destroyed' = destroyed \cup {w} /\ destroyed' \subseteq Watch
  BY DEF DestroyWatch, IInv, TypeOK
<1>3. /\ deps' \in [Node -> Seq(Dep)]
      /\ \A n \in Node : n # w => deps'[n] = deps[n]
  <2>1. CASE w \in destroyed BY <2>1 DEF DestroyWatch, IInv, TypeOK
  <2>2. CASE w \notin destroyed
    <3>1. deps' = [deps EXCEPT ![w] = <<>>] BY <2>2 DEF DestroyWatch
    <3>2. <<>> \in Seq(Dep) OBVIOUS
    <3> QED BY <1>1, <3>1, <3>2 DEF IInv, TypeOK
  <2> QED BY <2>1, <2>2
<1>4. stack' \in Seq(Frame) BY DEF GoodStack
<1>5. TypeOK' BY <1>2, <1>3, <1>4 DEF IInv, TypeOK, nodeVars
<1>6. SignalsPlain' BY <1>1, <1>3 DEF IInv, SignalsPlain, nodeVars, Node
<1>7. NoHoles' BY <1>2, <1>3 DEF IInv, NoHoles
<1>8. GoodStack(stack, program, destroyed)' OBVIOUS
<1> QED BY <1>5, <1>6, <1>7, <1>8 DEF IInv

LEMMA RunIInv ==
    ASSUME IInv, UNCHANGED program, NEW w \in Watch, Run(w)
    PROVE  IInv'
<1> DEFINE polls == [Call(w) EXCEPT !.at = "poll", !.i = 1]
           starts == [Call(w) EXCEPT !.at = "body"]
<1>1. w \in Node /\ w \in Consumer /\ w \notin destroyed
  BY DEF Node, Consumer, Run
<1>2. Call(w) \in Frame BY <1>1, CallType
<1>3. GoodFrame(polls, program, destroyed)
  BY <1>1, <1>2 DEF GoodFrame, Frame, Call
<1>4. GoodFrame(starts, program, destroyed)
  BY <1>1, <1>2 DEF GoodFrame, Frame, Call
<1> HIDE DEF polls, starts
<1>5. GoodStack(<<polls>>, program, destroyed) /\ GoodStack(<<starts>>, program, destroyed)
  BY <1>3, <1>4, SingleGood
<1>6. /\ GoodStack(stack', program, destroyed)
      /\ nextIndex' = nextIndex \/ nextIndex' = [nextIndex EXCEPT ![w] = 0]
      /\ UNCHANGED <<value, version, lastCleanEpoch, deps, epoch, destroyed>>
  BY <1>5 DEF Run, polls, starts
<1>7. /\ dirty' \in [Node -> BOOLEAN] /\ hasRun' \subseteq Watch /\ scheduled' \subseteq Watch
      /\ nextIndex' \in [Node -> Nat]
      /\ \A n \in Node : nextIndex'[n] = nextIndex[n] \/ nextIndex'[n] = 0
  <2>1. dirty' \in [Node -> BOOLEAN] BY <1>1 DEF Run, IInv, TypeOK
  <2>2. hasRun' \subseteq Watch /\ scheduled' \subseteq Watch BY DEF Run, IInv, TypeOK
  <2>3. nextIndex \in [Node -> Nat] BY DEF IInv, TypeOK
  <2> QED BY <1>1, <1>6, <2>1, <2>2, <2>3
<1>8. stack' \in Seq(Frame) BY <1>6 DEF GoodStack
<1>9. TypeOK' BY <1>6, <1>7, <1>8 DEF IInv, TypeOK
<1>10. SignalsPlain' BY <1>6 DEF IInv, SignalsPlain
<1>11. NoHoles' BY <1>6, <1>7 DEF IInv, NoHoles, TypeOK
<1>12. GoodStack(stack, program, destroyed)' BY <1>6
<1> QED BY <1>9, <1>10, <1>11, <1>12 DEF IInv

\* consumerBeforeComputation of the node on top, which is a consumer that is
\* not a signal: its list of dependencies is not empty or its value is UNSET.
LEMMA StartBodyIInv ==
    ASSUME IInv, UNCHANGED <<program, version, lastCleanEpoch, dirty, epoch, watchVars>>,
           Busy, Top.node \in Consumer, StartBody(Top.node)
    PROVE  IInv'
<1> DEFINE n == Top.node
           f == [Top EXCEPT !.at = "body", !.trace = <<>>, !.old = value[n]]
<1>1. n \in Node /\ n \notin Signal /\ Top \in Frame
  BY NodesDisjoint, TopGood DEF Consumer, Node, GoodFrame
<1>2. value[n] \in Content /\ <<>> \in Trace /\ COMPUTING \in Content
  BY <1>1, CallType DEF IInv, TypeOK, Content
<1>3. GoodFrame(f, program, destroyed) /\ f.node = Top.node
  BY <1>1, <1>2 DEF GoodFrame, Frame
<1>4. GoodStack(stack', program, destroyed)
  <2>1. stack' = SetTop(f) BY DEF StartBody
  <2> HIDE DEF f
  <2> QED BY <1>3, <2>1, TopReplaced
<1>5. value' \in [Node -> Content] /\ \A s \in Signal : value'[s] = value[s]
  BY <1>1, <1>2 DEF StartBody, IInv, TypeOK, Node
<1>6. nextIndex' \in [Node -> Nat]
      /\ \A x \in Node : nextIndex'[x] = nextIndex[x] \/ nextIndex'[x] = 0
  <2>1. nextIndex \in [Node -> Nat] BY DEF IInv, TypeOK
  <2>2. nextIndex' = [nextIndex EXCEPT ![n] = 0] BY DEF StartBody
  <2> QED BY <1>1, <2>1, <2>2
<1>7. deps' = deps BY DEF StartBody
<1>8. stack' \in Seq(Frame) BY <1>4 DEF GoodStack
<1>9. TypeOK' BY <1>5, <1>6, <1>7, <1>8 DEF IInv, TypeOK, watchVars
<1>10. SignalsPlain' BY <1>5, <1>7 DEF IInv, SignalsPlain
<1>11. NoHoles'
  <2>1. destroyed' = destroyed BY DEF watchVars
  <2>2. \A x \in Node : Len(deps[x]) \in Nat BY DEF IInv, TypeOK
  <2> QED BY <1>6, <1>7, <2>1, <2>2 DEF IInv, NoHoles
<1>12. GoodStack(stack, program, destroyed)' BY <1>4 DEF watchVars
<1> QED BY <1>9, <1>10, <1>11, <1>12 DEF IInv

LEMMA UpdateIInv ==
    ASSUME IInv, UNCHANGED program, UpdateSkip \/ UpdatePoll \/ UpdateFirst \/ UpdateCycle
    PROVE  IInv'
<1> USE DEF Updating
<1>1. CASE UpdateSkip
  BY <1>1, TopPopped, OnlyStack DEF UpdateSkip
<1>2. CASE UpdatePoll
  <2> DEFINE f == [Top EXCEPT !.at = "poll", !.i = 1]
  <2>1. Busy /\ GoodFrame(Top, program, destroyed) /\ Top.at = "update"
    BY <1>2, TopGood DEF UpdatePoll
  <2>2. Top.node \notin destroyed
    BY <2>1, NodesDisjoint DEF GoodFrame, Producer, IInv, TypeOK
  <2>3. GoodFrame(f, program, destroyed) /\ f.node = Top.node
    BY <2>1, <2>2 DEF GoodFrame, Frame
  <2>4. stack' = SetTop(f) BY <1>2 DEF UpdatePoll
  <2> HIDE DEF f
  <2>5. GoodStack(stack', program, destroyed) BY <2>1, <2>3, <2>4, TopReplaced
  <2> QED BY <1>2, <2>5, OnlyStack DEF UpdatePoll
<1>3. CASE UpdateFirst
  <2>1. Busy /\ GoodFrame(Top, program, destroyed) /\ Top.at = "update"
    BY <1>3, TopGood DEF UpdateFirst
  <2>2. Top.node \in Consumer
    BY <1>3, <2>1, ValuesDistinct
    DEF UpdateFirst, GoodFrame, Producer, Consumer, IInv, SignalsPlain
  <2> QED BY <1>3, <2>1, <2>2, StartBodyIInv DEF UpdateFirst
<1>4. CASE UpdateCycle
  <2>1. PICK k \in 1..Len(stack) :
          /\ stack[k].at = "await"
          /\ stack' = Append(SubSeq(stack, 1, k - 1),
                             [stack[k] EXCEPT !.at = "body", !.trace = Append(@, ERRORED)])
    BY <1>4 DEF UpdateCycle
  <2> DEFINE f == [stack[k] EXCEPT !.at = "body", !.trace = Append(@, ERRORED)]
             below == SubSeq(stack, 1, k - 1)
  <2>2. /\ GoodStack(stack, program, destroyed) /\ Len(stack) \in Nat \ {0}
        /\ GoodFrame(stack[k], program, destroyed)
        /\ stack[k].node \in Watch => k = 1
    BY <1>4, TopGood DEF UpdateCycle, IInv, GoodStack
  <2>3. k - 1 \in Nat /\ k - 1 <= Len(stack) BY <2>2
  <2>4. GoodStack(below, program, destroyed) BY <2>2, <2>3, PopGood
  <2>5. stack[k].trace \in Trace /\ Len(stack[k].trace) # MaxOps
    <3>1. program \in Program /\ stack[k].node \in Consumer /\ stack[k].trace \in Trace
      BY <2>1, <2>2 DEF GoodFrame, Frame, IInv, TypeOK
    <3>2. Body[program][stack[k].node][stack[k].trace].op # "return"
      BY <2>1, <2>2 DEF GoodFrame
    <3> QED BY <3>1, <3>2, BodyAssumption
  <2>6. PICK t \in Trace : t = Append(stack[k].trace, ERRORED)
    BY <2>5, AppendTrace DEF Result, Content
  <2>7. f = [stack[k] EXCEPT !.at = "body", !.trace = t] BY <2>6
  <2>8. GoodFrame(f, program, destroyed) /\ f.node = stack[k].node
    BY <2>1, <2>2, <2>7 DEF GoodFrame, Frame
  <2>9. stack' = Append(below, f) BY <2>1
  <2> HIDE DEF f, below
  <2>10. GoodStack(stack', program, destroyed)
    <3>1. CASE f.node \notin Watch BY <2>4, <2>8, <2>9, <3>1, PushGood
    <3>2. CASE f.node \in Watch
      <4>1. k = 1 BY <2>2, <2>8, <3>2
      <4>2. below = <<>> BY <4>1 DEF below
      <4>3. stack' = <<f>> BY <2>9, <4>2
      <4> QED BY <2>8, <4>3, SingleGood
    <3> QED BY <3>1, <3>2
  <2> QED BY <1>4, <2>10, OnlyStack DEF UpdateCycle
<1> QED BY <1>1, <1>2, <1>3, <1>4

LEMMA PollIInv ==
    ASSUME IInv, UNCHANGED program, PollChanged \/ PollProducer \/ PollNext \/ PollUnchanged
    PROVE  IInv'
<1> USE DEF Polling
<1>1. Busy /\ GoodFrame(Top, program, destroyed) /\ Top.at \in {"poll", "polled"}
  BY TopGood DEF PollChanged, PollProducer, PollNext, PollUnchanged
<1>2. Top.node \in Node /\ Top.node \notin destroyed /\ Top \in Frame
  BY <1>1 DEF GoodFrame, Frame
<1>3. CASE PollChanged
  <2>1. InRange BY <1>3 DEF PollChanged
  <2>2. deps[Top.node] # <<>> BY <2>1 DEF InRange
  <2>3. Top.node \in Consumer
    BY <1>2, <2>2 DEF IInv, SignalsPlain, Node, Consumer
  <2> QED BY <1>1, <1>3, <2>3, StartBodyIInv DEF PollChanged
<1>4. CASE PollProducer
  <2> DEFINE f == [Top EXCEPT !.at = "polled"]
  <2>1. Polled \in Dep /\ Polled.node # NoNode
    <3>1. Top.i \in 1..Len(deps[Top.node]) BY <1>4 DEF PollProducer, InRange
    <3>2. deps[Top.node] \in Seq(Dep) BY <1>2 DEF IInv, TypeOK
    <3>3. Polled \in Dep BY <3>1, <3>2, ElementOfSeq DEF Polled
    <3>4. Polled.node # NoNode BY <1>2, <3>1 DEF IInv, NoHoles, Polled
    <3> QED BY <3>3, <3>4
  <2>2. Polled.node \in Producer BY <2>1 DEF Dep
  <2>3. GoodFrame(f, program, destroyed) /\ f.node = Top.node
    BY <1>1, <1>2 DEF GoodFrame, Frame
  <2>4. stack' = Append(SetTop(f), Call(Polled.node)) BY <1>4 DEF PollProducer
  <2> HIDE DEF f
  <2>5. GoodStack(stack', program, destroyed) BY <1>1, <2>2, <2>3, <2>4, TopCalls
  <2> QED BY <1>4, <2>5, OnlyStack DEF PollProducer
<1>5. CASE PollNext
  <2> DEFINE f == [Top EXCEPT !.at = "poll", !.i = @ + 1]
  <2>1. PICK j \in Nat : j = Top.i + 1 BY <1>2 DEF Frame
  <2>2. f = [Top EXCEPT !.at = "poll", !.i = j] BY <2>1
  <2>3. GoodFrame(f, program, destroyed) /\ f.node = Top.node
    BY <1>1, <1>2, <2>2 DEF GoodFrame, Frame
  <2>4. stack' = SetTop(f) BY <1>5 DEF PollNext
  <2> HIDE DEF f
  <2>5. GoodStack(stack', program, destroyed) BY <1>1, <2>3, <2>4, TopReplaced
  <2> QED BY <1>5, <2>5, OnlyStack DEF PollNext
<1>6. CASE PollUnchanged
  <2>1. /\ dirty' \in [Node -> BOOLEAN] /\ lastCleanEpoch' \in [Node -> Nat]
    BY <1>2, <1>6 DEF PollUnchanged, IInv, TypeOK
  <2>2. GoodStack(stack', program, destroyed) BY <1>1, <1>6, TopPopped DEF PollUnchanged
  <2> QED BY <1>6, <2>1, <2>2, SameEdges DEF PollUnchanged, IInv, TypeOK, edgeVars, watchVars
<1> QED BY <1>3, <1>4, <1>5, <1>6

\* A read or peek that ends: the dependency is recorded, or not.
LEMMA RecordedIInv ==
    ASSUME IInv, UNCHANGED <<program, nodeVars, epoch, watchVars>>,
           Busy, Top.at \in {"body", "await"}, Current.op \in {"read", "peek"},
           Access(Top.node, Current.node) \/ UNCHANGED edgeVars,
           stack' = Resume(value[Current.node])
    PROVE  IInv'
<1>1. /\ Top.node \in Consumer /\ Current \in Op /\ Current.op # "return"
  BY CurrentGood
<1>2. Current.node \in Producer BY <1>1, OpCases
<1>3. value[Current.node] \in Result BY <1>2 DEF IInv, TypeOK, Result, Producer, Node
<1>4. GoodStack(stack', program, destroyed)
  BY <1>1, <1>3, ResumeGood DEF IInv, GoodStack
<1>5. CASE UNCHANGED edgeVars BY <1>4, <1>5, OnlyStack
<1>6. CASE Access(Top.node, Current.node)
  <2>1. /\ deps' \in [Node -> Seq(Dep)] /\ \A s \in Signal : deps'[s] = <<>>
        /\ nextIndex' \in [Node -> Nat]
        /\ \A n \in Node \ destroyed :
              /\ nextIndex'[n] <= Len(deps'[n])
              /\ \A i \in 1..Len(deps'[n]) : deps'[n][i].node # NoNode
    BY <1>1, <1>2, <1>6, AccessType
  <2>2. stack' \in Seq(Frame) BY <1>4 DEF GoodStack
  <2>3. TypeOK' BY <2>1, <2>2 DEF IInv, TypeOK, nodeVars, watchVars
  <2>4. SignalsPlain' BY <2>1 DEF IInv, SignalsPlain, nodeVars
  <2>5. NoHoles' BY <2>1 DEF NoHoles, watchVars
  <2>6. GoodStack(stack, program, destroyed)' BY <1>4 DEF watchVars
  <2> QED BY <2>3, <2>4, <2>5, <2>6 DEF IInv
<1> QED BY <1>5, <1>6

LEMMA BodyReadIInv ==
    ASSUME IInv, UNCHANGED program,
           BodyReadSignal \/ BodyPeekSignal \/ BodyCallComputed \/ BodyGotComputed
    PROVE  IInv'
<1>1. CASE BodyReadSignal
  BY <1>1, RecordedIInv DEF BodyReadSignal, Running
<1>2. CASE BodyPeekSignal
  BY <1>2, RecordedIInv DEF BodyPeekSignal, Running, edgeVars
<1>3. CASE BodyGotComputed
  <2>1. Busy /\ Top.at = "await" BY <1>3 DEF BodyGotComputed
  <2>2. Current.op \in {"read", "peek"}
    BY <2>1, TopGood DEF GoodFrame, Current
  <2> QED BY <1>3, <2>1, <2>2, RecordedIInv DEF BodyGotComputed
<1>4. CASE BodyCallComputed
  <2> DEFINE f == [Top EXCEPT !.at = "await"]
  <2>1. /\ Busy /\ Top.at = "body" /\ Current.op \in {"read", "peek"}
        /\ Current.node \in Producer
    BY <1>4 DEF BodyCallComputed, Running, Producer
  <2>2. GoodFrame(Top, program, destroyed) BY <2>1, TopGood
  <2>3. f \in Frame /\ f.at = "await" /\ f.node = Top.node /\ f.trace = Top.trace
    BY <2>2 DEF GoodFrame, Frame
  <2>4. Body[program][f.node][f.trace].op \in {"read", "peek"}
    BY <2>1, <2>3 DEF Current
  <2>5. GoodFrame(f, program, destroyed)
    BY <2>1, <2>2, <2>3, <2>4 DEF GoodFrame
  <2>6. stack' = Append(SetTop(f), Call(Current.node)) BY <1>4 DEF BodyCallComputed
  <2> HIDE DEF f
  <2>7. GoodStack(stack', program, destroyed) BY <2>1, <2>3, <2>5, <2>6, TopCalls
  <2> QED BY <1>4, <2>7, OnlyStack DEF BodyCallComputed
<1> QED BY <1>1, <1>2, <1>3, <1>4

LEMMA BodyEffectIInv ==
    ASSUME IInv, UNCHANGED program, BodySet \/ BodySetRefused \/ BodyDestroy
    PROVE  IInv'
<1>1. /\ Busy /\ Top.at = "body" /\ Current.op \in {"set", "destroy"}
      /\ stack' = Resume(DONE) \/ stack' = Resume(ERRORED)
  BY DEF BodySet, BodySetRefused, BodyDestroy, Running
<1>2. Current \in Op /\ (Top.node \in Computed => Current.op # "destroy")
  BY <1>1, CurrentGood
<1>3. GoodStack(stack', program, destroyed)
  BY <1>1, ResumeGood DEF IInv, GoodStack, Result, Content
<1>4. CASE BodySet
  <2>1. /\ SetSignal(Current.node, Current.val)
        /\ UNCHANGED <<edgeVars, hasRun, destroyed>>
        /\ Current.node \in Signal /\ Current.val \in Value
    BY <1>2, <1>4, OpCases DEF BodySet, Running
  <2>2. TypeOK /\ SignalsPlain /\ stack' \in Seq(Frame)
    BY <1>3 DEF IInv, GoodStack
  <2>3. TypeOK' BY <2>1, <2>2, SetSignalType DEF TypeOK, edgeVars
  <2>4. SignalsPlain' BY <2>1, <2>2, SetSignalType DEF SignalsPlain, edgeVars
  <2>5. NoHoles' BY <2>1 DEF IInv, NoHoles, edgeVars
  <2>6. GoodStack(stack, program, destroyed)' BY <1>3, <2>1
  <2> QED BY <2>3, <2>4, <2>5, <2>6 DEF IInv
<1>5. CASE BodySetRefused
  BY <1>3, <1>5, OnlyStack DEF BodySetRefused
<1>6. CASE BodyDestroy
  <2>1. Current.op = "destroy" /\ Current.node \in Watch
    BY <1>2, <1>6, OpCases DEF BodyDestroy, Running
  <2>2. Top.node \in Watch /\ Len(stack) = 1
    BY <1>1, <1>2, <2>1, TopGood, CurrentGood DEF Consumer
  <2>3. \A k \in 1..Len(stack) : GoodFrame(stack[k], program, destroyed')
    <3> TAKE k \in 1..Len(stack)
    <3>1. stack[k] = Top BY <2>2 DEF Top
    <3> QED BY <1>1, <3>1, TopGood DEF GoodFrame
  <2>4. DONE \in Result BY DEF Result
  <2>5. stack' = Resume(DONE) BY <1>6 DEF BodyDestroy
  <2>6. GoodStack(stack', program, destroyed')
    BY <1>1, <2>1, <2>3, <2>4, <2>5, ResumeGood
  <2> QED BY <1>6, <2>1, <2>6, DestroyIInv DEF BodyDestroy
<1> QED BY <1>4, <1>5, <1>6

LEMMA FinishIInv ==
    ASSUME IInv, UNCHANGED program, FinishComputed \/ FinishWatch \/ CleanupThrows
    PROVE  IInv'
<1>1. /\ Busy /\ Top.at = "body"
      /\ Truncate(Top.node) /\ stack' = Pop
      /\ UNCHANGED <<nextIndex, epoch, watchVars>>
  BY DEF FinishComputed, FinishWatch, CleanupThrows, Running
<1>2. Top.node \in Consumer /\ (FinishComputed => Current.val \in Outcome)
  <2>1. FinishComputed => Current.op = "return" BY DEF FinishComputed, Running
  <2> QED BY <1>1, <2>1, CurrentGood, OpCases
<1>3. /\ deps' \in [Node -> Seq(Dep)] /\ \A s \in Signal : deps'[s] = <<>>
      /\ \A n \in Node \ destroyed :
            /\ nextIndex[n] <= Len(deps'[n])
            /\ \A i \in 1..Len(deps'[n]) : deps'[n][i].node # NoNode
  BY <1>1, <1>2, TruncateType
<1>4. /\ value' \in [Node -> Content] /\ \A s \in Signal : value'[s] = value[s]
      /\ version' \in [Node -> Nat] /\ lastCleanEpoch' \in [Node -> Nat]
      /\ dirty' \in [Node -> BOOLEAN]
  <2>1. CASE FinishComputed
    <3>1. Top.node \in Computed /\ Top.node \in Node /\ Top.node \notin Signal
      BY <2>1, NodesDisjoint DEF FinishComputed, Node
    <3>2. Current.val \in Content BY <1>2, <2>1 DEF Outcome, Content
    <3>3. /\ value' = [value EXCEPT ![Top.node] = Current.val]
          /\ version' = version \/ version' = [version EXCEPT ![Top.node] = @ + 1]
          /\ dirty' = [dirty EXCEPT ![Top.node] = FALSE]
          /\ lastCleanEpoch' = [lastCleanEpoch EXCEPT ![Top.node] = epoch]
      BY <2>1 DEF FinishComputed
    <3>4. /\ value \in [Node -> Content] /\ version \in [Node -> Nat]
          /\ dirty \in [Node -> BOOLEAN]
          /\ lastCleanEpoch \in [Node -> Nat] /\ epoch \in Nat
      BY DEF IInv, TypeOK
    <3>5. value' \in [Node -> Content] /\ \A s \in Signal : value'[s] = value[s]
      BY <3>1, <3>2, <3>3, <3>4 DEF Node
    <3> QED BY <3>1, <3>3, <3>4, <3>5
  <2>2. CASE FinishWatch \/ CleanupThrows
    BY <2>2 DEF FinishWatch, CleanupThrows, nodeVars, IInv, TypeOK
  <2> QED BY <2>1, <2>2
<1>5. GoodStack(stack', program, destroyed) BY <1>1, TopPopped
<1>6. stack' \in Seq(Frame) BY <1>5 DEF GoodStack
<1>7. TypeOK' BY <1>1, <1>3, <1>4, <1>6 DEF IInv, TypeOK, watchVars
<1>8. SignalsPlain' BY <1>3, <1>4 DEF IInv, SignalsPlain
<1>9. NoHoles' BY <1>1, <1>3 DEF NoHoles, watchVars
<1>10. GoodStack(stack, program, destroyed)' BY <1>1, <1>5 DEF watchVars
<1> QED BY <1>7, <1>8, <1>9, <1>10 DEF IInv

LEMMA NextIInv == IInv /\ [Next]_vars => IInv'
<1> SUFFICES ASSUME IInv, [Next]_vars PROVE IInv' OBVIOUS
<1>1. CASE External /\ UNCHANGED program
  <2>1. ASSUME NEW s \in Signal, NEW v \in Value, Set(s, v) PROVE IInv'
    BY <1>1, <2>1, SetIInv
  <2>2. ASSUME NEW c \in Computed, Read(c) PROVE IInv'
    BY <1>1, <2>2, ReadIInv
  <2>3. ASSUME NEW w \in Watch, Notify(w) PROVE IInv'
    BY <1>1, <2>3, NotifyIInv
  <2>4. ASSUME NEW w \in Watch, Destroy(w) PROVE IInv'
    <3>1. stack = <<>> /\ stack' = <<>> BY <2>4 DEF Destroy, Busy
    <3>2. GoodStack(stack', program, destroyed') BY <3>1 DEF GoodStack
    <3> QED BY <1>1, <2>4, <3>2, DestroyIInv DEF Destroy
  <2> QED BY <1>1, <2>1, <2>2, <2>3, <2>4 DEF External
<1>2. ASSUME NEW w \in Watch, Dispatch(w) PROVE IInv'
  <2>1. CASE Run(w) BY <1>2, <2>1, RunIInv DEF Dispatch
  <2>2. CASE RunDestroyed(w)
    <3>1. scheduled' \subseteq Watch BY <2>2 DEF RunDestroyed, IInv, TypeOK
    <3>2. GoodStack(stack', program, destroyed) BY <2>2 DEF RunDestroyed, IInv
    <3> QED BY <1>2, <2>2, <3>1, <3>2, SameEdges
        DEF Dispatch, RunDestroyed, IInv, TypeOK, nodeVars
  <2> QED BY <1>2, <2>1, <2>2 DEF Dispatch
<1>3. CASE Continue
  BY <1>3, UpdateIInv, PollIInv, BodyReadIInv, BodyEffectIInv, FinishIInv DEF Continue
<1>4. CASE UNCHANGED vars
  <2>1. GoodStack(stack', program, destroyed) BY <1>4 DEF vars, IInv
  <2> QED BY <1>4, <2>1, OnlyStack DEF vars, nodeVars, edgeVars, watchVars
<1> QED BY <1>1, <1>2, <1>3, <1>4 DEF Next

\* The call stack and the producer lists are well formed in every reachable
\* state, for every program: see GoodStack and NoHoles.
THEOREM WellFormed == Spec => []IInv
<1>1. Init => IInv BY InitIInv
<1>2. IInv /\ [Next]_vars => IInv' BY NextIInv
<1> QED BY <1>1, <1>2, PTL DEF Spec

\* The type invariant of module Signals.
THEOREM TypeCorrect == Spec => []TypeOK
<1>1. IInv => TypeOK BY DEF IInv
<1> QED BY <1>1, WellFormed, PTL

-----------------------------------------------------------------------------
(* No notification is lost.                                                *)

\* The flags of watches and the scheduler's set change together.
LEMMA SetSignalSchedules ==
    ASSUME TypeOK, DirtyIsScheduled, NEW s \in Signal, NEW v \in Value, SetSignal(s, v),
           destroyed' = destroyed
    PROVE  DirtyIsScheduled'
<1> SUFFICES ASSUME NEW w \in Watch \ destroyed
             PROVE  dirty'[w] <=> w \in scheduled'
  BY DEF DirtyIsScheduled
<1>1. w \in Node /\ (dirty[w] <=> w \in scheduled) BY DEF Node, DirtyIsScheduled
<1>2. CASE value[s] = v BY <1>1, <1>2 DEF SetSignal, nodeVars
<1>3. CASE value[s] # v
  <2>1. /\ dirty' = [n \in Node |-> dirty[n] \/ n \in Notified(s)]
        /\ scheduled' = scheduled \cup ((Notified(s) \cap Watch) \ destroyed)
    BY <1>3 DEF SetSignal
  <2>2. dirty'[w] <=> dirty[w] \/ w \in Notified(s) BY <1>1, <2>1
  <2> QED BY <1>1, <2>1, <2>2
<1> QED BY <1>2, <1>3

\* Steps that change neither for a watch that is not destroyed.
LEMMA SchedulesSame ==
    ASSUME DirtyIsScheduled, destroyed \subseteq destroyed',
           \A w \in Watch \ destroyed' :
              /\ dirty'[w] = dirty[w]
              /\ w \in scheduled' <=> w \in scheduled
    PROVE  DirtyIsScheduled'
BY DEF DirtyIsScheduled

LEMMA NextSchedules == IInv /\ DirtyIsScheduled /\ [Next]_vars => DirtyIsScheduled'
<1> SUFFICES ASSUME IInv, DirtyIsScheduled, [Next]_vars PROVE DirtyIsScheduled' OBVIOUS
<1> USE DEF nodeVars, edgeVars, watchVars
<1>0. TypeOK /\ dirty \in [Node -> BOOLEAN] BY DEF IInv, TypeOK
<1>1. ASSUME NEW s \in Signal, NEW v \in Value, Set(s, v) PROVE DirtyIsScheduled'
  BY <1>0, <1>1, SetSignalSchedules DEF Set
<1>2. ASSUME NEW c \in Computed, Read(c) PROVE DirtyIsScheduled'
  BY <1>2, SchedulesSame DEF Read
<1>3. ASSUME NEW x \in Watch, Notify(x) PROVE DirtyIsScheduled'
  <2>1. \A w \in Watch : w \in Node BY DEF Node
  <2> QED BY <1>0, <1>3, <2>1 DEF Notify, DirtyIsScheduled
<1>4. ASSUME NEW x \in Watch, Destroy(x) PROVE DirtyIsScheduled'
  BY <1>4, SchedulesSame DEF Destroy, DestroyWatch
<1>5. ASSUME NEW x \in Watch, Run(x) PROVE DirtyIsScheduled'
  <2>1. \A w \in Watch : w \in Node BY DEF Node
  <2> QED BY <1>0, <1>5, <2>1 DEF Run, DirtyIsScheduled
<1>6. ASSUME NEW x \in Watch, RunDestroyed(x) PROVE DirtyIsScheduled'
  BY <1>6, SchedulesSame DEF RunDestroyed
<1>7. CASE Continue
  <2>1. CASE UpdateSkip \/ UpdatePoll \/ UpdateFirst \/ UpdateCycle
    BY <2>1, SchedulesSame DEF UpdateSkip, UpdatePoll, UpdateFirst, UpdateCycle
  <2>2. CASE PollChanged \/ PollProducer \/ PollNext
    BY <2>2, SchedulesSame DEF PollChanged, PollProducer, PollNext
  <2>3. CASE PollUnchanged
    <3>1. dirty' = dirty \/ (Top.node \notin Watch /\ dirty' = [dirty EXCEPT ![Top.node] = FALSE])
      BY <2>3 DEF PollUnchanged
    <3>2. \A w \in Watch : w \in Node BY DEF Node
    <3>3. \A w \in Watch : dirty'[w] = dirty[w] BY <1>0, <3>1, <3>2
    <3> QED BY <2>3, <3>3, SchedulesSame DEF PollUnchanged
  <2>4. CASE BodyReadSignal \/ BodyPeekSignal \/ BodyCallComputed \/ BodyGotComputed
    BY <2>4, SchedulesSame DEF BodyReadSignal, BodyPeekSignal, BodyCallComputed, BodyGotComputed
  <2>5. CASE BodySet
    <3>1. Busy /\ Top.at = "body" /\ Current.op = "set" BY <2>5 DEF BodySet, Running
    <3>2. Current.node \in Signal /\ Current.val \in Value
      BY <3>1, CurrentGood, OpCases
    <3> QED BY <1>0, <2>5, <3>2, SetSignalSchedules DEF BodySet
  <2>6. CASE BodySetRefused
    BY <2>6, SchedulesSame DEF BodySetRefused
  <2>7. CASE BodyDestroy
    BY <2>7, SchedulesSame DEF BodyDestroy, DestroyWatch
  <2>8. CASE FinishComputed
    <3>1. Top.node \notin Watch /\ dirty' = [dirty EXCEPT ![Top.node] = FALSE]
      BY <2>8, NodesDisjoint DEF FinishComputed
    <3>2. \A w \in Watch : w \in Node BY DEF Node
    <3>3. \A w \in Watch : dirty'[w] = dirty[w] BY <1>0, <3>1, <3>2
    <3> QED BY <2>8, <3>3, SchedulesSame DEF FinishComputed
  <2>9. CASE FinishWatch \/ CleanupThrows
    BY <2>9, SchedulesSame DEF FinishWatch, CleanupThrows
  <2> QED BY <1>7, <2>1, <2>2, <2>3, <2>4, <2>5, <2>6, <2>7, <2>8, <2>9 DEF Continue
<1>8. CASE UNCHANGED vars
  BY <1>8, SchedulesSame DEF vars
<1> QED
  BY <1>1, <1>2, <1>3, <1>4, <1>5, <1>6, <1>7, <1>8 DEF Next, External, Dispatch

\* A dirty watch is always in the hands of its scheduler, whatever the program
\* does: no change of a signal is lost because a watch is already dirty.
THEOREM NoLostNotification == Spec => []DirtyIsScheduled
<1>1. Init => DirtyIsScheduled
  <2> SUFFICES ASSUME Init PROVE DirtyIsScheduled OBVIOUS
  <2>1. \A w \in Watch : w \in Node /\ w \notin Computed BY NodesDisjoint DEF Node
  <2> QED BY <2>1 DEF Init, DirtyIsScheduled
<1>2. IInv /\ DirtyIsScheduled /\ [Next]_vars => DirtyIsScheduled'
  BY NextSchedules
<1> QED BY <1>1, <1>2, WellFormed, PTL DEF Spec

-----------------------------------------------------------------------------
(* What is trusted without looking is current.                             *)

\* The dependency d has seen the present version of a signal or a member of S.
Trusts(d, S, ver) == d.node # NoNode /\ d.seen = ver[d.node] /\ d.node \in Signal \cup S

\* The members of S are clean, and depend on signals and on one another.
Consistent(S, val, ver, mark, list) ==
    \A x \in S :
        /\ ~mark[x] /\ val[x] \notin {UNSET, COMPUTING}
        /\ \A j \in 1..Len(list[x]) : Trusts(list[x][j], S, ver)

\* The largest such set.
GoodIn(val, ver, mark, list) ==
    UNION {S \in SUBSET Computed : Consistent(S, val, ver, mark, list)}

\* The computeds whose value is right, whether or not the algorithm knows.
Good == GoodIn(value, version, dirty, deps)

Fine(d) == Trusts(d, Good, version)
FirstFine(n, k) == \A j \in 1..k : Fine(deps[n][j])

Epochs ==
    /\ \A n \in Node : lastCleanEpoch[n] <= epoch
    /\ \A c \in Computed : dirty[c] => lastCleanEpoch[c] < epoch

InRun(w) == Busy /\ stack[1].node = w

\* What is taken for up to date is good.
Trusting ==
    /\ \A c \in Computed : UpToDate(c) => c \in Good
    /\ \A w \in hasRun \ destroyed : ~dirty[w] /\ ~InRun(w) => FirstFine(w, Len(deps[w]))

\* Frame g was called by frame f.
Calls(f, g) ==
    \/ /\ f.at = "await" /\ g.node \in Computed
       /\ g.node = Body[program][f.node][f.trace].node
    \/ /\ f.at = "polled" /\ f.i \in 1..Len(deps[f.node])
       /\ g.node = deps[f.node][f.i].node
       /\ deps[f.node][f.i].seen = version[g.node]

Linked == \A k \in 1..(Len(stack) - 1) : Calls(stack[k], stack[k + 1])

\* The producers polled so far are good.
PollOK(f) ==
    f.at \in {"poll", "polled"} =>
        /\ f.i >= 1
        /\ \A j \in 1..Len(deps[f.node]) : j < f.i => Fine(deps[f.node][j])
        /\ f.node \in Computed => value[f.node] \notin {UNSET, COMPUTING}

\* So are those read so far, unless the watch that reads them was notified.
BodyOK(f) ==
    f.at \in {"body", "await"} =>
        /\ f.node \in Computed => value[f.node] = COMPUTING
        /\ f.node \in Computed \/ (f.node \notin destroyed /\ ~dirty[f.node])
             => FirstFine(f.node, nextIndex[f.node])

Frames == \A k \in 1..Len(stack) : PollOK(stack[k]) /\ BodyOK(stack[k])

\* A computed that is being computed is nowhere else in the stack, but at its
\* top when a cycle is about to be detected.
Apart ==
    \A k, m \in 1..Len(stack) :
        (/\ k # m /\ stack[k].at \in {"body", "await"}
         /\ stack[k].node \in Computed /\ stack[m].node = stack[k].node)
          => stack[m].at = "update"

\* The producer that the innermost frame waited for is good now.
ArrivedAt(f) ==
    /\ f.at = "await" => Body[program][f.node][f.trace].node \in Good
    /\ f.at = "polled" => /\ f.i \in 1..Len(deps[f.node])
                          /\ deps[f.node][f.i].node \in Signal \cup Good

Arrived == Busy => ArrivedAt(Top)

Stacked == Linked /\ Frames /\ Apart /\ Arrived

Trust == IInv /\ Epochs /\ Trusting /\ Stacked

\* The same after a step, but for IInv, which NextIInv is about.
Kept == Epochs' /\ Trusting' /\ Stacked'

-----------------------------------------------------------------------------
LEMMA Least ==
    ASSUME NEW T \in SUBSET Nat, T # {}
    PROVE  \E x \in T : \A y \in T : x <= y
<1> DEFINE D == {0..x : x \in T}
           F == FiniteSubsetsOf(Nat)
           R == StrictSubsetOrdering(Nat)
<1>1. IsWellFoundedOn(R, F) BY FS_StrictSubsetOrderingWellFounded
<1>2. \A x \in T : IsFiniteSet(0..x) /\ 0..x \in SUBSET Nat BY FS_Interval
<1>3. D \subseteq F /\ D # {} BY <1>2 DEF FiniteSubsetsOf
<1> HIDE DEF D, F, R
<1>4. PICK d \in D : \A e \in D : ~(<<e, d>> \in R) BY <1>1, <1>3, WFMin
<1>5. PICK x \in T : d = 0..x BY <1>4 DEF D
<1>6. ASSUME NEW y \in T, y < x PROVE FALSE
  <2>1. 0..y \in D BY DEF D
  <2>2. 0..y \subseteq 0..x /\ x \in 0..x /\ x \notin 0..y BY <1>6
  <2>3. 0..y \in SUBSET Nat /\ 0..x \in SUBSET Nat BY <1>2
  <2>4. <<0..y, 0..x>> \in R BY <2>2, <2>3 DEF R, StrictSubsetOrdering
  <2> QED BY <1>4, <1>5, <2>1, <2>4
<1> QED BY <1>6

LEMMA GoodMax ==
    ASSUME NEW val, NEW ver, NEW mark, NEW list, NEW S \in SUBSET Computed,
           Consistent(S, val, ver, mark, list)
    PROVE  S \subseteq GoodIn(val, ver, mark, list)
BY DEF GoodIn

LEMMA GoodIs ==
    ASSUME NEW val, NEW ver, NEW mark, NEW list
    PROVE  /\ GoodIn(val, ver, mark, list) \in SUBSET Computed
           /\ Consistent(GoodIn(val, ver, mark, list), val, ver, mark, list)
<1> DEFINE G == GoodIn(val, ver, mark, list)
<1>1. G \in SUBSET Computed BY DEF GoodIn
<1>2. ASSUME NEW x \in G
      PROVE  /\ ~mark[x] /\ val[x] \notin {UNSET, COMPUTING}
             /\ \A j \in 1..Len(list[x]) : Trusts(list[x][j], G, ver)
  <2>1. PICK S \in SUBSET Computed : Consistent(S, val, ver, mark, list) /\ x \in S
    BY DEF GoodIn
  <2>2. S \subseteq G BY <2>1, GoodMax
  <2> HIDE DEF G
  <2>3. ~mark[x] /\ val[x] \notin {UNSET, COMPUTING} BY <2>1 DEF Consistent
  <2>4. \A j \in 1..Len(list[x]) : Trusts(list[x][j], S, ver) BY <2>1 DEF Consistent
  <2> QED BY <2>2, <2>3, <2>4 DEF Trusts
<1> HIDE DEF G
<1>3. Consistent(G, val, ver, mark, list) BY <1>2 DEF Consistent
<1> QED BY <1>1, <1>3 DEF G

\* What is known of a good computed.
LEMMA GoodFacts ==
    ASSUME NEW x \in Good
    PROVE  /\ x \in Computed /\ ~dirty[x] /\ value[x] \notin {UNSET, COMPUTING}
           /\ \A j \in 1..Len(deps[x]) : Fine(deps[x][j])
<1>1. Good \in SUBSET Computed /\ Consistent(Good, value, version, dirty, deps)
  BY GoodIs DEF Good
<1> QED BY <1>1 DEF Consistent, Fine

\* A step that changes nothing about the good ones keeps them.
Grow == Good \subseteq Good' /\ \A n \in Signal \cup Good : version'[n] = version[n]

LEMMA GoodKept ==
    ASSUME \A x \in Good : deps'[x] = deps[x] /\ dirty'[x] = dirty[x] /\ value'[x] = value[x],
           \A n \in Signal \cup Good : version'[n] = version[n]
    PROVE  Grow
<1>1. Good \in SUBSET Computed /\ Consistent(Good, value, version, dirty, deps)
  BY GoodIs DEF Good
<1> DEFINE G == Good
<1>2. PICK S \in SUBSET Computed : S = Good BY <1>1
<1>3. Consistent(S, value', version', dirty', deps')
  BY <1>1, <1>2 DEF Consistent, Trusts
<1>4. S \subseteq GoodIn(value', version', dirty', deps') BY <1>3, GoodMax
<1> QED BY <1>2, <1>4 DEF Grow, Good

LEMMA TrustsKept ==
    ASSUME NEW d, NEW S, NEW T, NEW ver, NEW wer, Trusts(d, S, ver), S \subseteq T,
           \A n \in Signal \cup S : wer[n] = ver[n]
    PROVE  Trusts(d, T, wer)
BY DEF Trusts

\* Reach.tla: what is reachable is closed, and the smallest such set.
LEMMA ReachClosed ==
    ASSUME NEW roots, NEW nodes, NEW succ
    PROVE  /\ Reachable(roots, nodes, succ) \subseteq nodes
           /\ Closed(Reachable(roots, nodes, succ), roots, nodes, succ)
<1> DEFINE R == Reachable(roots, nodes, succ)
<1>1. R \subseteq nodes BY DEF Reachable
<1>2. ASSUME NEW d \in nodes, NEW x \in roots \cup R, d \in succ[x],
             NEW S \in SUBSET nodes, Closed(S, roots, nodes, succ)
      PROVE  d \in S
  <2>1. x \in roots \cup S BY <1>2 DEF Reachable
  <2> QED BY <1>2, <2>1 DEF Closed
<1>3. \A d \in nodes : (\E x \in roots \cup R : d \in succ[x]) => d \in R
  BY <1>2 DEF Reachable
<1> QED BY <1>1, <1>3 DEF Closed

LEMMA ReachWithin ==
    ASSUME NEW roots, NEW nodes, NEW succ, NEW S \in SUBSET nodes,
           Closed(S, roots, nodes, succ)
    PROVE  Reachable(roots, nodes, succ) \subseteq S
BY DEF Reachable

LEMMA ReachFix ==
    ASSUME NEW roots, NEW nodes, NEW succ, NEW n \in nodes
    PROVE  n \in Reachable(roots, nodes, succ)
             <=> \E x \in roots \cup Reachable(roots, nodes, succ) : n \in succ[x]
<1> DEFINE R == Reachable(roots, nodes, succ)
           S == {d \in R : \E x \in roots \cup R : d \in succ[x]}
<1>1. R \subseteq nodes /\ Closed(R, roots, nodes, succ) BY ReachClosed
<1> HIDE DEF R
<1>2. \A d \in nodes : (\E x \in roots \cup R : d \in succ[x]) => d \in R
  BY <1>1 DEF Closed
<1>3. \A d \in nodes : (\E x \in roots \cup S : d \in succ[x]) => d \in S
  BY <1>2
<1>4. S \in SUBSET nodes BY <1>1
<1> HIDE DEF S
<1>5. Closed(S, roots, nodes, succ) BY <1>3 DEF Closed
<1>6. R \subseteq S BY <1>4, <1>5, ReachWithin DEF R
<1> QED BY <1>2, <1>6 DEF R, S

-----------------------------------------------------------------------------
\* Everything called on behalf of a good computed is good.
LEMMA AboveGood ==
    ASSUME Trust, NEW k \in 1..Len(stack), stack[k].node \in Good,
           NEW m \in k..Len(stack)
    PROVE  stack[m].node \in Signal \cup Good
<1> DEFINE T == {x \in k..Len(stack) : stack[x].node \notin Signal \cup Good}
<1>0. Len(stack) \in Nat /\ k \in Nat
  <2>1. stack \in Seq(Frame) BY DEF Trust, Stacked, IInv, GoodStack
  <2> QED BY <2>1
<1> SUFFICES ASSUME T # {} PROVE FALSE OBVIOUS
<1>1. T \in SUBSET Nat BY <1>0
<1> HIDE DEF T
<1>2. PICK x \in T : \A y \in T : x <= y BY <1>1, Least
<1>3. x \in k..Len(stack) /\ x # k /\ stack[x].node \notin Signal \cup Good
  BY <1>2 DEF T
<1> DEFINE y == x - 1
<1>4. y \in k..Len(stack) /\ y \in 1..(Len(stack) - 1) /\ y + 1 = x /\ y < x
      /\ y \in 1..Len(stack)
  BY <1>0, <1>3
<1>5. y \notin T BY <1>1, <1>2, <1>4
<1> HIDE DEF y
<1>6. stack[y].node \in Signal \cup Good BY <1>4, <1>5 DEF T
<1>7. Calls(stack[y], stack[x]) BY <1>4 DEF Trust, Stacked, Linked
<1>8. GoodFrame(stack[y], program, destroyed) /\ BodyOK(stack[y])
  BY <1>4 DEF Trust, Stacked, IInv, GoodStack, Frames
<1>9. stack[y].at # "await"
  <2> SUFFICES ASSUME stack[y].at = "await" PROVE FALSE OBVIOUS
  <2>1. stack[y].node \in Consumer BY <1>8 DEF GoodFrame
  <2>2. stack[y].node \in Good BY <1>6, <2>1, NodesDisjoint DEF Consumer
  <2> QED BY <1>8, <2>2, GoodFacts DEF BodyOK
<1>10. /\ stack[y].i \in 1..Len(deps[stack[y].node])
       /\ stack[x].node = deps[stack[y].node][stack[y].i].node
  BY <1>7, <1>9 DEF Calls
<1>11. stack[y].node \notin Signal
  <2> SUFFICES ASSUME stack[y].node \in Signal PROVE FALSE OBVIOUS
  <2>1. deps[stack[y].node] = <<>> BY DEF Trust, Stacked, IInv, SignalsPlain
  <2> QED BY <1>10, <2>1
<1>12. Fine(deps[stack[y].node][stack[y].i]) BY <1>6, <1>10, <1>11, GoodFacts
<1> QED BY <1>3, <1>10, <1>12 DEF Fine, Trusts

-----------------------------------------------------------------------------
\* Liveness of consumers.
LEMMA LiveIs ==
    ASSUME NEW n \in Computed
    PROVE  (IsLive(n) <=> n \in LiveComputed) /\ (IsLive(n)' <=> n \in LiveComputed')
<1>1. n \notin Watch BY NodesDisjoint
<1>2. LiveComputed \subseteq Computed /\ LiveComputed' \subseteq Computed
  BY ReachClosed DEF LiveComputed
<1>3. /\ \A x \in Watch \cup LiveComputed : Dependencies[x] = DepNodes(x)
      /\ \A x \in Watch \cup LiveComputed' : Dependencies'[x] = DepNodes(x)'
  BY <1>2 DEF Dependencies, Node
<1>4. n \in LiveComputed <=> \E x \in Watch \cup LiveComputed : n \in Dependencies[x]
  BY ReachFix DEF LiveComputed
<1>5. n \in LiveComputed' <=> \E x \in Watch \cup LiveComputed' : n \in Dependencies'[x]
  BY ReachFix DEF LiveComputed
<1> QED BY <1>1, <1>3, <1>4, <1>5 DEF IsLive

LEMMA LiveWithin ==
    ASSUME NEW S \in SUBSET Computed,
           \A x \in Watch \cup S : \A d \in Computed : d \in DepNodes(x)' => d \in S
    PROVE  \A n \in Computed : IsLive(n)' => n \in S
<1>1. \A x \in Watch \cup S : Dependencies'[x] = DepNodes(x)' BY DEF Dependencies, Node
<1>2. Closed(S, Watch, Computed, Dependencies') BY <1>1 DEF Closed
<1>3. LiveComputed' \subseteq S BY <1>2, ReachWithin DEF LiveComputed
<1> QED BY <1>3, LiveIs

\* The dependencies of a live consumer are live.
LEMMA LiveBelow ==
    ASSUME NEW x \in Watch \cup LiveComputed, NEW d \in Computed, d \in DepNodes(x)
    PROVE  IsLive(d) /\ d \in LiveComputed
<1>1. IsLive(d) BY DEF IsLive
<1> QED BY <1>1, LiveIs

\* Fewer edges, fewer live nodes.
LEMMA LiveShrinks ==
    ASSUME \A x \in Consumer : DepNodes(x)' \subseteq DepNodes(x)
    PROVE  \A n \in Computed : IsLive(n)' => IsLive(n)
<1>1. PICK S : S = LiveComputed OBVIOUS
<1>2. S \in SUBSET Computed BY <1>1, ReachClosed DEF LiveComputed
<1>3. \A x \in Watch \cup S : \A d \in Computed : d \in DepNodes(x)' => d \in S
  BY <1>1, <1>2, LiveBelow DEF Consumer
<1>4. \A n \in Computed : IsLive(n)' => n \in S BY <1>2, <1>3, LiveWithin
<1> QED BY <1>1, <1>4, LiveIs

\* An edge to a good node makes nodes live, but only good ones.
LEMMA LiveGrows ==
    ASSUME NEW c \in Consumer \ Good, NEW p \in Signal \cup Good,
           DepNodes(c)' \subseteq DepNodes(c) \cup {p, NoNode},
           \A x \in Consumer : x # c => DepNodes(x)' = DepNodes(x)
    PROVE  \A n \in Computed : IsLive(n)' => IsLive(n) \/ n \in Good
<1>1. PICK S : S = LiveComputed \cup Good OBVIOUS
<1>2. S \in SUBSET Computed /\ Good \subseteq Computed
  BY <1>1, ReachClosed, GoodIs DEF LiveComputed, Good
<1>3. ASSUME NEW x \in Watch \cup S, NEW d \in Computed, d \in DepNodes(x)' PROVE d \in S
  <2>1. d # NoNode /\ d \notin Signal BY NodesDisjoint DEF Node
  <2>2. CASE d \notin DepNodes(x)
    <3>1. x = c BY <1>2, <1>3, <2>2 DEF Consumer
    <3> QED BY <1>1, <1>3, <2>1, <2>2, <3>1
  <2>3. CASE d \in DepNodes(x) /\ x \in Watch \cup LiveComputed
    BY <1>1, <2>3, LiveBelow
  <2>4. CASE d \in DepNodes(x) /\ x \in Good
    <3>1. PICK j \in 1..Len(deps[x]) : d = deps[x][j].node BY <2>4 DEF DepNodes
    <3>2. Fine(deps[x][j]) BY <2>4, <3>1, GoodFacts
    <3> QED BY <1>1, <2>1, <3>1, <3>2 DEF Fine, Trusts
  <2> QED BY <1>1, <1>3, <2>2, <2>3, <2>4
<1>4. \A n \in Computed : IsLive(n)' => n \in S BY <1>2, <1>3, LiveWithin
<1> QED BY <1>1, <1>4, LiveIs

\* What is up to date after a step that cleans nothing was good before.
LEMMA UpToDateKept ==
    ASSUME Trusting, NEW c \in Computed, UpToDate(c)',
           IsLive(c)' => IsLive(c) \/ c \in Good,
           dirty'[c] = dirty[c], lastCleanEpoch'[c] = lastCleanEpoch[c], epoch' = epoch
    PROVE  c \in Good
BY DEF Trusting, UpToDate

-----------------------------------------------------------------------------
\* The calls below the innermost.
Calm(f) ==
    /\ deps'[f.node] = deps[f.node] /\ nextIndex'[f.node] = nextIndex[f.node]
    /\ value'[f.node] = value[f.node]
    /\ f.node \in Watch => /\ dirty'[f.node] = dirty[f.node]
                           /\ f.node \in destroyed <=> f.node \in destroyed'

LEMMA FrameKept ==
    ASSUME NEW f, PollOK(f), BodyOK(f), Grow, Calm(f), f.node \in Consumer
    PROVE  PollOK(f)' /\ BodyOK(f)'
<1>1. \A d : Fine(d) => Fine(d)' BY TrustsKept DEF Grow, Fine
<1>2. PollOK(f)' BY <1>1 DEF PollOK, Calm
<1>3. f.node \in Computed \/ f.node \in Watch BY DEF Consumer
<1>4. FirstFine(f.node, nextIndex[f.node]) => FirstFine(f.node, nextIndex[f.node])'
  BY <1>1 DEF FirstFine, Calm
<1>5. BodyOK(f)' BY <1>3, <1>4 DEF BodyOK, Calm
<1> QED BY <1>2, <1>5

\* Every frame but the innermost has called somebody.
LEMMA BelowTop ==
    ASSUME Trust, NEW k \in 1..(Len(stack) - 1)
    PROVE  /\ k \in 1..Len(stack) /\ k + 1 \in 1..Len(stack)
           /\ Calls(stack[k], stack[k + 1]) /\ stack[k].at \in {"polled", "await"}
           /\ stack[k].node \in Consumer
           /\ PollOK(stack[k]) /\ BodyOK(stack[k])
<1>1. stack \in Seq(Frame) /\ Len(stack) \in Nat BY DEF Trust, Stacked, IInv, GoodStack
<1>2. k \in 1..Len(stack) /\ k + 1 \in 1..Len(stack) BY <1>1
<1>3. Calls(stack[k], stack[k + 1]) BY DEF Trust, Stacked, Linked
<1>4. GoodFrame(stack[k], program, destroyed) /\ PollOK(stack[k]) /\ BodyOK(stack[k])
  BY <1>2 DEF Trust, Stacked, IInv, GoodStack, Frames
<1>5. stack[k].node \in Consumer
  <2>1. stack[k].node \in Node BY <1>4 DEF GoodFrame, Frame
  <2>2. CASE stack[k].node \in Signal
    <3>1. deps[stack[k].node] = <<>> BY <2>2 DEF Trust, Stacked, IInv, SignalsPlain
    <3>2. stack[k].at = "await" BY <1>3, <3>1 DEF Calls
    <3> QED BY <1>4, <3>2 DEF GoodFrame
  <2> QED BY <2>1, <2>2 DEF Node, Consumer
<1> QED BY <1>2, <1>3, <1>4, <1>5 DEF Calls

\* The stack is cut down to frame n + 1, which goes on as f.
LEMMA Put ==
    ASSUME Trust, NEW n \in 0..(Len(stack) - 1), NEW f, f.node = stack[n + 1].node,
           Len(stack') = n + 1, \A k \in 1..n : stack'[k] = stack[k], stack'[n + 1] = f,
           UNCHANGED program, Grow, \A k \in 1..n : Calm(stack[k]),
           \A k \in 1..n : stack[k].at = "polled"
                             => version'[stack[k + 1].node] = version[stack[k + 1].node],
           PollOK(f)', BodyOK(f)', ArrivedAt(f)',
           \A k \in 1..n : stack[k].node = f.node /\ f.node \in Computed
                             => stack[k].at # "await" /\ f.at \notin {"body", "await"}
    PROVE  Stacked'
<1>1. stack \in Seq(Frame) /\ Len(stack) \in Nat /\ n \in Nat /\ n <= Len(stack) - 1
  <2>1. stack \in Seq(Frame) BY DEF Trust, Stacked, IInv, GoodStack
  <2> QED BY <2>1
<1>2. \A k \in 1..n : k \in 1..(Len(stack) - 1) BY <1>1
<1>3. Linked'
  <2> SUFFICES ASSUME NEW k \in 1..n PROVE Calls(stack[k], stack[k + 1])'
    BY <1>1 DEF Linked
  <2>1. Calls(stack[k], stack[k + 1]) /\ stack'[k] = stack[k] /\ Calm(stack[k])
    BY <1>2, BelowTop
  <2>2. stack'[k + 1].node = stack[k + 1].node
    <3>1. CASE k = n BY <3>1
    <3>2. CASE k # n
      <4>1. k + 1 \in 1..n BY <1>1, <3>2
      <4> QED BY <4>1
    <3> QED BY <3>1, <3>2
  <2>3. CASE stack[k].at = "polled"
    <3>1. version'[stack[k + 1].node] = version[stack[k + 1].node] BY <2>3
    <3> QED BY <2>1, <2>2, <2>3, <3>1 DEF Calls, Calm
  <2>4. CASE stack[k].at # "polled"
    BY <2>1, <2>2, <2>4 DEF Calls, Calm
  <2> QED BY <2>3, <2>4
<1>4. Frames'
  <2> SUFFICES ASSUME NEW k \in 1..(n + 1) PROVE (PollOK(stack[k]) /\ BodyOK(stack[k]))'
    BY <1>1 DEF Frames
  <2>1. CASE k = n + 1
    <3>1. stack'[k] = f BY <2>1
    <3> QED BY <3>1 DEF PollOK, BodyOK
  <2>2. CASE k # n + 1
    <3>1. k \in 1..n BY <1>1, <2>2
    <3>2. PICK g : g = stack[k] OBVIOUS
    <3>3. PollOK(g) /\ BodyOK(g) /\ Calm(g) /\ g.node \in Consumer
      BY <1>2, <3>1, <3>2, BelowTop
    <3>4. PollOK(g)' /\ BodyOK(g)' BY <3>3, FrameKept
    <3>5. stack'[k] = g BY <3>1, <3>2
    <3> QED BY <3>4, <3>5 DEF PollOK, BodyOK
  <2> QED BY <2>1, <2>2
<1>5. Apart'
  <2> SUFFICES ASSUME NEW k \in 1..(n + 1), NEW m \in 1..(n + 1), k # m,
                      stack'[k].at \in {"body", "await"}, stack'[k].node \in Computed,
                      stack'[m].node = stack'[k].node
               PROVE  stack'[m].at = "update"
    BY <1>1 DEF Apart
  <2>1. \A x \in 1..(n + 1) : x = n + 1 \/ x \in 1..n BY <1>1
  <2>2. CASE k = n + 1
    <3>1. m \in 1..n BY <2>1, <2>2
    <3> QED BY <2>2, <3>1
  <2>3. CASE k # n + 1 /\ m = n + 1
    <3>1. k \in 1..n BY <2>1, <2>3
    <3>2. stack[k].at = "await" BY <1>2, <3>1, BelowTop
    <3> QED BY <2>3, <3>1, <3>2
  <2>4. CASE k # n + 1 /\ m # n + 1
    <3>1. k \in 1..n /\ m \in 1..n BY <2>1, <2>4
    <3>2. k \in 1..Len(stack) /\ m \in 1..Len(stack) BY <1>1, <3>1
    <3> QED BY <3>1, <3>2 DEF Trust, Stacked, Apart
  <2> QED BY <2>2, <2>3, <2>4
<1>6. Arrived'
  <2>1. Top' = f BY <1>1 DEF Top
  <2> QED BY <2>1 DEF Arrived, ArrivedAt
<1> QED BY <1>3, <1>4, <1>5, <1>6 DEF Stacked

LEMMA TopIs ==
    ASSUME Trust, Busy
    PROVE  /\ stack \in Seq(Frame) /\ Len(stack) \in Nat \ {0} /\ Top = stack[Len(stack)]
           /\ Top \in Frame /\ GoodFrame(Top, program, destroyed)
           /\ Top.node \in Watch => Len(stack) = 1
           /\ PollOK(Top) /\ BodyOK(Top) /\ ArrivedAt(Top)
           /\ Top.at \in {"body", "await"} /\ Top.node \in Computed
                => \A k \in 1..(Len(stack) - 1) : stack[k].node # Top.node
<1>1. /\ stack \in Seq(Frame) /\ Len(stack) \in Nat \ {0} /\ Top = stack[Len(stack)]
      /\ GoodFrame(Top, program, destroyed) /\ (Top.node \in Watch => Len(stack) = 1)
  BY TopGood DEF Trust, IInv, GoodStack, Top
<1>2. Len(stack) \in 1..Len(stack) BY <1>1
<1>3. PollOK(Top) /\ BodyOK(Top) /\ ArrivedAt(Top)
  BY <1>1, <1>2 DEF Trust, Stacked, Frames, Arrived
<1>4. ASSUME Top.at \in {"body", "await"}, Top.node \in Computed,
             NEW k \in 1..(Len(stack) - 1), stack[k].node = Top.node
      PROVE  FALSE
  <2>1. k # Len(stack) /\ k \in 1..Len(stack) BY <1>1
  <2>2. stack[k].at = "update" BY <1>1, <1>2, <1>4, <2>1 DEF Trust, Stacked, Apart
  <2> QED BY <2>2, BelowTop
<1> QED BY <1>1, <1>3, <1>4 DEF GoodFrame

\* The innermost call goes on as f.
LEMMA PutTop ==
    ASSUME Trust, Busy, NEW f, f.node = Top.node, stack' = SetTop(f), UNCHANGED program,
           Grow, \A k \in 1..(Len(stack) - 1) : Calm(stack[k]),
           UNCHANGED version, PollOK(f)', BodyOK(f)', ArrivedAt(f)',
           \A k \in 1..(Len(stack) - 1) :
               stack[k].node = f.node /\ f.node \in Computed
                 => stack[k].at # "await" /\ f.at \notin {"body", "await"}
    PROVE  Stacked'
<1>2. stack \in Seq(Frame) /\ Len(stack) \in Nat \ {0} /\ Top = stack[Len(stack)] BY TopIs
<1>0. Len(stack) - 1 \in Nat BY <1>2
<1>1. PICK n \in Nat : n = Len(stack) - 1 BY <1>0
<1>3. n \in 0..(Len(stack) - 1) /\ n + 1 = Len(stack) BY <1>1, <1>2
<1>4. /\ Len(stack') = n + 1 /\ stack'[n + 1] = f
      /\ \A k \in 1..n : stack'[k] = stack[k]
  BY <1>2, <1>3 DEF SetTop
<1>5. f.node = stack[n + 1].node BY <1>2, <1>3
<1>6. \A k \in 1..n : stack[k].at = "polled"
                        => version'[stack[k + 1].node] = version[stack[k + 1].node]
  OBVIOUS
<1> QED BY <1>1, <1>3, <1>4, <1>5, <1>6, Put

\* The innermost call returns.
LEMMA PopTop ==
    ASSUME Trust, Busy, stack' = Pop, UNCHANGED program, Grow,
           \A k \in 1..(Len(stack) - 1) : Calm(stack[k]),
           \A k \in 1..(Len(stack) - 2) :
               stack[k].at = "polled"
                 => version'[stack[k + 1].node] = version[stack[k + 1].node],
           Len(stack) # 1 => Top.node \in Signal \cup Good'
    PROVE  Stacked'
<1>1. stack \in Seq(Frame) /\ Len(stack) \in Nat \ {0} /\ Top = stack[Len(stack)] BY TopIs
<1>2. CASE Len(stack) = 1
  <2>1. stack' = <<>> BY <1>1, <1>2 DEF Pop
  <2> QED BY <2>1 DEF Stacked, Linked, Frames, Apart, Arrived, Busy
<1>3. CASE Len(stack) # 1
  <2> DEFINE N == Len(stack)
  <2>0. N \in Nat \ {0} /\ N # 1 BY <1>1, <1>3
  <2> HIDE DEF N
  <2>1. PICK n \in Nat : n = N - 2
    <3>1. N - 2 \in Nat BY <2>0
    <3> QED BY <3>1
  <2> USE DEF N
  <2>2. n \in 0..(Len(stack) - 1) /\ n + 1 = Len(stack) - 1 /\ n + 1 \in 1..(Len(stack) - 1)
        /\ n + 2 = Len(stack)
    BY <1>1, <2>1
  <2>3. PICK f : f = stack[n + 1] OBVIOUS
  <2>4. /\ Len(stack') = n + 1 /\ stack'[n + 1] = f
        /\ \A k \in 1..n : stack'[k] = stack[k]
    BY <1>1, <2>2, <2>3 DEF Pop
  <2>5. /\ Calls(f, Top) /\ f.at \in {"polled", "await"} /\ f.node \in Consumer
        /\ PollOK(f) /\ BodyOK(f) /\ Calm(f)
    <3>1. (n + 1) + 1 = Len(stack) BY <2>2
    <3> QED BY <1>1, <2>2, <2>3, <3>1, BelowTop
  <2>6. PollOK(f)' /\ BodyOK(f)' BY <2>5, FrameKept
  <2>7. ArrivedAt(f)'
    <3>1. Top.node \in Signal \cup Good' BY <1>3
    <3>2. f.at = "await" => Body[program'][f.node][f.trace].node \in Good'
      BY <2>5, <3>1, NodesDisjoint DEF Calls
    <3>3. f.at = "polled" => f.i \in 1..Len(deps'[f.node])
                               /\ deps'[f.node][f.i].node \in Signal \cup Good'
      BY <2>5, <3>1 DEF Calls, Calm
    <3> QED BY <3>2, <3>3 DEF ArrivedAt
  <2>8. ASSUME NEW k \in 1..n, stack[k].node = f.node, f.node \in Computed
        PROVE  stack[k].at # "await" /\ f.at \notin {"body", "await"}
    <3>1. k \in 1..(Len(stack) - 1) /\ k # n + 1 BY <1>1, <2>2
    <3>2. k \in 1..Len(stack) /\ n + 1 \in 1..Len(stack) BY <1>1, <2>2, <3>1
    <3>3. stack[k].at # "update" BY <3>1, BelowTop
    <3> QED BY <2>3, <2>5, <2>8, <3>1, <3>2, <3>3 DEF Trust, Stacked, Apart
  <2>9. \A k \in 1..n : Calm(stack[k]) BY <1>1, <2>2
  <2>10. \A k \in 1..n : stack[k].at = "polled"
                          => version'[stack[k + 1].node] = version[stack[k + 1].node]
    BY <2>1
  <2> QED BY <2>2, <2>3, <2>4, <2>6, <2>7, <2>8, <2>9, <2>10, Put
<1> QED BY <1>2, <1>3

\* The innermost call, now f, calls g.
LEMMA PushTop ==
    ASSUME Trust, Busy, NEW f, NEW g, f.node = Top.node, g.at = "update",
           stack' = Append(SetTop(f), g),
           UNCHANGED <<program, nodeVars, edgeVars, destroyed>>,
           Calls(f, g), PollOK(f), BodyOK(f),
           f.at = "await" => Top.at = "body"
    PROVE  Stacked'
<1>1. stack \in Seq(Frame) /\ Len(stack) \in Nat \ {0} /\ Top = stack[Len(stack)] BY TopIs
<1>2. PICK n \in Nat : n = Len(stack) BY <1>1
<1>3. /\ Len(stack') = n + 1 /\ stack'[n + 1] = g /\ stack'[n] = f
      /\ \A k \in 1..(n - 1) : stack'[k] = stack[k]
  BY <1>1, <1>2 DEF SetTop
<1>4. Linked'
  <2> SUFFICES ASSUME NEW k \in 1..n PROVE Calls(stack[k], stack[k + 1])'
    BY <1>2, <1>3 DEF Linked
  <2>1. CASE k = n
    <3>1. stack'[k] = f /\ stack'[k + 1] = g BY <1>3, <2>1
    <3> QED BY <3>1 DEF Calls, nodeVars, edgeVars
  <2>2. CASE k # n
    <3>1. k \in 1..(n - 1) /\ k \in 1..(Len(stack) - 1) BY <1>2, <2>2
    <3>2. stack'[k] = stack[k] BY <1>3, <3>1
    <3>3. stack'[k + 1].node = stack[k + 1].node
      <4>1. CASE k + 1 = n BY <1>1, <1>2, <1>3, <4>1
      <4>2. CASE k + 1 # n
        <5>1. k + 1 \in 1..(n - 1) BY <1>2, <3>1, <4>2
        <5> QED BY <1>3, <5>1
      <4> QED BY <4>1, <4>2
    <3>4. Calls(stack[k], stack[k + 1]) BY <3>1, BelowTop
    <3> QED BY <3>2, <3>3, <3>4 DEF Calls, nodeVars, edgeVars
  <2> QED BY <2>1, <2>2
<1>5. Good' = Good BY DEF Good, nodeVars, edgeVars
<1>6. Frames'
  <2> SUFFICES ASSUME NEW k \in 1..(n + 1) PROVE (PollOK(stack[k]) /\ BodyOK(stack[k]))'
    BY <1>2, <1>3 DEF Frames
  <2>1. PICK h : h = stack'[k] OBVIOUS
  <2>2. PollOK(h) /\ BodyOK(h)
    <3>1. CASE k = n + 1 BY <1>3, <2>1, <3>1 DEF PollOK, BodyOK
    <3>2. CASE k = n BY <1>3, <2>1, <3>2
    <3>3. CASE k \in 1..(n - 1)
      <4>1. k \in 1..(Len(stack) - 1) BY <1>2, <3>3
      <4> QED BY <1>3, <2>1, <3>3, <4>1, BelowTop
    <3> QED BY <1>2, <3>1, <3>2, <3>3
  <2> QED BY <1>5, <2>1, <2>2 DEF PollOK, BodyOK, FirstFine, Fine, nodeVars, edgeVars
<1>7. Apart'
  <2> SUFFICES ASSUME NEW k \in 1..(n + 1), NEW m \in 1..(n + 1), k # m,
                      stack'[k].at \in {"body", "await"}, stack'[k].node \in Computed,
                      stack'[m].node = stack'[k].node
               PROVE  stack'[m].at = "update"
    BY <1>2, <1>3 DEF Apart
  <2>1. CASE m = n + 1 BY <1>3, <2>1
  <2>2. CASE m # n + 1
    <3>1. k # n + 1 BY <1>3
    <3>2. k \in 1..n /\ m \in 1..n BY <1>2, <2>2, <3>1
    <3>3. /\ stack[k].node = stack'[k].node /\ stack[m].node = stack'[m].node
      BY <1>1, <1>2, <1>3, <3>2
    <3>4. stack[k].at \in {"body", "await"}
      <4>1. CASE k = n BY <1>1, <1>2, <1>3, <4>1 DEF Calls
      <4>2. CASE k # n
        <5>1. k \in 1..(n - 1) BY <1>2, <3>2, <4>2
        <5> QED BY <1>3, <5>1
      <4> QED BY <4>1, <4>2
    <3>5. stack[m].at = "update" BY <1>2, <3>2, <3>3, <3>4 DEF Trust, Stacked, Apart
    <3>6. m \notin 1..(Len(stack) - 1) BY <3>5, BelowTop
    <3>7. m = n BY <1>2, <3>2, <3>6
    <3>8. Top.at = "update" /\ k \in 1..(Len(stack) - 1) BY <1>1, <1>2, <3>2, <3>5, <3>7
    <3>9. stack[k].at = "await" BY <3>4, <3>8, BelowTop
    <3>10. f.at = "polled" BY <3>8 DEF Calls
    <3>11. stack[k].node = f.node /\ f.node \in Computed
      BY <1>1, <1>2, <3>3, <3>7
    <3>12. value[f.node] = COMPUTING BY <3>8, <3>9, <3>11, BelowTop DEF BodyOK
    <3> QED BY <3>10, <3>11, <3>12 DEF PollOK
  <2> QED BY <2>1, <2>2
<1>8. Arrived'
  <2>1. Top' = g BY <1>2, <1>3 DEF Top
  <2> QED BY <2>1 DEF Arrived, ArrivedAt
<1> QED BY <1>4, <1>6, <1>7, <1>8 DEF Stacked

\* The first call of a stack.
LEMMA Start ==
    ASSUME NEW f, Len(stack') = 1, stack'[1] = f, PollOK(f)', BodyOK(f)',
           f.at \notin {"await", "polled"}
    PROVE  Stacked'
<1>1. Len(stack') = 1 /\ stack'[1] = f /\ Top' = f BY DEF Top
<1>2. Linked' /\ Apart' BY <1>1 DEF Linked, Apart
<1>3. Frames'
  <2> SUFFICES ASSUME NEW k \in 1..1 PROVE (PollOK(stack[k]) /\ BodyOK(stack[k]))'
    BY <1>1 DEF Frames
  <2>1. stack'[k] = f BY <1>1
  <2> QED BY <2>1 DEF PollOK, BodyOK
<1>4. Arrived' BY <1>1 DEF Arrived, ArrivedAt
<1> QED BY <1>2, <1>3, <1>4 DEF Stacked

LEMMA NoStack == ASSUME stack' = <<>> PROVE Stacked'
BY DEF Stacked, Linked, Frames, Apart, Arrived, Busy

-----------------------------------------------------------------------------
(* What the actions are made of.                                           *)

LEMMA Types ==
    ASSUME Trust
    PROVE  /\ value \in [Node -> Content] /\ version \in [Node -> Nat]
           /\ lastCleanEpoch \in [Node -> Nat] /\ dirty \in [Node -> BOOLEAN]
           /\ deps \in [Node -> Seq(Dep)] /\ nextIndex \in [Node -> Nat]
           /\ epoch \in Nat /\ hasRun \subseteq Watch /\ destroyed \subseteq Watch
           /\ \A n \in Node : deps[n] \in Seq(Dep) /\ Len(deps[n]) \in Nat
           /\ \A n \in Node \ destroyed : nextIndex[n] <= Len(deps[n])
           /\ Epochs /\ Trusting /\ Stacked
BY DEF Trust, IInv, TypeOK, NoHoles

\* Steps that only move the stack.
LEMMA SameData ==
    ASSUME Trust, UNCHANGED <<nodeVars, edgeVars, epoch, hasRun, destroyed>>,
           \A w \in Watch : InRun(w) => InRun(w)' \/ FirstFine(w, Len(deps[w]))
    PROVE  Epochs' /\ Trusting' /\ Grow /\ Good' = Good /\ \A f : Calm(f)
<1> USE DEF nodeVars, edgeVars
<1>1. Good' = Good BY DEF Good
<1>2. Epochs' BY DEF Trust, Epochs
<1>3. Grow BY <1>1 DEF Grow
<1>4. \A f : Calm(f) BY DEF Calm
<1>5. ASSUME NEW c \in Computed, UpToDate(c)' PROVE c \in Good'
  <2>1. \A x \in Consumer : DepNodes(x)' \subseteq DepNodes(x) BY DEF DepNodes
  <2>2. IsLive(c)' => IsLive(c) BY <2>1, LiveShrinks
  <2> QED BY <1>1, <1>5, <2>2, UpToDateKept DEF Trust
<1>6. ASSUME NEW w \in (hasRun \ destroyed)', ~dirty'[w], ~InRun(w)'
      PROVE  FirstFine(w, Len(deps[w]))'
  <2>1. FirstFine(w, Len(deps[w])) BY <1>6, Types DEF Trusting
  <2> QED BY <1>1, <2>1 DEF FirstFine, Fine
<1> QED BY <1>1, <1>2, <1>3, <1>4, <1>5, <1>6 DEF Trusting

\* signalSetFn: what it notifies is all that was good and is not any more,
\* unless nobody is told; and then a new epoch is told.
LEMMA SetKeeps ==
    ASSUME Trust, NEW s \in Signal, NEW v \in Value, SetSignal(s, v),
           UNCHANGED <<edgeVars, destroyed>>
    PROVE  /\ Epochs'
           /\ \A c \in Computed : UpToDate(c)' => c \in Good'
           /\ \A w \in Watch, k \in Nat :
                 k <= Len(deps[w]) /\ ~dirty'[w] => /\ ~dirty[w]
                                                    /\ FirstFine(w, k) => FirstFine(w, k)'
<1> USE DEF edgeVars
<1>0. \A c \in Computed : IsLive(c)' => IsLive(c)
  <2>1. \A x \in Consumer : DepNodes(x)' \subseteq DepNodes(x) BY DEF DepNodes
  <2> QED BY <2>1, LiveShrinks
<1>1. CASE value[s] = v
  <2>1. UNCHANGED <<nodeVars, epoch>> BY <1>1 DEF SetSignal
  <2>2. Good' = Good BY <2>1 DEF Good, nodeVars
  <2>3. Epochs' BY <2>1 DEF Trust, Epochs, nodeVars
  <2>4. \A c \in Computed : UpToDate(c)' => c \in Good'
    BY <1>0, <2>1, <2>2, UpToDateKept, Types DEF nodeVars
  <2>5. \A w, k : (FirstFine(w, k) => FirstFine(w, k)') /\ dirty'[w] = dirty[w]
    BY <2>1, <2>2 DEF FirstFine, Fine, nodeVars
  <2> QED BY <2>3, <2>4, <2>5
<1>2. CASE value[s] # v
  <2>1. /\ value' = [value EXCEPT ![s] = v]
        /\ version' = [version EXCEPT ![s] = @ + 1]
        /\ epoch' = epoch + 1
        /\ dirty' = [n \in Node |-> dirty[n] \/ n \in Notified(s)]
        /\ UNCHANGED lastCleanEpoch
    BY <1>2 DEF SetSignal
  <2>2. \A n \in Node : (dirty'[n] <=> dirty[n] \/ n \in Notified(s)) BY <2>1
  <2>3. \A n \in Node : n # s => value'[n] = value[n] /\ version'[n] = version[n]
    BY <2>1, Types
  <2>4. Epochs'
    <3>1. \A n \in Node : lastCleanEpoch[n] \in Nat /\ lastCleanEpoch[n] <= epoch
      BY Types DEF Epochs
    <3>2. \A n \in Node : lastCleanEpoch[n] <= epoch + 1 /\ lastCleanEpoch[n] < epoch + 1
      BY <3>1, Types
    <3>3. \A c \in Computed : c \in Node BY DEF Node
    <3> QED BY <2>1, <3>2, <3>3 DEF Epochs
  <2>5. PICK S \in SUBSET Computed : S = {y \in Good : IsLive(y) /\ y \notin Notified(s)}
    BY GoodIs DEF Good
  <2>6. ASSUME NEW y \in Watch \cup LiveComputed, ~dirty[y], y \notin Notified(s),
               NEW j \in 1..Len(deps[y]), Fine(deps[y][j])
        PROVE  Trusts(deps[y][j], S, version')
    <3> DEFINE d == deps[y][j].node
    <3>1. d \in DepNodes(y) BY DEF DepNodes
    <3>2. y \in Consumer BY ReachClosed DEF Consumer, LiveComputed
    <3>3. d # NoNode /\ deps[y][j].seen = version[d] /\ d \in Signal \cup Good
      BY <2>6 DEF Fine, Trusts
    <3>4. d \in Node /\ d # NoNode BY <3>3, GoodIs DEF Good, Node
    <3>5. y \in Dependents[d] BY <3>1, <3>2, <3>4 DEF Dependents
    <3>6. d # s /\ d \notin Reached(s)
      <4> DEFINE Clean == {c \in LiveComputed : ~dirty[c]}
      <4>1. SUFFICES ASSUME d \in {s} \cup Reached(s) PROVE FALSE OBVIOUS
      <4>2. y \in Watch => y \in Notified(s) BY <2>6, <3>1, <4>1 DEF Notified
      <4>3. y \in LiveComputed => y \in Reached(s)
        <5>1. y \in LiveComputed => y \in Clean BY <2>6
        <5>2. Closed(Reached(s), {s}, Clean, Dependents)
          BY ReachClosed DEF Reached
        <5> HIDE DEF Clean, d
        <5> QED BY <3>5, <4>1, <5>1, <5>2 DEF Closed
      <4> QED BY <2>6, <4>2, <4>3 DEF Notified
    <3>7. version'[d] = version[d] BY <2>3, <3>4, <3>6
    <3>8. CASE d \in Good
      <4>1. d \in Computed /\ ~dirty[d] BY <3>8, GoodFacts
      <4>2. IsLive(d) BY <3>1, <4>1, LiveBelow
      <4>3. d \notin Notified(s) BY <3>6, <4>1, NodesDisjoint DEF Notified
      <4>4. d \in S BY <2>5, <3>8, <4>2, <4>3
      <4> QED BY <3>3, <3>7, <4>4 DEF Trusts
    <3> QED BY <3>3, <3>7, <3>8 DEF Trusts
  <2>7. S \subseteq Good'
    <3>1. ASSUME NEW y \in S
          PROVE  /\ ~dirty'[y] /\ value'[y] \notin {UNSET, COMPUTING}
                 /\ \A j \in 1..Len(deps[y]) : Trusts(deps[y][j], S, version')
      <4>1. y \in Good /\ IsLive(y) /\ y \notin Notified(s) /\ y \in Computed BY <2>5
      <4>2. y \in LiveComputed BY <4>1, LiveIs
      <4>3. /\ ~dirty[y] /\ value[y] \notin {UNSET, COMPUTING}
            /\ \A j \in 1..Len(deps[y]) : Fine(deps[y][j])
        BY <4>1, GoodFacts
      <4>4. y \in Node /\ y # s BY <4>1, NodesDisjoint DEF Node
      <4> QED BY <2>2, <2>3, <2>6, <4>1, <4>2, <4>3, <4>4
    <3>2. Consistent(S, value', version', dirty', deps')
      BY <3>1 DEF Consistent
    <3>3. S \subseteq GoodIn(value', version', dirty', deps') BY <3>2, GoodMax
    <3> QED BY <3>3 DEF Good
  <2>8. ASSUME NEW c \in Computed, UpToDate(c)' PROVE c \in Good'
    <3>1. c \in Node /\ ~dirty'[c] BY <2>8 DEF UpToDate, Node
    <3>2. ~dirty[c] /\ c \notin Notified(s) BY <2>2, <3>1
    <3>3. lastCleanEpoch[c] # epoch + 1
      BY <3>1, Types DEF Epochs
    <3>4. IsLive(c) BY <1>0, <2>1, <2>8, <3>3 DEF UpToDate
    <3>5. c \in Good BY <3>2, <3>4, Types DEF Trusting, UpToDate
    <3> QED BY <2>5, <2>7, <3>2, <3>4, <3>5
  <2>9. ASSUME NEW w \in Watch, NEW k \in Nat, k <= Len(deps[w]), ~dirty'[w]
        PROVE  ~dirty[w] /\ (FirstFine(w, k) => FirstFine(w, k)')
    <3>1. w \in Node BY DEF Node
    <3>2. ~dirty[w] /\ w \notin Notified(s) BY <2>2, <2>9, <3>1
    <3>3. ASSUME FirstFine(w, k), NEW j \in 1..k PROVE Fine(deps[w][j])'
      <4>1. j \in 1..Len(deps[w]) BY <2>9, <3>1, Types
      <4>2. Fine(deps[w][j]) BY <3>3 DEF FirstFine
      <4>3. Trusts(deps[w][j], S, version') BY <2>6, <3>2, <4>1, <4>2
      <4> QED BY <2>7, <4>3 DEF Fine, Trusts
    <3> QED BY <3>2, <3>3 DEF FirstFine
  <2> QED BY <2>4, <2>8, <2>9
<1> QED BY <1>1, <1>2

LEMMA FirstFineKept ==
    ASSUME Grow, NEW n, deps'[n] = deps[n]
    PROVE  /\ \A d : Fine(d) => Fine(d)'
           /\ \A k : FirstFine(n, k) => FirstFine(n, k)'
<1>1. \A d : Fine(d) => Fine(d)' BY TrustsKept DEF Grow, Fine
<1> QED BY <1>1 DEF FirstFine

\* The innermost call goes on, and nothing else changes in the stack.
LEMMA SetTopIs ==
    ASSUME Trust, Busy, NEW f, f.node = Top.node, stack' = SetTop(f)
    PROVE  /\ Len(stack') = Len(stack) /\ stack'[Len(stack)] = f /\ Busy'
           /\ \A w : InRun(w)' <=> InRun(w)
<1>1. stack \in Seq(Frame) /\ Len(stack) \in Nat \ {0} /\ Top = stack[Len(stack)] BY TopIs
<1>2. Len(stack') = Len(stack) /\ stack'[Len(stack)] = f BY <1>1 DEF SetTop
<1>3. stack'[1].node = stack[1].node BY <1>1 DEF SetTop
<1>4. Busy' BY <1>1, <1>2 DEF Busy
<1> QED BY <1>2, <1>3, <1>4 DEF InRun

LEMMA ResumeIs ==
    ASSUME Trust, Busy, NEW r, stack' = Resume(r)
    PROVE  \E f : /\ f.at = "body" /\ f.node = Top.node /\ stack' = SetTop(f)
                  /\ Len(stack') = Len(stack) /\ stack'[Len(stack)] = f
                  /\ \A w : InRun(w)' <=> InRun(w)
<1> DEFINE f == [Top EXCEPT !.at = "body", !.trace = Append(@, r)]
<1>1. Top \in Frame BY TopIs
<1>2. f.at = "body" /\ f.node = Top.node BY <1>1 DEF Frame
<1>3. stack' = SetTop(f) BY DEF Resume
<1> HIDE DEF f
<1> QED BY <1>2, <1>3, SetTopIs

LEMMA NotBusy == ASSUME ~Busy PROVE stack = <<>> /\ \A w : ~InRun(w)
BY DEF Busy, InRun

-----------------------------------------------------------------------------
(* What the user and the scheduler do.                                     *)

LEMMA SetTrust ==
    ASSUME Trust, UNCHANGED program, NEW s \in Signal, NEW v \in Value, Set(s, v)
    PROVE  Kept
<1>1. SetSignal(s, v) /\ UNCHANGED <<edgeVars, hasRun, destroyed, stack>> /\ ~Busy
  BY DEF Set
<1>2. stack' = <<>> BY <1>1, NotBusy
<1>3. Stacked' BY <1>2, NoStack
<1>4. /\ Epochs' /\ \A c \in Computed : UpToDate(c)' => c \in Good'
      /\ \A w \in Watch, k \in Nat :
            k <= Len(deps[w]) /\ ~dirty'[w] => /\ ~dirty[w]
                                               /\ FirstFine(w, k) => FirstFine(w, k)'
  BY <1>1, SetKeeps
<1>5. ASSUME NEW w \in hasRun \ destroyed, ~dirty'[w] PROVE FirstFine(w, Len(deps[w]))'
  <2>1. w \in Watch /\ w \in Node /\ Len(deps[w]) \in Nat BY Types DEF Node
  <2>2. ~dirty[w] BY <1>4, <1>5, <2>1
  <2>3. FirstFine(w, Len(deps[w])) BY <1>1, <2>2, Types, NotBusy DEF Trusting
  <2>4. PICK k \in Nat : k = Len(deps[w]) BY <2>1
  <2>5. FirstFine(w, k)' BY <1>4, <1>5, <2>1, <2>3, <2>4
  <2> QED BY <1>1, <2>4, <2>5 DEF edgeVars, FirstFine
<1>6. Trusting' BY <1>1, <1>4, <1>5 DEF Trusting
<1> QED BY <1>3, <1>4, <1>6 DEF Kept

LEMMA ReadTrust ==
    ASSUME Trust, UNCHANGED program, NEW c \in Computed, Read(c)
    PROVE  Kept
<1>1. /\ UNCHANGED <<nodeVars, edgeVars, epoch, hasRun, destroyed>> /\ ~Busy
      /\ stack' = <<Call(c)>>
  BY DEF Read, watchVars
<1>2. Epochs' /\ Trusting' BY <1>1, SameData, NotBusy
<1>3. Call(c).at = "update" /\ Len(stack') = 1 /\ stack'[1] = Call(c)
  BY <1>1 DEF Call
<1> DEFINE f == Call(c)
<1> HIDE DEF f
<1>4. PollOK(f)' /\ BodyOK(f)' BY <1>3 DEF PollOK, BodyOK, f
<1>5. Stacked' BY <1>3, <1>4, Start DEF f
<1> QED BY <1>2, <1>5 DEF Kept

\* The dirty flags of watches do not matter to computeds.
LEMMA MarksKept ==
    ASSUME Trust, \A c \in Computed : dirty'[c] = dirty[c],
           UNCHANGED <<value, version, lastCleanEpoch, deps, epoch>>
    PROVE  Epochs' /\ Grow /\ \A c \in Computed : UpToDate(c)' => c \in Good'
<1>1. Grow BY GoodFacts, GoodKept
<1>2. Epochs' BY Types DEF Epochs
<1>3. \A x \in Consumer : DepNodes(x)' \subseteq DepNodes(x) BY DEF DepNodes
<1>4. \A c \in Computed : UpToDate(c)' => c \in Good'
  BY <1>1, <1>3, LiveShrinks, UpToDateKept, Types DEF Grow
<1> QED BY <1>1, <1>2, <1>4

LEMMA NotifyTrust ==
    ASSUME Trust, UNCHANGED program, NEW w \in Watch, Notify(w)
    PROVE  Kept
<1>1. /\ dirty' = [dirty EXCEPT ![w] = TRUE] /\ ~Busy
      /\ UNCHANGED <<value, version, lastCleanEpoch, edgeVars, epoch, hasRun,
                     destroyed, stack>>
  BY DEF Notify
<1>2. Stacked' BY <1>1, NotBusy, NoStack
<1>3. /\ \A n \in Node : n # w => dirty'[n] = dirty[n] 
      /\ dirty'[w]
  BY <1>1, Types DEF Node
<1>4. \A c \in Computed : dirty'[c] = dirty[c] BY <1>3, NodesDisjoint DEF Node
<1>5. Epochs' /\ Grow /\ \A c \in Computed : UpToDate(c)' => c \in Good'
  BY <1>1, <1>4, MarksKept DEF edgeVars
<1>6. ASSUME NEW x \in hasRun \ destroyed, ~dirty'[x] PROVE FirstFine(x, Len(deps[x]))'
  <2>1. x \in Node /\ x # w BY <1>3, <1>6, Types DEF Node
  <2>2. FirstFine(x, Len(deps[x])) BY <1>1, <1>3, <1>6, <2>1, Types, NotBusy DEF Trusting
  <2> QED BY <1>1, <1>5, <2>2, FirstFineKept DEF edgeVars
<1>7. Trusting' BY <1>1, <1>5, <1>6 DEF Trusting
<1> QED BY <1>2, <1>5, <1>7 DEF Kept

LEMMA DestroyKeeps ==
    ASSUME Trust, NEW w \in Watch, DestroyWatch(w), UNCHANGED <<nodeVars, epoch, hasRun>>,
           \A x : InRun(x) => InRun(x)'
    PROVE  Epochs' /\ Trusting' /\ Grow
<1> USE DEF nodeVars
<1>1. /\ \A n \in Node : n # w => deps'[n] = deps[n]
      /\ w \in Node /\ destroyed' = destroyed \cup {w}
      /\ deps'[w] = <<>> \/ deps'[w] = deps[w]
  BY Types DEF DestroyWatch, Node
<1>2. Good \subseteq Computed BY GoodIs DEF Good
<1>3. Grow BY <1>1, <1>2, GoodKept, NodesDisjoint DEF Node
<1>4. Epochs' BY Types DEF Epochs
<1>5. ASSUME NEW x \in Consumer PROVE DepNodes(x)' \subseteq DepNodes(x)
  <2>1. deps'[x] = <<>> \/ deps'[x] = deps[x] BY <1>1 DEF Consumer, Node
  <2> QED BY <2>1 DEF DepNodes
<1>6. \A c \in Computed : UpToDate(c)' => c \in Good'
  BY <1>3, <1>5, LiveShrinks, UpToDateKept, Types DEF Grow
<1>7. ASSUME NEW x \in (hasRun \ destroyed)', ~dirty'[x], ~InRun(x)'
      PROVE  FirstFine(x, Len(deps[x]))'
  <2>1. x \in Node /\ x # w /\ x \in hasRun \ destroyed BY <1>1, <1>7, Types DEF Node
  <2>2. FirstFine(x, Len(deps[x])) BY <1>7, <2>1, Types DEF Trusting
  <2> QED BY <1>1, <1>3, <2>1, <2>2, FirstFineKept
<1>8. Trusting' BY <1>6, <1>7 DEF Trusting
<1> QED BY <1>3, <1>4, <1>8

LEMMA DestroyTrust ==
    ASSUME Trust, UNCHANGED program, NEW w \in Watch, Destroy(w)
    PROVE  Kept
<1>1. DestroyWatch(w) /\ UNCHANGED <<nodeVars, epoch, hasRun, stack>> /\ ~Busy
  BY DEF Destroy
<1>2. Stacked' BY <1>1, NotBusy, NoStack
<1>3. Epochs' /\ Trusting' BY <1>1, NotBusy, DestroyKeeps
<1> QED BY <1>2, <1>3 DEF Kept

LEMMA RunTrust ==
    ASSUME Trust, UNCHANGED program, NEW w \in Watch, Run(w)
    PROVE  Kept
<1>1. /\ dirty' = [dirty EXCEPT ![w] = FALSE] /\ ~Busy
      /\ hasRun' = hasRun \cup {w}
      /\ UNCHANGED <<value, version, lastCleanEpoch, deps, epoch, destroyed>>
  BY DEF Run
<1>2. \A n \in Node : n # w => dirty'[n] = dirty[n] BY <1>1, Types
<1>3. w \in Node /\ w \notin Computed /\ \A c \in Computed : c \in Node
  BY NodesDisjoint DEF Node
<1>4. \A c \in Computed : dirty'[c] = dirty[c] BY <1>2, <1>3
<1>5. Epochs' /\ Grow /\ \A c \in Computed : UpToDate(c)' => c \in Good'
  BY <1>1, <1>4, MarksKept
<1>6. PICK f : /\ Len(stack') = 1 /\ stack'[1] = f /\ f.node = w
               /\ \/ f.at = "poll" /\ f.i = 1
                  \/ f.at = "body" /\ nextIndex'[w] = 0
  <2>1. CASE w \in hasRun
    <3> DEFINE g == [Call(w) EXCEPT !.at = "poll", !.i = 1]
    <3>1. stack' = <<g>> BY <2>1 DEF Run
    <3>2. g.node = w /\ g.at = "poll" /\ g.i = 1 BY DEF Call
    <3> HIDE DEF g
    <3> QED BY <3>1, <3>2
  <2>2. CASE w \notin hasRun
    <3> DEFINE g == [Call(w) EXCEPT !.at = "body"]
    <3>1. stack' = <<g>> /\ nextIndex' = [nextIndex EXCEPT ![w] = 0] BY <2>2 DEF Run
    <3>2. g.node = w /\ g.at = "body" BY DEF Call
    <3>3. nextIndex'[w] = 0 BY <1>3, <3>1, Types
    <3> HIDE DEF g
    <3> QED BY <3>1, <3>2, <3>3
  <2> QED BY <2>1, <2>2
<1>7. InRun(w)'
  <2>1. Len(stack') # Len(<<>>) BY <1>6
  <2>2. stack' # <<>> BY <2>1
  <2> QED BY <1>6, <2>2 DEF InRun, Busy
<1>8. PollOK(f)' /\ BodyOK(f)' /\ f.at \notin {"await", "polled"}
  BY <1>3, <1>6 DEF PollOK, BodyOK, FirstFine
<1>9. Stacked' BY <1>6, <1>8, Start
<1>10. ASSUME NEW x \in (hasRun \ destroyed)', ~dirty'[x], ~InRun(x)'
       PROVE  FirstFine(x, Len(deps[x]))'
  <2>1. x # w /\ x \in Watch /\ x \in Node /\ x \in hasRun \ destroyed
    BY <1>1, <1>7, <1>10, Types DEF Node
  <2>2. FirstFine(x, Len(deps[x]))
    BY <1>1, <1>2, <1>10, <2>1, Types, NotBusy DEF Trusting
  <2> QED BY <1>1, <1>5, <2>2, FirstFineKept
<1>11. Trusting' BY <1>5, <1>10 DEF Trusting
<1> QED BY <1>5, <1>9, <1>11 DEF Kept

LEMMA ExternalTrust ==
    ASSUME Trust, UNCHANGED program, External \/ \E w \in Watch : Dispatch(w)
    PROVE  Kept
<1>1. ASSUME NEW w \in Watch, RunDestroyed(w) PROVE Kept
  <2>1. /\ UNCHANGED <<nodeVars, edgeVars, epoch, hasRun, destroyed>> /\ ~Busy
        /\ stack' = stack
    BY <1>1 DEF RunDestroyed
  <2>2. Epochs' /\ Trusting' BY <2>1, SameData, NotBusy
  <2>3. Stacked' BY <2>1, NotBusy, NoStack
  <2> QED BY <2>2, <2>3 DEF Kept
<1> QED BY <1>1, SetTrust, ReadTrust, NotifyTrust, DestroyTrust, RunTrust
        DEF External, Dispatch

-----------------------------------------------------------------------------
(* Bringing a computed up to date.                                         *)

\* A computed that is clean and depends on what is good is good.
LEMMA GoodGains ==
    ASSUME NEW n \in Computed, ~dirty'[n], value'[n] \notin {UNSET, COMPUTING},
           \A j \in 1..Len(deps'[n]) : Fine(deps[n][j])'
    PROVE  n \in Good'
<1>1. Good' \in SUBSET Computed /\ Consistent(Good', value', version', dirty', deps')
  BY GoodIs DEF Good
<1>2. PICK G \in SUBSET Computed : G = Good' BY <1>1
<1> DEFINE S == G \cup {n}
<1>3. Consistent(S, value', version', dirty', deps')
  BY <1>1, <1>2 DEF Consistent, Trusts, Fine
<1>4. S \subseteq GoodIn(value', version', dirty', deps') BY <1>3, GoodMax
<1> QED BY <1>2, <1>4 DEF Good

LEMMA PopIs ==
    ASSUME Trust, Busy, stack' = Pop
    PROVE  /\ Len(stack) = 1 => stack' = <<>>
           /\ \A w : InRun(w) => InRun(w)' \/ (Len(stack) = 1 /\ Top.node = w)
<1>1. stack \in Seq(Frame) /\ Len(stack) \in Nat \ {0} /\ Top = stack[Len(stack)] BY TopIs
<1>2. CASE Len(stack) = 1 BY <1>1, <1>2 DEF Pop, InRun
<1>3. CASE Len(stack) # 1
  <2> DEFINE L == Len(stack)
  <2>0. L \in Nat \ {0} /\ L # 1 BY <1>1, <1>3
  <2>1. stack' = SubSeq(stack, 1, L - 1) /\ stack \in Seq(Frame) /\ L = Len(stack)
    BY <1>1 DEF Pop
  <2> HIDE DEF L
  <2>4. Len(stack') = L - 1 /\ stack'[1] = stack[1] BY <2>0, <2>1
  <2>2. Len(stack') # Len(<<>>) BY <2>0, <2>4
  <2>3. Busy' BY <2>2 DEF Busy
  <2> QED BY <1>3, <2>4, <2>3 DEF InRun
<1> QED BY <1>2, <1>3

LEMMA PushIs ==
    ASSUME Trust, Busy, NEW f, f.node = Top.node, NEW g, stack' = Append(SetTop(f), g)
    PROVE  \A w : InRun(w)' <=> InRun(w)
<1>1. stack \in Seq(Frame) /\ Len(stack) \in Nat \ {0} /\ Top = stack[Len(stack)] BY TopIs
<1>2. Len(stack') = Len(stack) + 1 /\ stack'[1].node = stack[1].node
  BY <1>1 DEF SetTop
<1>3. Len(stack') # Len(<<>>) BY <1>1, <1>2
<1>4. Busy' BY <1>3 DEF Busy
<1> QED BY <1>2, <1>4 DEF InRun

\* Who waits below for a computed that waits itself is being computed.
LEMMA AwaitingBelow ==
    ASSUME Trust, NEW k \in 1..(Len(stack) - 1), stack[k].node \in Computed,
           stack[k].at = "await"
    PROVE  value[stack[k].node] = COMPUTING
BY BelowTop DEF BodyOK

\* The innermost call goes on polling.
LEMMA PollOn ==
    ASSUME Trust, Busy, UNCHANGED <<program, nodeVars, edgeVars, epoch, watchVars>>,
           NEW f, f.node = Top.node, f.at = "poll", stack' = SetTop(f), PollOK(f),
           Top.at \in {"update", "polled"}
    PROVE  Kept
<1>1. UNCHANGED <<epoch, hasRun, destroyed>> BY DEF watchVars
<1>2. Epochs' /\ Trusting' /\ Grow /\ Good' = Good /\ \A h : Calm(h)
  BY <1>1, SetTopIs, SameData
<1>3. PollOK(f)' /\ BodyOK(f)' /\ ArrivedAt(f)'
  BY <1>2 DEF PollOK, BodyOK, ArrivedAt, Fine, nodeVars, edgeVars
<1>4. \A k \in 1..(Len(stack) - 1) :
          stack[k].node = f.node /\ f.node \in Computed => stack[k].at # "await"
  BY AwaitingBelow DEF PollOK
<1>5. Stacked' BY <1>2, <1>3, <1>4, PutTop DEF nodeVars
<1> QED BY <1>2, <1>5 DEF Kept

\* The computation of a computed that was not good starts.
LEMMA StartKeeps ==
    ASSUME Trust, Busy, StartBody(Top.node), Top.node \in Consumer \ Good,
           UNCHANGED <<program, version, lastCleanEpoch, dirty, epoch, watchVars>>,
           \A k \in 1..(Len(stack) - 1) : stack[k].node # Top.node
    PROVE  Kept
<1> DEFINE n == Top.node
           g == [Top EXCEPT !.at = "body", !.trace = <<>>, !.old = value[n]]
<1>1. PICK f : f.at = "body" /\ f.node = Top.node /\ stack' = SetTop(f)
  <2>1. g.at = "body" /\ g.node = Top.node BY TopIs DEF Frame
  <2>2. stack' = SetTop(g) BY DEF StartBody
  <2> HIDE DEF g
  <2> QED BY <2>1, <2>2
<1>2. n \in Node /\ nextIndex' = [nextIndex EXCEPT ![n] = 0] /\ deps' = deps
      /\ (value' = value \/ value' = [value EXCEPT ![n] = COMPUTING])
      /\ (n \in Computed => value' = [value EXCEPT ![n] = COMPUTING])
  BY DEF StartBody, Consumer, Node
<1>3. /\ nextIndex'[n] = 0 /\ (n \in Computed => value'[n] = COMPUTING)
      /\ \A x \in Node : x # n => nextIndex'[x] = nextIndex[x] /\ value'[x] = value[x]
  BY <1>2, Types
<1> HIDE DEF n, g
<1>4. Good \subseteq Computed BY GoodIs DEF Good
<1>5. \A x \in Good : x \in Node /\ x # n BY <1>4 DEF Node, n
<1>6. Grow BY <1>2, <1>3, <1>5, GoodKept
<1>7. \A w : InRun(w)' <=> InRun(w) BY <1>1, SetTopIs
<1>8. Epochs' BY Types DEF Epochs
<1>9. \A x \in Consumer : DepNodes(x)' \subseteq DepNodes(x) BY <1>2 DEF DepNodes
<1>10. \A c \in Computed : UpToDate(c)' => c \in Good'
  BY <1>6, <1>9, LiveShrinks, UpToDateKept, Types DEF Grow
<1>11. ASSUME NEW w \in (hasRun \ destroyed)', ~dirty'[w], ~InRun(w)'
       PROVE  FirstFine(w, Len(deps[w]))'
  <2>1. FirstFine(w, Len(deps[w])) BY <1>7, <1>11, Types DEF Trusting, watchVars
  <2> QED BY <1>2, <1>6, <2>1, FirstFineKept
<1>12. Trusting' BY <1>10, <1>11 DEF Trusting
<1>13. \A k \in 1..(Len(stack) - 1) : Calm(stack[k])
  <2> TAKE k \in 1..(Len(stack) - 1)
  <2>1. stack[k].node \in Node /\ stack[k].node # n BY BelowTop DEF Consumer, Node, n
  <2> QED BY <1>2, <1>3, <2>1 DEF Calm, watchVars
<1>14. PollOK(f)' /\ BodyOK(f)' /\ ArrivedAt(f)'
  BY <1>1, <1>3 DEF PollOK, BodyOK, ArrivedAt, FirstFine, n
<1>15. Stacked' BY <1>1, <1>6, <1>13, <1>14, PutTop
<1> QED BY <1>8, <1>12, <1>15 DEF Kept

LEMMA UpdateSkipTrust ==
    ASSUME Trust, UNCHANGED program, UpdateSkip
    PROVE  Kept
<1>1. /\ Busy /\ Top.at = "update" /\ UpToDate(Top.node) /\ stack' = Pop
      /\ UNCHANGED <<nodeVars, edgeVars, epoch, hasRun, destroyed>>
  BY DEF UpdateSkip, Updating, watchVars
<1>2. Top.node \in Producer BY <1>1, TopIs DEF GoodFrame
<1>3. Top.node \notin Watch BY <1>2, NodesDisjoint DEF Producer
<1>4. Epochs' /\ Trusting' /\ Grow /\ Good' = Good /\ \A f : Calm(f)
  BY <1>1, <1>3, PopIs, SameData
<1>5. Top.node \in Signal \cup Good BY <1>1, <1>2, Types DEF Producer, Trusting
<1>6. Stacked' BY <1>1, <1>4, <1>5, PopTop DEF nodeVars
<1> QED BY <1>4, <1>6 DEF Kept

LEMMA UpdatePollTrust ==
    ASSUME Trust, UNCHANGED program, UpdatePoll
    PROVE  Kept
<1> DEFINE f == [Top EXCEPT !.at = "poll", !.i = 1]
<1>1. /\ Busy /\ Top.at = "update" /\ value[Top.node] \notin {UNSET, COMPUTING}
      /\ UNCHANGED <<nodeVars, edgeVars, epoch, watchVars>> /\ stack' = SetTop(f)
  BY DEF UpdatePoll, Updating
<1>2. f.at = "poll" /\ f.i = 1 /\ f.node = Top.node BY <1>1, TopIs DEF Frame
<1> HIDE DEF f
<1>3. PollOK(f) BY <1>1, <1>2 DEF PollOK
<1> QED BY <1>1, <1>2, <1>3, PollOn

LEMMA UpdateFirstTrust ==
    ASSUME Trust, UNCHANGED program, UpdateFirst
    PROVE  Kept /\ Top.node \in Computed \ Good
<1>1. /\ Busy /\ Top.at = "update" /\ value[Top.node] = UNSET /\ StartBody(Top.node)
      /\ UNCHANGED <<version, lastCleanEpoch, dirty, epoch, watchVars>>
  BY DEF UpdateFirst, Updating
<1>2. Top.node \in Computed
  <2>1. Top.node \in Producer BY <1>1, TopIs DEF GoodFrame
  <2>2. UNSET \notin Value BY ValuesDistinct
  <2>3. Top.node \notin Signal BY <1>1, <2>2 DEF Trust, IInv, SignalsPlain
  <2> QED BY <2>1, <2>3 DEF Producer
<1>3. Top.node \notin Good BY <1>1, GoodFacts
<1>4. ASSUME NEW k \in 1..(Len(stack) - 1), stack[k].node = Top.node PROVE FALSE
  <2>1. stack[k].at \in {"polled", "await"} /\ PollOK(stack[k]) BY BelowTop
  <2>2. stack[k].at = "await" BY <1>1, <1>2, <1>4, <2>1 DEF PollOK
  <2>3. UNSET # COMPUTING BY ValuesDistinct
  <2> QED BY <1>1, <1>2, <1>4, <2>2, <2>3, AwaitingBelow
<1>5. Kept BY <1>1, <1>2, <1>3, <1>4, StartKeeps DEF Consumer
<1> QED BY <1>2, <1>3, <1>5

LEMMA UpdateCycleTrust ==
    ASSUME Trust, UNCHANGED program, UpdateCycle
    PROVE  Kept
<1>1. PICK k \in 1..Len(stack) :
          /\ stack[k].at = "await"
          /\ stack' = Append(SubSeq(stack, 1, k - 1),
                             [stack[k] EXCEPT !.at = "body", !.trace = Append(@, ERRORED)])
  BY DEF UpdateCycle
<1>2. Busy /\ UNCHANGED <<nodeVars, edgeVars, epoch, hasRun, destroyed>>
  BY DEF UpdateCycle, Updating, watchVars
<1>3. stack \in Seq(Frame) /\ Len(stack) \in Nat \ {0} BY <1>2, TopIs
<1>4. GoodFrame(stack[k], program, destroyed) /\ PollOK(stack[k]) /\ BodyOK(stack[k])
  BY DEF Trust, IInv, GoodStack, Stacked, Frames
<1> DEFINE h == [stack[k] EXCEPT !.at = "body", !.trace = Append(@, ERRORED)]
<1>5. h.at = "body" /\ h.node = stack[k].node BY <1>4 DEF GoodFrame, Frame
<1>6. stack' = Append(SubSeq(stack, 1, k - 1), h) BY <1>1
<1> HIDE DEF h
<1>7. PICK f : f = h OBVIOUS
<1>8. k \in Nat /\ k - 1 \in 0..(Len(stack) - 1) /\ (k - 1) + 1 = k BY <1>3
<1>9. /\ Len(stack') = k /\ stack'[k] = f
      /\ \A j \in 1..(k - 1) : stack'[j] = stack[j] /\ j \in 1..(Len(stack) - 1) /\ j # k
  BY <1>3, <1>6, <1>7, <1>8
<1>10. \A w : InRun(w) => InRun(w)'
  <2>1. stack'[1].node = stack[1].node
    <3>1. CASE k = 1 BY <1>5, <1>7, <1>9, <3>1
    <3>2. CASE k # 1
      <4>1. 1 \in 1..(k - 1) BY <1>8, <3>2
      <4> QED BY <1>9, <4>1
    <3> QED BY <3>1, <3>2
  <2>2. Len(stack') # Len(<<>>) BY <1>8, <1>9
  <2>3. Busy' BY <2>2 DEF Busy
  <2> QED BY <2>1, <2>3 DEF InRun
<1>11. Epochs' /\ Trusting' /\ Grow /\ Good' = Good /\ \A x : Calm(x)
  BY <1>2, <1>10, SameData
<1>12. PollOK(f)' /\ ArrivedAt(f)' BY <1>5, <1>7 DEF PollOK, ArrivedAt
<1>13. BodyOK(f)'
  <2>1. PICK g : g = stack[k] OBVIOUS
  <2>2. g.node \in Consumer BY <1>1, <1>4, <2>1 DEF GoodFrame
  <2>3. BodyOK(g)' BY <1>4, <1>11, <2>1, <2>2, FrameKept
  <2> QED BY <1>1, <1>5, <1>7, <2>1, <2>3 DEF BodyOK
<1>14. ASSUME NEW j \in 1..(k - 1), stack[j].node = f.node, f.node \in Computed PROVE FALSE
  <2>1. j \in 1..Len(stack) /\ j \in 1..(Len(stack) - 1) /\ j # k BY <1>3, <1>9
  <2>2. stack[j].at = "update" BY <1>1, <1>5, <1>7, <1>14, <2>1 DEF Trust, Stacked, Apart
  <2> QED BY <2>1, <2>2, BelowTop
<1> DEFINE n == k - 1
<1>15. /\ n \in 0..(Len(stack) - 1) /\ n + 1 = k BY <1>8
<1>16. f.node = stack[n + 1].node /\ Len(stack') = n + 1 /\ stack'[n + 1] = f
  BY <1>5, <1>7, <1>9, <1>15
<1>17. \A j \in 1..n : stack[j].at = "polled"
                         => version'[stack[j + 1].node] = version[stack[j + 1].node]
  BY <1>2 DEF nodeVars
<1>18. \A j \in 1..n : stack'[j] = stack[j] /\ Calm(stack[j]) BY <1>9, <1>11
<1>19. \A j \in 1..n : stack[j].node = f.node /\ f.node \in Computed
                         => stack[j].at # "await" /\ f.at \notin {"body", "await"}
  BY <1>14
<1> HIDE DEF n
<1>20. Stacked' BY <1>11, <1>12, <1>13, <1>15, <1>16, <1>17, <1>18, <1>19, Put
<1> QED BY <1>11, <1>20 DEF Kept

-----------------------------------------------------------------------------
(* Polling the producers.                                                  *)

LEMMA PollChangedTrust ==
    ASSUME Trust, UNCHANGED program, PollChanged
    PROVE  Kept /\ Top.node \in Consumer \ Good
<1> DEFINE x == Top.node
<1>1. /\ Busy /\ Top.at \in {"poll", "polled"} /\ Top.i \in 1..Len(deps[x])
      /\ deps[x][Top.i].seen # version[deps[x][Top.i].node] /\ StartBody(x)
      /\ UNCHANGED <<version, lastCleanEpoch, dirty, epoch, watchVars>>
  BY DEF PollChanged, Polling, InRange, Mismatch, Polled
<1>2. x \in Consumer
  <2>1. x \in Node BY TopIs, <1>1 DEF Frame
  <2>2. x \notin Signal BY <1>1 DEF Trust, IInv, SignalsPlain
  <2> QED BY <2>1, <2>2 DEF Node, Consumer
<1>3. ~Fine(deps[x][Top.i]) BY <1>1 DEF Fine, Trusts
<1>4. x \notin Good BY <1>1, <1>3, GoodFacts
<1>5. PollOK(Top) BY <1>1, TopIs
<1>6. ASSUME NEW k \in 1..(Len(stack) - 1), stack[k].node = x PROVE FALSE
  <2>0. /\ Len(stack) \in Nat \ {0} /\ Top = stack[Len(stack)]
        /\ Len(stack) # 1 /\ x \in Node
    BY <1>1, <1>6, TopIs DEF Frame
  <2>1. x \in Computed BY <1>1, <1>2, <2>0, TopIs DEF Consumer
  <2>2. /\ stack[k].at \in {"polled", "await"} /\ PollOK(stack[k])
        /\ Calls(stack[k], stack[k + 1]) /\ k + 1 \in 1..Len(stack)
    BY BelowTop
  <2>3. stack[k].at # "await"
    BY <1>1, <1>5, <1>6, <2>1, AwaitingBelow DEF PollOK
  <2>4. PICK m \in 1..Len(deps[x]) :
          /\ m = stack[k].i /\ stack[k + 1].node = deps[x][m].node
          /\ deps[x][m].seen = version[deps[x][m].node]
    BY <1>6, <2>2, <2>3 DEF Calls
  <2>5. \A j \in 1..Len(deps[x]) : j < m => Fine(deps[x][j])
    BY <1>6, <2>2, <2>3, <2>4 DEF PollOK
  <2>6. ~(Top.i < m) /\ Top.i # m BY <1>1, <1>3, <2>4, <2>5
  <2>7. Len(deps[x]) \in Nat BY <2>0, Types
  <2>8. m < Top.i BY <1>1, <2>4, <2>6, <2>7
  <2>9. Fine(deps[x][m]) BY <1>1, <1>5, <2>8 DEF PollOK
  <2>10. stack[k + 1].node \in Signal \cup Good BY <2>4, <2>9 DEF Fine, Trusts
  <2>11. CASE stack[k + 1].node \in Good
    <3>1. Len(stack) \in (k + 1)..Len(stack) BY <2>0, <2>2
    <3>2. x \in Signal \cup Good BY <2>0, <2>2, <2>11, <3>1, AboveGood
    <3> QED BY <1>4, <2>1, <3>2, NodesDisjoint
  <2>12. CASE stack[k + 1].node \in Signal
    <3>1. k + 1 # Len(stack) BY <2>0, <2>1, <2>12, NodesDisjoint
    <3>2. k + 1 \in 1..(Len(stack) - 1) BY <2>0, <2>2, <3>1
    <3>3. stack[k + 1].node \in Consumer BY <3>2, BelowTop
    <3> QED BY <2>12, <3>3, NodesDisjoint DEF Consumer
  <2> QED BY <2>10, <2>11, <2>12
<1>7. Kept BY <1>1, <1>2, <1>4, <1>6, StartKeeps
<1> QED BY <1>2, <1>4, <1>7

LEMMA PollProducerTrust ==
    ASSUME Trust, UNCHANGED program, PollProducer
    PROVE  Kept
<1> DEFINE f == [Top EXCEPT !.at = "polled"]
           g == Call(Polled.node)
<1>1. /\ Busy /\ Top.at = "poll" /\ Top.i \in 1..Len(deps[Top.node])
      /\ Polled.seen = version[Polled.node] /\ stack' = Append(SetTop(f), g)
      /\ UNCHANGED <<nodeVars, edgeVars, epoch, hasRun, destroyed>>
  BY DEF PollProducer, Polling, InRange, Mismatch, watchVars
<1>2. f.at = "polled" /\ f.i = Top.i /\ f.node = Top.node BY <1>1, TopIs DEF Frame
<1>3. g.at = "update" /\ g.node = Polled.node BY DEF Call
<1> HIDE DEF f, g
<1>4. Epochs' /\ Trusting' BY <1>1, <1>2, PushIs, SameData
<1>5. Calls(f, g) BY <1>1, <1>2, <1>3 DEF Calls, Polled
<1>6. PollOK(f) /\ BodyOK(f) BY <1>1, <1>2, TopIs DEF PollOK, BodyOK
<1>7. Stacked' BY <1>1, <1>2, <1>3, <1>5, <1>6, PushTop
<1> QED BY <1>4, <1>7 DEF Kept

LEMMA PollNextTrust ==
    ASSUME Trust, UNCHANGED program, PollNext
    PROVE  Kept
<1> DEFINE f == [Top EXCEPT !.at = "poll", !.i = @ + 1]
           x == Top.node
<1>1. /\ Busy /\ Top.at = "polled" /\ Top.i \in 1..Len(deps[x])
      /\ deps[x][Top.i].seen = version[deps[x][Top.i].node] /\ stack' = SetTop(f)
      /\ UNCHANGED <<nodeVars, edgeVars, epoch, watchVars>>
  BY DEF PollNext, Polling, InRange, Mismatch, Polled
<1>2. f.at = "poll" /\ f.i = Top.i + 1 /\ f.node = x BY <1>1, TopIs DEF Frame
<1> HIDE DEF f
<1>3. Top.i \in Nat /\ x \in Node BY <1>1, TopIs DEF Frame
<1>4. deps[x][Top.i].node \in Signal \cup Good BY <1>1, TopIs DEF ArrivedAt
<1>5. Fine(deps[x][Top.i])
  <2>1. Good \subseteq Computed BY GoodIs DEF Good
  <2> QED BY <1>1, <1>4, <2>1, NodesDisjoint DEF Fine, Trusts, Node
<1>6. PollOK(Top) BY <1>1, TopIs
<1>7. PollOK(f)
  <2>1. \A j \in 1..Len(deps[x]) : j < Top.i + 1 => j < Top.i \/ j = Top.i
    BY <1>3
  <2>2. \A j \in 1..Len(deps[x]) : j < Top.i + 1 => Fine(deps[x][j])
    BY <1>1, <1>5, <1>6, <2>1 DEF PollOK
  <2> QED BY <1>1, <1>2, <1>3, <1>6, <2>2 DEF PollOK
<1> QED BY <1>1, <1>2, <1>7, PollOn

LEMMA PollUnchangedTrust ==
    ASSUME Trust, UNCHANGED program, PollUnchanged
    PROVE  Kept
<1>0. PICK n : n = Top.node OBVIOUS
<1>1. /\ Busy /\ Top.at \in {"poll", "polled"} /\ Top.i \notin 1..Len(deps[n])
      /\ dirty' = IF n \in Watch THEN dirty ELSE [dirty EXCEPT ![n] = FALSE]
      /\ lastCleanEpoch' = IF n \in Watch THEN lastCleanEpoch
                           ELSE [lastCleanEpoch EXCEPT ![n] = epoch]
      /\ stack' = Pop
      /\ UNCHANGED <<value, version, edgeVars, epoch, watchVars>>
  BY <1>0 DEF PollUnchanged, Polling, InRange
<1>2. n \in Node /\ Top.i \in Nat /\ PollOK(Top) BY <1>0, <1>1, TopIs DEF Frame
<1>3. FirstFine(n, Len(deps[n]))
  <2>1. \A j \in 1..Len(deps[n]) : j < Top.i BY <1>0, <1>1, <1>2, Types DEF PollOK
  <2> QED BY <1>0, <1>1, <1>2, <2>1 DEF PollOK, FirstFine
<1>4. CASE n \in Watch
  <2>1. UNCHANGED <<nodeVars, edgeVars, epoch, hasRun, destroyed>>
    BY <1>1, <1>4 DEF nodeVars, watchVars
  <2>2. Len(stack) = 1 /\ stack' = <<>> BY <1>0, <1>1, <1>4, TopIs, PopIs
  <2>3. Epochs' /\ Trusting' BY <1>0, <1>1, <1>3, <2>1, PopIs, SameData
  <2> QED BY <2>2, <2>3, NoStack DEF Kept
<1>5. CASE n \notin Watch
  <2>1. /\ ~dirty'[n] /\ lastCleanEpoch'[n] = epoch
        /\ \A x \in Node : x # n => dirty'[x] = dirty[x] /\ lastCleanEpoch'[x] = lastCleanEpoch[x]
        /\ dirty'[n] = FALSE
    BY <1>1, <1>2, <1>5, Types
  <2>2. UNCHANGED <<value, version, deps, nextIndex, epoch, hasRun, destroyed>>
    BY <1>1 DEF edgeVars, watchVars
  <2>3. ASSUME NEW x \in Good PROVE dirty'[x] = dirty[x]
    <3>1. x \in Node /\ ~dirty[x] BY GoodFacts DEF Node
    <3>2. dirty[x] = FALSE BY <3>1, Types
    <3> QED BY <2>1, <3>1, <3>2
  <2>4. Grow BY <2>2, <2>3, GoodKept
  <2>5. n \in Computed => n \in Good'
    <3>1. \A j \in 1..Len(deps'[n]) : Fine(deps[n][j])'
      BY <1>3, <2>2, <2>4, FirstFineKept DEF FirstFine
    <3>2. n \in Computed => value'[n] \notin {UNSET, COMPUTING} BY <1>0, <1>1, <1>2, <2>2 DEF PollOK
    <3> QED BY <2>1, <3>1, <3>2, GoodGains
  <2>6. Epochs'
    <3>0. epoch \in Nat /\ \A x \in Node : lastCleanEpoch[x] <= epoch BY Types DEF Epochs
    <3>1. \A x \in Node : lastCleanEpoch'[x] <= epoch BY <2>1, <3>0
    <3>2. \A c \in Computed : dirty'[c] => lastCleanEpoch'[c] < epoch
      BY <2>1, Types DEF Epochs, Node
    <3> QED BY <2>2, <3>1, <3>2 DEF Epochs
  <2>7. \A x \in Consumer : DepNodes(x)' \subseteq DepNodes(x) BY <2>2 DEF DepNodes
  <2>8. ASSUME NEW c \in Computed, UpToDate(c)' PROVE c \in Good'
    <3>1. CASE c = n BY <2>5, <3>1
    <3>2. CASE c # n
      <4>1. dirty'[c] = dirty[c] /\ lastCleanEpoch'[c] = lastCleanEpoch[c]
        BY <2>1, <3>2 DEF Node
      <4>2. c \in Good BY <2>2, <2>7, <2>8, <4>1, LiveShrinks, UpToDateKept, Types
      <4> QED BY <2>4, <4>2 DEF Grow
    <3> QED BY <3>1, <3>2
  <2>9. ASSUME NEW w \in (hasRun \ destroyed)', ~dirty'[w], ~InRun(w)'
        PROVE  FirstFine(w, Len(deps[w]))'
    <3>1. w \in Node /\ w # n /\ w \in hasRun \ destroyed
      BY <1>5, <2>2, Types DEF Node
    <3>2. FirstFine(w, Len(deps[w]))
      BY <1>0, <1>1, <2>1, <2>9, <3>1, Types, PopIs DEF Trusting
    <3> QED BY <2>2, <2>4, <3>2, FirstFineKept
  <2>10. Trusting' BY <2>8, <2>9 DEF Trusting
  <2>11. ASSUME NEW k \in 1..(Len(stack) - 1) PROVE Calm(stack[k])
    <3>1. stack[k].node \in Node BY BelowTop DEF Consumer, Node
    <3> QED BY <1>5, <2>1, <2>2, <3>1 DEF Calm
  <2>12. n \in Signal \cup Good' BY <1>2, <1>5, <2>5 DEF Node
  <2>13. Stacked' BY <1>0, <1>1, <2>2, <2>4, <2>11, <2>12, PopTop
  <2> QED BY <2>6, <2>10, <2>13 DEF Kept
<1> QED BY <1>4, <1>5

-----------------------------------------------------------------------------
(* User code.                                                              *)

\* The frame of user code that is done with an operation, when nothing that
\* the frames tell of has changed.
LEMMA ResumeKeeps ==
    ASSUME Trust, Busy, Top.at \in {"body", "await"}, NEW r, stack' = Resume(r),
           UNCHANGED <<program, nodeVars, edgeVars, epoch, hasRun, destroyed>>
    PROVE  Kept
<1>1. PICK f : /\ f.at = "body" /\ f.node = Top.node /\ stack' = SetTop(f)
               /\ \A w : InRun(w)' <=> InRun(w)
  BY ResumeIs
<1>2. Epochs' /\ Trusting' /\ Grow /\ Good' = Good /\ \A h : Calm(h)
  BY <1>1, SameData
<1>3. PollOK(f)' /\ ArrivedAt(f)' BY <1>1 DEF PollOK, ArrivedAt
<1>4. BodyOK(f)'
  BY <1>1, <1>2, TopIs DEF BodyOK, FirstFine, Fine, nodeVars, edgeVars
<1>5. \A k \in 1..(Len(stack) - 1) : ~(stack[k].node = f.node /\ f.node \in Computed)
  BY <1>1, TopIs
<1>6. Stacked' BY <1>1, <1>2, <1>3, <1>4, <1>5, PutTop DEF nodeVars
<1> QED BY <1>2, <1>6 DEF Kept

\* Who runs is not good, and is nowhere else in the stack.
LEMMA Runner ==
    ASSUME Trust, Busy, Top.at \in {"body", "await"}
    PROVE  /\ Top.node \in Consumer \ Good /\ Top.node \in Node
           /\ Top.node \in Computed => value[Top.node] = COMPUTING
           /\ \A k \in 1..(Len(stack) - 1) : /\ stack[k].node # Top.node
                                             /\ stack[k].node \in Node
<1>1. Top.node \in Consumer BY TopIs DEF GoodFrame
<1>2. Top.node \in Computed => value[Top.node] = COMPUTING BY TopIs DEF BodyOK
<1>3. Top.node \notin Good BY <1>2, GoodFacts
<1>4. ASSUME NEW k \in 1..(Len(stack) - 1)
      PROVE  stack[k].node # Top.node /\ stack[k].node \in Node
  <2>1. stack[k].node \in Node BY BelowTop DEF Consumer, Node
  <2>2. CASE Top.node \in Computed BY <2>1, <2>2, TopIs
  <2>3. CASE Top.node \in Watch
    <3>1. Len(stack) = 1 BY <2>3, TopIs
    <3> QED BY <3>1
  <2> QED BY <1>1, <2>1, <2>2, <2>3 DEF Consumer
<1> QED BY <1>1, <1>2, <1>3, <1>4 DEF Consumer, Node

\* producerAccessed adds p to what is fine.
LEMMA AccessIs ==
    ASSUME Trust, NEW c \in Consumer, NEW p \in Signal \cup Good, Access(c, p)
    PROVE  /\ \A n \in Node : n # c => deps'[n] = deps[n] /\ nextIndex'[n] = nextIndex[n]
           /\ DepNodes(c)' \subseteq DepNodes(c) \cup {p, NoNode}
           /\ nextIndex'[c] = nextIndex[c] + 1
           /\ deps'[c][nextIndex[c] + 1] = [node |-> p, seen |-> version[p]]
           /\ \A j \in 1..nextIndex[c] : j <= Len(deps[c]) => deps'[c][j] = deps[c][j]
<1> DEFINE idx == nextIndex[c] + 1
           len == IF idx > Len(deps[c]) THEN idx ELSE Len(deps[c])
           hole == [node |-> NoNode, seen |-> 0]
           item(j) == IF j = idx THEN [node |-> p, seen |-> version[p]]
                      ELSE IF j \in 1..Len(deps[c]) THEN deps[c][j] ELSE hole
           list == [j \in 1..len |-> item(j)]
<1>1. deps' = [deps EXCEPT ![c] = list] /\ nextIndex' = [nextIndex EXCEPT ![c] = idx]
  BY DEF Access
<1>2. c \in Node /\ nextIndex[c] \in Nat /\ Len(deps[c]) \in Nat BY Types DEF Consumer, Node
<1>3. idx \in Nat /\ len \in Nat /\ idx \in 1..len /\ \A j \in 1..nextIndex[c] : j \in 1..len
  BY <1>2
<1>4. \A j \in 1..len : list[j] = item(j) OBVIOUS
<1>5. \A j \in 1..len : item(j).node \in DepNodes(c) \cup {p, NoNode}
  BY DEF DepNodes
<1>6. item(idx) = [node |-> p, seen |-> version[p]] OBVIOUS
<1>7. \A j \in 1..nextIndex[c] : j <= Len(deps[c]) => item(j) = deps[c][j]
  BY <1>2
<1>8. Len(list) = len BY <1>3
<1>9. PICK l : l = list OBVIOUS
<1>10. deps'[c] = l /\ nextIndex'[c] = idx
       /\ \A n \in Node : n # c => deps'[n] = deps[n] /\ nextIndex'[n] = nextIndex[n]
  BY <1>1, <1>2, <1>9, Types
<1> HIDE DEF list, item
<1>11. DepNodes(c)' \subseteq DepNodes(c) \cup {p, NoNode}
  BY <1>4, <1>5, <1>8, <1>9, <1>10 DEF DepNodes
<1> QED BY <1>3, <1>4, <1>6, <1>7, <1>9, <1>10, <1>11

LEMMA RecordKeeps ==
    ASSUME Trust, Busy, Top.at \in {"body", "await"}, NEW r, stack' = Resume(r),
           NEW p \in Signal \cup Good, Access(Top.node, p),
           UNCHANGED <<program, nodeVars, epoch, hasRun, destroyed>>
    PROVE  Kept
<1> USE DEF nodeVars
<1>1. PICK f : /\ f.at = "body" /\ f.node = Top.node /\ stack' = SetTop(f)
               /\ \A w : InRun(w)' <=> InRun(w)
               /\ Len(stack') = Len(stack) /\ stack'[Len(stack)] = f
  BY ResumeIs
<1>2. PICK c \in Consumer \ Good : c = Top.node BY Runner
<1>3. c \in Node /\ c \notin Good BY <1>2, Runner
<1>4. /\ \A n \in Node : n # c => deps'[n] = deps[n] /\ nextIndex'[n] = nextIndex[n]
      /\ DepNodes(c)' \subseteq DepNodes(c) \cup {p, NoNode}
      /\ nextIndex'[c] = nextIndex[c] + 1
      /\ deps'[c][nextIndex[c] + 1] = [node |-> p, seen |-> version[p]]
      /\ \A j \in 1..nextIndex[c] : j <= Len(deps[c]) => deps'[c][j] = deps[c][j]
  BY <1>2, AccessIs
<1>5. Good \subseteq Computed BY GoodIs DEF Good
<1>6. Grow
  <2>1. \A x \in Good : x \in Node /\ x # c BY <1>3, <1>5 DEF Node
  <2> QED BY <1>4, <2>1, GoodKept
<1>7. Epochs' BY Types DEF Epochs
<1>8. \A x \in Consumer : x # c => DepNodes(x)' = DepNodes(x)
  BY <1>4 DEF DepNodes, Consumer, Node
<1>9. \A n \in Computed : UpToDate(n)' => n \in Good'
  BY <1>4, <1>6, <1>8, LiveGrows, UpToDateKept, Types DEF Grow
<1>10. ASSUME NEW w \in (hasRun \ destroyed)', ~dirty'[w], ~InRun(w)'
       PROVE  FirstFine(w, Len(deps[w]))'
  <2>1. w \in Node /\ w \in hasRun \ destroyed /\ w \in Watch BY Types, <1>10 DEF Node
  <2>2. w # c
    <3>1. c \in Watch => Len(stack) = 1 /\ Top = stack[Len(stack)] BY <1>2, TopIs
    <3>2. c \in Watch => InRun(c) BY <1>2, <3>1 DEF InRun
    <3> QED BY <1>1, <1>10, <2>1, <3>2
  <2>3. FirstFine(w, Len(deps[w])) BY <1>1, <1>10, <2>1, Types DEF Trusting
  <2> QED BY <1>4, <1>6, <2>1, <2>2, <2>3, FirstFineKept
<1>11. Trusting' BY <1>9, <1>10 DEF Trusting
<1>12. \A k \in 1..(Len(stack) - 1) : Calm(stack[k])
  BY <1>2, <1>4, Runner DEF Calm
<1>13. PollOK(f)' /\ ArrivedAt(f)' BY <1>1 DEF PollOK, ArrivedAt
<1>14. BodyOK(f)'
  <2>1. c \in Computed => value'[c] = COMPUTING BY <1>2, Runner
  <2>2. ASSUME c \in Computed \/ (c \notin destroyed /\ ~dirty[c]),
               NEW j \in 1..(nextIndex[c] + 1)
        PROVE  Fine(deps[c][j])'
    <3>1. FirstFine(c, nextIndex[c]) BY <1>2, <2>2, TopIs DEF BodyOK
    <3>2. c \notin destroyed BY <2>2, Types, NodesDisjoint
    <3>3. nextIndex[c] \in Nat /\ nextIndex[c] <= Len(deps[c]) /\ Len(deps[c]) \in Nat
      BY <1>3, <3>2, Types
    <3>4. CASE j = nextIndex[c] + 1
      <4>1. p # NoNode BY <1>5, NodesDisjoint DEF Node
      <4>2. Fine([node |-> p, seen |-> version[p]]) BY <4>1 DEF Fine, Trusts
      <4>3. Fine([node |-> p, seen |-> version[p]])' BY <1>5, <1>6, <4>1 DEF Fine, Trusts, Grow
      <4> QED BY <1>4, <3>4, <4>3 DEF Fine
    <3>5. CASE j # nextIndex[c] + 1
      <4>1. j \in 1..nextIndex[c] /\ j <= Len(deps[c]) BY <3>3, <3>5
      <4>2. deps'[c][j] = deps[c][j] BY <1>4, <4>1
      <4>3. PICK d : d = deps[c][j] OBVIOUS
      <4>4. Fine(d) BY <3>1, <4>1, <4>3 DEF FirstFine
      <4>5. Fine(d)' BY <1>6, <4>4, TrustsKept DEF Grow, Fine
      <4> QED BY <4>2, <4>3, <4>5 DEF Fine
    <3> QED BY <3>4, <3>5
  <2>3. c \in Computed \/ (c \notin destroyed' /\ ~dirty'[c]) => FirstFine(c, nextIndex[c])'
    BY <1>4, <2>2 DEF FirstFine
  <2> QED BY <1>1, <1>2, <2>1, <2>3 DEF BodyOK
<1>15. \A k \in 1..(Len(stack) - 1) : ~(stack[k].node = f.node /\ f.node \in Computed)
  BY <1>1, TopIs
<1>16. Stacked' BY <1>1, <1>6, <1>12, <1>13, <1>14, <1>15, PutTop
<1> QED BY <1>7, <1>11, <1>16 DEF Kept

LEMMA BodyReadTrust ==
    ASSUME Trust, UNCHANGED program,
           BodyReadSignal \/ BodyPeekSignal \/ BodyGotComputed \/ BodySetRefused
    PROVE  Kept
<1>1. /\ Busy /\ Top.at \in {"body", "await"}
      /\ UNCHANGED <<nodeVars, epoch, hasRun, destroyed>>
      /\ \E r : stack' = Resume(r)
  BY DEF BodyReadSignal, BodyPeekSignal, BodyGotComputed, BodySetRefused, Running, watchVars
<1>2. CASE BodyReadSignal
  BY <1>1, <1>2, RecordKeeps DEF BodyReadSignal
<1>3. CASE BodyPeekSignal \/ BodySetRefused
  <2>1. UNCHANGED edgeVars BY <1>3 DEF BodyPeekSignal, BodySetRefused
  <2> QED BY <1>1, <2>1, ResumeKeeps
<1>4. CASE BodyGotComputed
  <2>1. Top.at = "await" BY <1>4 DEF BodyGotComputed
  <2>2. Current.node \in Good BY <1>1, <2>1, TopIs DEF ArrivedAt, Current
  <2>3. Access(Top.node, Current.node) \/ UNCHANGED edgeVars BY <1>4 DEF BodyGotComputed
  <2> QED BY <1>1, <2>2, <2>3, ResumeKeeps, RecordKeeps
<1> QED BY <1>2, <1>3, <1>4

LEMMA BodyCallTrust ==
    ASSUME Trust, UNCHANGED program, BodyCallComputed
    PROVE  Kept
<1> DEFINE f == [Top EXCEPT !.at = "await"]
           g == Call(Current.node)
<1>1. /\ Busy /\ Top.at = "body" /\ Current.node \in Computed
      /\ stack' = Append(SetTop(f), g)
      /\ UNCHANGED <<nodeVars, edgeVars, epoch, hasRun, destroyed>>
  BY DEF BodyCallComputed, Running, watchVars
<1>2. f.at = "await" /\ f.trace = Top.trace /\ f.node = Top.node BY <1>1, TopIs DEF Frame
<1>3. g.at = "update" /\ g.node = Current.node BY DEF Call
<1> HIDE DEF f, g
<1>4. Epochs' /\ Trusting' BY <1>1, <1>2, PushIs, SameData
<1>5. Calls(f, g) BY <1>1, <1>2, <1>3 DEF Calls, Current
<1>6. PollOK(f) /\ BodyOK(f) BY <1>1, <1>2, TopIs DEF PollOK, BodyOK
<1>7. Stacked' BY <1>1, <1>2, <1>3, <1>5, <1>6, PushTop
<1> QED BY <1>4, <1>7 DEF Kept

\* Only a watch does anything but read: it is alone in the stack.
LEMMA EffectFrame ==
    ASSUME Trust, Busy, Top.at = "body", Top.node \in Watch, NEW r, stack' = Resume(r)
    PROVE  \E f : /\ f.at = "body" /\ f.node = Top.node
                  /\ Len(stack') = 1 /\ stack'[1] = f
                  /\ \A w : InRun(w)' <=> InRun(w)
                  /\ InRun(Top.node)
<1>1. Len(stack) = 1 /\ Top = stack[Len(stack)] BY TopIs
<1> QED BY <1>1, ResumeIs DEF InRun

LEMMA BodySetTrust ==
    ASSUME Trust, UNCHANGED program, BodySet
    PROVE  Kept
<1>1. /\ Busy /\ Top.at = "body" /\ Current.op = "set" /\ stack' = Resume(DONE)
      /\ Top.node \in AllowWrites[program] /\ SetSignal(Current.node, Current.val)
      /\ UNCHANGED <<edgeVars, hasRun, destroyed>>
  BY DEF BodySet, Running
<1>2. IInv /\ program \in Program BY DEF Trust, IInv, TypeOK
<1>3. Current.node \in Signal /\ Current.val \in Value BY <1>1, <1>2, CurrentGood, OpCases
<1>4. PICK w \in Watch : w = Top.node BY <1>1, <1>2, BodyAssumption
<1>5. PICK f : /\ f.at = "body" /\ f.node = w /\ Len(stack') = 1 /\ stack'[1] = f
               /\ \A x : InRun(x)' <=> InRun(x)
  BY <1>1, <1>4, EffectFrame
<1>6. /\ Epochs' /\ \A c \in Computed : UpToDate(c)' => c \in Good'
      /\ \A x \in Watch, k \in Nat :
            k <= Len(deps[x]) /\ ~dirty'[x] => /\ ~dirty[x]
                                               /\ FirstFine(x, k) => FirstFine(x, k)'
  BY <1>1, <1>3, SetKeeps
<1>7. ASSUME NEW x \in hasRun \ destroyed, ~dirty'[x], ~InRun(x)
      PROVE FirstFine(x, Len(deps[x]))'
  <2>1. x \in Watch /\ x \in Node /\ Len(deps[x]) \in Nat BY Types DEF Node
  <2>2. ~dirty[x] BY <1>6, <1>7, <2>1
  <2>3. FirstFine(x, Len(deps[x])) BY <1>7, <2>2, Types DEF Trusting
  <2>4. PICK k \in Nat : k = Len(deps[x]) BY <2>1
  <2>5. FirstFine(x, k)' BY <1>6, <1>7, <2>1, <2>3, <2>4
  <2> QED BY <1>1, <2>4, <2>5 DEF edgeVars, FirstFine
<1>8. Trusting' BY <1>1, <1>5, <1>6, <1>7 DEF Trusting
<1>9. PollOK(f)' BY <1>5 DEF PollOK
<1>10. BodyOK(f)'
  <2>1. w \notin Computed /\ w \in Node BY NodesDisjoint DEF Node
  <2>2. ASSUME w \notin destroyed, ~dirty'[w] PROVE FirstFine(w, nextIndex[w])'
    <3>1. PICK k \in Nat : k = nextIndex[w] BY <2>1, Types
    <3>2. k <= Len(deps[w]) BY <2>1, <2>2, <3>1, Types
    <3>3. ~dirty[w] BY <1>6, <2>2, <3>2
    <3>4. FirstFine(w, k) BY <1>1, <1>4, <2>2, <3>1, <3>3, TopIs DEF BodyOK
    <3>5. FirstFine(w, k)' BY <1>6, <2>2, <3>2, <3>4
    <3> QED BY <1>1, <3>1, <3>5 DEF edgeVars, FirstFine
  <2> QED BY <1>1, <1>5, <2>1, <2>2 DEF BodyOK
<1>11. Stacked' BY <1>5, <1>9, <1>10, Start
<1> QED BY <1>6, <1>8, <1>11 DEF Kept

LEMMA BodyDestroyTrust ==
    ASSUME Trust, UNCHANGED program, BodyDestroy
    PROVE  Kept
<1>1. /\ Busy /\ Top.at = "body" /\ Current.op = "destroy" /\ stack' = Resume(DONE)
      /\ DestroyWatch(Current.node)
      /\ UNCHANGED <<nodeVars, nextIndex, epoch, hasRun>>
  BY DEF BodyDestroy, Running
<1>2. Current.node \in Watch /\ Top.node \in Watch
  BY <1>1, CurrentGood, OpCases DEF Trust, Consumer
<1>3. PICK w \in Watch : w = Top.node BY <1>2
<1>4. PICK f : /\ f.at = "body" /\ f.node = w /\ Len(stack') = 1 /\ stack'[1] = f
               /\ \A x : InRun(x)' <=> InRun(x)
  BY <1>1, <1>3, EffectFrame
<1>5. Epochs' /\ Trusting' /\ Grow BY <1>1, <1>2, <1>4, DestroyKeeps
<1>6. PollOK(f)' BY <1>4 DEF PollOK
<1>7. BodyOK(f)'
  <2>1. w \notin Computed /\ w \in Node BY NodesDisjoint DEF Node
  <2>2. ASSUME w \notin destroyed', ~dirty'[w] PROVE FirstFine(w, nextIndex[w])'
    <3>1. w \notin destroyed /\ w # Current.node BY <1>1, <2>2 DEF DestroyWatch
    <3>2. deps'[w] = deps[w] BY <1>1, <1>2, <2>1, <3>1, Types DEF DestroyWatch, Node
    <3>3. ~dirty[w] BY <1>1, <2>2 DEF nodeVars
    <3>4. FirstFine(w, nextIndex[w]) BY <1>1, <1>3, <3>1, <3>3, TopIs DEF BodyOK
    <3>5. FirstFine(w, nextIndex[w])' BY <1>1, <1>5, <3>2, <3>4, FirstFineKept DEF FirstFine
    <3> QED BY <3>5
  <2> QED BY <1>4, <2>1, <2>2 DEF BodyOK
<1>8. Stacked' BY <1>4, <1>6, <1>7, Start
<1> QED BY <1>5, <1>8 DEF Kept

\* consumerAfterComputation: what was read in this run is what is left.
LEMMA TruncateIs ==
    ASSUME Trust, NEW c \in Consumer, Truncate(c)
    PROVE  /\ \A n \in Node : n # c => deps'[n] = deps[n]
           /\ \A x \in Consumer : DepNodes(x)' \subseteq DepNodes(x)
           /\ c \notin destroyed =>
                \A j \in 1..Len(deps'[c]) : j \in 1..nextIndex[c] /\ deps'[c][j] = deps[c][j]
<1> DEFINE list == IF Len(deps[c]) > nextIndex[c]
                   THEN SubSeq(deps[c], 1, nextIndex[c]) ELSE deps[c]
<1>1. deps' = [deps EXCEPT ![c] = list] BY DEF Truncate
<1>2. /\ c \in Node /\ nextIndex[c] \in Nat /\ deps[c] \in Seq(Dep) /\ Len(deps[c]) \in Nat
      /\ c \notin destroyed => nextIndex[c] <= Len(deps[c])
  BY Types DEF Consumer, Node
<1>3. \A j \in 1..Len(list) : j \in 1..Len(deps[c]) /\ list[j] = deps[c][j]
  BY <1>2
<1>4. c \notin destroyed => \A j \in 1..Len(list) : j \in 1..nextIndex[c]
  BY <1>2
<1> HIDE DEF list
<1>5. deps'[c] = list /\ \A n \in Node : n # c => deps'[n] = deps[n] BY <1>1, <1>2, Types
<1>6. DepNodes(c)' \subseteq DepNodes(c) BY <1>3, <1>5 DEF DepNodes
<1>7. \A x \in Consumer : x # c => DepNodes(x)' = DepNodes(x)
  BY <1>5 DEF DepNodes, Consumer, Node
<1> QED BY <1>3, <1>4, <1>5, <1>6, <1>7

LEMMA FinishComputedTrust ==
    ASSUME Trust, UNCHANGED program, FinishComputed
    PROVE  Kept
<1>0. PICK c : c = Top.node OBVIOUS
<1>1. /\ Busy /\ Top.at = "body" /\ Current.op = "return" /\ c \in Computed
      /\ value' = [value EXCEPT ![c] = Current.val]
      /\ version' = version \/ version' = [version EXCEPT ![c] = @ + 1]
      /\ dirty' = [dirty EXCEPT ![c] = FALSE]
      /\ lastCleanEpoch' = [lastCleanEpoch EXCEPT ![c] = epoch]
      /\ Truncate(c) /\ stack' = Pop
      /\ UNCHANGED <<nextIndex, epoch, hasRun, destroyed>>
  BY <1>0 DEF FinishComputed, Running, watchVars
<1>2. /\ c \in Consumer \ Good /\ c \in Node /\ c \notin Watch /\ c \notin destroyed
      /\ \A k \in 1..(Len(stack) - 1) : stack[k].node # c /\ stack[k].node \in Node
  BY <1>0, <1>1, Runner, Types, NodesDisjoint
<1>3. Current.val \notin {UNSET, COMPUTING}
  <2>1. Current.val \in Outcome BY <1>1, CurrentGood, OpCases DEF Trust
  <2> QED BY <2>1, ValuesDistinct DEF Outcome
<1>4. /\ value'[c] = Current.val /\ ~dirty'[c] /\ lastCleanEpoch'[c] = epoch
      /\ \A n \in Node : n # c => /\ value'[n] = value[n] /\ version'[n] = version[n]
                                  /\ dirty'[n] = dirty[n]
                                  /\ lastCleanEpoch'[n] = lastCleanEpoch[n]
  BY <1>1, <1>2, Types
<1>5. /\ \A n \in Node : n # c => deps'[n] = deps[n]
      /\ \A x \in Consumer : DepNodes(x)' \subseteq DepNodes(x)
      /\ \A j \in 1..Len(deps'[c]) : j \in 1..nextIndex[c] /\ deps'[c][j] = deps[c][j]
  BY <1>1, <1>2, TruncateIs
<1>6. Grow
  <2>1. Good \subseteq Computed BY GoodIs DEF Good
  <2>2. \A x \in Signal \cup Good : x \in Node /\ x # c
    BY <1>1, <1>2, <2>1, NodesDisjoint DEF Node
  <2> QED BY <1>4, <1>5, <2>2, GoodKept
<1>7. c \in Good'
  <2>1. FirstFine(c, nextIndex[c]) BY <1>0, <1>1, TopIs DEF BodyOK
  <2>2. ASSUME NEW j \in 1..Len(deps'[c]) PROVE Fine(deps[c][j])'
    <3>1. PICK d : d = deps[c][j] OBVIOUS
    <3>2. Fine(d) /\ deps'[c][j] = d BY <1>5, <2>1, <3>1 DEF FirstFine
    <3>3. Fine(d)' BY <1>6, <3>2, TrustsKept DEF Grow, Fine
    <3> QED BY <3>2, <3>3 DEF Fine
  <2> QED BY <1>1, <1>3, <1>4, <2>2, GoodGains
<1>8. Epochs'
  <2>0. epoch \in Nat /\ \A x \in Node : lastCleanEpoch[x] <= epoch BY Types DEF Epochs
  <2>1. \A x \in Node : lastCleanEpoch'[x] <= epoch BY <1>4, <2>0
  <2>2. \A x \in Computed : dirty'[x] => lastCleanEpoch'[x] < epoch
    BY <1>4, Types DEF Epochs, Node
  <2> QED BY <1>1, <2>1, <2>2 DEF Epochs
<1>9. ASSUME NEW x \in Computed, UpToDate(x)' PROVE x \in Good'
  <2>1. CASE x = c BY <1>7, <2>1
  <2>2. CASE x # c
    <3>1. dirty'[x] = dirty[x] /\ lastCleanEpoch'[x] = lastCleanEpoch[x]
      BY <1>4, <2>2 DEF Node
    <3>2. x \in Good BY <1>1, <1>5, <1>9, <3>1, LiveShrinks, UpToDateKept, Types
    <3> QED BY <1>6, <3>2 DEF Grow
  <2> QED BY <2>1, <2>2
<1>10. ASSUME NEW w \in (hasRun \ destroyed)', ~dirty'[w], ~InRun(w)'
       PROVE  FirstFine(w, Len(deps[w]))'
  <2>1. w \in Node /\ w # c /\ w \in hasRun \ destroyed BY <1>1, <1>2, Types DEF Node
  <2>2. FirstFine(w, Len(deps[w]))
    BY <1>0, <1>1, <1>4, <1>10, <2>1, Types, PopIs DEF Trusting
  <2> QED BY <1>5, <1>6, <2>1, <2>2, FirstFineKept
<1>11. Trusting' BY <1>9, <1>10 DEF Trusting
<1>12. \A k \in 1..(Len(stack) - 1) : Calm(stack[k])
  BY <1>1, <1>2, <1>4, <1>5 DEF Calm
<1>13. ASSUME NEW k \in 1..(Len(stack) - 2)
       PROVE  version'[stack[k + 1].node] = version[stack[k + 1].node]
  <2>1. Len(stack) \in Nat BY <1>1, TopIs
  <2>2. k + 1 \in 1..(Len(stack) - 1) BY <2>1
  <2> QED BY <1>2, <1>4, <2>2
<1>14. Stacked' BY <1>0, <1>1, <1>6, <1>7, <1>12, <1>13, PopTop
<1> QED BY <1>8, <1>11, <1>14 DEF Kept

LEMMA FinishWatchTrust ==
    ASSUME Trust, UNCHANGED program, FinishWatch \/ CleanupThrows
    PROVE  Kept
<1>0. PICK w : w = Top.node OBVIOUS
<1>1. /\ Busy /\ Top.at = "body" /\ w \in Watch /\ Truncate(w) /\ stack' = Pop
      /\ UNCHANGED <<nodeVars, nextIndex, epoch, hasRun, destroyed>>
  <2>1. FragileCleanup[program] \subseteq Watch
    BY BodyAssumption DEF Trust, IInv, TypeOK
  <2> QED BY <1>0, <2>1 DEF FinishWatch, CleanupThrows, Running, watchVars
<1>2. w \in Consumer /\ w \in Node /\ w \notin Computed
  BY <1>1, NodesDisjoint DEF Consumer, Node
<1>3. /\ \A n \in Node : n # w => deps'[n] = deps[n]
      /\ \A x \in Consumer : DepNodes(x)' \subseteq DepNodes(x)
      /\ w \notin destroyed =>
           \A j \in 1..Len(deps'[w]) : j \in 1..nextIndex[w] /\ deps'[w][j] = deps[w][j]
  BY <1>1, <1>2, TruncateIs
<1>4. Grow
  <2>1. Good \subseteq Computed BY GoodIs DEF Good
  <2>2. \A x \in Good : x \in Node /\ x # w BY <1>2, <2>1 DEF Node
  <2> QED BY <1>1, <1>3, <2>2, GoodKept DEF nodeVars
<1>5. Epochs' BY <1>1, Types DEF Epochs, nodeVars
<1>6. \A c \in Computed : UpToDate(c)' => c \in Good'
  BY <1>1, <1>3, <1>4, LiveShrinks, UpToDateKept, Types DEF Grow, nodeVars
<1>7. stack' = <<>> BY <1>0, <1>1, TopIs, PopIs
<1>8. ASSUME NEW x \in (hasRun \ destroyed)', ~dirty'[x]
      PROVE  FirstFine(x, Len(deps[x]))'
  <2>1. x \in Node /\ x \in Watch /\ x \in hasRun \ destroyed /\ ~dirty[x]
    BY <1>1, <1>8, Types DEF Node, nodeVars
  <2>2. CASE x = w
    <3>1. FirstFine(w, nextIndex[w]) BY <1>0, <1>1, <2>1, <2>2, TopIs DEF BodyOK
    <3>2. ASSUME NEW j \in 1..Len(deps'[w]) PROVE Fine(deps[w][j])'
      <4>1. PICK d : d = deps[w][j] OBVIOUS
      <4>2. Fine(d) /\ deps'[w][j] = d BY <1>3, <2>1, <2>2, <3>1, <4>1 DEF FirstFine
      <4>3. Fine(d)' BY <1>4, <4>2, TrustsKept DEF Grow, Fine
      <4> QED BY <4>2, <4>3 DEF Fine
    <3> QED BY <2>2, <3>2 DEF FirstFine
  <2>3. CASE x # w
    <3>1. ~InRun(x)
      <4>1. Len(stack) = 1 /\ Top = stack[Len(stack)] BY <1>0, <1>1, TopIs
      <4> QED BY <1>0, <2>3, <4>1 DEF InRun
    <3>2. FirstFine(x, Len(deps[x])) BY <2>1, <3>1, Types DEF Trusting
    <3> QED BY <1>3, <1>4, <2>1, <2>3, <3>2, FirstFineKept
  <2> QED BY <2>2, <2>3
<1>9. Trusting' BY <1>6, <1>8 DEF Trusting
<1> QED BY <1>5, <1>7, <1>9, NoStack DEF Kept

-----------------------------------------------------------------------------
(* Every step keeps Trust.                                                 *)

LEMMA ContinueTrust ==
    ASSUME Trust, Continue
    PROVE  Kept
BY UpdateSkipTrust, UpdatePollTrust, UpdateFirstTrust, UpdateCycleTrust,
   PollChangedTrust, PollProducerTrust, PollNextTrust, PollUnchangedTrust,
   BodyReadTrust, BodyCallTrust, BodySetTrust, BodyDestroyTrust,
   FinishComputedTrust, FinishWatchTrust DEF Continue

LEMMA StutterTrust ==
    ASSUME Trust, UNCHANGED vars
    PROVE  Kept
<1> USE DEF vars, nodeVars, edgeVars
<1>1. Epochs' /\ Trusting' /\ Good' = Good BY SameData DEF InRun, Busy
<1>2. Stacked'
  BY <1>1 DEF Trust, Stacked, Linked, Calls, Frames, PollOK, BodyOK, FirstFine, Fine, Apart,
              Arrived, ArrivedAt, Busy, Top
<1> QED BY <1>1, <1>2 DEF Kept

LEMMA InitTrust == Init => Trust
<1> SUFFICES ASSUME Init PROVE Trust OBVIOUS
<1>1. IInv BY InitIInv
<1>2. \A c \in Computed : c \in Node /\ dirty[c] BY DEF Init, Node
<1>3. Epochs BY <1>2 DEF Init, Epochs
<1>4. Trusting BY <1>2 DEF Init, Trusting, UpToDate
<1>5. Stacked BY DEF Init, Stacked, Linked, Frames, Apart, Arrived, Busy
<1> QED BY <1>1, <1>3, <1>4, <1>5 DEF Trust

LEMMA NextTrust == Trust /\ [Next]_vars => Trust'
<1> SUFFICES ASSUME Trust, [Next]_vars PROVE Trust' OBVIOUS
<1>1. IInv' BY NextIInv DEF Trust
<1>2. Kept BY ExternalTrust, ContinueTrust, StutterTrust DEF Next, Dispatch
<1> QED BY <1>1, <1>2 DEF Trust, Kept

LEMMA TrustIsCurrent == Trust => CleanIsCurrent
<1> SUFFICES ASSUME Trust, NEW n \in (Computed \cup hasRun) \ destroyed,
                    UpToDate(n), ~Open(n)
             PROVE  DeepCurrent(n)
  BY DEF CleanIsCurrent
<1>1. Good \subseteq Computed BY GoodIs DEF Good
<1>2. FirstFine(n, Len(deps[n]))
  <2>1. CASE n \in Computed
    <3>1. n \in Good BY <2>1, Types DEF Trusting
    <3> QED BY <3>1, GoodFacts DEF FirstFine
  <2>2. CASE n \in hasRun
    <3>1. ~InRun(n)
      <4> SUFFICES ASSUME InRun(n) PROVE FALSE OBVIOUS
      <4>1. Busy /\ stack[1].node = n BY DEF InRun
      <4>2. 1 \in 1..Len(stack) BY <4>1, TopIs
      <4>3. GoodFrame(stack[1], program, destroyed) BY <4>2 DEF Trust, IInv, GoodStack
      <4>4. stack[1].at # "update"
        BY <2>2, <4>1, <4>3, Types, NodesDisjoint DEF GoodFrame, Producer
      <4> QED BY <4>1, <4>2, <4>4 DEF Open
    <3> QED BY <2>2, <3>1, Types DEF Trusting, UpToDate
  <2> QED BY <2>1, <2>2
<1> DEFINE S == Good \cup {n}
<1>3. S \in SUBSET Consumer /\ n \in S BY <1>1, Types DEF Consumer
<1>4. ASSUME NEW x \in S, NEW j \in 1..Len(deps[x]) PROVE Fine(deps[x][j])
  BY <1>2, <1>4, GoodFacts DEF FirstFine
<1>5. \A x \in S : \A j \in 1..Len(deps[x]) :
          LET d == deps[x][j] IN
            /\ d.node # NoNode /\ d.seen = version[d.node]
            /\ d.node \in Signal \cup S
  BY <1>4 DEF Fine, Trusts
<1> HIDE DEF S
<1> QED BY <1>3, <1>5 DEF DeepCurrent

LEMMA TrustReadsBelow == Trust => ReadsAreBelow
<1> SUFFICES ASSUME Trust, Busy, Top.at = "await",
                    NEW n \in {Current.node}
                                \cup Reachable({Current.node}, Computed, Dependencies)
             PROVE  ~Open(n)
  BY DEF ReadsAreBelow
<1>1. PICK G \in SUBSET Computed : G = Good BY GoodIs DEF Good
<1>2. Current.node \in G BY <1>1, TopIs DEF ArrivedAt, Current
<1>3. Closed(G, {Current.node}, Computed, Dependencies)
  <2> SUFFICES ASSUME NEW d \in Computed, NEW x \in G, d \in Dependencies[x]
               PROVE  d \in G
    BY <1>2 DEF Closed
  <2>1. d \in DepNodes(x) BY DEF Dependencies, Node
  <2>2. PICK j \in 1..Len(deps[x]) : d = deps[x][j].node BY <2>1 DEF DepNodes
  <2>3. Fine(deps[x][j]) BY <1>1, GoodFacts
  <2> QED BY <1>1, <2>2, <2>3, NodesDisjoint DEF Fine, Trusts
<1>4. n \in Good BY <1>1, <1>2, <1>3, ReachWithin
<1> SUFFICES ASSUME Open(n) PROVE FALSE OBVIOUS
<1>5. PICK k \in 1..Len(stack) : stack[k].node = n BY DEF Open
<1>6. Len(stack) \in k..Len(stack) /\ Top = stack[Len(stack)] BY TopIs
<1>7. Top.node \in Signal \cup Good BY <1>4, <1>5, <1>6, AboveGood
<1> QED BY <1>7, Runner, NodesDisjoint DEF Consumer

\* Only the start of a computation marks a value as being computed.
LEMMA StepOnce ==
    ASSUME Trust, [Next]_vars, NEW c \in Computed,
           value[c] # COMPUTING, value'[c] = COMPUTING
    PROVE  lastCleanEpoch[c] < epoch
<1> USE DEF nodeVars
<1>1. c \in Node /\ c \notin Signal BY NodesDisjoint DEF Node
<1>2. ASSUME NEW s \in Signal, NEW v, SetSignal(s, v) PROVE value'[c] = value[c]
  <2>1. value' = value \/ value' = [value EXCEPT ![s] = v] BY <1>2 DEF SetSignal
  <2> QED BY <1>1, <2>1, Types
<1>3. ASSUME c \notin Good PROVE lastCleanEpoch[c] < epoch
  <2>1. lastCleanEpoch[c] <= epoch /\ lastCleanEpoch[c] \in Nat /\ epoch \in Nat
    BY <1>1, Types DEF Epochs
  <2>2. dirty[c] => lastCleanEpoch[c] < epoch BY Types DEF Epochs
  <2>3. ~dirty[c] => lastCleanEpoch[c] # epoch BY <1>3, Types DEF Trusting, UpToDate
  <2> QED BY <2>1, <2>2, <2>3
<1>4. ASSUME StartBody(Top.node), Top.node \notin Good PROVE lastCleanEpoch[c] < epoch
  <2>1. value' = value \/ value' = [value EXCEPT ![Top.node] = COMPUTING]
    BY <1>4 DEF StartBody
  <2>2. c = Top.node BY <1>1, <2>1, Types
  <2> QED BY <1>3, <1>4, <2>2
<1>5. CASE External \/ \E w \in Watch : Dispatch(w)
  <2>1. value' = value \/ \E s \in Signal, v \in Value : SetSignal(s, v)
    BY <1>5 DEF External, Dispatch, Set, Read, Notify, Destroy, Run, RunDestroyed
  <2> QED BY <1>2, <2>1
<1>6. CASE Continue
  <2>1. CASE UpdateFirst
    BY <1>4, <1>6, <2>1, UpdateFirstTrust DEF UpdateFirst, Continue
  <2>2. CASE PollChanged
    BY <1>4, <1>6, <2>2, PollChangedTrust DEF PollChanged, Continue
  <2>3. CASE BodySet
    <3>1. Busy /\ Top.at = "body" /\ Current.op = "set"
          /\ SetSignal(Current.node, Current.val)
      BY <2>3 DEF BodySet, Running
    <3>2. Current.node \in Signal BY <3>1, CurrentGood, OpCases DEF Trust
    <3> QED BY <1>2, <3>1, <3>2
  <2>4. CASE FinishComputed
    <3>1. Busy /\ Top.at = "body" /\ Current.op = "return"
          /\ value' = [value EXCEPT ![Top.node] = Current.val]
      BY <2>4 DEF FinishComputed, Running
    <3>2. Current.val \in Outcome BY <3>1, CurrentGood, OpCases DEF Trust
    <3>3. Current.val # COMPUTING BY <3>2, ValuesDistinct DEF Outcome
    <3> QED BY <1>1, <3>1, <3>3, Types
  <2>5. CASE UpdateSkip \/ UpdatePoll \/ UpdateCycle \/ PollProducer \/ PollNext \/ PollUnchanged
    BY <2>5 DEF UpdateSkip, UpdatePoll, UpdateCycle, PollProducer, PollNext, PollUnchanged
  <2>6. CASE BodyReadSignal \/ BodyPeekSignal \/ BodyCallComputed \/ BodyGotComputed
    BY <2>6 DEF BodyReadSignal, BodyPeekSignal, BodyCallComputed, BodyGotComputed
  <2>7. CASE BodySetRefused \/ BodyDestroy \/ FinishWatch \/ CleanupThrows
    BY <2>7 DEF BodySetRefused, BodyDestroy, FinishWatch, CleanupThrows
  <2> QED BY <1>6, <2>1, <2>2, <2>3, <2>4, <2>5, <2>6, <2>7 DEF Continue
<1>7. CASE UNCHANGED vars BY <1>7 DEF vars
<1> QED BY <1>5, <1>6, <1>7 DEF Next

LEMMA TrustAlways == Spec => []Trust
<1>1. Init => Trust BY InitTrust
<1>2. Trust /\ [Next]_vars => Trust' BY NextTrust
<1> QED BY <1>1, <1>2, PTL DEF Spec

\* The early returns of producerUpdateValueVersion never skip a computed whose
\* dependencies have changed, and a clean watch has missed no change: for every
\* graph, every program and every order of reads, writes and runs.
THEOREM CachesAreCurrent == Spec => []CleanIsCurrent
<1>1. Trust => CleanIsCurrent BY TrustIsCurrent
<1> QED BY <1>1, TrustAlways, PTL

\* What a computation gets to read is below it: nothing that is being computed
\* or polled is reachable from it, also after a cycle was detected.
THEOREM NoReadFromAbove == Spec => []ReadsAreBelow
<1>1. Trust => ReadsAreBelow BY TrustReadsBelow
<1> QED BY <1>1, TrustAlways, PTL

\* No computed is computed twice between two writes, however many consumers
\* it has and in whatever order they ask.
THEOREM ComputedOnce == Spec => OncePerEpoch
<1> DEFINE Once == \A c \in Computed :
                      value[c] # COMPUTING /\ value'[c] = COMPUTING
                        => lastCleanEpoch[c] < epoch
<1>1. Trust /\ [Next]_vars => Once BY StepOnce
<1>2. Trust /\ [Next]_vars => [Once]_vars BY <1>1
<1> HIDE DEF Once
<1>3. Spec => [][Once]_vars BY <1>2, TrustAlways, PTL DEF Spec
<1> USE DEF Once
<1> QED BY <1>3 DEF OncePerEpoch

-----------------------------------------------------------------------------
(***************************************************************************)
(* The graph computes the right values: what it takes for up to date is    *)
(* worth what the reference of module SignalsRef says, and user code reads *)
(* nothing else, in every program that is Grounded.                        *)
(*                                                                         *)
(* Memory, on top of Trust, is the invariant.  The value of a computed     *)
(* comes from one run of its computation: some results of its operations   *)
(* after which the code returns that value, with every read among its      *)
(* recorded dependencies (MemoOK).  The version recorded for a read stands *)
(* for what was read: as long as the producer has that version it has that *)
(* value, or had it when its computation in progress started (Held).  A    *)
(* computation in progress has recorded its reads, and each was right      *)
(* (ComputedOK), so that it is retracing the run that the reference makes  *)
(* (Retrace): user code that gets the same results does the same next.     *)
(*                                                                         *)
(* From there a clean computed whose recorded versions are the present     *)
(* ones is worth what the reference says (GoodIsRight), by the least rank  *)
(* among the wrong ones.  The rank also bounds the call stack: the reads   *)
(* in progress go down, polling follows recorded reads that a right run    *)
(* would make too (CallsLower), so no computation comes back to itself     *)
(* (NoCycle).  That the reference is defined at all, with its run and its  *)
(* evaluation as recursive functions, is RunFunction and EvalWhileIs.      *)
(***************************************************************************)

\* t are the results of the first operations of n, when it runs on V.
IsStart(p, n, V, t) ==
    /\ t \in Trace
    /\ \A j \in 1..Len(t) :
          OpAt(p, n, t, j).op # "return" /\ t[j] = Answer(p, n, V, OpAt(p, n, t, j))

Values == [Producer -> Outcome]

LEMMA TraceSeq ==
    ASSUME NEW t \in Trace
    PROVE  /\ t \in Seq(Result) /\ Len(t) \in 0..MaxOps /\ Len(t) \in Nat
           /\ SubSeq(t, 1, Len(t)) = t
           /\ \A m \in 0..Len(t) : /\ SubSeq(t, 1, m) \in Trace /\ Len(SubSeq(t, 1, m)) = m
                                   /\ \A j \in 1..m : SubSeq(t, 1, m)[j] = t[j]
<1>1. PICK k \in 0..MaxOps : t \in [1..k -> Result] BY DEF Trace
<1>2. t \in Seq(Result) /\ Len(t) = k BY <1>1, BoundsAssumption
<1>3. SubSeq(t, 1, Len(t)) = t BY <1>2
<1>4. ASSUME NEW m \in 0..Len(t)
      PROVE  /\ SubSeq(t, 1, m) \in Trace /\ Len(SubSeq(t, 1, m)) = m
             /\ \A j \in 1..m : SubSeq(t, 1, m)[j] = t[j]
  <2>1. /\ SubSeq(t, 1, m) \in Seq(Result) /\ Len(SubSeq(t, 1, m)) = m
        /\ \A j \in 1..m : SubSeq(t, 1, m)[j] = t[j]
    BY <1>2
  <2>2. m \in 0..MaxOps BY <1>2, BoundsAssumption
  <2>3. SubSeq(t, 1, m) \in [1..m -> Result] BY <2>1, LenProperties
  <2> QED BY <2>1, <2>2, <2>3 DEF Trace
<1> QED BY <1>2, <1>3, <1>4, BoundsAssumption

LEMMA SameStart ==
    ASSUME NEW t \in Trace, NEW u \in Trace, NEW m \in Nat, m <= Len(t), m <= Len(u),
           \A i \in 1..m : u[i] = t[i]
    PROVE  SubSeq(u, 1, m) = SubSeq(t, 1, m)
<1>1. Len(t) \in Nat /\ Len(u) \in Nat BY TraceSeq
<1>2. m \in 0..Len(t) /\ m \in 0..Len(u) BY <1>1
<1> DEFINE a == SubSeq(t, 1, m)
           b == SubSeq(u, 1, m)
<1>3. a \in Trace /\ Len(a) = m /\ \A j \in 1..m : a[j] = t[j] BY <1>2, TraceSeq
<1>4. b \in Trace /\ Len(b) = m /\ \A j \in 1..m : b[j] = u[j] BY <1>2, TraceSeq
<1> HIDE DEF a, b
<1>5. a \in Seq(Result) /\ b \in Seq(Result) BY <1>3, <1>4, TraceSeq
<1>6. a = b BY <1>3, <1>4, <1>5, SeqEqual
<1> QED BY <1>6 DEF a, b

LEMMA AnswerType ==
    ASSUME NEW p, NEW n, NEW V \in Values, NEW o \in Op
    PROVE  Answer(p, n, V, o) \in Result
BY OpCases DEF Answer, Values, Outcome, Result, Content

LEMMA LongerStart ==
    ASSUME NEW p \in Program, NEW n \in Consumer, NEW V \in Values, NEW t,
           IsStart(p, n, V, t)
    PROVE  /\ IsStart(p, n, V, Longer(p, n, V, t))
           /\ Body[p][n][t].op # "return" => Len(Longer(p, n, V, t)) = Len(t) + 1
           /\ Body[p][n][t].op = "return" => Longer(p, n, V, t) = t
<1> DEFINE o == Body[p][n][t]
           u == Append(t, Answer(p, n, V, o))
<1>1. t \in Trace /\ o \in Op BY BodyAssumption DEF IsStart
<1>2. CASE o.op = "return" BY <1>2 DEF Longer
<1>3. CASE o.op # "return"
  <2>1. Longer(p, n, V, t) = u BY <1>3 DEF Longer
  <2>2. Len(t) # MaxOps BY <1>1, <1>3, BodyAssumption
  <2>3. PICK r \in Result : r = Answer(p, n, V, o) BY <1>1, AnswerType
  <2>4. u \in Trace /\ u = Append(t, r) BY <1>1, <2>2, <2>3, AppendTrace
  <2>5. t \in Seq(Result) /\ Len(t) \in Nat BY <1>1, TraceSeq
  <2>6. Len(u) = Len(t) + 1 /\ u[Len(t) + 1] = r /\ \A j \in 1..Len(t) : u[j] = t[j]
    BY <2>4, <2>5
  <2>7. \A j \in 1..(Len(t) + 1) : SubSeq(u, 1, j - 1) = SubSeq(t, 1, j - 1)
    <3> SUFFICES ASSUME NEW j \in 1..(Len(t) + 1)
                 PROVE  SubSeq(u, 1, j - 1) = SubSeq(t, 1, j - 1)
      OBVIOUS
    <3>1. j - 1 \in Nat /\ j - 1 <= Len(t) /\ j - 1 <= Len(u) BY <2>5, <2>6
    <3>2. \A i \in 1..(j - 1) : u[i] = t[i] BY <2>5, <2>6, <3>1
    <3> QED BY <1>1, <2>4, <3>1, <3>2, SameStart
  <2>8. SubSeq(t, 1, Len(t)) = t BY <1>1, TraceSeq
  <2> HIDE DEF u
  <2>9. ASSUME NEW j \in 1..Len(u)
        PROVE  /\ OpAt(p, n, u, j).op # "return"
               /\ u[j] = Answer(p, n, V, OpAt(p, n, u, j))
    <3>1. CASE j = Len(t) + 1
      <4>1. SubSeq(u, 1, j - 1) = t BY <2>5, <2>7, <2>8, <3>1
      <4> QED BY <1>3, <2>3, <2>6, <3>1, <4>1 DEF OpAt
    <3>2. CASE j # Len(t) + 1
      <4>1. j \in 1..Len(t) BY <2>5, <2>6, <3>2
      <4>2. SubSeq(u, 1, j - 1) = SubSeq(t, 1, j - 1) BY <2>6, <2>7
      <4>3. OpAt(p, n, u, j) = OpAt(p, n, t, j) BY <4>2 DEF OpAt
      <4> QED BY <2>6, <4>1, <4>3 DEF IsStart
    <3> QED BY <3>1, <3>2
  <2> QED BY <1>3, <2>1, <2>4, <2>6, <2>9 DEF IsStart
<1> QED BY <1>2, <1>3

LEMMA RunFunction ==
    ASSUME NEW p, NEW n, NEW V
    PROVE  \E run : /\ run = [k \in 0..MaxOps |->
                                IF k = 0 THEN <<>> ELSE Longer(p, n, V, run[k - 1])]
                    /\ RunOn(p, n, V) = run[MaxOps]
<1> DEFINE Is(f, m) == f = [k \in 0..m |-> IF k = 0 THEN <<>> ELSE Longer(p, n, V, f[k - 1])]
           T == {m \in Nat : \A f : ~Is(f, m)}
<1>1. ASSUME T # {} PROVE FALSE
  <2>1. PICK x \in T : \A y \in T : x <= y BY <1>1, Least
  <2>2. CASE x = 0
    <3>1. PICK f : f = [k \in 0..0 |-> <<>>] OBVIOUS
    <3>2. Is(f, 0) BY <3>1
    <3> QED BY <2>1, <2>2, <3>2
  <2>3. CASE x # 0
    <3>0. x \in Nat BY <2>1
    <3>1. x - 1 \in Nat /\ x - 1 < x BY <2>3, <3>0
    <3>2. PICK f : Is(f, x - 1) BY <2>1, <3>1
    <3> DEFINE g == [k \in 0..x |-> IF k = 0 THEN <<>> ELSE Longer(p, n, V, f[k - 1])]
    <3>3. \A k \in 0..(x - 1) : g[k] = f[k] BY <3>0, <3>1, <3>2
    <3>4. \A k \in 0..x : k # 0 => k - 1 \in 0..(x - 1) BY <3>0
    <3>5. \A k \in 0..x : k # 0 => g[k - 1] = f[k - 1] BY <3>3, <3>4
    <3>6. Is(g, x) BY <3>5
    <3> QED BY <2>1, <3>6
  <2> QED BY <2>2, <2>3
<1>2. PICK f : Is(f, MaxOps) BY <1>1, BoundsAssumption
<1> QED BY <1>2 DEF RunOn

LEMMA RunFacts ==
    ASSUME NEW p \in Program, NEW n \in Consumer, NEW V \in Values
    PROVE  /\ IsStart(p, n, V, RunOn(p, n, V))
           /\ Body[p][n][RunOn(p, n, V)].op = "return"
           /\ ReturnOn(p, n, V) \in Outcome
<1>1. PICK run : /\ run = [k \in 0..MaxOps |->
                             IF k = 0 THEN <<>> ELSE Longer(p, n, V, run[k - 1])]
                 /\ RunOn(p, n, V) = run[MaxOps]
  BY RunFunction
<1>2. run[0] = <<>> /\ \A k \in 1..MaxOps : run[k] = Longer(p, n, V, run[k - 1])
  BY <1>1, BoundsAssumption
<1> DEFINE OK(k) == /\ IsStart(p, n, V, run[k])
                    /\ Body[p][n][run[k]].op = "return" \/ Len(run[k]) = k
           T == {k \in Nat : k <= MaxOps /\ ~OK(k)}
<1>3. ASSUME T # {} PROVE FALSE
  <2>1. PICK x \in T : \A y \in T : x <= y BY <1>3, Least
  <2>2. CASE x = 0
    <3>1. <<>> \in Trace /\ Len(<<>>) = 0
      <4>1. <<>> \in [1..0 -> Result] /\ 0 \in 0..MaxOps BY BoundsAssumption
      <4> QED BY <4>1 DEF Trace
    <3> QED BY <1>2, <2>1, <2>2, <3>1 DEF IsStart
  <2>3. CASE x # 0
    <3>1. x - 1 \in Nat /\ x - 1 <= MaxOps /\ x \in 1..MaxOps /\ x - 1 \notin T
      BY <2>1, <2>3, BoundsAssumption
    <3>2. OK(x - 1) BY <3>1
    <3>3. PICK t : t = run[x - 1] OBVIOUS
    <3>4. run[x] = Longer(p, n, V, t) BY <1>2, <3>1, <3>3
    <3>5. IsStart(p, n, V, t) /\ (Body[p][n][t].op = "return" \/ Len(t) = x - 1)
      BY <3>2, <3>3
    <3>6. OK(x) BY <2>1, <3>4, <3>5, LongerStart
    <3> QED BY <2>1, <3>6
  <2> QED BY <2>2, <2>3
<1>4. OK(MaxOps) BY <1>3, BoundsAssumption
<1> HIDE DEF T
<1>5. PICK t : t = RunOn(p, n, V) OBVIOUS
<1>6. IsStart(p, n, V, t) /\ (Body[p][n][t].op = "return" \/ Len(t) = MaxOps)
  BY <1>1, <1>4, <1>5
<1>7. t \in Trace /\ Body[p][n][t] \in Op BY <1>6, BodyAssumption DEF IsStart
<1>8. Body[p][n][t].op = "return" BY <1>6, <1>7, BodyAssumption
<1> QED BY <1>5, <1>6, <1>7, <1>8, OpCases DEF ReturnOn

\* Traces that give the same answers are the same as far as they go.
LEMMA StartsRun ==
    ASSUME NEW p \in Program, NEW n \in Consumer, NEW V,
           NEW t, IsStart(p, n, V, t), Body[p][n][t].op = "return",
           NEW u \in Trace, NEW m \in 0..Len(u),
           \A j \in 1..m : /\ OpAt(p, n, u, j).op # "return"
                           /\ OpAt(p, n, u, j) = OpAt(p, n, t, j) /\ j <= Len(t)
                                => u[j] = Answer(p, n, V, OpAt(p, n, u, j))
    PROVE  /\ m <= Len(t) /\ SubSeq(u, 1, m) = SubSeq(t, 1, m)
           /\ \A j \in 1..m : u[j] = t[j]
           /\ \A j \in 1..(m + 1) : OpAt(p, n, u, j) = OpAt(p, n, t, j)
           /\ OpAt(p, n, u, m + 1).op # "return" => m + 1 <= Len(t)
           /\ m = Len(u) /\ Body[p][n][u].op = "return" => u = t
<1>1. t \in Trace /\ Len(t) \in Nat /\ Len(u) \in Nat /\ SubSeq(t, 1, Len(t)) = t
  BY TraceSeq DEF IsStart
<1> DEFINE OK(j) == j <= Len(t) /\ u[j] = t[j]
           T == {j \in Nat : j \in 1..m /\ ~OK(j)}
<1>2. ASSUME NEW x \in 1..(m + 1), \A j \in 1..(x - 1) : OK(j)
      PROVE  /\ OpAt(p, n, u, x) = OpAt(p, n, t, x)
             /\ x - 1 <= Len(t) /\ x - 1 \in Nat
             /\ OpAt(p, n, u, x).op # "return" => x <= Len(t)
  <2>1. x - 1 \in Nat /\ x - 1 <= Len(u) BY <1>1
  <2>2. x - 1 <= Len(t)
    <3>1. CASE x = 1 BY <1>1, <3>1
    <3>2. CASE x # 1
      <4>1. x - 1 \in 1..(x - 1) BY <2>1, <3>2
      <4> QED BY <1>2, <4>1
    <3> QED BY <3>1, <3>2
  <2>3. \A j \in 1..(x - 1) : u[j] = t[j] BY <1>2
  <2>4. SubSeq(u, 1, x - 1) = SubSeq(t, 1, x - 1) BY <1>1, <2>1, <2>2, <2>3, SameStart
  <2>5. OpAt(p, n, u, x) = OpAt(p, n, t, x) BY <2>4 DEF OpAt
  <2>6. ASSUME OpAt(p, n, u, x).op # "return" PROVE x <= Len(t)
    <3> SUFFICES ASSUME x > Len(t) PROVE FALSE BY <1>1
    <3>1. x - 1 = Len(t) BY <1>1, <2>1, <2>2
    <3>2. OpAt(p, n, t, x) = Body[p][n][t] BY <1>1, <3>1 DEF OpAt
    <3> QED BY <2>5, <2>6, <3>2
  <2> QED BY <2>1, <2>2, <2>5, <2>6
<1>3. ASSUME T # {} PROVE FALSE
  <2>1. PICK x \in T : \A y \in T : x <= y BY <1>3, Least
  <2>2. x \in 1..m /\ x \in 1..(m + 1) /\ x \in Nat BY <1>1, <2>1
  <2>3. \A j \in 1..(x - 1) : OK(j)
    <3> SUFFICES ASSUME NEW j \in 1..(x - 1), ~OK(j) PROVE FALSE OBVIOUS
    <3>1. j \in Nat /\ j \in 1..m /\ j < x BY <2>2
    <3>2. j \in T BY <3>1
    <3> QED BY <2>1, <3>1, <3>2
  <2> HIDE DEF T
  <2>4. OpAt(p, n, u, x) = OpAt(p, n, t, x) /\ x <= Len(t)
    BY <1>2, <2>2, <2>3
  <2>5. u[x] = Answer(p, n, V, OpAt(p, n, u, x)) BY <2>2, <2>4
  <2>6. x \in 1..Len(t) BY <2>2, <2>4
  <2>7. t[x] = Answer(p, n, V, OpAt(p, n, t, x)) BY <2>6 DEF IsStart
  <2>8. OK(x) BY <2>4, <2>5, <2>7
  <2> QED BY <2>1, <2>8 DEF T
<1>4. \A j \in 1..m : OK(j) BY <1>3
<1> HIDE DEF T
<1>5. m \in Nat /\ m + 1 \in 1..(m + 1) /\ (m + 1) - 1 = m BY <1>1
<1>6. \A j \in 1..(m + 1) : OpAt(p, n, u, j) = OpAt(p, n, t, j)
  <2> TAKE j \in 1..(m + 1)
  <2>1. \A i \in 1..(j - 1) : OK(i) BY <1>4, <1>5
  <2> QED BY <1>2, <2>1
<1>7. m <= Len(t) /\ (OpAt(p, n, u, m + 1).op # "return" => m + 1 <= Len(t))
  BY <1>2, <1>4, <1>5
<1>8. SubSeq(u, 1, m) = SubSeq(t, 1, m) BY <1>1, <1>4, <1>5, <1>7, SameStart
<1>9. ASSUME m = Len(u), Body[p][n][u].op = "return" PROVE u = t
  <2>1. SubSeq(u, 1, m) = u BY <1>9, TraceSeq
  <2>2. OpAt(p, n, u, m + 1).op = "return" BY <1>5, <1>9, <2>1 DEF OpAt
  <2>3. m + 1 \in 1..(m + 1) BY <1>5
  <2>4. OpAt(p, n, t, m + 1).op = "return" BY <1>6, <2>2, <2>3
  <2>5. ~(m + 1 \in 1..Len(t)) BY <2>4 DEF IsStart
  <2>6. m = Len(t)
    <3>1. m \in Nat /\ Len(t) \in Nat /\ m <= Len(t) BY <1>1, <1>5, <1>7
    <3> QED BY <2>5, <3>1
  <2> QED BY <1>1, <1>8, <2>1, <2>6
<1> QED BY <1>4, <1>6, <1>7, <1>8, <1>9

-----------------------------------------------------------------------------
(* The reference values.                                                   *)

LEMMA Deeper ==
    ASSUME NEW E \in SUBSET Computed
    PROVE  /\ Cardinality(Computed \ E) \in Nat
           /\ \A x \in Computed \ E :
                 /\ E \cup {x} \in SUBSET Computed
                 /\ Cardinality(Computed \ (E \cup {x})) = Cardinality(Computed \ E) - 1
<1>1. IsFiniteSet(Computed \ E) BY ComputedFinite, FS_Difference
<1>2. ASSUME NEW x \in Computed \ E
      PROVE  /\ E \cup {x} \in SUBSET Computed
             /\ Cardinality(Computed \ (E \cup {x})) = Cardinality(Computed \ E) - 1
  <2>1. (Computed \ E) \ {x} = Computed \ (E \cup {x}) OBVIOUS
  <2>2. Cardinality((Computed \ E) \ {x}) = Cardinality(Computed \ E) - 1
    BY <1>1, FS_RemoveElement
  <2> QED BY <2>1, <2>2
<1> QED BY <1>1, <1>2, FS_CardinalityType

\* What is evaluated while E are being evaluated only depends on what is
\* evaluated while more are.
LEMMA StepSame ==
    ASSUME NEW p, NEW s, NEW E, NEW f, NEW g,
           \A x \in Computed \ E : f[E \cup {x}] = g[E \cup {x}]
    PROVE  EvalStep(p, s, f, E) = EvalStep(p, s, g, E)
<1>1. \A x \in Producer : x \notin Signal => x \in Computed BY DEF Producer
<1>2. \A x \in Producer :
         (IF x \in Signal THEN s[x]
          ELSE IF x \in E THEN ERRORED ELSE ReturnOn(p, x, f[E \cup {x}]))
         = (IF x \in Signal THEN s[x]
            ELSE IF x \in E THEN ERRORED ELSE ReturnOn(p, x, g[E \cup {x}]))
  BY <1>1
<1> QED BY <1>2 DEF EvalStep

LEMMA EvalWhileIs ==
    ASSUME NEW p, NEW s
    PROVE  EvalWhile(p, s)
             = [E \in SUBSET Computed |-> EvalStep(p, s, EvalWhile(p, s), E)]
<1> DEFINE Left(E) == Cardinality(Computed \ E)
           Dom(m) == {E \in SUBSET Computed : Left(E) <= m}
           Is(f, m) == f = [E \in Dom(m) |-> EvalStep(p, s, f, E)]
           T == {m \in Nat : \A f : ~Is(f, m)}
<1>1. ASSUME T # {} PROVE FALSE
  <2>1. PICK m \in T : \A y \in T : m <= y BY <1>1, Least
  <2>2. m \in Nat BY <2>1
  <2>3. PICK f : m # 0 => Is(f, m - 1)
    <3>1. CASE m = 0 BY <3>1
    <3>2. CASE m # 0
      <4>1. m - 1 \in Nat /\ ~(m <= m - 1) BY <2>2, <3>2
      <4>2. m - 1 \notin T
        <5> HIDE DEF T
        <5> QED BY <2>1, <4>1
      <4>3. \E f : Is(f, m - 1)
        <5> HIDE DEF Is
        <5> QED BY <4>1, <4>2
      <4> HIDE DEF Is
      <4> QED BY <4>3
    <3> QED BY <3>1, <3>2
  <2> DEFINE g == [E \in Dom(m) |-> EvalStep(p, s, f, E)]
  <2>4. ASSUME NEW E \in Dom(m), NEW x \in Computed \ E PROVE f[E \cup {x}] = g[E \cup {x}]
    <3>0. E \in SUBSET Computed /\ E \cup {x} \in SUBSET Computed BY Deeper
    <3>1. /\ Left(E) \in Nat /\ Left(E \cup {x}) = Left(E) - 1
          /\ Left(E \cup {x}) \in Nat /\ Left(E) <= m
      BY <3>0, Deeper
    <3> HIDE DEF Left
    <3>2. m # 0 /\ Left(E \cup {x}) <= m - 1 /\ Left(E \cup {x}) <= m BY <2>2, <3>1
    <3>3. E \cup {x} \in Dom(m - 1) /\ E \cup {x} \in Dom(m) BY <3>0, <3>1, <3>2
    <3> HIDE DEF Dom
    <3>4. f[E \cup {x}] = EvalStep(p, s, f, E \cup {x}) BY <2>3, <3>2, <3>3
    <3>5. g[E \cup {x}] = EvalStep(p, s, f, E \cup {x}) BY <3>3
    <3> QED BY <3>4, <3>5
  <2> HIDE DEF Dom
  <2>5. \A E \in Dom(m) : EvalStep(p, s, f, E) = EvalStep(p, s, g, E)
    <3> HIDE DEF g
    <3> QED BY <2>4, StepSame
  <2>6. Is(g, m) BY <2>5
  <2> QED BY <2>1, <2>6
<1> DEFINE N == Cardinality(Computed)
<1>2. N \in Nat BY ComputedFinite, FS_CardinalityType
<1>3. PICK f : Is(f, N) BY <1>1, <1>2, Zenon
<1>4. Dom(N) = SUBSET Computed
  <2>1. \A E \in SUBSET Computed : Left(E) <= N BY ComputedFinite, FS_Subset
  <2> QED BY <2>1
<1> HIDE DEF Dom, T, N
<1>5. f = [E \in SUBSET Computed |-> EvalStep(p, s, f, E)] BY <1>3, <1>4
<1> QED BY <1>5 DEF EvalWhile

LEMMA EvalWhileType ==
    ASSUME NEW p \in Program, NEW s \in [Signal -> Value], NEW E \in SUBSET Computed
    PROVE  EvalWhile(p, s)[E] \in Values /\ EvalWhile(p, s)[E] = EvalStep(p, s, EvalWhile(p, s), E)
<1> DEFINE ev == EvalWhile(p, s)
           Left(D) == Cardinality(Computed \ D)
           Bad == {D \in SUBSET Computed : ev[D] \notin Values}
           T == {Left(D) : D \in Bad}
<1>1. \A D \in SUBSET Computed : ev[D] = EvalStep(p, s, ev, D) BY EvalWhileIs
<1> HIDE DEF ev
<1>2. ASSUME Bad # {} PROVE FALSE
  <2>1. T \in SUBSET Nat /\ T # {}
    <3>1. \A D \in SUBSET Computed : Left(D) \in Nat BY Deeper
    <3> HIDE DEF Left
    <3> QED BY <1>2, <3>1
  <2>2. PICK m \in T : \A y \in T : m <= y BY <2>1, Least
  <2>3. PICK D \in Bad : m = Left(D) BY <2>2
  <2>4. D \in SUBSET Computed /\ m \in Nat BY <2>1, <2>2
  <2>5. ASSUME NEW x \in Computed \ D PROVE ev[D \cup {x}] \in Values
    <3>1. D \cup {x} \in SUBSET Computed /\ Left(D \cup {x}) = m - 1 BY <2>3, <2>4, Deeper
    <3> HIDE DEF Left
    <3>2. Left(D \cup {x}) < m BY <2>4, <3>1
    <3>3. D \cup {x} \notin Bad
      <4> SUFFICES ASSUME D \cup {x} \in Bad PROVE FALSE OBVIOUS
      <4>1. Left(D \cup {x}) \in T OBVIOUS
      <4>2. m <= Left(D \cup {x}) BY <2>2, <4>1
      <4> QED BY <2>4, <3>1, <4>2
    <3> QED BY <3>1, <3>3
  <2>6. ASSUME NEW x \in Producer
        PROVE  (IF x \in Signal THEN s[x]
                ELSE IF x \in D THEN ERRORED ELSE ReturnOn(p, x, ev[D \cup {x}])) \in Outcome
    <3>1. CASE x \in Signal BY <3>1 DEF Outcome
    <3>2. CASE x \in D BY <2>4, <3>2, NodesDisjoint DEF Outcome
    <3>3. CASE x \notin Signal /\ x \notin D
      <4>1. x \in Computed \ D /\ x \in Consumer BY <3>3 DEF Producer, Consumer
      <4>2. ev[D \cup {x}] \in Values BY <2>5, <4>1
      <4> QED BY <3>3, <4>1, <4>2, RunFacts
    <3> QED BY <3>1, <3>2, <3>3
  <2>7. EvalStep(p, s, ev, D) \in Values BY <2>6 DEF EvalStep, Values
  <2> QED BY <1>1, <2>3, <2>4, <2>7
<1> QED BY <1>1, <1>2 DEF ev

LEMMA SameRun ==
    ASSUME NEW p \in Program, NEW n \in Consumer, NEW V,
           NEW t, IsStart(p, n, V, t), Body[p][n][t].op = "return",
           NEW u, IsStart(p, n, V, u), Body[p][n][u].op = "return"
    PROVE  t = u
<1>1. t \in Trace /\ u \in Trace BY DEF IsStart
<1>2. PICK m \in 0..Len(u) : m = Len(u)
  <2>1. Len(u) \in Nat BY <1>1, TraceSeq
  <2> QED BY <2>1
<1>3. \A j \in 1..m : OpAt(p, n, u, j).op # "return" /\ u[j] = Answer(p, n, V, OpAt(p, n, u, j))
  BY <1>2 DEF IsStart
<1> QED BY <1>1, <1>2, <1>3, StartsRun

\* V gives each computed what its run on V returns, and runs only read what is
\* of lower rank.
Ranked(p, V, rank) ==
    \A c \in Computed : \E t :
        /\ IsStart(p, c, V, t) /\ Body[p][c][t].op = "return"
        /\ V[c] = Body[p][c][t].val
        /\ \A j \in 1..Len(t) :
              LET o == OpAt(p, c, t, j) IN
              /\ o.op \in {"read", "set"}
              /\ o.op = "read" /\ o.node \in Computed => rank[o.node] < rank[c]

LEMMA GroundedValues ==
    ASSUME NEW p \in Program, NEW s \in [Signal -> Value], Grounded(p)
    PROVE  /\ Evals[p][s] \in Values /\ \A x \in Signal : Evals[p][s][x] = s[x]
           /\ \E rank \in [Computed -> Nat] : Ranked(p, Evals[p][s], rank)
<1> DEFINE ev == EvalWhile(p, s)
           V == Evals[p][s]
           run(c) == RunOn(p, c, V)
<1>1. V = ev[{}] BY DEF Evals
<1>2. \A E \in SUBSET Computed : ev[E] \in Values /\ ev[E] = EvalStep(p, s, ev, E)
  BY EvalWhileType
<1>3. PICK rank \in [Computed -> 1..Cardinality(Computed)] :
         \A c \in Computed : \A j \in 1..Len(run(c)) :
             /\ OpAt(p, c, run(c), j).op # "peek"
             /\ OpAt(p, c, run(c), j).op = "read" /\ OpAt(p, c, run(c), j).node \in Computed
                   => rank[OpAt(p, c, run(c), j).node] < rank[c]
  BY Zenon DEF Grounded
<1> HIDE DEF ev
<1>4. /\ rank \in [Computed -> Nat]
      /\ {} \in SUBSET Computed /\ V \in Values
  <2>1. Cardinality(Computed) \in Nat BY ComputedFinite, FS_CardinalityType
  <2>2. \A i \in 1..Cardinality(Computed) : i \in Nat BY <2>1
  <2> QED BY <1>1, <1>2, <1>3, <2>2
<1>5. \A E \in SUBSET Computed : \A x \in Signal : ev[E][x] = s[x]
  BY <1>2 DEF EvalStep, Producer
<1>6. ASSUME NEW E \in SUBSET Computed, NEW c \in Computed, c \notin E
      PROVE  ev[E][c] = ReturnOn(p, c, ev[E \cup {c}]) /\ E \cup {c} \in SUBSET Computed
  <2>1. c \in Producer /\ c \notin Signal BY NodesDisjoint DEF Producer
  <2>2. ev[E] = EvalStep(p, s, ev, E) /\ E \cup {c} \in SUBSET Computed BY <1>2
  <2>3. EvalStep(p, s, ev, E)[c] = ReturnOn(p, c, ev[E \cup {c}])
    BY <1>6, <2>1 DEF EvalStep
  <2> QED BY <2>2, <2>3
<1> HIDE DEF V
<1>7. ASSUME NEW c \in Computed
      PROVE  /\ c \in Consumer /\ run(c) \in Trace
             /\ IsStart(p, c, V, run(c)) /\ Body[p][c][run(c)].op = "return"
             /\ ReturnOn(p, c, V) = Body[p][c][run(c)].val
  <2>1. c \in Consumer BY DEF Consumer
  <2> QED BY <1>4, <2>1, RunFacts DEF ReturnOn, IsStart
<1> DEFINE Above(c, E) == c \notin E /\ \A e \in E : rank[e] > rank[c]
           Right(c) == \A E \in SUBSET Computed : Above(c, E) => ev[E][c] = ReturnOn(p, c, V)
           T == {rank[c] : c \in {x \in Computed : ~Right(x)}}
<1>8. ASSUME NEW c \in Computed, \A d \in Computed : rank[d] < rank[c] => Right(d) PROVE Right(c)
  <2> SUFFICES ASSUME NEW E \in SUBSET Computed, Above(c, E)
               PROVE  ev[E][c] = ReturnOn(p, c, V)
    OBVIOUS
  <2> DEFINE U == ev[E \cup {c}]
             t == run(c)
  <2>1. ev[E][c] = ReturnOn(p, c, U) /\ E \cup {c} \in SUBSET Computed BY <1>6
  <2>2. U \in Values BY <1>2, <2>1
  <2>3. ASSUME NEW j \in 1..Len(t), OpAt(p, c, t, j).op = "read"
        PROVE  U[OpAt(p, c, t, j).node] = V[OpAt(p, c, t, j).node]
    <3> DEFINE d == OpAt(p, c, t, j).node
    <3>1. OpAt(p, c, t, j) \in Op
      <4>1. SubSeq(t, 1, j - 1) \in Trace
        <5>1. t \in Trace /\ Len(t) \in Nat BY <1>7, TraceSeq
        <5>2. j - 1 \in 0..Len(t) BY <5>1
        <5> QED BY <5>1, <5>2, TraceSeq
      <4> QED BY <1>7, <4>1, BodyAssumption DEF OpAt
    <3>2. d \in Producer BY <2>3, <3>1, OpCases
    <3>3. CASE d \in Signal
      <4>1. U[d] = s[d] /\ V[d] = s[d] BY <1>1, <1>4, <1>5, <2>1, <3>3
      <4> QED BY <4>1
    <3>4. CASE d \in Computed
      <4>1. rank[d] < rank[c] BY <1>3, <2>3, <3>4
      <4>2. Right(d) BY <1>8, <3>4, <4>1
      <4>3. Above(d, E \cup {c})
        <5>1. rank[d] \in Nat /\ rank[c] \in Nat /\ \A e \in E : rank[e] \in Nat
          BY <1>4, <3>4
        <5> QED BY <4>1, <5>1
      <4>4. Above(d, {}) OBVIOUS
      <4> HIDE DEF Above
      <4>5. U[d] = ReturnOn(p, d, V) BY <2>1, <4>2, <4>3
      <4>6. V[d] = ReturnOn(p, d, V) BY <1>1, <1>4, <4>2, <4>4
      <4> QED BY <4>5, <4>6
    <3> QED BY <3>2, <3>3, <3>4 DEF Producer
  <2>4. ASSUME NEW j \in 1..Len(t)
        PROVE  Answer(p, c, V, OpAt(p, c, t, j)) = Answer(p, c, U, OpAt(p, c, t, j))
    BY <1>3, <2>3 DEF Answer
  <2>5. IsStart(p, c, U, t) BY <1>7, <2>4 DEF IsStart
  <2> HIDE DEF t, U
  <2>6. RunOn(p, c, U) = t
    <3>1. IsStart(p, c, U, RunOn(p, c, U)) /\ Body[p][c][RunOn(p, c, U)].op = "return"
      BY <1>7, <2>2, RunFacts
    <3>2. Body[p][c][t].op = "return" BY <1>7 DEF t
    <3> QED BY <1>7, <2>5, <3>1, <3>2, SameRun
  <2>7. ReturnOn(p, c, U) = ReturnOn(p, c, V) BY <2>6 DEF ReturnOn, t
  <2> QED BY <2>1, <2>7
<1>9. ASSUME T # {} PROVE FALSE
  <2> HIDE DEF Right
  <2>1. T \in SUBSET Nat BY <1>4
  <2>2. PICK m \in T : \A y \in T : m <= y BY <1>9, <2>1, Least
  <2>3. PICK c \in Computed : ~Right(c) /\ m = rank[c] BY <2>2
  <2>4. PICK d \in Computed : rank[d] < rank[c] /\ ~Right(d) BY <1>8, <2>3
  <2>5. rank[d] \in T BY <2>4
  <2>6. rank[c] <= rank[d] BY <2>2, <2>3, <2>5
  <2>7. rank[c] \in Nat /\ rank[d] \in Nat BY <1>4
  <2> QED BY <2>4, <2>6, <2>7
<1>10. ASSUME NEW c \in Computed PROVE V[c] = Body[p][c][run(c)].val
  <2>1. Right(c)
    <3> HIDE DEF Right
    <3> QED BY <1>9
  <2>2. Above(c, {}) OBVIOUS
  <2> HIDE DEF Above
  <2>3. ev[{}][c] = ReturnOn(p, c, V) BY <1>4, <2>1, <2>2
  <2> QED BY <1>1, <1>7, <2>3
<1>11. ASSUME NEW c \in Computed, NEW j \in 1..Len(run(c))
       PROVE  OpAt(p, c, run(c), j).op \in {"read", "set"}
  <2> DEFINE o == OpAt(p, c, run(c), j)
  <2>1. SubSeq(run(c), 1, j - 1) \in Trace
    <3>1. run(c) \in Trace /\ Len(run(c)) \in Nat BY <1>7, TraceSeq
    <3>2. j - 1 \in 0..Len(run(c)) BY <3>1
    <3> QED BY <3>1, <3>2, TraceSeq
  <2>2. o \in Op /\ o.op # "destroy" BY <1>7, <2>1, BodyAssumption DEF OpAt
  <2>3. o.op # "return" BY <1>7 DEF IsStart
  <2>4. o.op # "peek" BY <1>3
  <2> HIDE DEF o
  <2>5. o.op \in {"read", "set"} BY <2>2, <2>3, <2>4 DEF Op
  <2> QED BY <2>5 DEF o
<1>12. Ranked(p, V, rank)
  <2> SUFFICES ASSUME NEW c \in Computed
               PROVE  \E t :
                        /\ IsStart(p, c, V, t) /\ Body[p][c][t].op = "return"
                        /\ V[c] = Body[p][c][t].val
                        /\ \A j \in 1..Len(t) :
                              LET o == OpAt(p, c, t, j) IN
                              /\ o.op \in {"read", "set"}
                              /\ o.op = "read" /\ o.node \in Computed => rank[o.node] < rank[c]
    BY DEF Ranked
  <2> WITNESS run(c)
  <2>1. ASSUME NEW j \in 1..Len(run(c))
        PROVE  LET o == OpAt(p, c, run(c), j) IN
               /\ o.op \in {"read", "set"}
               /\ o.op = "read" /\ o.node \in Computed => rank[o.node] < rank[c]
    BY <1>3, <1>11
  <2> HIDE DEF run
  <2> QED BY <1>7, <1>10, <2>1
<1>13. \A x \in Signal : V[x] = s[x] BY <1>1, <1>4, <1>5
<1> QED BY <1>4, <1>12, <1>13 DEF V

\* The computations of computeds read and, in vain, write.
Plain(p, c, t) ==
    /\ t \in Trace
    /\ \A j \in 1..Len(t) :
          LET o == OpAt(p, c, t, j) IN
          o.op \in {"read", "set"} /\ (o.op = "set" => t[j] = ERRORED)

\* The operation o of c is a read of a signal, or of a computed of lower rank.
ReadsLower(c, o, rank) == o.op = "read" /\ (o.node \in Computed => rank[o.node] < rank[c])

RightSoFar(p, c, t, m, V, rank) ==
    \A j \in 1..m :
        ReadsLower(c, OpAt(p, c, t, j), rank) => t[j] = V[OpAt(p, c, t, j).node]

\* A computation whose first m reads gave the right values, as far as they are
\* of lower rank, is on the way of the right one.
LEMMA Retrace ==
    ASSUME NEW p \in Program, NEW c \in Computed, NEW V, NEW rank, Ranked(p, V, rank),
           NEW t, Plain(p, c, t), NEW m \in 0..Len(t), RightSoFar(p, c, t, m, V, rank)
    PROVE  /\ OpAt(p, c, t, m + 1).op \in {"return", "set"}
                \/ ReadsLower(c, OpAt(p, c, t, m + 1), rank)
           /\ m = Len(t) /\ Body[p][c][t].op = "return" => V[c] = Body[p][c][t].val
<1>1. PICK u : /\ IsStart(p, c, V, u) /\ Body[p][c][u].op = "return"
               /\ V[c] = Body[p][c][u].val
               /\ \A j \in 1..Len(u) :
                     /\ OpAt(p, c, u, j).op \in {"read", "set"}
                     /\ OpAt(p, c, u, j).op = "read" /\ OpAt(p, c, u, j).node \in Computed
                           => rank[OpAt(p, c, u, j).node] < rank[c]
  BY Zenon DEF Ranked
<1>2. t \in Trace /\ Len(t) \in Nat /\ u \in Trace /\ Len(u) \in Nat
  BY <1>1, TraceSeq DEF Plain, IsStart
<1>3. c \in Consumer /\ c \notin AllowWrites[p] BY BodyAssumption, NodesDisjoint DEF Consumer
<1>4. \A j \in 1..m : /\ OpAt(p, c, t, j).op \in {"read", "set"}
                      /\ OpAt(p, c, t, j).op = "set" => t[j] = ERRORED
  <2> TAKE j \in 1..m
  <2>1. j \in 1..Len(t) BY <1>2
  <2> QED BY <2>1 DEF Plain
<1>5. ASSUME NEW j \in 1..m, OpAt(p, c, t, j) = OpAt(p, c, u, j), j <= Len(u)
      PROVE  t[j] = Answer(p, c, V, OpAt(p, c, t, j))
  <2>1. j \in 1..Len(u) BY <1>2, <1>5
  <2>2. CASE OpAt(p, c, t, j).op = "read"
    <3>1. t[j] = V[OpAt(p, c, t, j).node]
      BY <1>1, <1>5, <2>1, <2>2 DEF RightSoFar, ReadsLower
    <3> QED BY <2>2, <3>1 DEF Answer
  <2>3. CASE OpAt(p, c, t, j).op = "set"
    <3>1. t[j] = ERRORED BY <1>4, <2>3
    <3> QED BY <1>3, <2>3, <3>1 DEF Answer
  <2> QED BY <1>4, <2>2, <2>3
<1>6. \A j \in 1..m : /\ OpAt(p, c, t, j).op # "return"
                      /\ OpAt(p, c, t, j) = OpAt(p, c, u, j) /\ j <= Len(u)
                           => t[j] = Answer(p, c, V, OpAt(p, c, t, j))
  BY <1>4, <1>5
<1>7. m + 1 \in 1..(m + 1) /\ m \in Nat BY <1>2
<1>8. /\ OpAt(p, c, t, m + 1) = OpAt(p, c, u, m + 1)
      /\ OpAt(p, c, t, m + 1).op # "return" => m + 1 <= Len(u)
      /\ m = Len(t) /\ Body[p][c][t].op = "return" => t = u
  BY <1>1, <1>2, <1>3, <1>6, <1>7, StartsRun
<1>9. OpAt(p, c, t, m + 1).op # "return" => m + 1 \in 1..Len(u) BY <1>7, <1>8
<1>10. OpAt(p, c, t, m + 1).op \in {"return", "set"}
         \/ ReadsLower(c, OpAt(p, c, t, m + 1), rank)
  BY <1>1, <1>8, <1>9 DEF ReadsLower
<1> QED BY <1>1, <1>8, <1>10

-----------------------------------------------------------------------------
(* What is remembered.                                                     *)

Computing(f, n) == f.node = n /\ f.at \in {"body", "await"}

\* The version of n stands for r: n has the value r, or had it before the
\* computation in progress.
Held(n, r) ==
    IF value[n] = COMPUTING
    THEN \A k \in 1..Len(stack) : Computing(stack[k], n) => stack[k].old = r
    ELSE value[n] = r

Agrees(d, r) == d.seen = version[d.node] => Held(d.node, r)

\* Each of the first m reads of t is recorded in the first k dependencies of n.
Covers(n, t, m, k) ==
    \A x \in 1..m :
        LET o == OpAt(program, n, t, x) IN
        o.op = "read" => \E i \in 1..k : deps[n][i].node = o.node /\ Agrees(deps[n][i], t[x])

\* And the first k dependencies are those reads, in their order.
Remembers(n, t, k) ==
    /\ Covers(n, t, Len(t), k)
    /\ \A i \in 1..k : \E m \in 1..Len(t) :
          /\ OpAt(program, n, t, m).op = "read"
          /\ OpAt(program, n, t, m).node = deps[n][i].node
          /\ Covers(n, t, m - 1, i - 1)

\* The value of c is what a computation returned whose reads are recorded.
MemoOK(c) ==
    value[c] \notin {UNSET, COMPUTING} =>
        \E t : /\ Plain(program, c, t)
               /\ Body[program][c][t].op = "return" /\ Body[program][c][t].val = value[c]
               /\ Remembers(c, t, Len(deps[c]))

\* A computation in progress recorded its reads, and each was right.
ComputedOK(f) ==
    f.at \in {"body", "await"} /\ f.node \in Computed =>
        /\ Plain(program, f.node, f.trace)
        /\ Remembers(f.node, f.trace, nextIndex[f.node])
        /\ \A j \in 1..Len(f.trace) :
              LET o == OpAt(program, f.node, f.trace, j) IN
              o.op = "read" => f.trace[j] = Eval[o.node]

WatchOK(f) ==
    f.at \in {"body", "await"} /\ f.node \in Watch =>
        \A j \in 1..Len(f.trace) :
            /\ OpAt(program, f.node, f.trace, j).op \in {"read", "peek"}
            /\ \A m \in j..Len(f.trace) : OpAt(program, f.node, f.trace, m).op # "set"
            => f.trace[j] = Eval[OpAt(program, f.node, f.trace, j).node]

SeenBefore ==
    \A n \in Computed : \A i \in 1..Len(deps[n]) :
        deps[n][i].seen <= version[deps[n][i].node]

Marked ==
    \A c \in Computed : value[c] = COMPUTING => \E k \in 1..Len(stack) : Computing(stack[k], c)

Memos  == \A c \in Computed : MemoOK(c)
Bodies == \A k \in 1..Len(stack) : ComputedOK(stack[k]) /\ WatchOK(stack[k])

Memory == SeenBefore /\ Marked /\ Memos /\ Bodies

LEMMA EvalFacts ==
    ASSUME Trust, Grounded(program)
    PROVE  /\ Eval \in Values /\ \A x \in Signal : Eval[x] = value[x]
           /\ \E rank \in [Computed -> Nat] : Ranked(program, Eval, rank)
<1>1. program \in Program /\ \A x \in Signal : value[x] \in Value
  BY DEF Trust, IInv, TypeOK, SignalsPlain
<1>2. PICK s \in [Signal -> Value] : s = SignalValues BY <1>1 DEF SignalValues
<1>3. /\ Evals[program][s] \in Values /\ \A x \in Signal : Evals[program][s][x] = s[x]
      /\ \E rank \in [Computed -> Nat] : Ranked(program, Evals[program][s], rank)
  BY <1>1, GroundedValues
<1>4. Eval = Evals[program][s] BY <1>2 DEF Eval
<1> QED BY <1>2, <1>3, <1>4 DEF SignalValues

LEMMA FineHeld ==
    ASSUME Trust, NEW d, NEW r, Fine(d), Agrees(d, r)
    PROVE  d.node \in Signal \cup Good /\ value[d.node] = r
<1>1. d.node \in Signal \cup Good /\ Held(d.node, r) BY DEF Fine, Trusts, Agrees
<1>2. value[d.node] # COMPUTING
  <2>1. CASE d.node \in Signal BY <2>1, ValuesDistinct DEF Trust, IInv, SignalsPlain
  <2>2. CASE d.node \in Good BY <2>2, GoodFacts
  <2> QED BY <1>1, <2>1, <2>2
<1> QED BY <1>1, <1>2 DEF Held

\* What has the right value, or is given it by a run that begins with the
\* reads covered by dependencies that are fine.
LEMMA RightReads ==
    ASSUME Trust, NEW V, NEW rank,
           NEW c \in Computed, NEW t, NEW m \in Nat, NEW k \in Nat, Covers(c, t, m, k),
           \A i \in 1..k : Fine(deps[c][i]),
           \A x \in Signal : V[x] = value[x],
           \A d \in Good : rank[d] < rank[c] => value[d] = V[d]
    PROVE  RightSoFar(program, c, t, m, V, rank)
<1> SUFFICES ASSUME NEW j \in 1..m, OpAt(program, c, t, j).op = "read",
                    OpAt(program, c, t, j).node \in Computed
                       => rank[OpAt(program, c, t, j).node] < rank[c]
             PROVE  t[j] = V[OpAt(program, c, t, j).node]
  BY DEF RightSoFar, ReadsLower
<1>1. PICK i \in 1..k : /\ deps[c][i].node = OpAt(program, c, t, j).node
                        /\ Agrees(deps[c][i], t[j])
  BY DEF Covers
<1>2. deps[c][i].node \in Signal \cup Good /\ value[deps[c][i].node] = t[j]
  BY <1>1, FineHeld
<1>3. Good \subseteq Computed BY GoodFacts
<1> QED BY <1>1, <1>2, <1>3

LEMMA GoodIsRight ==
    ASSUME Trust, Memory, Grounded(program), NEW c \in Good
    PROVE  value[c] = Eval[c]
<1>1. PICK rank \in [Computed -> Nat] : Ranked(program, Eval, rank) BY EvalFacts
<1> DEFINE Wrong == {x \in Good : value[x] # Eval[x]}
           T == {rank[x] : x \in Wrong}
<1> SUFFICES ASSUME T # {} PROVE FALSE OBVIOUS
<1>2. T \in SUBSET Nat BY <1>1, GoodFacts
<1>3. PICK r \in T : \A y \in T : r <= y BY <1>2, Least
<1>4. PICK x \in Wrong : r = rank[x] BY <1>3
<1>5. /\ x \in Computed /\ value[x] \notin {UNSET, COMPUTING}
      /\ \A i \in 1..Len(deps[x]) : Fine(deps[x][i])
  BY <1>4, GoodFacts
<1>6. \A d \in Good : rank[d] < rank[x] => value[d] = Eval[d]
  <2> SUFFICES ASSUME NEW d \in Good, rank[d] < rank[x], value[d] # Eval[d] PROVE FALSE
    OBVIOUS
  <2>1. rank[d] \in T OBVIOUS
  <2>2. rank[x] <= rank[d] BY <1>3, <1>4, <2>1
  <2>3. rank[d] \in Nat /\ rank[x] \in Nat BY <1>1, <1>5, GoodFacts
  <2> QED BY <2>2, <2>3
<1>7. PICK t : /\ Plain(program, x, t) /\ Body[program][x][t].op = "return"
               /\ Body[program][x][t].val = value[x] /\ Remembers(x, t, Len(deps[x]))
  BY <1>5 DEF Memory, Memos, MemoOK
<1>8. program \in Program /\ Len(t) \in Nat /\ Len(t) \in 0..Len(t) /\ Len(deps[x]) \in Nat
  <2>1. program \in Program /\ x \in Node BY <1>5 DEF Trust, IInv, TypeOK, Node
  <2>2. Len(t) \in Nat BY <1>7, TraceSeq DEF Plain
  <2> QED BY <2>1, <2>2, Types
<1>9. Covers(x, t, Len(t), Len(deps[x])) BY <1>7 DEF Remembers
<1>10. \A y \in Signal : Eval[y] = value[y] BY EvalFacts
<1>11. RightSoFar(program, x, t, Len(t), Eval, rank)
  <2> HIDE DEF T, Wrong
  <2> QED BY <1>5, <1>6, <1>8, <1>9, <1>10, RightReads
<1>12. Eval[x] = value[x]
  <2> HIDE DEF T, Wrong
  <2> QED BY <1>1, <1>5, <1>7, <1>8, <1>11, Retrace
<1> QED BY <1>4, <1>12

LEMMA RightNow ==
    ASSUME Trust, Memory, Grounded(program), NEW n \in Signal \cup Good
    PROVE  value[n] = Eval[n] /\ value[n] # COMPUTING
<1>1. CASE n \in Signal
  <2>1. value[n] # COMPUTING BY <1>1, ValuesDistinct DEF Trust, IInv, SignalsPlain
  <2> QED BY <1>1, <2>1, EvalFacts
<1>2. CASE n \in Good BY <1>2, GoodIsRight, GoodFacts
<1> QED BY <1>1, <1>2

\* What a computed waits for is of lower rank.
LEMMA CallsLower ==
    ASSUME Trust, Memory, Grounded(program),
           NEW rank \in [Computed -> Nat], Ranked(program, Eval, rank),
           NEW y \in 1..(Len(stack) - 1), stack[y].node \in Computed
    PROVE  stack[y + 1].node \in Computed => rank[stack[y + 1].node] < rank[stack[y].node]
<1> PICK f : f = stack[y] OBVIOUS
<1> PICK c \in Computed : c = stack[y].node OBVIOUS
<1> PICK d : d = stack[y + 1].node OBVIOUS
<1>0. f = stack[y] /\ c = f.node /\ d = stack[y + 1].node OBVIOUS
<1>1. /\ y \in 1..Len(stack) /\ f.at \in {"polled", "await"}
      /\ f.at = "polled" => f.i \in 1..Len(deps[c]) /\ d = deps[c][f.i].node
      /\ f.at = "await" => d = Body[program][c][f.trace].node
      /\ PollOK(f)
  BY <1>0, BelowTop DEF Calls
<1>2. program \in Program /\ GoodFrame(f, program, destroyed)
  BY <1>0, <1>1 DEF Trust, IInv, TypeOK, GoodStack
<1>3. CASE f.at = "await"
  <2> DEFINE t == f.trace
  <2>1. /\ Plain(program, c, t)
        /\ \A j \in 1..Len(t) :
              LET o == OpAt(program, c, t, j) IN o.op = "read" => t[j] = Eval[o.node]
    BY <1>0, <1>1, <1>3 DEF Memory, Bodies, ComputedOK
  <2>2. Len(t) \in Nat /\ Len(t) \in 0..Len(t) /\ SubSeq(t, 1, Len(t)) = t
    BY <2>1, TraceSeq DEF Plain
  <2>3. OpAt(program, c, t, Len(t) + 1) = Body[program][c][t]
    <3>1. (Len(t) + 1) - 1 = Len(t) BY <2>2
    <3> QED BY <2>2, <3>1 DEF OpAt
  <2>4. Body[program][c][t].op \in {"read", "peek"} /\ Body[program][c][t].node = d
    BY <1>0, <1>1, <1>2, <1>3 DEF GoodFrame
  <2> HIDE DEF t
  <2>6. RightSoFar(program, c, t, Len(t), Eval, rank)
    BY <2>1 DEF RightSoFar, ReadsLower
  <2>5. OpAt(program, c, t, Len(t) + 1).op \in {"return", "set"}
        \/ ReadsLower(c, OpAt(program, c, t, Len(t) + 1), rank)
    BY <1>2, <2>1, <2>2, <2>6, Retrace
  <2> QED BY <1>0, <2>3, <2>4, <2>5 DEF ReadsLower
<1>4. CASE f.at = "polled"
  <2> DEFINE i == f.i
  <2>1. i \in 1..Len(deps[c]) /\ d = deps[c][i].node BY <1>1, <1>4
  <2>2. /\ \A j \in 1..Len(deps[c]) : j < i => Fine(deps[c][j])
        /\ value[c] \notin {UNSET, COMPUTING}
    BY <1>0, <1>1, <1>4 DEF PollOK
  <2>3. PICK t : Plain(program, c, t) /\ Remembers(c, t, Len(deps[c]))
    BY <2>2 DEF Memory, Memos, MemoOK
  <2>4. PICK m \in 1..Len(t) :
          /\ OpAt(program, c, t, m).op = "read" /\ OpAt(program, c, t, m).node = d
          /\ Covers(c, t, m - 1, i - 1)
    BY <2>1, <2>3 DEF Remembers
  <2>5. Len(t) \in Nat /\ Len(deps[c]) \in Nat
    <3>1. Len(t) \in Nat BY <2>3, TraceSeq DEF Plain
    <3>2. c \in Node BY DEF Node
    <3> QED BY <3>1, <3>2, Types
  <2> HIDE DEF i
  <2> PICK l : l = m - 1 OBVIOUS
  <2> PICK k : k = i - 1 OBVIOUS
  <2>6. l \in Nat /\ l \in 0..Len(t) /\ l + 1 = m /\ k \in Nat /\ Covers(c, t, l, k)
    BY <2>1, <2>4, <2>5
  <2>7. \A j \in 1..k : Fine(deps[c][j])
    <3>1. \A j \in 1..k : j \in 1..Len(deps[c]) /\ j < i BY <2>1, <2>5
    <3> QED BY <2>2, <3>1 DEF i
  <2>8. \A x \in Signal : Eval[x] = value[x] BY EvalFacts
  <2>9. \A x \in Good : value[x] = Eval[x] BY GoodIsRight
  <2>10. RightSoFar(program, c, t, l, Eval, rank)
    BY <2>6, <2>7, <2>8, <2>9, RightReads
  <2>11. OpAt(program, c, t, l + 1).op \in {"return", "set"}
        \/ ReadsLower(c, OpAt(program, c, t, l + 1), rank)
    BY <1>2, <2>3, <2>6, <2>10, Retrace
  <2> QED BY <1>0, <2>4, <2>6, <2>11 DEF ReadsLower
<1> QED BY <1>1, <1>3, <1>4

\* So no cycle is ever detected.
LEMMA NoCycle ==
    ASSUME Trust, Memory, Grounded(program), Busy, Top.at = "update",
           value[Top.node] = COMPUTING
    PROVE  FALSE
<1> DEFINE N == Len(stack)
<1>1. /\ stack \in Seq(Frame) /\ N \in Nat \ {0} /\ Top = stack[N]
      /\ GoodFrame(Top, program, destroyed)
  BY TopIs
<1>2. Top.node \in Computed
  <2>1. Top.node \in Producer BY <1>1 DEF GoodFrame
  <2>2. Top.node \notin Signal BY ValuesDistinct DEF Trust, IInv, SignalsPlain
  <2> QED BY <2>1, <2>2 DEF Producer
<1>3. PICK k \in 1..N : Computing(stack[k], Top.node) BY <1>2 DEF Memory, Marked
<1>4. PICK rank \in [Computed -> Nat] : Ranked(program, Eval, rank) BY EvalFacts
<1> DEFINE c == Top.node
           Low(m) == stack[m].node \in Computed => rank[stack[m].node] < rank[c]
           T == {m \in Nat : m \in (k + 1)..N /\ ~Low(m)}
<1>5. k # N /\ N \in (k + 1)..N /\ k \in Nat
  <2>1. k # N BY <1>1, <1>3 DEF Computing
  <2> HIDE DEF N
  <2> QED BY <1>1, <1>3, <2>1
<1>6. N \in T
  <2>1. rank[c] \in Nat BY <1>2, <1>4
  <2>2. ~Low(N) BY <1>1, <1>2, <2>1
  <2> QED BY <1>1, <1>5, <2>2
<1>7. PICK m \in T : \A y \in T : m <= y BY <1>6, Least
<1>8. m \in (k + 1)..N /\ m \in Nat /\ ~Low(m) BY <1>7
<1> HIDE DEF N, T
<1>9. m - 1 \in 1..(N - 1) /\ (m - 1) + 1 = m /\ m - 1 \in 1..N /\ m - 1 \in Nat
      /\ ~(m <= m - 1) /\ (m - 1 # k => m - 1 \in (k + 1)..N /\ m - 1 # 1)
  BY <1>1, <1>3, <1>5, <1>8
<1>10. PICK y : y = m - 1 OBVIOUS
<1>11. /\ y \in 1..(N - 1) /\ y + 1 = m /\ y \in 1..N /\ y \in Nat
       /\ ~(m <= y) /\ (y # k => y \in (k + 1)..N /\ y # 1)
  BY <1>9, <1>10
<1>12. stack[y].node \in Computed
  <2>1. CASE y = k BY <1>2, <1>3, <2>1 DEF Computing
  <2>2. CASE y # k
    <3>1. stack[y].node \notin Watch BY <1>11, <2>2 DEF Trust, IInv, GoodStack, N
    <3>2. stack[y].node \in Consumer BY <1>11, BelowTop DEF N
    <3> QED BY <3>1, <3>2 DEF Consumer
  <2> QED BY <2>1, <2>2
<1>13. stack[m].node \in Computed => rank[stack[m].node] < rank[stack[y].node]
  BY <1>4, <1>11, <1>12, CallsLower DEF N
<1>14. y = k \/ rank[stack[y].node] < rank[c]
  <2> SUFFICES ASSUME y # k PROVE rank[stack[y].node] < rank[c] OBVIOUS
  <2>1. y \notin T BY <1>7, <1>11
  <2>2. Low(y) BY <1>11, <2>1 DEF T
  <2> QED BY <1>12, <2>2
<1>15. y = k => stack[y].node = c BY <1>3 DEF Computing
<1>16. Low(m)
  <2> SUFFICES ASSUME stack[m].node \in Computed PROVE rank[stack[m].node] < rank[c] OBVIOUS
  <2>1. rank[stack[m].node] \in Nat /\ rank[stack[y].node] \in Nat /\ rank[c] \in Nat
    BY <1>2, <1>4, <1>12
  <2>2. rank[stack[m].node] < rank[stack[y].node] BY <1>13
  <2>3. rank[stack[y].node] <= rank[c] BY <1>14, <1>15, <2>1
  <2> QED BY <2>1, <2>2, <2>3
<1> QED BY <1>8, <1>16

-----------------------------------------------------------------------------
(* What a step leaves as it was.                                           *)

SameEval ==
    program' = program /\ \A x \in Signal : value'[x] = value[x]

\* A version that stays stands for what it stood for.
HeldKept ==
    \A n \in Producer :
        \/ version'[n] > version[n]
        \/ version'[n] = version[n] /\ \A r : Held(n, r) => Held(n, r)'

LEMMA EvalKept == ASSUME SameEval PROVE Eval' = Eval
<1>1. SignalValues' = SignalValues BY DEF SameEval, SignalValues
<1> QED BY <1>1 DEF SameEval, Eval

LEMMA DepsOf ==
    ASSUME Trust, NEW c \in Computed
    PROVE  /\ c \in Node /\ c \in Consumer /\ c \notin destroyed
           /\ Len(deps[c]) \in Nat /\ nextIndex[c] \in Nat /\ nextIndex[c] <= Len(deps[c])
           /\ \A i \in 1..Len(deps[c]) : /\ deps[c][i].node \in Producer
                                         /\ deps[c][i].seen \in Nat
<1>1. c \in Node /\ c \in Consumer /\ c \notin destroyed
  BY Types, NodesDisjoint DEF Node, Consumer
<1>2. deps[c] \in Seq(Dep) /\ Len(deps[c]) \in Nat /\ nextIndex[c] \in Nat
      /\ nextIndex[c] <= Len(deps[c])
  BY <1>1, Types
<1>3. \A i \in 1..Len(deps[c]) : deps[c][i].node # NoNode
  BY <1>1 DEF Trust, IInv, NoHoles
<1>4. \A i \in 1..Len(deps[c]) : deps[c][i] \in Dep BY <1>2
<1>5. \A i \in 1..Len(deps[c]) : deps[c][i].node \in Producer /\ deps[c][i].seen \in Nat
  BY <1>3, <1>4 DEF Dep
<1> QED BY <1>1, <1>2, <1>5

LEMMA AgreesKept ==
    ASSUME Trust, Trust', HeldKept, NEW d, d.node \in Producer, d.seen \in Nat,
           d.seen <= version[d.node], NEW r, Agrees(d, r)
    PROVE  Agrees(d, r)'
<1>1. version[d.node] \in Nat /\ version'[d.node] \in Nat
  <2>1. d.node \in Node BY DEF Producer, Node
  <2>2. version \in [Node -> Nat] /\ version' \in [Node -> Nat] BY DEF Trust, IInv, TypeOK
  <2> QED BY <2>1, <2>2
<1>2. CASE version'[d.node] > version[d.node]
  <2>1. d.seen # version'[d.node] BY <1>1, <1>2
  <2> QED BY <2>1 DEF Agrees
<1>3. CASE version'[d.node] = version[d.node] /\ \A q : Held(d.node, q) => Held(d.node, q)'
  BY <1>3 DEF Agrees
<1> QED BY <1>2, <1>3 DEF HeldKept

LEMMA CoversKept ==
    ASSUME Trust, Trust', SeenBefore, HeldKept, program' = program,
           NEW c \in Computed, NEW t, NEW m, NEW k \in Nat, k <= Len(deps[c]),
           \A i \in 1..k : deps'[c][i] = deps[c][i],
           Covers(c, t, m, k)
    PROVE  Covers(c, t, m, k)'
<1> SUFFICES ASSUME NEW x \in 1..m, OpAt(program, c, t, x).op = "read"
             PROVE  \E i \in 1..k : /\ deps'[c][i].node = OpAt(program, c, t, x).node
                                    /\ Agrees(deps[c][i], t[x])'
  BY Zenon DEF Covers
<1>1. PICK i \in 1..k : /\ deps[c][i].node = OpAt(program, c, t, x).node
                        /\ Agrees(deps[c][i], t[x])
  BY DEF Covers
<1>2. i \in 1..Len(deps[c]) BY DepsOf
<1>3. PICK d : d = deps[c][i] OBVIOUS
<1>4. d.node \in Producer /\ d.seen \in Nat /\ d.seen <= version[d.node]
  BY <1>2, <1>3, DepsOf DEF SeenBefore
<1>5. Agrees(d, t[x])' BY <1>1, <1>3, <1>4, AgreesKept
<1>6. deps'[c][i] = d BY <1>3
<1>7. Agrees(deps[c][i], t[x])' BY <1>5, <1>6 DEF Agrees
<1> QED BY <1>1, <1>3, <1>6, <1>7

LEMMA RemembersKept ==
    ASSUME Trust, Trust', SeenBefore, HeldKept, program' = program,
           NEW c \in Computed, NEW t, NEW k \in Nat, k <= Len(deps[c]),
           \A i \in 1..k : deps'[c][i] = deps[c][i],
           Remembers(c, t, k)
    PROVE  Remembers(c, t, k)'
<1>1. Covers(c, t, Len(t), k)' BY CoversKept DEF Remembers
<1>2. ASSUME NEW i \in 1..k
      PROVE  \E m \in 1..Len(t) :
                /\ OpAt(program, c, t, m).op = "read"
                /\ OpAt(program, c, t, m).node = deps'[c][i].node
                /\ Covers(c, t, m - 1, i - 1)'
  <2>1. PICK m \in 1..Len(t) :
          /\ OpAt(program, c, t, m).op = "read"
          /\ OpAt(program, c, t, m).node = deps[c][i].node
          /\ Covers(c, t, m - 1, i - 1)
    BY DEF Remembers
  <2>2. i - 1 \in Nat /\ i - 1 <= Len(deps[c]) /\ \A j \in 1..(i - 1) : j \in 1..k
    BY DepsOf
  <2>3. PICK l \in Nat : l = i - 1 BY <2>2
  <2>4. Covers(c, t, m - 1, l)' BY <2>1, <2>2, <2>3, CoversKept
  <2> QED BY <2>1, <2>3, <2>4
<1> QED BY <1>1, <1>2 DEF Remembers

LEMMA MemoKept ==
    ASSUME Trust, Trust', SeenBefore, HeldKept, program' = program,
           NEW c \in Computed, MemoOK(c), value'[c] = value[c], deps'[c] = deps[c]
    PROVE  MemoOK(c)'
<1> SUFFICES ASSUME value[c] \notin {UNSET, COMPUTING}
             PROVE  \E t : /\ Plain(program, c, t)
                           /\ Body[program][c][t].op = "return"
                           /\ Body[program][c][t].val = value[c]
                           /\ Remembers(c, t, Len(deps[c]))'
  BY DEF MemoOK
<1>1. PICK t : /\ Plain(program, c, t)
               /\ Body[program][c][t].op = "return" /\ Body[program][c][t].val = value[c]
               /\ Remembers(c, t, Len(deps[c]))
  BY DEF MemoOK
<1>2. PICK k \in Nat : k = Len(deps[c]) BY DepsOf
<1>3. Remembers(c, t, k)' BY <1>1, <1>2, RemembersKept
<1>4. Remembers(c, t, Len(deps[c]))' BY <1>2, <1>3
<1> QED BY <1>1, <1>4

\* Frame g goes on from f without a new result.
FrameSame(f, g) ==
    /\ g.node = f.node /\ g.trace = f.trace /\ g.old = f.old
    /\ g.at \in {"body", "await"} => f.at \in {"body", "await"}

LEMMA ComputedKept ==
    ASSUME Trust, Trust', SeenBefore, HeldKept, SameEval, NEW f, NEW g, ComputedOK(f),
           FrameSame(f, g),
           f.node \in Computed => /\ nextIndex'[f.node] = nextIndex[f.node]
                                  /\ deps'[f.node] = deps[f.node]
    PROVE  ComputedOK(g)'
<1> SUFFICES ASSUME g.at \in {"body", "await"}, f.node \in Computed
             PROVE  /\ Plain(program, f.node, f.trace)
                    /\ Remembers(f.node, f.trace, nextIndex[f.node])'
                    /\ \A j \in 1..Len(f.trace) :
                          OpAt(program, f.node, f.trace, j).op = "read"
                            => f.trace[j] = Eval[OpAt(program, f.node, f.trace, j).node]
  BY EvalKept DEF ComputedOK, FrameSame, SameEval
<1>1. PICK k \in Nat : k = nextIndex[f.node] /\ k <= Len(deps[f.node]) BY DepsOf
<1>2. /\ Plain(program, f.node, f.trace) /\ Remembers(f.node, f.trace, k)
      /\ \A j \in 1..Len(f.trace) :
            OpAt(program, f.node, f.trace, j).op = "read"
              => f.trace[j] = Eval[OpAt(program, f.node, f.trace, j).node]
  BY <1>1 DEF ComputedOK, FrameSame
<1>3. Remembers(f.node, f.trace, k)' BY <1>1, <1>2, RemembersKept DEF SameEval
<1> QED BY <1>1, <1>2, <1>3

LEMMA WatchKept ==
    ASSUME SameEval, NEW f, NEW g, WatchOK(f), FrameSame(f, g)
    PROVE  WatchOK(g)'
<1>1. Eval' = Eval BY EvalKept
<1> QED BY <1>1 DEF WatchOK, FrameSame, SameEval

\* The same computations are in progress, and none has a new result.
Stays ==
    /\ \A k \in 1..Len(stack) : stack[k].at \in {"body", "await"} =>
          \E j \in 1..Len(stack') : Computing(stack'[j], stack[k].node)
    /\ \A j \in 1..Len(stack') : stack'[j].at \in {"body", "await"} =>
          \E k \in 1..Len(stack) : FrameSame(stack[k], stack'[j])

LEMMA HeldSame ==
    ASSUME value' = value, version' = version,
           \A j \in 1..Len(stack') :
              stack'[j].at \in {"body", "await"} /\ stack'[j].node \in Producer =>
                  \E k \in 1..Len(stack) : Computing(stack[k], stack'[j].node)
                                             /\ stack[k].old = stack'[j].old
    PROVE  HeldKept
<1> SUFFICES ASSUME NEW n \in Producer, NEW r, Held(n, r) PROVE Held(n, r)'
  BY DEF HeldKept
<1>1. ASSUME value[n] = COMPUTING, NEW j \in 1..Len(stack'), Computing(stack'[j], n)
      PROVE  stack'[j].old = r
  <2>1. PICK k \in 1..Len(stack) : Computing(stack[k], n) /\ stack[k].old = stack'[j].old
    BY <1>1 DEF Computing
  <2> QED BY <1>1, <2>1 DEF Held
<1>2. CASE value[n] = COMPUTING
  <2>1. \A j \in 1..Len(stack') : Computing(stack'[j], n) => stack'[j].old = r
    BY <1>1, <1>2
  <2> QED BY <1>2, <2>1 DEF Held
<1>3. CASE value[n] # COMPUTING BY <1>3 DEF Held
<1> QED BY <1>2, <1>3

LEMMA StaysMemory ==
    ASSUME Trust, Trust', Memory, Stays, UNCHANGED <<program, value, version, edgeVars>>
    PROVE  Memory'
<1>1. SameEval BY DEF SameEval
<1>2. HeldKept
  <2>1. \A j \in 1..Len(stack') : stack'[j].at \in {"body", "await"} =>
            \E k \in 1..Len(stack) : Computing(stack[k], stack'[j].node)
                                       /\ stack[k].old = stack'[j].old
    BY DEF Stays, FrameSame, Computing
  <2> QED BY <2>1, HeldSame
<1>3. SeenBefore' BY DEF Memory, SeenBefore, edgeVars
<1>4. Marked'
  <2> SUFFICES ASSUME NEW c \in Computed, value[c] = COMPUTING
               PROVE  \E j \in 1..Len(stack') : Computing(stack'[j], c)
    BY DEF Marked
  <2>1. PICK k \in 1..Len(stack) : Computing(stack[k], c) BY DEF Memory, Marked
  <2> QED BY <2>1 DEF Stays, Computing
<1>5. Memos'
  <2>1. \A c \in Computed : MemoOK(c)'
    BY <1>2, MemoKept DEF Memory, Memos, edgeVars
  <2> QED BY <2>1 DEF Memos
<1>6. Bodies'
  <2> SUFFICES ASSUME NEW j \in 1..Len(stack')
               PROVE  (ComputedOK(stack[j]) /\ WatchOK(stack[j]))'
    BY DEF Bodies
  <2>1. PICK g : g = stack'[j] OBVIOUS
  <2>2. ComputedOK(g)' /\ WatchOK(g)'
    <3>1. CASE g.at \notin {"body", "await"} BY <3>1 DEF ComputedOK, WatchOK
    <3>2. CASE g.at \in {"body", "await"}
      <4>1. PICK k \in 1..Len(stack) : FrameSame(stack[k], g) BY <2>1, <3>2 DEF Stays
      <4>2. PICK f : f = stack[k] OBVIOUS
      <4>3. FrameSame(f, g) /\ ComputedOK(f) /\ WatchOK(f)
        BY <4>1, <4>2 DEF Memory, Bodies
      <4>4. ComputedOK(g)' BY <1>1, <1>2, <4>3, ComputedKept DEF Memory, edgeVars
      <4>5. WatchOK(g)' BY <1>1, <4>3, WatchKept
      <4> QED BY <4>4, <4>5
    <3> QED BY <3>1, <3>2
  <2> QED BY <2>1, <2>2 DEF ComputedOK, WatchOK
<1> QED BY <1>3, <1>4, <1>5, <1>6 DEF Memory

\* No computed is being computed before or after the step.
Quiet(st) == \A k \in 1..Len(st) : st[k].node \in Computed => st[k].at \notin {"body", "await"}

LEMMA QuietMemory ==
    ASSUME Trust, Trust', Memory, program' = program, Quiet(stack), Quiet(stack'),
           \A c \in Computed : /\ value'[c] = value[c] /\ version'[c] = version[c]
                               /\ deps'[c] = deps[c],
           \A x \in Signal : \/ version'[x] > version[x]
                             \/ version'[x] = version[x] /\ value'[x] = value[x],
           \A k \in 1..Len(stack') : WatchOK(stack[k])'
    PROVE  Memory'
<1>1. \A c \in Computed : value[c] # COMPUTING /\ value'[c] # COMPUTING
  BY DEF Memory, Marked, Computing, Quiet
<1>2. \A x \in Signal : value[x] # COMPUTING /\ value'[x] # COMPUTING
  BY ValuesDistinct DEF Trust, IInv, SignalsPlain
<1>3. HeldKept
  <2> SUFFICES ASSUME NEW n \in Producer, ~(version'[n] > version[n])
               PROVE  version'[n] = version[n] /\ \A r : Held(n, r) => Held(n, r)'
    BY DEF HeldKept
  <2>1. version'[n] = version[n] /\ value'[n] = value[n] BY DEF Producer
  <2>2. value[n] # COMPUTING /\ value'[n] # COMPUTING BY <1>1, <1>2 DEF Producer
  <2> QED BY <2>1, <2>2 DEF Held
<1>4. SeenBefore'
  <2> SUFFICES ASSUME NEW c \in Computed, NEW i \in 1..Len(deps[c])
               PROVE  deps[c][i].seen <= version'[deps[c][i].node]
    BY DEF SeenBefore
  <2>1. deps[c][i].seen <= version[deps[c][i].node] BY DEF Memory, SeenBefore
  <2>2. PICK n : n = deps[c][i].node OBVIOUS
  <2>3. n \in Producer /\ deps[c][i].seen \in Nat BY <2>2, DepsOf
  <2>4. version[n] \in Nat /\ version'[n] \in Nat
    <3>1. n \in Node BY <2>3 DEF Producer, Node
    <3> QED BY <3>1 DEF Trust, IInv, TypeOK
  <2>5. version'[n] = version[n] \/ version'[n] > version[n] BY <2>3 DEF Producer
  <2> QED BY <2>1, <2>2, <2>3, <2>4, <2>5
<1>5. Marked' BY <1>1 DEF Marked
<1>6. Memos'
  <2>1. \A c \in Computed : MemoOK(c)' BY <1>3, MemoKept DEF Memory, Memos
  <2> QED BY <2>1 DEF Memos
<1>7. Bodies'
  <2>1. \A k \in 1..Len(stack') : ComputedOK(stack[k])' BY DEF Quiet, ComputedOK
  <2> QED BY <2>1 DEF Bodies
<1> QED BY <1>4, <1>5, <1>6, <1>7 DEF Memory

\* Steps that only move the innermost call.
LEMMA PutStays ==
    ASSUME Trust, Busy, NEW f, stack' = SetTop(f), FrameSame(Top, f),
           Top.at \in {"body", "await"} => f.at \in {"body", "await"}
    PROVE  Stays
<1>1. stack \in Seq(Frame) /\ Len(stack) \in Nat \ {0} /\ Top = stack[Len(stack)] BY TopIs
<1>2. /\ Len(stack') = Len(stack) /\ stack'[Len(stack)] = f
      /\ \A k \in 1..Len(stack) : k # Len(stack) => stack'[k] = stack[k]
  BY <1>1 DEF SetTop
<1>3. \A k \in 1..Len(stack) : FrameSame(stack[k], stack'[k])
      /\ (stack[k].at \in {"body", "await"} => Computing(stack'[k], stack[k].node))
  BY <1>1, <1>2 DEF FrameSame, Computing
<1> QED BY <1>2, <1>3 DEF Stays

LEMMA PopFrames ==
    ASSUME Trust, Busy, stack' = Pop
    PROVE  /\ Len(stack') = Len(stack) - 1
           /\ \A k \in 1..(Len(stack) - 1) : stack'[k] = stack[k]
<1> DEFINE L == Len(stack)
<1>1. stack \in Seq(Frame) /\ L \in Nat \ {0} BY TopIs
<1>2. stack' = SubSeq(stack, 1, L - 1) BY DEF Pop
<1>3. L - 1 \in Nat /\ L - 1 <= L /\ L = Len(stack) BY <1>1
<1> HIDE DEF L
<1> QED BY <1>1, <1>2, <1>3

LEMMA PopStays ==
    ASSUME Trust, Busy, stack' = Pop, Top.at \notin {"body", "await"}
    PROVE  Stays
<1>1. stack \in Seq(Frame) /\ Len(stack) \in Nat \ {0} /\ Top = stack[Len(stack)] BY TopIs
<1>2. /\ Len(stack') = Len(stack) - 1
      /\ \A k \in 1..(Len(stack) - 1) : stack'[k] = stack[k]
  BY PopFrames
<1>3. \A k \in 1..Len(stack) : k # Len(stack) => k \in 1..(Len(stack) - 1) BY <1>1
<1>4. \A k \in 1..(Len(stack) - 1) : k \in 1..Len(stack) BY <1>1
<1> QED BY <1>1, <1>2, <1>3, <1>4 DEF Stays, FrameSame, Computing

LEMMA PushStays ==
    ASSUME Trust, Busy, NEW f, NEW g, stack' = Append(SetTop(f), g), FrameSame(Top, f),
           Top.at \in {"body", "await"} => f.at \in {"body", "await"},
           g.at = "update"
    PROVE  Stays
<1>1. stack \in Seq(Frame) /\ Len(stack) \in Nat \ {0} /\ Top = stack[Len(stack)] BY TopIs
<1>2. /\ Len(stack') = Len(stack) + 1 /\ stack'[Len(stack) + 1] = g
      /\ stack'[Len(stack)] = f
      /\ \A k \in 1..Len(stack) : k # Len(stack) => stack'[k] = stack[k]
  BY <1>1 DEF SetTop
<1>3. \A k \in 1..Len(stack) : FrameSame(stack[k], stack'[k])
      /\ (stack[k].at \in {"body", "await"} => Computing(stack'[k], stack[k].node))
  BY <1>1, <1>2 DEF FrameSame, Computing
<1>4. \A j \in 1..Len(stack') : j \in 1..Len(stack) \/ stack'[j] = g BY <1>1, <1>2
<1>5. \A k \in 1..Len(stack) : k \in 1..Len(stack') BY <1>1, <1>2
<1> QED BY <1>3, <1>4, <1>5 DEF Stays

-----------------------------------------------------------------------------
(* The steps.                                                              *)

LEMMA Reframed ==
    ASSUME NEW f \in Frame, NEW a \in {"poll", "polled", "await"}, NEW n \in Nat
    PROVE  LET g == [f EXCEPT !.at = a, !.i = n]
               h == [f EXCEPT !.at = a]
           IN  /\ g.node = f.node /\ g.trace = f.trace /\ g.old = f.old /\ g.at = a
               /\ h.node = f.node /\ h.trace = f.trace /\ h.old = f.old /\ h.at = a
BY DEF Frame

LEMMA CallMemory ==
    ASSUME Trust, Trust', Memory, UNCHANGED program,
           \/ UpdateSkip \/ UpdatePoll \/ PollProducer \/ PollNext \/ PollUnchanged
           \/ BodyCallComputed
    PROVE  Memory'
<1>0. Busy
  BY DEF UpdateSkip, UpdatePoll, PollProducer, PollNext, PollUnchanged, BodyCallComputed,
         Updating, Polling, Running
<1>1. Top \in Frame /\ Top.i \in Nat /\ Top.i + 1 \in Nat /\ 1 \in Nat
  BY <1>0, TopIs DEF Frame
<1>2. CASE UpdateSkip
  <2>1. Stays BY <1>0, <1>2, PopStays DEF UpdateSkip, Updating
  <2> QED BY <1>2, <2>1, StaysMemory DEF UpdateSkip, nodeVars, edgeVars
<1>3. CASE UpdatePoll
  <2> DEFINE f == [Top EXCEPT !.at = "poll", !.i = 1]
  <2>1. stack' = SetTop(f) /\ Top.at = "update" BY <1>3 DEF UpdatePoll, Updating
  <2>2. FrameSame(Top, f) BY <1>1, Reframed DEF FrameSame
  <2> HIDE DEF f
  <2>3. Stays BY <1>0, <2>1, <2>2, PutStays
  <2> QED BY <1>3, <2>3, StaysMemory DEF UpdatePoll, nodeVars, edgeVars
<1>4. CASE PollProducer
  <2> DEFINE f == [Top EXCEPT !.at = "polled"]
  <2>1. stack' = Append(SetTop(f), Call(Polled.node)) /\ Top.at = "poll"
    BY <1>4 DEF PollProducer
  <2>2. FrameSame(Top, f) BY <1>1, Reframed DEF FrameSame
  <2>3. Call(Polled.node).at = "update" BY DEF Call
  <2> HIDE DEF f
  <2>4. Stays BY <1>0, <2>1, <2>2, <2>3, PushStays
  <2> QED BY <1>4, <2>4, StaysMemory DEF PollProducer, nodeVars, edgeVars
<1>5. CASE PollNext
  <2> DEFINE f == [Top EXCEPT !.at = "poll", !.i = @ + 1]
  <2>1. stack' = SetTop(f) /\ Top.at = "polled" BY <1>5 DEF PollNext
  <2>2. FrameSame(Top, f) BY <1>1, Reframed DEF FrameSame
  <2> HIDE DEF f
  <2>3. Stays BY <1>0, <2>1, <2>2, PutStays
  <2> QED BY <1>5, <2>3, StaysMemory DEF PollNext, nodeVars, edgeVars
<1>6. CASE PollUnchanged
  <2>1. Stays BY <1>0, <1>6, PopStays DEF PollUnchanged, Polling
  <2> QED BY <1>6, <2>1, StaysMemory DEF PollUnchanged, edgeVars
<1>7. CASE BodyCallComputed
  <2> DEFINE f == [Top EXCEPT !.at = "await"]
  <2>1. stack' = Append(SetTop(f), Call(Current.node)) /\ Top.at = "body"
    BY <1>7 DEF BodyCallComputed, Running
  <2>2. FrameSame(Top, f) /\ f.at = "await" BY <1>1, <2>1, Reframed DEF FrameSame
  <2>3. Call(Current.node).at = "update" BY DEF Call
  <2> HIDE DEF f
  <2>4. Stays BY <1>0, <2>1, <2>2, <2>3, PushStays
  <2> QED BY <1>7, <2>4, StaysMemory DEF BodyCallComputed, nodeVars, edgeVars
<1> QED BY <1>2, <1>3, <1>4, <1>5, <1>6, <1>7

\* A result more.
LEMMA LongerOps ==
    ASSUME NEW p, NEW n, NEW t \in Trace, NEW u \in Trace, Len(u) = Len(t) + 1,
           \A j \in 1..Len(t) : u[j] = t[j]
    PROVE  /\ \A j \in 1..(Len(t) + 1) : OpAt(p, n, u, j) = OpAt(p, n, t, j)
           /\ OpAt(p, n, u, Len(t) + 1) = Body[p][n][t]
<1>1. Len(t) \in Nat /\ SubSeq(t, 1, Len(t)) = t BY TraceSeq
<1>2. \A j \in 1..(Len(t) + 1) : SubSeq(u, 1, j - 1) = SubSeq(t, 1, j - 1)
  <2> SUFFICES ASSUME NEW j \in 1..(Len(t) + 1)
               PROVE  SubSeq(u, 1, j - 1) = SubSeq(t, 1, j - 1)
    OBVIOUS
  <2>1. j - 1 \in Nat /\ j - 1 <= Len(t) /\ j - 1 <= Len(u) BY <1>1
  <2>2. \A i \in 1..(j - 1) : u[i] = t[i] BY <1>1, <2>1
  <2> QED BY <2>1, <2>2, SameStart
<1>3. \A j \in 1..(Len(t) + 1) : OpAt(p, n, u, j) = OpAt(p, n, t, j) BY <1>2 DEF OpAt
<1>4. OpAt(p, n, t, Len(t) + 1) = Body[p][n][t]
  <2>1. (Len(t) + 1) - 1 = Len(t) BY <1>1
  <2> QED BY <1>1, <2>1 DEF OpAt
<1>5. Len(t) + 1 \in 1..(Len(t) + 1) BY <1>1
<1> QED BY <1>3, <1>4, <1>5

LEMMA ResumeFrame ==
    ASSUME Trust, Busy, Top.at \in {"body", "await"}, Current.op # "return",
           NEW r \in Result, stack' = Resume(r)
    PROVE  \E f, g : /\ f = Top /\ f.trace \in Trace /\ Append(f.trace, r) \in Trace
                     /\ g.at = "body" /\ g.node = f.node /\ g.old = f.old
                     /\ g.trace = Append(f.trace, r)
                     /\ Len(stack') = Len(stack) /\ stack'[Len(stack)] = g
                     /\ \A k \in 1..(Len(stack) - 1) : stack'[k] = stack[k]
<1> DEFINE g == [Top EXCEPT !.at = "body", !.trace = Append(@, r)]
<1>1. /\ stack \in Seq(Frame) /\ Len(stack) \in Nat \ {0} /\ Top = stack[Len(stack)]
      /\ Top \in Frame
  BY TopIs
<1>2. Top.trace \in Trace /\ Append(Top.trace, r) \in Trace
  BY CurrentGood DEF Trust
<1>3. g.at = "body" /\ g.node = Top.node /\ g.old = Top.old /\ g.trace = Append(Top.trace, r)
  BY <1>1 DEF Frame
<1>4. stack' = SetTop(g) BY DEF Resume
<1> HIDE DEF g
<1>5. /\ Len(stack') = Len(stack) /\ stack'[Len(stack)] = g
      /\ \A k \in 1..(Len(stack) - 1) : stack'[k] = stack[k]
  BY <1>1, <1>4 DEF SetTop
<1> QED BY <1>2, <1>3, <1>5

-----------------------------------------------------------------------------
(* The steps of a watch, and what is done from outside.                   *)

\* A watch runs alone.
LEMMA WatchAlone ==
    ASSUME Trust, Busy, Top.node \in Watch
    PROVE  Len(stack) = 1 /\ Top = stack[1] /\ Quiet(stack) /\ Top.node \notin Computed
<1>1. Len(stack) = 1 /\ Top = stack[Len(stack)] BY TopIs
<1>2. Top.node \notin Computed BY NodesDisjoint
<1> QED BY <1>1, <1>2 DEF Quiet

\* What a step of a watch, or from outside, may change of the graph.
Outside ==
    /\ program' = program
    /\ \A c \in Computed : /\ value'[c] = value[c] /\ version'[c] = version[c]
                           /\ deps'[c] = deps[c]
    /\ \A x \in Signal : \/ version'[x] > version[x]
                         \/ version'[x] = version[x] /\ value'[x] = value[x]

LEMMA SetSignalIs ==
    ASSUME Trust, program' = program, deps' = deps, NEW s \in Signal, NEW v, SetSignal(s, v)
    PROVE  Outside
<1>1. \A x \in Signal : x \in Node /\ x \notin Computed BY NodesDisjoint DEF Node
<1>2. \A c \in Computed : c \in Node /\ c # s BY <1>1 DEF Node
<1>3. CASE value[s] = v BY <1>3 DEF SetSignal, Outside, nodeVars
<1>4. CASE value[s] # v
  <2>1. /\ value' = [value EXCEPT ![s] = v] /\ version' = [version EXCEPT ![s] = @ + 1]
    BY <1>4 DEF SetSignal
  <2>2. version[s] \in Nat /\ version'[s] = version[s] + 1 BY <1>1, <2>1, Types
  <2>3. version'[s] > version[s] BY <2>2
  <2>4. \A x \in Node : x # s => value'[x] = value[x] /\ version'[x] = version[x]
    BY <2>1, Types
  <2> QED BY <1>1, <1>2, <2>3, <2>4 DEF Outside
<1> QED BY <1>3, <1>4

LEMMA OutsideMemory ==
    ASSUME Trust, Trust', Memory, Outside, Quiet(stack), Quiet(stack'),
           \A k \in 1..Len(stack') : WatchOK(stack[k])'
    PROVE  Memory'
BY QuietMemory DEF Outside

LEMMA IdleMemory ==
    ASSUME Trust, Trust', Memory, UNCHANGED program,
           \/ External
           \/ \E w \in Watch : Run(w) \/ RunDestroyed(w)
    PROVE  Memory'
<1>1. ~Busy BY DEF External, Set, Read, Notify, Destroy, Run, RunDestroyed
<1>2. stack = <<>> /\ Quiet(stack) BY <1>1, NotBusy DEF Quiet
<1>3. Outside
  <2>1. CASE \E s \in Signal, v \in Value : Set(s, v)
    BY <2>1, SetSignalIs DEF Set, edgeVars
  <2>2. ASSUME NEW w \in Watch, Destroy(w) PROVE Outside
    <3>1. \A c \in Computed : c \in Node /\ c # w BY NodesDisjoint DEF Node
    <3>2. deps' = deps \/ deps' = [deps EXCEPT ![w] = <<>>]
      BY <2>2 DEF Destroy, DestroyWatch
    <3>3. \A c \in Computed : deps'[c] = deps[c] BY <3>1, <3>2, Types
    <3> QED BY <2>2, <3>3 DEF Destroy, Outside, nodeVars
  <2>3. CASE \E c \in Computed : Read(c)
    BY <2>3 DEF Read, Outside, nodeVars, edgeVars
  <2>4. CASE \E w \in Watch : Notify(w)
    BY <2>4 DEF Notify, Outside, edgeVars
  <2>5. CASE \E w \in Watch : RunDestroyed(w)
    BY <2>5 DEF RunDestroyed, Outside, nodeVars, edgeVars
  <2>6. CASE \E w \in Watch : Run(w)
    BY <2>6 DEF Run, Outside
  <2> QED BY <2>1, <2>2, <2>3, <2>4, <2>5, <2>6 DEF External
<1>4. CASE stack' = <<>>
  <2>1. Quiet(stack') BY <1>4 DEF Quiet
  <2>2. \A k \in 1..Len(stack') : WatchOK(stack[k])' BY <1>4
  <2> QED BY <1>2, <1>3, <2>1, <2>2, OutsideMemory
<1>5. ASSUME NEW c \in Computed, Read(c) PROVE Memory'
  <2>1. /\ Len(stack') = 1 /\ stack'[1].at = "update"
    BY <1>5 DEF Read, Call
  <2>2. Quiet(stack') /\ \A k \in 1..Len(stack') : WatchOK(stack[k])'
    BY <2>1 DEF Quiet, WatchOK
  <2> QED BY <1>2, <1>3, <2>2, OutsideMemory
<1>6. ASSUME NEW w \in Watch, Run(w) PROVE Memory'
  <2>1. Len(stack') = 1 /\ stack'[1].node = w /\ stack'[1].trace = <<>>
    <3>1. /\ [Call(w) EXCEPT !.at = "body"].node = w /\ [Call(w) EXCEPT !.at = "body"].trace = <<>>
          /\ [Call(w) EXCEPT !.at = "poll", !.i = 1].node = w
          /\ [Call(w) EXCEPT !.at = "poll", !.i = 1].trace = <<>>
      BY DEF Call
    <3>2. \/ stack' = <<[Call(w) EXCEPT !.at = "poll", !.i = 1]>>
          \/ stack' = <<[Call(w) EXCEPT !.at = "body"]>>
      BY <1>6 DEF Run
    <3>3. PICK f : f.node = w /\ f.trace = <<>> /\ stack' = <<f>> BY <3>1, <3>2, Zenon
    <3> QED BY <3>3
  <2>2. w \notin Computed BY NodesDisjoint
  <2>3. Quiet(stack') /\ \A k \in 1..Len(stack') : WatchOK(stack[k])'
    BY <2>1, <2>2 DEF Quiet, WatchOK
  <2> QED BY <1>2, <1>3, <2>3, OutsideMemory
<1>7. stack' = <<>> \/ (\E c \in Computed : Read(c)) \/ (\E w \in Watch : Run(w))
  BY <1>2 DEF External, Set, Notify, Destroy, RunDestroyed
<1> QED BY <1>4, <1>5, <1>6, <1>7

\* What user code has read so far, when one more operation is over.
LEMMA WatchGrows ==
    ASSUME NEW f, NEW g, NEW r \in Result, WatchOK(f), f.at \in {"body", "await"},
           f.node \in Watch, f.trace \in Trace, Append(f.trace, r) \in Trace,
           g.node = f.node, g.trace = Append(f.trace, r), program' = program,
           NEW o, o = Body[program][f.node][f.trace],
           \/ o.op = "set"
           \/ SameEval /\ (o.op \in {"read", "peek"} => r = Eval[o.node])
    PROVE  WatchOK(g)'
<1> PICK n \in Watch : n = f.node OBVIOUS
<1> PICK t \in Trace : t = f.trace OBVIOUS
<1> PICK u \in Trace : u = Append(t, r) OBVIOUS
<1>1. /\ Len(u) = Len(t) + 1 /\ u[Len(t) + 1] = r /\ \A j \in 1..Len(t) : u[j] = t[j]
      /\ \A j \in 1..(Len(t) + 1) : OpAt(program, n, u, j) = OpAt(program, n, t, j)
      /\ OpAt(program, n, u, Len(t) + 1) = o
      /\ Len(t) \in Nat
  <2>1. Len(t) \in Nat /\ t \in Seq(Result) BY TraceSeq
  <2>2. Len(u) = Len(t) + 1 /\ u[Len(t) + 1] = r /\ \A j \in 1..Len(t) : u[j] = t[j]
    BY <2>1
  <2>3. /\ \A j \in 1..(Len(t) + 1) : OpAt(program, n, u, j) = OpAt(program, n, t, j)
        /\ OpAt(program, n, u, Len(t) + 1) = Body[program][n][t]
    BY ONLY <2>2, LongerOps, t \in Trace, u \in Trace
  <2>4. o = Body[program][n][t] OBVIOUS
  <2> QED BY <2>1, <2>2, <2>3, <2>4
<1>0. g.node = n /\ g.trace = u /\ program' = program OBVIOUS
<1> SUFFICES ASSUME NEW j \in 1..Len(u),
                    /\ OpAt(program, n, u, j).op \in {"read", "peek"}
                    /\ \A m \in j..Len(u) : OpAt(program, n, u, m).op # "set"
             PROVE  u[j] = Eval'[OpAt(program, n, u, j).node]
  BY <1>0, ZenonT(30) DEF WatchOK
<1>2. Len(u) \in j..Len(u) BY <1>1
<1>3. o.op # "set" BY <1>1, <1>2
<1>4. Eval' = Eval BY <1>3, EvalKept
<1>5. CASE j = Len(t) + 1 BY <1>1, <1>3, <1>4, <1>5
<1>6. CASE j # Len(t) + 1
  <2>1. j \in 1..Len(t) BY <1>1, <1>6
  <2>2. \A m \in j..Len(t) : m \in j..Len(u) /\ m \in 1..(Len(t) + 1) BY <1>1
  <2>3. \A m \in j..Len(t) : OpAt(program, n, t, m).op # "set" BY <1>1, <2>2
  <2>4. OpAt(program, n, u, j) = OpAt(program, n, t, j) BY <1>1
  <2>5. t[j] = Eval[OpAt(program, n, t, j).node] BY <2>1, <2>3, <2>4 DEF WatchOK
  <2> QED BY <1>1, <1>4, <2>1, <2>4, <2>5
<1> QED BY <1>5, <1>6

LEMMA WatchResumes ==
    ASSUME Trust, Trust', Memory, Outside, Busy, Top.node \in Watch,
           Top.at \in {"body", "await"}, Current.op # "return",
           NEW r \in Result, stack' = Resume(r),
           \/ Current.op = "set"
           \/ SameEval /\ (Current.op \in {"read", "peek"} => r = Eval[Current.node])
    PROVE  Memory'
<1>1. PICK f, g : /\ f = Top /\ f.trace \in Trace /\ Append(f.trace, r) \in Trace
                  /\ g.at = "body" /\ g.node = f.node /\ g.old = f.old
                  /\ g.trace = Append(f.trace, r)
                  /\ Len(stack') = Len(stack) /\ stack'[Len(stack)] = g
  BY ResumeFrame
<1>2. Len(stack) = 1 /\ f = stack[1] /\ Quiet(stack) /\ f.node \notin Computed
  BY <1>1, WatchAlone
<1>3. WatchOK(f) BY <1>2 DEF Memory, Bodies
<1>4. PICK o : o = Body[program][f.node][f.trace] OBVIOUS
<1>5. o = Current BY <1>1, <1>4 DEF Current
<1>6. WatchOK(g)'
  <2>1. f.at \in {"body", "await"} /\ f.node \in Watch BY <1>1
  <2>2. o.op = "set" \/ (SameEval /\ (o.op \in {"read", "peek"} => r = Eval[o.node]))
    BY <1>5
  <2>3. program' = program BY DEF Outside
  <2> QED BY <1>1, <1>3, <1>4, <2>1, <2>2, <2>3, WatchGrows
<1>7. Len(stack') = 1 /\ stack'[1] = g BY <1>1, <1>2
<1>8. Quiet(stack') BY <1>1, <1>2, <1>7 DEF Quiet
<1>9. \A k \in 1..Len(stack') : WatchOK(stack[k])' BY <1>6, <1>7 DEF WatchOK
<1> QED BY <1>2, <1>8, <1>9, OutsideMemory

LEMMA SameOutside ==
    ASSUME UNCHANGED <<program, value, version>>, \A c \in Computed : deps'[c] = deps[c]
    PROVE  Outside /\ SameEval
BY DEF Outside, SameEval

LEMMA WatchEdges ==
    ASSUME Trust, NEW w \in Watch,
           \/ UNCHANGED deps
           \/ \E p \in Signal \cup Good : Access(w, p)
           \/ Truncate(w)
           \/ \E x \in Watch : DestroyWatch(x)
    PROVE  \A c \in Computed : deps'[c] = deps[c]
<1>1. w \in Consumer /\ \A c \in Computed : c \in Node /\ c \notin Watch
  BY NodesDisjoint DEF Consumer, Node
<1>2. CASE \E p \in Signal \cup Good : Access(w, p) BY <1>1, <1>2, AccessIs
<1>3. CASE Truncate(w) BY <1>1, <1>3, TruncateIs
<1>4. ASSUME NEW x \in Watch, DestroyWatch(x) PROVE \A c \in Computed : deps'[c] = deps[c]
  <2>1. deps' = deps \/ deps' = [deps EXCEPT ![x] = <<>>] BY <1>4 DEF DestroyWatch
  <2> QED BY <1>1, <2>1, Types
<1> QED BY <1>2, <1>3, <1>4

\* What is read now is the reference value.
LEMMA ReadNow ==
    ASSUME Trust, Memory, Grounded(program), Busy,
           BodyReadSignal \/ BodyPeekSignal \/ BodyGotComputed
    PROVE  /\ Current.op \in {"read", "peek"} /\ Top.at \in {"body", "await"}
           /\ Current.node \in Signal \cup Good
           /\ value[Current.node] = Eval[Current.node] /\ value[Current.node] \in Result
           /\ stack' = Resume(value[Current.node])
           /\ UNCHANGED nodeVars
           /\ Current.op = "read" => Access(Top.node, Current.node)
           /\ Current.op = "peek" => UNCHANGED edgeVars
<1>1. Current.op \in {"read", "peek"} /\ Current.node \in Signal \cup Good
  <2>1. CASE BodyReadSignal \/ BodyPeekSignal
    BY <2>1 DEF BodyReadSignal, BodyPeekSignal, Running
  <2>2. CASE BodyGotComputed
    BY <2>2, TopIs DEF BodyGotComputed, GoodFrame, ArrivedAt, Current
  <2> QED BY <2>1, <2>2
<1>2. value[Current.node] = Eval[Current.node] BY <1>1, RightNow
<1>3. Current.node \in Node BY <1>1, GoodFacts DEF Node
<1>4. value[Current.node] \in Result BY <1>3, Types DEF Result
<1>5. /\ stack' = Resume(value[Current.node]) /\ Top.at \in {"body", "await"}
      /\ UNCHANGED nodeVars
      /\ Current.op = "read" => Access(Top.node, Current.node)
      /\ Current.op = "peek" => UNCHANGED edgeVars
  BY DEF BodyReadSignal, BodyPeekSignal, BodyGotComputed, Running
<1> QED BY <1>1, <1>2, <1>4, <1>5

LEMMA WatchMemory ==
    ASSUME Trust, Trust', Memory, Grounded(program), UNCHANGED program, Busy,
           Top.node \in Watch,
           \/ PollChanged \/ BodyReadSignal \/ BodyPeekSignal \/ BodyGotComputed
           \/ BodySet \/ BodySetRefused \/ BodyDestroy \/ FinishWatch \/ CleanupThrows
    PROVE  Memory'
<1>1. /\ Len(stack) = 1 /\ Top = stack[1] /\ Quiet(stack) /\ Top.node \notin Computed
      /\ stack \in Seq(Frame) /\ Top \in Frame
  BY WatchAlone, TopIs
<1>2. DONE \in Result /\ ERRORED \in Result BY DEF Result, Content
<1>3. IInv /\ program \in Program BY DEF Trust, IInv, TypeOK
<1>4. CASE PollChanged
  <2> DEFINE f == [Top EXCEPT !.at = "body", !.trace = <<>>, !.old = value[Top.node]]
  <2>1. stack' = SetTop(f) /\ UNCHANGED <<value, version, deps>>
    BY <1>1, <1>4 DEF PollChanged, StartBody
  <2>2. f.node = Top.node /\ f.trace = <<>> BY <1>1 DEF Frame
  <2> HIDE DEF f
  <2>3. Len(stack') = 1 /\ stack'[1] = f BY <1>1, <2>1 DEF SetTop
  <2>4. Outside BY <2>1, SameOutside
  <2>5. Quiet(stack') /\ \A k \in 1..Len(stack') : WatchOK(stack[k])'
    BY <1>1, <2>2, <2>3 DEF Quiet, WatchOK
  <2> QED BY <1>1, <2>4, <2>5, OutsideMemory
<1>5. CASE BodyReadSignal \/ BodyPeekSignal \/ BodyGotComputed
  <2>1. /\ Current.op \in {"read", "peek"} /\ Top.at \in {"body", "await"}
        /\ value[Current.node] = Eval[Current.node] /\ value[Current.node] \in Result
        /\ stack' = Resume(value[Current.node])
        /\ UNCHANGED nodeVars
        /\ UNCHANGED deps \/ \E p \in Signal \cup Good : Access(Top.node, p)
    BY <1>5, ReadNow DEF edgeVars
  <2>2. \A c \in Computed : deps'[c] = deps[c] BY <2>1, WatchEdges
  <2>3. Outside /\ SameEval BY <2>1, <2>2, SameOutside DEF nodeVars
  <2>4. Current.op # "return" BY <2>1
  <2>5. PICK r \in Result : r = value[Current.node] BY <2>1
  <2> QED BY <2>1, <2>3, <2>4, <2>5, WatchResumes
<1>6. CASE BodySet
  <2>1. /\ Busy /\ Top.at = "body" /\ Current.op = "set" /\ stack' = Resume(DONE)
        /\ SetSignal(Current.node, Current.val) /\ UNCHANGED deps
    BY <1>6 DEF BodySet, Running, edgeVars
  <2>2. Current.node \in Signal BY <1>3, <2>1, CurrentGood, OpCases
  <2>3. Outside BY <2>1, <2>2, SetSignalIs
  <2> QED BY <1>2, <2>1, <2>3, WatchResumes
<1>7. CASE BodySetRefused
  <2>1. /\ Busy /\ Top.at = "body" /\ Current.op = "set" /\ stack' = Resume(ERRORED)
        /\ UNCHANGED <<value, version, deps>>
    BY <1>7 DEF BodySetRefused, Running, edgeVars, nodeVars
  <2>3. Outside BY <2>1, SameOutside
  <2> QED BY <1>2, <2>1, <2>3, WatchResumes
<1>8. CASE BodyDestroy
  <2>1. /\ Busy /\ Top.at = "body" /\ Current.op = "destroy" /\ stack' = Resume(DONE)
        /\ DestroyWatch(Current.node) /\ UNCHANGED <<value, version>>
    BY <1>8 DEF BodyDestroy, Running, nodeVars
  <2>2. Current.node \in Watch BY <1>3, <2>1, CurrentGood, OpCases
  <2>3. \A c \in Computed : deps'[c] = deps[c] BY <2>1, <2>2, WatchEdges
  <2>4. Outside /\ SameEval BY <2>1, <2>3, SameOutside
  <2>5. Current.op \notin {"read", "peek", "return"} BY <2>1
  <2> QED BY <1>2, <2>1, <2>4, <2>5, WatchResumes
<1>9. CASE FinishWatch \/ CleanupThrows
  <2>1. Truncate(Top.node) /\ stack' = Pop /\ UNCHANGED <<value, version>>
    BY <1>9 DEF FinishWatch, CleanupThrows, nodeVars
  <2>2. Len(stack') = 0 BY <1>1, <2>1, PopFrames
  <2>3. Quiet(stack') /\ \A k \in 1..Len(stack') : WatchOK(stack[k])' BY <2>2 DEF Quiet
  <2>4. \A c \in Computed : deps'[c] = deps[c] BY <2>1, WatchEdges
  <2>5. Outside BY <2>1, <2>4, SameOutside
  <2> QED BY <1>1, <2>3, <2>5, OutsideMemory
<1> QED BY <1>4, <1>5, <1>6, <1>7, <1>8, <1>9

-----------------------------------------------------------------------------
(* The steps of a computation in progress.                                 *)

LEMMA AccessAll ==
    ASSUME Trust, NEW c \in Computed, NEW p, Access(c, p)
    PROVE  /\ \A i \in 1..Len(deps'[c]) :
                 \/ deps'[c][i] = [node |-> p, seen |-> version[p]]
                 \/ i \in 1..Len(deps[c]) /\ deps'[c][i] = deps[c][i]
           /\ \A n \in Node : n # c => deps'[n] = deps[n] /\ nextIndex'[n] = nextIndex[n]
           /\ nextIndex'[c] = nextIndex[c] + 1
           /\ deps'[c][nextIndex[c] + 1] = [node |-> p, seen |-> version[p]]
           /\ \A j \in 1..nextIndex[c] : deps'[c][j] = deps[c][j]
<1> DEFINE idx == nextIndex[c] + 1
           len == IF idx > Len(deps[c]) THEN idx ELSE Len(deps[c])
           hole == [node |-> NoNode, seen |-> 0]
           item(j) == IF j = idx THEN [node |-> p, seen |-> version[p]]
                      ELSE IF j \in 1..Len(deps[c]) THEN deps[c][j] ELSE hole
           list == [j \in 1..len |-> item(j)]
<1>1. deps' = [deps EXCEPT ![c] = list] /\ nextIndex' = [nextIndex EXCEPT ![c] = idx]
  BY DEF Access
<1>2. c \in Node /\ nextIndex[c] \in Nat /\ Len(deps[c]) \in Nat /\ nextIndex[c] <= Len(deps[c])
  BY DepsOf
<1>3. /\ len \in Nat /\ idx \in 1..len
      /\ \A j \in 1..len : j # idx => j \in 1..Len(deps[c])
      /\ \A j \in 1..nextIndex[c] : j \in 1..len /\ j # idx
  BY <1>2
<1>4. PICK l : l = list OBVIOUS
<1>5. Len(l) = len /\ \A j \in 1..len : l[j] = item(j) BY <1>3, <1>4
<1>6. deps'[c] = l /\ nextIndex'[c] = idx
      /\ \A n \in Node : n # c => deps'[n] = deps[n] /\ nextIndex'[n] = nextIndex[n]
  BY <1>1, <1>2, <1>4, Types
<1>7. item(idx) = [node |-> p, seen |-> version[p]] OBVIOUS
<1>8. \A j \in 1..len : j # idx => item(j) = deps[c][j] BY <1>3
<1> HIDE DEF list, item, len, idx
<1>9. \A j \in 1..nextIndex[c] : l[j] = deps[c][j] BY <1>3, <1>5, <1>8
<1>10. \A i \in 1..len : \/ l[i] = [node |-> p, seen |-> version[p]]
                         \/ i \in 1..Len(deps[c]) /\ l[i] = deps[c][i]
  BY <1>3, <1>5, <1>7, <1>8
<1>11. l[idx] = [node |-> p, seen |-> version[p]] BY <1>3, <1>5, <1>7
<1> QED BY <1>5, <1>6, <1>9, <1>10, <1>11 DEF idx

LEMMA CoversLonger ==
    ASSUME program' = program, NEW c, NEW t \in Trace, NEW u \in Trace, Len(u) = Len(t) + 1,
           \A j \in 1..Len(t) : u[j] = t[j], NEW m \in 0..Len(t), NEW k,
           Covers(c, t, m, k)'
    PROVE  Covers(c, u, m, k)'
<1>1. \A j \in 1..(Len(t) + 1) : OpAt(program, c, u, j) = OpAt(program, c, t, j)
  BY LongerOps, Zenon
<1>2. Len(t) \in Nat BY TraceSeq
<1>3. \A x \in 1..m : x \in 1..(Len(t) + 1) /\ x \in 1..Len(t) BY <1>2
<1> SUFFICES ASSUME NEW x \in 1..m, OpAt(program, c, u, x).op = "read"
             PROVE  \E i \in 1..k : /\ deps'[c][i].node = OpAt(program, c, u, x).node
                                    /\ Agrees(deps[c][i], u[x])'
  BY Zenon DEF Covers
<1>4. OpAt(program, c, u, x) = OpAt(program, c, t, x) /\ u[x] = t[x] BY <1>1, <1>3
<1>5. PICK i \in 1..k : /\ deps'[c][i].node = OpAt(program, c, t, x).node
                        /\ Agrees(deps[c][i], t[x])'
  BY <1>4 DEF Covers
<1>6. Agrees(deps[c][i], u[x])' BY <1>4, <1>5
<1> QED BY <1>4, <1>5, <1>6

\* One more result, and the dependency it comes from if it was read.
LEMMA RememberMore ==
    ASSUME Trust, Trust', SeenBefore, HeldKept, program' = program,
           NEW c \in Computed, NEW t \in Trace, NEW u \in Trace, Len(u) = Len(t) + 1,
           \A j \in 1..Len(t) : u[j] = t[j],
           NEW k \in Nat, k <= Len(deps[c]), Remembers(c, t, k),
           \A i \in 1..k : deps'[c][i] = deps[c][i],
           NEW o, o = Body[program][c][t], NEW l,
           \/ o.op # "read" /\ l = k
           \/ /\ o.op = "read" /\ l = k + 1 /\ deps'[c][k + 1].node = o.node
              /\ Agrees(deps[c][k + 1], u[Len(t) + 1])'
    PROVE  Remembers(c, u, l)'
<1>1. /\ \A j \in 1..(Len(t) + 1) : OpAt(program, c, u, j) = OpAt(program, c, t, j)
      /\ OpAt(program, c, u, Len(t) + 1) = o
  BY LongerOps
<1>2. Len(t) \in Nat /\ Len(t) \in 0..Len(t) BY TraceSeq
<1>3. Covers(c, t, Len(t), k)' BY CoversKept DEF Remembers
<1>4. Covers(c, u, Len(t), k)' BY <1>2, <1>3, CoversLonger
<1>5. Covers(c, u, Len(u), l)'
  <2> SUFFICES ASSUME NEW x \in 1..Len(u), OpAt(program, c, u, x).op = "read"
               PROVE  \E i \in 1..l : /\ deps'[c][i].node = OpAt(program, c, u, x).node
                                      /\ Agrees(deps[c][i], u[x])'
    BY Zenon DEF Covers
  <2>1. CASE x = Len(t) + 1
    <3>1. /\ l = k + 1 /\ deps'[c][k + 1].node = o.node
          /\ Agrees(deps[c][k + 1], u[x])' /\ OpAt(program, c, u, x) = o
      BY <1>1, <2>1
    <3>2. k + 1 \in 1..l BY <3>1
    <3> QED BY <3>1, <3>2
  <2>2. CASE x # Len(t) + 1
    <3>1. x \in 1..Len(t) BY <1>2, <2>2
    <3>2. PICK i \in 1..k : /\ deps'[c][i].node = OpAt(program, c, u, x).node
                            /\ Agrees(deps[c][i], u[x])'
      BY <1>4, <3>1 DEF Covers
    <3>3. i \in 1..l OBVIOUS
    <3> QED BY <3>2, <3>3
  <2> QED BY <2>1, <2>2
<1>6. ASSUME NEW i \in 1..l
      PROVE  \E m \in 1..Len(u) :
                /\ OpAt(program, c, u, m).op = "read"
                /\ OpAt(program, c, u, m).node = deps'[c][i].node
                /\ Covers(c, u, m - 1, i - 1)'
  <2>1. CASE i \in 1..k
    <3>1. PICK m \in 1..Len(t) :
            /\ OpAt(program, c, t, m).op = "read"
            /\ OpAt(program, c, t, m).node = deps[c][i].node
            /\ Covers(c, t, m - 1, i - 1)
      BY <2>1 DEF Remembers
    <3>2. i - 1 \in Nat /\ i - 1 <= Len(deps[c]) /\ \A j \in 1..(i - 1) : j \in 1..k
      BY <2>1, DepsOf
    <3>3. PICK y \in Nat : y = i - 1 BY <3>2
    <3>4. PICK z \in 0..Len(t) : z = m - 1 BY <1>2
    <3>5. Covers(c, t, z, y)' BY <3>1, <3>2, <3>3, <3>4, CoversKept
    <3>6. Covers(c, u, z, y)' BY <3>5, CoversLonger
    <3>7. m \in 1..Len(u) /\ m \in 1..(Len(t) + 1) BY <1>2
    <3>8. OpAt(program, c, u, m) = OpAt(program, c, t, m) BY <1>1, <3>7
    <3>9. deps'[c][i] = deps[c][i] BY <2>1
    <3> QED BY <3>1, <3>3, <3>4, <3>6, <3>7, <3>8, <3>9
  <2>2. CASE i \notin 1..k
    <3>1. o.op = "read" /\ i = k + 1 /\ i - 1 = k /\ deps'[c][i].node = o.node BY <2>2
    <3>2. PICK m \in 1..Len(u) : m = Len(t) + 1 /\ m - 1 = Len(t) BY <1>2
    <3> QED BY <1>1, <1>4, <3>1, <3>2
  <2> QED BY <2>1, <2>2
<1> QED BY <1>5, <1>6 DEF Remembers

\* A computation in progress is the innermost call.
LEMMA ComputedTop ==
    ASSUME Trust, Memory, Grounded(program), Busy, Top.at \in {"body", "await"},
           Top.node \in Computed
    PROVE  /\ Top = stack[Len(stack)] /\ Len(stack) \in 1..Len(stack)
           /\ ComputedOK(Top)
           /\ Current.op \in {"read", "set", "return"}
           /\ Current.op = "return" => Eval[Top.node] = Current.val
<1> PICK f : f = Top OBVIOUS
<1> PICK c \in Computed : c = f.node OBVIOUS
<1> PICK t : t = f.trace OBVIOUS
<1>0. f = Top /\ c = f.node /\ t = f.trace OBVIOUS
<1>1. Top = stack[Len(stack)] /\ Len(stack) \in 1..Len(stack) BY TopIs
<1>2. ComputedOK(f) BY <1>0, <1>1 DEF Memory, Bodies
<1>3. /\ Plain(program, c, t)
      /\ \A j \in 1..Len(t) :
            LET o == OpAt(program, c, t, j) IN o.op = "read" => t[j] = Eval[o.node]
  BY <1>0, <1>2 DEF ComputedOK
<1>4. Len(t) \in Nat /\ Len(t) \in 0..Len(t) /\ SubSeq(t, 1, Len(t)) = t
  BY <1>3, TraceSeq DEF Plain
<1>5. OpAt(program, c, t, Len(t) + 1) = Current
  <2>1. (Len(t) + 1) - 1 = Len(t) BY <1>4
  <2> QED BY <1>0, <1>4, <2>1 DEF OpAt, Current
<1>6. PICK rank \in [Computed -> Nat] : Ranked(program, Eval, rank) BY EvalFacts
<1>7. RightSoFar(program, c, t, Len(t), Eval, rank) BY <1>3 DEF RightSoFar, ReadsLower
<1>8. program \in Program BY DEF Trust, IInv, TypeOK
<1>9. /\ OpAt(program, c, t, Len(t) + 1).op \in {"return", "set"}
            \/ ReadsLower(c, OpAt(program, c, t, Len(t) + 1), rank)
      /\ Body[program][c][t].op = "return" => Eval[c] = Body[program][c][t].val
  BY <1>3, <1>4, <1>6, <1>7, <1>8, Retrace
<1>10. Current.op \in {"read", "set", "return"} BY <1>5, <1>9 DEF ReadsLower
<1>11. Current.op = "return" => Eval[c] = Current.val BY <1>0, <1>9 DEF Current
<1> QED BY <1>0, <1>1, <1>2, <1>10, <1>11

LEMMA ComputedResumes ==
    ASSUME Trust, Trust', Memory, Grounded(program), UNCHANGED <<program, value, version>>,
           Busy, Top.at \in {"body", "await"}, Top.node \in Computed,
           NEW r \in Result, stack' = Resume(r),
           \/ Current.op = "set" /\ r = ERRORED /\ UNCHANGED edgeVars
           \/ /\ Current.op = "read" /\ Access(Top.node, Current.node)
              /\ Current.node \in Signal \cup Good
              /\ r = value[Current.node] /\ r = Eval[Current.node]
    PROVE  Memory'
<1>1. Current.op # "return" OBVIOUS
<1>2. PICK f, g : /\ f = Top /\ f.trace \in Trace /\ Append(f.trace, r) \in Trace
                  /\ g.at = "body" /\ g.node = f.node /\ g.old = f.old
                  /\ g.trace = Append(f.trace, r)
                  /\ Len(stack') = Len(stack) /\ stack'[Len(stack)] = g
                  /\ \A k \in 1..(Len(stack) - 1) : stack'[k] = stack[k]
  BY <1>1, ResumeFrame
<1> PICK c \in Computed : c = f.node BY <1>2
<1> PICK t \in Trace : t = f.trace BY <1>2
<1> PICK u \in Trace : u = Append(t, r) BY <1>2
<1> PICK o : o = Current OBVIOUS
<1> PICK k \in Nat : k = nextIndex[c] /\ k <= Len(deps[c]) BY DepsOf
<1>3. /\ f = Top /\ c = f.node /\ t = f.trace /\ o = Current /\ k = nextIndex[c]
      /\ g.at = "body" /\ g.node = c /\ g.trace = u /\ g.old = f.old
  BY <1>2
<1>4. Len(u) = Len(t) + 1 /\ u[Len(t) + 1] = r /\ (\A j \in 1..Len(t) : u[j] = t[j])
      /\ Len(t) \in Nat
  <2>1. t \in Seq(Result) /\ Len(t) \in Nat BY TraceSeq
  <2> QED BY <2>1
<1>5. o = Body[program][c][t] BY <1>3 DEF Current
<1>6. /\ f = stack[Len(stack)] /\ Len(stack) \in Nat \ {0}
      /\ \A m \in 1..(Len(stack) - 1) : stack[m].node # c /\ stack[m].node \in Node
      /\ value[c] = COMPUTING /\ c \in Node /\ ComputedOK(f)
  BY <1>3, TopIs, Runner, ComputedTop
<1>7. SeenBefore BY DEF Memory
<1>8. SameEval /\ Eval' = Eval BY EvalKept DEF SameEval
<1>9. HeldKept
  <2> SUFFICES ASSUME NEW j \in 1..Len(stack'), stack'[j].at \in {"body", "await"}
               PROVE  \E m \in 1..Len(stack) : Computing(stack[m], stack'[j].node)
                                                /\ stack[m].old = stack'[j].old
    BY HeldSame
  <2>1. j \in 1..Len(stack) BY <1>2
  <2>2. CASE j = Len(stack) BY <1>2, <1>3, <1>6, <2>1, <2>2 DEF Computing
  <2>3. CASE j # Len(stack)
    <3>1. j \in 1..(Len(stack) - 1) BY <1>6, <2>1, <2>3
    <3>2. stack'[j] = stack[j] BY <1>2, <3>1
    <3> QED BY <2>1, <3>2 DEF Computing
  <2> QED BY <2>2, <2>3
<1>10. PICK l \in Nat :
         /\ l = nextIndex'[c]
         /\ \A n \in Node : n # c => deps'[n] = deps[n] /\ nextIndex'[n] = nextIndex[n]
         /\ \A i \in 1..k : deps'[c][i] = deps[c][i]
         /\ \/ o.op = "set" /\ l = k /\ deps' = deps
            \/ /\ o.op = "read" /\ l = k + 1
               /\ deps'[c][k + 1] = [node |-> o.node, seen |-> version[o.node]]
               /\ \A i \in 1..Len(deps'[c]) :
                     \/ deps'[c][i] = [node |-> o.node, seen |-> version[o.node]]
                     \/ i \in 1..Len(deps[c]) /\ deps'[c][i] = deps[c][i]
  <2>1. CASE Current.op = "set" /\ UNCHANGED edgeVars
    BY <1>3, <2>1 DEF edgeVars
  <2>2. CASE Current.op = "read" /\ Access(c, o.node)
    <3>1. k + 1 \in Nat OBVIOUS
    <3> QED BY <1>3, <2>2, <3>1, AccessAll
  <2> QED BY <1>3, <2>1, <2>2
<1>11. ASSUME o.op = "read"
       PROVE  /\ o.node \in Signal \cup Good /\ o.node \in Producer
              /\ value[o.node] = r /\ Eval[o.node] = r /\ r # COMPUTING
  <2>1. o.node \in Signal \cup Good /\ value[o.node] = r /\ Eval[o.node] = r
    BY <1>3, <1>11
  <2> QED BY <2>1, RightNow, GoodFacts DEF Producer
<1>12. SeenBefore'
  <2> SUFFICES ASSUME NEW n \in Computed, NEW i \in 1..Len(deps'[n])
               PROVE  deps'[n][i].seen <= version[deps'[n][i].node]
    BY DEF SeenBefore
  <2>1. CASE deps'[n] = deps[n] BY <1>7, <2>1 DEF SeenBefore
  <2>2. CASE n = c /\ o.op = "read"
    <3>1. CASE deps'[c][i] = [node |-> o.node, seen |-> version[o.node]]
      <4>1. o.node \in Node BY <1>11, <2>2 DEF Producer, Node
      <4>2. version[o.node] \in Nat BY <4>1, Types
      <4> QED BY <2>2, <3>1, <4>2
    <3>2. CASE i \in 1..Len(deps[c]) /\ deps'[c][i] = deps[c][i]
      BY <1>7, <2>2, <3>2 DEF SeenBefore
    <3> QED BY <1>10, <2>2, <3>1, <3>2
  <2>3. n \in Node BY DEF Node
  <2> QED BY <1>10, <2>1, <2>2, <2>3
<1>13. Marked'
  <2> SUFFICES ASSUME NEW n \in Computed, value[n] = COMPUTING
               PROVE  \E j \in 1..Len(stack') : Computing(stack'[j], n)
    BY DEF Marked
  <2>1. PICK j \in 1..Len(stack) : Computing(stack[j], n) BY DEF Memory, Marked
  <2>2. CASE j = Len(stack) BY <1>2, <1>3, <1>6, <2>1, <2>2 DEF Computing
  <2>3. CASE j # Len(stack)
    <3>1. j \in 1..(Len(stack) - 1) BY <1>6, <2>3
    <3> QED BY <1>2, <2>1, <3>1
  <2> QED BY <2>2, <2>3
<1>14. Memos'
  <2> SUFFICES ASSUME NEW n \in Computed PROVE MemoOK(n)' BY DEF Memos
  <2>1. CASE n = c BY <1>6, <2>1 DEF MemoOK
  <2>2. CASE n # c
    <3>1. deps'[n] = deps[n] BY <1>10, <2>2 DEF Node
    <3> QED BY <1>7, <1>9, <3>1, MemoKept DEF Memory, Memos
  <2> QED BY <2>1, <2>2
<1>15. /\ Plain(program, c, t) /\ Remembers(c, t, k)
       /\ \A j \in 1..Len(t) :
             OpAt(program, c, t, j).op = "read" => t[j] = Eval[OpAt(program, c, t, j).node]
  BY <1>3, <1>6 DEF ComputedOK
<1>16. /\ \A j \in 1..(Len(t) + 1) : OpAt(program, c, u, j) = OpAt(program, c, t, j)
       /\ OpAt(program, c, u, Len(t) + 1) = o
       /\ \A j \in 1..Len(u) : j = Len(t) + 1 \/ j \in 1..Len(t)
       /\ \A j \in 1..Len(t) : j \in 1..(Len(t) + 1)
  <2>1. /\ \A j \in 1..(Len(t) + 1) : OpAt(program, c, u, j) = OpAt(program, c, t, j)
        /\ OpAt(program, c, u, Len(t) + 1) = Body[program][c][t]
    BY ONLY <1>4, LongerOps, t \in Trace, u \in Trace
  <2>2. \A j \in 1..Len(u) : j = Len(t) + 1 \/ j \in 1..Len(t) BY <1>4
  <2>3. \A j \in 1..Len(t) : j \in 1..(Len(t) + 1) BY <1>4
  <2> QED BY <1>5, <2>1, <2>2, <2>3
<1>17. Plain(program, c, u)
  <2> SUFFICES ASSUME NEW j \in 1..Len(u)
               PROVE  /\ OpAt(program, c, u, j).op \in {"read", "set"}
                      /\ OpAt(program, c, u, j).op = "set" => u[j] = ERRORED
    BY DEF Plain
  <2>1. CASE j = Len(t) + 1 BY <1>3, <1>4, <1>16, <2>1
  <2>2. CASE j \in 1..Len(t) BY <1>4, <1>15, <1>16, <2>2 DEF Plain
  <2> QED BY <1>16, <2>1, <2>2
<1>18. Remembers(c, u, l)'
  <2>1. CASE o.op # "read"
    <3>1. l = k BY <1>10, <2>1
    <3>2. Remembers(c, t, k) /\ \A i \in 1..k : deps'[c][i] = deps[c][i] BY <1>10, <1>15
    <3>3. program' = program OBVIOUS
    <3> QED BY ONLY Trust, Trust', <1>4, <1>5, <1>7, <1>9, <2>1, <3>1, <3>2, <3>3, RememberMore,
                    c \in Computed, t \in Trace, u \in Trace, k \in Nat, k <= Len(deps[c])
  <2>2. CASE o.op = "read"
    <3>1. l = k + 1 /\ deps'[c][k + 1].node = o.node BY <1>10, <2>2
    <3>2. Held(o.node, r)' BY <1>11, <2>2 DEF Held
    <3>3. Agrees(deps[c][k + 1], u[Len(t) + 1])' BY <1>4, <3>1, <3>2 DEF Agrees
    <3>4. Remembers(c, t, k) /\ \A i \in 1..k : deps'[c][i] = deps[c][i] BY <1>10, <1>15
    <3>5. program' = program OBVIOUS
    <3> QED BY ONLY Trust, Trust', <1>4, <1>5, <1>7, <1>9, <2>2, <3>1, <3>3, <3>4, <3>5,
                    RememberMore, c \in Computed, t \in Trace, u \in Trace, k \in Nat,
                    k <= Len(deps[c])
  <2> QED BY <2>1, <2>2
<1>19. \A j \in 1..Len(u) :
          OpAt(program, c, u, j).op = "read" => u[j] = Eval'[OpAt(program, c, u, j).node]
  <2> TAKE j \in 1..Len(u)
  <2>1. CASE j = Len(t) + 1 BY <1>4, <1>8, <1>11, <1>16, <2>1
  <2>2. CASE j \in 1..Len(t) BY <1>4, <1>8, <1>15, <1>16, <2>2
  <2> QED BY <1>16, <2>1, <2>2
<1>20. ComputedOK(g)' /\ WatchOK(g)'
  <2>1. c \notin Watch BY NodesDisjoint
  <2>2. Remembers(c, u, nextIndex[c])' BY <1>10, <1>18
  <2> QED BY <1>3, <1>17, <1>19, <2>1, <2>2 DEF ComputedOK, WatchOK
<1>21. Bodies'
  <2> SUFFICES ASSUME NEW j \in 1..Len(stack')
               PROVE  (ComputedOK(stack[j]) /\ WatchOK(stack[j]))'
    BY DEF Bodies
  <2>1. CASE j = Len(stack)
    <3>1. stack'[j] = g BY <1>2, <2>1
    <3> QED BY <1>20, <3>1, SMTT(30) DEF ComputedOK, WatchOK
  <2>2. CASE j # Len(stack)
    <3>1. j \in 1..(Len(stack) - 1) /\ j \in 1..Len(stack) BY <1>2, <1>6, <2>2
    <3>2. PICK h : h = stack[j] OBVIOUS
    <3>3. /\ stack'[j] = h /\ h.node # c /\ h.node \in Node /\ ComputedOK(h) /\ WatchOK(h)
          /\ FrameSame(h, h)
      BY <1>2, <1>6, <3>1, <3>2 DEF Memory, Bodies, FrameSame
    <3>4. ComputedOK(h)' BY <1>7, <1>8, <1>9, <1>10, <3>3, ComputedKept
    <3>5. WatchOK(h)' BY <1>8, <3>3, WatchKept
    <3> QED BY <3>3, <3>4, <3>5 DEF ComputedOK, WatchOK
  <2> QED BY <2>1, <2>2
<1> QED BY <1>12, <1>13, <1>14, <1>21 DEF Memory

-----------------------------------------------------------------------------
(* The start and the end of a computation.                                 *)

\* The computation of a computed starts: the frame keeps its former value.
LEMMA StartMemory ==
    ASSUME Trust, Trust', Memory, UNCHANGED <<program, version>>, Busy,
           Top.at \notin {"body", "await"}, Top.node \in Computed,
           value[Top.node] # COMPUTING, StartBody(Top.node)
    PROVE  Memory'
<1> PICK c \in Computed : c = Top.node OBVIOUS
<1> DEFINE h == [Top EXCEPT !.at = "body", !.trace = <<>>, !.old = value[c]]
<1>1. /\ stack \in Seq(Frame) /\ Len(stack) \in Nat \ {0} /\ Top = stack[Len(stack)]
      /\ Top \in Frame
  BY TopIs
<1>2. PICK f : /\ f.at = "body" /\ f.node = c /\ f.trace = <<>> /\ f.old = value[c]
               /\ stack' = SetTop(f)
  <2>1. h.at = "body" /\ h.node = c /\ h.trace = <<>> /\ h.old = value[c] BY <1>1 DEF Frame
  <2>2. stack' = SetTop(h) BY DEF StartBody
  <2> HIDE DEF h
  <2> QED BY <2>1, <2>2
<1> HIDE DEF h
<1>3. /\ Len(stack') = Len(stack) /\ stack'[Len(stack)] = f
      /\ \A k \in 1..(Len(stack) - 1) : stack'[k] = stack[k]
  BY <1>1, <1>2 DEF SetTop
<1>4. c \in Node /\ c \notin Signal /\ c \notin Watch BY NodesDisjoint DEF Node
<1>5. /\ value'[c] = COMPUTING /\ nextIndex'[c] = 0 /\ deps' = deps
      /\ \A n \in Node : n # c => value'[n] = value[n] /\ nextIndex'[n] = nextIndex[n]
  BY <1>4, Types DEF StartBody
\* No other frame computes c.
<1>6. ASSUME NEW k \in 1..Len(stack), stack[k].at \in {"body", "await"}
      PROVE  k \in 1..(Len(stack) - 1) /\ stack[k].node # c
  <2>1. k # Len(stack) BY <1>1, <1>6
  <2>2. BodyOK(stack[k]) BY DEF Trust, Stacked, Frames
  <2>3. stack[k].node # c BY <1>6, <2>2 DEF BodyOK
  <2> QED BY <1>1, <2>1, <2>3
<1>7. \A k \in 1..Len(stack') : k = Len(stack) \/ k \in 1..(Len(stack) - 1) BY <1>1, <1>3
<1>8. \A k \in 1..(Len(stack) - 1) : k \in 1..Len(stack) /\ k \in 1..Len(stack') BY <1>1, <1>3
<1>9. SameEval BY <1>4, <1>5 DEF SameEval, Node
<1>10. HeldKept
  <2> SUFFICES ASSUME NEW n \in Producer, NEW r, Held(n, r) PROVE Held(n, r)'
    BY DEF HeldKept
  <2>1. CASE n = c
    <3>1. value[c] = r BY <2>1 DEF Held
    <3>2. \A k \in 1..Len(stack') : Computing(stack'[k], c) => stack'[k].old = r
      BY <1>2, <1>3, <1>6, <1>7, <1>8, <3>1 DEF Computing
    <3> QED BY <1>5, <2>1, <3>2 DEF Held
  <2>2. CASE n # c
    <3>1. value'[n] = value[n] BY <1>5, <2>2 DEF Producer, Node
    <3>2. ASSUME value[n] = COMPUTING, NEW k \in 1..Len(stack'), Computing(stack'[k], n)
          PROVE  stack'[k].old = r
      <4>1. k \in 1..(Len(stack) - 1) BY <1>2, <1>3, <1>7, <2>2, <3>2 DEF Computing
      <4> QED BY <1>3, <1>8, <3>2, <4>1 DEF Held
    <3>3. CASE value[n] = COMPUTING
      <4>1. \A k \in 1..Len(stack') : Computing(stack'[k], n) => stack'[k].old = r
        BY <3>2, <3>3
      <4> QED BY <3>1, <3>3, <4>1 DEF Held
    <3>4. CASE value[n] # COMPUTING BY <3>1, <3>4 DEF Held
    <3> QED BY <3>3, <3>4
  <2> QED BY <2>1, <2>2
<1>11. SeenBefore' BY <1>5 DEF Memory, SeenBefore
<1>12. Marked'
  <2> SUFFICES ASSUME NEW n \in Computed, value'[n] = COMPUTING
               PROVE  \E j \in 1..Len(stack') : Computing(stack'[j], n)
    BY DEF Marked
  <2>1. CASE n = c
    <3>1. Len(stack) \in 1..Len(stack') /\ Computing(stack'[Len(stack)], c)
      BY <1>1, <1>2, <1>3 DEF Computing
    <3> QED BY <2>1, <3>1
  <2>2. CASE n # c
    <3>1. value[n] = COMPUTING BY <1>5, <2>2 DEF Node
    <3>2. PICK j \in 1..Len(stack) : Computing(stack[j], n)
      BY <3>1 DEF Memory, Marked
    <3>3. j \in 1..(Len(stack) - 1) BY <1>6, <3>2 DEF Computing
    <3> QED BY <1>3, <1>8, <3>2, <3>3
  <2> QED BY <2>1, <2>2
<1>13. Memos'
  <2> SUFFICES ASSUME NEW n \in Computed PROVE MemoOK(n)' BY DEF Memos
  <2>1. CASE n = c BY <1>5, <2>1 DEF MemoOK
  <2>2. CASE n # c
    <3>1. deps'[n] = deps[n] /\ value'[n] = value[n] BY <1>5, <2>2 DEF Node
    <3> QED BY <1>10, <3>1, MemoKept DEF Memory, Memos
  <2> QED BY <2>1, <2>2
<1>14. ComputedOK(f)' /\ WatchOK(f)'
  <2>1. <<>> \in Trace /\ Len(<<>>) = 0
    <3>1. <<>> \in [1..0 -> Result] /\ 0 \in 0..MaxOps BY BoundsAssumption
    <3> QED BY <3>1 DEF Trace
  <2>2. Plain(program, c, <<>>)' BY <2>1 DEF Plain
  <2>3. Remembers(c, <<>>, 0)' BY <2>1 DEF Remembers, Covers
  <2>4. Remembers(c, <<>>, nextIndex[c])' BY <1>5, <2>3
  <2> QED BY <1>2, <1>4, <2>1, <2>2, <2>4 DEF ComputedOK, WatchOK
<1>15. Bodies'
  <2> SUFFICES ASSUME NEW j \in 1..Len(stack')
               PROVE  (ComputedOK(stack[j]) /\ WatchOK(stack[j]))'
    BY DEF Bodies
  <2>1. CASE j = Len(stack)
    <3>1. stack'[j] = f BY <1>3, <2>1
    <3> QED BY <1>14, <3>1 DEF ComputedOK, WatchOK
  <2>2. CASE j # Len(stack)
    <3>1. PICK g : g = stack[j] OBVIOUS
    <3>2. stack'[j] = g /\ j \in 1..Len(stack) BY <1>3, <1>7, <1>8, <2>2, <3>1
    <3>3. CASE g.at \in {"body", "await"}
      <4>1. /\ g.node # c /\ ComputedOK(g) /\ WatchOK(g) /\ FrameSame(g, g)
        BY <1>6, <3>1, <3>2, <3>3 DEF Memory, Bodies, FrameSame
      <4>2. g.node \in Computed => /\ nextIndex'[g.node] = nextIndex[g.node]
                                   /\ deps'[g.node] = deps[g.node]
        BY <1>5, <4>1 DEF Node
      <4>3. SeenBefore BY DEF Memory
      <4>4. ComputedOK(g)' BY <1>9, <1>10, <4>1, <4>2, <4>3, ComputedKept
      <4>5. WatchOK(g)' BY <1>9, <4>1, WatchKept
      <4> QED BY <3>2, <4>4, <4>5 DEF ComputedOK, WatchOK
    <3>4. CASE g.at \notin {"body", "await"} BY <3>2, <3>4 DEF ComputedOK, WatchOK
    <3> QED BY <3>3, <3>4
  <2> QED BY <2>1, <2>2
<1> QED BY <1>11, <1>12, <1>13, <1>15 DEF Memory

LEMMA TruncateAll ==
    ASSUME Trust, NEW c \in Computed, Truncate(c)
    PROVE  /\ Len(deps'[c]) = nextIndex[c]
           /\ \A j \in 1..nextIndex[c] : deps'[c][j] = deps[c][j]
           /\ \A n \in Node : n # c => deps'[n] = deps[n]
<1> DEFINE k == nextIndex[c]
           list == IF Len(deps[c]) > k THEN SubSeq(deps[c], 1, k) ELSE deps[c]
<1>1. deps' = [deps EXCEPT ![c] = list] BY DEF Truncate
<1>2. c \in Node /\ k \in Nat /\ Len(deps[c]) \in Nat /\ k <= Len(deps[c])
  BY DepsOf
<1>3. deps[c] \in Seq(Dep) BY <1>2, Types
<1>4. Len(list) = k /\ \A j \in 1..k : list[j] = deps[c][j]
  <2> HIDE DEF k
  <2> QED BY <1>2, <1>3
<1> HIDE DEF list
<1>5. deps'[c] = list /\ \A n \in Node : n # c => deps'[n] = deps[n] BY <1>1, <1>2, Types
<1> QED BY <1>4, <1>5

\* A computation is over: what it returned is remembered with what it read.
LEMMA FinishMemory ==
    ASSUME Trust, Trust', Memory, Grounded(program), UNCHANGED program, FinishComputed
    PROVE  Memory'
<1> PICK f : f = Top OBVIOUS
<1> PICK c : c = f.node OBVIOUS
<1> PICK t : t = f.trace OBVIOUS
<1> PICK v : v = Current.val OBVIOUS
<1>1. /\ Busy /\ f = Top /\ f.at = "body" /\ c \in Computed /\ c = Top.node
      /\ Current.op = "return"
      /\ value' = [value EXCEPT ![c] = v]
      /\ \/ version' = version /\ v = f.old
         \/ version' = [version EXCEPT ![c] = @ + 1]
      /\ Truncate(c) /\ stack' = Pop /\ nextIndex' = nextIndex
  BY DEF FinishComputed, Running
<1>2. v \notin {UNSET, COMPUTING}
  <2>1. v \in Outcome BY <1>1, CurrentGood, OpCases DEF Trust
  <2> QED BY <2>1, ValuesDistinct DEF Outcome
<1>3. /\ c \in Node /\ value[c] = COMPUTING /\ c \notin Signal
      /\ \A k \in 1..(Len(stack) - 1) : stack[k].node # c /\ stack[k].node \in Node
  BY <1>1, Runner, NodesDisjoint
<1>4. /\ f = stack[Len(stack)] /\ Len(stack) \in 1..Len(stack) /\ ComputedOK(f)
      /\ Len(stack) \in Nat \ {0}
  BY <1>1, TopIs, ComputedTop
<1>5. /\ Len(stack') = Len(stack) - 1
      /\ \A k \in 1..(Len(stack) - 1) : stack'[k] = stack[k] /\ k \in 1..Len(stack)
      /\ \A k \in 1..Len(stack') : k \in 1..(Len(stack) - 1)
      /\ \A k \in 1..(Len(stack) - 1) : k \in 1..Len(stack')
      /\ \A k \in 1..Len(stack) : k # Len(stack) => k \in 1..(Len(stack) - 1)
  BY <1>1, <1>4, PopFrames
<1>6. /\ value'[c] = v
      /\ \A n \in Node : n # c => value'[n] = value[n] /\ version'[n] = version[n]
      /\ \/ version'[c] = version[c] /\ v = f.old
         \/ version'[c] > version[c]
  <2>1. version[c] \in Nat BY <1>3, Types
  <2> QED BY <1>1, <1>3, <2>1, Types
<1>7. /\ Len(deps'[c]) = nextIndex[c]
      /\ \A j \in 1..nextIndex[c] : deps'[c][j] = deps[c][j]
      /\ \A n \in Node : n # c => deps'[n] = deps[n]
  BY <1>1, TruncateAll
<1>8. SameEval BY <1>3, <1>6 DEF SameEval, Node
<1>9. HeldKept
  <2> SUFFICES ASSUME NEW n \in Producer, ~(version'[n] > version[n])
               PROVE  version'[n] = version[n] /\ \A r : Held(n, r) => Held(n, r)'
    BY DEF HeldKept
  <2>1. CASE n = c
    <3>1. version'[c] = version[c] /\ v = f.old BY <1>6, <2>1
    <3>2. Computing(f, c) BY <1>1 DEF Computing
    <3>3. ASSUME NEW r, Held(c, r) PROVE Held(c, r)'
      <4>1. f.old = r BY <1>3, <1>4, <3>2, <3>3 DEF Held
      <4>2. value'[c] = r /\ value'[c] # COMPUTING BY <1>2, <1>6, <3>1, <4>1
      <4> QED BY <4>2 DEF Held
    <3> QED BY <2>1, <3>1, <3>3
  <2>2. CASE n # c
    <3>1. value'[n] = value[n] /\ version'[n] = version[n] BY <1>6, <2>2 DEF Producer, Node
    <3>2. ASSUME NEW r, Held(n, r) PROVE Held(n, r)'
      <4>1. CASE value[n] = COMPUTING
        <5>1. \A k \in 1..Len(stack') : Computing(stack'[k], n) => stack'[k].old = r
          BY <1>5, <3>2, <4>1 DEF Held
        <5> QED BY <3>1, <4>1, <5>1 DEF Held
      <4>2. CASE value[n] # COMPUTING BY <3>1, <3>2, <4>2 DEF Held
      <4> QED BY <4>1, <4>2
    <3> QED BY <3>1, <3>2
  <2> QED BY <2>1, <2>2
<1>10. SeenBefore'
  <2> SUFFICES ASSUME NEW n \in Computed, NEW i \in 1..Len(deps'[n])
               PROVE  deps'[n][i].seen <= version'[deps'[n][i].node]
    BY DEF SeenBefore
  <2>1. i \in 1..Len(deps[n]) /\ deps'[n][i] = deps[n][i]
    <3>1. CASE n = c
      <4>1. i \in 1..nextIndex[c] BY <1>7, <3>1
      <4>2. i \in 1..Len(deps[c]) BY <1>1, <4>1, DepsOf
      <4> QED BY <1>7, <3>1, <4>1, <4>2
    <3>2. CASE n # c BY <1>7, <3>2 DEF Node
    <3> QED BY <3>1, <3>2
  <2>2. PICK d : d = deps[n][i] OBVIOUS
  <2>3. d.node \in Producer /\ d.seen \in Nat /\ d.seen <= version[d.node]
    BY <2>1, <2>2, DepsOf DEF Memory, SeenBefore
  <2>4. d.node \in Node BY <2>3 DEF Producer, Node
  <2>5. version[d.node] \in Nat /\ version'[d.node] \in Nat
    BY <2>4 DEF Trust, IInv, TypeOK
  <2>6. version'[d.node] = version[d.node] \/ version'[d.node] > version[d.node]
    BY <1>6, <2>4
  <2>7. d.seen <= version'[d.node] BY <2>3, <2>5, <2>6
  <2> QED BY <2>1, <2>2, <2>7
<1>11. Marked'
  <2> SUFFICES ASSUME NEW n \in Computed, value'[n] = COMPUTING
               PROVE  \E j \in 1..Len(stack') : Computing(stack'[j], n)
    BY DEF Marked
  <2>1. n # c /\ value[n] = COMPUTING BY <1>2, <1>6 DEF Node
  <2>2. PICK j \in 1..Len(stack) : Computing(stack[j], n) BY <2>1 DEF Memory, Marked
  <2>3. j # Len(stack) BY <1>4, <2>1, <2>2 DEF Computing
  <2> QED BY <1>5, <2>2, <2>3
<1>12. /\ Plain(program, c, t) /\ Remembers(c, t, nextIndex[c])
  BY <1>1, <1>4 DEF ComputedOK
<1>13. MemoOK(c)'
  <2>1. PICK k \in Nat : k = nextIndex[c] /\ k <= Len(deps[c]) BY <1>1, DepsOf
  <2>2. Remembers(c, t, k) /\ \A j \in 1..k : deps'[c][j] = deps[c][j]
    BY <1>7, <1>12, <2>1
  <2>3. SeenBefore BY DEF Memory
  <2>4. Remembers(c, t, k)' BY <1>1, <1>9, <2>1, <2>2, <2>3, RemembersKept
  <2>5. Remembers(c, t, Len(deps[c]))' BY <1>7, <2>1, <2>4
  <2>6. Body[program][c][t].op = "return" /\ Body[program][c][t].val = v
    BY <1>1 DEF Current
  <2>7. /\ Plain(program', c, t) /\ Body[program'][c][t].op = "return"
        /\ Body[program'][c][t].val = value'[c]
    BY <1>6, <1>12, <2>6
  <2> QED BY <2>5, <2>7 DEF MemoOK
<1>14. Memos'
  <2> SUFFICES ASSUME NEW n \in Computed PROVE MemoOK(n)' BY DEF Memos
  <2>1. CASE n = c BY <1>13, <2>1
  <2>2. CASE n # c
    <3>1. deps'[n] = deps[n] /\ value'[n] = value[n] BY <1>6, <1>7, <2>2 DEF Node
    <3> QED BY <1>9, <3>1, MemoKept DEF Memory, Memos
  <2> QED BY <2>1, <2>2
<1>15. Bodies'
  <2> SUFFICES ASSUME NEW j \in 1..Len(stack')
               PROVE  (ComputedOK(stack[j]) /\ WatchOK(stack[j]))'
    BY DEF Bodies
  <2>1. PICK g : g = stack[j] OBVIOUS
  <2>2. /\ stack'[j] = g /\ g.node # c /\ g.node \in Node /\ ComputedOK(g) /\ WatchOK(g)
        /\ FrameSame(g, g)
    BY <1>3, <1>5, <2>1 DEF Memory, Bodies, FrameSame
  <2>3. SeenBefore BY DEF Memory
  <2>4. ComputedOK(g)' BY <1>1, <1>7, <1>8, <1>9, <2>2, <2>3, ComputedKept
  <2>5. WatchOK(g)' BY <1>8, <2>2, WatchKept
  <2> QED BY <2>2, <2>4, <2>5 DEF ComputedOK, WatchOK
<1> QED BY <1>10, <1>11, <1>14, <1>15 DEF Memory

-----------------------------------------------------------------------------
(* Every step keeps the memory.                                            *)

LEMMA ComputedMemory ==
    ASSUME Trust, Trust', Memory, Grounded(program), UNCHANGED program, Busy,
           Top.node \notin Watch,
           \/ PollChanged \/ BodyReadSignal \/ BodyPeekSignal \/ BodyGotComputed
           \/ BodySet \/ BodySetRefused \/ BodyDestroy \/ FinishWatch \/ CleanupThrows
    PROVE  Memory'
<1>0. IInv /\ program \in Program BY DEF Trust, IInv, TypeOK
<1>1. CASE PollChanged
  <2>1. Top.node \in Computed BY <1>1, PollChangedTrust DEF Consumer
  <2>2. /\ Top.at \in {"poll", "polled"} /\ StartBody(Top.node) /\ UNCHANGED version
    BY <1>1 DEF PollChanged, Polling
  <2>3. value[Top.node] # COMPUTING BY <2>1, <2>2, TopIs DEF PollOK
  <2> QED BY <2>1, <2>2, <2>3, StartMemory
<1>2. ASSUME Top.at \in {"body", "await"}
      PROVE  /\ Top.node \in Computed /\ Current.op \in {"read", "set", "return"}
             /\ Top.node \notin AllowWrites[program]
             /\ Top.node \notin FragileCleanup[program]
  <2>1. Top.node \in Computed BY <1>2, Runner DEF Consumer
  <2>2. AllowWrites[program] \subseteq Watch /\ FragileCleanup[program] \subseteq Watch
    BY <1>0, BodyAssumption
  <2> QED BY <1>2, <2>1, <2>2, ComputedTop
<1>3. CASE BodyReadSignal \/ BodyPeekSignal \/ BodyGotComputed
  <2>1. /\ Current.op \in {"read", "peek"} /\ Top.at \in {"body", "await"}
        /\ Current.node \in Signal \cup Good
        /\ value[Current.node] = Eval[Current.node] /\ value[Current.node] \in Result
        /\ stack' = Resume(value[Current.node])
        /\ UNCHANGED <<value, version>>
        /\ Current.op = "read" => Access(Top.node, Current.node)
    BY <1>3, ReadNow DEF nodeVars
  <2>2. Current.op = "read" BY <1>2, <2>1
  <2>3. PICK r \in Result : r = value[Current.node] BY <2>1
  <2>4. Top.node \in Computed BY <1>2, <2>1
  <2> QED BY <2>1, <2>2, <2>3, <2>4, ComputedResumes
<1>4. CASE BodySetRefused
  <2>1. /\ Top.at \in {"body", "await"} /\ Current.op = "set" /\ stack' = Resume(ERRORED)
        /\ UNCHANGED <<value, version, edgeVars>>
    BY <1>4 DEF BodySetRefused, Running, nodeVars
  <2>2. ERRORED \in Result BY DEF Result, Content
  <2>3. Top.node \in Computed BY <1>2, <2>1
  <2> QED BY <2>1, <2>2, <2>3, ComputedResumes
<1>5. ~BodySet /\ ~BodyDestroy /\ ~FinishWatch /\ ~CleanupThrows
  BY <1>2 DEF BodySet, BodyDestroy, FinishWatch, CleanupThrows, Running
<1> QED BY <1>1, <1>3, <1>4, <1>5

LEMMA NextMemory ==
    ASSUME Trust, Trust', Memory, Grounded(program), [Next]_vars
    PROVE  Memory'
<1>1. CASE External /\ UNCHANGED program BY <1>1, IdleMemory
<1>2. CASE \E w \in Watch : Dispatch(w) BY <1>2, IdleMemory DEF Dispatch
<1>3. CASE Continue
  <2>1. UNCHANGED program BY <1>3 DEF Continue
  <2>2. CASE \/ UpdateSkip \/ UpdatePoll \/ PollProducer \/ PollNext \/ PollUnchanged
             \/ BodyCallComputed
    BY <2>1, <2>2, CallMemory
  <2>3. CASE UpdateFirst
    <3>1. Top.node \in Computed BY <2>1, <2>3, UpdateFirstTrust
    <3>2. /\ Busy /\ Top.at = "update" /\ StartBody(Top.node) /\ UNCHANGED version
          /\ value[Top.node] = UNSET
      BY <2>3 DEF UpdateFirst, Updating
    <3>3. value[Top.node] # COMPUTING BY <3>2, ValuesDistinct
    <3> QED BY <2>1, <3>1, <3>2, <3>3, StartMemory
  <2>4. CASE UpdateCycle
    <3>1. Busy /\ Top.at = "update" /\ value[Top.node] = COMPUTING
      BY <2>4 DEF UpdateCycle, Updating
    <3> QED BY <3>1, NoCycle
  <2>5. CASE FinishComputed BY <2>1, <2>5, FinishMemory
  <2>6. CASE \/ PollChanged \/ BodyReadSignal \/ BodyPeekSignal \/ BodyGotComputed
             \/ BodySet \/ BodySetRefused \/ BodyDestroy \/ FinishWatch \/ CleanupThrows
    <3>1. Busy
      BY <2>6 DEF PollChanged, BodyReadSignal, BodyPeekSignal, BodyGotComputed, BodySet,
                  BodySetRefused, BodyDestroy, FinishWatch, CleanupThrows, Polling, Running
    <3>2. CASE Top.node \in Watch BY <2>1, <2>6, <3>1, <3>2, WatchMemory
    <3>3. CASE Top.node \notin Watch BY <2>1, <2>6, <3>1, <3>3, ComputedMemory
    <3> QED BY <3>2, <3>3
  <2> QED BY <1>3, <2>2, <2>3, <2>4, <2>5, <2>6 DEF Continue
<1>4. CASE UNCHANGED vars
  <2>1. UNCHANGED <<program, value, version, edgeVars, stack>> BY <1>4 DEF vars, edgeVars
  <2>2. Stays BY <2>1 DEF Stays, FrameSame, Computing
  <2> QED BY <2>1, <2>2, StaysMemory
<1> QED BY <1>1, <1>2, <1>3, <1>4 DEF Next

LEMMA InitMemory == Init => Memory
<1> SUFFICES ASSUME Init PROVE Memory OBVIOUS
<1>1. \A c \in Computed : c \in Node /\ c \notin Signal BY NodesDisjoint DEF Node
<1>2. \A c \in Computed : value[c] = UNSET /\ deps[c] = <<>> BY <1>1 DEF Init
<1>3. SeenBefore BY <1>2 DEF SeenBefore
<1>4. Marked BY <1>2, ValuesDistinct DEF Marked
<1>5. Memos BY <1>2 DEF Memos, MemoOK
<1>6. Bodies BY DEF Init, Bodies
<1> QED BY <1>3, <1>4, <1>5, <1>6 DEF Memory

Grounds == Grounded(program) => Memory

LEMMA GroundsAlways == Spec => []Grounds
<1>1. Init => Grounds BY InitMemory DEF Grounds
<1>2. Trust /\ Trust' /\ Grounds /\ [Next]_vars => Grounds'
  <2> SUFFICES ASSUME Trust, Trust', Grounds, [Next]_vars, Grounded(program')
               PROVE  Memory'
    BY DEF Grounds
  <2>1. program' = program BY DEF Next, Dispatch, Continue, vars
  <2>2. Grounded(program) BY <2>1
  <2>3. Memory BY <2>2 DEF Grounds
  <2> QED BY <2>2, <2>3, NextMemory
<1> QED BY <1>1, <1>2, TrustAlways, PTL DEF Spec

LEMMA MemoryIsRight == Trust /\ Memory /\ Grounded(program) => FreshIsRight
<1> SUFFICES ASSUME Trust, Memory, Grounded(program), NEW c \in Computed, UpToDate(c)
             PROVE  value[c] = Eval[c]
  BY DEF FreshIsRight
<1>1. c \in Good BY Types DEF Trusting
<1> QED BY <1>1, GoodIsRight

LEMMA MemoryIsGlitchFree == Trust /\ Memory /\ Grounded(program) => GlitchFree
<1> SUFFICES ASSUME Trust, Memory, Grounded(program), NEW k \in 1..Len(stack),
                    stack[k].at \in {"body", "await"}, NEW j \in 1..Len(stack[k].trace),
                    OpAt(program, stack[k].node, stack[k].trace, j).op \in {"read", "peek"},
                    \A m \in j..Len(stack[k].trace) :
                        OpAt(program, stack[k].node, stack[k].trace, m).op # "set"
             PROVE  stack[k].trace[j]
                      = Eval[OpAt(program, stack[k].node, stack[k].trace, j).node]
  BY DEF GlitchFree
<1>1. PICK f : f = stack[k] OBVIOUS
<1>2. ComputedOK(f) /\ WatchOK(f) BY <1>1 DEF Memory, Bodies
<1>3. f.node \in Consumer BY <1>1 DEF Trust, IInv, GoodStack, GoodFrame
<1>4. CASE f.node \in Watch BY <1>1, <1>2, <1>4 DEF WatchOK
<1>5. CASE f.node \in Computed
  <2>1. Plain(program, f.node, f.trace) BY <1>1, <1>2, <1>5 DEF ComputedOK
  <2>2. OpAt(program, f.node, f.trace, j).op = "read" BY <1>1, <2>1 DEF Plain
  <2> QED BY <1>1, <1>2, <1>5, <2>2 DEF ComputedOK
<1> QED BY <1>3, <1>4, <1>5 DEF Consumer

\* In a program whose computeds neither depend on themselves nor read by
\* untracked(), a computed that the early returns of producerUpdateValueVersion
\* take for up to date has the value that a full evaluation from the present
\* signals would give it.
THEOREM CachesAreRight == Spec => [](Grounded(program) => FreshIsRight)
<1>1. Trust /\ Grounds => (Grounded(program) => FreshIsRight) BY MemoryIsRight DEF Grounds
<1> QED BY <1>1, TrustAlways, GroundsAlways, PTL

\* In such a program no computation and no function of a watch ever reads a
\* value that the present signals do not determine, in whatever order it reads,
\* writes and is run.
THEOREM NoGlitches == Spec => [](Grounded(program) => GlitchFree)
<1>1. Trust /\ Grounds => (Grounded(program) => GlitchFree)
  BY MemoryIsGlitchFree DEF Grounds
<1> QED BY <1>1, TrustAlways, GroundsAlways, PTL

\* producerUpdateValueVersion has met a computed that is being computed.
CycleMet == Updating /\ value[Top.node] = COMPUTING

\* "Detected cycle in computations" (computed.ts) is never thrown in such a
\* program: edges left over from former runs, a dependency that is polled or a
\* watch that writes are never taken for a cycle.
THEOREM NoFalseCycle == Spec => [](Grounded(program) => ~CycleMet)
<1>1. Trust /\ Memory /\ Grounded(program) => ~CycleMet
  <2> SUFFICES ASSUME Trust, Memory, Grounded(program), CycleMet PROVE FALSE OBVIOUS
  <2>1. Busy /\ Top.at = "update" /\ value[Top.node] = COMPUTING BY DEF CycleMet, Updating
  <2> QED BY <2>1, NoCycle
<1>2. Trust /\ Grounds => (Grounded(program) => ~CycleMet) BY <1>1 DEF Grounds
<1> QED BY <1>2, TrustAlways, GroundsAlways, PTL

\* Programs are grounded whose computeds can be put in an order such that their
\* code reads only computeds before them, whatever its reads return.
THEOREM OrderedIsGrounded ==
    ASSUME NEW p \in Program, NEW rank \in [Computed -> 1..Cardinality(Computed)],
           \A c \in Computed, t \in Trace :
              /\ Body[p][c][t].op # "peek"
              /\ Body[p][c][t].op = "read" /\ Body[p][c][t].node \in Computed
                    => rank[Body[p][c][t].node] < rank[c]
    PROVE  Grounded(p)
<1> SUFFICES ASSUME NEW s \in [Signal -> Value], NEW c \in Computed,
                    NEW j \in 1..Len(RunOn(p, c, Evals[p][s]))
             PROVE  LET o == OpAt(p, c, RunOn(p, c, Evals[p][s]), j) IN
                    /\ o.op # "peek"
                    /\ o.op = "read" /\ o.node \in Computed => rank[o.node] < rank[c]
  BY DEF Grounded
<1>1. Evals[p][s] = EvalWhile(p, s)[{}] BY DEF Evals
<1>2. {} \in SUBSET Computed OBVIOUS
<1>3. Evals[p][s] \in Values BY <1>1, <1>2, EvalWhileType
<1>4. PICK t : t = RunOn(p, c, Evals[p][s]) OBVIOUS
<1>5. t \in Trace BY <1>3, <1>4, RunFacts DEF Consumer, IsStart
<1>6. j - 1 \in 0..Len(t) BY <1>4, <1>5, TraceSeq
<1>7. SubSeq(t, 1, j - 1) \in Trace BY <1>5, <1>6, TraceSeq
<1> QED BY <1>4, <1>7 DEF OpAt
=============================================================================
