-------------------------- MODULE ControlTreeProof --------------------------
(***************************************************************************)
(* Proofs about module ControlTree, for every tree, every validators and   *)
(* every bound.  The properties hold at rest; what holds in between is     *)
(* that for whatever does not agree yet the list of what is left to do     *)
(* has a step that will see to it.  Has(todo, S) says that it has one of   *)
(* the steps S; Coverers, Revaluers and Restaters are the steps that bring *)
(* a control up to date, its value, or its status.  Shape is what the list *)
(* is like: a step on a control that leaves the parent alone is followed   *)
(* by one that does not, and while disable() is on its way through         *)
(* children nothing else comes before.                                     *)
(*   FollowInv    gives TypeOK and ParentsFollow;                          *)
(*   VerdictInv   adds what a verdict and an awaited answer are about, and *)
(*     gives VerdictIsCurrent and AnswerIsAwaited.                         *)
(***************************************************************************)
EXTENDS ControlTree, SequenceTheorems, TLAPS

-----------------------------------------------------------------------------
(* The tree. *)

LEMMA ParentIs ==
    ASSUME NEW n \in Controls, n # Root
    PROVE  Parent[n] \in Groups /\ Parent[n] \in Controls
BY ControlTreeAssumption DEF Controls

\* A set that holds the parent of n, and with a control its parent, holds all
\* groups above n.
LEMMA AncestorsLeast ==
    ASSUME NEW n \in Controls, NEW S \in SUBSET Controls,
           \A x \in {n} \cup S : x # Root => Parent[x] \in S
    PROVE  Ancestors[n] \subseteq S
<1> DEFINE holder == [x \in Controls |-> IF x = Root THEN {} ELSE {Parent[x]}]
<1>1. Tree!Closed(S, {n}, Controls, holder) BY DEF Tree!Closed
<1>2. Ancestors[n] = Tree!Reachable({n}, Controls, holder) BY DEF Ancestors
<1> QED BY <1>1, <1>2 DEF Tree!Reachable

LEMMA AncestorsClosed ==
    ASSUME NEW n \in Controls
    PROVE  /\ Ancestors[n] \in SUBSET Controls
           /\ \A x \in {n} \cup Ancestors[n] : x # Root => Parent[x] \in Ancestors[n]
<1> DEFINE holder == [x \in Controls |-> IF x = Root THEN {} ELSE {Parent[x]}]
<1>1. Ancestors[n] = Tree!Reachable({n}, Controls, holder) BY DEF Ancestors
<1>2. Ancestors[n] \in SUBSET Controls BY <1>1 DEF Tree!Reachable
<1>3. ASSUME NEW x \in {n} \cup Ancestors[n], x # Root PROVE Parent[x] \in Ancestors[n]
  <2>1. x \in Controls /\ Parent[x] \in Controls BY <1>2, <1>3, ParentIs
  <2>2. ASSUME NEW S \in SUBSET Controls, Tree!Closed(S, {n}, Controls, holder)
        PROVE  Parent[x] \in S
    <3>1. x \in {n} \cup S BY <1>1, <1>3, <2>2 DEF Tree!Reachable
    <3>2. Parent[x] \in holder[x] BY <1>3, <2>1
    <3> HIDE DEF holder
    <3> QED BY <2>1, <2>2, <3>1, <3>2 DEF Tree!Closed
  <2> HIDE DEF holder
  <2> QED BY <1>1, <2>1, <2>2 DEF Tree!Reachable
<1> QED BY <1>2, <1>3

LEMMA AncestorsOf ==
    ASSUME NEW n \in Controls, n # Root
    PROVE  Ancestors[n] = {Parent[n]} \cup Ancestors[Parent[n]]
<1>1. Parent[n] \in Controls BY ParentIs
<1>2. Parent[n] \in Ancestors[n] BY AncestorsClosed
<1>3. Ancestors[Parent[n]] \subseteq Ancestors[n]
  BY <1>1, <1>2, AncestorsClosed, AncestorsLeast
<1> DEFINE S == {Parent[n]} \cup Ancestors[Parent[n]]
<1>4. S \in SUBSET Controls BY <1>1, AncestorsClosed
<1>5. \A x \in {n} \cup S : x # Root => Parent[x] \in S BY <1>1, AncestorsClosed
<1>6. Ancestors[n] \subseteq S BY <1>4, <1>5, AncestorsLeast
<1> QED BY <1>2, <1>3, <1>6

LEMMA RootIsTop == Ancestors[Root] = {}
<1>1. Root \in Controls BY ControlTreeAssumption DEF Controls
<1> DEFINE S == {}
<1>2. S \in SUBSET Controls /\ \A x \in {Root} \cup S : x # Root => Parent[x] \in S OBVIOUS
<1> HIDE DEF S
<1>3. Ancestors[Root] \subseteq S BY <1>1, <1>2, AncestorsLeast
<1> QED BY <1>3 DEF S

LEMMA ParentAbove ==
    ASSUME NEW n \in Controls, n # Root
    PROVE  Parent[n] # n /\ Parent[n] \in Ancestors[n]
<1>1. Parent[n] \in Ancestors[n] BY AncestorsClosed
<1>2. n \notin Ancestors[n] BY NoCycles
<1> QED BY <1>1, <1>2

-----------------------------------------------------------------------------
(* What calls have left to do. *)

Do == {"patch", "disable", "enable", "update", "status", "revalue", "above",
       "subscribed", "emit"}

Item == {s \in [do : Do, n : Controls, self : BOOLEAN] :
           /\ s.self /\ s.do \in {"patch", "disable", "enable"} => s.n # Root
           /\ s.do = "revalue" => s.n \in Groups
           /\ s.do \in {"revalue", "subscribed", "emit"} => s.self
           /\ s.do \in {"status", "above"} => ~s.self}

Has(td, S) == \E i \in 1..Len(td) : td[i] \in S

\* Before a member of S there are members of B only.
InOrder(td, S, B) == \A i \in 1..Len(td) : td[i] \in S => \A j \in 1..(i - 1) : td[j] \in B

\* The steps that bring n up to date, some day: all of it, its value, its status.
Coverers(n) ==
    {s \in Item : \/ s.do = "update" /\ (n = s.n \/ (~s.self /\ n \in Ancestors[s.n]))
                  \/ s.do = "above" /\ n \in Ancestors[s.n]}
Revaluers(n) == Coverers(n) \cup {s \in Item : s.do = "revalue" /\ s.n = n}
Restaters(n) == {s \in Item : s.do = "status" /\ n \in {s.n} \cup Ancestors[s.n]}

\* A step on n that leaves its parent to one further on, and to which.
Bound(s) ==
    /\ s.n # Root
    /\ s.do = "revalue" \/ (s.self /\ s.do \in {"patch", "disable", "enable", "update"})
Promise(s) ==
    IF s.do \in {"revalue", "disable"} THEN Revaluers(Parent[s.n]) ELSE Coverers(Parent[s.n])

Chained(td) ==
    \A i \in 1..Len(td) : Bound(td[i]) =>
        \E j \in (i + 1)..Len(td) : td[j] \in Promise(td[i])

LEMMA HasConcat ==
    ASSUME NEW a \in Seq(Item), NEW b \in Seq(Item), NEW S
    PROVE  Has(a \o b, S) <=> Has(a, S) \/ Has(b, S)
<1>1. /\ Len(a) \in Nat /\ Len(b) \in Nat /\ Len(a \o b) = Len(a) + Len(b)
      /\ \A i \in 1..Len(a) : (a \o b)[i] = a[i]
      /\ \A i \in 1..Len(b) : (a \o b)[Len(a) + i] = b[i]
  BY ConcatProperties, LenProperties
<1>2. ASSUME Has(a \o b, S) PROVE Has(a, S) \/ Has(b, S)
  <2>1. PICK i \in 1..Len(a \o b) : (a \o b)[i] \in S BY <1>2 DEF Has
  <2>2. CASE i <= Len(a) BY <1>1, <2>1, <2>2 DEF Has
  <2>3. CASE i > Len(a)
    <3>1. i - Len(a) \in 1..Len(b) /\ i = Len(a) + (i - Len(a)) BY <1>1, <2>1, <2>3
    <3>2. b[i - Len(a)] \in S BY <1>1, <2>1, <3>1
    <3> QED BY <3>1, <3>2 DEF Has
  <2> QED BY <1>1, <2>1, <2>2, <2>3
<1>3. ASSUME Has(a, S) PROVE Has(a \o b, S)
  <2>1. PICK i \in 1..Len(a) : a[i] \in S BY <1>3 DEF Has
  <2>2. i \in 1..Len(a \o b) /\ (a \o b)[i] \in S BY <1>1, <2>1
  <2> QED BY <2>2 DEF Has
<1>4. ASSUME Has(b, S) PROVE Has(a \o b, S)
  <2>1. PICK i \in 1..Len(b) : b[i] \in S BY <1>4 DEF Has
  <2>2. Len(a) + i \in 1..Len(a \o b) /\ (a \o b)[Len(a) + i] \in S BY <1>1, <2>1
  <2> QED BY <2>2 DEF Has
<1> QED BY <1>2, <1>3, <1>4

LEMMA Regroup ==
    ASSUME NEW a \in Seq(Item), NEW b \in Seq(Item), NEW c \in Seq(Item)
    PROVE  (a \o b) \o c = a \o (b \o c)
BY ConcatAssociative

LEMMA HasHead ==
    ASSUME NEW td \in Seq(Item), td # <<>>, NEW S
    PROVE  Has(td, S) <=> Head(td) \in S \/ Has(Tail(td), S)
<1>1. /\ Len(td) \in Nat /\ Len(td) > 0 /\ Head(td) = td[1]
      /\ Len(Tail(td)) = Len(td) - 1
      /\ \A i \in 1..Len(Tail(td)) : Tail(td)[i] = td[i + 1]
  BY HeadTailProperties, LenProperties, EmptySeq
<1>2. ASSUME Has(td, S), Head(td) \notin S PROVE Has(Tail(td), S)
  <2>1. PICK i \in 1..Len(td) : td[i] \in S BY <1>2 DEF Has
  <2>2. i - 1 \in 1..Len(Tail(td)) /\ i = (i - 1) + 1 BY <1>1, <1>2, <2>1
  <2>3. Tail(td)[i - 1] \in S BY <1>1, <2>1, <2>2
  <2> QED BY <2>2, <2>3 DEF Has
<1>3. ASSUME Has(Tail(td), S) PROVE Has(td, S)
  <2>1. PICK i \in 1..Len(Tail(td)) : Tail(td)[i] \in S BY <1>3 DEF Has
  <2>2. i + 1 \in 1..Len(td) /\ td[i + 1] \in S BY <1>1, <2>1
  <2> QED BY <2>2 DEF Has
<1>4. 1 \in 1..Len(td) BY <1>1
<1> QED BY <1>1, <1>2, <1>3, <1>4 DEF Has

LEMMA HasOne ==
    ASSUME NEW s \in Item, NEW S
    PROVE  <<s>> \in Seq(Item) /\ (Has(<<s>>, S) <=> s \in S)
<1>1. <<s>> \in Seq(Item) /\ Len(<<s>>) = 1 /\ <<s>>[1] = s OBVIOUS
<1> QED BY <1>1 DEF Has

LEMMA HasNone == \A S : ~Has(<<>>, S)
BY EmptySeq DEF Has

LEMMA ChainedTail ==
    ASSUME NEW td \in Seq(Item), td # <<>>, Chained(td)
    PROVE  /\ Chained(Tail(td))
           /\ Bound(Head(td)) => Has(Tail(td), Promise(Head(td)))
<1>1. /\ Len(td) \in Nat /\ Len(td) > 0 /\ Head(td) = td[1]
      /\ Len(Tail(td)) = Len(td) - 1
      /\ \A i \in 1..Len(Tail(td)) : Tail(td)[i] = td[i + 1]
  BY HeadTailProperties, LenProperties, EmptySeq
<1>2. ASSUME NEW i \in 1..Len(td), Bound(td[i])
      PROVE  \E j \in i..Len(Tail(td)) : Tail(td)[j] \in Promise(td[i])
  <2>1. PICK j \in (i + 1)..Len(td) : td[j] \in Promise(td[i]) BY <1>2 DEF Chained
  <2>2. j - 1 \in i..Len(Tail(td)) /\ Tail(td)[j - 1] = td[j] BY <1>1, <2>1
  <2> QED BY <2>1, <2>2
<1>3. Chained(Tail(td))
  <2> SUFFICES ASSUME NEW i \in 1..Len(Tail(td)), Bound(Tail(td)[i])
               PROVE  \E j \in (i + 1)..Len(Tail(td)) : Tail(td)[j] \in Promise(Tail(td)[i])
    BY DEF Chained
  <2>1. i + 1 \in 1..Len(td) /\ Tail(td)[i] = td[i + 1] BY <1>1
  <2> QED BY <1>2, <2>1
<1>4. ASSUME Bound(Head(td)) PROVE Has(Tail(td), Promise(Head(td)))
  <2>1. 1 \in 1..Len(td) BY <1>1
  <2> QED BY <1>1, <1>2, <1>4, <2>1 DEF Has
<1> QED BY <1>3, <1>4

LEMMA ChainedConcat ==
    ASSUME NEW a \in Seq(Item), NEW b \in Seq(Item), Chained(b),
           \A i \in 1..Len(a) : Bound(a[i]) => Has(b, Promise(a[i]))
    PROVE  Chained(a \o b)
<1>1. /\ Len(a) \in Nat /\ Len(b) \in Nat /\ Len(a \o b) = Len(a) + Len(b)
      /\ \A i \in 1..Len(a) : (a \o b)[i] = a[i]
      /\ \A i \in 1..Len(b) : (a \o b)[Len(a) + i] = b[i]
  BY ConcatProperties, LenProperties
<1> SUFFICES ASSUME NEW i \in 1..Len(a \o b), Bound((a \o b)[i])
             PROVE  \E j \in (i + 1)..Len(a \o b) : (a \o b)[j] \in Promise((a \o b)[i])
  BY DEF Chained
<1>2. CASE i <= Len(a)
  <2>1. (a \o b)[i] = a[i] /\ i \in 1..Len(a) BY <1>1, <1>2
  <2>2. PICK j \in 1..Len(b) : b[j] \in Promise(a[i]) BY <2>1 DEF Has
  <2>3. Len(a) + j \in (i + 1)..Len(a \o b) /\ (a \o b)[Len(a) + j] = b[j] BY <1>1, <1>2, <2>2
  <2> QED BY <2>1, <2>2, <2>3
<1>3. CASE i > Len(a)
  <2>1. i - Len(a) \in 1..Len(b) /\ i = Len(a) + (i - Len(a)) BY <1>1, <1>3
  <2>2. (a \o b)[i] = b[i - Len(a)] BY <1>1, <2>1
  <2>3. PICK j \in ((i - Len(a)) + 1)..Len(b) : b[j] \in Promise(b[i - Len(a)])
    BY <2>1, <2>2 DEF Chained
  <2>4. Len(a) + j \in (i + 1)..Len(a \o b) /\ (a \o b)[Len(a) + j] = b[j] BY <1>1, <1>3, <2>3
  <2> QED BY <2>2, <2>3, <2>4
<1> QED BY <1>1, <1>2, <1>3

LEMMA InOrderTail ==
    ASSUME NEW td \in Seq(Item), td # <<>>, NEW S, NEW B, InOrder(td, S, B)
    PROVE  InOrder(Tail(td), S, B) /\ (Has(Tail(td), S) => Head(td) \in B)
<1>1. /\ Len(td) \in Nat /\ Len(td) > 0 /\ Head(td) = td[1]
      /\ Len(Tail(td)) = Len(td) - 1
      /\ \A i \in 1..Len(Tail(td)) : Tail(td)[i] = td[i + 1]
  BY HeadTailProperties, LenProperties, EmptySeq
<1>2. ASSUME NEW i \in 1..Len(Tail(td)), Tail(td)[i] \in S
      PROVE  td[1] \in B /\ \A j \in 1..(i - 1) : Tail(td)[j] \in B
  <2>1. i + 1 \in 1..Len(td) /\ td[i + 1] \in S BY <1>1, <1>2
  <2>2. \A j \in 1..((i + 1) - 1) : td[j] \in B BY <2>1 DEF InOrder
  <2>3. 1 \in 1..((i + 1) - 1) BY <1>1
  <2>4. ASSUME NEW j \in 1..(i - 1) PROVE Tail(td)[j] \in B
    <3>1. j + 1 \in 1..((i + 1) - 1) /\ j \in 1..Len(Tail(td)) BY <1>1
    <3> QED BY <1>1, <2>2, <3>1
  <2> QED BY <2>2, <2>3, <2>4
<1> QED BY <1>1, <1>2 DEF InOrder, Has

LEMMA InOrderConcat ==
    ASSUME NEW a \in Seq(Item), NEW b \in Seq(Item), NEW S, NEW B, InOrder(a, S, B),
           InOrder(b, S, B), Has(b, S) => \A i \in 1..Len(a) : a[i] \in B
    PROVE  InOrder(a \o b, S, B)
<1>1. /\ Len(a) \in Nat /\ Len(b) \in Nat /\ Len(a \o b) = Len(a) + Len(b)
      /\ \A i \in 1..Len(a) : (a \o b)[i] = a[i]
      /\ \A i \in 1..Len(b) : (a \o b)[Len(a) + i] = b[i]
  BY ConcatProperties, LenProperties
<1> SUFFICES ASSUME NEW i \in 1..Len(a \o b), (a \o b)[i] \in S, NEW j \in 1..(i - 1)
             PROVE  (a \o b)[j] \in B
  BY DEF InOrder
<1>2. CASE i <= Len(a)
  <2>1. i \in 1..Len(a) /\ j \in 1..Len(a) BY <1>1, <1>2
  <2> QED BY <1>1, <2>1 DEF InOrder
<1>3. CASE i > Len(a)
  <2>1. i - Len(a) \in 1..Len(b) /\ i = Len(a) + (i - Len(a)) BY <1>1, <1>3
  <2>2. b[i - Len(a)] \in S BY <1>1, <2>1
  <2>3. CASE j <= Len(a)
    <3>1. j \in 1..Len(a) BY <1>1, <2>3
    <3> QED BY <1>1, <2>1, <2>2, <3>1 DEF Has
  <2>4. CASE j > Len(a)
    <3>1. j - Len(a) \in 1..((i - Len(a)) - 1) /\ j - Len(a) \in 1..Len(b)
            /\ j = Len(a) + (j - Len(a))
      BY <1>1, <2>1, <2>4
    <3>2. b[j - Len(a)] \in B BY <2>1, <2>2, <3>1 DEF InOrder
    <3> QED BY <1>1, <3>1, <3>2
  <2> QED BY <1>1, <2>3, <2>4
<1> QED BY <1>1, <1>2, <1>3

-----------------------------------------------------------------------------
(* Types. *)

Types ==
    /\ controls \in [Groups -> Seq(Controls)]
    /\ value = [n \in Controls |-> value[n]]
    /\ sub = [n \in Controls |-> sub[n]]
    /\ \A v \in open : v.n \in Controls
    /\ todo \in Seq(Item)
    /\ TypeOK

LEMMA KidsIs ==
    ASSUME Types, NEW n \in Controls
    PROVE  /\ Kids(n) \subseteq Controls \ {Root}
           /\ \A c \in Kids(n) : Parent[c] = n /\ c # n
           /\ n \in Leaves => Kids(n) = {}
           /\ n \notin Leaves => n \in Groups /\ Kids(n) = ToSet(controls[n])
<1>1. CASE n \in Leaves BY <1>1, ControlTreeAssumption DEF Kids
<1>2. CASE n \notin Leaves
  <2>1. n \in Groups /\ Kids(n) = ToSet(controls[n]) BY <1>2 DEF Controls, Kids
  <2>2. ToSet(Children[n]) = {c \in Controls \ {Root} : Parent[c] = n}
    BY <2>1, ControlTreeAssumption
  <2>3. Kids(n) \subseteq ToSet(Children[n]) BY <2>1 DEF Types, TypeOK
  <2> QED BY <1>2, <2>1, <2>2, <2>3, ParentAbove
<1> QED BY <1>1, <1>2

LEMMA StepIs ==
    ASSUME NEW do \in Do, NEW n \in Controls, NEW self \in BOOLEAN,
           self /\ do \in {"patch", "disable", "enable"} => n # Root,
           do = "revalue" => n \in Groups,
           do \in {"revalue", "subscribed", "emit"} => self,
           do \in {"status", "above"} => ~self
    PROVE  /\ Step(do, n, self) \in Item
           /\ Step(do, n, self).do = do /\ Step(do, n, self).n = n
           /\ Step(do, n, self).self = self
BY DEF Step, Item

LEMMA NoticeIs ==
    ASSUME NEW n \in Controls
    PROVE  /\ Step("status", n, FALSE) \in Item /\ Step("above", n, FALSE) \in Item
           /\ Step("subscribed", n, TRUE) \in Item
<1>1. "status" \in Do /\ "above" \in Do /\ "subscribed" \in Do BY DEF Do
<1>2. Step("status", n, FALSE) \in Item BY <1>1, StepIs
<1>3. Step("above", n, FALSE) \in Item BY <1>1, StepIs
<1>4. Step("subscribed", n, TRUE) \in Item BY <1>1, StepIs
<1> QED BY <1>2, <1>3, <1>4

LEMMA EachIs ==
    ASSUME Types, NEW n \in Controls, NEW do \in {"patch", "disable", "enable"}
    PROVE  /\ Each(do, n) \in Seq(Item)
           /\ \A i \in 1..Len(Each(do, n)) : \E c \in Kids(n) : Each(do, n)[i] = Step(do, c, TRUE)
           /\ \A c \in Kids(n) : Has(Each(do, n), {Step(do, c, TRUE)})
<1>1. CASE n \in Leaves
  <2>1. Each(do, n) = <<>> /\ Kids(n) = {} BY <1>1, KidsIs DEF Each
  <2> QED BY <2>1, EmptySeq
<1>2. CASE n \notin Leaves
  <2>1. n \in Groups /\ Kids(n) = ToSet(controls[n]) BY <1>2, KidsIs
  <2>2. controls[n] \in Seq(Controls) BY <2>1 DEF Types
  <2>3. DOMAIN controls[n] = 1..Len(controls[n]) /\ Len(controls[n]) \in Nat
    BY <2>2, LenProperties
  <2>4. Kids(n) = {controls[n][i] : i \in 1..Len(controls[n])} BY <2>1, <2>3 DEF ToSet
  <2>5. Each(do, n) = [i \in 1..Len(controls[n]) |-> Step(do, controls[n][i], TRUE)]
    BY <1>2, <2>3 DEF Each
  <2>6. \A c \in Kids(n) : Step(do, c, TRUE) \in Item
    <3>1. do \in Do BY DEF Do
    <3>2. \A c \in Kids(n) : c \in Controls /\ c # Root BY KidsIs
    <3> QED BY <3>1, <3>2, StepIs
  <2>7. \A i \in 1..Len(controls[n]) : Step(do, controls[n][i], TRUE) \in Item BY <2>4, <2>6
  <2>8. Each(do, n) \in Seq(Item) /\ Len(Each(do, n)) = Len(controls[n])
    <3>1. Each(do, n) \in [1..Len(controls[n]) -> Item] BY <2>5, <2>7
    <3> QED BY <2>3, <3>1, IsASeq, LenProperties
  <2>9. \A i \in 1..Len(Each(do, n)) : \E c \in Kids(n) : Each(do, n)[i] = Step(do, c, TRUE)
    BY <2>4, <2>5, <2>8
  <2>10. ASSUME NEW c \in Kids(n) PROVE Has(Each(do, n), {Step(do, c, TRUE)})
    <3>1. PICK i \in 1..Len(controls[n]) : c = controls[n][i] BY <2>4
    <3> QED BY <2>5, <2>8, <3>1 DEF Has
  <2> QED BY <2>8, <2>9, <2>10
<1> QED BY <1>1, <1>2

LEMMA UpIs ==
    ASSUME NEW n \in Controls, NEW do \in {"update", "status"}
    PROVE  /\ Up(do, n) \in Seq(Item)
           /\ n # Root => Step(do, Parent[n], FALSE) \in Item
                          /\ Up(do, n) = <<Step(do, Parent[n], FALSE)>>
           /\ n = Root => Up(do, n) = <<>>
<1>1. CASE n = Root BY <1>1, EmptySeq DEF Up
<1>2. CASE n # Root
  <2>1. Parent[n] \in Controls BY <1>2, ParentIs
  <2>2. Step(do, Parent[n], FALSE) \in Item BY <2>1, StepIs DEF Do
  <2> QED BY <1>2, <2>2, HasOne DEF Up
<1> QED BY <1>1, <1>2

LEMMA HeadIs ==
    ASSUME todo \in Seq(Item), todo # <<>>
    PROVE  /\ Head(todo) \in Item /\ Tail(todo) \in Seq(Item)
           /\ Head(todo).n \in Controls /\ Head(todo).self \in BOOLEAN
<1>1. Head(todo) \in Item /\ Tail(todo) \in Seq(Item) BY HeadTailProperties, EmptySeq
<1> QED BY <1>1 DEF Item

LEMMA BeginIs ==
    ASSUME todo \in Seq(Item), NEW do \in Do, NEW n, NEW self, Begin(do, n, self)
    PROVE  /\ todo # <<>> /\ Head(todo) = Step(do, n, self) /\ Step(do, n, self) \in Item
           /\ n \in Controls /\ self \in BOOLEAN
           /\ Head(todo).do = do /\ Head(todo).n = n /\ Head(todo).self = self
BY HeadIs DEF Begin, Step, Item

\* The parts of which the rest of a call is made.
LEMMA RestIs ==
    ASSUME Types, NEW n \in Controls, NEW self \in BOOLEAN
    PROVE  /\ Emit(n) \in Item /\ <<Emit(n)>> \in Seq(Item)
           /\ Step("update", n, self) \in Item /\ <<Step("update", n, self)>> \in Seq(Item)
           /\ Step("status", n, FALSE) \in Item /\ Step("subscribed", n, TRUE) \in Item
           /\ UpUnless(self, n) \in Seq(Item) /\ AfterChildren(n) \in Seq(Item)
           /\ Above(self, n) \in Seq(Item)
<1>1. /\ Emit(n) \in Item /\ Step("update", n, self) \in Item
      /\ Step("status", n, FALSE) \in Item /\ Step("subscribed", n, TRUE) \in Item
      /\ Step("above", n, FALSE) \in Item
      /\ n \notin Leaves => Step("revalue", n, TRUE) \in Item
  BY KidsIs DEF Do, Emit, Step, Item
<1>2. <<>> \in Seq(Item) BY EmptySeq
<1>3. UpUnless(self, n) \in Seq(Item) BY <1>2, UpIs DEF UpUnless
<1>4. AfterChildren(n) \in Seq(Item) BY <1>1, <1>2, HasOne DEF AfterChildren
<1>5. Above(self, n) \in Seq(Item) BY <1>1, <1>2, HasOne DEF Above
<1> QED BY <1>1, <1>3, <1>4, <1>5, HasOne

-----------------------------------------------------------------------------
(* What a step makes of the list. *)

Disables == {s \in Item : s.do = "disable" /\ s.self}
Quiets == {s \in Item : s.self /\ s.do \in {"disable", "revalue", "emit"}}
Bounds == {s \in Item : Bound(s)}

LEMMA HasSome ==
    ASSUME NEW td \in Seq(Item), NEW S
    PROVE  Has(td, S) <=> \E i \in 1..Len(td) : td[i] \in S /\ td[i] \in Item
<1>1. \A i \in 1..Len(td) : td[i] \in Item BY ElementOfSeq
<1> QED BY <1>1 DEF Has

LEMMA ChainedFree ==
    ASSUME NEW a \in Seq(Item), NEW b \in Seq(Item), Chained(b), ~Has(a, Bounds)
    PROVE  Chained(a \o b)
<1>1. \A i \in 1..Len(a) : ~Bound(a[i]) BY HasSome DEF Bounds
<1> QED BY <1>1, ChainedConcat

LEMMA OrderedFree ==
    ASSUME NEW a \in Seq(Item), NEW b \in Seq(Item), NEW S, NEW B,
           InOrder(b, S, B), ~Has(a, S), Has(b, S) => ~Has(a, Item \ B)
    PROVE  InOrder(a \o b, S, B)
<1>1. InOrder(a, S, B) BY DEF InOrder, Has
<1>2. ASSUME Has(b, S) PROVE \A i \in 1..Len(a) : a[i] \in B
  BY <1>2, HasSome DEF Has
<1> QED BY <1>1, <1>2, InOrderConcat

LEMMA UpUnlessHas ==
    ASSUME NEW n \in Controls, NEW self \in BOOLEAN, NEW S
    PROVE  Has(UpUnless(self, n), S)
             <=> ~self /\ n # Root /\ Step("update", Parent[n], FALSE) \in S
<1>1. CASE self \/ n = Root
  <2>1. UpUnless(self, n) = <<>> BY <1>1, UpIs DEF UpUnless
  <2> QED BY <1>1, <2>1, HasNone
<1>2. CASE ~self /\ n # Root
  <2>1. UpUnless(self, n) = <<Step("update", Parent[n], FALSE)>>
        /\ Step("update", Parent[n], FALSE) \in Item
    BY <1>2, UpIs DEF UpUnless
  <2> DEFINE s == Step("update", Parent[n], FALSE)
  <2>2. s \in Item /\ UpUnless(self, n) = <<s>> BY <2>1
  <2> HIDE DEF s
  <2>3. Has(<<s>>, S) <=> s \in S BY <2>2, HasOne
  <2> QED BY <1>2, <2>2, <2>3 DEF s
<1> QED BY <1>1, <1>2

LEMMA AboveHas ==
    ASSUME NEW n \in Controls, NEW self \in BOOLEAN, NEW S
    PROVE  Has(Above(self, n), S) <=> ~self /\ Step("above", n, FALSE) \in S
<1>1. Step("above", n, FALSE) \in Item BY NoticeIs
<1>2. CASE self BY <1>2, HasNone DEF Above
<1>3. CASE ~self BY <1>1, <1>3, HasOne DEF Above
<1> QED BY <1>2, <1>3

LEMMA AfterHas ==
    ASSUME NEW n \in Controls, NEW S
    PROVE  Has(AfterChildren(n), S) <=> n \notin Leaves /\ Step("revalue", n, TRUE) \in S
<1>1. n \notin Leaves => Step("revalue", n, TRUE) \in Item BY StepIs DEF Do, Controls
<1>2. CASE n \in Leaves BY <1>2, HasNone DEF AfterChildren
<1>3. CASE n \notin Leaves BY <1>1, <1>3, HasOne DEF AfterChildren
<1> QED BY <1>2, <1>3

LEMMA EachHas ==
    ASSUME Types, NEW n \in Controls, NEW do \in {"patch", "disable", "enable"}, NEW S
    PROVE  Has(Each(do, n), S) <=> \E c \in Kids(n) : Step(do, c, TRUE) \in S
<1>1. ASSUME Has(Each(do, n), S) PROVE \E c \in Kids(n) : Step(do, c, TRUE) \in S
  <2>1. PICK i \in 1..Len(Each(do, n)) : Each(do, n)[i] \in S BY <1>1 DEF Has
  <2> QED BY <2>1, EachIs
<1>2. ASSUME NEW c \in Kids(n), Step(do, c, TRUE) \in S PROVE Has(Each(do, n), S)
  <2>1. Has(Each(do, n), {Step(do, c, TRUE)}) BY EachIs
  <2> QED BY <1>2, <2>1 DEF Has
<1> QED BY <1>1, <1>2

\* updateValueAndValidity(): what may come before the parents.
LEMMA UpdateGoes ==
    ASSUME Types, NEW n, NEW self, UpdateValueAndValidity(n, self)
    PROVE  /\ Begin("update", n, self) /\ controls' = controls /\ calls' = calls
           /\ \E pre \in Seq(Item) :
                /\ todo' = (pre \o UpUnless(self, n)) \o Tail(todo)
                /\ \A S : Has(pre, S) => \E s \in S :
                     s \in {Emit(n), Step("status", n, FALSE), Step("subscribed", n, TRUE)}
                /\ UpdateAtOnce(n, self)
                     => pre = <<Step("status", n, FALSE), Step("subscribed", n, TRUE), Emit(n)>>
<1>1. Begin("update", n, self) /\ controls' = controls /\ calls' = calls
  BY DEF UpdateValueAndValidity, UpdateDisabled, UpdateSync, UpdateLater, UpdateAtOnce, Update
<1>2. n \in Controls /\ self \in BOOLEAN BY <1>1, BeginIs DEF Types, Do
<1>3. CASE ~UpdateAtOnce(n, self)
  <2>1. todo' = (<<Emit(n)>> \o UpUnless(self, n)) \o Tail(todo)
    BY <1>3 DEF UpdateValueAndValidity, UpdateDisabled, UpdateSync, UpdateLater, Goes
  <2>2. <<Emit(n)>> \in Seq(Item) /\ \A S : Has(<<Emit(n)>>, S) => Emit(n) \in S
    BY <1>2, RestIs, HasOne
  <2> QED BY <1>1, <1>3, <2>1, <2>2
<1>4. CASE UpdateAtOnce(n, self)
  <2> DEFINE a == Step("status", n, FALSE)
             b == Step("subscribed", n, TRUE)
             pre == <<a, b, Emit(n)>>
  <2>1. todo' = (pre \o UpUnless(self, n)) \o Tail(todo)
    <3>1. todo' = (<<a, b, Emit(n)>> \o UpUnless(self, n)) \o Tail(todo)
      BY <1>4 DEF UpdateAtOnce, Goes
    <3> QED BY <3>1
  <2>2. a \in Item /\ b \in Item /\ Emit(n) \in Item BY <1>2, RestIs
  <2> HIDE DEF a, b
  <2>3. pre \in Seq(Item) /\ Len(pre) = 3 BY <2>2
  <2>4. pre[1] = a /\ pre[2] = b /\ pre[3] = Emit(n) OBVIOUS
  <2>5. \A S : Has(pre, S) => \E s \in S : s \in {Emit(n), a, b}
    <3> SUFFICES ASSUME NEW S, Has(pre, S) PROVE \E s \in S : s \in {Emit(n), a, b}
      OBVIOUS
    <3>1. PICK i \in 1..3 : pre[i] \in S BY <2>3 DEF Has
    <3> QED BY <2>4, <3>1
  <2> QED BY <1>1, <1>4, <2>1, <2>3, <2>5 DEF a, b
<1> QED BY <1>3, <1>4

Shape == Chained(todo) /\ InOrder(todo, Disables, Quiets)

\* Steps that put nothing in the list that others have to follow.
LEMMA ShapeFree ==
    ASSUME Types, Shape, todo # <<>>, NEW a \in Seq(Item), todo' = a \o Tail(todo),
           ~Has(a, Bounds), ~Has(a, Disables),
           Head(todo) \in Quiets => ~Has(a, Item \ Quiets)
    PROVE  Shape' /\ todo' \in Seq(Item) /\ \A S : Has(todo', S) <=> Has(a, S) \/ Has(Tail(todo), S)
<1>1. Tail(todo) \in Seq(Item) BY HeadIs DEF Types
<1>2. Chained(Tail(todo)) BY ChainedTail DEF Types, Shape
<1>3. /\ InOrder(Tail(todo), Disables, Quiets)
      /\ Has(Tail(todo), Disables) => Head(todo) \in Quiets
  BY InOrderTail DEF Types, Shape
<1>4. Chained(todo') BY <1>1, <1>2, ChainedFree
<1>5. InOrder(todo', Disables, Quiets) BY <1>1, <1>3, OrderedFree
<1>6. todo' \in Seq(Item) BY <1>1, ConcatProperties
<1>7. \A S : Has(todo', S) <=> Has(a, S) \/ Has(Tail(todo), S) BY <1>1, HasConcat
<1> QED BY <1>4, <1>5, <1>6, <1>7 DEF Shape

LEMMA ShapeTail ==
    ASSUME Types, Shape, todo # <<>>, Goes(<<>>)
    PROVE  Shape' /\ todo' \in Seq(Item) /\ \A S : Has(todo', S) <=> Has(Tail(todo), S)
<1>1. <<>> \in Seq(Item) BY EmptySeq
<1>2. todo' = <<>> \o Tail(todo) BY DEF Goes
<1> QED BY <1>1, <1>2, HasNone, ShapeFree

\* updateValueAndValidity()
LEMMA ShapeUpdate ==
    ASSUME Types, Shape, NEW n, NEW self, UpdateValueAndValidity(n, self)
    PROVE  /\ Shape' /\ todo' \in Seq(Item)
           /\ \A S : Has(Tail(todo), S) => Has(todo', S)
           /\ UpdateAtOnce(n, self) => Has(todo', {Step("status", n, FALSE)})
           /\ n # Root => Has(todo', Coverers(Parent[n]))
           /\ n # Root /\ ~self => Has(todo', {Step("update", Parent[n], FALSE)})
           /\ ~Has(todo', Disables)
<1>1. Begin("update", n, self) BY UpdateGoes
<1>2. /\ n \in Controls /\ self \in BOOLEAN /\ todo # <<>> /\ Head(todo).do = "update"
      /\ Head(todo) = Step("update", n, self) /\ Head(todo).n = n /\ Head(todo).self = self
  BY <1>1, BeginIs DEF Types, Do
<1>3. PICK pre \in Seq(Item) :
        /\ todo' = (pre \o UpUnless(self, n)) \o Tail(todo)
        /\ \A S : Has(pre, S) => \E s \in S :
             s \in {Emit(n), Step("status", n, FALSE), Step("subscribed", n, TRUE)}
        /\ UpdateAtOnce(n, self)
             => pre = <<Step("status", n, FALSE), Step("subscribed", n, TRUE), Emit(n)>>
  BY UpdateGoes
<1> DEFINE a == pre \o UpUnless(self, n)
<1>4. UpUnless(self, n) \in Seq(Item) /\ a \in Seq(Item) BY <1>2, <1>3, RestIs, ConcatProperties
<1>5. \A S : Has(a, S) <=> Has(pre, S) \/ Has(UpUnless(self, n), S) BY <1>3, <1>4, HasConcat
<1>6. ~Has(a, Bounds) /\ ~Has(a, Disables)
  <2>1. ~Has(pre, Bounds) BY <1>3 DEF Bounds, Bound, Emit, Step
  <2>2. ~Has(pre, Disables) BY <1>3 DEF Disables, Emit, Step
  <2>3. ~Has(UpUnless(self, n), Bounds) BY <1>2, UpUnlessHas DEF Bounds, Bound, Step
  <2>4. ~Has(UpUnless(self, n), Disables) BY <1>2, UpUnlessHas DEF Disables, Step
  <2> QED BY <1>5, <2>1, <2>2, <2>3, <2>4
<1>7. Head(todo) \notin Quiets BY <1>2 DEF Quiets
<1> HIDE DEF a
<1>8. Shape' /\ todo' \in Seq(Item) /\ \A S : Has(todo', S) <=> Has(a, S) \/ Has(Tail(todo), S)
  BY <1>2, <1>3, <1>4, <1>6, <1>7, ShapeFree DEF a
<1>9. ASSUME UpdateAtOnce(n, self) PROVE Has(todo', {Step("status", n, FALSE)})
  <2> DEFINE s == Step("status", n, FALSE)
             t == Step("subscribed", n, TRUE)
  <2>1. pre = <<s, t, Emit(n)>> BY <1>3, <1>9
  <2> HIDE DEF s, t
  <2>2. Len(pre) = 3 /\ pre[1] = s BY <2>1
  <2>3. 1 \in 1..Len(pre) BY <2>2
  <2>4. Has(pre, {s}) BY <2>2, <2>3 DEF Has
  <2> QED BY <1>5, <1>8, <2>4 DEF s
<1>10. ASSUME n # Root PROVE Has(todo', Coverers(Parent[n]))
  <2>1. CASE self
    <3>1. Bound(Head(todo)) /\ Promise(Head(todo)) = Coverers(Parent[n])
      BY <1>2, <1>10, <2>1 DEF Bound, Promise
    <3>2. Has(Tail(todo), Coverers(Parent[n])) BY <1>2, <3>1, ChainedTail DEF Types, Shape
    <3> QED BY <1>8, <3>2
  <2>2. CASE ~self
    <3>1. Step("update", Parent[n], FALSE) \in Coverers(Parent[n])
      <4>1. Step("update", Parent[n], FALSE) \in Item BY <1>2, <1>10, UpIs
      <4> QED BY <4>1 DEF Coverers, Step
    <3>2. Has(UpUnless(self, n), Coverers(Parent[n])) BY <1>2, <1>10, <2>2, <3>1, UpUnlessHas
    <3> QED BY <1>5, <1>8, <3>2
  <2> QED BY <1>2, <2>1, <2>2
<1>12. ASSUME n # Root, ~self PROVE Has(todo', {Step("update", Parent[n], FALSE)})
  <2>1. Has(UpUnless(self, n), {Step("update", Parent[n], FALSE)}) BY <1>2, <1>12, UpUnlessHas
  <2> QED BY <1>5, <1>8, <2>1
<1>11. ~Has(todo', Disables)
  <2>1. ~Has(Tail(todo), Disables) BY <1>2, <1>7, InOrderTail DEF Types, Shape
  <2> QED BY <1>6, <1>8, <2>1
<1> QED BY <1>8, <1>9, <1>10, <1>11, <1>12

\* disable()
LEMMA ShapeDisable ==
    ASSUME Types, Shape, NEW n, NEW self, Disable(n, self)
    PROVE  /\ Shape' /\ todo' \in Seq(Item)
           /\ \A S : Has(Tail(todo), S) => Has(todo', S)
           /\ \A S : Has(todo', S) => \/ \E c \in Kids(n) : Step("disable", c, TRUE) \in S
                                      \/ Has(Tail(todo), S) \/ Step("revalue", n, TRUE) \in S
                                      \/ Emit(n) \in S \/ Step("above", n, FALSE) \in S
           /\ \A c \in Kids(n) : Has(todo', {Step("disable", c, TRUE)})
           /\ n \notin Leaves => Has(todo', Revaluers(n))
           /\ n # Root /\ ~self => Has(todo', Coverers(Parent[n]))
           /\ n # Root => Has(todo', Revaluers(Parent[n]))
<1>1. Begin("disable", n, self) BY DEF Disable, BeginChild
<1>2. /\ n \in Controls /\ self \in BOOLEAN /\ todo # <<>> /\ Head(todo).do = "disable"
      /\ Head(todo) = Step("disable", n, self) /\ Head(todo).n = n /\ Head(todo).self = self
      /\ Head(todo) \in Item
  BY <1>1, BeginIs DEF Types, Do
<1> DEFINE e == Each("disable", n)
           f == AfterChildren(n)
           g == <<Emit(n)>>
           h == Above(self, n)
           t == Tail(todo)
           k == f \o (g \o (h \o t))
<1>3. e \in Seq(Item) /\ f \in Seq(Item) /\ g \in Seq(Item) /\ h \in Seq(Item) /\ t \in Seq(Item)
  BY <1>2, EachIs, RestIs, HeadIs DEF Types
<1>4. todo' = (((e \o f) \o g) \o h) \o t BY DEF Disable, Goes
<1>5. \A S : Has(f, S) <=> n \notin Leaves /\ Step("revalue", n, TRUE) \in S BY <1>2, AfterHas
<1>6. \A S : Has(g, S) <=> Emit(n) \in S BY <1>2, RestIs, HasOne
<1>7. \A S : Has(h, S) <=> ~self /\ Step("above", n, FALSE) \in S BY <1>2, AboveHas
<1>8. \A S : Has(e, S) <=> \E c \in Kids(n) : Step("disable", c, TRUE) \in S BY <1>2, EachHas
<1>9. Chained(t) /\ (Bound(Head(todo)) => Has(t, Promise(Head(todo))))
  BY <1>2, ChainedTail DEF Types, Shape
<1>10. InOrder(t, Disables, Quiets) /\ (Has(t, Disables) => Head(todo) \in Quiets)
  BY <1>2, InOrderTail DEF Types, Shape
<1>11. \A i \in 1..Len(e) : \E c \in Kids(n) : e[i] = Step("disable", c, TRUE) BY <1>2, EachIs
<1> HIDE DEF e, f, g, h, t
<1>12. todo' = e \o k
  <2> DEFINE ef == e \o f
             efg == ef \o g
             ht == h \o t
             ght == g \o ht
  <2>1. ef \in Seq(Item) BY <1>3, ConcatProperties
  <2>2. ht \in Seq(Item) BY <1>3, ConcatProperties
  <2>3. todo' = (efg \o h) \o t BY <1>4
  <2>4. efg \in Seq(Item)
    <3> HIDE DEF ef
    <3> QED BY <1>3, <2>1, ConcatProperties
  <2>5. (efg \o h) \o t = efg \o ht
    <3> HIDE DEF efg
    <3>1. h \in Seq(Item) /\ t \in Seq(Item) BY <1>3
    <3> QED BY <2>4, <3>1, Regroup
  <2>6. efg \o ht = ef \o ght
    <3> HIDE DEF ef, ht
    <3>1. g \in Seq(Item) BY <1>3
    <3> QED BY <2>1, <2>2, <3>1, Regroup
  <2>7. ght \in Seq(Item)
    <3> HIDE DEF ht
    <3> QED BY <1>3, <2>2, ConcatProperties
  <2>8. ef \o ght = e \o (f \o ght)
    <3> HIDE DEF ght
    <3>1. e \in Seq(Item) /\ f \in Seq(Item) BY <1>3
    <3> QED BY <2>7, <3>1, Regroup
  <2>9. todo' = e \o (f \o ght)
    <3> HIDE DEF efg, ef, ht, ght
    <3> QED BY <2>3, <2>5, <2>6, <2>8
  <2> QED BY <2>9
<1>13. h \o t \in Seq(Item) /\ g \o (h \o t) \in Seq(Item) /\ k \in Seq(Item)
  BY <1>3, ConcatProperties
<1>14. \A S : Has(k, S) <=> Has(f, S) \/ Has(g, S) \/ Has(h, S) \/ Has(t, S)
  <2> TAKE S
  <2>1. Has(h \o t, S) <=> Has(h, S) \/ Has(t, S) BY <1>3, HasConcat
  <2>2. Has(g \o (h \o t), S) <=> Has(g, S) \/ Has(h \o t, S) BY <1>3, <1>13, HasConcat
  <2>3. Has(k, S) <=> Has(f, S) \/ Has(g \o (h \o t), S) BY <1>3, <1>13, HasConcat
  <2> QED BY <2>1, <2>2, <2>3
<1>15. \A S : Has(todo', S) <=> Has(e, S) \/ Has(k, S) BY <1>3, <1>12, <1>13, HasConcat
<1>16. ASSUME n # Root PROVE Has(h, Coverers(Parent[n])) \/ (self /\ Has(t, Revaluers(Parent[n])))
  <2>1. CASE self
    <3>1. Bound(Head(todo)) /\ Promise(Head(todo)) = Revaluers(Parent[n])
      BY <1>2, <1>16, <2>1 DEF Bound, Promise
    <3> QED BY <1>9, <2>1, <3>1
  <2>2. CASE ~self
    <3>1. Step("above", n, FALSE) \in Item BY <1>2, NoticeIs
    <3>2. Step("above", n, FALSE) \in Coverers(Parent[n])
      BY <1>2, <1>16, <3>1, ParentAbove DEF Coverers, Step
    <3> QED BY <1>7, <2>2, <3>2
  <2> QED BY <1>2, <2>1, <2>2
<1>17. ASSUME NEW p PROVE Has(h, Coverers(p)) => Has(h, Revaluers(p)) BY DEF Has, Revaluers
<1>18. ASSUME n \notin Leaves PROVE Has(f, Revaluers(n))
  <2>1. Step("revalue", n, TRUE) \in Item BY <1>2, <1>18, StepIs DEF Do, Controls
  <2>2. Step("revalue", n, TRUE) \in Revaluers(n) BY <2>1 DEF Revaluers, Step
  <2> QED BY <1>5, <1>18, <2>2
<1> HIDE DEF k
<1>19. Chained(todo')
  <2>1. Chained(h \o t)
    <3>1. ~Has(h, Bounds) BY <1>7 DEF Bounds, Bound, Step
    <3> QED BY <1>3, <1>9, <3>1, ChainedFree
  <2>2. Chained(g \o (h \o t))
    <3>1. ~Has(g, Bounds) BY <1>6 DEF Bounds, Bound, Step, Emit
    <3> QED BY <1>3, <1>13, <2>1, <3>1, ChainedFree
  <2>3. Chained(f \o (g \o (h \o t)))
    <3>1. ASSUME NEW i \in 1..Len(f), Bound(f[i]) PROVE Has(g \o (h \o t), Promise(f[i]))
      <4>1. Has(f, {f[i]}) BY DEF Has
      <4>2. n \notin Leaves /\ Step("revalue", n, TRUE) \in {f[i]} BY <1>5, <4>1
      <4>3. n # Root /\ Promise(f[i]) = Revaluers(Parent[n])
        BY <3>1, <4>2 DEF Bound, Promise, Step
      <4>4. Has(h, Revaluers(Parent[n])) \/ Has(t, Revaluers(Parent[n]))
        BY <1>16, <1>17, <4>3
      <4>5. Has(h \o t, Revaluers(Parent[n])) BY <1>3, <4>4, HasConcat
      <4>6. Has(g \o (h \o t), Revaluers(Parent[n])) BY <1>3, <1>13, <4>5, HasConcat
      <4> QED BY <4>3, <4>6
    <3> QED BY <1>3, <1>13, <2>2, <3>1, ChainedConcat
  <2>4. ASSUME NEW i \in 1..Len(e), Bound(e[i]) PROVE Has(k, Promise(e[i]))
    <3>1. PICK c \in Kids(n) : e[i] = Step("disable", c, TRUE) BY <1>11
    <3>2. Promise(e[i]) = Revaluers(n) /\ n \notin Leaves
      BY <1>2, <3>1, KidsIs DEF Promise, Step
    <3> QED BY <1>14, <1>18, <3>2
  <2> QED BY <1>3, <1>12, <1>13, <2>3, <2>4, ChainedConcat DEF k
<1>20. InOrder(todo', Disables, Quiets)
  <2>1. ~Has(f, Disables) /\ ~Has(g, Disables) /\ ~Has(h, Disables)
    BY <1>5, <1>6, <1>7 DEF Disables, Emit, Step
  <2>2. ~Has(f, Item \ Quiets) /\ ~Has(g, Item \ Quiets) /\ (self => ~Has(h, Item \ Quiets))
    <3>1. n \notin Leaves => Step("revalue", n, TRUE) \in Quiets
      BY <1>2 DEF Do, Controls, Quiets, Item, Step
    <3>2. Emit(n) \in Quiets BY <1>2, RestIs DEF Quiets, Emit, Step
    <3> QED BY <1>5, <1>6, <1>7, <3>1, <3>2
  <2>3. Has(t, Disables) => self BY <1>2, <1>10 DEF Quiets
  <2>4. InOrder(h \o t, Disables, Quiets) /\ (Has(h \o t, Disables) => self)
    BY <1>3, <1>10, <2>1, <2>2, <2>3, OrderedFree, HasConcat
  <2>5. InOrder(g \o (h \o t), Disables, Quiets) /\ (Has(g \o (h \o t), Disables) => self)
    BY <1>3, <1>13, <2>1, <2>2, <2>4, OrderedFree, HasConcat
  <2>6. InOrder(k, Disables, Quiets)
    BY <1>3, <1>13, <2>1, <2>2, <2>5, OrderedFree DEF k
  <2>7. \A i \in 1..Len(e) : e[i] \in Quiets
    <3> TAKE i \in 1..Len(e)
    <3>1. PICK c \in Kids(n) : e[i] = Step("disable", c, TRUE) BY <1>11
    <3>2. e[i] \in Item BY <1>3, ElementOfSeq
    <3> QED BY <3>1, <3>2 DEF Quiets, Step
  <2>8. InOrder(e, Disables, Quiets)
    <3>1. \A i \in 1..Len(e) : \A j \in 1..(i - 1) : j \in 1..Len(e) BY <1>3, LenProperties
    <3> QED BY <2>7, <3>1 DEF InOrder
  <2> QED BY <1>3, <1>12, <1>13, <2>6, <2>7, <2>8, InOrderConcat
<1>21. todo' \in Seq(Item) BY <1>3, <1>12, <1>13, ConcatProperties
<1>22. \A c \in Kids(n) : Has(todo', {Step("disable", c, TRUE)}) BY <1>8, <1>15
<1>23. n # Root /\ ~self => Has(todo', Coverers(Parent[n])) BY <1>14, <1>15, <1>16
<1>24. n # Root => Has(todo', Revaluers(Parent[n])) BY <1>14, <1>15, <1>16, <1>17
<1>25. \A S : Has(t, S) => Has(todo', S) BY <1>14, <1>15
<1>26. \A S : Has(todo', S) => \/ \E c \in Kids(n) : Step("disable", c, TRUE) \in S
                               \/ Has(t, S) \/ Step("revalue", n, TRUE) \in S
                               \/ Emit(n) \in S \/ Step("above", n, FALSE) \in S
  BY <1>5, <1>6, <1>7, <1>8, <1>14, <1>15
<1>27. n \notin Leaves => Has(todo', Revaluers(n)) BY <1>14, <1>15, <1>18
<1> QED BY <1>19, <1>20, <1>21, <1>22, <1>23, <1>24, <1>25, <1>26, <1>27 DEF Shape, t

LEMMA ShapeEach ==
    ASSUME Types, Shape, NEW n \in Controls, NEW do \in {"patch", "enable"}, NEW b \in Seq(Item),
           Chained(b), Has(b, Coverers(n)), ~Has(b, Disables), todo' = Each(do, n) \o b
    PROVE  /\ Shape' /\ todo' \in Seq(Item) /\ ~Has(todo', Disables)
           /\ \A S : Has(todo', S) <=> Has(b, S) \/ \E c \in Kids(n) : Step(do, c, TRUE) \in S
<1> DEFINE e == Each(do, n)
<1>1. /\ e \in Seq(Item)
      /\ \A i \in 1..Len(e) : \E c \in Kids(n) : e[i] = Step(do, c, TRUE)
  <2>1. do \in {"patch", "disable", "enable"} OBVIOUS
  <2> QED BY <2>1, EachIs
<1>2. \A S : Has(e, S) <=> \E c \in Kids(n) : Step(do, c, TRUE) \in S
  <2>1. do \in {"patch", "disable", "enable"} OBVIOUS
  <2> QED BY <2>1, EachHas
<1>3. todo' = e \o b OBVIOUS
<1> HIDE DEF e
<1>4. \A S : Has(todo', S) <=> Has(e, S) \/ Has(b, S) BY <1>1, <1>3, HasConcat
<1>5. todo' \in Seq(Item) BY <1>1, <1>3, ConcatProperties
<1>6. ASSUME NEW i \in 1..Len(e), Bound(e[i]) PROVE Has(b, Promise(e[i]))
  <2>1. PICK c \in Kids(n) : e[i] = Step(do, c, TRUE) BY <1>1
  <2>2. Promise(e[i]) = Coverers(n) BY <2>1, KidsIs DEF Promise, Step
  <2> QED BY <2>2
<1>7. Chained(todo') BY <1>1, <1>3, <1>6, ChainedConcat
<1>8. ~Has(e, Disables) BY <1>2 DEF Disables, Step
<1>9. ~Has(todo', Disables) BY <1>4, <1>8
<1>10. InOrder(todo', Disables, Quiets) BY <1>9 DEF Has, InOrder
<1> QED BY <1>2, <1>4, <1>5, <1>7, <1>9, <1>10 DEF Shape

LEMMA UpdateCovers ==
    ASSUME NEW n \in Controls, NEW self \in BOOLEAN
    PROVE  /\ Step("update", n, self) \in Coverers(n)
           /\ ~self => \A m \in Ancestors[n] : Step("update", n, self) \in Coverers(m)
<1>1. Step("update", n, self) \in Item BY StepIs DEF Do
<1> QED BY <1>1 DEF Coverers, Step

LEMMA AboveCovers ==
    ASSUME NEW n \in Controls, NEW m \in Ancestors[n]
    PROVE  Step("above", n, FALSE) \in Coverers(m)
<1>1. Step("above", n, FALSE) \in Item BY NoticeIs
<1> QED BY <1>1 DEF Coverers, Step

\* enable()
LEMMA ShapeEnable ==
    ASSUME Types, Shape, NEW n, NEW self, Enable(n, self)
    PROVE  /\ Shape' /\ todo' \in Seq(Item)
           /\ \A S : Has(Tail(todo), S) => Has(todo', S)
           /\ Has(todo', Coverers(n))
           /\ n # Root => Has(todo', Coverers(Parent[n]))
           /\ ~Has(todo', Disables) /\ ~Has(todo, Disables)
           /\ \A S : Has(todo', S) => \/ Has(Tail(todo), S) \/ Step("update", n, TRUE) \in S
                                      \/ Step("above", n, FALSE) \in S
                                      \/ \E c \in Kids(n) : Step("enable", c, TRUE) \in S
<1>1. Begin("enable", n, self) BY DEF Enable, BeginChild
<1>2. /\ n \in Controls /\ self \in BOOLEAN /\ todo # <<>> /\ Head(todo).do = "enable"
      /\ Head(todo) = Step("enable", n, self) /\ Head(todo).n = n /\ Head(todo).self = self
      /\ Head(todo) \in Item
  BY <1>1, BeginIs DEF Types, Do
<1> DEFINE e == Each("enable", n)
           u == <<Step("update", n, TRUE)>>
           h == Above(self, n)
           t == Tail(todo)
           ht == h \o t
           uht == u \o ht
           eu == e \o u
<1>3. e \in Seq(Item) /\ u \in Seq(Item) /\ h \in Seq(Item) /\ t \in Seq(Item)
  BY <1>2, EachIs, RestIs, HeadIs DEF Types
<1>4. todo' = (eu \o h) \o t BY DEF Enable, Goes
<1>5. \A S : Has(u, S) <=> Step("update", n, TRUE) \in S BY <1>2, RestIs, HasOne
<1>6. \A S : Has(h, S) <=> ~self /\ Step("above", n, FALSE) \in S BY <1>2, AboveHas
<1>7. Chained(t) /\ (Bound(Head(todo)) => Has(t, Promise(Head(todo))))
  BY <1>2, ChainedTail DEF Types, Shape
<1>8. ~Has(t, Disables) /\ ~Has(todo, Disables)
  <2>1. Head(todo) \notin Quiets /\ Head(todo) \notin Disables BY <1>2 DEF Quiets, Disables
  <2> QED BY <1>2, <2>1, InOrderTail, HasHead DEF Types, Shape
<1> HIDE DEF e, u, h, t
<1>9. eu \in Seq(Item) BY <1>3, ConcatProperties
<1>10. ht \in Seq(Item) BY <1>3, ConcatProperties
<1>11. uht \in Seq(Item)
  <2> HIDE DEF ht
  <2> QED BY <1>3, <1>10, ConcatProperties
<1>12. todo' = e \o uht
  <2>1. (eu \o h) \o t = eu \o ht
    <3> HIDE DEF eu
    <3>1. h \in Seq(Item) /\ t \in Seq(Item) BY <1>3
    <3> QED BY <1>9, <3>1, Regroup
  <2>2. eu \o ht = e \o uht
    <3> HIDE DEF ht
    <3>1. e \in Seq(Item) /\ u \in Seq(Item) BY <1>3
    <3> QED BY <1>10, <3>1, Regroup
  <2> HIDE DEF eu, ht, uht
  <2> QED BY <1>4, <2>1, <2>2
<1>13. \A S : Has(ht, S) <=> Has(h, S) \/ Has(t, S) BY <1>3, HasConcat
<1>14. \A S : Has(uht, S) <=> Has(u, S) \/ Has(ht, S)
  <2> HIDE DEF ht
  <2> QED BY <1>3, <1>10, HasConcat
<1>15. n # Root => Has(ht, Coverers(Parent[n]))
  <2>1. CASE self
    <3> HAVE n # Root
    <3>1. Bound(Head(todo)) /\ Promise(Head(todo)) = Coverers(Parent[n])
      BY <1>2, <2>1 DEF Bound, Promise
    <3> QED BY <1>7, <1>13, <3>1
  <2>2. CASE ~self BY <1>2, <1>6, <1>13, <2>2, ParentAbove, AboveCovers
  <2> QED BY <1>2, <2>1, <2>2
<1>16. Chained(ht)
  <2>1. ~Has(h, Bounds) BY <1>6 DEF Bounds, Bound, Step
  <2> QED BY <1>3, <1>7, <2>1, ChainedFree
<1>17. Chained(uht)
  <2>1. ASSUME NEW i \in 1..Len(u), Bound(u[i]) PROVE Has(ht, Promise(u[i]))
    <3>1. Has(u, {u[i]}) BY DEF Has
    <3>2. u[i] = Step("update", n, TRUE) BY <1>5, <3>1
    <3>3. n # Root /\ Promise(u[i]) = Coverers(Parent[n]) BY <2>1, <3>2 DEF Bound, Promise, Step
    <3> QED BY <1>15, <3>3
  <2> HIDE DEF ht
  <2> QED BY <1>3, <1>10, <1>16, <2>1, ChainedConcat
<1>18. Has(uht, Coverers(n)) BY <1>2, <1>5, <1>14, UpdateCovers
<1>19. ~Has(uht, Disables) BY <1>5, <1>6, <1>8, <1>13, <1>14 DEF Disables, Step
<1> HIDE DEF uht, ht, eu
<1>20. /\ Shape' /\ todo' \in Seq(Item) /\ ~Has(todo', Disables)
       /\ \A S : Has(todo', S) <=> Has(uht, S) \/ \E c \in Kids(n) : Step("enable", c, TRUE) \in S
  BY <1>2, <1>11, <1>12, <1>17, <1>18, <1>19, ShapeEach DEF e
<1> QED BY <1>5, <1>6, <1>8, <1>13, <1>14, <1>15, <1>18, <1>20 DEF t

\* patchValue()
LEMMA ShapePatch ==
    ASSUME Types, Shape, NEW n, NEW self, Patch(n, self)
    PROVE  /\ Shape' /\ todo' \in Seq(Item)
           /\ \A S : Has(Tail(todo), S) => Has(todo', S)
           /\ Has(todo', Coverers(n))
           /\ n # Root => Has(todo', Coverers(Parent[n]))
           /\ ~Has(todo', Disables) /\ ~Has(todo, Disables)
           /\ \A S : Has(todo', S) => \/ Has(Tail(todo), S) \/ Step("update", n, self) \in S
                                      \/ \E c \in Kids(n) : Step("patch", c, TRUE) \in S
<1>1. Begin("patch", n, self) BY DEF Patch, BeginChild
<1>2. /\ n \in Controls /\ self \in BOOLEAN /\ todo # <<>> /\ Head(todo).do = "patch"
      /\ Head(todo) = Step("patch", n, self) /\ Head(todo).n = n /\ Head(todo).self = self
      /\ Head(todo) \in Item
  BY <1>1, BeginIs DEF Types, Do
<1> DEFINE e == Each("patch", n)
           u == <<Step("update", n, self)>>
           t == Tail(todo)
           ut == u \o t
<1>3. e \in Seq(Item) /\ u \in Seq(Item) /\ t \in Seq(Item)
  BY <1>2, EachIs, RestIs, HeadIs DEF Types
<1>4. todo' = (e \o u) \o t BY DEF Patch, Goes
<1>5. \A S : Has(u, S) <=> Step("update", n, self) \in S BY <1>2, RestIs, HasOne
<1>7. Chained(t) /\ (Bound(Head(todo)) => Has(t, Promise(Head(todo))))
  BY <1>2, ChainedTail DEF Types, Shape
<1>8. ~Has(t, Disables) /\ ~Has(todo, Disables)
  <2>1. Head(todo) \notin Quiets /\ Head(todo) \notin Disables BY <1>2 DEF Quiets, Disables
  <2> QED BY <1>2, <2>1, InOrderTail, HasHead DEF Types, Shape
<1> HIDE DEF e, u, t
<1>10. ut \in Seq(Item) BY <1>3, ConcatProperties
<1>12. todo' = e \o ut BY <1>3, <1>4, Regroup
<1>13. \A S : Has(ut, S) <=> Has(u, S) \/ Has(t, S) BY <1>3, HasConcat
<1>15. ASSUME n # Root, self PROVE Has(t, Coverers(Parent[n]))
  <2>1. Bound(Head(todo)) /\ Promise(Head(todo)) = Coverers(Parent[n])
    BY <1>2, <1>15 DEF Bound, Promise
  <2> QED BY <1>7, <2>1
<1>17. Chained(ut)
  <2>1. ASSUME NEW i \in 1..Len(u), Bound(u[i]) PROVE Has(t, Promise(u[i]))
    <3>1. Has(u, {u[i]}) BY DEF Has
    <3>2. u[i] = Step("update", n, self) BY <1>5, <3>1
    <3>3. n # Root /\ self /\ Promise(u[i]) = Coverers(Parent[n])
      BY <2>1, <3>2 DEF Bound, Promise, Step
    <3> QED BY <1>15, <3>3
  <2> QED BY <1>3, <1>7, <2>1, ChainedConcat
<1>18. Has(ut, Coverers(n)) BY <1>2, <1>5, <1>13, UpdateCovers
<1>19. ~Has(ut, Disables) BY <1>5, <1>8, <1>13 DEF Disables, Step
<1>20. n # Root => Has(ut, Coverers(Parent[n]))
  BY <1>2, <1>5, <1>13, <1>15, ParentAbove, UpdateCovers
<1> HIDE DEF ut
<1>21. /\ Shape' /\ todo' \in Seq(Item) /\ ~Has(todo', Disables)
       /\ \A S : Has(todo', S) <=> Has(ut, S) \/ \E c \in Kids(n) : Step("patch", c, TRUE) \in S
  BY <1>2, <1>10, <1>12, <1>17, <1>18, <1>19, ShapeEach DEF e
<1> QED BY <1>5, <1>8, <1>13, <1>18, <1>20, <1>21 DEF t

\* _updateControlsErrors()
LEMMA ShapeStatus ==
    ASSUME Types, Shape, NEW n, UpdateControlsErrors(n)
    PROVE  /\ Shape' /\ todo' \in Seq(Item)
           /\ \A S : Has(Tail(todo), S) => Has(todo', S)
           /\ n # Root => Has(todo', {Step("status", Parent[n], FALSE)})
           /\ ~Has(todo', Disables) /\ ~Has(todo, Disables)
           /\ \A S : Has(todo', S) => \/ Has(Tail(todo), S) \/ Emit(n) \in S
                                      \/ n # Root /\ Step("status", Parent[n], FALSE) \in S
<1>1. Begin("status", n, FALSE) BY DEF UpdateControlsErrors
<1>2. /\ n \in Controls /\ todo # <<>> /\ Head(todo).do = "status"
      /\ Head(todo) = Step("status", n, FALSE) /\ Head(todo) \in Item
  BY <1>1, BeginIs DEF Types, Do
<1> DEFINE g == <<Emit(n)>>
           h == Up("status", n)
           a == g \o h
           s == Step("status", Parent[n], FALSE)
<1>3. g \in Seq(Item) /\ h \in Seq(Item) BY <1>2, RestIs, UpIs
<1>4. todo' = a \o Tail(todo) BY DEF UpdateControlsErrors, Goes
<1>5. \A S : Has(g, S) <=> Emit(n) \in S BY <1>2, RestIs, HasOne
<1>6. \A S : Has(h, S) <=> n # Root /\ s \in S
  <2>1. CASE n = Root BY <1>2, <2>1, UpIs, HasNone
  <2>2. CASE n # Root
    <3>1. s \in Item /\ h = <<s>> BY <1>2, <2>2, UpIs
    <3> HIDE DEF s
    <3> QED BY <2>2, <3>1, HasOne
  <2> QED BY <2>1, <2>2
<1>7. Head(todo) \notin Quiets /\ Head(todo) \notin Disables BY <1>2 DEF Quiets, Disables
<1>8. ~Has(Tail(todo), Disables) /\ ~Has(todo, Disables)
  BY <1>2, <1>7, InOrderTail, HasHead DEF Types, Shape
<1>9. a \in Seq(Item) /\ \A S : Has(a, S) <=> Has(g, S) \/ Has(h, S)
  <2> HIDE DEF g, h
  <2> QED BY <1>3, HasConcat, ConcatProperties
<1> HIDE DEF a, g, h
<1>10. ~Has(a, Bounds) /\ ~Has(a, Disables)
  <2>1. Emit(n) \notin Bounds /\ s \notin Bounds /\ Emit(n) \notin Disables /\ s \notin Disables
    BY DEF Bounds, Bound, Disables, Emit, Step
  <2> QED BY <1>5, <1>6, <1>9, <2>1
<1>11. Shape' /\ todo' \in Seq(Item) /\ \A S : Has(todo', S) <=> Has(a, S) \/ Has(Tail(todo), S)
  BY <1>2, <1>4, <1>7, <1>9, <1>10, ShapeFree
<1>12. n # Root => Has(todo', {s}) BY <1>6, <1>9, <1>11
<1>13. ~Has(todo', Disables) BY <1>8, <1>10, <1>11
<1>14. \A S : Has(todo', S) => \/ Has(Tail(todo), S) \/ Emit(n) \in S \/ (n # Root /\ s \in S)
  BY <1>5, <1>6, <1>9, <1>11
<1> QED BY <1>8, <1>11, <1>12, <1>13, <1>14

\* _updateAncestors()
LEMMA ShapeAbove ==
    ASSUME Types, Shape, NEW n, UpdateAncestors(n)
    PROVE  /\ Shape' /\ todo' \in Seq(Item)
           /\ \A S : Has(Tail(todo), S) => Has(todo', S)
           /\ n # Root => Has(todo', {Step("update", Parent[n], FALSE)})
           /\ ~Has(todo', Disables) /\ ~Has(todo, Disables)
           /\ \A S : Has(todo', S) => \/ Has(Tail(todo), S)
                                      \/ n # Root /\ Step("update", Parent[n], FALSE) \in S
<1>1. Begin("above", n, FALSE) BY DEF UpdateAncestors
<1>2. /\ n \in Controls /\ todo # <<>> /\ Head(todo).do = "above"
      /\ Head(todo) = Step("above", n, FALSE) /\ Head(todo) \in Item
  BY <1>1, BeginIs DEF Types, Do
<1> DEFINE h == Up("update", n)
           s == Step("update", Parent[n], FALSE)
<1>3. h \in Seq(Item) BY <1>2, UpIs
<1>4. todo' = h \o Tail(todo) BY DEF UpdateAncestors, Goes
<1>6. \A S : Has(h, S) <=> n # Root /\ s \in S
  <2>1. CASE n = Root BY <1>2, <2>1, UpIs, HasNone
  <2>2. CASE n # Root
    <3>1. s \in Item /\ h = <<s>> BY <1>2, <2>2, UpIs
    <3> HIDE DEF s
    <3> QED BY <2>2, <3>1, HasOne
  <2> QED BY <2>1, <2>2
<1>7. Head(todo) \notin Quiets /\ Head(todo) \notin Disables BY <1>2 DEF Quiets, Disables
<1>8. ~Has(Tail(todo), Disables) /\ ~Has(todo, Disables)
  BY <1>2, <1>7, InOrderTail, HasHead DEF Types, Shape
<1> HIDE DEF h
<1>10. ~Has(h, Bounds) /\ ~Has(h, Disables)
  <2>1. s \notin Bounds /\ s \notin Disables BY DEF Bounds, Bound, Disables, Step
  <2> QED BY <1>6, <2>1
<1>11. Shape' /\ todo' \in Seq(Item) /\ \A S : Has(todo', S) <=> Has(h, S) \/ Has(Tail(todo), S)
  BY <1>2, <1>3, <1>4, <1>7, <1>10, ShapeFree
<1>12. n # Root => Has(todo', {s}) BY <1>6, <1>11
<1>13. ~Has(todo', Disables) BY <1>8, <1>10, <1>11
<1>14. \A S : Has(todo', S) => \/ Has(Tail(todo), S) \/ (n # Root /\ s \in S)
  BY <1>6, <1>11
<1> QED BY <1>8, <1>11, <1>12, <1>13, <1>14

-----------------------------------------------------------------------------
(* Steps keep the types. *)

\* controls.splice and the like: what is left, each child once.
LEMMA RemoveIs ==
    ASSUME NEW T, NEW s \in Seq(T), IsInjective(s), NEW i \in DOMAIN s
    PROVE  /\ RemoveAt(s, i) \in Seq(T) /\ IsInjective(RemoveAt(s, i))
           /\ ToSet(RemoveAt(s, i)) \subseteq ToSet(s)
<1>1. DOMAIN s = 1..Len(s) /\ Len(s) \in Nat BY LenProperties
<1>2. i \in 1..Len(s) /\ i \in Nat /\ i >= 1 /\ i <= Len(s) BY <1>1
<1> DEFINE a == SubSeq(s, 1, i - 1)
           b == SubSeq(s, i + 1, Len(s))
<1>3. /\ a \in Seq(T) /\ Len(a) = i - 1 /\ \A j \in 1..(i - 1) : a[j] = s[j]
  <2>1. \A j \in 1..(i - 1) : s[j] \in T
    <3>1. \A j \in 1..(i - 1) : j \in 1..Len(s) BY <1>2
    <3> QED BY <3>1, ElementOfSeq
  <2>2. 1 \in Int /\ i - 1 \in Int BY <1>2
  <2> HIDE DEF a
  <2>3. /\ SubSeq(s, 1, i - 1) \in Seq(T)
        /\ Len(SubSeq(s, 1, i - 1)) = IF 1 <= i - 1 THEN (i - 1) - 1 + 1 ELSE 0
        /\ \A j \in 1..((i - 1) - 1 + 1) : SubSeq(s, 1, i - 1)[j] = s[1 + j - 1]
    BY <2>1, <2>2, SubSeqProperties
  <2> QED BY <1>2, <2>3 DEF a
<1>4. /\ b \in Seq(T) /\ Len(b) = Len(s) - i /\ \A j \in 1..(Len(s) - i) : b[j] = s[i + j]
  <2>1. \A j \in (i + 1)..Len(s) : s[j] \in T
    <3>1. \A j \in (i + 1)..Len(s) : j \in 1..Len(s) BY <1>2
    <3> QED BY <3>1, ElementOfSeq
  <2>2. i + 1 \in Int /\ Len(s) \in Int BY <1>1, <1>2
  <2> HIDE DEF b
  <2>3. /\ SubSeq(s, i + 1, Len(s)) \in Seq(T)
        /\ Len(SubSeq(s, i + 1, Len(s))) = IF i + 1 <= Len(s) THEN Len(s) - (i + 1) + 1 ELSE 0
        /\ \A j \in 1..(Len(s) - (i + 1) + 1) : SubSeq(s, i + 1, Len(s))[j] = s[(i + 1) + j - 1]
    BY <2>1, <2>2, SubSeqProperties
  <2>4. Len(s) - (i + 1) + 1 = Len(s) - i /\ \A j \in 1..(Len(s) - i) : (i + 1) + j - 1 = i + j
    BY <1>1, <1>2
  <2>5. (IF i + 1 <= Len(s) THEN Len(s) - (i + 1) + 1 ELSE 0) = Len(s) - i BY <1>1, <1>2
  <2> QED BY <2>3, <2>4, <2>5 DEF b
<1>5. RemoveAt(s, i) = a \o b BY DEF RemoveAt
<1> HIDE DEF a, b
<1> DEFINE r == a \o b
<1>6. /\ r \in Seq(T) /\ Len(r) = Len(s) - 1
      /\ \A j \in 1..(Len(s) - 1) : r[j] = IF j < i THEN s[j] ELSE s[j + 1]
  <2>1. /\ r \in Seq(T) /\ Len(r) = Len(a) + Len(b)
        /\ \A j \in 1..(Len(a) + Len(b)) : r[j] = IF j <= Len(a) THEN a[j] ELSE b[j - Len(a)]
    BY <1>3, <1>4, ConcatProperties
  <2> HIDE DEF r
  <2>2. ASSUME NEW j \in 1..(Len(s) - 1) PROVE r[j] = IF j < i THEN s[j] ELSE s[j + 1]
    <3>1. r[j] = IF j <= Len(a) THEN a[j] ELSE b[j - Len(a)] BY <1>1, <1>2, <1>3, <1>4, <2>1
    <3>2. CASE j < i
      <4>1. j <= i - 1 /\ j \in 1..(i - 1) BY <1>2, <3>2
      <4> QED BY <1>3, <3>1, <3>2, <4>1
    <3>3. CASE ~(j < i)
      <4>1. ~(j <= i - 1) /\ j - (i - 1) \in 1..(Len(s) - i) /\ i + (j - (i - 1)) = j + 1
        BY <1>1, <1>2, <3>3
      <4> QED BY <1>3, <1>4, <3>1, <3>3, <4>1
    <3> QED BY <3>2, <3>3
  <2> QED BY <1>1, <1>2, <1>3, <1>4, <2>1, <2>2
<1>7. DOMAIN r = 1..(Len(s) - 1) BY <1>6, LenProperties
<1> HIDE DEF r
<1> DEFINE at(j) == IF j < i THEN j ELSE j + 1
<1>8. \A j \in DOMAIN r : at(j) \in DOMAIN s /\ r[j] = s[at(j)] BY <1>1, <1>2, <1>6, <1>7
<1>9. IsInjective(r)
  <2> SUFFICES ASSUME NEW j \in DOMAIN r, NEW k \in DOMAIN r, r[j] = r[k] PROVE j = k
    BY DEF IsInjective
  <2>1. at(j) = at(k)
    <3> HIDE DEF at
    <3> QED BY <1>8 DEF IsInjective
  <2> QED BY <1>2, <1>7, <2>1
<1>10. ToSet(r) \subseteq ToSet(s)
  <2> HIDE DEF at
  <2> QED BY <1>8 DEF ToSet
<1> QED BY <1>5, <1>6, <1>9, <1>10 DEF r

LEMMA AppendIs ==
    ASSUME NEW T, NEW s \in Seq(T), IsInjective(s), NEW e \in T, e \notin ToSet(s)
    PROVE  /\ Append(s, e) \in Seq(T) /\ IsInjective(Append(s, e))
           /\ ToSet(Append(s, e)) = ToSet(s) \cup {e}
<1>1. DOMAIN s = 1..Len(s) /\ Len(s) \in Nat BY LenProperties
<1>2. /\ Append(s, e) \in Seq(T) /\ Len(Append(s, e)) = Len(s) + 1
      /\ Append(s, e)[Len(s) + 1] = e
      /\ \A j \in 1..Len(s) : Append(s, e)[j] = s[j]
  BY <1>1
<1> DEFINE r == Append(s, e)
<1>3. DOMAIN r = 1..(Len(s) + 1) BY <1>2, LenProperties
<1>4. r[Len(s) + 1] = e /\ \A j \in 1..Len(s) : r[j] = s[j] BY <1>2
<1> HIDE DEF r
<1>5. \A j \in 1..Len(s) : r[j] # e BY <1>1, <1>4 DEF ToSet
<1>6. IsInjective(r)
  <2> SUFFICES ASSUME NEW j \in DOMAIN r, NEW k \in DOMAIN r, r[j] = r[k] PROVE j = k
    BY DEF IsInjective
  <2>1. CASE j \in 1..Len(s) /\ k \in 1..Len(s) BY <1>1, <1>4, <2>1 DEF IsInjective
  <2>2. CASE j = Len(s) + 1 \/ k = Len(s) + 1 BY <1>1, <1>3, <1>4, <1>5, <2>2
  <2> QED BY <1>1, <1>3, <2>1, <2>2
<1>7. ToSet(r) = ToSet(s) \cup {e}
  <2>1. \A j \in DOMAIN r : r[j] \in ToSet(s) \cup {e} BY <1>1, <1>3, <1>4 DEF ToSet
  <2>2. \A j \in DOMAIN s : j \in DOMAIN r /\ s[j] = r[j] BY <1>1, <1>3, <1>4
  <2>3. Len(s) + 1 \in DOMAIN r BY <1>1, <1>3
  <2> QED BY <1>4, <2>1, <2>2, <2>3 DEF ToSet
<1> QED BY <1>2, <1>6, <1>7 DEF r

LEMMA GoesIs ==
    ASSUME Types, todo # <<>>, NEW a \in Seq(Item), todo' = a \o Tail(todo)
    PROVE  todo' \in Seq(Item)
<1>1. Tail(todo) \in Seq(Item) BY HeadIs DEF Types
<1> QED BY <1>1, ConcatProperties

LEMMA StatusIs ==
    ASSUME NEW n, NEW errors, NEW pending
    PROVE  /\ CalculateStatus(n, errors, pending) \in {"VALID", "INVALID", "PENDING", "DISABLED"}
           /\ CalculateStatus(n, errors, pending) = "DISABLED" <=> AllControlsDisabled(n)
BY DEF CalculateStatus

LEMMA LeafKeeps ==
    ASSUME NEW n \in Leaves, NEW off
    PROVE  Reduced(n, off) = value[n]
BY DEF Reduced

LEMMA UpdateTypes ==
    ASSUME Types, NEW n, NEW self, UpdateValueAndValidity(n, self)
    PROVE  Types'
<1>1. Begin("update", n, self) /\ controls' = controls /\ calls' = calls BY UpdateGoes
<1>2. n \in Controls /\ self \in BOOLEAN /\ todo # <<>> BY <1>1, BeginIs DEF Types, Do
<1>3. todo' \in Seq(Item)
  <2>1. PICK pre \in Seq(Item) : todo' = (pre \o UpUnless(self, n)) \o Tail(todo) BY UpdateGoes
  <2>2. UpUnless(self, n) \in Seq(Item) BY <1>2, RestIs
  <2>3. pre \o UpUnless(self, n) \in Seq(Item) BY <2>2, ConcatProperties
  <2> QED BY <1>2, <2>1, <2>3, GoesIs
<1>4. PICK off : value' = [value EXCEPT ![n] = Reduced(n, off)]
  BY DEF UpdateValueAndValidity, UpdateDisabled, UpdateSync, UpdateLater, UpdateAtOnce, Update
<1>5. /\ value' = [m \in Controls |-> value'[m]]
      /\ \A m \in Leaves : value'[m] \in Values[m]
  BY <1>4, LeafKeeps DEF Types, TypeOK, Controls
<1>6. status' \in [Controls -> {"VALID", "INVALID", "PENDING", "DISABLED"}]
  <2>1. PICK st \in {"VALID", "INVALID", "PENDING", "DISABLED"} :
          status' = [status EXCEPT ![n] = st]
    BY StatusIs DEF UpdateValueAndValidity, UpdateDisabled, UpdateSync, UpdateLater,
                    UpdateAtOnce, Update
  <2> QED BY <2>1 DEF Types, TypeOK
<1>7. failed' \in [Controls -> BOOLEAN]
  <2>1. PICK b \in BOOLEAN : failed' = [failed EXCEPT ![n] = b] \/ failed' = failed
    <3>1. CASE UpdateDisabled(n, self) BY <3>1 DEF UpdateDisabled
    <3>2. CASE UpdateSync(n, self)
      <4>1. (Reduced(n, FALSE) \in Rejects[n]) \in BOOLEAN OBVIOUS
      <4> QED BY <3>2, <4>1 DEF UpdateSync
    <3>3. CASE UpdateLater(n, self) BY <3>3 DEF UpdateLater
    <3>4. CASE UpdateAtOnce(n, self)
      <4>1. (Reduced(n, FALSE) \in RejectsLater[n]) \in BOOLEAN OBVIOUS
      <4> QED BY <3>4, <4>1 DEF UpdateAtOnce
    <3> QED BY <3>1, <3>2, <3>3, <3>4 DEF UpdateValueAndValidity
  <2> QED BY <2>1 DEF Types, TypeOK
<1>8. own' \in [Controls -> BOOLEAN]
  <2>1. PICK b \in BOOLEAN : own' = [own EXCEPT ![n] = b] \/ own' = own
    BY DEF UpdateValueAndValidity, UpdateDisabled, UpdateSync, UpdateLater, UpdateAtOnce
  <2> QED BY <2>1 DEF Types, TypeOK
<1>9. /\ sub' = [m \in Controls |-> sub'[m]] /\ \A v \in open' : v.n \in Controls
      /\ \A m \in Controls : sub'[m] # 0 => \E v \in open' : v.n = m /\ v.id = sub'[m]
  <2>1. CASE sub' = sub /\ open' = open BY <2>1 DEF Types, TypeOK
  <2>2. CASE sub' = [sub EXCEPT ![n] = 0] /\ open' = Cancelled(n)
    BY <1>2, <2>2 DEF Types, TypeOK, Cancelled
  <2>3. ASSUME NEW id, NEW w, w.n = n, w.id = id, sub' = [sub EXCEPT ![n] = id],
               open' = Cancelled(n) \cup {w}
        PROVE  <1>9!:
    BY <1>2, <2>3 DEF Types, TypeOK, Cancelled
  <2>4. CASE UpdateLater(n, self)
    <3> DEFINE id == FreshId(n)
               w == [n |-> n, id |-> id, seen |-> Reduced(n, FALSE)]
    <3>1. w.n = n /\ w.id = id OBVIOUS
    <3>2. sub' = [sub EXCEPT ![n] = id] /\ open' = Cancelled(n) \cup {w}
      BY <2>4 DEF UpdateLater
    <3> HIDE DEF id, w
    <3> QED BY <2>3, <3>1, <3>2
  <2> QED BY <2>1, <2>2, <2>4
        DEF UpdateValueAndValidity, UpdateDisabled, UpdateSync, UpdateAtOnce
<1> QED BY <1>1, <1>3, <1>5, <1>6, <1>7, <1>8, <1>9 DEF Types, TypeOK

LEMMA RestTypes ==
    ASSUME Types, NEW n, NEW self,
           \/ Skip \/ Subscribed(n) \/ UpdateControlsErrors(n) \/ Emitted(n)
           \/ Disable(n, self) \/ Revalue(n) \/ Enable(n, self) \/ UpdateAncestors(n)
           \/ Patch(n, self)
    PROVE  Types'
<1>1. todo # <<>> /\ (Skip \/ n \in Controls)
  BY BeginIs DEF Types, Do, Skip, Subscribed, UpdateControlsErrors, Emitted, Disable, Revalue,
                 Enable, UpdateAncestors, Patch, BeginChild, Begin
<1>2. UNCHANGED <<controls, own, open, calls>>
  BY DEF Skip, Subscribed, UpdateControlsErrors, Emitted, Disable, Revalue, Enable,
         UpdateAncestors, Patch
<1>3. <<>> \in Seq(Item) BY EmptySeq
<1>4. todo' \in Seq(Item)
  <2>1. CASE Goes(<<>>) BY <1>1, <1>3, <2>1, GoesIs DEF Goes
  <2>2. CASE UpdateControlsErrors(n)
    <3>1. n \in Controls BY <2>2, BeginIs DEF UpdateControlsErrors, Types, Do
    <3>2. <<Emit(n)>> \o Up("status", n) \in Seq(Item)
      BY <3>1, RestIs, UpIs, ConcatProperties
    <3> QED BY <1>1, <2>2, <3>2, GoesIs DEF UpdateControlsErrors, Goes
  <2>3. CASE Disable(n, self)
    <3>1. n \in Controls /\ self \in BOOLEAN
      BY <2>3, BeginIs DEF Disable, BeginChild, Types, Do
    <3>2. Each("disable", n) \in Seq(Item) /\ AfterChildren(n) \in Seq(Item)
          /\ <<Emit(n)>> \in Seq(Item) /\ Above(self, n) \in Seq(Item)
      BY <3>1, RestIs, EachIs
    <3> DEFINE a == Each("disable", n) \o AfterChildren(n)
               b == a \o <<Emit(n)>>
               c == b \o Above(self, n)
    <3>3. a \in Seq(Item) BY <3>2, ConcatProperties
    <3>4. b \in Seq(Item)
      <4> HIDE DEF a
      <4> QED BY <3>2, <3>3, ConcatProperties
    <3>5. c \in Seq(Item)
      <4> HIDE DEF b
      <4> QED BY <3>2, <3>4, ConcatProperties
    <3>6. todo' = c \o Tail(todo) BY <2>3 DEF Disable, Goes
    <3> HIDE DEF c
    <3> QED BY <1>1, <3>5, <3>6, GoesIs
  <2>4. CASE Enable(n, self)
    <3>1. n \in Controls /\ self \in BOOLEAN
      BY <2>4, BeginIs DEF Enable, BeginChild, Types, Do
    <3>2. Each("enable", n) \in Seq(Item) /\ <<Step("update", n, TRUE)>> \in Seq(Item)
          /\ Above(self, n) \in Seq(Item)
      BY <3>1, RestIs, EachIs
    <3> DEFINE a == Each("enable", n) \o <<Step("update", n, TRUE)>>
               c == a \o Above(self, n)
    <3>3. a \in Seq(Item) BY <3>2, ConcatProperties
    <3>5. c \in Seq(Item)
      <4> HIDE DEF a
      <4> QED BY <3>2, <3>3, ConcatProperties
    <3>6. todo' = c \o Tail(todo) BY <2>4 DEF Enable, Goes
    <3> HIDE DEF c
    <3> QED BY <1>1, <3>5, <3>6, GoesIs
  <2>5. CASE Patch(n, self)
    <3>1. n \in Controls /\ self \in BOOLEAN
      BY <2>5, BeginIs DEF Patch, BeginChild, Types, Do
    <3>2. Each("patch", n) \in Seq(Item) /\ <<Step("update", n, self)>> \in Seq(Item)
      BY <3>1, RestIs, EachIs
    <3> DEFINE c == Each("patch", n) \o <<Step("update", n, self)>>
    <3>3. c \in Seq(Item) BY <3>2, ConcatProperties
    <3>6. todo' = c \o Tail(todo) BY <2>5 DEF Patch, Goes
    <3> HIDE DEF c
    <3> QED BY <1>1, <3>3, <3>6, GoesIs
  <2>6. CASE UpdateAncestors(n)
    <3>1. n \in Controls BY <2>6, BeginIs DEF UpdateAncestors, Types, Do
    <3>2. Up("update", n) \in Seq(Item) BY <3>1, UpIs
    <3> QED BY <1>1, <2>6, <3>2, GoesIs DEF UpdateAncestors, Goes
  <2> QED BY <2>1, <2>2, <2>3, <2>4, <2>5, <2>6 DEF Skip, Subscribed, Emitted, Revalue
<1>5. /\ value' = [m \in Controls |-> value'[m]]
      /\ \A m \in Leaves : value'[m] \in Values[m]
  <2>1. CASE value' = value BY <2>1 DEF Types, TypeOK
  <2>2. CASE Revalue(n) BY <2>2, LeafKeeps DEF Revalue, Types, TypeOK, Controls
  <2>3. CASE Patch(n, self) BY <2>3 DEF Patch, Types, TypeOK, Controls
  <2> QED BY <2>1, <2>2, <2>3 DEF Skip, Subscribed, UpdateControlsErrors, Emitted, Disable,
                                  Enable, UpdateAncestors
<1>6. status' \in [Controls -> {"VALID", "INVALID", "PENDING", "DISABLED"}]
  <2>1. PICK st \in {"VALID", "INVALID", "PENDING", "DISABLED"} :
          status' = [status EXCEPT ![n] = st] \/ status' = status
    <3>1. CASE UpdateControlsErrors(n) BY <3>1, StatusIs DEF UpdateControlsErrors
    <3>2. CASE Disable(n, self) BY <3>2 DEF Disable
    <3>3. CASE Enable(n, self) BY <3>3 DEF Enable
    <3>4. CASE status' = status BY <3>4
    <3> QED BY <3>1, <3>2, <3>3, <3>4 DEF Skip, Subscribed, Emitted, Revalue, UpdateAncestors,
                                          Patch
  <2> QED BY <2>1 DEF Types, TypeOK
<1>7. failed' \in [Controls -> BOOLEAN]
  <2>1. failed' = [failed EXCEPT ![n] = FALSE] \/ failed' = failed
    BY DEF Skip, Subscribed, UpdateControlsErrors, Emitted, Disable, Revalue, Enable,
           UpdateAncestors, Patch
  <2> QED BY <2>1 DEF Types, TypeOK
<1>8. /\ sub' = [m \in Controls |-> sub'[m]]
      /\ \A m \in Controls : sub'[m] # 0 => \E v \in open' : v.n = m /\ v.id = sub'[m]
  <2>1. sub' = [sub EXCEPT ![n] = 0] \/ sub' = sub
    BY DEF Skip, Subscribed, UpdateControlsErrors, Emitted, Disable, Revalue, Enable,
           UpdateAncestors, Patch
  <2> QED BY <1>2, <2>1 DEF Types, TypeOK
<1> QED BY <1>2, <1>4, <1>5, <1>6, <1>7, <1>8 DEF Types, TypeOK

LEMMA AnswerTypes ==
    ASSUME Types, Answer
    PROVE  Types'
<1>1. PICK v \in open :
       /\ open' = open \ {v}
       /\ sub' = [sub EXCEPT ![v.n] = IF @ = v.id THEN 0 ELSE @]
       /\ own' = [own EXCEPT ![v.n] = FALSE]
       /\ failed' = [failed EXCEPT ![v.n] = v.seen \in RejectsLater[v.n]]
       /\ todo' = <<Step("status", v.n, FALSE)>>
  BY DEF Answer
<1>2. v.n \in Controls BY DEF Types
<1>3. UNCHANGED <<controls, value, status, calls>> BY DEF Answer
<1>4. todo' \in Seq(Item) BY <1>1, <1>2, RestIs, HasOne
<1>5. own' \in [Controls -> BOOLEAN] /\ failed' \in [Controls -> BOOLEAN]
  <2>1. (v.seen \in RejectsLater[v.n]) \in BOOLEAN OBVIOUS
  <2> QED BY <1>1, <1>2, <2>1 DEF Types, TypeOK
<1>6. sub' = [m \in Controls |-> sub'[m]] /\ \A w \in open' : w.n \in Controls
  BY <1>1, <1>2 DEF Types
<1>7. ASSUME NEW m \in Controls, sub'[m] # 0
      PROVE  \E w \in open' : w.n = m /\ w.id = sub'[m]
  <2>1. sub'[m] = sub[m] /\ (m = v.n => sub[m] # v.id) BY <1>1, <1>2, <1>7 DEF Types
  <2>2. PICK w \in open : w.n = m /\ w.id = sub[m] BY <1>7, <2>1 DEF Types, TypeOK
  <2> QED BY <1>1, <2>1, <2>2
<1> QED BY <1>3, <1>4, <1>5, <1>6, <1>7 DEF Types, TypeOK

LEMMA ApplicationTypes ==
    ASSUME Types, Application
    PROVE  Types'
<1>1. calls < MaxCalls /\ calls' = calls + 1 /\ UNCHANGED <<value, status, failed, own, open, sub>>
  BY DEF Application, Call, RemoveControl, AddControl, MayCall
<1>2. calls' \in 0..MaxCalls BY <1>1, ControlTreeAssumption DEF Types, TypeOK
<1>3. todo' \in Seq(Item) /\ controls' \in [Groups -> Seq(Controls)]
      /\ \A g \in Groups : IsInjective(controls'[g]) /\ ToSet(controls'[g]) \subseteq ToSet(Children[g])
  <2>1. ASSUME NEW n \in Controls, NEW do \in {"patch", "disable", "enable"}, Call(do, n)
        PROVE  <1>3!:
    <3>1. Step(do, n, FALSE) \in Item BY StepIs DEF Do
    <3>2. <<Step(do, n, FALSE)>> \in Seq(Item) BY <3>1, HasOne
    <3>3. todo' = <<Step(do, n, FALSE)>> \o todo /\ controls' = controls BY <2>1 DEF Call
    <3> QED BY <3>2, <3>3, ConcatProperties DEF Types, TypeOK
  <2>2. ASSUME NEW n \in Controls \ {Root}, todo' = Up("update", n) \o todo,
               NEW s \in Seq(Controls), controls' = [controls EXCEPT ![Parent[n]] = s],
               IsInjective(s), ToSet(s) \subseteq ToSet(Children[Parent[n]])
        PROVE  <1>3!:
    <3>1. Up("update", n) \in Seq(Item) /\ Parent[n] \in Groups BY UpIs, ParentIs
    <3>2. todo' \in Seq(Item) BY <2>2, <3>1, ConcatProperties DEF Types
    <3> QED BY <2>2, <3>1, <3>2 DEF Types, TypeOK
  <2>3. ASSUME NEW n \in Controls \ {Root}
        PROVE  /\ Parent[n] \in Groups /\ controls[Parent[n]] \in Seq(Controls)
               /\ IsInjective(controls[Parent[n]])
               /\ ToSet(controls[Parent[n]]) \subseteq ToSet(Children[Parent[n]])
               /\ n \in ToSet(Children[Parent[n]])
               /\ Kids(Parent[n]) = ToSet(controls[Parent[n]])
    <3>1. Parent[n] \in Groups BY ParentIs
    <3>2. Parent[n] \notin Leaves BY <3>1, ControlTreeAssumption
    <3> QED BY <3>1, <3>2, ControlTreeAssumption DEF Types, TypeOK, Kids
  <2>4. ASSUME NEW n \in Controls \ {Root}, RemoveControl(n) PROVE <1>3!:
    <3>1. PICK i \in DOMAIN controls[Parent[n]] :
            controls' = [controls EXCEPT ![Parent[n]] = RemoveAt(controls[Parent[n]], i)]
      BY <2>4 DEF RemoveControl
    <3>2. todo' = Up("update", n) \o todo BY <2>4 DEF RemoveControl
    <3> DEFINE s == RemoveAt(controls[Parent[n]], i)
    <3>3. s \in Seq(Controls) /\ IsInjective(s) /\ ToSet(s) \subseteq ToSet(Children[Parent[n]])
      <4>1. /\ RemoveAt(controls[Parent[n]], i) \in Seq(Controls)
            /\ IsInjective(RemoveAt(controls[Parent[n]], i))
            /\ ToSet(RemoveAt(controls[Parent[n]], i)) \subseteq ToSet(controls[Parent[n]])
        BY <2>3, <3>1, RemoveIs
      <4> QED BY <2>3, <4>1
    <3>4. controls' = [controls EXCEPT ![Parent[n]] = s] BY <3>1
    <3> HIDE DEF s
    <3> QED BY <2>2, <3>2, <3>3, <3>4
  <2>5. ASSUME NEW n \in Controls \ {Root}, AddControl(n) PROVE <1>3!:
    <3> DEFINE s == Append(controls[Parent[n]], n)
    <3>1. controls' = [controls EXCEPT ![Parent[n]] = s] BY <2>5 DEF AddControl
    <3>2. todo' = Up("update", n) \o todo BY <2>5 DEF AddControl
    <3>3. n \notin ToSet(controls[Parent[n]]) BY <2>3, <2>5 DEF AddControl
    <3>4. s \in Seq(Controls) /\ IsInjective(s) /\ ToSet(s) \subseteq ToSet(Children[Parent[n]])
      BY <2>3, <3>3, AppendIs
    <3> HIDE DEF s
    <3> QED BY <2>2, <3>1, <3>2, <3>4
  <2> QED BY <2>1, <2>4, <2>5 DEF Application
<1> QED BY <1>1, <1>2, <1>3 DEF Types, TypeOK

LEMMA Proceeding ==
    ASSUME Next
    PROVE  \/ Application \/ Answer \/ Skip
           \/ \E n, self : UpdateValueAndValidity(n, self)
           \/ \E n, self : \/ Subscribed(n) \/ UpdateControlsErrors(n) \/ Emitted(n)
                           \/ Disable(n, self) \/ Revalue(n) \/ Enable(n, self)
                           \/ UpdateAncestors(n) \/ Patch(n, self)
BY DEF Next, System, Proceed

LEMMA TypesStep ==
    ASSUME Types, [Next]_vars
    PROVE  Types'
<1>1. CASE UNCHANGED vars BY <1>1 DEF vars, Types, TypeOK
<1>2. CASE Next BY <1>2, Proceeding, UpdateTypes, RestTypes, AnswerTypes, ApplicationTypes
<1> QED BY <1>1, <1>2

LEMMA TypesInit ==
    ASSUME Init
    PROVE  Types
<1>1. controls \in [Groups -> Seq(Controls)] BY ControlTreeAssumption DEF Init
<1>2. value = [n \in Controls |-> value[n]] /\ sub = [n \in Controls |-> sub[n]] BY DEF Init
<1>3. todo \in Seq(Item) BY EmptySeq DEF Init
<1>4. \A v \in open : v.n \in Controls BY DEF Init
<1>5. \A g \in Groups : IsInjective(controls[g]) /\ ToSet(controls[g]) \subseteq ToSet(Children[g])
  BY ControlTreeAssumption DEF Init
<1>6. \A n \in Leaves : value[n] \in Values[n] BY ControlTreeAssumption DEF Init, Controls
<1>7. /\ status \in [Controls -> {"VALID", "INVALID", "PENDING", "DISABLED"}]
      /\ failed \in [Controls -> BOOLEAN] /\ own \in [Controls -> BOOLEAN]
  BY DEF Init
<1>8. ASSUME NEW n \in Controls, sub[n] # 0 PROVE \E v \in open : v.n = n /\ v.id = sub[n]
  <2>1. own[n] /\ sub[n] = 1 BY <1>8 DEF Init
  <2>2. [n |-> n, id |-> 1, seen |-> Built[n]] \in open BY <2>1 DEF Init
  <2> QED BY <2>1, <2>2
<1>9. calls \in 0..MaxCalls BY ControlTreeAssumption DEF Init
<1> QED BY <1>1, <1>2, <1>3, <1>4, <1>5, <1>6, <1>7, <1>8, <1>9 DEF Types, TypeOK

\* Whatever an application does: the state keeps its types, no group holds a
\* child twice or one that is not its own, and what _cancelExistingSubscription
\* would cancel is a validation that runs.
THEOREM TypeCorrect == Spec => []TypeOK
<1>1. Init => Types BY TypesInit
<1>2. Types /\ [Next]_vars => Types' BY TypesStep
<1>3. Types => TypeOK BY DEF Types
<1> QED BY <1>1, <1>2, <1>3, PTL DEF Spec

-----------------------------------------------------------------------------
(* Parents and children agree, or a step that is left will see to it. *)

Valued(n) == value[n] = Reduced(n, ~Enabled(n))
Able(n) == Enabled(n) <=> ~AllControlsDisabled(n)
Stated(n) == status[n] = CalculateStatus(n, failed[n], own[n])

Covered(n) == Has(todo, Coverers(n))

\* disable() has not been through the children of n yet.
Disabling(n) ==
    ~Enabled(n) /\ \A c \in EnabledKids(n) : Has(todo, {Step("disable", c, TRUE)})

Follows(n) ==
    /\ Valued(n) \/ IF Enabled(n) THEN Covered(n) ELSE Has(todo, Revaluers(n))
    /\ Able(n) \/ Covered(n) \/ Disabling(n)
    /\ Stated(n) \/ Covered(n) \/ Disabling(n) \/ Has(todo, Restaters(n))

\* A control whose status is not what it would be now is still to be updated, or
\* waits for an answer: the next answer is the first it can miss.
Waiting(n) == Stated(n) \/ Covered(n) \/ Disabling(n) \/ status[n] = "PENDING"

\* A step that takes nothing from m that m still needs.
Kept(m) == (Covered(m) => Covered(m)') /\ (Waiting(m) => Waiting(m)')

DisablesMatch ==
    \A c \in Controls \ {Root} : Has(todo, {Step("disable", c, TRUE)}) => ~Enabled(Parent[c])

FollowInv == Types /\ Shape /\ DisablesMatch /\ \A n \in Controls : Follows(n)

LEMMA CoveredRevalued ==
    ASSUME NEW n, Has(todo', Coverers(n))
    PROVE  Has(todo', Revaluers(n))
BY DEF Has, Revaluers

LEMMA CoveredFollows ==
    ASSUME NEW n, Covered(n)'
    PROVE  Follows(n)' /\ Kept(n)
<1>1. Has(todo', Coverers(n)) BY DEF Covered
<1>2. Has(todo', Revaluers(n))
  <2> HIDE DEF Coverers
  <2> QED BY <1>1, CoveredRevalued
<1> QED BY <1>2 DEF Follows, Kept, Waiting

\* What is covered is covered at its parent.
LEMMA CoversUp ==
    ASSUME NEW td \in Seq(Item), Chained(td), NEW n \in Controls, n # Root, Has(td, Coverers(n))
    PROVE  Has(td, Coverers(Parent[n]))
<1>1. PICK i \in 1..Len(td) : td[i] \in Coverers(n) BY DEF Has
<1>2. td[i] \in Item BY <1>1 DEF Coverers
<1>3. td[i].n \in Controls /\ td[i].self \in BOOLEAN BY <1>2 DEF Item
<1>4. CASE n \in Ancestors[td[i].n]
  <2>1. Parent[n] \in Ancestors[td[i].n] BY <1>3, <1>4, AncestorsClosed
  <2>2. td[i] \in Coverers(Parent[n])
    <3>1. CASE td[i].do = "above" BY <1>2, <2>1, <3>1 DEF Coverers
    <3>2. CASE td[i].do = "update"
      <4>1. n # td[i].n BY <1>3, <1>4, NoCycles
      <4> QED BY <1>1, <1>2, <2>1, <3>2, <4>1 DEF Coverers
    <3> QED BY <1>1, <3>1, <3>2 DEF Coverers
  <2> QED BY <1>1, <2>2 DEF Has
<1>5. CASE n \notin Ancestors[td[i].n]
  <2>1. td[i].do = "update" /\ td[i].n = n BY <1>1, <1>5 DEF Coverers
  <2>2. CASE td[i].self
    <3>1. Bound(td[i]) /\ Promise(td[i]) = Coverers(Parent[n]) BY <2>1, <2>2 DEF Bound, Promise
    <3>2. PICK j \in (i + 1)..Len(td) : td[j] \in Coverers(Parent[n])
      BY <1>1, <3>1 DEF Chained
    <3>3. j \in 1..Len(td) BY <1>1, <3>2
    <3> QED BY <3>2, <3>3 DEF Has
  <2>3. CASE ~td[i].self
    <3>1. td[i] \in Coverers(Parent[n]) BY <1>2, <2>1, <2>3, ParentAbove DEF Coverers
    <3> QED BY <1>1, <3>1 DEF Has
  <2> QED BY <1>3, <2>2, <2>3
<1> QED BY <1>4, <1>5

LEMMA AbleStill ==
    ASSUME NEW m, Kids(m)' = Kids(m), Enabled(m)' <=> Enabled(m),
           \A c \in Kids(m) : Enabled(c)' <=> Enabled(c)
    PROVE  /\ EnabledKids(m)' = EnabledKids(m)
           /\ AllControlsDisabled(m)' <=> AllControlsDisabled(m)
           /\ Able(m)' <=> Able(m)
<1>1. EnabledKids(m)' = EnabledKids(m) BY DEF EnabledKids
<1>2. AllControlsDisabled(m)' <=> AllControlsDisabled(m) BY <1>1 DEF AllControlsDisabled
<1> QED BY <1>1, <1>2 DEF Able

LEMMA ReducedStill ==
    ASSUME NEW m, Kids(m)' = Kids(m), EnabledKids(m)' = EnabledKids(m), value'[m] = value[m],
           \A c \in Kids(m) : value'[c] = value[c], NEW off
    PROVE  Reduced(m, off)' = Reduced(m, off)
<1>1. EnabledKids(m) \subseteq Kids(m) BY DEF EnabledKids
<1>2. \A S \in SUBSET Kids(m) : [c \in S |-> value'[c]] = [c \in S |-> value[c]] OBVIOUS
<1> QED BY <1>1, <1>2 DEF Reduced

LEMMA StatedStill ==
    ASSUME NEW m, EnabledKids(m)' = EnabledKids(m),
           AllControlsDisabled(m)' <=> AllControlsDisabled(m),
           \A c \in EnabledKids(m) : status'[c] = status[c], NEW errors, NEW pending
    PROVE  CalculateStatus(m, errors, pending)' = CalculateStatus(m, errors, pending)
BY DEF CalculateStatus, KidsAre

\* A control that a step leaves alone, with its children.
LEMMA Still ==
    ASSUME NEW m, Kids(m)' = Kids(m), value'[m] = value[m], status'[m] = status[m],
           failed'[m] = failed[m], own'[m] = own[m],
           \A c \in Kids(m) : status'[c] = status[c] /\ value'[c] = value[c]
    PROVE  /\ Enabled(m)' <=> Enabled(m)
           /\ EnabledKids(m)' = EnabledKids(m)
           /\ Valued(m)' <=> Valued(m)
           /\ Able(m)' <=> Able(m)
           /\ Stated(m)' <=> Stated(m)
<1>1. Enabled(m)' <=> Enabled(m) BY DEF Enabled
<1>2. \A c \in Kids(m) : Enabled(c)' <=> Enabled(c) BY DEF Enabled
<1>3. /\ EnabledKids(m)' = EnabledKids(m)
      /\ AllControlsDisabled(m)' <=> AllControlsDisabled(m)
      /\ Able(m)' <=> Able(m)
  BY <1>1, <1>2, AbleStill
<1>4. Reduced(m, ~Enabled(m))' = Reduced(m, ~Enabled(m))
  <2>1. \A off : Reduced(m, off)' = Reduced(m, off) BY <1>3, ReducedStill
  <2>2. Reduced(m, TRUE)' = Reduced(m, TRUE) /\ Reduced(m, FALSE)' = Reduced(m, FALSE) BY <2>1
  <2>3. CASE Enabled(m) BY <1>1, <2>2, <2>3 DEF Reduced
  <2>4. CASE ~Enabled(m) BY <1>1, <2>2, <2>4 DEF Reduced
  <2> QED BY <2>3, <2>4
<1>5. Valued(m)' <=> Valued(m) BY <1>4 DEF Valued
<1>6. CalculateStatus(m, failed[m], own[m])' = CalculateStatus(m, failed[m], own[m])
  <2>1. \A c \in EnabledKids(m) : status'[c] = status[c] BY DEF EnabledKids
  <2>2. KidsAre("PENDING", m)' <=> KidsAre("PENDING", m) BY <1>3, <2>1 DEF KidsAre
  <2>3. KidsAre("INVALID", m)' <=> KidsAre("INVALID", m) BY <1>3, <2>1 DEF KidsAre
  <2> QED BY <1>3, <2>2, <2>3 DEF CalculateStatus
<1>7. Stated(m)' <=> Stated(m) BY <1>6 DEF Stated
<1> QED BY <1>1, <1>3, <1>5, <1>7

LEMMA FollowsStill ==
    ASSUME NEW m \in Controls, Follows(m), status'[m] = status[m],
           Enabled(m)' <=> Enabled(m), EnabledKids(m)' = EnabledKids(m),
           Valued(m) => Valued(m)', Able(m) => Able(m)', Stated(m) => Stated(m)',
           Has(todo, Coverers(m)) => Has(todo', Coverers(m)),
           Has(todo, Revaluers(m)) => Has(todo', Revaluers(m)),
           Has(todo, Restaters(m)) => Has(todo', Restaters(m)),
           ~Enabled(m) => \A c \in EnabledKids(m) :
             Has(todo, {Step("disable", c, TRUE)}) => Has(todo', {Step("disable", c, TRUE)})
    PROVE  Follows(m)' /\ Kept(m)
<1>1. Disabling(m) => Disabling(m)' BY DEF Disabling
<1>2. Covered(m) => Covered(m)' BY DEF Covered
<1>3. (Valued(m) \/ IF Enabled(m) THEN Covered(m) ELSE Has(todo, Revaluers(m)))'
  BY <1>2 DEF Follows
<1>4. Waiting(m) => Waiting(m)' BY <1>1, <1>2 DEF Waiting
<1> QED BY <1>1, <1>2, <1>3, <1>4 DEF Follows, Kept

LEMMA Carry ==
    ASSUME Types, todo # <<>>, \A S : Has(Tail(todo), S) => Has(todo', S), NEW S,
           Head(todo) \notin S, Has(todo, S)
    PROVE  Has(todo', S)
BY HasHead DEF Types

\* No control has n as a child but its parent.
LEMMA OthersKids ==
    ASSUME Types, NEW n \in Controls, NEW m \in Controls, n # Root => m # Parent[n]
    PROVE  n \notin Kids(m)
BY KidsIs

\* A step that changes the control n and no other.
OnlyAt(n) ==
    /\ controls' = controls
    /\ \A c \in Controls \ {n} : /\ status'[c] = status[c] /\ value'[c] = value[c]
                                 /\ failed'[c] = failed[c] /\ own'[c] = own[c]

LEMMA Elsewhere ==
    ASSUME Types, NEW n \in Controls, NEW m \in Controls, m # n, n # Root => m # Parent[n],
           OnlyAt(n)
    PROVE  /\ Enabled(m)' <=> Enabled(m)
           /\ EnabledKids(m)' = EnabledKids(m)
           /\ Valued(m)' <=> Valued(m)
           /\ Able(m)' <=> Able(m)
           /\ Stated(m)' <=> Stated(m)
<1>1. n \notin Kids(m) BY OthersKids
<1>2. Kids(m)' = Kids(m) BY DEF OnlyAt, Kids
<1>3. Kids(m) \subseteq Controls \ {n} BY <1>1, KidsIs
<1>4. \A c \in Kids(m) : status'[c] = status[c] /\ value'[c] = value[c] BY <1>3 DEF OnlyAt
<1>5. value'[m] = value[m] /\ status'[m] = status[m] /\ failed'[m] = failed[m] /\ own'[m] = own[m]
  BY DEF OnlyAt
<1> QED BY <1>2, <1>4, <1>5, Still

\* What n sees of its children.
LEMMA Below ==
    ASSUME Types, NEW n \in Controls, OnlyAt(n)
    PROVE  /\ Kids(n)' = Kids(n) /\ EnabledKids(n)' = EnabledKids(n)
           /\ KidsAre("PENDING", n)' <=> KidsAre("PENDING", n)
           /\ KidsAre("INVALID", n)' <=> KidsAre("INVALID", n)
           /\ \A off : IF n \in Leaves THEN Reduced(n, off)' = value'[n]
                                       ELSE Reduced(n, off)' = Reduced(n, off)
<1>1. Kids(n)' = Kids(n) BY DEF OnlyAt, Kids
<1>2. Kids(n) \subseteq Controls \ {n} BY KidsIs
<1>3. \A c \in Kids(n) : status'[c] = status[c] /\ value'[c] = value[c] BY <1>2 DEF OnlyAt
<1>4. EnabledKids(n)' = EnabledKids(n) BY <1>1, <1>3 DEF EnabledKids, Enabled
<1>5. \A c \in EnabledKids(n) : status'[c] = status[c] BY <1>3 DEF EnabledKids
<1>6. /\ KidsAre("PENDING", n)' <=> KidsAre("PENDING", n)
      /\ KidsAre("INVALID", n)' <=> KidsAre("INVALID", n)
  BY <1>4, <1>5 DEF KidsAre
<1>7. EnabledKids(n) \subseteq Kids(n) BY DEF EnabledKids
<1>8. \A S \in SUBSET Kids(n) : [c \in S |-> value'[c]] = [c \in S |-> value[c]] BY <1>3
<1>9. \A off : IF n \in Leaves THEN Reduced(n, off)' = value'[n]
                               ELSE Reduced(n, off)' = Reduced(n, off)
  BY <1>1, <1>4, <1>7, <1>8 DEF Reduced
<1> QED BY <1>1, <1>4, <1>6, <1>9

LEMMA NoDisables ==
    ASSUME ~Has(todo, Disables), NEW c \in Controls \ {Root}
    PROVE  ~Has(todo, {Step("disable", c, TRUE)})
<1>1. Step("disable", c, TRUE) \in Disables
  <2>1. "disable" \in Do /\ c \in Controls /\ c # Root BY DEF Do
  <2> QED BY <2>1, StepIs DEF Disables
<1> QED BY <1>1 DEF Has

LEMMA NoDisablesThen ==
    ASSUME ~Has(todo', Disables)
    PROVE  DisablesMatch'
<1>1. \A c \in Controls \ {Root} : Step("disable", c, TRUE) \in Disables
  <2> TAKE c \in Controls \ {Root}
  <2>1. "disable" \in Do /\ c \in Controls /\ c # Root BY DEF Do
  <2> QED BY <2>1, StepIs DEF Disables
<1> QED BY <1>1 DEF DisablesMatch, Has

LEMMA NotQuiet ==
    ASSUME Types, Shape, todo # <<>>, Head(todo) \notin Quiets
    PROVE  ~Has(todo, Disables)
<1>1. Head(todo) \notin Disables BY DEF Disables, Quiets
<1> QED BY <1>1, HasHead, InOrderTail DEF Types, Shape

\* updateValueAndValidity() brings its control up to date.
LEMMA UpdateSettles ==
    ASSUME Types, NEW n, NEW self, UpdateValueAndValidity(n, self)
    PROVE  /\ OnlyAt(n) /\ Valued(n)' /\ Able(n)'
           /\ Stated(n)' \/ UpdateAtOnce(n, self)
<1>1. Begin("update", n, self) /\ controls' = controls BY UpdateGoes
<1>2. n \in Controls BY <1>1, BeginIs DEF Types, Do
<1>3. OnlyAt(n)
  BY <1>1 DEF OnlyAt, UpdateValueAndValidity, UpdateDisabled, UpdateSync, UpdateLater,
              UpdateAtOnce, Update, Types, TypeOK
<1>4. /\ Kids(n)' = Kids(n) /\ EnabledKids(n)' = EnabledKids(n)
      /\ KidsAre("PENDING", n)' <=> KidsAre("PENDING", n)
      /\ KidsAre("INVALID", n)' <=> KidsAre("INVALID", n)
      /\ \A off : IF n \in Leaves THEN Reduced(n, off)' = value'[n]
                                  ELSE Reduced(n, off)' = Reduced(n, off)
  BY <1>2, <1>3, Below
<1>5. CASE UpdateDisabled(n, self)
  <2>1. status'[n] = "DISABLED" /\ value'[n] = Reduced(n, TRUE)
    BY <1>2, <1>5 DEF UpdateDisabled, Types, TypeOK
  <2>2. ~Enabled(n)' BY <2>1 DEF Enabled
  <2>3. AllControlsDisabled(n)'
    BY <1>4, <1>5, <2>2 DEF AllControlsDisabled, UpdateDisabled
  <2>4. Reduced(n, TRUE)' = value'[n] BY <1>4, <2>1
  <2>5. Valued(n)' BY <2>2, <2>4 DEF Valued, Reduced
  <2>6. Stated(n)' BY <2>1, <2>3 DEF Stated, CalculateStatus
  <2> QED BY <1>3, <2>2, <2>3, <2>5, <2>6 DEF Able
<1>6. ASSUME NEW run, Update(n, self, run) PROVE Enabled(n)' /\ ~AllControlsDisabled(n)' /\ Valued(n)'
  <2>1. ~AllControlsDisabled(n) BY <1>6 DEF Update
  <2>2. status'[n] # "DISABLED" /\ value'[n] = Reduced(n, FALSE)
    BY <1>2, <1>6, <2>1, StatusIs DEF Update, Types, TypeOK
  <2>3. Enabled(n)' BY <2>2 DEF Enabled
  <2>4. ~AllControlsDisabled(n)' BY <1>4, <2>1, <2>3 DEF AllControlsDisabled
  <2>5. Reduced(n, FALSE)' = value'[n] BY <1>4, <2>2
  <2> QED BY <2>3, <2>4, <2>5 DEF Valued, Reduced
<1>7. CASE UpdateSync(n, self)
  <2>1. Update(n, self, FALSE) BY <1>7 DEF UpdateSync
  <2> DEFINE errors == Reduced(n, FALSE) \in Rejects[n]
  <2>2. /\ failed'[n] = errors /\ own'[n] = FALSE
        /\ status'[n] = CalculateStatus(n, errors, FALSE)
    BY <1>2, <1>7 DEF UpdateSync, Update, Types, TypeOK
  <2>3. ~AllControlsDisabled(n) BY <2>1 DEF Update
  <2> HIDE DEF errors
  <2>4. Enabled(n)' /\ ~AllControlsDisabled(n)' /\ Valued(n)' BY <1>6, <2>1
  <2>5. Stated(n)' BY <1>4, <2>2, <2>3, <2>4 DEF Stated, CalculateStatus
  <2> QED BY <1>3, <2>4, <2>5 DEF Able
<1>8. CASE UpdateLater(n, self)
  <2>1. Update(n, self, TRUE) BY <1>8 DEF UpdateLater
  <2>2. failed'[n] = FALSE /\ own'[n] = TRUE /\ status'[n] = "PENDING"
    BY <1>2, <1>8 DEF UpdateLater, Update, Types, TypeOK
  <2>4. Enabled(n)' /\ ~AllControlsDisabled(n)' /\ Valued(n)' BY <1>6, <2>1
  <2>5. Stated(n)' BY <2>2, <2>4 DEF Stated, CalculateStatus
  <2> QED BY <1>3, <2>4, <2>5 DEF Able
<1>9. CASE UpdateAtOnce(n, self)
  <2>1. Update(n, self, TRUE) BY <1>9 DEF UpdateAtOnce
  <2>2. Enabled(n)' /\ ~AllControlsDisabled(n)' /\ Valued(n)' BY <1>6, <2>1
  <2> QED BY <1>3, <1>9, <2>2 DEF Able
<1> QED BY <1>5, <1>7, <1>8, <1>9 DEF UpdateValueAndValidity

LEMMA UpdateFollows ==
    ASSUME FollowInv, NEW n, NEW self, UpdateValueAndValidity(n, self)
    PROVE  FollowInv' /\ \A m \in Controls \ {n} : Kept(m)
<1>1. Types /\ Shape BY DEF FollowInv
<1>2. Begin("update", n, self) BY <1>1, UpdateGoes
<1>3. /\ n \in Controls /\ self \in BOOLEAN /\ todo # <<>> /\ Head(todo).do = "update"
      /\ Head(todo).n = n /\ Head(todo).self = self
  BY <1>1, <1>2, BeginIs DEF Types, Do
<1>4. Types' BY <1>1, UpdateTypes
<1>5. /\ Shape' /\ todo' \in Seq(Item)
      /\ \A S : Has(Tail(todo), S) => Has(todo', S)
      /\ UpdateAtOnce(n, self) => Has(todo', {Step("status", n, FALSE)})
      /\ n # Root => Has(todo', Coverers(Parent[n]))
      /\ n # Root /\ ~self => Has(todo', {Step("update", Parent[n], FALSE)})
      /\ ~Has(todo', Disables)
  BY <1>1, ShapeUpdate
<1>6. ~Has(todo, Disables)
  <2>1. Head(todo) \notin Quiets BY <1>3 DEF Quiets
  <2> QED BY <1>1, <1>3, <2>1, NotQuiet
<1>7. DisablesMatch' BY <1>5, NoDisablesThen
<1>8. OnlyAt(n) /\ Valued(n)' /\ Able(n)' /\ (Stated(n)' \/ UpdateAtOnce(n, self))
  BY <1>1, UpdateSettles
<1>9. Follows(n)'
  <2>1. CASE UpdateAtOnce(n, self)
    <3>1. Step("status", n, FALSE) \in Restaters(n)
      <4>1. Step("status", n, FALSE) \in Item BY <1>3, NoticeIs
      <4> QED BY <4>1 DEF Restaters, Step
    <3>2. Has(todo', Restaters(n)) BY <1>5, <2>1, <3>1 DEF Has
    <3> QED BY <1>8, <3>2 DEF Follows
  <2>2. CASE ~UpdateAtOnce(n, self) BY <1>8, <2>2 DEF Follows
  <2> QED BY <2>1, <2>2
<1>10. ASSUME n # Root PROVE Follows(Parent[n])' /\ Kept(Parent[n])
  <2>1. Covered(Parent[n])' BY <1>5, <1>10 DEF Covered
  <2> QED BY <2>1, CoveredFollows
<1>11. ASSUME NEW m \in Controls, m # n, n # Root => m # Parent[n]
       PROVE  Follows(m)' /\ Kept(m)
  <2>1. /\ Enabled(m)' <=> Enabled(m)
        /\ EnabledKids(m)' = EnabledKids(m)
        /\ Valued(m)' <=> Valued(m)
        /\ Able(m)' <=> Able(m)
        /\ Stated(m)' <=> Stated(m)
    BY <1>1, <1>3, <1>8, <1>11, Elsewhere
  <2>2. CASE Head(todo) \in Coverers(m)
    <3>1. ~self /\ m \in Ancestors[n] BY <1>3, <1>11, <2>2 DEF Coverers
    <3>2. n # Root /\ m \in Ancestors[Parent[n]]
      BY <1>3, <1>11, <3>1, RootIsTop, AncestorsOf
    <3>3. Step("update", Parent[n], FALSE) \in Coverers(m)
      BY <1>3, <3>2, ParentIs, UpdateCovers
    <3>4. Covered(m)' BY <1>5, <3>1, <3>2, <3>3 DEF Covered, Has
    <3> QED BY <3>4, CoveredFollows
  <2>3. CASE Head(todo) \notin Coverers(m)
    <3>1. Head(todo) \notin Revaluers(m) /\ Head(todo) \notin Restaters(m)
      BY <1>3, <2>3 DEF Revaluers, Restaters
    <3>2. /\ Has(todo, Coverers(m)) => Has(todo', Coverers(m))
          /\ Has(todo, Revaluers(m)) => Has(todo', Revaluers(m))
          /\ Has(todo, Restaters(m)) => Has(todo', Restaters(m))
      BY <1>1, <1>3, <1>5, <2>3, <3>1, Carry
    <3>3. \A c \in EnabledKids(m) : ~Has(todo, {Step("disable", c, TRUE)})
      <4>1. EnabledKids(m) \subseteq Controls \ {Root} BY <1>1, KidsIs DEF EnabledKids
      <4> QED BY <1>6, <4>1, NoDisables
    <3>4. Follows(m) /\ status'[m] = status[m] BY <1>8, <1>11 DEF FollowInv, OnlyAt
    <3> QED BY <2>1, <3>2, <3>3, <3>4, FollowsStill
  <2> QED BY <2>2, <2>3
<1>12. \A m \in Controls : Follows(m)' BY <1>9, <1>10, <1>11
<1>13. \A m \in Controls \ {n} : Kept(m) BY <1>10, <1>11
<1> QED BY <1>4, <1>5, <1>7, <1>12, <1>13 DEF FollowInv

\* A control that the step on n leaves alone and whose coverers are still there.
LEMMA FollowsElsewhere ==
    ASSUME FollowInv, todo # <<>>, NEW n \in Controls, OnlyAt(n), NEW m \in Controls, m # n,
           n # Root => m # Parent[n], \A S : Has(Tail(todo), S) => Has(todo', S),
           Head(todo) \notin Coverers(m), Head(todo) \notin Revaluers(m),
           Head(todo) \in Restaters(m) => Has(todo', Restaters(m)),
           ~Has(todo, Disables) \/ Head(todo).n = n
    PROVE  Follows(m)' /\ Kept(m)
<1>1. Types BY DEF FollowInv
<1>2. /\ Enabled(m)' <=> Enabled(m)
      /\ EnabledKids(m)' = EnabledKids(m)
      /\ Valued(m)' <=> Valued(m)
      /\ Able(m)' <=> Able(m)
      /\ Stated(m)' <=> Stated(m)
  BY <1>1, Elsewhere
<1>3. /\ Has(todo, Coverers(m)) => Has(todo', Coverers(m))
      /\ Has(todo, Revaluers(m)) => Has(todo', Revaluers(m))
  BY <1>1, Carry
<1>4. Has(todo, Restaters(m)) => Has(todo', Restaters(m))
  <2>1. CASE Head(todo) \in Restaters(m) BY <2>1
  <2>2. CASE Head(todo) \notin Restaters(m) BY <1>1, <2>2, Carry
  <2> QED BY <2>1, <2>2
<1>5. ASSUME NEW c \in EnabledKids(m), Has(todo, {Step("disable", c, TRUE)})
      PROVE  Has(todo', {Step("disable", c, TRUE)})
  <2>1. c \in Controls \ {Root} /\ c \in Kids(m) BY <1>1, KidsIs DEF EnabledKids
  <2>2. CASE ~Has(todo, Disables) BY <1>5, <2>1, <2>2, NoDisables
  <2>3. CASE Head(todo).n = n
    <3>1. c # n BY <1>1, <2>1, OthersKids
    <3>2. Head(todo) \notin {Step("disable", c, TRUE)} BY <2>3, <3>1 DEF Step
    <3> QED BY <1>1, <1>5, <3>2, Carry
  <2> QED BY <2>2, <2>3
<1>6. Follows(m) /\ status'[m] = status[m] BY DEF FollowInv, OnlyAt
<1> QED BY <1>2, <1>3, <1>4, <1>5, <1>6, FollowsStill

LEMMA EnableFollows ==
    ASSUME FollowInv, NEW n, NEW self, Enable(n, self)
    PROVE  FollowInv' /\ \A m \in Controls : Kept(m)
<1>1. Types /\ Shape BY DEF FollowInv
<1>2. Begin("enable", n, self) BY DEF Enable, BeginChild
<1>3. /\ n \in Controls /\ todo # <<>> /\ Head(todo).do = "enable" /\ Head(todo).n = n
  BY <1>1, <1>2, BeginIs DEF Types, Do
<1>4. Types' BY <1>1, RestTypes
<1>5. /\ Shape' /\ \A S : Has(Tail(todo), S) => Has(todo', S)
      /\ Has(todo', Coverers(n)) /\ (n # Root => Has(todo', Coverers(Parent[n])))
      /\ ~Has(todo', Disables) /\ ~Has(todo, Disables)
  BY <1>1, ShapeEnable
<1>6. DisablesMatch' BY <1>5, NoDisablesThen
<1>7. OnlyAt(n) BY <1>3 DEF OnlyAt, Enable, Types, TypeOK
<1>8. Covered(n)' /\ (n # Root => Covered(Parent[n])') BY <1>5 DEF Covered
<1>9. ASSUME NEW m \in Controls, m # n, n # Root => m # Parent[n]
      PROVE  Follows(m)' /\ Kept(m)
  <2>1. /\ Head(todo) \notin Coverers(m) /\ Head(todo) \notin Revaluers(m)
        /\ Head(todo) \notin Restaters(m)
    BY <1>3 DEF Coverers, Revaluers, Restaters
  <2> QED BY <1>3, <1>5, <1>7, <1>9, <2>1, FollowsElsewhere
<1>10. Follows(n)' /\ Kept(n) /\ (n # Root => Follows(Parent[n])' /\ Kept(Parent[n]))
  BY <1>8, CoveredFollows
<1> QED BY <1>4, <1>5, <1>6, <1>9, <1>10 DEF FollowInv

LEMMA PatchFollows ==
    ASSUME FollowInv, NEW n, NEW self, Patch(n, self)
    PROVE  FollowInv' /\ \A m \in Controls : Kept(m)
<1>1. Types /\ Shape BY DEF FollowInv
<1>2. Begin("patch", n, self) BY DEF Patch, BeginChild
<1>3. /\ n \in Controls /\ todo # <<>> /\ Head(todo).do = "patch" /\ Head(todo).n = n
  BY <1>1, <1>2, BeginIs DEF Types, Do
<1>4. Types' BY <1>1, RestTypes
<1>5. /\ Shape' /\ \A S : Has(Tail(todo), S) => Has(todo', S)
      /\ Has(todo', Coverers(n)) /\ (n # Root => Has(todo', Coverers(Parent[n])))
      /\ ~Has(todo', Disables) /\ ~Has(todo, Disables)
  BY <1>1, ShapePatch
<1>6. DisablesMatch' BY <1>5, NoDisablesThen
<1>7. OnlyAt(n)
  <2>1. \A c \in Controls \ {n} : value'[c] = value[c] BY <1>1, <1>3 DEF Patch, Types
  <2> QED BY <2>1 DEF OnlyAt, Patch
<1>8. Covered(n)' /\ (n # Root => Covered(Parent[n])') BY <1>5 DEF Covered
<1>9. ASSUME NEW m \in Controls, m # n, n # Root => m # Parent[n]
      PROVE  Follows(m)' /\ Kept(m)
  <2>1. /\ Head(todo) \notin Coverers(m) /\ Head(todo) \notin Revaluers(m)
        /\ Head(todo) \notin Restaters(m)
    BY <1>3 DEF Coverers, Revaluers, Restaters
  <2> QED BY <1>3, <1>5, <1>7, <1>9, <2>1, FollowsElsewhere
<1>10. Follows(n)' /\ Kept(n) /\ (n # Root => Follows(Parent[n])' /\ Kept(Parent[n]))
  BY <1>8, CoveredFollows
<1> QED BY <1>4, <1>5, <1>6, <1>9, <1>10 DEF FollowInv

LEMMA DisableFollows ==
    ASSUME FollowInv, NEW n, NEW self, Disable(n, self)
    PROVE  FollowInv' /\ \A m \in Controls : Kept(m)
<1>1. Types /\ Shape BY DEF FollowInv
<1>2. Begin("disable", n, self) BY DEF Disable, BeginChild
<1>3. /\ n \in Controls /\ self \in BOOLEAN /\ todo # <<>> /\ Head(todo).do = "disable"
      /\ Head(todo).n = n /\ Head(todo).self = self /\ Head(todo) = Step("disable", n, self)
      /\ Head(todo) \in Item
  BY <1>1, <1>2, BeginIs DEF Types, Do
<1>4. Types' BY <1>1, RestTypes
<1>5. /\ Shape' /\ todo' \in Seq(Item)
      /\ \A S : Has(Tail(todo), S) => Has(todo', S)
      /\ \A S : Has(todo', S) => \/ \E c \in Kids(n) : Step("disable", c, TRUE) \in S
                                 \/ Has(Tail(todo), S) \/ Step("revalue", n, TRUE) \in S
                                 \/ Emit(n) \in S \/ Step("above", n, FALSE) \in S
      /\ \A c \in Kids(n) : Has(todo', {Step("disable", c, TRUE)})
      /\ n \notin Leaves => Has(todo', Revaluers(n))
      /\ n # Root /\ ~self => Has(todo', Coverers(Parent[n]))
      /\ n # Root => Has(todo', Revaluers(Parent[n]))
  BY <1>1, ShapeDisable
<1>6. OnlyAt(n) BY <1>3 DEF OnlyAt, Disable, Types, TypeOK
<1>7. ~Enabled(n)'
  <2>1. status'[n] = "DISABLED" BY <1>1, <1>3 DEF Disable, Types, TypeOK
  <2> QED BY <2>1 DEF Enabled
<1>8. /\ Kids(n)' = Kids(n) /\ EnabledKids(n)' = EnabledKids(n)
      /\ \A off : IF n \in Leaves THEN Reduced(n, off)' = value'[n]
                                  ELSE Reduced(n, off)' = Reduced(n, off)
  BY <1>1, <1>3, <1>6, Below
<1>9. DisablesMatch'
  <2> SUFFICES ASSUME NEW c \in Controls \ {Root}, Has(todo', {Step("disable", c, TRUE)})
               PROVE  ~Enabled(Parent[c])'
    BY DEF DisablesMatch
  <2>1. CASE Has(Tail(todo), {Step("disable", c, TRUE)})
    <3>1. Has(todo, {Step("disable", c, TRUE)}) BY <1>1, <1>3, <2>1, HasHead DEF Types
    <3>2. ~Enabled(Parent[c]) BY <3>1 DEF FollowInv, DisablesMatch
    <3>3. Parent[c] \in Controls BY ParentIs
    <3>4. CASE Parent[c] = n BY <1>7, <3>4
    <3>5. CASE Parent[c] # n BY <1>6, <3>2, <3>3, <3>5 DEF OnlyAt, Enabled
    <3> QED BY <3>4, <3>5
  <2>2. CASE ~Has(Tail(todo), {Step("disable", c, TRUE)})
    <3>1. /\ Step("revalue", n, TRUE) \notin {Step("disable", c, TRUE)}
          /\ Emit(n) \notin {Step("disable", c, TRUE)}
          /\ Step("above", n, FALSE) \notin {Step("disable", c, TRUE)}
      BY DEF Step, Emit
    <3>2. PICK d \in Kids(n) : Step("disable", d, TRUE) \in {Step("disable", c, TRUE)}
      BY <1>5, <2>2, <3>1
    <3>3. d = c BY <3>2 DEF Step
    <3> QED BY <1>1, <1>3, <1>7, <3>3, KidsIs
  <2> QED BY <2>1, <2>2
<1>10. Follows(n)' /\ Kept(n)
  <2>1. Disabling(n)'
    <3>1. EnabledKids(n)' \subseteq Kids(n) BY <1>8 DEF EnabledKids
    <3> QED BY <1>5, <1>7, <3>1 DEF Disabling
  <2>4. Kept(n)
    <3>1. Head(todo) \notin Coverers(n) BY <1>3 DEF Coverers
    <3>2. Covered(n) => Covered(n)' BY <1>1, <1>3, <1>5, <3>1, Carry DEF Covered
    <3> QED BY <2>1, <3>2 DEF Kept, Waiting
  <2>2. CASE n \in Leaves
    <3>1. Valued(n)' BY <1>7, <1>8, <2>2 DEF Valued, Reduced
    <3> QED BY <2>1, <2>4, <3>1 DEF Follows
  <2>3. CASE n \notin Leaves BY <1>5, <1>7, <2>1, <2>3, <2>4 DEF Follows
  <2> QED BY <2>2, <2>3
<1>11. ASSUME n # Root PROVE Follows(Parent[n])' /\ Kept(Parent[n])
  <2> DEFINE p == Parent[n]
  <2>1. p \in Controls /\ p # n BY <1>3, <1>11, ParentIs, ParentAbove
  <2>2. CASE ~self
    <3>1. Covered(Parent[n])' BY <1>5, <1>11, <2>2 DEF Covered
    <3> QED BY <3>1, CoveredFollows
  <2>3. CASE self
    <3>1. ~Enabled(p)
      <4>1. Has(todo, {Step("disable", n, TRUE)}) BY <1>1, <1>3, <2>3, HasHead DEF Types
      <4> QED BY <1>3, <1>11, <4>1 DEF FollowInv, DisablesMatch
    <3> HIDE DEF p
    <3>2. ~Enabled(p)' /\ Kids(p)' = Kids(p) BY <1>6, <2>1, <3>1 DEF OnlyAt, Enabled, Kids
    <3>3. Has(todo', Revaluers(p)) BY <1>5, <1>11 DEF p
    <3>4. EnabledKids(p)' \subseteq EnabledKids(p) /\ n \notin EnabledKids(p)'
      <4>1. Kids(p) \subseteq Controls BY <1>1, <2>1, KidsIs
      <4> QED BY <1>6, <1>7, <3>2, <4>1 DEF EnabledKids, Enabled, OnlyAt
    <3>5. Able(p)' \/ Covered(p)' \/ Disabling(p)'
      <4>1. CASE Able(p) BY <3>1, <3>2, <3>4, <4>1 DEF Able, AllControlsDisabled
      <4>2. CASE Covered(p)
        <5>1. Head(todo) \notin Coverers(p) BY <1>3 DEF Coverers
        <5>2. Has(todo', Coverers(p)) BY <1>1, <1>3, <1>5, <4>2, <5>1, Carry DEF Covered
        <5> QED BY <5>2 DEF Covered
      <4>3. CASE Disabling(p)
        <5>1. ASSUME NEW c \in EnabledKids(p)' PROVE Has(todo', {Step("disable", c, TRUE)})
          <6>1. c \in EnabledKids(p) /\ c # n BY <3>4
          <6>2. Has(todo, {Step("disable", c, TRUE)}) BY <4>3, <6>1 DEF Disabling
          <6>3. Head(todo) \notin {Step("disable", c, TRUE)} BY <1>3, <6>1 DEF Step
          <6> QED BY <1>1, <1>3, <1>5, <6>2, <6>3, Carry
        <5> QED BY <3>2, <5>1 DEF Disabling
      <4>4. Follows(p) BY <2>1 DEF FollowInv
      <4> QED BY <4>1, <4>2, <4>3, <4>4 DEF Follows
    <3>6. Able(p)' => Stated(p)'
      BY <3>2 DEF Able, Stated, CalculateStatus, Enabled
    <3>7. Covered(p) => Covered(p)'
      <4>1. Head(todo) \notin Coverers(p) BY <1>3 DEF Coverers
      <4> QED BY <1>1, <1>3, <1>5, <4>1, Carry DEF Covered
    <3>8. Kept(p) BY <3>5, <3>6, <3>7 DEF Kept, Waiting
    <3>9. Follows(p)' BY <3>2, <3>3, <3>5, <3>6 DEF Follows
    <3> QED BY <3>8, <3>9 DEF p
  <2> QED BY <1>3, <2>2, <2>3
<1>12. ASSUME NEW m \in Controls, m # n, n # Root => m # Parent[n]
       PROVE  Follows(m)' /\ Kept(m)
  <2>1. /\ Head(todo) \notin Coverers(m) /\ Head(todo) \notin Revaluers(m)
        /\ Head(todo) \notin Restaters(m)
    BY <1>3 DEF Coverers, Revaluers, Restaters
  <2> QED BY <1>3, <1>5, <1>6, <1>12, <2>1, FollowsElsewhere
<1> QED BY <1>4, <1>5, <1>9, <1>10, <1>11, <1>12 DEF FollowInv

LEMMA StatusFollows ==
    ASSUME FollowInv, NEW n, UpdateControlsErrors(n)
    PROVE  /\ FollowInv' /\ \A m \in Controls : Covered(m) => Covered(m)'
           /\ \A m \in Controls \ {n} : (n # Root /\ m = Parent[n]) \/ Kept(m)
           /\ Covered(n) \/ (Able(n) /\ Stated(n)')
           /\ n # Root => (Covered(n) => Covered(Parent[n])')
           /\ \A m \in Controls : Disabling(m) => EnabledKids(m) = {}
<1>1. Types /\ Shape BY DEF FollowInv
<1>2. Begin("status", n, FALSE) BY DEF UpdateControlsErrors
<1>3. /\ n \in Controls /\ todo # <<>> /\ Head(todo).do = "status" /\ Head(todo).n = n
      /\ Tail(todo) \in Seq(Item)
  BY <1>1, <1>2, BeginIs, HeadIs DEF Types, Do
<1>4. Types' BY <1>1, RestTypes
<1>5. /\ Shape' /\ todo' \in Seq(Item)
      /\ \A S : Has(Tail(todo), S) => Has(todo', S)
      /\ n # Root => Has(todo', {Step("status", Parent[n], FALSE)})
      /\ ~Has(todo', Disables) /\ ~Has(todo, Disables)
      /\ \A S : Has(todo', S) => \/ Has(Tail(todo), S) \/ Emit(n) \in S
                                 \/ n # Root /\ Step("status", Parent[n], FALSE) \in S
  BY <1>1, ShapeStatus
<1>6. DisablesMatch' BY <1>5, NoDisablesThen
<1>7. OnlyAt(n) /\ value' = value /\ failed' = failed /\ own' = own
      /\ status'[n] = CalculateStatus(n, failed[n], own[n])
  <2>1. /\ controls' = controls /\ value' = value /\ failed' = failed /\ own' = own
        /\ status' = [status EXCEPT ![n] = CalculateStatus(n, failed[n], own[n])]
    BY DEF UpdateControlsErrors
  <2>2. status = [m \in Controls |-> status[m]] BY <1>1 DEF Types, TypeOK
  <2> QED BY <1>3, <2>1, <2>2 DEF OnlyAt
<1>8. /\ Kids(n)' = Kids(n) /\ EnabledKids(n)' = EnabledKids(n)
      /\ KidsAre("PENDING", n)' <=> KidsAre("PENDING", n)
      /\ KidsAre("INVALID", n)' <=> KidsAre("INVALID", n)
      /\ \A off : IF n \in Leaves THEN Reduced(n, off)' = value'[n]
                                  ELSE Reduced(n, off)' = Reduced(n, off)
  BY <1>1, <1>3, <1>7, Below
<1>9. \A m \in Controls : Disabling(m) => EnabledKids(m) = {}
  <2> SUFFICES ASSUME NEW m \in Controls, Disabling(m), NEW c \in EnabledKids(m) PROVE FALSE
    OBVIOUS
  <2>1. c \in Controls \ {Root} BY <1>1, KidsIs DEF EnabledKids
  <2>2. ~Has(todo, {Step("disable", c, TRUE)}) BY <1>5, <2>1, NoDisables
  <2> QED BY <2>2 DEF Disabling
<1>10. ASSUME NEW m \in Controls PROVE Head(todo) \notin Coverers(m) /\ Head(todo) \notin Revaluers(m)
  BY <1>3 DEF Coverers, Revaluers
<1>11. Able(n) \/ Covered(n)
  <2>1. Disabling(n) => Able(n) BY <1>3, <1>9 DEF Disabling, Able, AllControlsDisabled
  <2>2. Follows(n) BY <1>3 DEF FollowInv
  <2> QED BY <2>1, <2>2 DEF Follows
<1>12. ASSUME Covered(n)
       PROVE  Follows(n)' /\ (n # Root => Follows(Parent[n])' /\ Covered(Parent[n])')
  <2>1. Has(Tail(todo), Coverers(n)) BY <1>1, <1>3, <1>10, <1>12, HasHead DEF Types, Covered
  <2>2. Covered(n)' BY <1>5, <2>1 DEF Covered
  <2>3. n # Root => Covered(Parent[n])'
    <3>1. Chained(Tail(todo)) BY <1>1, <1>3, ChainedTail DEF Types, Shape
    <3>2. n # Root => Has(Tail(todo), Coverers(Parent[n])) BY <1>3, <2>1, <3>1, CoversUp
    <3> QED BY <1>5, <3>2 DEF Covered
  <2> QED BY <2>2, <2>3, CoveredFollows
<1>13. ASSUME ~Covered(n)
       PROVE  Follows(n)' /\ (n # Root => Follows(Parent[n])') /\ Able(n) /\ Stated(n)'
  <2>1. Able(n) BY <1>11, <1>13
  <2>2. Enabled(n)' <=> Enabled(n)
    <3>1. status'[n] = "DISABLED" <=> AllControlsDisabled(n) BY <1>7, StatusIs
    <3> QED BY <2>1, <3>1 DEF Able, Enabled
  <2>3. AllControlsDisabled(n)' <=> AllControlsDisabled(n)
    BY <1>8, <2>2 DEF AllControlsDisabled
  <2>4. Able(n)' BY <2>1, <2>2, <2>3 DEF Able
  <2>5. Stated(n)' BY <1>7, <1>8, <2>3 DEF Stated, CalculateStatus
  <2>6. Follows(n)'
    <3>1. Follows(n) BY <1>3 DEF FollowInv
    <3>2. Has(todo, Revaluers(n)) => Has(todo', Revaluers(n))
      BY <1>1, <1>3, <1>5, <1>10, Carry
    <3>3. Valued(n) => Valued(n)'
      <4> SUFFICES ASSUME Valued(n) PROVE Valued(n)' OBVIOUS
      <4>1. value'[n] = value[n] BY <1>7
      <4>2. CASE n \in Leaves BY <1>8, <4>2 DEF Valued, Reduced
      <4>3. CASE n \notin Leaves
        <5>1. Reduced(n, TRUE)' = Reduced(n, TRUE) /\ Reduced(n, FALSE)' = Reduced(n, FALSE)
          BY <1>8, <4>3
        <5>2. CASE Enabled(n) BY <2>2, <4>1, <5>1, <5>2 DEF Valued, Reduced
        <5>3. CASE ~Enabled(n) BY <2>2, <4>1, <5>1, <5>3 DEF Valued, Reduced
        <5> QED BY <5>2, <5>3
      <4> QED BY <4>2, <4>3
    <3>4. Valued(n) \/ (~Enabled(n) /\ Has(todo, Revaluers(n))) BY <1>13, <3>1 DEF Follows
    <3> QED BY <2>2, <2>4, <2>5, <3>2, <3>3, <3>4 DEF Follows
  <2>7. ASSUME n # Root PROVE Follows(Parent[n])'
    <3> DEFINE p == Parent[n]
    <3>1. p \in Controls /\ p # n BY <1>3, <2>7, ParentIs, ParentAbove
    <3>2. Step("status", p, FALSE) \in Restaters(p)
      <4>1. Step("status", p, FALSE) \in Item BY <3>1, NoticeIs
      <4> QED BY <4>1 DEF Restaters, Step
    <3>3. Has(todo', Restaters(p)) BY <1>5, <2>7, <3>2 DEF Has
    <3> HIDE DEF p
    <3>4. Follows(p) BY <3>1 DEF FollowInv
    <3>5. Kids(p)' = Kids(p) /\ (Enabled(p)' <=> Enabled(p))
      BY <1>7, <3>1 DEF OnlyAt, Kids, Enabled
    <3>6. \A c \in Kids(p) : Enabled(c)' <=> Enabled(c)
      <4>1. Kids(p) \subseteq Controls BY <1>1, <3>1, KidsIs
      <4> QED BY <1>7, <2>2, <4>1 DEF OnlyAt, Enabled
    <3>7. EnabledKids(p)' = EnabledKids(p) /\ (Able(p)' <=> Able(p))
      BY <3>5, <3>6, AbleStill
    <3>8. Valued(p) => Valued(p)'
      <4>1. Reduced(p, TRUE)' = Reduced(p, TRUE) /\ Reduced(p, FALSE)' = Reduced(p, FALSE)
        BY <1>7, <3>5, <3>7, ReducedStill
      <4>2. CASE Enabled(p) BY <1>7, <3>5, <4>1, <4>2 DEF Valued, Reduced
      <4>3. CASE ~Enabled(p) BY <1>7, <3>5, <4>1, <4>3 DEF Valued, Reduced
      <4> QED BY <4>2, <4>3
    <3>9. /\ Covered(p) => Covered(p)'
          /\ Has(todo, Revaluers(p)) => Has(todo', Revaluers(p))
      BY <1>1, <1>3, <1>5, <1>10, <3>1, Carry DEF Covered
    <3>10. Disabling(p) => Disabling(p)'
      BY <1>9, <3>1, <3>5, <3>7 DEF Disabling
    <3>11. (Valued(p) \/ IF Enabled(p) THEN Covered(p) ELSE Has(todo, Revaluers(p)))'
      BY <3>4, <3>5, <3>8, <3>9 DEF Follows
    <3> QED BY <3>3, <3>4, <3>7, <3>9, <3>10, <3>11 DEF Follows, p
  <2> QED BY <2>1, <2>5, <2>6, <2>7
<1>14. ASSUME NEW m \in Controls, m # n, n # Root => m # Parent[n]
       PROVE  Follows(m)' /\ Kept(m)
  <2>1. Head(todo) \in Restaters(m) => Has(todo', Restaters(m))
    <3> SUFFICES ASSUME Head(todo) \in Restaters(m) PROVE Has(todo', Restaters(m))
      OBVIOUS
    <3>1. m \in Ancestors[n] BY <1>3, <1>14 DEF Restaters
    <3>2. n # Root /\ m \in Ancestors[Parent[n]] BY <1>3, <1>14, <3>1, RootIsTop, AncestorsOf
    <3>3. Step("status", Parent[n], FALSE) \in Restaters(m)
      <4>1. Step("status", Parent[n], FALSE) \in Item BY <1>3, <3>2, UpIs
      <4> QED BY <3>2, <4>1 DEF Restaters, Step
    <3> QED BY <1>5, <3>2, <3>3 DEF Has
  <2> QED BY <1>3, <1>5, <1>7, <1>10, <1>14, <2>1, FollowsElsewhere
<1>15. \A m \in Controls : Follows(m)' BY <1>12, <1>13, <1>14
<1>16. \A m \in Controls : Covered(m) => Covered(m)' BY <1>1, <1>3, <1>5, <1>10, Carry DEF Covered
<1> QED BY <1>4, <1>5, <1>6, <1>9, <1>12, <1>13, <1>14, <1>15, <1>16 DEF FollowInv

LEMMA AboveFollows ==
    ASSUME FollowInv, NEW n, UpdateAncestors(n)
    PROVE  FollowInv' /\ \A m \in Controls : Kept(m)
<1>1. Types /\ Shape BY DEF FollowInv
<1>2. Begin("above", n, FALSE) BY DEF UpdateAncestors
<1>3. /\ n \in Controls /\ todo # <<>> /\ Head(todo).do = "above" /\ Head(todo).n = n
  <2>1. "above" \in Do /\ todo \in Seq(Item) BY <1>1 DEF Do, Types
  <2> QED BY <1>2, <2>1, HeadIs DEF Begin, Step
<1>4. Types' BY <1>1, RestTypes
<1>5. /\ Shape' /\ todo' \in Seq(Item)
      /\ \A S : Has(Tail(todo), S) => Has(todo', S)
      /\ n # Root => Has(todo', {Step("update", Parent[n], FALSE)})
      /\ ~Has(todo', Disables) /\ ~Has(todo, Disables)
      /\ \A S : Has(todo', S) => \/ Has(Tail(todo), S)
                                 \/ n # Root /\ Step("update", Parent[n], FALSE) \in S
  BY <1>1, ShapeAbove
<1>6. DisablesMatch' BY <1>5, NoDisablesThen
<1>7. UNCHANGED <<controls, value, status, failed, own>> BY DEF UpdateAncestors
<1>8. ASSUME NEW m \in Controls PROVE Follows(m)' /\ Kept(m)
  <2>1. CASE Head(todo) \in Coverers(m)
    <3>1. m \in Ancestors[n] BY <1>3, <2>1 DEF Coverers
    <3>2. n # Root BY <1>3, <3>1, RootIsTop
    <3>3. m \in {Parent[n]} \cup Ancestors[Parent[n]] BY <1>3, <3>1, <3>2, AncestorsOf
    <3>4. Step("update", Parent[n], FALSE) \in Coverers(m)
      BY <1>3, <3>2, <3>3, ParentIs, UpdateCovers
    <3>5. Covered(m)' BY <1>5, <3>2, <3>4 DEF Covered, Has
    <3> QED BY <3>5, CoveredFollows
  <2>2. CASE Head(todo) \notin Coverers(m)
    <3>1. Head(todo) \notin Revaluers(m) /\ Head(todo) \notin Restaters(m)
      BY <1>3, <2>2 DEF Revaluers, Restaters
    <3>2. /\ Has(todo, Coverers(m)) => Has(todo', Coverers(m))
          /\ Has(todo, Revaluers(m)) => Has(todo', Revaluers(m))
          /\ Has(todo, Restaters(m)) => Has(todo', Restaters(m))
      BY <1>1, <1>3, <1>5, <2>2, <3>1, Carry
    <3>3. \A c \in EnabledKids(m) : ~Has(todo, {Step("disable", c, TRUE)})
      <4>1. EnabledKids(m) \subseteq Controls \ {Root} BY <1>1, KidsIs DEF EnabledKids
      <4> QED BY <1>5, <4>1, NoDisables
    <3>4. /\ (Enabled(m)' <=> Enabled(m)) /\ EnabledKids(m)' = EnabledKids(m)
          /\ (Valued(m)' <=> Valued(m)) /\ (Able(m)' <=> Able(m)) /\ (Stated(m)' <=> Stated(m))
      <4>1. Kids(m)' = Kids(m) BY <1>7 DEF Kids
      <4> QED BY <1>7, <4>1, Still
    <3>5. Follows(m) /\ status'[m] = status[m] BY <1>7 DEF FollowInv
    <3> QED BY <3>2, <3>3, <3>4, <3>5, FollowsStill
  <2> QED BY <2>1, <2>2
<1> QED BY <1>4, <1>5, <1>6, <1>8 DEF FollowInv

\* Steps that only end.
LEMMA PopFollows ==
    ASSUME FollowInv, Types', todo # <<>>, Goes(<<>>),
           UNCHANGED <<controls, value, status, failed, own>>,
           \A m \in Controls :
             /\ Head(todo) \notin Coverers(m) /\ Head(todo) \notin Revaluers(m)
             /\ Head(todo) \notin Restaters(m)
             /\ \A c \in Kids(m) : Head(todo) # Step("disable", c, TRUE)
    PROVE  FollowInv' /\ \A m \in Controls : Kept(m)
<1>1. Types /\ Shape BY DEF FollowInv
<1>2. Shape' /\ \A S : Has(todo', S) <=> Has(Tail(todo), S) BY <1>1, ShapeTail
<1>3. DisablesMatch'
  <2> SUFFICES ASSUME NEW c \in Controls \ {Root}, Has(todo', {Step("disable", c, TRUE)})
               PROVE  ~Enabled(Parent[c])'
    BY DEF DisablesMatch
  <2>1. Has(todo, {Step("disable", c, TRUE)}) BY <1>1, <1>2, HasHead DEF Types
  <2>2. ~Enabled(Parent[c]) BY <2>1 DEF FollowInv, DisablesMatch
  <2> QED BY <2>2 DEF Enabled
<1>4. ASSUME NEW m \in Controls PROVE Follows(m)' /\ Kept(m)
  <2>1. /\ Has(todo, Coverers(m)) => Has(todo', Coverers(m))
        /\ Has(todo, Revaluers(m)) => Has(todo', Revaluers(m))
        /\ Has(todo, Restaters(m)) => Has(todo', Restaters(m))
    BY <1>1, <1>2, Carry
  <2>2. \A c \in EnabledKids(m) :
          Has(todo, {Step("disable", c, TRUE)}) => Has(todo', {Step("disable", c, TRUE)})
    <3> TAKE c \in EnabledKids(m)
    <3>1. Head(todo) \notin {Step("disable", c, TRUE)} BY DEF EnabledKids
    <3> QED BY <1>1, <1>2, <3>1, Carry
  <2>3. /\ (Enabled(m)' <=> Enabled(m)) /\ EnabledKids(m)' = EnabledKids(m)
        /\ (Valued(m)' <=> Valued(m)) /\ (Able(m)' <=> Able(m)) /\ (Stated(m)' <=> Stated(m))
    <3>1. Kids(m)' = Kids(m) BY DEF Kids
    <3> QED BY <3>1, Still
  <2>4. Follows(m) /\ status'[m] = status[m] BY DEF FollowInv
  <2> QED BY <2>1, <2>2, <2>3, <2>4, FollowsStill
<1> QED BY <1>2, <1>3, <1>4 DEF FollowInv

LEMMA EndFollows ==
    ASSUME FollowInv, NEW n, Skip \/ Subscribed(n) \/ Emitted(n)
    PROVE  FollowInv' /\ \A m \in Controls : Kept(m)
<1>1. Types BY DEF FollowInv
<1>2. Types' BY <1>1, RestTypes
<1>3. todo # <<>> /\ Goes(<<>>) /\ UNCHANGED <<controls, value, status, failed, own>>
  BY DEF Skip, Subscribed, Emitted, Begin
<1>4. Head(todo).do \in {"disable", "enable", "patch", "subscribed", "emit"}
  BY DEF Skip, Subscribed, Emitted, Begin, Step
<1>5. ASSUME NEW m \in Controls
      PROVE  /\ Head(todo) \notin Coverers(m) /\ Head(todo) \notin Revaluers(m)
             /\ Head(todo) \notin Restaters(m)
  BY <1>4 DEF Coverers, Revaluers, Restaters
<1>6. ASSUME NEW m \in Controls, NEW c \in Kids(m) PROVE Head(todo) # Step("disable", c, TRUE)
  <2>1. Parent[c] = m BY <1>1, KidsIs
  <2>2. CASE Skip BY <2>1, <2>2 DEF Skip, Step
  <2>3. CASE Subscribed(n) \/ Emitted(n) BY <2>3 DEF Subscribed, Emitted, Begin, Step
  <2> QED BY <2>2, <2>3
<1> QED BY <1>2, <1>3, <1>5, <1>6, PopFollows

LEMMA RevalueFollows ==
    ASSUME FollowInv, NEW n, Revalue(n)
    PROVE  FollowInv' /\ \A m \in Controls : Kept(m)
<1>1. Types /\ Shape BY DEF FollowInv
<1>2. Begin("revalue", n, TRUE) /\ Goes(<<>>) BY DEF Revalue
<1>3. /\ n \in Controls /\ todo # <<>> /\ Head(todo).do = "revalue" /\ Head(todo).n = n
      /\ Tail(todo) \in Seq(Item)
  BY <1>1, <1>2, BeginIs, HeadIs DEF Types, Do
<1>4. Types' BY <1>1, RestTypes
<1>5. Shape' /\ \A S : Has(todo', S) <=> Has(Tail(todo), S) BY <1>1, <1>2, <1>3, ShapeTail
<1>6. /\ OnlyAt(n) /\ status' = status /\ failed' = failed /\ own' = own
      /\ value'[n] = Reduced(n, ~Enabled(n))
  <2>1. /\ controls' = controls /\ status' = status /\ failed' = failed /\ own' = own
        /\ value' = [value EXCEPT ![n] = Reduced(n, ~Enabled(n))]
    BY DEF Revalue
  <2>2. value = [m \in Controls |-> value[m]] BY <1>1 DEF Types
  <2> QED BY <1>3, <2>1, <2>2 DEF OnlyAt
<1>7. DisablesMatch'
  <2> SUFFICES ASSUME NEW c \in Controls \ {Root}, Has(todo', {Step("disable", c, TRUE)})
               PROVE  ~Enabled(Parent[c])'
    BY DEF DisablesMatch
  <2>1. Has(todo, {Step("disable", c, TRUE)}) BY <1>1, <1>3, <1>5, HasHead DEF Types
  <2>2. ~Enabled(Parent[c]) BY <2>1 DEF FollowInv, DisablesMatch
  <2> QED BY <1>6, <2>2 DEF Enabled
<1>8. ASSUME NEW m \in Controls
      PROVE  /\ Kids(m)' = Kids(m) /\ EnabledKids(m)' = EnabledKids(m)
             /\ (Enabled(m)' <=> Enabled(m)) /\ (Able(m)' <=> Able(m))
             /\ Stated(m)' <=> Stated(m)
  <2>1. Kids(m)' = Kids(m) /\ \A c : Enabled(c)' <=> Enabled(c)
    BY <1>6 DEF OnlyAt, Kids, Enabled
  <2>2. /\ EnabledKids(m)' = EnabledKids(m)
        /\ AllControlsDisabled(m)' <=> AllControlsDisabled(m)
        /\ Able(m)' <=> Able(m)
    BY <2>1, AbleStill
  <2>3. Stated(m)' <=> Stated(m)
    <3>1. KidsAre("PENDING", m)' <=> KidsAre("PENDING", m) BY <1>6, <2>2 DEF KidsAre
    <3>2. KidsAre("INVALID", m)' <=> KidsAre("INVALID", m) BY <1>6, <2>2 DEF KidsAre
    <3>3. CalculateStatus(m, failed[m], own[m])' = CalculateStatus(m, failed[m], own[m])
      BY <1>6, <2>2, <3>1, <3>2 DEF CalculateStatus
    <3> QED BY <1>6, <3>3 DEF Stated
  <2> QED BY <2>1, <2>2, <2>3
<1>9. ASSUME NEW m \in Controls
      PROVE  Head(todo) \notin Coverers(m) /\ Head(todo) \notin Restaters(m)
             /\ (Head(todo) \in Revaluers(m) => m = n)
  BY <1>3 DEF Coverers, Revaluers, Restaters
<1>10. ASSUME NEW m \in Controls, Valued(m)' \/ Covered(m)' \/ (~Enabled(m) /\ Has(todo', Revaluers(m)))
       PROVE  Follows(m)' /\ Kept(m)
  <2>1. Covered(m) => Covered(m)' BY <1>1, <1>3, <1>5, <1>9, Carry DEF Covered
  <2>2. Has(todo, Restaters(m)) => Has(todo', Restaters(m)) BY <1>1, <1>3, <1>5, <1>9, Carry
  <2>3. Disabling(m) => Disabling(m)'
    <3> SUFFICES ASSUME Disabling(m), NEW c \in EnabledKids(m)
                 PROVE  Has(todo', {Step("disable", c, TRUE)})
      BY <1>8 DEF Disabling
    <3>1. Head(todo) \notin {Step("disable", c, TRUE)} BY <1>3 DEF Step
    <3>2. Has(todo, {Step("disable", c, TRUE)}) BY DEF Disabling
    <3> QED BY <1>1, <1>3, <1>5, <3>1, <3>2, Carry
  <2>4. CASE Covered(m)' BY <2>4, CoveredFollows
  <2>5. CASE ~Covered(m)'
    <3>1. Follows(m) BY DEF FollowInv
    <3>2. Valued(m)' \/ (~Enabled(m)' /\ Has(todo', Revaluers(m))) BY <1>8, <1>10, <2>5
    <3>3. Able(m)' \/ Disabling(m)' BY <1>8, <2>1, <2>3, <2>5, <3>1 DEF Follows
    <3>4. Stated(m)' \/ Disabling(m)' \/ Has(todo', Restaters(m))
      BY <1>8, <2>1, <2>2, <2>3, <2>5, <3>1 DEF Follows
    <3> QED BY <1>6, <1>8, <2>1, <2>3, <3>2, <3>3, <3>4 DEF Follows, Kept, Waiting
  <2> QED BY <2>4, <2>5
<1>11. Follows(n)' /\ Kept(n)
  <2>1. \A off : IF n \in Leaves THEN Reduced(n, off)' = value'[n]
                                 ELSE Reduced(n, off)' = Reduced(n, off)
    BY <1>1, <1>3, <1>6, Below
  <2>2. Enabled(n)' <=> Enabled(n) BY <1>3, <1>8
  <2>3. Valued(n)'
    <3>1. CASE Enabled(n)
      <4>1. Reduced(n, FALSE)' = value'[n] BY <1>6, <2>1, <3>1
      <4> QED BY <2>2, <3>1, <4>1 DEF Valued, Reduced
    <3>2. CASE ~Enabled(n)
      <4>1. Reduced(n, TRUE)' = value'[n] BY <1>6, <2>1, <3>2
      <4> QED BY <2>2, <3>2, <4>1 DEF Valued, Reduced
    <3> QED BY <3>1, <3>2
  <2> QED BY <1>3, <1>10, <2>3
<1>12. ASSUME n # Root PROVE Follows(Parent[n])' /\ Kept(Parent[n])
  <2> DEFINE p == Parent[n]
  <2>1. p \in Controls /\ p # n BY <1>3, <1>12, ParentIs, ParentAbove
  <2>2. Bound(Head(todo)) /\ Promise(Head(todo)) = Revaluers(p)
    BY <1>3, <1>12 DEF Bound, Promise
  <2>3. Has(todo', Revaluers(p)) BY <1>1, <1>3, <1>5, <2>2, ChainedTail DEF Types, Shape
  <2>4. Follows(n) /\ Follows(p) BY <1>3, <2>1 DEF FollowInv
  <2>5. CASE Enabled(n) /\ ~Valued(n)
    <3>1. Covered(n) BY <2>4, <2>5 DEF Follows
    <3>2. Has(Tail(todo), Coverers(n))
      BY <1>1, <1>3, <1>9, <3>1, HasHead DEF Types, Covered
    <3>3. Chained(Tail(todo)) BY <1>1, <1>3, ChainedTail DEF Types, Shape
    <3>4. Has(Tail(todo), Coverers(Parent[n])) BY <1>3, <1>12, <3>2, <3>3, CoversUp
    <3>5. Covered(Parent[n])' BY <1>5, <3>4 DEF Covered
    <3> QED BY <3>5, CoveredFollows
  <2>6. CASE Enabled(n) /\ Valued(n)
    <3>1. value'[n] = value[n] BY <1>6, <2>6 DEF Valued
    <3>2. \A c \in Kids(p) : value'[c] = value[c]
      <4>1. Kids(p) \subseteq Controls BY <1>1, <2>1, KidsIs
      <4> QED BY <1>6, <3>1, <4>1 DEF OnlyAt
    <3> HIDE DEF p
    <3>3. Valued(p)' <=> Valued(p)
      <4>1. value'[p] = value[p] BY <1>6, <2>1 DEF OnlyAt
      <4>2. Kids(p)' = Kids(p) BY <1>8, <2>1
      <4> QED BY <1>6, <3>2, <4>1, <4>2, Still
    <3>4. Covered(p) => Covered(p)' BY <1>1, <1>3, <1>5, <1>9, <2>1, Carry DEF Covered
    <3>5. Follows(p)' /\ Kept(p) BY <1>10, <2>1, <2>3, <2>4, <3>3, <3>4 DEF Follows
    <3> QED BY <3>5 DEF p
  <2>7. CASE ~Enabled(n)
    <3> HIDE DEF p
    <3>1. CASE ~Enabled(p)
      <4>1. Follows(p)' /\ Kept(p) BY <1>10, <2>1, <2>3, <3>1
      <4> QED BY <4>1 DEF p
    <3>2. CASE Enabled(p)
      <4>1. \A c \in EnabledKids(p) : value'[c] = value[c]
        <5>1. EnabledKids(p) \subseteq Controls \ {n}
          BY <1>1, <2>1, <2>7, KidsIs DEF EnabledKids
        <5> QED BY <1>6, <5>1 DEF OnlyAt
      <4>2. EnabledKids(p)' = EnabledKids(p) /\ (Enabled(p)' <=> Enabled(p)) BY <1>8, <2>1
      <4>3. value'[p] = value[p] BY <1>6, <2>1 DEF OnlyAt
      <4>4. Valued(p)' <=> Valued(p) BY <3>2, <4>1, <4>2, <4>3 DEF Valued, Reduced
      <4>5. Covered(p) => Covered(p)' BY <1>1, <1>3, <1>5, <1>9, <2>1, Carry DEF Covered
      <4>6. Follows(p)' /\ Kept(p) BY <1>10, <2>1, <2>4, <3>2, <4>4, <4>5 DEF Follows
      <4> QED BY <4>6 DEF p
    <3> QED BY <3>1, <3>2
  <2> QED BY <2>5, <2>6, <2>7
<1>13. ASSUME NEW m \in Controls, m # n, n # Root => m # Parent[n]
       PROVE  Follows(m)' /\ Kept(m)
  <2>1. \A S : Has(Tail(todo), S) => Has(todo', S) BY <1>5
  <2>2. /\ Head(todo) \notin Coverers(m) /\ Head(todo) \notin Revaluers(m)
        /\ Head(todo) \notin Restaters(m)
    BY <1>9, <1>13
  <2> QED BY <1>3, <1>6, <1>13, <2>1, <2>2, FollowsElsewhere
<1>14. \A m \in Controls : Follows(m)' /\ Kept(m) BY <1>11, <1>12, <1>13
<1> QED BY <1>4, <1>5, <1>7, <1>14 DEF FollowInv

\* A call that an application begins while no disable() is on its way.
LEMMA PushFollows ==
    ASSUME FollowInv, Types', NEW s \in Item, ~Bound(s), todo' = <<s>> \o todo,
           \A c \in Controls \ {Root} : ~Has(todo', {Step("disable", c, TRUE)}),
           NEW g \in Controls, s \in Coverers(g) \/ controls' = controls,
           \A m \in Groups \ {g} : controls'[m] = controls[m],
           UNCHANGED <<value, status, failed, own>>
    PROVE  FollowInv' /\ \A m \in Controls : Kept(m)
<1>1. Types /\ Shape BY DEF FollowInv
<1>2. <<s>> \in Seq(Item) /\ \A S : Has(<<s>>, S) <=> s \in S BY HasOne
<1>3. \A S : Has(todo', S) <=> s \in S \/ Has(todo, S) BY <1>1, <1>2, HasConcat DEF Types
<1>4. ~Has(todo', Disables)
  <2> SUFFICES ASSUME Has(todo', Disables) PROVE FALSE OBVIOUS
  <2>1. PICK i \in 1..Len(todo') : todo'[i] \in Disables BY DEF Has
  <2>2. todo'[i].n \in Controls \ {Root} /\ todo'[i] = Step("disable", todo'[i].n, TRUE)
    BY <2>1 DEF Disables, Item, Step
  <2>3. Has(todo', {Step("disable", todo'[i].n, TRUE)}) BY <2>2 DEF Has
  <2> QED BY <2>2, <2>3
<1>5. Shape'
  <2>1. ~Has(<<s>>, Bounds) BY <1>2 DEF Bounds
  <2>2. Chained(todo') BY <1>1, <1>2, <2>1, ChainedFree DEF Types, Shape
  <2>3. InOrder(todo', Disables, Quiets) BY <1>4 DEF Has, InOrder
  <2> QED BY <2>2, <2>3 DEF Shape
<1>6. DisablesMatch' BY <1>4, NoDisablesThen
<1>7. ASSUME NEW m \in Controls PROVE Follows(m)' /\ Kept(m)
  <2>1. CASE s \in Coverers(m)
    <3>1. Covered(m)' BY <1>3, <2>1 DEF Covered
    <3> QED BY <3>1, CoveredFollows
  <2>2. CASE s \notin Coverers(m)
    <3>1. Kids(m)' = Kids(m) BY <2>2 DEF Kids, Controls
    <3>2. /\ (Enabled(m)' <=> Enabled(m)) /\ EnabledKids(m)' = EnabledKids(m)
          /\ (Valued(m)' <=> Valued(m)) /\ (Able(m)' <=> Able(m)) /\ (Stated(m)' <=> Stated(m))
      BY <3>1, Still
    <3>3. /\ Has(todo, Coverers(m)) => Has(todo', Coverers(m))
          /\ Has(todo, Revaluers(m)) => Has(todo', Revaluers(m))
          /\ Has(todo, Restaters(m)) => Has(todo', Restaters(m))
      BY <1>3
    <3>4. \A c \in EnabledKids(m) :
            Has(todo, {Step("disable", c, TRUE)}) => Has(todo', {Step("disable", c, TRUE)})
      BY <1>3
    <3>5. Follows(m) /\ status'[m] = status[m] BY DEF FollowInv
    <3> QED BY <3>2, <3>3, <3>4, <3>5, FollowsStill
  <2> QED BY <2>1, <2>2
<1> QED BY <1>5, <1>6, <1>7 DEF FollowInv

LEMMA ApplicationFollows ==
    ASSUME FollowInv, "disabling" \notin Gaps, Application
    PROVE  FollowInv' /\ \A m \in Controls : Kept(m)
<1>1. Types BY DEF FollowInv
<1>2. Types' BY <1>1, ApplicationTypes
<1>3. ~LeftToDo("disable")
  BY DEF Application, Call, RemoveControl, AddControl, MayCall
<1>4. \A c : ~Has(todo, {Step("disable", c, TRUE)})
  <2> SUFFICES ASSUME NEW c, Has(todo, {Step("disable", c, TRUE)}) PROVE FALSE OBVIOUS
  <2>1. PICK i \in 1..Len(todo) : todo[i] = Step("disable", c, TRUE) BY DEF Has
  <2>2. DOMAIN todo = 1..Len(todo) BY <1>1, LenProperties DEF Types
  <2> QED BY <1>3, <2>1, <2>2 DEF LeftToDo, Step
<1>5. UNCHANGED <<value, status, failed, own>>
  BY DEF Application, Call, RemoveControl, AddControl
<1>6. ASSUME NEW s \in Item, todo' = <<s>> \o todo, ~s.self
      PROVE  \A c \in Controls \ {Root} : ~Has(todo', {Step("disable", c, TRUE)})
  <2> TAKE c \in Controls \ {Root}
  <2>1. <<s>> \in Seq(Item) /\ (Has(<<s>>, {Step("disable", c, TRUE)})
                                  <=> s \in {Step("disable", c, TRUE)})
    BY HasOne
  <2>2. s \notin {Step("disable", c, TRUE)} BY <1>6 DEF Step
  <2> QED BY <1>1, <1>4, <1>6, <2>1, <2>2, HasConcat DEF Types
<1>7. ASSUME NEW n \in Controls, NEW do \in {"patch", "disable", "enable"}, Call(do, n)
      PROVE  FollowInv' /\ \A m \in Controls : Kept(m)
  <2> DEFINE s == Step(do, n, FALSE)
  <2>1. s \in Item /\ ~s.self /\ ~Bound(s)
    <3>1. s \in Item /\ ~s.self /\ s.do = do
      <4>1. do \in Do /\ FALSE \in BOOLEAN BY DEF Do
      <4>2. s.do = do /\ s.self = FALSE /\ s.n = n BY DEF Step
      <4>3. s \in Item BY <4>1 DEF Item, Step
      <4> QED BY <4>2, <4>3
    <3> QED BY <3>1 DEF Bound
  <2>2. todo' = <<s>> \o todo /\ controls' = controls BY <1>7 DEF Call
  <2> HIDE DEF s
  <2>3. \A c \in Controls \ {Root} : ~Has(todo', {Step("disable", c, TRUE)})
    BY <1>6, <2>1, <2>2
  <2>4. \A m \in Groups \ {n} : controls'[m] = controls[m] BY <2>2
  <2> QED BY <1>2, <1>5, <2>1, <2>2, <2>3, <2>4, PushFollows
<1>8. ASSUME NEW n \in Controls \ {Root}, RemoveControl(n) \/ AddControl(n)
      PROVE  FollowInv' /\ \A m \in Controls : Kept(m)
  <2> DEFINE g == Parent[n]
             s == Step("update", g, FALSE)
  <2>1. g \in Controls /\ g \in Groups BY ParentIs
  <2>2. s \in Item /\ Up("update", n) = <<s>> BY UpIs
  <2>3. ~s.self /\ ~Bound(s) BY DEF Step, Bound
  <2>4. s \in Coverers(g) BY <2>1, UpdateCovers
  <2>5. todo' = <<s>> \o todo BY <1>8, <2>2 DEF RemoveControl, AddControl
  <2>6. \A m \in Groups \ {g} : controls'[m] = controls[m]
    BY <1>1, <1>8 DEF RemoveControl, AddControl, Types
  <2> HIDE DEF s, g
  <2>7. \A c \in Controls \ {Root} : ~Has(todo', {Step("disable", c, TRUE)})
    BY <1>6, <2>2, <2>3, <2>5
  <2> QED BY <1>2, <1>5, <2>1, <2>2, <2>3, <2>4, <2>5, <2>6, <2>7, PushFollows
<1> QED BY <1>7, <1>8 DEF Application

LEMMA AnswerFollows ==
    ASSUME FollowInv, Answer
    PROVE  FollowInv'
<1>1. Types /\ Shape BY DEF FollowInv
<1>2. Types' BY <1>1, AnswerTypes
<1>3. PICK v \in open :
       /\ own' = [own EXCEPT ![v.n] = FALSE]
       /\ failed' = [failed EXCEPT ![v.n] = v.seen \in RejectsLater[v.n]]
       /\ todo' = <<Step("status", v.n, FALSE)>>
  BY DEF Answer
<1> DEFINE n == v.n
           s == Step("status", n, FALSE)
<1>4. n \in Controls /\ todo = <<>> BY <1>1 DEF Types, Answer, AtRest
<1>5. UNCHANGED <<controls, value, status>> BY DEF Answer
<1>6. s \in Item /\ s \in Restaters(n)
  <2>1. s \in Item BY <1>4, NoticeIs
  <2> QED BY <1>4, <2>1 DEF Restaters, Step
<1>7. ~Bound(s) /\ s \notin Disables BY DEF Bound, Disables, Step
<1>8. todo' = <<s>> BY <1>3
<1> HIDE DEF s
<1>9. \A S : Has(todo', S) <=> s \in S BY <1>6, <1>8, HasOne
<1>10. Shape'
  <2>1. Len(todo') = 1 /\ todo'[1] = s BY <1>8
  <2>2. Chained(todo') BY <1>7, <2>1 DEF Chained
  <2>3. InOrder(todo', Disables, Quiets) BY <1>7, <2>1 DEF InOrder
  <2> QED BY <2>2, <2>3 DEF Shape
<1>11. DisablesMatch' BY <1>7, <1>9, NoDisablesThen
<1>12. ASSUME NEW m \in Controls
       PROVE  Valued(m)' /\ (Able(m)' \/ Disabling(m)') /\ (m # n => Stated(m)' \/ Disabling(m)')
  <2>1. Follows(m) /\ \A S : ~Has(todo, S) BY <1>4, HasNone DEF FollowInv
  <2>2. Kids(m)' = Kids(m) /\ \A c : Enabled(c)' <=> Enabled(c) BY <1>5 DEF Kids, Enabled
  <2>3. /\ EnabledKids(m)' = EnabledKids(m)
        /\ AllControlsDisabled(m)' <=> AllControlsDisabled(m)
        /\ Able(m)' <=> Able(m)
    BY <2>2, AbleStill
  <2>4. Valued(m)' <=> Valued(m) BY <1>5, <2>2, <2>3 DEF Valued, Reduced
  <2>5. Disabling(m) => Disabling(m)' BY <2>1, <2>2, <2>3 DEF Disabling
  <2>6. ASSUME m # n PROVE Stated(m)' <=> Stated(m)
    <3>1. own'[m] = own[m] /\ failed'[m] = failed[m] BY <1>1, <1>3, <2>6 DEF Types, TypeOK
    <3>2. KidsAre("PENDING", m)' <=> KidsAre("PENDING", m) BY <1>5, <2>3 DEF KidsAre
    <3>3. KidsAre("INVALID", m)' <=> KidsAre("INVALID", m) BY <1>5, <2>3 DEF KidsAre
    <3>4. CalculateStatus(m, failed[m], own[m])' = CalculateStatus(m, failed[m], own[m])
      BY <2>3, <3>1, <3>2, <3>3 DEF CalculateStatus
    <3> QED BY <1>5, <3>4 DEF Stated
  <2> QED BY <2>1, <2>3, <2>4, <2>5, <2>6 DEF Follows, Covered
<1>13. \A m \in Controls : Follows(m)'
  <2> TAKE m \in Controls
  <2>1. CASE m = n BY <1>6, <1>9, <1>12, <2>1 DEF Follows
  <2>2. CASE m # n BY <1>12, <2>2 DEF Follows
  <2> QED BY <2>1, <2>2
<1> QED BY <1>2, <1>10, <1>11, <1>13 DEF FollowInv

LEMMA FollowStep ==
    ASSUME FollowInv, [Next]_vars, "disabling" \notin Gaps
    PROVE  FollowInv'
<1>1. CASE UNCHANGED vars
  <2>1. Types' BY <1>1, TypesStep DEF FollowInv
  <2>2. todo' = todo /\ UNCHANGED <<controls, value, status, failed, own>> BY <1>1 DEF vars
  <2>3. ASSUME NEW m \in Controls PROVE Follows(m)'
    <3>1. Kids(m)' = Kids(m) BY <2>2 DEF Kids
    <3>2. /\ (Enabled(m)' <=> Enabled(m)) /\ EnabledKids(m)' = EnabledKids(m)
          /\ (Valued(m)' <=> Valued(m)) /\ (Able(m)' <=> Able(m)) /\ (Stated(m)' <=> Stated(m))
      BY <2>2, <3>1, Still
    <3>3. Follows(m) /\ status'[m] = status[m] BY <2>2 DEF FollowInv
    <3> QED BY <2>2, <3>2, <3>3, FollowsStill
  <2>4. Shape' BY <2>2 DEF FollowInv, Shape
  <2>5. DisablesMatch' BY <2>2 DEF FollowInv, DisablesMatch, Enabled
  <2> QED BY <2>1, <2>3, <2>4, <2>5 DEF FollowInv
<1>2. CASE Next
  BY <1>2, Proceeding, UpdateFollows, EndFollows, StatusFollows, DisableFollows, RevalueFollows,
     EnableFollows, AboveFollows, PatchFollows, ApplicationFollows, AnswerFollows
<1> QED BY <1>1, <1>2

LEMMA FollowInit ==
    ASSUME Init
    PROVE  FollowInv
<1>1. Types BY TypesInit
<1>2. todo = <<>> /\ \A S : ~Has(todo, S) BY HasNone DEF Init
<1>3. Shape
  <2>1. Len(todo) = 0 BY <1>2, EmptySeq
  <2> QED BY <2>1 DEF Shape, Chained, InOrder
<1>4. DisablesMatch BY <1>2 DEF DisablesMatch
<1>5. /\ \A n \in Controls : status[n] \in {"VALID", "INVALID", "PENDING"} /\ value[n] = Built[n]
      /\ \A n \in Controls : status[n] = CalculateStatus(n, failed[n], own[n])
      /\ controls = Children
  BY DEF Init
<1>6. \A n \in Controls : Enabled(n) BY <1>5 DEF Enabled
<1>7. ASSUME NEW n \in Controls PROVE Valued(n) /\ Able(n) /\ Stated(n)
  <2>1. Kids(n) \subseteq Controls BY <1>1, KidsIs
  <2>2. EnabledKids(n) = Kids(n) BY <1>6, <2>1 DEF EnabledKids
  <2>3. ~AllControlsDisabled(n) /\ Able(n) BY <1>6, <2>2 DEF AllControlsDisabled, Able
  <2>4. Reduced(n, FALSE) = value[n]
    <3>1. CASE n \in Leaves BY <3>1 DEF Reduced
    <3>2. CASE n \notin Leaves
      <4>1. n \in Groups /\ Kids(n) = ToSet(Children[n]) BY <1>1, <1>5, <3>2, KidsIs
      <4>2. Built[n] = [c \in Kids(n) |-> Built[c]] BY <4>1, ControlTreeAssumption
      <4>3. [c \in Kids(n) |-> Built[c]] = [c \in Kids(n) |-> value[c]] BY <1>5, <2>1
      <4> QED BY <1>5, <2>2, <3>2, <4>2, <4>3 DEF Reduced
    <3> QED BY <3>1, <3>2
  <2>5. Valued(n) BY <1>6, <2>4 DEF Valued, Reduced
  <2>6. Stated(n) BY <1>5 DEF Stated
  <2> QED BY <2>3, <2>5, <2>6
<1>8. \A n \in Controls : Follows(n) BY <1>7 DEF Follows
<1> QED BY <1>1, <1>3, <1>4, <1>8 DEF FollowInv

\* Nothing is left to do: what follows has followed.
LEMMA RestFollows ==
    ASSUME FollowInv, AtRest, NEW n \in Controls
    PROVE  Able(n) /\ Valued(n) /\ Stated(n)
<1>1. \A S : ~Has(todo, S) BY HasNone DEF AtRest
<1>2. Follows(n) BY DEF FollowInv
<1>3. Disabling(n) => Able(n) BY <1>1 DEF Disabling, Able, AllControlsDisabled
<1>4. Able(n) BY <1>1, <1>2, <1>3 DEF Follows, Covered
<1>5. Disabling(n) => Stated(n)
  BY <1>1, <1>4 DEF Disabling, Able, Stated, CalculateStatus, Enabled
<1> QED BY <1>1, <1>2, <1>4, <1>5 DEF Follows, Covered

\* At rest every control has the status and the value that follow from its
\* children's, whatever tree, validators, calls and answers there are, if no
\* subscriber calls while disable() is on its way through the children of a
\* group: a call in the middle of it finds the group disabled and the children
\* not (abstract_model.ts:947).
THEOREM ParentsFollowAlways ==
    ASSUME "disabling" \notin Gaps
    PROVE  Spec => []ParentsFollow
<1>1. Init => FollowInv BY FollowInit
<1>2. FollowInv /\ [Next]_vars => FollowInv' BY FollowStep
<1>3. FollowInv => ParentsFollow BY RestFollows DEF ParentsFollow, Valued, Stated
<1> QED BY <1>1, <1>2, <1>3, PTL DEF Spec

-----------------------------------------------------------------------------
(* Verdicts, and the answers that are awaited. *)

Subscribes == {s \in Item : s.do = "subscribed"}
Notices == {s \in Item : s.do \in {"status", "emit"}}

\* What subscribe() returned is closed before anything is validated again.
SubscribedFirst ==
    /\ InOrder(todo, Subscribes, Notices)
    /\ \A n \in Controls : Has(todo, {Step("subscribed", n, TRUE)}) => sub[n] = 0

Awaits(n) ==
    /\ own[n] <=> \E v \in open : v.n = n
    /\ \A v \in open : v.n = n => /\ v.id = sub[n] /\ n \in Async
                                  /\ Enabled(n) => v.seen = value[n] \/ Covered(n)
    /\ \A v, w \in open : v.n = n /\ w.n = n => v = w

Judged(n) ==
    Enabled(n) /\ ~Covered(n) =>
      LET now == value[n] \in Rejects[n]
          later == n \in Async /\ value[n] \in RejectsLater[n]
      IN /\ now => failed[n]
         /\ failed[n] => now \/ later
         /\ own[n] => ~failed[n]
         /\ ~failed[n] /\ ~own[n] /\ later => status[n] = "INVALID"

VerdictInv ==
    FollowInv /\ SubscribedFirst /\ \A n \in Controls : Awaits(n) /\ Judged(n) /\ Waiting(n)

LEMMA NoSubscribes ==
    ASSUME ~Has(todo', Subscribes)
    PROVE  SubscribedFirst'
<1>1. InOrder(todo', Subscribes, Notices) BY DEF InOrder, Has
<1>2. \A n \in Controls : Step("subscribed", n, TRUE) \in Subscribes
  <2> TAKE n \in Controls
  <2>1. Step("subscribed", n, TRUE) \in Item BY NoticeIs
  <2> QED BY <2>1 DEF Subscribes, Step
<1>3. \A n \in Controls : ~Has(todo', {Step("subscribed", n, TRUE)}) BY <1>2 DEF Has
<1> QED BY <1>1, <1>3 DEF SubscribedFirst

\* A step that does not begin with a notice finds nothing to be closed.
LEMMA NothingToClose ==
    ASSUME Types, SubscribedFirst, todo # <<>>, Head(todo) \notin Notices,
           Head(todo).do # "subscribed"
    PROVE  ~Has(todo, Subscribes) /\ ~Has(Tail(todo), Subscribes)
<1>1. Head(todo) \notin Subscribes BY DEF Subscribes
<1>2. ~Has(Tail(todo), Subscribes) BY InOrderTail DEF Types, SubscribedFirst
<1> QED BY <1>1, <1>2, HasHead DEF Types

LEMMA UpdateCloses ==
    ASSUME Types, SubscribedFirst, NEW n, NEW self, UpdateValueAndValidity(n, self)
    PROVE  SubscribedFirst'
<1>1. Begin("update", n, self) BY UpdateGoes
<1>2. n \in Controls /\ self \in BOOLEAN /\ todo # <<>> /\ Head(todo).do = "update"
  BY <1>1, BeginIs DEF Types, Do
<1>3. ~Has(Tail(todo), Subscribes)
  <2>1. Head(todo) \notin Notices BY <1>2 DEF Notices
  <2> QED BY <1>2, <2>1, NothingToClose
<1>4. PICK pre \in Seq(Item) :
        /\ todo' = (pre \o UpUnless(self, n)) \o Tail(todo)
        /\ \A S : Has(pre, S) => \E s \in S :
             s \in {Emit(n), Step("status", n, FALSE), Step("subscribed", n, TRUE)}
        /\ UpdateAtOnce(n, self)
             => pre = <<Step("status", n, FALSE), Step("subscribed", n, TRUE), Emit(n)>>
  BY UpdateGoes
<1> DEFINE u == UpUnless(self, n)
           t == Tail(todo)
           a == pre \o u
<1>5. u \in Seq(Item) /\ t \in Seq(Item) BY <1>2, RestIs, HeadIs DEF Types
<1>6. ~Has(u, Subscribes) BY <1>2, UpUnlessHas DEF Subscribes, Step
<1>7. todo' = a \o t BY <1>4
<1> HIDE DEF u, t
<1>8. a \in Seq(Item) BY <1>4, <1>5, ConcatProperties
<1>9. \A S : Has(a, S) <=> Has(pre, S) \/ Has(u, S) BY <1>4, <1>5, HasConcat
<1>10. CASE ~UpdateAtOnce(n, self)
  <2>1. todo' = (<<Emit(n)>> \o u) \o t
    BY <1>10 DEF UpdateValueAndValidity, UpdateDisabled, UpdateSync, UpdateLater, Goes, u, t
  <2> DEFINE b == <<Emit(n)>> \o u
  <2>2. <<Emit(n)>> \in Seq(Item) /\ ~Has(<<Emit(n)>>, Subscribes)
    BY <1>2, RestIs, HasOne DEF Subscribes, Emit, Step
  <2>3. b \in Seq(Item) /\ ~Has(b, Subscribes)
    BY <1>5, <1>6, <2>2, HasConcat, ConcatProperties
  <2>4. todo' = b \o t BY <2>1
  <2> HIDE DEF b
  <2>5. ~Has(todo', Subscribes) BY <1>3, <1>5, <2>3, <2>4, HasConcat DEF t
  <2> QED BY <2>5, NoSubscribes
<1>11. CASE UpdateAtOnce(n, self)
  <2> DEFINE x == Step("status", n, FALSE)
             y == Step("subscribed", n, TRUE)
  <2>1. pre = <<x, y, Emit(n)>> BY <1>4, <1>11
  <2>2. x \in Notices /\ x \notin Subscribes /\ Emit(n) \notin Subscribes
    BY <1>2, RestIs DEF Notices, Subscribes, Emit, Step
  <2>3. sub'[n] = 0 BY <1>2, <1>11 DEF UpdateAtOnce, Types
  <2> HIDE DEF x, y
  <2>4. InOrder(pre, Subscribes, Notices)
    <3>1. Len(pre) = 3 /\ pre[1] = x /\ pre[2] = y /\ pre[3] = Emit(n) BY <2>1
    <3> SUFFICES ASSUME NEW i \in 1..3, pre[i] \in Subscribes, NEW j \in 1..(i - 1)
                 PROVE  pre[j] \in Notices
      BY <3>1 DEF InOrder
    <3>2. i = 2 /\ j = 1 BY <2>2, <3>1
    <3> QED BY <2>2, <3>1, <3>2
  <2>5. InOrder(u, Subscribes, Notices) /\ InOrder(t, Subscribes, Notices)
    BY <1>3, <1>6 DEF InOrder, Has, t
  <2>6. InOrder(a, Subscribes, Notices) BY <1>4, <1>5, <1>6, <2>4, <2>5, InOrderConcat
  <2> HIDE DEF a
  <2>7. InOrder(todo', Subscribes, Notices)
    BY <1>3, <1>5, <1>7, <1>8, <2>5, <2>6, InOrderConcat DEF t
  <2>8. ASSUME NEW m \in Controls, Has(todo', {Step("subscribed", m, TRUE)}) PROVE sub'[m] = 0
    <3> DEFINE S == {Step("subscribed", m, TRUE)}
    <3>1. Step("subscribed", m, TRUE) \in Subscribes
      <4>1. Step("subscribed", m, TRUE) \in Item BY NoticeIs
      <4> QED BY <4>1 DEF Subscribes, Step
    <3>2. ~Has(t, S) /\ ~Has(u, S) BY <1>3, <1>6, <3>1 DEF Has, t
    <3>3. Has(todo', S) BY <2>8
    <3> HIDE DEF S
    <3>4. Has(pre, S) BY <1>5, <1>7, <1>8, <1>9, <3>2, <3>3, HasConcat
    <3>5. PICK s \in S : s \in {Emit(n), Step("status", n, FALSE), Step("subscribed", n, TRUE)}
      BY <1>4, <3>4
    <3>6. m = n BY <3>5 DEF S, Emit, Step
    <3> QED BY <2>3, <3>6
  <2> QED BY <2>7, <2>8 DEF SubscribedFirst
<1> QED BY <1>10, <1>11

LEMMA RestCloses ==
    ASSUME Types, Shape, SubscribedFirst, NEW n, NEW self,
           \/ Disable(n, self) \/ Revalue(n) \/ Enable(n, self) \/ UpdateAncestors(n)
           \/ Patch(n, self)
    PROVE  SubscribedFirst'
<1>1. todo # <<>> /\ Head(todo).do \in {"disable", "revalue", "enable", "above", "patch"}
  BY DEF Disable, Revalue, Enable, UpdateAncestors, Patch, BeginChild, Begin, Step
<1>2. ~Has(Tail(todo), Subscribes)
  <2>1. Head(todo) \notin Notices /\ Head(todo).do # "subscribed" BY <1>1 DEF Notices
  <2> QED BY <1>1, <2>1, NothingToClose
<1>4. /\ \A c : Step("disable", c, TRUE) \notin Subscribes
      /\ \A c : Step("enable", c, TRUE) \notin Subscribes
      /\ \A c : Step("patch", c, TRUE) \notin Subscribes
      /\ Step("revalue", n, TRUE) \notin Subscribes /\ Emit(n) \notin Subscribes
      /\ Step("above", n, FALSE) \notin Subscribes
      /\ Step("update", n, TRUE) \notin Subscribes /\ Step("update", n, self) \notin Subscribes
      /\ Step("update", Parent[n], FALSE) \notin Subscribes
  BY DEF Subscribes, Emit, Step
<1>5. ~Has(todo', Subscribes)
  <2>1. CASE Disable(n, self) BY <1>2, <1>4, <2>1, ShapeDisable
  <2>2. CASE Revalue(n)
    <3>1. Goes(<<>>) BY <2>2 DEF Revalue
    <3> QED BY <1>1, <1>2, <3>1, ShapeTail
  <2>3. CASE Enable(n, self) BY <1>2, <1>4, <2>3, ShapeEnable
  <2>4. CASE UpdateAncestors(n) BY <1>2, <1>4, <2>4, ShapeAbove
  <2>5. CASE Patch(n, self) BY <1>2, <1>4, <2>5, ShapePatch
  <2> QED BY <2>1, <2>2, <2>3, <2>4, <2>5
<1> QED BY <1>5, NoSubscribes

LEMMA StatusCloses ==
    ASSUME Types, Shape, SubscribedFirst, NEW n, UpdateControlsErrors(n)
    PROVE  SubscribedFirst'
<1>1. Begin("status", n, FALSE) /\ sub' = sub BY DEF UpdateControlsErrors
<1>2. n \in Controls /\ todo # <<>> /\ Tail(todo) \in Seq(Item)
  BY <1>1, BeginIs, HeadIs DEF Types, Do
<1> DEFINE g == <<Emit(n)>>
           h == Up("status", n)
           a == g \o h
           t == Tail(todo)
<1>3. g \in Seq(Item) /\ h \in Seq(Item) BY <1>2, RestIs, UpIs
<1>4. todo' = a \o t BY DEF UpdateControlsErrors, Goes
<1>5. \A S : Has(g, S) => Emit(n) \in S BY <1>2, RestIs, HasOne
<1>6. \A S : Has(h, S) => n # Root /\ Step("status", Parent[n], FALSE) \in S
  <2>1. CASE n = Root BY <1>2, <2>1, UpIs, HasNone
  <2>2. CASE n # Root BY <1>2, <2>2, UpIs, HasOne
  <2> QED BY <2>1, <2>2
<1> HIDE DEF g, h, t
<1>7. a \in Seq(Item) /\ \A S : Has(a, S) <=> Has(g, S) \/ Has(h, S)
  BY <1>3, HasConcat, ConcatProperties
<1> HIDE DEF a
<1>8. ~Has(a, Subscribes)
  <2>1. Emit(n) \notin Subscribes /\ Step("status", Parent[n], FALSE) \notin Subscribes
    BY DEF Subscribes, Emit, Step
  <2> QED BY <1>5, <1>6, <1>7, <2>1
<1>9. ~Has(a, Item \ Notices)
  <2>1. Emit(n) \notin Item \ Notices /\ Step("status", Parent[n], FALSE) \notin Item \ Notices
    BY DEF Notices, Emit, Step
  <2> QED BY <1>5, <1>6, <1>7, <2>1
<1>10. InOrder(t, Subscribes, Notices) BY <1>2, InOrderTail DEF Types, SubscribedFirst, t
<1>11. t \in Seq(Item) BY <1>2 DEF t
<1>12. InOrder(todo', Subscribes, Notices) BY <1>4, <1>7, <1>8, <1>9, <1>10, <1>11, OrderedFree
<1>13. ASSUME NEW m \in Controls, Has(todo', {Step("subscribed", m, TRUE)}) PROVE sub'[m] = 0
  <2>1. Has(a, {Step("subscribed", m, TRUE)}) \/ Has(t, {Step("subscribed", m, TRUE)})
    BY <1>4, <1>7, <1>11, <1>13, HasConcat
  <2>2. ~Has(a, {Step("subscribed", m, TRUE)})
    <3>1. /\ Emit(n) \notin {Step("subscribed", m, TRUE)}
          /\ Step("status", Parent[n], FALSE) \notin {Step("subscribed", m, TRUE)}
      BY DEF Emit, Step
    <3> QED BY <1>5, <1>6, <1>7, <3>1
  <2>3. Has(todo, {Step("subscribed", m, TRUE)}) BY <1>2, <2>1, <2>2, HasHead DEF Types, t
  <2> QED BY <1>1, <2>3 DEF SubscribedFirst
<1> QED BY <1>12, <1>13 DEF SubscribedFirst

LEMMA EndCloses ==
    ASSUME Types, Shape, SubscribedFirst, NEW n, Skip \/ Subscribed(n) \/ Emitted(n)
    PROVE  SubscribedFirst' /\ \A m \in Controls : sub'[m] = sub[m]
<1>1. todo # <<>> /\ Goes(<<>>) BY DEF Skip, Subscribed, Emitted, Begin
<1>2. \A S : Has(todo', S) <=> Has(Tail(todo), S) BY <1>1, ShapeTail
<1>3. \A m \in Controls : sub'[m] = sub[m]
  <2>1. CASE Subscribed(n)
    <3>1. Begin("subscribed", n, TRUE) /\ sub' = [sub EXCEPT ![n] = 0]
      BY <2>1 DEF Subscribed
    <3>2. n \in Controls /\ Head(todo) = Step("subscribed", n, TRUE)
      BY <3>1, BeginIs DEF Types, Do
    <3>3. Has(todo, {Step("subscribed", n, TRUE)}) BY <1>1, <3>2, HasHead DEF Types
    <3>4. sub[n] = 0 BY <3>2, <3>3 DEF SubscribedFirst
    <3> QED BY <3>1, <3>4 DEF Types
  <2>2. CASE Skip \/ Emitted(n) BY <2>2 DEF Skip, Emitted
  <2> QED BY <2>1, <2>2
<1>4. todo' = Tail(todo)
  <2>1. Tail(todo) \in Seq(Item) BY <1>1, HeadIs DEF Types
  <2> QED BY <1>1, <2>1, ConcatEmptySeq DEF Goes
<1>5. InOrder(todo', Subscribes, Notices) BY <1>1, <1>4, InOrderTail DEF Types, SubscribedFirst
<1>6. \A m \in Controls : Has(todo', {Step("subscribed", m, TRUE)}) => sub'[m] = 0
  BY <1>1, <1>2, <1>3, HasHead DEF Types, SubscribedFirst
<1> QED BY <1>3, <1>5, <1>6 DEF SubscribedFirst

\* A control whose own state a step leaves alone.
LEMMA JudgesStill ==
    ASSUME NEW m, Awaits(m), Judged(m), Covered(m) => Covered(m)',
           value'[m] = value[m], status'[m] = status[m], failed'[m] = failed[m],
           own'[m] = own[m], sub'[m] = sub[m],
           \A v : v.n = m => (v \in open' <=> v \in open)
    PROVE  Awaits(m)' /\ Judged(m)'
<1>1. Enabled(m)' <=> Enabled(m) BY DEF Enabled
<1>2. Awaits(m)'
  <2>1. own'[m] <=> \E v \in open' : v.n = m BY DEF Awaits
  <2>2. ASSUME NEW v \in open', v.n = m
        PROVE  /\ v.id = sub'[m] /\ m \in Async
               /\ Enabled(m)' => v.seen = value'[m] \/ Covered(m)'
    BY <1>1, <2>2 DEF Awaits
  <2>3. \A v, w \in open' : v.n = m /\ w.n = m => v = w BY DEF Awaits
  <2> QED BY <2>1, <2>2, <2>3 DEF Awaits
<1>3. Judged(m)' BY <1>1 DEF Judged
<1> QED BY <1>2, <1>3

\* A control that is to be updated, or that is disabled, owes no verdict.
LEMMA JudgesLater ==
    ASSUME NEW n, Awaits(n), Covered(n)' \/ ~Enabled(n)', open' = open, own'[n] = own[n],
           sub'[n] = sub[n]
    PROVE  Awaits(n)' /\ Judged(n)'
<1>1. Judged(n)' BY DEF Judged
<1>2. Awaits(n)'
  <2>1. own'[n] <=> \E v \in open' : v.n = n BY DEF Awaits
  <2>2. ASSUME NEW v \in open', v.n = n
        PROVE  /\ v.id = sub'[n] /\ n \in Async
               /\ Enabled(n)' => v.seen = value'[n] \/ Covered(n)'
    BY <2>2 DEF Awaits
  <2>3. \A v, w \in open' : v.n = n /\ w.n = n => v = w BY DEF Awaits
  <2> QED BY <2>1, <2>2, <2>3 DEF Awaits
<1> QED BY <1>1, <1>2

\* updateValueAndValidity(): the last validation is cancelled, its answer is
\* not awaited any more; the verdict is on the value just taken.
LEMMA UpdateJudges ==
    ASSUME Types, NEW n, NEW self, UpdateValueAndValidity(n, self), Awaits(n)
    PROVE  /\ Awaits(n)' /\ Judged(n)'
           /\ UpdateAtOnce(n, self) => status'[n] = "PENDING"
           /\ \A m \in Controls \ {n} : /\ sub'[m] = sub[m]
                                        /\ \A v : v.n = m => (v \in open' <=> v \in open)
<1>1. Begin("update", n, self) BY UpdateGoes
<1>2. n \in Controls BY <1>1, BeginIs DEF Types, Do
<1>3. CASE UpdateDisabled(n, self)
  <2>1. status'[n] = "DISABLED" /\ own' = own /\ open' = open /\ sub' = sub
    BY <1>2, <1>3 DEF UpdateDisabled, Types, TypeOK
  <2>2. ~Enabled(n)' BY <2>1 DEF Enabled
  <2>3. Awaits(n)' /\ Judged(n)' BY <2>1, <2>2, JudgesLater
  <2>4. ~UpdateAtOnce(n, self) BY <1>3 DEF UpdateDisabled, UpdateAtOnce, Update
  <2> QED BY <2>1, <2>3, <2>4
<1>4. \A v \in Cancelled(n) : v \in open /\ v.n # n BY DEF Awaits, Cancelled
<1>5. \A v : v.n # n => (v \in Cancelled(n) <=> v \in open) BY DEF Cancelled
<1> DEFINE v0 == Reduced(n, FALSE)
           now == v0 \in Rejects[n]
           later == n \in Async /\ v0 \in RejectsLater[n]
<1>6. ASSUME NEW run, Update(n, self, run)
      PROVE  /\ value'[n] = v0
             /\ run = (n \in Async /\ CalculateStatus(n, now, FALSE) \in {"VALID", "PENDING"})
             /\ status'[n] = IF run THEN "PENDING" ELSE CalculateStatus(n, now, FALSE)
             /\ ~AllControlsDisabled(n)
  BY <1>2, <1>6 DEF Update, Types, TypeOK
<1>7. CASE UpdateSync(n, self)
  <2>1. /\ Update(n, self, FALSE) /\ failed'[n] = now /\ own'[n] = FALSE
        /\ open' = Cancelled(n) /\ sub' = [sub EXCEPT ![n] = 0]
    BY <1>2, <1>7 DEF UpdateSync, Types, TypeOK
  <2>2. Awaits(n)' BY <1>4, <2>1 DEF Awaits
  <2>3. ~now /\ later => status'[n] = "INVALID"
    <3>1. CalculateStatus(n, now, FALSE) \in {"VALID", "INVALID", "PENDING", "DISABLED"}
          /\ (CalculateStatus(n, now, FALSE) = "DISABLED" <=> AllControlsDisabled(n))
      BY StatusIs
    <3> HIDE DEF v0, now
    <3> QED BY <1>6, <2>1, <3>1
  <2>4. Judged(n)'
    <3>1. value'[n] = v0 BY <1>6, <2>1
    <3> QED BY <2>1, <2>3, <3>1 DEF Judged
  <2>5. ~UpdateAtOnce(n, self) \/ status'[n] = "PENDING" BY <1>6 DEF UpdateAtOnce
  <2>6. \A m \in Controls \ {n} : sub'[m] = sub[m] BY <1>2, <2>1 DEF Types
  <2> QED BY <1>5, <2>1, <2>2, <2>4, <2>5, <2>6
<1>8. ASSUME Update(n, self, TRUE) PROVE ~now /\ n \in Async /\ status'[n] = "PENDING"
  <2>1. now => CalculateStatus(n, now, FALSE) \in {"INVALID", "DISABLED"}
    BY DEF CalculateStatus
  <2> HIDE DEF now
  <2> QED BY <1>6, <1>8, <2>1
<1>9. CASE UpdateLater(n, self)
  <2> DEFINE w == [n |-> n, id |-> FreshId(n), seen |-> v0]
  <2>1. /\ Update(n, self, TRUE) /\ failed'[n] = FALSE /\ own'[n] = TRUE
        /\ open' = Cancelled(n) \cup {w} /\ sub' = [sub EXCEPT ![n] = FreshId(n)]
    BY <1>2, <1>9 DEF UpdateLater, Types, TypeOK
  <2>2. w.n = n /\ w.id = FreshId(n) /\ w.seen = v0 OBVIOUS
  <2>3. sub'[n] = FreshId(n) /\ \A m \in Controls \ {n} : sub'[m] = sub[m]
    BY <1>2, <2>1 DEF Types
  <2>4. value'[n] = v0 /\ ~now /\ n \in Async /\ status'[n] = "PENDING" BY <1>6, <1>8, <2>1
  <2> HIDE DEF w, v0
  <2>5. \A v \in open' : v.n = n => v = w BY <1>4, <2>1
  <2>6. w \in open' BY <2>1
  <2>7. Awaits(n)'
    <3>1. own'[n] <=> \E v \in open' : v.n = n BY <2>1, <2>2, <2>6
    <3>2. ASSUME NEW v \in open', v.n = n
          PROVE  /\ v.id = sub'[n] /\ n \in Async
                 /\ Enabled(n)' => v.seen = value'[n] \/ Covered(n)'
      BY <2>2, <2>3, <2>4, <2>5, <3>2
    <3>3. \A v, x \in open' : v.n = n /\ x.n = n => v = x BY <2>5
    <3> QED BY <3>1, <3>2, <3>3 DEF Awaits
  <2>8. Judged(n)' BY <2>1, <2>4 DEF Judged
  <2>9. \A m \in Controls \ {n} : \A v : v.n = m => (v \in open' <=> v \in open)
    BY <1>5, <2>1, <2>2
  <2> QED BY <2>3, <2>4, <2>7, <2>8, <2>9
<1>10. CASE UpdateAtOnce(n, self)
  <2>1. /\ Update(n, self, TRUE) /\ failed'[n] = (v0 \in RejectsLater[n]) /\ own'[n] = FALSE
        /\ open' = Cancelled(n) /\ sub' = [sub EXCEPT ![n] = 0]
    BY <1>2, <1>10 DEF UpdateAtOnce, Types, TypeOK
  <2>2. Awaits(n)' BY <1>4, <2>1 DEF Awaits
  <2>3. value'[n] = v0 /\ ~now /\ n \in Async /\ status'[n] = "PENDING" BY <1>6, <1>8, <2>1
  <2>4. Judged(n)' BY <2>1, <2>3 DEF Judged
  <2>5. \A m \in Controls \ {n} : sub'[m] = sub[m] BY <1>2, <2>1 DEF Types
  <2> QED BY <1>5, <2>1, <2>2, <2>3, <2>4, <2>5
<1> QED BY <1>3, <1>7, <1>9, <1>10 DEF UpdateValueAndValidity

LEMMA UpdateVerdicts ==
    ASSUME VerdictInv, NEW n, NEW self, UpdateValueAndValidity(n, self)
    PROVE  VerdictInv'
<1>1. FollowInv /\ Types /\ SubscribedFirst /\ \A m \in Controls : Awaits(m) /\ Judged(m) /\ Waiting(m)
  BY DEF VerdictInv, FollowInv
<1>2. n \in Controls
  <2>1. Begin("update", n, self) BY <1>1, UpdateGoes
  <2> QED BY <1>1, <2>1, BeginIs DEF Types, Do
<1>3. FollowInv' /\ \A m \in Controls \ {n} : Kept(m) BY <1>1, UpdateFollows
<1>4. SubscribedFirst' BY <1>1, UpdateCloses
<1>5. OnlyAt(n) /\ (Stated(n)' \/ UpdateAtOnce(n, self)) BY <1>1, UpdateSettles
<1>6. /\ Awaits(n)' /\ Judged(n)'
      /\ UpdateAtOnce(n, self) => status'[n] = "PENDING"
      /\ \A m \in Controls \ {n} : /\ sub'[m] = sub[m]
                                   /\ \A v : v.n = m => (v \in open' <=> v \in open)
  BY <1>1, <1>2, UpdateJudges
<1>7. Waiting(n)' BY <1>5, <1>6 DEF Waiting
<1>8. ASSUME NEW m \in Controls \ {n} PROVE Awaits(m)' /\ Judged(m)' /\ Waiting(m)'
  <2>1. /\ value'[m] = value[m] /\ status'[m] = status[m] /\ failed'[m] = failed[m]
        /\ own'[m] = own[m] /\ sub'[m] = sub[m]
        /\ \A v : v.n = m => (v \in open' <=> v \in open)
    BY <1>5, <1>6 DEF OnlyAt
  <2>2. (Covered(m) => Covered(m)') /\ Waiting(m)' BY <1>1, <1>3 DEF Kept
  <2>3. Awaits(m) /\ Judged(m) BY <1>1
  <2> QED BY <2>1, <2>2, <2>3, JudgesStill
<1> QED BY <1>3, <1>4, <1>6, <1>7, <1>8 DEF VerdictInv

\* The steps that leave the validations alone.
LEMMA OtherVerdicts ==
    ASSUME VerdictInv, FollowInv', SubscribedFirst', NEW n \in Controls, OnlyAt(n), open' = open,
           own' = own, \A m \in Controls : sub'[m] = sub[m], \A m \in Controls \ {n} : Kept(m),
           Awaits(n)' /\ Judged(n)' /\ Waiting(n)'
    PROVE  VerdictInv'
<1>1. ASSUME NEW m \in Controls \ {n} PROVE Awaits(m)' /\ Judged(m)' /\ Waiting(m)'
  <2>1. /\ value'[m] = value[m] /\ status'[m] = status[m] /\ failed'[m] = failed[m]
        /\ own'[m] = own[m] /\ sub'[m] = sub[m]
        /\ \A v : v.n = m => (v \in open' <=> v \in open)
    BY DEF OnlyAt
  <2>2. (Covered(m) => Covered(m)') /\ Waiting(m)' BY DEF Kept, VerdictInv
  <2>3. Awaits(m) /\ Judged(m) BY DEF VerdictInv
  <2> QED BY <2>1, <2>2, <2>3, JudgesStill
<1> QED BY <1>1 DEF VerdictInv


\* enable() and patchValue() leave their control to be updated, disable()
\* leaves it disabled: none of them owes a verdict.
LEMMA DescentVerdicts ==
    ASSUME VerdictInv, NEW n, NEW self, Disable(n, self) \/ Enable(n, self) \/ Patch(n, self)
    PROVE  VerdictInv'
<1>1. FollowInv /\ Types /\ Shape /\ SubscribedFirst BY DEF VerdictInv, FollowInv
<1>2. n \in Controls
  <2>1. Begin("disable", n, self) \/ Begin("enable", n, self) \/ Begin("patch", n, self)
    BY DEF Disable, Enable, Patch, BeginChild
  <2> QED BY <1>1, <2>1, BeginIs DEF Types, Do
<1>3. FollowInv' /\ \A m \in Controls : Kept(m)
  BY <1>1, DisableFollows, EnableFollows, PatchFollows
<1>4. SubscribedFirst' BY <1>1, RestCloses
<1>5. OnlyAt(n) /\ open' = open /\ own' = own /\ sub' = sub
  <2>1. controls' = controls /\ open' = open /\ own' = own /\ sub' = sub
    BY DEF Disable, Enable, Patch
  <2>2. CASE Disable(n, self)
    BY <1>1, <1>2, <2>1, <2>2 DEF Disable, OnlyAt, Types, TypeOK
  <2>3. CASE Enable(n, self)
    BY <1>1, <1>2, <2>1, <2>3 DEF Enable, OnlyAt, Types, TypeOK
  <2>4. CASE Patch(n, self)
    <3>1. \A c \in Controls \ {n} : value'[c] = value[c]
      BY <1>1, <1>2, <2>4 DEF Patch, Types
    <3> QED BY <2>1, <2>4, <3>1 DEF Patch, OnlyAt
  <2> QED BY <2>2, <2>3, <2>4
<1>6. Covered(n)' \/ ~Enabled(n)'
  <2>1. CASE Disable(n, self)
    <3>1. status'[n] = "DISABLED" BY <1>1, <1>2, <2>1 DEF Disable, Types, TypeOK
    <3> QED BY <3>1 DEF Enabled
  <2>2. CASE Enable(n, self) \/ Patch(n, self)
    <3>1. Has(todo', Coverers(n)) BY <1>1, <2>2, ShapeEnable, ShapePatch
    <3> QED BY <3>1 DEF Covered
  <2> QED BY <2>1, <2>2
<1>7. Awaits(n)' /\ Judged(n)'
  <2>1. Awaits(n) BY <1>2 DEF VerdictInv
  <2> QED BY <1>5, <1>6, <2>1, JudgesLater
<1>8. Waiting(n)' /\ \A m \in Controls \ {n} : Kept(m)
  <2>1. Waiting(n) /\ Kept(n) BY <1>2, <1>3 DEF VerdictInv
  <2> QED BY <1>3, <2>1 DEF Kept
<1>9. \A m \in Controls : sub'[m] = sub[m] BY <1>5
<1> QED BY <1>2, <1>3, <1>4, <1>5, <1>7, <1>8, <1>9, OtherVerdicts

\* A group that takes another value is still to be updated.
LEMMA RevalueVerdicts ==
    ASSUME VerdictInv, NEW n, Revalue(n)
    PROVE  VerdictInv'
<1>1. FollowInv /\ Types /\ Shape /\ SubscribedFirst BY DEF VerdictInv, FollowInv
<1>2. n \in Controls
  <2>1. Begin("revalue", n, TRUE) BY DEF Revalue
  <2> QED BY <1>1, <2>1, BeginIs DEF Types, Do
<1>3. FollowInv' /\ \A m \in Controls : Kept(m) BY <1>1, RevalueFollows
<1>4. SubscribedFirst' BY <1>1, RestCloses
<1>5. /\ OnlyAt(n) /\ open' = open /\ own' = own /\ sub' = sub
      /\ status' = status /\ failed' = failed
      /\ value'[n] = Reduced(n, ~Enabled(n))
  <2>1. /\ controls' = controls /\ status' = status /\ failed' = failed /\ own' = own
        /\ open' = open /\ sub' = sub
        /\ value' = [value EXCEPT ![n] = Reduced(n, ~Enabled(n))]
    BY DEF Revalue
  <2>2. value = [m \in Controls |-> value[m]] BY <1>1 DEF Types
  <2> QED BY <1>2, <2>1, <2>2 DEF OnlyAt
<1>6. Awaits(n) /\ Judged(n) /\ Waiting(n) /\ Follows(n) /\ Kept(n)
  BY <1>1, <1>2, <1>3 DEF VerdictInv, FollowInv
<1>7. Awaits(n)' /\ Judged(n)'
  <2>1. CASE Valued(n)
    <3>1. value'[n] = value[n] BY <1>5, <2>1 DEF Valued
    <3>2. Covered(n) => Covered(n)' BY <1>6 DEF Kept
    <3>3. \A v : v.n = n => (v \in open' <=> v \in open) BY <1>5
    <3> QED BY <1>5, <1>6, <3>1, <3>2, <3>3, JudgesStill
  <2>2. CASE ~Valued(n)
    <3>1. Enabled(n) => Covered(n) BY <1>6, <2>2 DEF Follows
    <3>2. Covered(n)' \/ ~Enabled(n)' BY <1>5, <1>6, <3>1 DEF Kept, Enabled
    <3> QED BY <1>5, <1>6, <3>2, JudgesLater
  <2> QED BY <2>1, <2>2
<1>8. Waiting(n)' BY <1>6 DEF Kept
<1>9. \A m \in Controls : sub'[m] = sub[m] BY <1>5
<1> QED BY <1>2, <1>3, <1>4, <1>5, <1>7, <1>8, <1>9, OtherVerdicts

\* The steps that change no control.
LEMMA QuietVerdicts ==
    ASSUME VerdictInv, NEW n, UpdateAncestors(n) \/ Skip \/ Subscribed(n) \/ Emitted(n)
    PROVE  VerdictInv'
<1>1. FollowInv /\ Types /\ Shape /\ SubscribedFirst BY DEF VerdictInv, FollowInv
<1>2. FollowInv' /\ \A m \in Controls : Kept(m) BY <1>1, AboveFollows, EndFollows
<1>3. SubscribedFirst' /\ \A m \in Controls : sub'[m] = sub[m]
  <2>1. CASE UpdateAncestors(n)
    <3>1. SubscribedFirst' BY <1>1, <2>1, RestCloses
    <3> QED BY <2>1, <3>1 DEF UpdateAncestors
  <2>2. CASE Skip \/ Subscribed(n) \/ Emitted(n) BY <1>1, <2>2, EndCloses
  <2> QED BY <2>1, <2>2
<1>4. UNCHANGED <<controls, value, status, failed, own, open>>
  BY DEF UpdateAncestors, Skip, Subscribed, Emitted
<1>5. ASSUME NEW m \in Controls PROVE Awaits(m)' /\ Judged(m)' /\ Waiting(m)'
  <2>1. Awaits(m) /\ Judged(m) /\ Waiting(m) /\ Kept(m) BY <1>2 DEF VerdictInv
  <2>2. (Covered(m) => Covered(m)') /\ Waiting(m)' BY <2>1 DEF Kept
  <2>3. sub'[m] = sub[m] /\ \A v : v.n = m => (v \in open' <=> v \in open) BY <1>3, <1>4
  <2> QED BY <1>4, <2>1, <2>2, <2>3, JudgesStill
<1> QED BY <1>2, <1>3, <1>5 DEF VerdictInv


\* _updateControlsErrors(): the verdict is on the value, which stays.  A group
\* that the new status of a child concerns waited for it, or is to be updated.
LEMMA StatusVerdicts ==
    ASSUME VerdictInv, NEW n, UpdateControlsErrors(n)
    PROVE  VerdictInv'
<1>1. FollowInv /\ Types /\ Shape /\ SubscribedFirst BY DEF VerdictInv, FollowInv
<1>2. n \in Controls
  <2>1. Begin("status", n, FALSE) BY DEF UpdateControlsErrors
  <2> QED BY <1>1, <2>1, BeginIs DEF Types, Do
<1>3. /\ FollowInv' /\ \A m \in Controls : Covered(m) => Covered(m)'
      /\ \A m \in Controls \ {n} : (n # Root /\ m = Parent[n]) \/ Kept(m)
      /\ Covered(n) \/ (Able(n) /\ Stated(n)')
      /\ n # Root => (Covered(n) => Covered(Parent[n])')
      /\ \A m \in Controls : Disabling(m) => EnabledKids(m) = {}
  BY <1>1, StatusFollows
<1>4. SubscribedFirst' BY <1>1, StatusCloses
<1>5. /\ OnlyAt(n) /\ open' = open /\ own' = own /\ sub' = sub
      /\ value' = value /\ failed' = failed /\ controls' = controls
      /\ status'[n] = CalculateStatus(n, failed[n], own[n])
      /\ \A c \in Controls \ {n} : status'[c] = status[c]
  <2>1. /\ controls' = controls /\ value' = value /\ failed' = failed /\ own' = own
        /\ open' = open /\ sub' = sub
        /\ status' = [status EXCEPT ![n] = CalculateStatus(n, failed[n], own[n])]
    BY DEF UpdateControlsErrors
  <2>2. /\ status'[n] = CalculateStatus(n, failed[n], own[n])
        /\ \A c \in Controls \ {n} : status'[c] = status[c]
    BY <1>1, <1>2, <2>1 DEF Types, TypeOK
  <2> QED BY <2>1, <2>2 DEF OnlyAt
<1>6. Awaits(n) /\ Judged(n) /\ Waiting(n) BY <1>2 DEF VerdictInv
<1>7. ASSUME ~Covered(n)
      PROVE  /\ Able(n) /\ Stated(n)' /\ (Enabled(n)' <=> Enabled(n))
             /\ status'[n] = status[n] \/ (status[n] = "PENDING" /\ Enabled(n))
  <2>1. Able(n) /\ Stated(n)' BY <1>3, <1>7
  <2>2. status'[n] = "DISABLED" <=> AllControlsDisabled(n) BY <1>5, StatusIs
  <2>3. Enabled(n)' <=> Enabled(n) BY <2>1, <2>2 DEF Able, Enabled
  <2>4. CASE Stated(n) BY <1>5, <2>1, <2>3, <2>4 DEF Stated
  <2>5. CASE ~Enabled(n) BY <2>1, <2>3, <2>5 DEF Enabled
  <2>6. CASE status[n] = "PENDING" BY <2>1, <2>3, <2>6 DEF Enabled
  <2> QED BY <1>6, <1>7, <2>4, <2>5, <2>6 DEF Waiting, Disabling
<1>8. Awaits(n)' /\ Judged(n)'
  <2>1. CASE Covered(n)
    <3>1. Covered(n)' BY <1>2, <1>3, <2>1
    <3> QED BY <1>5, <1>6, <3>1, JudgesLater
  <2>2. CASE ~Covered(n)
    <3>1. Enabled(n)' <=> Enabled(n) BY <1>7, <2>2
    <3>2. Awaits(n)'
      <4>1. own'[n] <=> \E v \in open' : v.n = n BY <1>5, <1>6 DEF Awaits
      <4>2. ASSUME NEW v \in open', v.n = n
            PROVE  /\ v.id = sub'[n] /\ n \in Async
                   /\ Enabled(n)' => v.seen = value'[n] \/ Covered(n)'
        BY <1>5, <1>6, <2>2, <3>1, <4>2 DEF Awaits
      <4>3. \A v, w \in open' : v.n = n /\ w.n = n => v = w BY <1>5, <1>6 DEF Awaits
      <4> QED BY <4>1, <4>2, <4>3 DEF Awaits
    <3>3. Judged(n)'
      <4>1. status[n] = "INVALID" => status'[n] = "INVALID" BY <1>7, <2>2
      <4> QED BY <1>5, <1>6, <2>2, <3>1, <4>1 DEF Judged
    <3> QED BY <3>2, <3>3
  <2> QED BY <2>1, <2>2
<1>9. Waiting(n)' BY <1>2, <1>3 DEF Waiting
<1>10. ASSUME NEW m \in Controls \ {n}, n # Root, m = Parent[n]
       PROVE  Kept(m)
  <2>1. Covered(m) => Covered(m)' BY <1>3
  <2>2. CASE Covered(n)
    <3>1. Covered(m)' BY <1>3, <1>10, <2>2
    <3> QED BY <3>1 DEF Kept, Waiting
  <2>3. CASE ~Covered(n)
    <3>1. /\ (Enabled(n)' <=> Enabled(n))
          /\ status'[n] = status[n] \/ (status[n] = "PENDING" /\ Enabled(n))
      BY <1>7, <2>3
    <3>2. /\ Kids(m)' = Kids(m) /\ (Enabled(m)' <=> Enabled(m)) /\ status'[m] = status[m]
          /\ \A c \in Kids(m) : Enabled(c)' <=> Enabled(c)
      <4>1. Kids(m) \subseteq Controls BY <1>1, KidsIs
      <4>2. \A c \in Controls : Enabled(c)' <=> Enabled(c) BY <1>5, <3>1 DEF Enabled
      <4>3. Kids(m)' = Kids(m) BY <1>5 DEF Kids
      <4> QED BY <1>5, <4>1, <4>2, <4>3
    <3>3. EnabledKids(m)' = EnabledKids(m)
          /\ (AllControlsDisabled(m)' <=> AllControlsDisabled(m))
      BY <3>2, AbleStill
    <3>4. Disabling(m) => Disabling(m)' BY <1>3, <3>2, <3>3 DEF Disabling
    <3>5. status[m] = "PENDING" => status'[m] = "PENDING" BY <3>2
    <3>6. Stated(m) => Stated(m)' \/ status'[m] = "PENDING"
      <4>1. CASE n \notin Kids(m) \/ status'[n] = status[n]
        <5>1. \A c \in Kids(m) : status'[c] = status[c] /\ value'[c] = value[c]
          <6>1. Kids(m) \subseteq Controls BY <1>1, KidsIs
          <6> QED BY <1>5, <4>1, <6>1
        <5>2. Stated(m)' <=> Stated(m) BY <1>5, <3>2, <5>1, Still
        <5> QED BY <5>2
      <4>2. CASE n \in Kids(m) /\ status[n] = "PENDING" /\ Enabled(n)
        <5>1. n \in EnabledKids(m) /\ ~AllControlsDisabled(m) BY <4>2 DEF EnabledKids, AllControlsDisabled
        <5>2. KidsAre("PENDING", m) BY <4>2, <5>1 DEF KidsAre
        <5>3. CASE failed[m] BY <1>5, <3>2, <3>3, <5>1, <5>3 DEF Stated, CalculateStatus
        <5>4. CASE ~failed[m] BY <3>2, <5>1, <5>2, <5>4 DEF Stated, CalculateStatus
        <5> QED BY <5>3, <5>4
      <4> QED BY <3>1, <4>1, <4>2
    <3> QED BY <2>1, <3>4, <3>5, <3>6 DEF Kept, Waiting
  <2> QED BY <2>2, <2>3
<1>11. \A m \in Controls \ {n} : Kept(m) BY <1>3, <1>10
<1>12. \A m \in Controls : sub'[m] = sub[m] BY <1>5
<1> QED BY <1>2, <1>3, <1>4, <1>5, <1>8, <1>9, <1>11, <1>12, OtherVerdicts


\* A subscriber that calls finds no subscription to be closed.
LEMMA ApplicationVerdicts ==
    ASSUME VerdictInv, Gaps = {}, Application
    PROVE  VerdictInv'
<1>1. FollowInv /\ Types /\ SubscribedFirst BY DEF VerdictInv, FollowInv
<1>2. FollowInv' /\ \A m \in Controls : Kept(m) BY <1>1, ApplicationFollows
<1>3. UNCHANGED <<value, status, failed, own, open, sub>>
  BY DEF Application, Call, RemoveControl, AddControl
<1>4. ~Has(todo, Subscribes)
  <2>1. ~LeftToDo("subscribed")
    BY DEF Application, Call, RemoveControl, AddControl, MayCall
  <2> SUFFICES ASSUME Has(todo, Subscribes) PROVE FALSE OBVIOUS
  <2>2. PICK i \in 1..Len(todo) : todo[i] \in Subscribes BY DEF Has
  <2>3. DOMAIN todo = 1..Len(todo) BY <1>1, LenProperties DEF Types
  <2> QED BY <2>1, <2>2, <2>3 DEF LeftToDo, Subscribes
<1>5. PICK s \in Item : todo' = <<s>> \o todo /\ s.do # "subscribed"
  <2>1. ASSUME NEW n \in Controls, NEW do \in {"patch", "disable", "enable"}, Call(do, n)
        PROVE  \E s \in Item : todo' = <<s>> \o todo /\ s.do # "subscribed"
    <3>1. Step(do, n, FALSE) \in Item BY StepIs DEF Do
    <3>2. Step(do, n, FALSE).do # "subscribed" BY DEF Step
    <3>3. todo' = <<Step(do, n, FALSE)>> \o todo BY <2>1 DEF Call
    <3> QED BY <3>1, <3>2, <3>3
  <2>2. ASSUME NEW n \in Controls \ {Root}, RemoveControl(n) \/ AddControl(n)
        PROVE  \E s \in Item : todo' = <<s>> \o todo /\ s.do # "subscribed"
    <3>1. Parent[n] \in Controls BY ParentIs
    <3>2. Step("update", Parent[n], FALSE) \in Item
          /\ Up("update", n) = <<Step("update", Parent[n], FALSE)>>
      BY <3>1, UpIs
    <3>3. Step("update", Parent[n], FALSE).do # "subscribed" BY DEF Step
    <3>4. todo' = <<Step("update", Parent[n], FALSE)>> \o todo
      BY <2>2, <3>2 DEF RemoveControl, AddControl
    <3> QED BY <3>2, <3>3, <3>4
  <2> QED BY <2>1, <2>2 DEF Application
<1>6. SubscribedFirst'
  <2>1. <<s>> \in Seq(Item) /\ (Has(<<s>>, Subscribes) <=> s \in Subscribes) BY HasOne
  <2>2. s \notin Subscribes BY <1>5 DEF Subscribes
  <2>3. ~Has(todo', Subscribes) BY <1>1, <1>4, <1>5, <2>1, <2>2, HasConcat DEF Types
  <2> QED BY <2>3, NoSubscribes
<1>7. ASSUME NEW m \in Controls PROVE Awaits(m)' /\ Judged(m)' /\ Waiting(m)'
  <2>1. Awaits(m) /\ Judged(m) /\ Waiting(m) /\ Kept(m) BY <1>2 DEF VerdictInv
  <2>2. (Covered(m) => Covered(m)') /\ Waiting(m)' BY <2>1 DEF Kept
  <2>3. \A v : v.n = m => (v \in open' <=> v \in open) BY <1>3
  <2> QED BY <1>3, <2>1, <2>2, <2>3, JudgesStill
<1> QED BY <1>2, <1>6, <1>7 DEF VerdictInv

\* An answer is on the present value of its control, which has no errors of
\* its own and is PENDING until the answer is told.
LEMMA AnswerVerdicts ==
    ASSUME VerdictInv, Answer
    PROVE  VerdictInv'
<1>1. FollowInv /\ Types BY DEF VerdictInv, FollowInv
<1>2. FollowInv' BY <1>1, AnswerFollows
<1>3. PICK v \in open :
       /\ open' = open \ {v}
       /\ sub' = [sub EXCEPT ![v.n] = IF @ = v.id THEN 0 ELSE @]
       /\ own' = [own EXCEPT ![v.n] = FALSE]
       /\ failed' = [failed EXCEPT ![v.n] = v.seen \in RejectsLater[v.n]]
       /\ todo' = <<Step("status", v.n, FALSE)>>
  BY DEF Answer
<1> DEFINE n == v.n
           s == Step("status", n, FALSE)
<1>4. n \in Controls /\ AtRest /\ \A m : ~Covered(m)
  <2>1. \A S : ~Has(todo, S) BY HasNone DEF Answer, AtRest
  <2> QED BY <1>1, <2>1 DEF Types, Answer, Covered
<1>5. UNCHANGED <<controls, value, status>> BY DEF Answer
<1>6. own'[n] = FALSE /\ failed'[n] = (v.seen \in RejectsLater[n])
      /\ \A m \in Controls \ {n} : own'[m] = own[m] /\ failed'[m] = failed[m] /\ sub'[m] = sub[m]
  BY <1>1, <1>3, <1>4 DEF Types, TypeOK
<1>7. SubscribedFirst'
  <2>1. s \in Item BY <1>4, NoticeIs
  <2>2. s \notin Subscribes BY DEF Subscribes, Step
  <2>3. todo' = <<s>> BY <1>3
  <2> HIDE DEF s
  <2> QED BY <2>1, <2>2, <2>3, HasOne, NoSubscribes
<1>8. \A m \in Controls : Awaits(m) /\ Judged(m) /\ Able(m) /\ Stated(m)
  BY <1>1, <1>4, RestFollows DEF VerdictInv
<1>9. /\ own[n] /\ v.id = sub[n] /\ n \in Async /\ (Enabled(n) => v.seen = value[n])
      /\ \A w \in open' : w.n # n
  <2>1. Awaits(n) /\ ~Covered(n) BY <1>4, <1>8
  <2> QED BY <1>3, <2>1 DEF Awaits
<1>10. Enabled(n) => ~failed[n] /\ value[n] \notin Rejects[n] BY <1>4, <1>8, <1>9 DEF Judged
<1>11. Enabled(n)' <=> Enabled(n) BY <1>5 DEF Enabled
<1> HIDE DEF n, s
<1>12. Awaits(n)' BY <1>6, <1>9 DEF Awaits
<1>13. Judged(n)' BY <1>5, <1>6, <1>9, <1>10, <1>11 DEF Judged
<1>14. Waiting(n)'
  <2>1. CASE Enabled(n)
    <3>1. ~AllControlsDisabled(n) /\ Stated(n) BY <1>4, <1>8, <2>1 DEF Able
    <3>2. status[n] = "PENDING" BY <1>9, <1>10, <2>1, <3>1 DEF Stated, CalculateStatus
    <3> QED BY <1>5, <3>2 DEF Waiting
  <2>2. CASE ~Enabled(n)
    <3>1. AllControlsDisabled(n) BY <1>4, <1>8, <2>2 DEF Able
    <3>2. Kids(n)' = Kids(n) /\ \A c : Enabled(c)' <=> Enabled(c) BY <1>5 DEF Kids, Enabled
    <3>3. AllControlsDisabled(n)' BY <1>11, <3>1, <3>2, AbleStill
    <3>4. CalculateStatus(n, failed[n], own[n])' = "DISABLED" BY <3>3 DEF CalculateStatus
    <3>5. Stated(n)' BY <1>11, <2>2, <3>4 DEF Stated, Enabled
    <3> QED BY <3>5 DEF Waiting
  <2> QED BY <2>1, <2>2
<1>15. ASSUME NEW m \in Controls \ {n} PROVE Awaits(m)' /\ Judged(m)' /\ Waiting(m)'
  <2>1. own'[m] = own[m] /\ failed'[m] = failed[m] /\ sub'[m] = sub[m] BY <1>6
  <2>2. \A x : x.n = m => (x \in open' <=> x \in open) BY <1>3, <1>15 DEF n
  <2>3. Awaits(m) /\ Judged(m) /\ Stated(m) /\ ~Covered(m) BY <1>4, <1>8
  <2>4. Awaits(m)' /\ Judged(m)' BY <1>5, <2>1, <2>2, <2>3, JudgesStill
  <2>5. Kids(m)' = Kids(m) /\ \A c \in Kids(m) : status'[c] = status[c] /\ value'[c] = value[c]
    BY <1>5 DEF Kids
  <2>6. Stated(m)'
    <3>1. Stated(m)' <=> Stated(m) BY <1>5, <2>1, <2>5, Still
    <3> QED BY <2>3, <3>1
  <2> QED BY <2>4, <2>6 DEF Waiting
<1> QED BY <1>2, <1>7, <1>12, <1>13, <1>14, <1>15 DEF VerdictInv


LEMMA VerdictInit ==
    ASSUME Init
    PROVE  VerdictInv
<1>1. FollowInv BY FollowInit
<1>2. todo = <<>> /\ \A S : ~Has(todo, S) BY HasNone DEF Init
<1>3. SubscribedFirst
  <2>1. \A n \in Controls : ~Has(todo, {Step("subscribed", n, TRUE)}) BY <1>2
  <2>2. InOrder(todo, Subscribes, Notices) BY <1>2 DEF InOrder, Has
  <2> QED BY <2>1, <2>2 DEF SubscribedFirst
<1>4. ASSUME NEW n \in Controls PROVE Awaits(n) /\ Judged(n) /\ Waiting(n)
  <2>1. /\ value[n] = Built[n] /\ failed[n] = (Built[n] \in Rejects[n])
        /\ own[n] = (n \in Async /\ CalculateStatus(n, failed[n], FALSE) \in {"VALID", "PENDING"})
        /\ sub[n] = IF own[n] THEN 1 ELSE 0
        /\ open = {[n |-> m, id |-> 1, seen |-> Built[m]] : m \in {x \in Controls : own[x]}}
    BY DEF Init
  <2>2. ASSUME NEW v \in open, v.n = n
        PROVE  own[n] /\ v = [n |-> n, id |-> 1, seen |-> Built[n]]
    <3>1. PICK m \in Controls : own[m] /\ v = [n |-> m, id |-> 1, seen |-> Built[m]] BY <2>1
    <3>2. v.n = m BY <3>1
    <3> QED BY <2>2, <3>1, <3>2
  <2>3. own[n] => [n |-> n, id |-> 1, seen |-> Built[n]] \in open BY <2>1
  <2>4. Awaits(n)
    <3>1. own[n] <=> \E v \in open : v.n = n
      <4>1. own[n] \in BOOLEAN BY <1>1 DEF FollowInv, Types, TypeOK
      <4> QED BY <2>2, <2>3, <4>1
    <3>2. ASSUME NEW v \in open, v.n = n
          PROVE  /\ v.id = sub[n] /\ n \in Async
                 /\ Enabled(n) => v.seen = value[n] \/ Covered(n)
      <4>1. own[n] /\ v.id = 1 /\ v.seen = Built[n] BY <2>2, <3>2
      <4> QED BY <2>1, <4>1
    <3>3. \A v, w \in open : v.n = n /\ w.n = n => v = w BY <2>2
    <3> QED BY <3>1, <3>2, <3>3 DEF Awaits
  <2>5. AtRest BY <1>2 DEF AtRest
  <2>6. Able(n) /\ Stated(n) BY <1>1, <2>5, RestFollows
  <2>7. Judged(n)
    <3>1. own[n] => ~failed[n] BY <2>1 DEF CalculateStatus
    <3>2. ASSUME Enabled(n), ~failed[n], ~own[n], n \in Async PROVE status[n] = "INVALID"
      <4>1. CalculateStatus(n, failed[n], own[n]) = CalculateStatus(n, failed[n], FALSE)
        BY <3>2 DEF CalculateStatus
      <4>2. ~AllControlsDisabled(n) BY <2>6, <3>2 DEF Able
      <4>3. CalculateStatus(n, failed[n], FALSE) = "INVALID" BY <2>1, <3>2, <4>2, StatusIs
      <4> QED BY <2>6, <4>1, <4>3 DEF Stated
    <3> QED BY <2>1, <3>1, <3>2 DEF Judged
  <2> QED BY <2>4, <2>6, <2>7 DEF Waiting
<1> QED BY <1>1, <1>3, <1>4 DEF VerdictInv

LEMMA VerdictStep ==
    ASSUME VerdictInv, [Next]_vars, Gaps = {}
    PROVE  VerdictInv'
<1>1. CASE UNCHANGED vars
  <2>1. FollowInv /\ SubscribedFirst /\ \A m \in Controls : Awaits(m) /\ Judged(m) /\ Waiting(m)
    BY DEF VerdictInv
  <2>2. FollowInv' BY <1>1, <2>1, FollowStep
  <2>3. /\ UNCHANGED <<controls, value, status, failed, own, open, sub, todo>>
    BY <1>1 DEF vars
  <2>4. SubscribedFirst' BY <2>1, <2>3 DEF SubscribedFirst
  <2>5. ASSUME NEW m \in Controls PROVE Awaits(m)' /\ Judged(m)' /\ Waiting(m)'
    <3>1. Awaits(m) /\ Judged(m) /\ Waiting(m) BY <2>1
    <3>2. (Covered(m)' <=> Covered(m)) /\ (Enabled(m)' <=> Enabled(m)) /\ Kids(m)' = Kids(m)
      BY <2>3 DEF Covered, Enabled, Kids
    <3>3. \A v : v.n = m => (v \in open' <=> v \in open) BY <2>3
    <3>4. Awaits(m)' /\ Judged(m)' BY <2>3, <3>1, <3>2, <3>3, JudgesStill
    <3>5. EnabledKids(m)' = EnabledKids(m) /\ (Stated(m)' <=> Stated(m))
      BY <2>3, <3>2, Still
    <3>6. Disabling(m)' <=> Disabling(m) BY <2>3, <3>2, <3>5 DEF Disabling
    <3> QED BY <2>3, <3>1, <3>2, <3>4, <3>5, <3>6 DEF Waiting
  <2> QED BY <2>2, <2>4, <2>5 DEF VerdictInv
<1>2. CASE Next
  BY <1>2, Proceeding, UpdateVerdicts, QuietVerdicts, StatusVerdicts, DescentVerdicts,
     RevalueVerdicts, ApplicationVerdicts, AnswerVerdicts
<1> QED BY <1>1, <1>2

LEMMA VerdictsHold ==
    ASSUME Gaps = {}
    PROVE  Spec => []VerdictInv
<1>1. Init => VerdictInv BY VerdictInit
<1>2. VerdictInv /\ [Next]_vars => VerdictInv' BY VerdictStep
<1> QED BY <1>1, <1>2, PTL DEF Spec

\* At rest an enabled control that has its verdict has it on its present value,
\* whatever tree, validators, calls and answers there are, if subscribers call
\* neither in the middle of disable() nor while a validator that answers before
\* subscribe() returns is setting its errors (abstract_model.ts:1051).
THEOREM VerdictsAreCurrent ==
    ASSUME Gaps = {}
    PROVE  Spec => []VerdictIsCurrent
<1>1. VerdictInv => VerdictIsCurrent
  <2> SUFFICES ASSUME VerdictInv, AtRest, NEW n \in Controls, Enabled(n)
               PROVE  LET now == value[n] \in Rejects[n]
                          later == n \in Async /\ value[n] \in RejectsLater[n]
                      IN /\ now => failed[n]
                         /\ failed[n] => now \/ later
                         /\ status[n] = "VALID" => ~later
    BY DEF VerdictIsCurrent
  <2>1. Judged(n) /\ ~Covered(n) BY HasNone DEF VerdictInv, AtRest, Covered
  <2>2. Able(n) /\ Stated(n) BY RestFollows DEF VerdictInv
  <2>3. status[n] = "VALID" => ~failed[n] /\ ~own[n]
    BY <2>2 DEF Able, Stated, CalculateStatus
  <2> QED BY <2>1, <2>3 DEF Judged
<1> QED BY <1>1, VerdictsHold, PTL

\* At rest an enabled control awaits one answer at most, on its present value,
\* and can cancel it, under the same condition: a late answer never overtakes
\* a newer value (abstract_model.ts:1104).
THEOREM AnswersAreAwaited ==
    ASSUME Gaps = {}
    PROVE  Spec => []AnswerIsAwaited
<1>1. VerdictInv => AnswerIsAwaited
  <2> SUFFICES ASSUME VerdictInv, AtRest, NEW n \in Controls, Enabled(n)
               PROVE  LET mine == {v \in open : v.n = n}
                      IN /\ own[n] <=> mine # {}
                         /\ \A v \in mine : v.id = sub[n] /\ v.seen = value[n]
    BY DEF AnswerIsAwaited
  <2>1. Awaits(n) /\ ~Covered(n) BY HasNone DEF VerdictInv, AtRest, Covered
  <2> QED BY <2>1 DEF Awaits
<1> QED BY <1>1, VerdictsHold, PTL
=============================================================================
