---------------------------- MODULE NgZoneProof ----------------------------
\* Proofs that NgZone and the scheduling of change detection on it keep what the
\* runs check, for every choice of modes, bounds and tasks. Three inductive
\* invariants, each on top of the one before:
\*   Coherent  the stack has the shape the code gives it, _nesting and the count
\*             of microtasks are what stack and queue say, there is one pending
\*             task at most, a coalesced check runs in an animation frame. It
\*             holds whatever the application does;
\*   Settled   a change is in code that still runs, or its check is on its way:
\*             it needs that no subscriber of onStable dispatches an event under
\*             event coalescing (the gap "onStable": such an event asks for its
\*             frame inside checkStable, which then sets isStable all the same);
\*   Quiet     the application is not announced stable while the zone has work:
\*             it needs an application with none of the Gaps.
EXTENDS NgZone, SequenceTheorems, FiniteSetTheorems, TLAPS

-----------------------------------------------------------------------------
\* The stack of frames and the queue of microtasks, as sequences: what pushing a
\* frame, taking the top one off or queueing a microtask does to the frames a
\* stack holds, to the numbers the zone keeps (_nesting and the microtasks that
\* are not done) and to the shape that every stack of the program has. Everything
\* in this section is about constant expressions.

\* The frames that onEnter has counted in _nesting and onLeave has not yet
\* taken out (checkStable counts itself too while it emits onMicrotaskEmpty).
Zoney == ZoneCode \cup {"emptied"}

\* What is run in the emission of onMicrotaskEmpty and onStable.
Emissions == {"tick", "emptied", "stable"}

\* The stack s with x on top, which frames it holds, and where.
Push(x, s) == <<x>> \o s
Has(s, f) == \E i \in 1..Len(s) : s[i] = f
Places(s, T) == {i \in 1..Len(s) : s[i] \in T}

\* What _nesting, and the microtasks that run or wait, must be for a stack
\* and a queue.
Nest(s) == Cardinality(Places(s, Zoney))
Dones(s) == Cardinality(Places(s, {"microDone"}))
Waiting(q) == Cardinality(Places(q, {"zone"}))

\* x may be somewhere above y: onMicrotaskEmpty and onStable are emitted out of
\* all code of the zone, and never on top of a microtask that has not been
\* counted off; the microtask queue is not drained within itself.
Fits(x, y) ==
  /\ x \in {"emptied", "stable"} => y \notin Zoney
  /\ x = "tick" => y \notin ZoneCode
  /\ x = "drain" => y # "drain"
  /\ x \in {"drain", "told"} => y # "told"
  /\ x \in Emissions => y # "microDone"

\* What lies right under s[i]: the tick of checkStable is inside the emission,
\* a microtask and the removal of the task belong to a drain, and a timer or an
\* animation frame is a task of its own, with only the drain after it.
Rests(s, i) ==
  /\ i < Len(s) /\ s[i + 1] = "emptied" => s[i] = "tick"
  /\ s[i] \in {"microDone", "told"} => i < Len(s) /\ s[i + 1] = "drain"
  /\ s[i] \in {"frame", "timerDone"} => i + 1 = Len(s) /\ s[i + 1] = "drain"
  /\ s[i] = "script" => i = Len(s)

\* The shape of every stack of the program.
Shape(s) ==
  /\ \A i, j \in 1..Len(s) : i < j => Fits(s[i], s[j])
  /\ \A i \in 1..Len(s) : Rests(s, i)

\* No code of the zone waits under a drain; and some code of the zone, or its
\* onStable, is running now, over no drain.
Calm(s) == \A i, j \in 1..Len(s) : i < j /\ s[i] = "drain" => s[j] \notin Zoney
Busy(s) ==
  \E i \in 1..Len(s) : s[i] \in Zoney \cup {"stable"} /\ \A j \in 1..i : s[j] # "drain"

-----------------------------------------------------------------------------
\* A push, item by item.
LEMMA PushIs ==
    ASSUME NEW S, NEW s \in Seq(S), NEW x \in S
    PROVE  /\ Push(x, s) \in Seq(S) /\ Len(s) \in Nat /\ Len(Push(x, s)) = Len(s) + 1
           /\ Push(x, s)[1] = x
           /\ \A i \in 1..Len(s) : Push(x, s)[i + 1] = s[i]
           /\ Push(x, s) # <<>> /\ Head(Push(x, s)) = x /\ Tail(Push(x, s)) = s
<1> DEFINE t == Push(x, s)
<1>1. Len(s) \in Nat /\ s \in [1..Len(s) -> S] /\ s = [i \in 1..Len(s) |-> s[i]]
  BY LenProperties
<1>2. <<x>> \in Seq(S) /\ Len(<<x>>) = 1 /\ <<x>>[1] = x OBVIOUS
<1>3. /\ t \in Seq(S) /\ Len(t) = Len(s) + 1
      /\ \A i \in 1..(1 + Len(s)) : t[i] = IF i <= 1 THEN <<x>>[i] ELSE s[i - 1]
  BY <1>2, <1>1, ConcatProperties DEF Push
<1>4. t[1] = x BY <1>3, <1>2, <1>1
<1> HIDE DEF t
<1>5. ASSUME NEW i \in 1..Len(s) PROVE t[i + 1] = s[i]
  <2>1. i \in Nat /\ i + 1 \in 1..(1 + Len(s)) /\ ~(i + 1 <= 1) /\ (i + 1) - 1 = i
    BY <1>1
  <2> QED BY <1>3, <2>1
<1>6. t # <<>> BY <1>3, <1>1
<1>7. Head(t) = x BY <1>4, <1>6
<1>8. Tail(t) = s
  <2>1. Tail(t) \in Seq(S) /\ Len(Tail(t)) = Len(s)
        /\ \A i \in 1..Len(Tail(t)) : Tail(t)[i] = t[i + 1]
    BY <1>3, <1>6, <1>1, HeadTailProperties
  <2> QED BY <2>1, <1>5, SeqEqual
<1> QED BY <1>1, <1>3, <1>4, <1>5, <1>6, <1>7, <1>8 DEF t

\* A stack that is not empty is its top pushed on the rest.
LEMMA SplitTop ==
    ASSUME NEW S, NEW s \in Seq(S), s # <<>>
    PROVE  Head(s) \in S /\ Tail(s) \in Seq(S) /\ s = Push(Head(s), Tail(s))
<1>1. Head(s) \in S /\ Tail(s) \in Seq(S) /\ Len(Tail(s)) = Len(s) - 1
      /\ \A i \in 1..Len(Tail(s)) : Tail(s)[i] = s[i + 1]
  BY HeadTailProperties
<1>2. Len(s) \in Nat \ {0} BY EmptySeq
<1>3. /\ Push(Head(s), Tail(s)) \in Seq(S) /\ Len(Push(Head(s), Tail(s))) = Len(s)
      /\ Push(Head(s), Tail(s))[1] = Head(s)
      /\ \A i \in 1..Len(Tail(s)) : Push(Head(s), Tail(s))[i + 1] = Tail(s)[i]
  <2> DEFINE x == Head(s)
             r == Tail(s)
  <2>1. r \in Seq(S) /\ x \in S BY <1>1
  <2> HIDE DEF x, r
  <2>2. /\ Push(x, r) \in Seq(S) /\ Len(Push(x, r)) = Len(r) + 1 /\ Push(x, r)[1] = x
        /\ \A i \in 1..Len(r) : Push(x, r)[i + 1] = r[i]
    BY <2>1, PushIs
  <2> QED BY <2>2, <1>1, <1>2 DEF x, r
<1>4. s[1] = Head(s) BY <1>2
<1>5. ASSUME NEW i \in 1..Len(s) PROVE s[i] = Push(Head(s), Tail(s))[i]
  <2>1. CASE i = 1 BY <2>1, <1>3, <1>4
  <2>2. CASE i # 1
    <3>1. i - 1 \in 1..Len(Tail(s)) /\ (i - 1) + 1 = i BY <2>2, <1>1, <1>2
    <3> QED BY <3>1, <1>1, <1>3
  <2> QED BY <2>1, <2>2
<1>6. s = Push(Head(s), Tail(s))
  <2> DEFINE t == Push(Head(s), Tail(s))
  <2>1. t \in Seq(S) /\ Len(s) = Len(t) /\ \A i \in 1..Len(s) : s[i] = t[i] BY <1>3, <1>5
  <2> HIDE DEF t
  <2>2. s = t BY <2>1, SeqEqual
  <2> QED BY <2>2 DEF t
<1> QED BY <1>1, <1>6

\* The places of some frames are counted by a number.
LEMMA PlacesFinite ==
    ASSUME NEW S, NEW s \in Seq(S), NEW T
    PROVE  IsFiniteSet(Places(s, T)) /\ Cardinality(Places(s, T)) \in Nat
<1>1. Len(s) \in Nat BY LenProperties
<1>2. IsFiniteSet(1..Len(s)) BY <1>1, FS_Interval
<1>3. Places(s, T) \in SUBSET (1..Len(s)) BY DEF Places
<1> QED BY <1>2, <1>3, FS_Subset, FS_CardinalityType

\* A push adds its own place to the count, and no other.
LEMMA PlacesPush ==
    ASSUME NEW S, NEW s \in Seq(S), NEW x \in S, NEW T
    PROVE  Cardinality(Places(Push(x, s), T)) =
             Cardinality(Places(s, T)) + (IF x \in T THEN 1 ELSE 0)
<1> DEFINE A == Places(s, T)
           B == {i + 1 : i \in A}
           f == [i \in A |-> i + 1]
           t == Push(x, s)
<1>1. IsFiniteSet(A) /\ Cardinality(A) \in Nat BY PlacesFinite
<1>2. /\ Len(s) \in Nat /\ Len(t) = Len(s) + 1 /\ t[1] = x
      /\ \A i \in 1..Len(s) : t[i + 1] = s[i]
  BY PushIs
<1>3. A \subseteq 1..Len(s) BY DEF Places
<1>4. f \in Bijection(A, B)
  <2>1. f \in [A -> B] OBVIOUS
  <2>2. \A i, j \in A : f[i] = f[j] => i = j BY <1>2, <1>3
  <2>3. \A b \in B : \E a \in A : f[a] = b OBVIOUS
  <2> QED BY <2>1, <2>2, <2>3 DEF Bijection, Injection, Surjection, IsInjective
<1>5. ExistsBijection(A, B) BY <1>4 DEF ExistsBijection
<1>6. IsFiniteSet(B) /\ Cardinality(B) = Cardinality(A) BY <1>1, <1>5, FS_Bijection
<1>7. 1 \notin B BY <1>2, <1>3
<1>8. Places(t, T) = B \cup (IF x \in T THEN {1} ELSE {})
  <2>1. ASSUME NEW k \in Places(t, T) PROVE (k = 1 /\ x \in T) \/ k \in B
    <3>1. k \in 1..(Len(s) + 1) /\ t[k] \in T BY <1>2 DEF Places
    <3>2. CASE k = 1 BY <3>1, <3>2, <1>2
    <3>3. CASE k # 1
      <4>1. k - 1 \in 1..Len(s) /\ (k - 1) + 1 = k BY <3>1, <3>3, <1>2
      <4>2. k - 1 \in A BY <4>1, <3>1, <1>2 DEF Places
      <4> QED BY <4>1, <4>2
    <3> QED BY <3>2, <3>3
  <2>2. ASSUME NEW k \in A PROVE k + 1 \in Places(t, T)
    <3>1. k \in 1..Len(s) /\ s[k] \in T BY DEF Places
    <3>2. k + 1 \in 1..Len(t) /\ t[k + 1] = s[k] BY <3>1, <1>2
    <3> QED BY <3>1, <3>2 DEF Places
  <2>3. x \in T => 1 \in Places(t, T) BY <1>2 DEF Places
  <2> HIDE DEF A, t
  <2> QED BY <2>1, <2>2, <2>3
<1> HIDE DEF A, B, t
<1>9. CASE x \in T
  <2>1. Places(t, T) = B \cup {1} BY <1>8, <1>9
  <2>2. Cardinality(B \cup {1}) = Cardinality(B) + 1 BY <1>6, <1>7, FS_AddElement
  <2> QED BY <2>1, <2>2, <1>6, <1>9 DEF A, t
<1>10. CASE x \notin T
  <2>1. Places(t, T) = B BY <1>8, <1>10
  <2> QED BY <2>1, <1>6, <1>1, <1>10 DEF A, t
<1> QED BY <1>9, <1>10

\* A count is zero exactly when no such frame is there.
LEMMA PlacesZero ==
    ASSUME NEW S, NEW s \in Seq(S), NEW T
    PROVE  Cardinality(Places(s, T)) = 0 <=> \A f \in T : ~Has(s, f)
<1>1. IsFiniteSet(Places(s, T)) BY PlacesFinite
<1>2. Cardinality(Places(s, T)) = 0 <=> Places(s, T) = {} BY <1>1, FS_EmptySet
<1>3. Places(s, T) = {} <=> \A f \in T : ~Has(s, f) BY DEF Places, Has
<1> QED BY <1>2, <1>3

\* The same for an item at the end of a queue.
LEMMA PlacesAppend ==
    ASSUME NEW S, NEW s \in Seq(S), NEW x \in S, NEW T
    PROVE  Cardinality(Places(Append(s, x), T)) =
             Cardinality(Places(s, T)) + (IF x \in T THEN 1 ELSE 0)
<1> DEFINE A == Places(s, T)
           t == Append(s, x)
           n == Len(s)
<1>1. IsFiniteSet(A) /\ Cardinality(A) \in Nat BY PlacesFinite
<1>2. /\ n \in Nat /\ Len(t) = n + 1 /\ t[n + 1] = x
      /\ \A i \in 1..n : t[i] = s[i]
  BY LenProperties, AppendProperties
<1>3. n + 1 \notin A BY <1>2 DEF Places
<1> HIDE DEF t
<1>4. CASE x \in T
  <2>1. Places(t, T) = A \cup {n + 1} BY <1>2, <1>4 DEF Places
  <2>2. Cardinality(A \cup {n + 1}) = Cardinality(A) + 1
    <3> HIDE DEF A, n
    <3> QED BY <1>1, <1>3, FS_AddElement
  <2> QED BY <2>1, <2>2, <1>4 DEF t
<1>5. CASE x \notin T
  <2>1. Places(t, T) = A BY <1>2, <1>5 DEF Places
  <2> QED BY <2>1, <1>1, <1>5 DEF t
<1> QED BY <1>4, <1>5

-----------------------------------------------------------------------------
\* The frames of a stack after a push.
LEMMA HasPush ==
    ASSUME NEW S, NEW s \in Seq(S), NEW x \in S, NEW f
    PROVE  Has(Push(x, s), f) <=> f = x \/ Has(s, f)
<1> DEFINE t == Push(x, s)
<1>1. /\ Len(s) \in Nat /\ Len(t) = Len(s) + 1 /\ t[1] = x
      /\ \A i \in 1..Len(s) : t[i + 1] = s[i]
  BY PushIs
<1> HIDE DEF t
<1>2. ASSUME Has(t, f) PROVE f = x \/ Has(s, f)
  <2>1. PICK i \in 1..Len(t) : t[i] = f BY <1>2 DEF Has
  <2>2. CASE i # 1
    <3>1. i - 1 \in 1..Len(s) /\ (i - 1) + 1 = i BY <2>2, <1>1
    <3> QED BY <3>1, <2>1, <1>1 DEF Has
  <2> QED BY <2>1, <2>2, <1>1
<1>3. ASSUME Has(s, f) PROVE Has(t, f)
  <2>1. PICK i \in 1..Len(s) : s[i] = f BY <1>3 DEF Has
  <2>2. i + 1 \in 1..Len(t) /\ t[i + 1] = f BY <2>1, <1>1
  <2> QED BY <2>2 DEF Has
<1>4. Has(t, x)
  <2>1. 1 \in 1..Len(t) BY <1>1
  <2> QED BY <2>1, <1>1 DEF Has
<1> QED BY <1>2, <1>3, <1>4 DEF t

\* The frame on top of a stack is in it.
LEMMA HeadHas == ASSUME NEW S, NEW s \in Seq(S), s # <<>> PROVE Has(s, Head(s))
<1>1. 1 \in 1..Len(s) /\ s[1] = Head(s) BY EmptySeq
<1> QED BY <1>1 DEF Has

\* What may be put on top of s.
Allowed(x, s) ==
  /\ \A f : Has(s, f) => Fits(x, f)
  /\ s # <<>> /\ Head(s) = "emptied" => x = "tick"
  /\ x \in {"microDone", "told"} => s # <<>> /\ Head(s) = "drain"
  /\ x \in {"frame", "timerDone"} => s # <<>> /\ Head(s) = "drain" /\ Len(s) = 1
  /\ x = "script" => s = <<>>

\* A push keeps the shape exactly when the frame is allowed on the stack.
LEMMA ShapePush ==
    ASSUME NEW s \in Seq(Frame), NEW x \in Frame
    PROVE  Shape(Push(x, s)) <=> Shape(s) /\ Allowed(x, s)
<1> DEFINE t == Push(x, s)
<1>1. /\ Len(s) \in Nat /\ Len(t) = Len(s) + 1 /\ t[1] = x
      /\ \A i \in 1..Len(s) : t[i + 1] = s[i]
  BY PushIs
<1>2. \A i \in 1..Len(s) : i + 1 \in 1..Len(t) /\ i + 1 > 1 BY <1>1
<1>3. s = <<>> <=> Len(s) = 0 BY EmptySeq, <1>1
<1>4. s # <<>> => 1 \in 1..Len(s) /\ Head(s) = s[1] BY <1>3, <1>1
<1> HIDE DEF t
<1>5. \A k \in 1..Len(t) : k = 1 \/ (k - 1 \in 1..Len(s) /\ t[k] = s[k - 1])
  <2> TAKE k \in 1..Len(t)
  <2> SUFFICES ASSUME k # 1 PROVE k - 1 \in 1..Len(s) /\ t[k] = s[k - 1] OBVIOUS
  <2>1. k - 1 \in 1..Len(s) /\ (k - 1) + 1 = k BY <1>1
  <2> QED BY <2>1, <1>1
<1>6. \A i \in 1..Len(s) : Rests(t, i + 1) <=> Rests(s, i)
  <2>1. ASSUME NEW i \in 1..Len(s), NEW k \in Int, k = i + 1
        PROVE  Rests(t, k) <=> Rests(s, i)
    <3>1. /\ t[k] = s[i] /\ (k < Len(t) <=> i < Len(s)) /\ (k = Len(t) <=> i = Len(s))
          /\ (k + 1 = Len(t) <=> i + 1 = Len(s))
      BY <2>1, <1>1
    <3>2. i < Len(s) => t[k + 1] = s[i + 1]
      <4>1. i < Len(s) => k \in 1..Len(s) BY <2>1, <1>1
      <4> QED BY <4>1, <1>1, <2>1
    <3>3. i + 1 = Len(s) => i < Len(s) BY <1>1
    <3>4. (i < Len(s) => t[k + 1] = s[i + 1]) /\ (i + 1 = Len(s) => t[k + 1] = s[i + 1])
      BY <3>2, <3>3
    <3> QED BY <3>1, <3>3, <3>4 DEF Rests
  <2> QED BY <2>1
<1>7. Rests(t, 1) <=> /\ s # <<>> /\ Head(s) = "emptied" => x = "tick"
                      /\ x \in {"microDone", "told"} => s # <<>> /\ Head(s) = "drain"
                      /\ x \in {"frame", "timerDone"} =>
                           s # <<>> /\ Head(s) = "drain" /\ Len(s) = 1
                      /\ x = "script" => s = <<>>
  <2>1. /\ 1 < Len(t) <=> s # <<>>
        /\ 1 + 1 = Len(t) <=> Len(s) = 1
        /\ 1 = Len(t) <=> s = <<>>
    <3> DEFINE n == Len(s)
               m == Len(t)
    <3>1. n \in Nat /\ m = n + 1 /\ (s = <<>> <=> n = 0) BY <1>1, <1>3
    <3> HIDE DEF n, m
    <3>2. (1 < m <=> n # 0) /\ (1 + 1 = m <=> n = 1) /\ (1 = m <=> n = 0) BY <3>1
    <3>3. (1 < m <=> s # <<>>) /\ (1 + 1 = m <=> n = 1) /\ (1 = m <=> s = <<>>) BY <3>1, <3>2
    <3> QED BY <3>3 DEF n, m
  <2>2. s # <<>> => t[1 + 1] = Head(s) BY <1>1, <1>4
  <2>3. Len(s) = 1 => s # <<>> BY <1>3
  <2> QED BY <2>1, <2>2, <2>3, <1>1 DEF Rests
<1>8. (\A i, j \in 1..Len(t) : i < j => Fits(t[i], t[j])) <=>
        /\ \A i, j \in 1..Len(s) : i < j => Fits(s[i], s[j])
        /\ \A f : Has(s, f) => Fits(x, f)
  <2>1. ASSUME \A i, j \in 1..Len(t) : i < j => Fits(t[i], t[j])
        PROVE  /\ \A i, j \in 1..Len(s) : i < j => Fits(s[i], s[j])
               /\ \A f : Has(s, f) => Fits(x, f)
    <3>1. ASSUME NEW i \in 1..Len(s), NEW j \in 1..Len(s), i < j PROVE Fits(s[i], s[j])
      <4>1. i + 1 \in 1..Len(t) /\ j + 1 \in 1..Len(t) /\ i + 1 < j + 1 BY <3>1, <1>1
      <4>2. Fits(t[i + 1], t[j + 1]) BY <4>1, <2>1
      <4> QED BY <4>2, <1>1
    <3>2. ASSUME NEW f, Has(s, f) PROVE Fits(x, f)
      <4>1. PICK j \in 1..Len(s) : s[j] = f BY <3>2 DEF Has
      <4>2. 1 \in 1..Len(t) /\ j + 1 \in 1..Len(t) /\ 1 < j + 1 BY <1>1
      <4>3. Fits(t[1], t[j + 1]) BY <4>2, <2>1
      <4> QED BY <4>3, <4>1, <1>1
    <3> QED BY <3>1, <3>2
  <2>2. ASSUME /\ \A i, j \in 1..Len(s) : i < j => Fits(s[i], s[j])
               /\ \A f : Has(s, f) => Fits(x, f),
               NEW i \in 1..Len(t), NEW j \in 1..Len(t), i < j
        PROVE  Fits(t[i], t[j])
    <3>1. j - 1 \in 1..Len(s) /\ t[j] = s[j - 1] BY <2>2, <1>5, <1>1
    <3>2. CASE i = 1
      <4>1. Has(s, t[j]) BY <3>1 DEF Has
      <4> QED BY <4>1, <2>2, <3>2, <1>1
    <3>3. CASE i # 1
      <4>1. i - 1 \in 1..Len(s) /\ t[i] = s[i - 1] BY <3>3, <1>5
      <4>2. i - 1 < j - 1 BY <2>2, <1>1
      <4> QED BY <4>1, <4>2, <3>1, <2>2
    <3> QED BY <3>2, <3>3
  <2> QED BY <2>1, <2>2
<1>9. (\A i \in 1..Len(t) : Rests(t, i)) <=> Rests(t, 1) /\ \A i \in 1..Len(s) : Rests(s, i)
  <2>1. ASSUME \A i \in 1..Len(t) : Rests(t, i) PROVE Rests(t, 1)
    <3>1. 1 \in 1..Len(t) BY <1>1
    <3> QED BY <2>1, <3>1
  <2>2. ASSUME \A i \in 1..Len(t) : Rests(t, i), NEW i \in 1..Len(s) PROVE Rests(s, i)
    BY <2>2, <1>2, <1>6
  <2>3. ASSUME Rests(t, 1), \A i \in 1..Len(s) : Rests(s, i), NEW k \in 1..Len(t)
        PROVE  Rests(t, k)
    <3>1. CASE k # 1
      <4>1. k - 1 \in 1..Len(s) /\ (k - 1) + 1 = k BY <3>1, <1>5, <1>1
      <4> QED BY <4>1, <2>3, <1>6
    <3> QED BY <3>1, <2>3
  <2> QED BY <2>1, <2>2, <2>3
<1> QED BY <1>7, <1>8, <1>9 DEF Shape, Allowed, t

\* A push keeps a stack calm unless it is a drain over code of the zone.
LEMMA CalmPush ==
    ASSUME NEW s \in Seq(Frame), NEW x \in Frame
    PROVE  Calm(Push(x, s)) <=> Calm(s) /\ (x = "drain" => \A f \in Zoney : ~Has(s, f))
<1> DEFINE t == Push(x, s)
<1>1. /\ Len(s) \in Nat /\ Len(t) = Len(s) + 1 /\ t[1] = x
      /\ \A i \in 1..Len(s) : t[i + 1] = s[i]
  BY PushIs
<1> HIDE DEF t
<1>5. \A k \in 1..Len(t) : k = 1 \/ (k - 1 \in 1..Len(s) /\ t[k] = s[k - 1])
  <2> TAKE k \in 1..Len(t)
  <2> SUFFICES ASSUME k # 1 PROVE k - 1 \in 1..Len(s) /\ t[k] = s[k - 1] OBVIOUS
  <2>1. k - 1 \in 1..Len(s) /\ (k - 1) + 1 = k BY <1>1
  <2> QED BY <2>1, <1>1
<1>2. ASSUME Calm(t), NEW i \in 1..Len(s), NEW j \in 1..Len(s), i < j, s[i] = "drain"
      PROVE  s[j] \notin Zoney
  <2>1. i + 1 \in 1..Len(t) /\ j + 1 \in 1..Len(t) /\ i + 1 < j + 1 BY <1>2, <1>1
  <2> QED BY <2>1, <1>2, <1>1 DEF Calm
<1>3. ASSUME Calm(t), x = "drain", NEW f \in Zoney, Has(s, f) PROVE FALSE
  <2>1. PICK j \in 1..Len(s) : s[j] = f BY <1>3 DEF Has
  <2>2. 1 \in 1..Len(t) /\ j + 1 \in 1..Len(t) /\ 1 < j + 1 BY <1>1
  <2> QED BY <2>1, <2>2, <1>3, <1>1 DEF Calm
<1>4. ASSUME Calm(s), x = "drain" => \A f \in Zoney : ~Has(s, f),
             NEW i \in 1..Len(t), NEW j \in 1..Len(t), i < j, t[i] = "drain"
      PROVE  t[j] \notin Zoney
  <2>1. j - 1 \in 1..Len(s) /\ t[j] = s[j - 1] BY <1>4, <1>5, <1>1
  <2>2. CASE i = 1 BY <2>1, <2>2, <1>4, <1>1 DEF Has
  <2>3. CASE i # 1
    <3>1. i - 1 \in 1..Len(s) /\ t[i] = s[i - 1] BY <2>3, <1>5
    <3>2. i - 1 < j - 1 BY <1>4, <1>1
    <3> QED BY <3>1, <3>2, <2>1, <1>4 DEF Calm
  <2> QED BY <2>2, <2>3
<1> QED BY <1>2, <1>3, <1>4 DEF Calm, t

\* Code of the zone, or onStable, on top makes a stack busy, and a drain makes it not.
LEMMA BusyPush ==
    ASSUME NEW s \in Seq(Frame), NEW x \in Frame
    PROVE  Busy(Push(x, s)) <=> x \in Zoney \cup {"stable"} \/ (x # "drain" /\ Busy(s))
<1> DEFINE t == Push(x, s)
           Z == Zoney \cup {"stable"}
<1>1. /\ Len(s) \in Nat /\ Len(t) = Len(s) + 1 /\ t[1] = x
      /\ \A i \in 1..Len(s) : t[i + 1] = s[i]
  BY PushIs
<1> HIDE DEF t
<1>5. \A k \in 1..Len(t) : k = 1 \/ (k - 1 \in 1..Len(s) /\ t[k] = s[k - 1])
  <2> TAKE k \in 1..Len(t)
  <2> SUFFICES ASSUME k # 1 PROVE k - 1 \in 1..Len(s) /\ t[k] = s[k - 1] OBVIOUS
  <2>1. k - 1 \in 1..Len(s) /\ (k - 1) + 1 = k BY <1>1
  <2> QED BY <2>1, <1>1
<1>6. "drain" \notin Z BY DEF Zoney, ZoneCode
<1> HIDE DEF Z
<1>2. ASSUME Busy(t) PROVE x \in Z \/ (x # "drain" /\ Busy(s))
  <2>1. PICK i \in 1..Len(t) : t[i] \in Z /\ \A j \in 1..i : t[j] # "drain"
    BY <1>2 DEF Busy, Z
  <2>2. CASE i = 1 BY <2>1, <2>2, <1>1
  <2>3. CASE i # 1
    <3>1. i - 1 \in 1..Len(s) /\ t[i] = s[i - 1] BY <2>3, <1>5
    <3>2. 1 \in 1..i BY <1>1
    <3>3. ASSUME NEW j \in 1..(i - 1) PROVE s[j] # "drain"
      <4>1. j + 1 \in 1..i /\ j \in 1..Len(s) BY <3>1, <1>1
      <4> QED BY <4>1, <2>1, <1>1
    <3>4. Busy(s) BY <3>1, <3>3, <2>1 DEF Busy, Z
    <3> QED BY <3>4, <3>2, <2>1, <1>1
  <2> QED BY <2>2, <2>3
<1>3. ASSUME x \in Z PROVE Busy(t)
  <2>1. 1 \in 1..Len(t) /\ t[1] \in Z BY <1>1, <1>3
  <2>2. \A j \in 1..1 : t[j] # "drain" BY <1>1, <1>3, <1>6
  <2> QED BY <2>1, <2>2 DEF Busy, Z
<1>4. ASSUME x # "drain", Busy(s) PROVE Busy(t)
  <2>1. PICK i \in 1..Len(s) : s[i] \in Z /\ \A j \in 1..i : s[j] # "drain"
    BY <1>4 DEF Busy, Z
  <2>2. i + 1 \in 1..Len(t) /\ t[i + 1] \in Z BY <2>1, <1>1
  <2>3. ASSUME NEW j \in 1..(i + 1) PROVE t[j] # "drain"
    <3>1. CASE j = 1 BY <3>1, <1>1, <1>4
    <3>2. CASE j # 1
      <4>1. j \in 1..Len(t) BY <1>1
      <4>2. j - 1 \in 1..i /\ t[j] = s[j - 1] BY <4>1, <3>2, <1>5, <1>1
      <4> QED BY <4>2, <2>1
    <3> QED BY <3>1, <3>2
  <2> QED BY <2>2, <2>3 DEF Busy, Z
<1> QED BY <1>2, <1>3, <1>4 DEF t, Z

-----------------------------------------------------------------------------
\* The frames that code of this module pushes are frames.
LEMMA FrameFacts ==
    /\ Zoney \subseteq Frame /\ Emissions \subseteq Frame
    /\ "microDone" \in Frame /\ "drain" \in Frame /\ "frame" \in Frame
    /\ "timerDone" \in Frame /\ "script" \in Frame /\ "told" \in Frame
BY DEF Zoney, Emissions, Frame, ZoneCode

\* What the proofs need of a stack: its counts against the frames it holds, and
\* what its shape says of frames that are there together.
Known(s) ==
  /\ Nest(s) \in Nat /\ (Nest(s) = 0 <=> \A f \in Zoney : ~Has(s, f))
  /\ Dones(s) \in Nat /\ (Dones(s) = 0 <=> ~Has(s, "microDone"))
  /\ Shape(s) /\ Has(s, "emptied") => (s # <<>> /\ Head(s) = "emptied") \/ Has(s, "tick")
  /\ Shape(s) /\ Has(s, "microDone") => ~Has(s, "frame")
  /\ Shape(s) /\ Has(s, "told") => Has(s, "drain")
  /\ Calm(s) /\ Nest(s) # 0 => Busy(s)
  /\ Len(s) = 1 => \A f : Has(s, f) => f = Head(s)
  /\ s = <<>> => Shape(s) /\ Calm(s) /\ ~Busy(s) /\ \A f : ~Has(s, f)

LEMMA Knows == ASSUME NEW s \in Seq(Frame) PROVE Known(s)
<1>1. Len(s) \in Nat /\ (s = <<>> <=> Len(s) = 0) BY LenProperties, EmptySeq
<1>2. Nest(s) \in Nat /\ Dones(s) \in Nat BY PlacesFinite DEF Nest, Dones
<1>3. Nest(s) = 0 <=> \A f \in Zoney : ~Has(s, f) BY PlacesZero DEF Nest
<1>4. Dones(s) = 0 <=> ~Has(s, "microDone")
  <2>1. Dones(s) = 0 <=> \A f \in {"microDone"} : ~Has(s, f) BY PlacesZero DEF Dones
  <2> QED BY <2>1
<1>5. ASSUME Shape(s), Has(s, "emptied")
      PROVE  (s # <<>> /\ Head(s) = "emptied") \/ Has(s, "tick")
  <2>1. PICK i \in 1..Len(s) : s[i] = "emptied" BY <1>5 DEF Has
  <2>2. CASE i = 1 BY <2>1, <2>2, <1>1
  <2>3. CASE i # 1
    <3>1. i - 1 \in 1..Len(s) /\ i - 1 < Len(s) /\ (i - 1) + 1 = i BY <2>3, <1>1
    <3>2. s[i - 1] = "tick" BY <3>1, <2>1, <1>5 DEF Shape, Rests
    <3> QED BY <3>1, <3>2 DEF Has
  <2> QED BY <2>2, <2>3
<1>6. ASSUME Shape(s), Has(s, "microDone"), Has(s, "frame") PROVE FALSE
  <2>1. PICK i \in 1..Len(s) : s[i] = "microDone" BY <1>6 DEF Has
  <2>2. PICK j \in 1..Len(s) : s[j] = "frame" BY <1>6 DEF Has
  <2>3. Rests(s, i) /\ Rests(s, j) BY <1>6 DEF Shape
  <2>4. /\ i + 1 \in 1..Len(s) /\ s[i + 1] = "drain"
        /\ j + 1 \in 1..Len(s) /\ j + 1 = Len(s) /\ s[j + 1] = "drain"
    BY <2>1, <2>2, <2>3, <1>1 DEF Rests
  <2>5. i # j BY <2>1, <2>2
  <2>6. i + 1 < j + 1 BY <2>4, <2>5, <1>1
  <2>7. Fits(s[i + 1], s[j + 1]) BY <2>4, <2>6, <1>6 DEF Shape
  <2> QED BY <2>7, <2>4 DEF Fits
<1>7. ASSUME Shape(s), Has(s, "told") PROVE Has(s, "drain")
  <2>1. PICK i \in 1..Len(s) : s[i] = "told" BY <1>7 DEF Has
  <2>2. i < Len(s) /\ s[i + 1] = "drain" BY <2>1, <1>7 DEF Shape, Rests
  <2>3. i + 1 \in 1..Len(s) BY <2>2, <1>1
  <2> QED BY <2>2, <2>3 DEF Has
<1>8. ASSUME Calm(s), Nest(s) # 0 PROVE Busy(s)
  <2>1. PICK f \in Zoney : Has(s, f) BY <1>3, <1>8
  <2>2. PICK i \in 1..Len(s) : s[i] = f BY <2>1 DEF Has
  <2>3. ASSUME NEW j \in 1..i PROVE s[j] # "drain"
    <3>1. CASE j = i BY <3>1, <2>2 DEF Zoney, ZoneCode
    <3>2. CASE j # i
      <4>1. j \in 1..Len(s) /\ j < i BY <3>2, <1>1
      <4> QED BY <4>1, <2>2, <1>8 DEF Calm
    <3> QED BY <3>1, <3>2
  <2> QED BY <2>2, <2>3 DEF Busy
<1>9. Len(s) = 1 => \A f : Has(s, f) => f = Head(s) BY <1>1 DEF Has
<1>10. s = <<>> => Shape(s) /\ Calm(s) /\ ~Busy(s) /\ \A f : ~Has(s, f)
  BY <1>1 DEF Has, Shape, Calm, Busy
<1> QED BY <1>2, <1>3, <1>4, <1>5, <1>6, <1>7, <1>8, <1>9, <1>10 DEF Known

\* The empty stack.
LEMMA NothingThere ==
    /\ <<>> \in Seq(Frame) /\ Shape(<<>>) /\ Calm(<<>>) /\ ~Busy(<<>>)
    /\ Nest(<<>>) = 0 /\ Dones(<<>>) = 0 /\ \A f : ~Has(<<>>, f)
<1>1. <<>> \in Seq(Frame) BY EmptySeq
<1>2. Known(<<>>) BY <1>1, Knows
<1> QED BY <1>1, <1>2 DEF Known

\* What the proofs need of a push.
Pushed(x, s) ==
  /\ Push(x, s) \in Seq(Frame) /\ Push(x, s) # <<>>
  /\ Head(Push(x, s)) = x /\ Tail(Push(x, s)) = s
  /\ \A f : Has(Push(x, s), f) <=> f = x \/ Has(s, f)
  /\ Nest(Push(x, s)) = Nest(s) + (IF x \in Zoney THEN 1 ELSE 0)
  /\ Dones(Push(x, s)) = Dones(s) + (IF x = "microDone" THEN 1 ELSE 0)
  /\ Shape(Push(x, s)) <=> Shape(s) /\ Allowed(x, s)
  /\ Calm(Push(x, s)) <=> Calm(s) /\ (x = "drain" => \A f \in Zoney : ~Has(s, f))
  /\ Busy(Push(x, s)) <=> x \in Zoney \cup {"stable"} \/ (x # "drain" /\ Busy(s))

LEMMA Pushes == ASSUME NEW s \in Seq(Frame), NEW x \in Frame PROVE Pushed(x, s)
<1>1. /\ Push(x, s) \in Seq(Frame) /\ Push(x, s) # <<>>
      /\ Head(Push(x, s)) = x /\ Tail(Push(x, s)) = s
  BY PushIs
<1>2. \A f : Has(Push(x, s), f) <=> f = x \/ Has(s, f) BY HasPush
<1>3. Nest(Push(x, s)) = Nest(s) + (IF x \in Zoney THEN 1 ELSE 0) BY PlacesPush DEF Nest
<1>4. Dones(Push(x, s)) = Dones(s) + (IF x = "microDone" THEN 1 ELSE 0)
  <2>1. Dones(Push(x, s)) = Dones(s) + (IF x \in {"microDone"} THEN 1 ELSE 0)
    BY PlacesPush DEF Dones
  <2> QED BY <2>1
<1> QED BY <1>1, <1>2, <1>3, <1>4, ShapePush, CalmPush, BusyPush DEF Pushed

\* Two frames at once are two pushes.
LEMMA TwoPushes ==
    ASSUME NEW s \in Seq(Frame), NEW x \in Frame, NEW y \in Frame
    PROVE  <<x, y>> \o s = Push(x, Push(y, s))
<1>1. <<x>> \in Seq(Frame) /\ <<y>> \in Seq(Frame) OBVIOUS
<1>2. (<<x>> \o <<y>>) \o s = <<x>> \o (<<y>> \o s) BY <1>1, ConcatAssociative
<1>3. <<x>> \o <<y>> = <<x, y>>
  <2> DEFINE t == <<x>> \o <<y>>
  <2>1. /\ t \in Seq(Frame) /\ Len(t) = 2
        /\ \A i \in 1..2 : t[i] = IF i <= 1 THEN <<x>>[i] ELSE <<y>>[i - 1]
    BY <1>1, ConcatProperties
  <2>2. t[1] = x /\ t[2] = y BY <2>1
  <2>3. /\ <<x, y>> \in Seq(Frame) /\ Len(<<x, y>>) = 2
        /\ \A i \in 1..2 : <<x, y>>[i] = IF i = 1 THEN x ELSE y
    OBVIOUS
  <2> HIDE DEF t
  <2>4. Len(t) = Len(<<x, y>>) /\ \A i \in 1..Len(t) : t[i] = <<x, y>>[i] BY <2>1, <2>2, <2>3
  <2>5. t = <<x, y>> BY <2>1, <2>3, <2>4, SeqEqual
  <2> QED BY <2>5 DEF t
<1> QED BY <1>2, <1>3 DEF Push

\* The microtasks of the zone that are queued.
Queued(q) ==
  /\ Waiting(q) \in Nat
  /\ \A x \in {"zone", "check"} :
       /\ Append(q, x) \in Seq({"zone", "check"})
       /\ Waiting(Append(q, x)) = Waiting(q) + (IF x = "zone" THEN 1 ELSE 0)
  /\ q # <<>> => /\ Head(q) \in {"zone", "check"} /\ Tail(q) \in Seq({"zone", "check"})
                 /\ Waiting(Tail(q)) \in Nat
                 /\ Waiting(q) = Waiting(Tail(q)) + (IF Head(q) = "zone" THEN 1 ELSE 0)
  /\ q = <<>> => Waiting(q) = 0

LEMMA Queues == ASSUME NEW q \in Seq({"zone", "check"}) PROVE Queued(q)
<1> DEFINE M == {"zone", "check"}
<1>1. Waiting(q) \in Nat BY PlacesFinite DEF Waiting
<1>2. ASSUME NEW x \in M
      PROVE  /\ Append(q, x) \in Seq(M)
             /\ Waiting(Append(q, x)) = Waiting(q) + (IF x = "zone" THEN 1 ELSE 0)
  <2>1. Append(q, x) \in Seq(M) BY AppendProperties
  <2>2. Waiting(Append(q, x)) = Waiting(q) + (IF x \in {"zone"} THEN 1 ELSE 0)
    <3> HIDE DEF M
    <3> QED BY PlacesAppend DEF Waiting, M
  <2> QED BY <2>1, <2>2
<1>3. ASSUME q # <<>>
      PROVE  /\ Head(q) \in M /\ Tail(q) \in Seq(M) /\ Waiting(Tail(q)) \in Nat
             /\ Waiting(q) = Waiting(Tail(q)) + (IF Head(q) = "zone" THEN 1 ELSE 0)
  <2>1. Head(q) \in M /\ Tail(q) \in Seq(M) /\ q = Push(Head(q), Tail(q)) BY <1>3, SplitTop
  <2>2. Waiting(Tail(q)) \in Nat BY <2>1, PlacesFinite DEF Waiting
  <2>3. Waiting(Push(Head(q), Tail(q))) =
          Waiting(Tail(q)) + (IF Head(q) \in {"zone"} THEN 1 ELSE 0)
    <3> DEFINE h == Head(q)
               r == Tail(q)
    <3>1. h \in M /\ r \in Seq(M) BY <2>1
    <3> HIDE DEF h, r, M
    <3>2. Waiting(Push(h, r)) = Waiting(r) + (IF h \in {"zone"} THEN 1 ELSE 0)
      BY <3>1, PlacesPush DEF Waiting
    <3> QED BY <3>2 DEF h, r
  <2> QED BY <2>1, <2>2, <2>3
<1>4. q = <<>> => Waiting(q) = 0
  <2>1. q = <<>> => Len(q) = 0 OBVIOUS
  <2>2. Waiting(q) = 0 <=> \A f \in {"zone"} : ~Has(q, f) BY PlacesZero DEF Waiting
  <2> QED BY <2>1, <2>2 DEF Has
<1> QED BY <1>1, <1>2, <1>3, <1>4 DEF Queued

-----------------------------------------------------------------------------
\* The types of the variables, the finer half of TypeOK.
Types ==
  /\ mode \in Modes
  /\ zone \in [nesting : Nat, isStable : BOOLEAN, raf : BOOLEAN, checking : BOOLEAN]
  /\ micro \in Nat /\ macro \in Nat
  /\ tasks \in PendingTasksType
  /\ task \in TaskId \cup {None}
  /\ queue \in Seq({"zone", "check"})
  /\ stack \in Seq(Frame)
  /\ changed \in BOOLEAN /\ silenced \in BOOLEAN
  /\ ops \in 0..MaxOps

\* The values of zone.
ZoneState == [nesting : Nat, isStable : BOOLEAN, raf : BOOLEAN, checking : BOOLEAN]

\* _nesting counts the code in the zone and the microtasks are those that wait or
\* have not been counted off; isStable is set at nesting 0 only, and not while a
\* microtask runs.
Counted(z, m, q, s) ==
  /\ z.nesting = Nest(s)
  /\ m = Waiting(q) + Dones(s)
  /\ z.isStable => z.nesting = 0
  /\ Has(s, "microDone") => ~z.isStable

\* Only the task of ZoneStablePendingTask is pending, and it is gone, with `task`
\* still to be cleared, while the stability it removed is told.
OneTask ==
  /\ tasks.pending \subseteq {task}
  /\ task = None => tasks.pending = {}
  /\ Has(stack, "told") => tasks.pending = {} /\ task # None

\* isCheckStableRunning, and the emissions of run coalescing, are in a frame.
InFrame(z, s) ==
  /\ z.checking <=> Has(s, "frame")
  /\ mode = "runs" /\ (\E f \in Emissions : Has(s, f)) => Has(s, "frame")

\* With run coalescing, a zone that was left with no microtask waiting has been
\* checked or has asked for a frame.
FrameDue(z, q, s) ==
  mode = "runs" /\ ~z.raf /\ z.nesting = 0 /\ Waiting(q) = 0 => z.isStable \/ Has(s, "stable")

\* A timer that runs is still counted.
TimerCounted == Has(stack, "timerDone") => macro > 0

\* The first inductive invariant.
Coherent ==
  /\ Types
  /\ Shape(stack)
  /\ Counted(zone, micro, queue, stack)
  /\ TimerCounted
  /\ OneTask
  /\ InFrame(zone, stack)
  /\ FrameDue(zone, queue, stack)

LEMMA Stacks ==
    ASSUME Types, stack # <<>>
    PROVE  /\ Top \in Frame /\ Below \in Seq(Frame) /\ stack = Push(Top, Below)
           /\ Pushed(Top, Below) /\ Known(Below) /\ Known(stack)
<1>1. stack \in Seq(Frame) BY DEF Types
<1>2. Top \in Frame /\ Below \in Seq(Frame) /\ stack = Push(Top, Below)
  BY <1>1, SplitTop DEF Top, Below
<1> QED BY <1>1, <1>2, Pushes, Knows

LEMMA StackOf == ASSUME Types, Top # "nothing" PROVE stack # <<>>
BY DEF Top

\* checkStable either emits onMicrotaskEmpty, with a tick, or does nothing.
Emits(z, m) == z.nesting = 0 /\ ~HasPendingMicrotasks(z, m) /\ ~z.isStable

LEMMA CheckStableStep ==
    ASSUME NEW z \in ZoneState, NEW m, NEW rest \in Seq(Frame), CheckStable(z, m, rest)
    PROVE  /\ zone' \in ZoneState
           /\ zone'.isStable = z.isStable /\ zone'.raf = z.raf /\ zone'.checking = z.checking
           /\ Emits(z, m) =>
                zone'.nesting = 2 /\ stack' = Push("tick", Push("emptied", rest))
           /\ ~Emits(z, m) => zone'.nesting = z.nesting /\ stack' = rest
           /\ Pushed("emptied", rest) /\ Pushed("tick", Push("emptied", rest))
           /\ Known(rest) /\ Known(Push("emptied", rest))
           /\ Known(Push("tick", Push("emptied", rest)))
           /\ stack' \in Seq(Frame)
<1>1. "tick" \in Frame /\ "emptied" \in Frame BY FrameFacts DEF Emissions
<1>2. <<"tick", "emptied">> \o rest = Push("tick", Push("emptied", rest)) BY <1>1, TwoPushes
<1>3. Pushed("emptied", rest) BY <1>1, Pushes
<1>4. Push("emptied", rest) \in Seq(Frame) BY <1>3 DEF Pushed
<1>5. Pushed("tick", Push("emptied", rest)) BY <1>1, <1>4, Pushes
<1>6. Push("tick", Push("emptied", rest)) \in Seq(Frame) BY <1>5 DEF Pushed
<1>7. Emits(z, m) => /\ zone' = [z EXCEPT !.nesting = 2]
                     /\ stack' = Push("tick", Push("emptied", rest))
  BY <1>2 DEF CheckStable, Emits
<1>8. ~Emits(z, m) => zone' = z /\ stack' = rest BY DEF CheckStable, Emits
<1>9. /\ zone' \in ZoneState
      /\ zone'.isStable = z.isStable /\ zone'.raf = z.raf /\ zone'.checking = z.checking
      /\ Emits(z, m) => zone'.nesting = 2
      /\ ~Emits(z, m) => zone'.nesting = z.nesting
  BY <1>7, <1>8 DEF ZoneState
<1> QED BY <1>3, <1>4, <1>5, <1>6, <1>7, <1>8, <1>9, Knows

LEMMA CheckStableKeeps ==
    ASSUME NEW z \in ZoneState, NEW m, NEW rest \in Seq(Frame), CheckStable(z, m, rest)
    PROVE  \A f : f \notin {"tick", "emptied"} => (Has(stack', f) <=> Has(rest, f))
<1>1. /\ Emits(z, m) => stack' = Push("tick", Push("emptied", rest))
      /\ ~Emits(z, m) => stack' = rest
      /\ Pushed("emptied", rest) /\ Pushed("tick", Push("emptied", rest))
  BY CheckStableStep
<1> QED BY <1>1 DEF Pushed

LEMMA CheckStableCoherent ==
    ASSUME NEW z \in ZoneState, NEW m \in Nat, NEW rest \in Seq(Frame), CheckStable(z, m, rest),
           Types, UNCHANGED <<queue, mode>>,
           Shape(rest), Counted(z, m, queue, rest), InFrame(z, rest),
           mode = "runs" /\ ~z.raf /\ z.nesting = 0 /\ m = 0 =>
             z.isStable \/ Has(rest, "frame"),
           m # 0 => FrameDue(z, queue, rest)
    PROVE  /\ Shape(stack)' /\ Counted(zone, m, queue, stack)'
           /\ InFrame(zone, stack)' /\ FrameDue(zone, queue, stack)'
<1>1. /\ zone'.isStable = z.isStable /\ zone'.raf = z.raf /\ zone'.checking = z.checking
      /\ Emits(z, m) => zone'.nesting = 2 /\ stack' = Push("tick", Push("emptied", rest))
      /\ ~Emits(z, m) => zone'.nesting = z.nesting /\ stack' = rest
      /\ Pushed("emptied", rest) /\ Pushed("tick", Push("emptied", rest))
      /\ Known(rest)
      /\ z.isStable \in BOOLEAN /\ z.raf \in BOOLEAN /\ z.checking \in BOOLEAN
  BY CheckStableStep DEF ZoneState
<1>2. queue \in Seq({"zone", "check"}) /\ Waiting(queue) \in Nat BY Queues DEF Types, Queued
<1>3. ASSUME Emits(z, m)
      PROVE  /\ Nest(rest) = 0 /\ m = 0 /\ Dones(rest) = 0 /\ ~z.raf /\ ~z.isStable
             /\ \A f \in Zoney : ~Has(rest, f)
             /\ ~Has(rest, "microDone")
  BY <1>1, <1>2, <1>3 DEF Emits, HasPendingMicrotasks, Counted, Known
<1>4. Shape(stack')
  <2>1. CASE Emits(z, m)
    <3>1. Allowed("emptied", rest)
      <4>1. \A f : Has(rest, f) => Fits("emptied", f) BY <2>1, <1>3 DEF Fits
      <4>2. rest # <<>> /\ Head(rest) = "emptied" => Has(rest, "emptied")
        <5>1. rest # <<>> => 1 \in 1..Len(rest) /\ rest[1] = Head(rest)
          BY EmptySeq
        <5> QED BY <5>1 DEF Has
      <4>3. rest # <<>> => Head(rest) # "emptied" BY <4>2, <2>1, <1>3 DEF Zoney
      <4> QED BY <4>1, <4>3 DEF Allowed
    <3>2. Allowed("tick", Push("emptied", rest))
      <4>1. ASSUME NEW f, Has(Push("emptied", rest), f) PROVE Fits("tick", f)
        <5>1. f = "emptied" \/ Has(rest, f) BY <4>1, <1>1 DEF Pushed
        <5> QED BY <5>1, <2>1, <1>3 DEF Fits, Zoney, ZoneCode, Emissions
      <4> QED BY <4>1 DEF Allowed
    <3> QED BY <3>1, <3>2, <2>1, <1>1 DEF Pushed
  <2>2. CASE ~Emits(z, m) BY <2>2, <1>1
  <2> QED BY <2>1, <2>2
<1>5. Counted(zone', m, queue', stack')
  <2>1. CASE Emits(z, m)
    <3>1. Nest(stack') = 2
      <4>1. Nest(Push("emptied", rest)) = 1 BY <1>1, <1>3, <2>1 DEF Pushed, Zoney
      <4> QED BY <4>1, <1>1, <2>1 DEF Pushed, Zoney, ZoneCode
    <3>2. Dones(stack') = 0
      <4>1. Dones(Push("emptied", rest)) = 0 BY <1>1, <1>3, <2>1 DEF Pushed
      <4> QED BY <4>1, <1>1, <2>1 DEF Pushed
    <3>3. ~Has(stack', "microDone")
      <4>1. ~Has(Push("emptied", rest), "microDone") BY <1>1, <1>3, <2>1 DEF Pushed
      <4> QED BY <4>1, <1>1, <2>1 DEF Pushed
    <3>4. m = Waiting(queue') + 0 BY <1>2, <1>3, <2>1 DEF Counted
    <3> QED BY <3>1, <3>2, <3>3, <3>4, <2>1, <1>1, <1>3 DEF Counted
  <2>2. CASE ~Emits(z, m) BY <2>2, <1>1 DEF Counted
  <2> QED BY <2>1, <2>2
<1>6. InFrame(zone, stack)'
  <2>1. CASE Emits(z, m)
    <3>1. Has(stack', "frame") <=> Has(rest, "frame") BY <2>1, <1>1 DEF Pushed
    <3>2. mode = "runs" => Has(rest, "frame") BY <2>1, <1>3 DEF Emits
    <3> QED BY <3>1, <3>2, <1>1 DEF InFrame
  <2>2. CASE ~Emits(z, m) BY <2>2, <1>1 DEF InFrame
  <2> QED BY <2>1, <2>2
<1>7. FrameDue(zone, queue, stack)'
  <2>1. CASE Emits(z, m) BY <2>1, <1>1 DEF FrameDue
  <2>2. CASE ~Emits(z, m) /\ m # 0 BY <2>2, <1>1 DEF FrameDue
  <2>3. CASE ~Emits(z, m) /\ m = 0
    <3>1. z.nesting # 0 \/ z.raf \/ z.isStable BY <2>3 DEF Emits, HasPendingMicrotasks
    <3> QED BY <3>1, <2>3, <1>1 DEF FrameDue
  <2> QED BY <2>1, <2>2, <2>3
<1> QED BY <1>4, <1>5, <1>6, <1>7

\* The types of the variables that Enter may set beside the stack.
TaskTypes == tasks \in PendingTasksType /\ task \in TaskId \cup {None}

\* ZoneStablePendingTask and the tasks it keeps, when the zone is entered.
LEMMA EnterTask ==
    ASSUME NEW code, NEW rest, Enter(code, rest), TaskTypes, OneTask,
           Has(stack', "told") => Has(stack, "told")
    PROVE  TaskTypes' /\ OneTask'
<1>1. CASE zone.isStable /\ task = None
  <2>1. tasks.pending = {} BY <1>1 DEF OneTask
  <2>2. \E id \in TaskId : id \notin tasks.pending BY <2>1, NgZoneAssumption
  <2>3. NewTask(tasks) \in TaskId BY <2>2 DEF NewTask
  <2>4. task' = NewTask(tasks) /\ tasks' = [pending |-> {NewTask(tasks)}, has |-> TRUE]
    BY <1>1, <2>1 DEF Enter, Added
  <2>5. NewTask(tasks) # None BY <2>3, NgZoneAssumption
  <2>6. ~Has(stack', "told") BY <1>1 DEF OneTask
  <2> HIDE DEF NewTask
  <2> QED BY <2>3, <2>4, <2>5, <2>6 DEF TaskTypes, OneTask, PendingTasksType
<1>2. CASE ~(zone.isStable /\ task = None)
  BY <1>2 DEF Enter, TaskTypes, OneTask
<1> QED BY <1>1, <1>2

LEMMA EnteredZone ==
    ASSUME NEW z \in ZoneState, NEW y, y = [z EXCEPT !.nesting = @ + 1, !.isStable = FALSE]
    PROVE  /\ y \in ZoneState /\ y.nesting = z.nesting + 1 /\ y.isStable = FALSE
           /\ y.raf = z.raf /\ y.checking = z.checking
<1> DEFINE n == z.nesting + 1
<1>1. n \in Nat BY DEF ZoneState
<1>2. y = [z EXCEPT !.nesting = n, !.isStable = FALSE] OBVIOUS
<1> HIDE DEF n
<1>3. y \in ZoneState /\ y.nesting = n BY <1>1, <1>2 DEF ZoneState
<1>4. y.isStable = FALSE BY <1>2 DEF ZoneState
<1>5. y.raf = z.raf /\ y.checking = z.checking BY <1>2 DEF ZoneState
<1> QED BY <1>3, <1>4, <1>5 DEF n

LEMMA EnterCoherent ==
    ASSUME NEW code \in ZoneCode \ {"tick"}, NEW rest \in Seq(Frame), Enter(code, rest),
           zone \in ZoneState, mode' = mode, queue' \in Seq({"zone", "check"}),
           Shape(rest), rest # <<>> => Head(rest) # "emptied",
           zone.nesting = Nest(rest), micro' = Waiting(queue') + Dones(rest),
           InFrame(zone, rest)
    PROVE  /\ zone' \in ZoneState /\ stack' \in Seq(Frame)
           /\ stack' = Push(code, rest) /\ Pushed(code, rest)
           /\ Known(rest) /\ Known(stack')
           /\ zone'.raf = zone.raf /\ zone'.checking = zone.checking
           /\ zone'.nesting # 0 /\ ~zone'.isStable
           /\ Shape(stack)' /\ Counted(zone, micro, queue, stack)'
           /\ InFrame(zone, stack)' /\ FrameDue(zone, queue, stack)'
<1>1. code \in Frame BY DEF Frame
<1>2. Pushed(code, rest) BY <1>1, Pushes
<1>3. stack' = Push(code, rest) BY DEF Enter, Push
<1>4. stack' \in Seq(Frame) BY <1>2, <1>3 DEF Pushed
<1>5. Known(rest) /\ Known(stack') BY <1>4, Knows
<1>6. /\ zone' \in ZoneState /\ zone'.nesting = zone.nesting + 1 /\ ~zone'.isStable
      /\ zone'.raf = zone.raf /\ zone'.checking = zone.checking
      /\ zone'.nesting # 0 /\ zone.nesting \in Nat
  <2>1. zone' = [zone EXCEPT !.nesting = @ + 1, !.isStable = FALSE] BY DEF Enter
  <2>2. zone.nesting \in Nat BY DEF ZoneState
  <2>3. zone' \in ZoneState /\ zone'.nesting = zone.nesting + 1 /\ zone'.isStable = FALSE
        /\ zone'.raf = zone.raf /\ zone'.checking = zone.checking
    BY <2>1, EnteredZone
  <2> QED BY <2>2, <2>3
<1>7. Shape(stack')
  <2>1. Allowed(code, rest) BY DEF Allowed, Fits, ZoneCode, Emissions
  <2> QED BY <2>1, <1>2, <1>3 DEF Pushed
<1>8. Counted(zone', micro', queue', stack')
  <2>1. Nest(stack') = zone'.nesting BY <1>2, <1>3, <1>6 DEF Pushed, Zoney
  <2>2. code # "microDone" BY DEF ZoneCode
  <2>3. Dones(stack') = Dones(rest) /\ Dones(rest) \in Nat
    BY <2>2, <1>2, <1>3, <1>5 DEF Pushed, Known
  <2> QED BY <2>1, <2>3, <1>6 DEF Counted
<1>9. InFrame(zone, stack)'
  <2>1. code \notin Emissions /\ code # "frame" BY DEF ZoneCode, Emissions
  <2>2. \A f : Has(stack', f) <=> f = code \/ Has(rest, f) BY <1>2, <1>3 DEF Pushed
  <2> QED BY <2>1, <2>2, <1>6 DEF InFrame
<1>10. FrameDue(zone, queue, stack)' BY <1>6 DEF FrameDue
<1> QED BY <1>2, <1>3, <1>4, <1>5, <1>6, <1>7, <1>8, <1>9, <1>10

-----------------------------------------------------------------------------
LEMMA LeaveCoherent == Coherent /\ Leave => Coherent'
<1> SUFFICES ASSUME Coherent, Leave PROVE Coherent' OBVIOUS
<1> USE DEF Coherent
<1>1. Types /\ stack # <<>> /\ Top \in ZoneCode BY StackOf DEF Leave, ZoneCode
<1>2. /\ Top \in Frame /\ Below \in Seq(Frame) /\ stack = Push(Top, Below)
      /\ Pushed(Top, Below) /\ Known(Below) /\ Known(stack)
  BY <1>1, Stacks
<1> DEFINE r == zone.raf \/ (Coalesces(Top) /\ ~zone.checking)
           z == [zone EXCEPT !.nesting = @ - 1, !.raf = r]
<1>3. CheckStable(z, micro, Below) BY DEF Leave
<1>4. /\ zone \in ZoneState /\ r \in BOOLEAN /\ zone.nesting \in Nat /\ micro \in Nat
      /\ queue \in Seq({"zone", "check"}) /\ Waiting(queue) \in Nat
  BY Queues DEF Types, Queued, ZoneState
<1>5. /\ zone.nesting = Nest(Below) + 1 /\ Nest(Below) \in Nat
      /\ micro = Waiting(queue) + Dones(Below)
      /\ Shape(Below)
      /\ \A f : Has(stack, f) <=> f = Top \/ Has(Below, f)
  BY <1>1, <1>2 DEF Counted, Pushed, Known, Zoney, ZoneCode
<1>6. ~zone.isStable /\ zone.isStable \in BOOLEAN BY <1>4, <1>5 DEF Counted, ZoneState
<1> HIDE DEF r
<1>7. /\ z \in ZoneState /\ z.nesting = Nest(Below) /\ ~z.isStable /\ z.raf = r
      /\ z.checking = zone.checking
  <2>1. zone.nesting - 1 = Nest(Below) /\ zone.nesting - 1 \in Nat BY <1>5
  <2>2. /\ z \in ZoneState /\ z.nesting = zone.nesting - 1 /\ z.isStable = zone.isStable
        /\ z.raf = r /\ z.checking = zone.checking
    BY <2>1, <1>4 DEF ZoneState
  <2> QED BY <2>1, <2>2, <1>6
<1> HIDE DEF z
<1>8. Counted(z, micro, queue, Below) BY <1>5, <1>7 DEF Counted
<1>9. InFrame(z, Below)
  <2>1. Top # "frame" BY <1>1 DEF ZoneCode
  <2> QED BY <2>1, <1>5, <1>7 DEF InFrame
<1>10. mode = "runs" /\ ~r => Has(Below, "frame")
  BY <1>9, <1>7 DEF r, Coalesces, InFrame
<1>11. ASSUME micro # 0 PROVE FrameDue(z, queue, Below)
  <2>1. Waiting(queue) = 0 => Has(Below, "microDone") BY <1>11, <1>2, <1>5 DEF Known
  <2> QED BY <2>1, <1>2, <1>5, <1>7, <1>10 DEF Known, FrameDue
<1>12. UNCHANGED <<mode, queue, micro, macro, task, tasks, silenced, ops>> BY DEF Leave
<1>13. /\ Shape(stack)' /\ Counted(zone, micro, queue, stack)'
       /\ InFrame(zone, stack)' /\ FrameDue(zone, queue, stack)'
  BY <1>1, <1>2, <1>3, <1>4, <1>5, <1>7, <1>8, <1>9, <1>10, <1>11, <1>12, CheckStableCoherent
<1>14. zone' \in ZoneState /\ stack' \in Seq(Frame)
  BY <1>2, <1>3, <1>4, <1>7, CheckStableStep
<1>15. Types' BY <1>1, <1>12, <1>14 DEF Types, ZoneState, Leave
<1>16. /\ Has(stack', "timerDone") => Has(Below, "timerDone")
       /\ Has(stack', "told") => Has(Below, "told")
  BY <1>2, <1>3, <1>7, CheckStableKeeps
<1>17. TimerCounted'
  <2>1. Has(stack', "timerDone") => Has(Below, "timerDone") BY <1>16
  <2> QED BY <2>1, <1>5, <1>12 DEF TimerCounted
<1>18. OneTask' BY <1>5, <1>12, <1>16 DEF OneTask
<1> QED BY <1>13, <1>15, <1>17, <1>18

\* What is below the top, in a state of the invariant.
LEMMA Popped ==
    ASSUME Coherent, Top # "nothing"
    PROVE  /\ stack # <<>> /\ Top \in Frame /\ Below \in Seq(Frame) /\ stack = Push(Top, Below)
           /\ Known(Below) /\ Known(stack)
           /\ Shape(Below) /\ Allowed(Top, Below)
           /\ \A f : Has(stack, f) <=> f = Top \/ Has(Below, f)
           /\ Nest(stack) = Nest(Below) + (IF Top \in Zoney THEN 1 ELSE 0)
           /\ Dones(stack) = Dones(Below) + (IF Top = "microDone" THEN 1 ELSE 0)
           /\ Nest(Below) \in Nat /\ Dones(Below) \in Nat /\ Waiting(queue) \in Nat
           /\ Queued(queue)
<1>1. Types /\ stack # <<>> BY StackOf DEF Coherent
<1>2. /\ Top \in Frame /\ Below \in Seq(Frame) /\ stack = Push(Top, Below)
      /\ Pushed(Top, Below) /\ Known(Below) /\ Known(stack)
  BY <1>1, Stacks
<1>3. Queued(queue) BY <1>1, Queues DEF Types
<1> QED BY <1>1, <1>2, <1>3 DEF Coherent, Pushed, Known, Queued

LEMMA LeftZone ==
    ASSUME NEW z \in ZoneState, NEW y, y = [z EXCEPT !.nesting = @ - 1], z.nesting # 0
    PROVE  /\ y \in ZoneState /\ y.nesting = z.nesting - 1 /\ y.isStable = z.isStable
           /\ y.raf = z.raf /\ y.checking = z.checking
<1> DEFINE n == z.nesting - 1
<1>1. n \in Nat BY DEF ZoneState
<1>2. y = [z EXCEPT !.nesting = n] OBVIOUS
<1> HIDE DEF n
<1>3. y \in ZoneState /\ y.nesting = n BY <1>1, <1>2 DEF ZoneState
<1>4. y.isStable = z.isStable BY <1>2 DEF ZoneState
<1>5. y.raf = z.raf /\ y.checking = z.checking BY <1>2 DEF ZoneState
<1> QED BY <1>3, <1>4, <1>5 DEF n

LEMMA EmptiedCoherent == Coherent /\ Emptied => Coherent'
<1> SUFFICES ASSUME Coherent, Emptied PROVE Coherent' OBVIOUS
<1>1. Top = "emptied" BY DEF Emptied
<1>2. /\ stack # <<>> /\ Top \in Frame /\ Below \in Seq(Frame) /\ stack = Push(Top, Below)
      /\ Known(Below) /\ Known(stack)
      /\ Shape(Below) /\ Allowed(Top, Below)
      /\ \A f : Has(stack, f) <=> f = Top \/ Has(Below, f)
      /\ Nest(stack) = Nest(Below) + 1 /\ Dones(stack) = Dones(Below)
      /\ Nest(Below) \in Nat /\ Dones(Below) \in Nat /\ Waiting(queue) \in Nat
      /\ Queued(queue)
  BY <1>1, Popped DEF Zoney
<1>3. zone \in ZoneState /\ zone.nesting = Nest(Below) + 1 /\ ~zone.isStable
      /\ micro = Waiting(queue) + Dones(Below)
  BY <1>2 DEF Coherent, Types, ZoneState, Counted
<1>4. /\ zone' \in ZoneState /\ zone'.nesting = Nest(Below) /\ zone'.isStable = zone.isStable
      /\ zone'.raf = zone.raf /\ zone'.checking = zone.checking
  <2>1. zone' = [zone EXCEPT !.nesting = @ - 1] BY DEF Emptied
  <2>2. zone.nesting # 0 /\ zone.nesting - 1 = Nest(Below) BY <1>2, <1>3
  <2> QED BY <2>1, <2>2, <1>3, LeftZone
<1>5. \A f : Has(Below, f) => f \notin Zoney /\ f # "microDone"
  BY <1>1, <1>2 DEF Allowed, Fits, Emissions
<1>6. Nest(Below) = 0 /\ Dones(Below) = 0 BY <1>2, <1>5 DEF Known
<1>7. CASE HasPendingMicrotasks(zone, micro)
  <2>1. stack' = Below /\ queue' = queue BY <1>7 DEF Emptied
  <2>2. zone.raf \/ Waiting(queue) # 0 BY <1>7, <1>3, <1>6, <1>2 DEF HasPendingMicrotasks
  <2>3. Counted(zone', micro', queue', stack')
    BY <2>1, <1>2, <1>3, <1>4, <1>5, <1>6 DEF Counted, Emptied
  <2>4. InFrame(zone, stack)' BY <2>1, <1>1, <1>2, <1>4 DEF Coherent, InFrame, Emptied
  <2>5. FrameDue(zone, queue, stack)' BY <2>1, <2>2, <1>4 DEF FrameDue
  <2>6. TimerCounted' BY <2>1, <1>2 DEF Coherent, TimerCounted, Emptied
  <2>7. Types' BY <2>1, <1>2, <1>4 DEF Coherent, Types, ZoneState, Emptied
  <2> QED BY <2>1, <2>3, <2>4, <2>5, <2>6, <2>7, <1>2 DEF Coherent, OneTask, Emptied
<1>8. CASE ~HasPendingMicrotasks(zone, micro)
  <2>1. stack' = Push("stable", Below) /\ queue' = Append(queue, "check")
    BY <1>8 DEF Emptied, Push
  <2>2. /\ queue' \in Seq({"zone", "check"}) /\ Waiting(queue') = Waiting(queue)
    BY <2>1, <1>2 DEF Queued
  <2>3. Pushed("stable", Below) BY <1>2, Pushes, FrameFacts DEF Emissions
  <2>4. /\ stack' \in Seq(Frame) /\ Nest(stack') = 0 /\ Dones(stack') = 0
        /\ \A f : Has(stack', f) <=> f = "stable" \/ Has(Below, f)
    BY <2>1, <2>3, <1>6 DEF Pushed, Zoney, ZoneCode
  <2>5. Shape(stack')
    <3>1. Below # <<>> => Has(Below, Head(Below))
      <4>1. Below # <<>> => 1 \in 1..Len(Below) /\ Below[1] = Head(Below) BY <1>2, EmptySeq
      <4> QED BY <4>1 DEF Has
    <3>2. Allowed("stable", Below) BY <3>1, <1>5 DEF Allowed, Fits, Zoney
    <3> QED BY <3>2, <2>1, <2>3, <1>2 DEF Pushed
  <2>6. Counted(zone', micro', queue', stack')
    BY <2>2, <2>4, <1>3, <1>4, <1>5, <1>6 DEF Counted, Emptied
  <2>7. InFrame(zone, stack)'
    BY <2>4, <1>1, <1>2, <1>4 DEF Coherent, InFrame, Emptied, Emissions
  <2>8. FrameDue(zone, queue, stack)' BY <2>4 DEF FrameDue
  <2>9. TimerCounted' BY <2>4, <1>2 DEF Coherent, TimerCounted, Emptied
  <2>10. Types' BY <2>2, <2>4, <1>4 DEF Coherent, Types, ZoneState, Emptied
  <2>11. OneTask' BY <2>4, <1>2 DEF Coherent, OneTask, Emptied
  <2> QED BY <2>5, <2>6, <2>7, <2>8, <2>9, <2>10, <2>11 DEF Coherent
<1> QED BY <1>7, <1>8

LEMMA StableCoherent == Coherent /\ Stable => Coherent'
<1> SUFFICES ASSUME Coherent, Stable PROVE Coherent' OBVIOUS
<1>1. Top = "stable" /\ stack' = Below BY DEF Stable
<1>2. /\ Below \in Seq(Frame) /\ Known(Below) /\ Shape(Below) /\ Allowed(Top, Below)
      /\ \A f : Has(stack, f) <=> f = Top \/ Has(Below, f)
      /\ Nest(stack) = Nest(Below) /\ Dones(stack) = Dones(Below)
      /\ Nest(Below) \in Nat /\ Dones(Below) \in Nat
  BY <1>1, Popped DEF Zoney, ZoneCode
<1>3. \A f : Has(Below, f) => f \notin Zoney /\ f # "microDone"
  BY <1>1, <1>2 DEF Allowed, Fits, Emissions
<1>4. Nest(Below) = 0 BY <1>2, <1>3 DEF Known
<1>5. /\ zone' \in ZoneState /\ zone'.nesting = zone.nesting /\ zone'.isStable
      /\ zone'.checking = zone.checking
  <2>1. zone' = [zone EXCEPT !.isStable = TRUE] BY DEF Stable
  <2>2. zone \in ZoneState BY DEF Coherent, Types, ZoneState
  <2> QED BY <2>1, <2>2 DEF ZoneState
<1>6. Counted(zone', micro', queue', stack')
  BY <1>1, <1>2, <1>3, <1>4, <1>5 DEF Coherent, Counted, Stable
<1>7. InFrame(zone, stack)' BY <1>1, <1>2, <1>5 DEF Coherent, InFrame, Stable
<1>8. FrameDue(zone, queue, stack)' BY <1>5 DEF FrameDue
<1>9. TimerCounted' BY <1>1, <1>2 DEF Coherent, TimerCounted, Stable
<1>10. Types' BY <1>1, <1>2, <1>5 DEF Coherent, Types, ZoneState, Stable
<1> QED BY <1>1, <1>2, <1>6, <1>7, <1>8, <1>9, <1>10 DEF Coherent, OneTask, Stable

\* The end of code outside the zone, of a drain or of a microtask that told.
LEMMA PopCoherent ==
    ASSUME Coherent, Top \in {"script", "drain", "told", "timerDone"}, stack' = Below,
           UNCHANGED <<mode, zone, micro, queue>>,
           Types', OneTask', TimerCounted'
    PROVE  Coherent'
<1>1. Top # "nothing" /\ Top \notin Zoney /\ Top # "microDone" /\ Top \notin Emissions
      /\ Top # "frame"
  BY DEF Zoney, ZoneCode, Emissions
<1>2. /\ Shape(Below) /\ Nest(stack) = Nest(Below) /\ Dones(stack) = Dones(Below)
      /\ Nest(Below) \in Nat /\ Dones(Below) \in Nat
      /\ \A f : Has(stack, f) <=> f = Top \/ Has(Below, f)
  BY <1>1, Popped
<1>3. Counted(zone', micro', queue', stack') BY <1>1, <1>2 DEF Coherent, Counted
<1>4. InFrame(zone, stack)' BY <1>1, <1>2 DEF Coherent, InFrame
<1>5. FrameDue(zone, queue, stack)' BY <1>1, <1>2 DEF Coherent, FrameDue, Emissions
<1> QED BY <1>2, <1>3, <1>4, <1>5 DEF Coherent

LEMMA ToldCoherent == Coherent /\ Told => Coherent'
<1> SUFFICES ASSUME Coherent, Told PROVE Coherent' OBVIOUS
<1>1. Top = "told" /\ stack' = Below BY DEF Told
<1>2. Below \in Seq(Frame) /\ \A f : Has(stack, f) <=> f = Top \/ Has(Below, f)
  BY <1>1, Popped
<1>3. Types' BY <1>1, <1>2 DEF Coherent, Types, Told
<1>4. ~Has(Below, "told") BY <1>1, Popped DEF Allowed, Fits
<1>5. tasks.pending = {} BY <1>1, Popped DEF Coherent, OneTask
<1>6. OneTask' BY <1>1, <1>4, <1>5 DEF OneTask, Told
<1>7. TimerCounted' BY <1>1, <1>2 DEF Coherent, TimerCounted, Told
<1> QED BY <1>1, <1>3, <1>6, <1>7, PopCoherent DEF Told

LEMMA TimerDoneCoherent == Coherent /\ TimerDone => Coherent'
<1> SUFFICES ASSUME Coherent, TimerDone PROVE Coherent' OBVIOUS
<1>1. Top = "timerDone" /\ stack' = Below BY DEF TimerDone
<1>2. /\ Below \in Seq(Frame) /\ Known(Below) /\ Allowed(Top, Below)
      /\ \A f : Has(stack, f) <=> f = Top \/ Has(Below, f)
  BY <1>1, Popped
<1>3. macro > 0 /\ macro \in Nat BY <1>1, <1>2 DEF Coherent, TimerCounted, Types
<1>4. macro' \in Nat BY <1>3 DEF TimerDone
<1>5. Types' BY <1>1, <1>2, <1>4 DEF Coherent, Types, TimerDone
<1>6. ~Has(Below, "timerDone") BY <1>1, <1>2 DEF Allowed, Known
<1>7. TimerCounted' BY <1>1, <1>6 DEF TimerCounted
<1>8. OneTask' BY <1>1, <1>2 DEF Coherent, OneTask, TimerDone
<1> QED BY <1>1, <1>5, <1>7, <1>8, PopCoherent DEF TimerDone

LEMMA FrameEndsCoherent == Coherent /\ FrameEnds => Coherent'
<1> SUFFICES ASSUME Coherent, FrameEnds PROVE Coherent' OBVIOUS
<1>1. Top = "frame" /\ stack' = Below BY DEF FrameEnds
<1>2. /\ Below \in Seq(Frame) /\ Known(Below) /\ Shape(Below) /\ Allowed(Top, Below)
      /\ \A f : Has(stack, f) <=> f = Top \/ Has(Below, f)
      /\ Nest(stack) = Nest(Below) /\ Dones(stack) = Dones(Below)
      /\ Nest(Below) \in Nat /\ Dones(Below) \in Nat
  BY <1>1, Popped DEF Zoney, ZoneCode
<1>3. \A f : Has(Below, f) => f = "drain" BY <1>1, <1>2 DEF Allowed, Known
<1>4. /\ zone' \in ZoneState /\ zone'.nesting = zone.nesting /\ zone'.isStable = zone.isStable
      /\ zone'.raf = zone.raf /\ ~zone'.checking
  <2>1. zone' = [zone EXCEPT !.checking = FALSE] BY DEF FrameEnds
  <2>2. zone \in ZoneState BY DEF Coherent, Types, ZoneState
  <2> QED BY <2>1, <2>2 DEF ZoneState
<1>5. Counted(zone', micro', queue', stack')
  BY <1>1, <1>2, <1>4 DEF Coherent, Counted, FrameEnds
<1>6. InFrame(zone, stack)'
  <2>1. \A f \in Emissions : ~Has(Below, f) BY <1>3 DEF Emissions
  <2>2. ~Has(Below, "frame") BY <1>3
  <2> QED BY <2>1, <2>2, <1>1, <1>4 DEF InFrame
<1>7. FrameDue(zone, queue, stack)'
  <2>1. Has(stack, "stable") <=> Has(Below, "stable") BY <1>1, <1>2
  <2> QED BY <2>1, <1>1, <1>4 DEF Coherent, FrameDue, FrameEnds
<1>8. TimerCounted' BY <1>1, <1>3 DEF TimerCounted
<1>9. Types' BY <1>1, <1>2, <1>4 DEF Coherent, Types, ZoneState, FrameEnds
<1> QED BY <1>1, <1>2, <1>5, <1>6, <1>7, <1>8, <1>9 DEF Coherent, OneTask, FrameEnds

LEMMA MicroDoneCoherent == Coherent /\ MicroDone => Coherent'
<1> SUFFICES ASSUME Coherent, MicroDone PROVE Coherent' OBVIOUS
<1>1. Top = "microDone" BY DEF MicroDone
<1>2. /\ Below \in Seq(Frame) /\ Known(Below) /\ Known(stack) /\ Shape(Below)
      /\ Allowed(Top, Below)
      /\ \A f : Has(stack, f) <=> f = Top \/ Has(Below, f)
      /\ Nest(stack) = Nest(Below) /\ Dones(stack) = Dones(Below) + 1
      /\ Nest(Below) \in Nat /\ Dones(Below) \in Nat /\ Waiting(queue) \in Nat
  BY <1>1, Popped DEF Zoney, ZoneCode
<1>3. zone \in ZoneState BY DEF Coherent, Types, ZoneState
<1>4. micro = Waiting(queue) + Dones(Below) + 1 /\ micro' = Waiting(queue) + Dones(Below)
      /\ micro' \in Nat
  <2>1. micro = Waiting(queue) + (Dones(Below) + 1) BY <1>2 DEF Coherent, Counted
  <2>2. micro' = micro - 1 BY DEF MicroDone
  <2> QED BY <2>1, <2>2, <1>2
<1>5. Counted(zone, micro', queue, Below)
  BY <1>2, <1>4 DEF Coherent, Counted
<1>6. InFrame(zone, Below) BY <1>1, <1>2 DEF Coherent, InFrame
<1>7. FrameDue(zone, queue, Below) BY <1>1, <1>2 DEF Coherent, FrameDue
<1>8. UNCHANGED <<mode, queue, macro, tasks, task, changed, silenced, ops>> BY DEF MicroDone
<1>9. /\ Shape(stack)' /\ Counted(zone, micro, queue, stack)'
      /\ InFrame(zone, stack)' /\ FrameDue(zone, queue, stack)'
      /\ zone' \in ZoneState /\ stack' \in Seq(Frame)
      /\ Has(stack', "timerDone") => Has(Below, "timerDone")
      /\ Has(stack', "told") => Has(Below, "told")
  <2>1. CASE micro = 1
    <3>1. CheckStable(zone, 0, Below) BY <2>1 DEF MicroDone
    <3>2. micro' = 0 /\ Waiting(queue) = 0 /\ 0 \in Nat BY <2>1, <1>2, <1>4
    <3>3. Counted(zone, 0, queue, Below) BY <3>2, <1>5
    <3>4. mode = "runs" /\ ~zone.raf /\ zone.nesting = 0 /\ 0 = 0 =>
            zone.isStable \/ Has(Below, "frame")
      BY <3>2, <1>6, <1>7 DEF FrameDue, InFrame, Emissions
    <3>5. 0 # 0 => FrameDue(zone, queue, Below) BY <1>7
    <3>6. Types /\ UNCHANGED <<queue, mode>> BY <1>8 DEF Coherent
    <3>7. /\ Shape(stack)' /\ Counted(zone', 0, queue', stack')
          /\ InFrame(zone, stack)' /\ FrameDue(zone, queue, stack)'
      BY <3>1, <3>2, <3>3, <3>4, <3>5, <3>6, <1>2, <1>3, <1>6, CheckStableCoherent
    <3>8. /\ zone' \in ZoneState /\ stack' \in Seq(Frame)
          /\ Has(stack', "timerDone") => Has(Below, "timerDone")
          /\ Has(stack', "told") => Has(Below, "told")
      <4>1. zone' \in ZoneState /\ stack' \in Seq(Frame)
        BY <3>1, <1>2, <1>3, CheckStableStep
      <4> QED BY <4>1, <3>1, <1>2, <1>3, CheckStableKeeps
    <3> QED BY <3>2, <3>7, <3>8
  <2>2. CASE micro # 1
    <3>1. stack' = Below /\ zone' = zone BY <2>2 DEF MicroDone
    <3> QED BY <3>1, <1>2, <1>3, <1>5, <1>6, <1>7, <1>8 DEF InFrame, FrameDue
  <2> QED BY <2>1, <2>2
<1>10. TimerCounted'
  <2>1. Has(Below, "timerDone") => macro > 0 BY <1>2 DEF Coherent, TimerCounted
  <2> QED BY <2>1, <1>8, <1>9 DEF TimerCounted
<1>11. Types' BY <1>4, <1>8, <1>9 DEF Coherent, Types, ZoneState
<1>12. OneTask' BY <1>2, <1>8, <1>9 DEF Coherent, OneTask
<1> QED BY <1>8, <1>9, <1>10, <1>11, <1>12 DEF Coherent

\* The check removes the task and tells, or leaves everything but the queue.
LEMMA CheckCoherent ==
    Coherent /\ Top = "drain" /\ queue # <<>> /\ Head(queue) = "check" /\ Check => Coherent'
<1> SUFFICES ASSUME Coherent, Top = "drain", queue # <<>>, Head(queue) = "check", Check
             PROVE  Coherent'
  OBVIOUS
<1>1. /\ queue' = Tail(queue) /\ queue' \in Seq({"zone", "check"})
      /\ Waiting(queue') = Waiting(queue)
  BY Popped DEF Queued, Check
<1>2. UNCHANGED <<mode, zone, micro, macro, task, changed, silenced, ops>> BY DEF Check
<1>3. CASE UNCHANGED <<tasks, stack>>
  <2>1. Types' BY <1>1, <1>2, <1>3 DEF Coherent, Types
  <2>2. Counted(zone', micro', queue', stack') BY <1>1, <1>2, <1>3 DEF Coherent, Counted
  <2>3. FrameDue(zone, queue, stack)' BY <1>1, <1>2, <1>3 DEF Coherent, FrameDue
  <2>4. Shape(stack)' /\ InFrame(zone, stack)' /\ TimerCounted' /\ OneTask'
    BY <1>2, <1>3 DEF Coherent, InFrame, TimerCounted, OneTask
  <2> QED BY <2>1, <2>2, <2>3, <2>4 DEF Coherent
<1>4. CASE task # None /\ tasks' = Removed(tasks, task) /\ stack' = <<"told">> \o stack
  <2>1. stack' = Push("told", stack) /\ stack \in Seq(Frame) BY <1>4 DEF Push, Coherent, Types
  <2>2. Pushed("told", stack) BY <2>1, Pushes, FrameFacts
  <2>3. \A f : Has(stack, f) => f # "told"
    BY Popped DEF Allowed, Fits
  <2>4. stack # <<>> /\ Head(stack) = "drain" BY Popped DEF Top
  <2>5. Allowed("told", stack) BY <2>3, <2>4 DEF Allowed, Fits, Emissions
  <2>6. Shape(stack') BY <2>1, <2>2, <2>5 DEF Coherent, Pushed
  <2>7. /\ stack' \in Seq(Frame) /\ Nest(stack') = Nest(stack) /\ Dones(stack') = Dones(stack)
        /\ \A f : Has(stack', f) <=> f = "told" \/ Has(stack, f)
    <3>1. Nest(stack) \in Nat /\ Dones(stack) \in Nat BY Popped DEF Known
    <3> QED BY <2>1, <2>2, <3>1 DEF Pushed, Zoney, ZoneCode
  <2>8. /\ tasks' \in PendingTasksType /\ tasks'.pending = tasks.pending \ {task}
    <3>1. tasks' = [pending |-> tasks.pending \ {task},
                    has |-> tasks.has /\ tasks.pending \ {task} # {}]
      BY <1>4 DEF Removed
    <3>2. tasks.pending \in SUBSET TaskId BY DEF Coherent, Types, PendingTasksType
    <3> DEFINE h == tasks.has /\ tasks.pending \ {task} # {}
    <3>3. h \in BOOLEAN OBVIOUS
    <3> HIDE DEF h
    <3> QED BY <3>1, <3>2, <3>3 DEF PendingTasksType, h
  <2>9. Types' BY <1>1, <1>2, <2>7, <2>8 DEF Coherent, Types
  <2>10. Counted(zone', micro', queue', stack') BY <1>1, <1>2, <2>7 DEF Coherent, Counted
  <2>11. InFrame(zone, stack)' BY <1>2, <2>7 DEF Coherent, InFrame, Emissions
  <2>12. FrameDue(zone, queue, stack)' BY <1>1, <1>2, <2>7 DEF Coherent, FrameDue
  <2>13. TimerCounted' BY <1>2, <2>7 DEF Coherent, TimerCounted
  <2>14. OneTask' BY <1>2, <1>4, <2>8 DEF Coherent, OneTask
  <2> QED BY <2>6, <2>9, <2>10, <2>11, <2>12, <2>13, <2>14 DEF Coherent
<1> QED BY <1>3, <1>4 DEF Check

\* Code of the zone is entered on rest, which is over the stack.
LEMMA EnterOn ==
    ASSUME Coherent, NEW code \in ZoneCode \ {"tick"}, NEW rest \in Seq(Frame), Enter(code, rest),
           UNCHANGED <<mode, micro, macro>>, queue' \in Seq({"zone", "check"}),
           ops' \in 0..MaxOps,
           Shape(rest), rest # <<>> => Head(rest) # "emptied",
           Nest(rest) = Nest(stack), micro = Waiting(queue') + Dones(rest),
           \A f \in Emissions \cup {"frame", "told"} : Has(rest, f) <=> Has(stack, f),
           Has(rest, "timerDone") => macro > 0
    PROVE  Coherent'
<1>1. zone \in ZoneState BY DEF Coherent, Types, ZoneState
<1>2. InFrame(zone, rest) BY DEF Coherent, InFrame
<1>3. zone.nesting = Nest(rest) /\ micro' = Waiting(queue') + Dones(rest)
  BY DEF Coherent, Counted
<1>4. /\ zone' \in ZoneState /\ stack' \in Seq(Frame)
      /\ stack' = Push(code, rest) /\ Pushed(code, rest)
      /\ Shape(stack)' /\ Counted(zone, micro, queue, stack)'
      /\ InFrame(zone, stack)' /\ FrameDue(zone, queue, stack)'
  BY <1>1, <1>2, <1>3, EnterCoherent
<1>5. code # "told" /\ code # "timerDone" BY DEF ZoneCode
<1>6. Has(stack', "told") => Has(stack, "told") BY <1>4, <1>5 DEF Pushed
<1>7. TaskTypes BY DEF Coherent, Types, TaskTypes
<1>8. OneTask BY DEF Coherent
<1>9. TaskTypes' /\ OneTask' BY <1>6, <1>7, <1>8, EnterTask
<1>10. TimerCounted' BY <1>4, <1>5 DEF Pushed, TimerCounted
<1>11. changed' \in BOOLEAN /\ silenced' \in BOOLEAN BY DEF Enter
<1>12. Types' BY <1>4, <1>9, <1>11 DEF Coherent, Types, TaskTypes, ZoneState
<1> QED BY <1>4, <1>9, <1>10, <1>12 DEF Coherent

LEMMA RunCoherent == Coherent /\ Run => Coherent'
<1> SUFFICES ASSUME Coherent, Run PROVE Coherent' OBVIOUS
<1>1. /\ Enter("run", stack) /\ UNCHANGED <<mode, micro, macro, queue>> /\ ops' \in 0..MaxOps
      /\ Top \in ZoneCode \cup {"script", "stable", "told"}
  BY NgZoneAssumption DEF Run, Spend, Coherent, Types
<1>2. stack \in Seq(Frame) /\ stack # <<>> /\ Head(stack) # "emptied"
  BY <1>1, Popped DEF Top, ZoneCode, Coherent, Types
<1>3. "run" \in ZoneCode \ {"tick"} BY DEF ZoneCode
<1>4. /\ Shape(stack) /\ micro = Waiting(queue') + Dones(stack)
      /\ Has(stack, "timerDone") => macro > 0 /\ queue' \in Seq({"zone", "check"})
  BY <1>1 DEF Coherent, Counted, TimerCounted, Types
<1>5. queue' \in Seq({"zone", "check"}) BY <1>1 DEF Coherent, Types
<1> QED BY <1>1, <1>2, <1>3, <1>4, <1>5, EnterOn

LEMMA EventCoherent == Coherent /\ Event => Coherent'
<1> SUFFICES ASSUME Coherent, Event PROVE Coherent' OBVIOUS
<1> DEFINE rest == (IF InStack("drain") THEN <<>> ELSE <<"drain">>) \o stack
<1>1. /\ Enter("event", rest) /\ UNCHANGED <<mode, micro, macro, queue>> /\ ops' \in 0..MaxOps
      /\ stack = <<>> \/ Top \in ZoneCode \cup {"script", "stable"}
  BY NgZoneAssumption DEF Event, Spend, Coherent, Types, Idle
<1>2. stack \in Seq(Frame) BY DEF Coherent, Types
<1>3. stack # <<>> => Head(stack) # "emptied" BY <1>1 DEF Top, ZoneCode
<1>4. "event" \in ZoneCode \ {"tick"} BY DEF ZoneCode
<1>5. InStack("drain") <=> Has(stack, "drain") BY <1>2 DEF InStack, Has
<1>6. CASE Has(stack, "drain")
  <2>1. rest = stack BY <1>2, <1>5, <1>6, ConcatEmptySeq
  <2>2. /\ Shape(stack) /\ micro = Waiting(queue') + Dones(stack)
        /\ Has(stack, "timerDone") => macro > 0
        /\ queue' \in Seq({"zone", "check"})
    BY <1>1 DEF Coherent, Counted, TimerCounted, Types
  <2>3. Enter("event", stack) BY <1>1, <2>1
  <2> QED BY <1>1, <1>2, <1>3, <1>4, <2>2, <2>3, EnterOn
<1>7. CASE ~Has(stack, "drain")
  <2>1. rest = Push("drain", stack) BY <1>5, <1>7 DEF Push
  <2> HIDE DEF rest
  <2>2. Pushed("drain", stack) /\ Known(stack) BY <1>2, Pushes, Knows, FrameFacts
  <2>3. Allowed("drain", stack)
    <3>1. \A f : Has(stack, f) => f # "drain" /\ f # "told"
      BY <1>7, <2>2 DEF Known, Coherent
    <3> QED BY <3>1, <1>3 DEF Allowed, Fits, Emissions
  <2>4. Shape(rest) /\ rest \in Seq(Frame) /\ rest # <<>> /\ Head(rest) # "emptied"
    BY <2>1, <2>2, <2>3 DEF Pushed, Coherent
  <2>5. /\ Nest(rest) = Nest(stack) /\ Dones(rest) = Dones(stack)
        /\ \A f : f # "drain" => (Has(rest, f) <=> Has(stack, f))
    BY <2>1, <2>2 DEF Pushed, Known, Zoney, ZoneCode
  <2>6. \A f \in Emissions \cup {"frame", "told"} : Has(rest, f) <=> Has(stack, f)
    BY <2>5 DEF Emissions
  <2>7. /\ micro = Waiting(queue') + Dones(rest)
        /\ Has(rest, "timerDone") => macro > 0
        /\ queue' \in Seq({"zone", "check"})
    BY <2>5, <1>1 DEF Coherent, Counted, TimerCounted, Types
  <2> QED BY <1>1, <1>4, <2>4, <2>5, <2>6, <2>7, EnterOn
<1> QED BY <1>6, <1>7

\* A microtask of the zone runs.
LEMMA MicroCoherent ==
    ASSUME Coherent, Top = "drain", queue # <<>>, Head(queue) = "zone", queue' = Tail(queue),
           Enter("micro", <<"microDone">> \o stack), UNCHANGED <<mode, micro, macro, ops>>
    PROVE  Coherent'
<1> DEFINE rest == Push("microDone", stack)
<1>1. Enter("micro", rest) /\ stack \in Seq(Frame) BY DEF Push, Coherent, Types
<1>2. Pushed("microDone", stack) /\ Known(stack) BY <1>1, Pushes, Knows, FrameFacts
<1>3. stack # <<>> /\ Head(stack) = "drain" BY Popped DEF Top
<1>4. Allowed("microDone", stack) BY <1>3 DEF Allowed, Fits, Emissions
<1> HIDE DEF rest
<1>5. /\ Shape(rest) /\ rest \in Seq(Frame) /\ rest # <<>> /\ Head(rest) # "emptied"
      /\ \A f : f # "microDone" => (Has(rest, f) <=> Has(stack, f))
  BY <1>2, <1>4 DEF Pushed, Coherent, rest
<1>6. Nest(rest) = Nest(stack) /\ Dones(rest) = Dones(stack) + 1
  BY <1>2 DEF Pushed, Known, Zoney, ZoneCode, rest
<1>7. /\ queue' \in Seq({"zone", "check"}) /\ Waiting(queue') \in Nat
      /\ Waiting(queue) = Waiting(queue') + 1
  BY Popped DEF Queued
<1>8. micro = Waiting(queue') + Dones(rest)
  <2>1. micro = Waiting(queue) + Dones(stack) /\ Dones(stack) \in Nat
    BY <1>2 DEF Coherent, Counted, Known
  <2> QED BY <2>1, <1>6, <1>7
<1>9. \A f \in Emissions \cup {"frame", "told"} : Has(rest, f) <=> Has(stack, f)
  BY <1>5 DEF Emissions
<1>10. Has(rest, "timerDone") => macro > 0 BY <1>5 DEF Coherent, TimerCounted
<1>11. "micro" \in ZoneCode \ {"tick"} BY DEF ZoneCode
<1>12. ops' \in 0..MaxOps BY DEF Coherent, Types
<1> QED BY <1>1, <1>5, <1>6, <1>7, <1>8, <1>9, <1>10, <1>11, <1>12, EnterOn

LEMMA DrainCoherent == Coherent /\ Drain => Coherent'
<1> SUFFICES ASSUME Coherent, Drain PROVE Coherent' OBVIOUS
<1>1. CASE /\ stack = <<>> /\ queue # <<>> /\ stack' = <<"drain">>
           /\ UNCHANGED <<mode, zone, micro, macro, tasks, task, queue, changed, silenced, ops>>
  <2>1. stack \in Seq(Frame) /\ Known(stack) BY Knows DEF Coherent, Types
  <2>2. stack' = Push("drain", stack)
    <3>1. <<"drain">> \in Seq(Frame) BY FrameFacts
    <3> QED BY <3>1, <1>1, ConcatEmptySeq DEF Push
  <2>3. Pushed("drain", stack) BY <2>1, Pushes, FrameFacts
  <2>4. Allowed("drain", stack) BY <1>1, <2>1 DEF Allowed, Known
  <2>5. /\ Shape(stack') /\ stack' \in Seq(Frame)
        /\ Nest(stack') = Nest(stack) /\ Dones(stack') = Dones(stack)
        /\ \A f : Has(stack', f) <=> f = "drain" \/ Has(stack, f)
    BY <2>1, <2>2, <2>3, <2>4 DEF Coherent, Pushed, Known, Zoney, ZoneCode
  <2>6. Types' BY <1>1, <2>5 DEF Coherent, Types
  <2>7. Counted(zone', micro', queue', stack') BY <1>1, <2>5 DEF Coherent, Counted
  <2>8. InFrame(zone, stack)' BY <1>1, <2>5 DEF Coherent, InFrame, Emissions
  <2>9. FrameDue(zone, queue, stack)' BY <1>1, <2>5 DEF Coherent, FrameDue
  <2>10. TimerCounted' /\ OneTask' BY <1>1, <2>5 DEF Coherent, TimerCounted, OneTask
  <2> QED BY <2>5, <2>6, <2>7, <2>8, <2>9, <2>10 DEF Coherent
<1>2. CASE Top = "drain" /\ queue # <<>> /\ Head(queue) = "check" /\ Check
  BY <1>2, CheckCoherent
<1>3. CASE /\ Top = "drain" /\ queue # <<>> /\ Head(queue) = "zone" /\ queue' = Tail(queue)
           /\ Enter("micro", <<"microDone">> \o stack) /\ UNCHANGED <<mode, micro, macro, ops>>
  BY <1>3, MicroCoherent
<1>4. CASE /\ Top \in {"script", "drain"} /\ stack' = Below
           /\ UNCHANGED <<mode, zone, micro, macro, tasks, task, queue, changed, silenced, ops>>
  <2>1. Below \in Seq(Frame) /\ \A f : Has(stack, f) <=> f = Top \/ Has(Below, f)
    BY <1>4, Popped
  <2>2. Types' BY <1>4, <2>1 DEF Coherent, Types
  <2>3. OneTask' /\ TimerCounted' BY <1>4, <2>1 DEF Coherent, OneTask, TimerCounted
  <2> QED BY <1>4, <2>2, <2>3, PopCoherent
<1> QED BY <1>1, <1>2, <1>3, <1>4 DEF Drain

LEMMA EmptyStack ==
    ASSUME Types, stack = <<>>
    PROVE  /\ <<>> \in Seq(Frame) /\ Known(stack) /\ Known(<<>>)
           /\ Push("drain", <<>>) = <<"drain">> /\ <<"drain">> \in Seq(Frame)
           /\ Pushed("drain", <<>>) /\ Shape(<<"drain">>)
           /\ Nest(<<"drain">>) = 0 /\ Dones(<<"drain">>) = 0 /\ Len(<<"drain">>) = 1
           /\ \A f : Has(<<"drain">>, f) <=> f = "drain"
<1>1. stack \in Seq(Frame) BY DEF Types
<1>2. <<>> \in Seq(Frame) /\ Known(<<>>) BY <1>1, Knows
<1>3. <<"drain">> \in Seq(Frame) /\ Len(<<"drain">>) = 1 BY FrameFacts
<1>4. Push("drain", <<>>) = <<"drain">> BY <1>3, ConcatEmptySeq DEF Push
<1>5. Pushed("drain", <<>>) BY <1>2, Pushes, FrameFacts
<1>6. Allowed("drain", <<>>) BY <1>2 DEF Allowed, Known
<1>7. Shape(<<"drain">>) BY <1>2, <1>4, <1>5, <1>6 DEF Pushed, Known
<1>8. /\ Nest(<<"drain">>) = 0 /\ Dones(<<"drain">>) = 0
      /\ \A f : Has(<<"drain">>, f) <=> f = "drain"
  <2> DEFINE d == Push("drain", <<>>)
  <2>1. /\ Nest(d) = Nest(<<>>) + 0 /\ Dones(d) = Dones(<<>>) + 0
        /\ \A f : Has(d, f) <=> f = "drain" \/ Has(<<>>, f)
    BY <1>5 DEF Pushed, Zoney, ZoneCode
  <2> HIDE DEF d
  <2>2. Nest(d) = 0 /\ Dones(d) = 0 /\ \A f : Has(d, f) <=> f = "drain"
    BY <2>1, NothingThere
  <2> QED BY <2>2, <1>4 DEF d
<1> QED BY <1>2, <1>3, <1>4, <1>5, <1>7, <1>8

\* A task or an animation frame starts, on the drain that ends it.
LEMMA OnDrain ==
    ASSUME Types, stack = <<>>, NEW x \in {"timerDone", "frame"}
    PROVE  /\ <<x, "drain">> = Push(x, <<"drain">>) /\ <<x, "drain">> \in Seq(Frame)
           /\ <<x, "drain">> # <<>> /\ Head(<<x, "drain">>) = x
           /\ Pushed(x, <<"drain">>) /\ Shape(<<x, "drain">>)
           /\ Nest(<<x, "drain">>) = 0 /\ Dones(<<x, "drain">>) = 0
           /\ \A f : Has(<<x, "drain">>, f) <=> f \in {x, "drain"}
<1> DEFINE d == <<"drain">>
           t == <<x, "drain">>
<1>1. /\ d \in Seq(Frame) /\ Shape(d) /\ Nest(d) = 0 /\ Dones(d) = 0 /\ Len(d) = 1
      /\ d # <<>> /\ Head(d) = "drain" /\ \A f : Has(d, f) <=> f = "drain"
      /\ <<>> \in Seq(Frame) /\ d = Push("drain", <<>>)
  BY EmptyStack
<1>2. x \in Frame /\ "drain" \in Frame BY FrameFacts
<1>3. <<x, "drain">> \o <<>> = Push(x, Push("drain", <<>>)) BY <1>1, <1>2, TwoPushes
<1>4. <<x, "drain">> \in Seq(Frame) BY <1>2
<1>5. <<x, "drain">> \o <<>> = <<x, "drain">> BY <1>4, ConcatEmptySeq
<1>6. t = Push(x, d) BY <1>1, <1>3, <1>5
<1> HIDE DEF d, t
<1>7. Pushed(x, d) BY <1>1, <1>2, Pushes
<1>8. Allowed(x, d) BY <1>1 DEF Allowed, Fits, Emissions
<1>9. /\ Shape(t) /\ t # <<>> /\ Head(t) = x /\ t \in Seq(Frame)
      /\ Nest(t) = 0 /\ Dones(t) = 0
      /\ \A f : Has(t, f) <=> f \in {x, "drain"}
  BY <1>1, <1>6, <1>7, <1>8 DEF Pushed, Zoney, ZoneCode
<1> QED BY <1>6, <1>7, <1>9 DEF d, t

LEMMA TimerFiresCoherent == Coherent /\ TimerFires => Coherent'
<1> SUFFICES ASSUME Coherent, TimerFires PROVE Coherent' OBVIOUS
<1> DEFINE rest == <<"timerDone", "drain">>
<1>1. /\ stack = <<>> /\ queue = <<>> /\ macro > 0 /\ Types
      /\ Enter("timer", rest) /\ UNCHANGED <<mode, micro, macro, queue, ops>>
  BY DEF TimerFires, Idle, Coherent
<1>2. /\ rest \in Seq(Frame) /\ rest # <<>> /\ Head(rest) = "timerDone" /\ Shape(rest)
      /\ Nest(rest) = 0 /\ Dones(rest) = 0
      /\ \A f : Has(rest, f) <=> f \in {"timerDone", "drain"}
  BY <1>1, OnDrain
<1> HIDE DEF rest
<1>3. Known(stack) BY <1>1, EmptyStack
<1>4. Nest(stack) = 0 /\ Dones(stack) = 0 /\ \A f : ~Has(stack, f)
  BY <1>1, <1>3 DEF Known
<1>5. "timer" \in ZoneCode \ {"tick"} BY DEF ZoneCode
<1>6. \A f \in Emissions \cup {"frame", "told"} : Has(rest, f) <=> Has(stack, f)
  BY <1>2, <1>4 DEF Emissions
<1>7. micro = Waiting(queue') + Dones(rest) BY <1>1, <1>2, <1>4 DEF Coherent, Counted
<1>8. queue' \in Seq({"zone", "check"}) /\ ops' \in 0..MaxOps BY <1>1 DEF Types
<1>9. Head(rest) # "emptied" BY <1>2
<1> QED BY <1>1, <1>2, <1>4, <1>5, <1>6, <1>7, <1>8, <1>9, EnterOn

LEMMA FrameFiresCoherent == Coherent /\ FrameFires => Coherent'
<1> SUFFICES ASSUME Coherent, FrameFires PROVE Coherent' OBVIOUS
<1> DEFINE rest == <<"frame", "drain">>
           z == [zone EXCEPT !.raf = FALSE, !.checking = TRUE]
<1>1. /\ stack = <<>> /\ queue = <<>> /\ zone.raf /\ Types
      /\ CheckStable(z, micro, rest)
      /\ UNCHANGED <<mode, micro, macro, tasks, task, queue, changed, silenced, ops>>
  BY DEF FrameFires, Idle, Coherent
<1>2. /\ rest \in Seq(Frame) /\ Shape(rest) /\ Nest(rest) = 0 /\ Dones(rest) = 0
      /\ \A f : Has(rest, f) <=> f \in {"frame", "drain"}
  BY <1>1, OnDrain
<1>3. Known(stack) BY <1>1, EmptyStack
<1>4. Nest(stack) = 0 /\ Dones(stack) = 0 /\ \A f : ~Has(stack, f)
  BY <1>1, <1>3 DEF Known
<1>5. /\ z \in ZoneState /\ z.nesting = zone.nesting /\ z.isStable = zone.isStable
      /\ ~z.raf /\ z.checking
  <2>1. zone \in ZoneState BY <1>1 DEF Types, ZoneState
  <2> QED BY <2>1 DEF ZoneState
<1> HIDE DEF rest, z
<1>6. Counted(z, micro, queue, rest) BY <1>2, <1>4, <1>5 DEF Coherent, Counted
<1>7. InFrame(z, rest) BY <1>2, <1>5 DEF InFrame
<1>8. Waiting(queue) = 0
  <2>1. Queued(queue) BY <1>1, Queues DEF Types
  <2> QED BY <2>1, <1>1 DEF Queued
<1>9. micro = 0 /\ micro \in Nat BY <1>8, <1>4, <1>1 DEF Coherent, Counted, Types
<1>10. /\ Shape(stack)' /\ Counted(zone, micro, queue, stack)'
       /\ InFrame(zone, stack)' /\ FrameDue(zone, queue, stack)'
  <2>1. mode = "runs" /\ ~z.raf /\ z.nesting = 0 /\ micro = 0 =>
          z.isStable \/ Has(rest, "frame")
    BY <1>2
  <2>2. micro # 0 => FrameDue(z, queue, rest) BY <1>9
  <2>3. micro' = micro BY <1>1
  <2>4. UNCHANGED <<queue, mode>> BY <1>1
  <2> QED BY <2>1, <2>2, <2>3, <2>4, <1>1, <1>2, <1>5, <1>6, <1>7, <1>9, CheckStableCoherent
<1>11. zone' \in ZoneState /\ stack' \in Seq(Frame) BY <1>1, <1>2, <1>5, CheckStableStep
<1>12. ~Has(stack', "timerDone") /\ ~Has(stack', "told")
  <2>1. \A f : f \notin {"tick", "emptied"} => (Has(stack', f) <=> Has(rest, f))
    BY <1>1, <1>2, <1>5, CheckStableKeeps
  <2> QED BY <2>1, <1>2
<1>13. TimerCounted' BY <1>12 DEF TimerCounted
<1>14. OneTask' BY <1>1, <1>12 DEF Coherent, OneTask
<1>15. Types' BY <1>1, <1>11 DEF Types, ZoneState
<1> QED BY <1>10, <1>13, <1>14, <1>15 DEF Coherent

LEMMA ScriptCoherent == Coherent /\ Script => Coherent'
<1> SUFFICES ASSUME Coherent, Script PROVE Coherent' OBVIOUS
<1>1. /\ stack = <<>> /\ stack' = <<"script">> /\ Types /\ ops' \in 0..MaxOps
      /\ UNCHANGED <<mode, zone, micro, macro, tasks, task, queue, changed, silenced>>
  BY NgZoneAssumption DEF Script, Idle, Spend, Coherent, Types
<1>2. Known(stack) /\ <<>> \in Seq(Frame) BY <1>1, EmptyStack
<1>3. stack' = Push("script", stack)
  <2>1. <<"script">> \in Seq(Frame) BY FrameFacts
  <2> QED BY <2>1, <1>1, ConcatEmptySeq DEF Push
<1>4. Pushed("script", stack) BY <1>1, <1>2, Pushes, FrameFacts
<1>5. Allowed("script", stack) BY <1>1, <1>2 DEF Allowed, Known
<1>6. /\ Shape(stack') /\ stack' \in Seq(Frame)
      /\ Nest(stack') = Nest(stack) /\ Dones(stack') = Dones(stack)
      /\ \A f : Has(stack', f) <=> f = "script" \/ Has(stack, f)
  BY <1>2, <1>3, <1>4, <1>5 DEF Coherent, Pushed, Known, Zoney, ZoneCode
<1>7. Types' BY <1>1, <1>6 DEF Types
<1>8. Counted(zone', micro', queue', stack') BY <1>1, <1>6 DEF Coherent, Counted
<1>9. InFrame(zone, stack)' BY <1>1, <1>6 DEF Coherent, InFrame, Emissions
<1>10. FrameDue(zone, queue, stack)' BY <1>1, <1>6 DEF Coherent, FrameDue
<1>11. TimerCounted' /\ OneTask' BY <1>1, <1>6 DEF Coherent, TimerCounted, OneTask
<1> QED BY <1>6, <1>7, <1>8, <1>9, <1>10, <1>11 DEF Coherent

LEMMA ScheduleMicrotaskCoherent == Coherent /\ ScheduleMicrotask => Coherent'
<1> SUFFICES ASSUME Coherent, ScheduleMicrotask PROVE Coherent' OBVIOUS
<1>1. /\ Types /\ micro' = micro + 1 /\ queue' = Append(queue, "zone") /\ ops' \in 0..MaxOps
      /\ UNCHANGED <<mode, zone, macro, tasks, task, stack, changed, silenced>>
      /\ Top \in ZoneCode
  BY NgZoneAssumption DEF ScheduleMicrotask, Spend, Coherent, Types
<1>2. /\ queue' \in Seq({"zone", "check"}) /\ Waiting(queue') = Waiting(queue) + 1
      /\ Waiting(queue) \in Nat
  BY <1>1, Queues DEF Queued, Types
<1>3. Dones(stack) \in Nat /\ micro = Waiting(queue) + Dones(stack) /\ micro \in Nat
  BY <1>1, Knows DEF Coherent, Counted, Types, Known
<1>4. micro' = Waiting(queue') + Dones(stack) /\ micro' \in Nat BY <1>1, <1>2, <1>3
<1>5. Types' BY <1>1, <1>2, <1>4 DEF Types
<1>6. Counted(zone', micro', queue', stack') BY <1>1, <1>4 DEF Coherent, Counted
<1>7. FrameDue(zone, queue, stack)' BY <1>1, <1>2 DEF FrameDue
<1>8. Shape(stack)' /\ InFrame(zone, stack)' /\ TimerCounted' /\ OneTask'
  BY <1>1 DEF Coherent, InFrame, TimerCounted, OneTask
<1> QED BY <1>5, <1>6, <1>7, <1>8 DEF Coherent

\* Only the timers change.
LEMMA TimersCoherent ==
    ASSUME Coherent, UNCHANGED <<mode, zone, micro, tasks, task, queue, stack, changed>>,
           macro' \in Nat, silenced' \in BOOLEAN, ops' \in 0..MaxOps, TimerCounted'
    PROVE  Coherent'
<1>1. Types' BY DEF Coherent, Types
<1>2. /\ Shape(stack)' /\ Counted(zone, micro, queue, stack)' /\ InFrame(zone, stack)'
      /\ FrameDue(zone, queue, stack)' /\ OneTask'
  BY DEF Coherent, Counted, InFrame, FrameDue, OneTask
<1> QED BY <1>1, <1>2 DEF Coherent

LEMMA ScheduleTimerCoherent == Coherent /\ ScheduleTimer => Coherent'
<1> SUFFICES ASSUME Coherent, ScheduleTimer PROVE Coherent' OBVIOUS
<1>1. macro' = macro + 1 /\ macro \in Nat /\ silenced' \in BOOLEAN /\ ops' \in 0..MaxOps
  BY NgZoneAssumption DEF ScheduleTimer, Spend, Coherent, Types
<1>2. macro' \in Nat /\ TimerCounted' BY <1>1 DEF TimerCounted
<1> QED BY <1>1, <1>2, TimersCoherent DEF ScheduleTimer

LEMMA CancelTimerCoherent == Coherent /\ CancelTimer => Coherent'
<1> SUFFICES ASSUME Coherent, CancelTimer PROVE Coherent' OBVIOUS
<1>1. /\ macro' = macro - 1 /\ macro \in Nat /\ silenced' \in BOOLEAN /\ ops' \in 0..MaxOps
      /\ macro > (IF InStack("timerDone") THEN 1 ELSE 0)
      /\ stack' = stack
  BY NgZoneAssumption DEF CancelTimer, Spend, Coherent, Types
<1>2. Has(stack, "timerDone") <=> InStack("timerDone") BY DEF Has, InStack, Coherent, Types
<1>3. macro' \in Nat /\ TimerCounted' BY <1>1, <1>2 DEF TimerCounted
<1> QED BY <1>1, <1>3, TimersCoherent DEF CancelTimer

LEMMA StutterCoherent == Coherent /\ UNCHANGED vars => Coherent'
BY DEF vars, Coherent, Types, Counted, TimerCounted, OneTask, InFrame, FrameDue

LEMMA StepCoherent == Coherent /\ [Next]_vars => Coherent'
BY LeaveCoherent, EmptiedCoherent, StableCoherent, ToldCoherent, MicroDoneCoherent,
   TimerDoneCoherent,
   DrainCoherent, TimerFiresCoherent, FrameFiresCoherent, FrameEndsCoherent,
   ScriptCoherent, RunCoherent, EventCoherent, ScheduleMicrotaskCoherent, ScheduleTimerCoherent,
   CancelTimerCoherent, StutterCoherent
   DEF Next, System, Application

LEMMA InitStack ==
    /\ <<"run", "script">> \in Seq(Frame) /\ Shape(<<"run", "script">>)
    /\ Nest(<<"run", "script">>) = 1 /\ Dones(<<"run", "script">>) = 0
    /\ Calm(<<"run", "script">>) /\ Busy(<<"run", "script">>)
    /\ \A f : Has(<<"run", "script">>, f) <=> f \in {"run", "script"}
<1> DEFINE d == Push("script", <<>>)
           t == <<"run", "script">>
<1>1. <<>> \in Seq(Frame) /\ Known(<<>>) BY EmptySeq, Knows
<1>2. "script" \in Frame /\ "run" \in Frame BY DEF Frame, ZoneCode
<1>3. t \in Seq(Frame) BY <1>2
<1>4. t \o <<>> = t BY <1>3, ConcatEmptySeq
<1>5. t = Push("run", d) BY <1>1, <1>2, <1>4, TwoPushes
<1>6. Pushed("script", <<>>) BY <1>1, <1>2, Pushes
<1>7. /\ d \in Seq(Frame) /\ Shape(d) /\ Nest(d) = 0 /\ Dones(d) = 0 /\ Calm(d)
      /\ d # <<>> /\ Head(d) = "script" /\ \A f : Has(d, f) <=> f = "script"
  <2>1. Allowed("script", <<>>) BY NothingThere DEF Allowed
  <2>2. /\ d \in Seq(Frame) /\ d # <<>> /\ Head(d) = "script"
        /\ Shape(d) <=> Shape(<<>>) /\ Allowed("script", <<>>)
        /\ Nest(d) = Nest(<<>>) + 0 /\ Dones(d) = Dones(<<>>) + 0
        /\ Calm(d) <=> Calm(<<>>)
        /\ \A f : Has(d, f) <=> f = "script" \/ Has(<<>>, f)
    BY <1>6 DEF Pushed, Zoney, ZoneCode
  <2> HIDE DEF d
  <2> QED BY <2>1, <2>2, NothingThere
<1> HIDE DEF d, t
<1>8. Pushed("run", d) BY <1>7, <1>2, Pushes
<1>9. Allowed("run", d) BY <1>7 DEF Allowed, Fits, Emissions
<1>10. /\ Shape(t) /\ Nest(t) = 1 /\ Dones(t) = 0 /\ Calm(t) /\ Busy(t)
       /\ \A f : Has(t, f) <=> f \in {"run", "script"}
  BY <1>5, <1>7, <1>8, <1>9 DEF Pushed, Zoney, ZoneCode
<1> QED BY <1>3, <1>10 DEF t

LEMMA InitCoherent == Init => Coherent
<1> SUFFICES ASSUME Init PROVE Coherent OBVIOUS
<1>1. /\ stack \in Seq(Frame) /\ Shape(stack) /\ Nest(stack) = 1 /\ Dones(stack) = 0
      /\ \A f : Has(stack, f) <=> f \in {"run", "script"}
  BY InitStack DEF Init
<1>2. /\ zone.nesting = 1 /\ ~zone.isStable /\ ~zone.raf /\ ~zone.checking
      /\ zone \in ZoneState
  BY DEF Init, ZoneState
<1>3. queue \in Seq({"zone", "check"}) /\ Waiting(queue) = 0
  <2>1. queue = <<>> /\ queue \in Seq({"zone", "check"}) BY EmptySeq DEF Init
  <2> QED BY <2>1, Queues DEF Queued
<1>4. TaskTypes /\ OneTask
  <2>1. CASE macro = 0
    <3>1. \E id \in TaskId : id \notin NoTasks.pending BY NgZoneAssumption DEF NoTasks
    <3>2. NewTask(NoTasks) \in TaskId BY <3>1 DEF NewTask
    <3>3. task = NewTask(NoTasks) /\ tasks = [pending |-> {task}, has |-> TRUE]
      BY <2>1 DEF Init, Added, NoTasks
    <3>4. task # None BY <3>2, <3>3, NgZoneAssumption
    <3> QED BY <3>2, <3>3, <3>4, <1>1 DEF TaskTypes, OneTask, PendingTasksType
  <2>2. CASE macro # 0
    <3>1. task = None /\ tasks = [pending |-> {}, has |-> FALSE] BY <2>2 DEF Init, NoTasks
    <3> QED BY <3>1, <1>1 DEF TaskTypes, OneTask, PendingTasksType
  <2> QED BY <2>1, <2>2
<1>5. micro = 0 /\ macro \in Nat /\ mode \in Modes /\ changed \in BOOLEAN
      /\ silenced \in BOOLEAN /\ ops \in 0..MaxOps
  <2>1. macro \in {0, 1}
    <3>1. macro \in IF "early" \in Gaps THEN {0, 1} ELSE {0} BY DEF Init
    <3> QED BY <3>1
  <2>2. 0 \in 0..MaxOps BY NgZoneAssumption
  <2>3. micro = 0 /\ mode \in Modes /\ changed = TRUE /\ silenced = FALSE /\ ops = 0 BY DEF Init
  <2>4. changed \in BOOLEAN /\ silenced \in BOOLEAN BY <2>3
  <2>5. ops \in 0..MaxOps BY <2>2, <2>3
  <2>6. macro \in Nat BY <2>1
  <2> QED BY <2>3, <2>4, <2>5, <2>6
<1>6. Types BY <1>1, <1>2, <1>3, <1>4, <1>5 DEF Types, TaskTypes, ZoneState
<1>7. Counted(zone, micro, queue, stack) BY <1>1, <1>2, <1>3, <1>5 DEF Counted
<1>8. InFrame(zone, stack) BY <1>1, <1>2 DEF InFrame, Emissions
<1>9. FrameDue(zone, queue, stack) BY <1>2 DEF FrameDue
<1>10. TimerCounted BY <1>1 DEF TimerCounted
<1> QED BY <1>1, <1>4, <1>6, <1>7, <1>8, <1>9, <1>10 DEF Coherent

LEMMA CoherentInvariant == Spec => []Coherent
BY InitCoherent, StepCoherent, PTL DEF Spec

LEMMA CoherentImplies == Coherent => TypeOK /\ TicksDontNest /\ CoalescedInFrame
<1> SUFFICES ASSUME Coherent PROVE TypeOK /\ TicksDontNest /\ CoalescedInFrame OBVIOUS
<1>1. Types /\ stack \in Seq(Frame) /\ Len(stack) \in Nat /\ DOMAIN stack = 1..Len(stack)
  BY LenProperties DEF Coherent, Types
<1>2. {i \in DOMAIN stack : stack[i] \in ZoneCode \cup {"emptied"}} = Places(stack, Zoney)
  BY <1>1 DEF Places, Zoney
<1>3. TypeOK BY <1>1, <1>2 DEF Coherent, Types, Counted, Nest, TypeOK
<1>4. ASSUME NEW i \in DOMAIN stack, NEW j \in DOMAIN stack,
             stack[i] = "tick", stack[j] = "tick", i < j
      PROVE  FALSE
  <2>1. Fits(stack[i], stack[j]) BY <1>1, <1>4 DEF Coherent, Shape
  <2> QED BY <2>1, <1>4 DEF Fits, ZoneCode
<1>5. TicksDontNest
  <2>1. \A i, j \in DOMAIN stack : i = j \/ i < j \/ j < i BY <1>1
  <2> QED BY <2>1, <1>4 DEF TicksDontNest
<1>6. CoalescedInFrame
  <2>1. \A f : InStack(f) <=> Has(stack, f) BY <1>1 DEF InStack, Has
  <2> QED BY <2>1 DEF Coherent, InFrame, Emissions, CoalescedInFrame
<1> QED BY <1>3, <1>5, <1>6

\* NgZone's fields keep their types and ranges, _nesting counts the frames of the
\* zone exactly (onEnter and onLeave balance in every order, also through the
\* increment that checkStable makes for its emission) and never goes negative.
THEOREM TypeCorrect == Spec => []TypeOK
BY CoherentInvariant, CoherentImplies, PTL

\* ApplicationRef.tick never starts inside a tick: onMicrotaskEmpty is not emitted
\* while it is being emitted (the _nesting++ of checkStable).
THEOREM NoNestedTick == Spec => []TicksDontNest
BY CoherentInvariant, CoherentImplies, PTL

\* With run coalescing, change detection only runs inside the animation frame that
\* delayChangeDetectionForEvents asked for.
THEOREM TickInFrame == Spec => []CoalescedInFrame
BY CoherentInvariant, CoherentImplies, PTL

-----------------------------------------------------------------------------
\* The second inductive invariant. A frame is asked for only while the zone is
\* unstable; what changed is in code that still runs, in a microtask, or waits for
\* the frame, and none of it is left when the tick of checkStable has been run.
Settled ==
  /\ zone.isStable \/ Has(stack, "stable") => ~zone.raf
  /\ mode = "none" => ~zone.raf
  /\ mode = "events" /\ Has(stack, "stable") /\ ~zone.checking => ~Has(stack, "event")
  /\ Top = "emptied" => ~changed
  /\ changed => (\E f \in ZoneCode : Has(stack, f)) \/ zone.raf \/ micro > 0

\* A frame that is not code of the zone is popped.
LEMMA PopSettled ==
    ASSUME Coherent, Settled, Top \notin ZoneCode \cup {"nothing"}, stack' = Below,
           zone'.isStable = zone.isStable, zone'.raf = zone.raf,
           zone'.checking = zone.checking \/ Top = "frame",
           UNCHANGED <<mode, micro, changed>>
    PROVE  Settled'
<1>1. /\ Allowed(Top, Below) /\ \A f : Has(stack, f) <=> f = Top \/ Has(Below, f)
      /\ Known(Below) /\ Below \in Seq(Frame)
  BY Popped
<1>2. Top' = "emptied" => Below # <<>> /\ Head(Below) = "emptied" BY DEF Top
<1>3. Top' # "emptied" BY <1>1, <1>2 DEF Allowed, ZoneCode
<1>4. Top = "frame" => ~Has(Below, "stable") BY <1>1 DEF Allowed, Known
<1> QED BY <1>1, <1>3, <1>4 DEF Settled

LEMMA EnterSettled ==
    ASSUME Coherent, Settled, NEW code \in ZoneCode \ {"tick"}, NEW rest \in Seq(Frame),
           Enter(code, rest), mode' = mode,
           \A f \in ZoneCode \cup {"stable"} : Has(rest, f) <=> Has(stack, f),
           code = "event" =>
             ~(mode = "events" /\ Has(stack, "stable") /\ ~zone.checking)
    PROVE  Settled'
<1>1. code \in Frame BY DEF Frame
<1>2. stack' = Push(code, rest) /\ Pushed(code, rest) BY <1>1, Pushes DEF Enter, Push
<1>3. /\ \A f : Has(stack', f) <=> f = code \/ Has(rest, f)
      /\ stack' # <<>> /\ Head(stack') = code
  BY <1>2 DEF Pushed
<1>4. Top' = code BY <1>3 DEF Top
<1>5. /\ ~zone'.isStable /\ zone'.raf = zone.raf /\ zone'.checking = zone.checking
  <2>1. zone \in ZoneState BY DEF Coherent, Types, ZoneState
  <2>2. zone' = [zone EXCEPT !.nesting = @ + 1, !.isStable = FALSE] BY DEF Enter
  <2> QED BY <2>1, <2>2, EnteredZone
<1>6. code # "stable" /\ code # "emptied" /\ code \in ZoneCode /\ "event" \in ZoneCode
  BY DEF ZoneCode
<1>7. Has(stack', "stable") <=> Has(stack, "stable") BY <1>3, <1>6
<1>8. Has(stack', "event") <=> code = "event" \/ Has(stack, "event") BY <1>3, <1>6
<1> QED BY <1>3, <1>4, <1>5, <1>6, <1>7, <1>8 DEF Settled

\* What leaving the zone does.
LEMMA LeaveFacts ==
    ASSUME Coherent, Leave
    PROVE  LET due == zone.raf \/ (Coalesces(Top) /\ ~zone.checking)
               emits == Nest(Below) = 0 /\ micro = 0 /\ ~due
           IN  /\ Top \in ZoneCode /\ ~zone.isStable
               /\ ~zone'.isStable /\ zone'.checking = zone.checking /\ zone'.raf = due
               /\ emits => stack' = Push("tick", Push("emptied", Below))
               /\ ~emits => stack' = Below
               /\ Pushed("emptied", Below) /\ Pushed("tick", Push("emptied", Below))
<1> DEFINE r == zone.raf \/ (Coalesces(Top) /\ ~zone.checking)
           z == [zone EXCEPT !.nesting = @ - 1, !.raf = r]
<1>1. Top \in ZoneCode /\ Top # "nothing" /\ Top \in Zoney BY DEF Leave, ZoneCode, Zoney
<1>2. Below \in Seq(Frame) /\ Nest(stack) = Nest(Below) + 1 /\ Nest(Below) \in Nat
  BY <1>1, Popped
<1>3. CheckStable(z, micro, Below) BY DEF Leave
<1>4. zone \in ZoneState /\ r \in BOOLEAN /\ micro \in Nat BY DEF Coherent, Types, ZoneState
<1>5. zone.nesting = Nest(Below) + 1 BY <1>2 DEF Coherent, Counted
<1>6. ~zone.isStable BY <1>2, <1>5 DEF Coherent, Counted
<1> HIDE DEF r
<1>7. z \in ZoneState /\ z.nesting = Nest(Below) /\ ~z.isStable /\ z.raf = r
      /\ z.checking = zone.checking
  <2>1. zone.nesting - 1 = Nest(Below) /\ zone.nesting - 1 \in Nat BY <1>2, <1>5
  <2>2. /\ z \in ZoneState /\ z.nesting = zone.nesting - 1 /\ z.isStable = zone.isStable
        /\ z.raf = r /\ z.checking = zone.checking
    BY <2>1, <1>4 DEF ZoneState
  <2> QED BY <2>1, <2>2, <1>6
<1> HIDE DEF z
<1>8. Emits(z, micro) <=> Nest(Below) = 0 /\ micro = 0 /\ ~r
  BY <1>4, <1>7 DEF Emits, HasPendingMicrotasks
<1>9. /\ zone'.isStable = z.isStable /\ zone'.raf = z.raf /\ zone'.checking = z.checking
      /\ Emits(z, micro) => stack' = Push("tick", Push("emptied", Below))
      /\ ~Emits(z, micro) => stack' = Below
      /\ Pushed("emptied", Below) /\ Pushed("tick", Push("emptied", Below))
  BY <1>2, <1>3, <1>7, CheckStableStep
<1> QED BY <1>1, <1>6, <1>7, <1>8, <1>9 DEF r

LEMMA LeaveSettled == Coherent /\ Settled /\ Leave => Settled'
<1> SUFFICES ASSUME Coherent, Settled, Leave PROVE Settled' OBVIOUS
<1> DEFINE r == zone.raf \/ (Coalesces(Top) /\ ~zone.checking)
           emits == Nest(Below) = 0 /\ micro = 0 /\ ~r
<1>1. /\ Top \in ZoneCode /\ ~zone.isStable
      /\ ~zone'.isStable /\ zone'.checking = zone.checking /\ zone'.raf = r
      /\ emits => stack' = Push("tick", Push("emptied", Below))
      /\ ~emits => stack' = Below
      /\ Pushed("emptied", Below) /\ Pushed("tick", Push("emptied", Below))
  BY LeaveFacts
<1>2. /\ Allowed(Top, Below) /\ \A f : Has(stack, f) <=> f = Top \/ Has(Below, f)
      /\ Known(Below) /\ Shape(Below)
  BY <1>1, Popped DEF ZoneCode
<1>3. micro' = micro /\ mode' = mode /\ (changed' <=> changed /\ Top # "tick") BY DEF Leave
<1>4. \A f : f \notin {"tick", "emptied"} => (Has(stack', f) <=> Has(Below, f))
  BY <1>1 DEF Pushed
<1>5. Has(Below, "stable") => ~r
  <2> SUFFICES ASSUME Has(Below, "stable") PROVE ~r OBVIOUS
  <2>1. Has(stack, "stable") BY <1>2
  <2>2. ~zone.raf BY <2>1 DEF Settled
  <2>3. mode = "events" /\ Top = "event" => zone.checking BY <2>1, <1>2 DEF Settled
  <2>4. mode = "runs" => zone.checking BY <2>1 DEF Coherent, InFrame, Emissions
  <2> QED BY <2>2, <2>3, <2>4 DEF Coalesces
<1>6. mode = "none" => ~r BY DEF Settled, Coalesces
<1>7. mode = "events" /\ Has(stack', "stable") /\ ~zone'.checking => ~Has(stack', "event")
  BY <1>1, <1>2, <1>4 DEF Settled
<1>8. Top' = "emptied" => ~changed'
  <2>1. CASE emits
    <3>1. Top' = "tick" BY <2>1, <1>1 DEF Top, Pushed
    <3> QED BY <3>1
  <2>2. CASE ~emits
    <3>1. Top' = "emptied" => Below # <<>> /\ Head(Below) = "emptied" BY <2>2, <1>1 DEF Top
    <3> QED BY <3>1, <1>2, <1>3 DEF Allowed
  <2> QED BY <2>1, <2>2
<1>9. changed' => (\E f \in ZoneCode : Has(stack', f)) \/ r \/ micro > 0
  <2>1. CASE emits
    <3>1. Has(stack', "tick") BY <2>1, <1>1 DEF Pushed
    <3> QED BY <3>1 DEF ZoneCode
  <2>2. CASE ~emits
    <3>1. stack' = Below /\ (micro = 0 /\ ~r => Nest(Below) # 0) BY <2>2, <1>1
    <3>2. micro = 0 \/ micro > 0 BY DEF Coherent, Types
    <3>3. ASSUME changed', Nest(Below) # 0 PROVE \E f \in ZoneCode : Has(Below, f)
      <4>1. Top # "tick" BY <3>3, <1>3
      <4>2. PICK f \in Zoney : Has(Below, f) BY <3>3, <1>2 DEF Known
      <4>3. CASE f = "emptied"
        <5>1. Has(Below, "tick") BY <4>1, <4>2, <4>3, <1>2 DEF Known, Allowed
        <5> QED BY <5>1 DEF ZoneCode
      <4> QED BY <4>2, <4>3 DEF Zoney
    <3> QED BY <3>1, <3>2, <3>3
  <2> QED BY <2>1, <2>2
<1> HIDE DEF r, emits
<1> QED BY <1>1, <1>3, <1>4, <1>5, <1>6, <1>7, <1>8, <1>9 DEF Settled

LEMMA EmptiedFacts ==
    ASSUME Coherent, Emptied
    PROVE  /\ Top = "emptied" /\ Below \in Seq(Frame) /\ ~zone.isStable
           /\ \A f : Has(Below, f) => f \notin Zoney /\ f # "microDone"
           /\ \A f : Has(stack, f) <=> f = "emptied" \/ Has(Below, f)
           /\ zone'.isStable = zone.isStable /\ zone'.raf = zone.raf
           /\ zone'.checking = zone.checking
           /\ HasPendingMicrotasks(zone, micro) => stack' = Below
           /\ ~HasPendingMicrotasks(zone, micro) => stack' = Push("stable", Below)
           /\ Pushed("stable", Below)
           /\ Below # <<>> => Head(Below) # "emptied"
<1>1. Top = "emptied" /\ Top # "nothing" /\ Top \in Zoney BY DEF Emptied, Zoney
<1>2. /\ Below \in Seq(Frame) /\ Allowed(Top, Below) /\ Nest(stack) = Nest(Below) + 1
      /\ Nest(Below) \in Nat /\ \A f : Has(stack, f) <=> f = Top \/ Has(Below, f)
  BY <1>1, Popped
<1>3. zone \in ZoneState /\ zone.nesting = Nest(Below) + 1
  BY <1>2 DEF Coherent, Types, ZoneState, Counted
<1>4. zone.nesting # 0 /\ ~zone.isStable BY <1>2, <1>3 DEF Coherent, Counted
<1>5. zone' = [zone EXCEPT !.nesting = @ - 1] BY DEF Emptied
<1>6. /\ zone'.isStable = zone.isStable /\ zone'.raf = zone.raf
      /\ zone'.checking = zone.checking
  BY <1>3, <1>4, <1>5, LeftZone
<1>7. \A f : Has(Below, f) => f \notin Zoney /\ f # "microDone"
  BY <1>1, <1>2 DEF Allowed, Fits, Emissions
<1>8. Pushed("stable", Below) BY <1>2, Pushes, FrameFacts DEF Emissions
<1>9. Below # <<>> => Head(Below) # "emptied" BY <1>1, <1>2 DEF Allowed
<1> QED BY <1>1, <1>2, <1>4, <1>6, <1>7, <1>8, <1>9 DEF Emptied, Push

LEMMA EmptiedSettled == Coherent /\ Settled /\ Emptied => Settled'
<1> SUFFICES ASSUME Coherent, Settled, Emptied PROVE Settled' OBVIOUS
<1>1. /\ Top = "emptied" /\ ~zone.isStable /\ "event" \in Zoney
      /\ \A f : Has(Below, f) => f \notin Zoney
      /\ \A f : Has(stack, f) <=> f = "emptied" \/ Has(Below, f)
      /\ zone'.isStable = zone.isStable /\ zone'.raf = zone.raf
      /\ zone'.checking = zone.checking
      /\ HasPendingMicrotasks(zone, micro) => stack' = Below
      /\ ~HasPendingMicrotasks(zone, micro) => stack' = Push("stable", Below)
      /\ Pushed("stable", Below)
      /\ Below # <<>> => Head(Below) # "emptied"
  BY EmptiedFacts DEF Zoney, ZoneCode
<1>2. UNCHANGED <<mode, micro, changed>> /\ ~changed BY <1>1 DEF Emptied, Settled
<1>3. Top' # "emptied" BY <1>1 DEF Top, Pushed
<1>4. \A f : f # "stable" => (Has(stack', f) <=> Has(Below, f)) BY <1>1 DEF Pushed
<1>5. ~Has(stack', "event") BY <1>1, <1>4
<1>6. Has(stack', "stable") => ~zone.raf BY <1>1 DEF HasPendingMicrotasks, Settled
<1> QED BY <1>1, <1>2, <1>3, <1>5, <1>6 DEF Settled

LEMMA StableSettled == Coherent /\ Settled /\ Stable => Settled'
<1> SUFFICES ASSUME Coherent, Settled, Stable PROVE Settled' OBVIOUS
<1>1. Top = "stable" /\ Top # "nothing" /\ stack' = Below /\ UNCHANGED <<mode, micro, changed>>
  BY DEF Stable
<1>2. Allowed(Top, Below) /\ \A f : Has(stack, f) <=> f = Top \/ Has(Below, f)
  BY <1>1, Popped
<1>3. zone'.isStable /\ zone'.raf = zone.raf /\ zone'.checking = zone.checking
  BY DEF Stable, Coherent, Types
<1>4. Top' # "emptied" BY <1>1, <1>2 DEF Top, Allowed
<1>5. ~zone.raf BY <1>1, <1>2 DEF Settled
<1>6. "stable" \notin ZoneCode BY DEF ZoneCode
<1> QED BY <1>1, <1>2, <1>3, <1>4, <1>5, <1>6 DEF Settled

LEMMA MicroDoneFacts ==
    ASSUME Coherent, MicroDone
    PROVE  LET emits == Nest(Below) = 0 /\ micro = 1 /\ ~zone.raf
           IN  /\ Top = "microDone" /\ ~zone.isStable /\ micro > 0
               /\ ~zone'.isStable /\ zone'.checking = zone.checking /\ zone'.raf = zone.raf
               /\ emits => stack' = Push("tick", Push("emptied", Below))
               /\ ~emits => stack' = Below
               /\ Pushed("emptied", Below) /\ Pushed("tick", Push("emptied", Below))
<1>1. Top = "microDone" /\ Top # "nothing" /\ Top \notin Zoney
  BY DEF MicroDone, Zoney, ZoneCode
<1>2. /\ Below \in Seq(Frame) /\ Nest(stack) = Nest(Below)
      /\ Dones(stack) = Dones(Below) + 1 /\ Dones(Below) \in Nat /\ Waiting(queue) \in Nat
      /\ Nest(Below) \in Nat /\ Has(stack, "microDone")
  BY <1>1, Popped
<1>3. zone \in ZoneState /\ zone.nesting = Nest(Below) /\ ~zone.isStable
  BY <1>2 DEF Coherent, Types, ZoneState, Counted
<1>4. micro > 0
  <2>1. micro = Waiting(queue) + Dones(stack) BY DEF Coherent, Counted
  <2> QED BY <2>1, <1>2
<1>5. Pushed("emptied", Below) /\ Pushed("tick", Push("emptied", Below))
  <2>1. "tick" \in Frame /\ "emptied" \in Frame BY FrameFacts DEF Emissions
  <2>2. Pushed("emptied", Below) BY <2>1, <1>2, Pushes
  <2>3. Push("emptied", Below) \in Seq(Frame) BY <2>2 DEF Pushed
  <2> QED BY <2>1, <2>2, <2>3, Pushes
<1>6. CASE micro = 1
  <2>1. CheckStable(zone, 0, Below) BY <1>6 DEF MicroDone
  <2>2. Emits(zone, 0) <=> Nest(Below) = 0 /\ ~zone.raf
    BY <1>3 DEF Emits, HasPendingMicrotasks
  <2>3. /\ zone'.isStable = zone.isStable /\ zone'.raf = zone.raf
        /\ zone'.checking = zone.checking
        /\ Emits(zone, 0) => stack' = Push("tick", Push("emptied", Below))
        /\ ~Emits(zone, 0) => stack' = Below
    BY <2>1, <1>2, <1>3, CheckStableStep
  <2> QED BY <2>2, <2>3, <1>1, <1>3, <1>4, <1>5, <1>6
<1>7. CASE micro # 1
  <2>1. stack' = Below /\ zone' = zone BY <1>7 DEF MicroDone
  <2> QED BY <2>1, <1>1, <1>3, <1>4, <1>5, <1>7
<1> QED BY <1>6, <1>7

LEMMA MicroDoneSettled == Coherent /\ Settled /\ MicroDone => Settled'
<1> SUFFICES ASSUME Coherent, Settled, MicroDone PROVE Settled' OBVIOUS
<1> DEFINE emits == Nest(Below) = 0 /\ micro = 1 /\ ~zone.raf
<1>1. /\ Top = "microDone" /\ ~zone.isStable /\ micro > 0
      /\ ~zone'.isStable /\ zone'.checking = zone.checking /\ zone'.raf = zone.raf
      /\ emits => stack' = Push("tick", Push("emptied", Below))
      /\ ~emits => stack' = Below
      /\ Pushed("emptied", Below) /\ Pushed("tick", Push("emptied", Below))
  BY MicroDoneFacts
<1>2. /\ Allowed(Top, Below) /\ \A f : Has(stack, f) <=> f = Top \/ Has(Below, f)
      /\ Known(Below) /\ Shape(Below)
  BY <1>1, Popped
<1>3. micro' = micro - 1 /\ UNCHANGED <<mode, changed>> /\ micro \in Nat
  BY DEF MicroDone, Coherent, Types
<1>4. \A f : f \notin {"tick", "emptied"} => (Has(stack', f) <=> Has(Below, f))
  BY <1>1 DEF Pushed
<1>5. Below # <<>> /\ Head(Below) = "drain" BY <1>1, <1>2 DEF Allowed
<1>6. Top' # "emptied" BY <1>1, <1>5 DEF Top, Pushed
<1>7. changed => (\E f \in ZoneCode : Has(stack', f)) \/ zone.raf \/ micro' > 0
  <2>1. CASE emits
    <3>1. Has(stack', "tick") BY <2>1, <1>1 DEF Pushed
    <3> QED BY <3>1 DEF ZoneCode
  <2>2. CASE ~emits
    <3>1. stack' = Below BY <2>2, <1>1
    <3>2. micro' > 0 \/ micro = 1 BY <1>1, <1>3
    <3>3. ASSUME Nest(Below) # 0 PROVE \E f \in ZoneCode : Has(Below, f)
      <4>1. PICK f \in Zoney : Has(Below, f) BY <3>3, <1>2 DEF Known
      <4>2. CASE f = "emptied"
        <5>1. Has(Below, "tick") BY <4>1, <4>2, <1>2, <1>5 DEF Known
        <5> QED BY <5>1 DEF ZoneCode
      <4> QED BY <4>1, <4>2 DEF Zoney
    <3> QED BY <3>1, <3>2, <3>3, <2>2
  <2> QED BY <2>1, <2>2
<1> HIDE DEF emits
<1> QED BY <1>1, <1>2, <1>3, <1>4, <1>6, <1>7 DEF Settled

LEMMA PopsSettled == Coherent /\ Settled /\ (Told \/ TimerDone \/ FrameEnds) => Settled'
<1> SUFFICES ASSUME Coherent, Settled, Told \/ TimerDone \/ FrameEnds PROVE Settled' OBVIOUS
<1>1. CASE Told
  <2>1. Top \notin ZoneCode \cup {"nothing"} BY <1>1 DEF Told, ZoneCode
  <2>2. zone'.checking = zone.checking /\ zone.checking \in BOOLEAN
    BY <1>1 DEF Told, Coherent, Types
  <2> QED BY <1>1, <2>1, <2>2, PopSettled DEF Told
<1>2. CASE TimerDone
  <2>1. Top \notin ZoneCode \cup {"nothing"} BY <1>2 DEF TimerDone, ZoneCode
  <2> QED BY <1>2, <2>1, PopSettled DEF TimerDone
<1>3. CASE FrameEnds
  <2>1. Top \notin ZoneCode \cup {"nothing"} BY <1>3 DEF FrameEnds, ZoneCode
  <2>2. zone'.isStable = zone.isStable /\ zone'.raf = zone.raf
    BY <1>3 DEF FrameEnds, Coherent, Types
  <2> QED BY <1>3, <2>1, <2>2, PopSettled DEF FrameEnds
<1> QED BY <1>1, <1>2, <1>3

LEMMA DrainSettled == Coherent /\ Settled /\ Drain => Settled'
<1> SUFFICES ASSUME Coherent, Settled, Drain PROVE Settled' OBVIOUS
<1>1. CASE /\ stack = <<>> /\ queue # <<>> /\ stack' = <<"drain">>
           /\ UNCHANGED <<mode, zone, micro, macro, tasks, task, queue, changed, silenced, ops>>
  <2>1. \A f : Has(stack', f) <=> f = "drain"
    BY <1>1, EmptyStack DEF Coherent
  <2>2. \A f : ~Has(stack, f) BY <1>1, NothingThere
  <2>3. Top' = "drain" BY <1>1 DEF Top
  <2>4. "drain" \notin ZoneCode BY DEF ZoneCode
  <2> QED BY <1>1, <2>1, <2>2, <2>3, <2>4 DEF Settled
<1>2. CASE Top = "drain" /\ queue # <<>> /\ Head(queue) = "check" /\ Check
  <2>1. UNCHANGED <<mode, zone, micro, changed>> BY <1>2 DEF Check
  <2>2. CASE stack' = stack BY <2>1, <2>2 DEF Settled, Top
  <2>3. CASE stack' = <<"told">> \o stack
    <3>1. stack' = Push("told", stack) /\ stack \in Seq(Frame) BY <2>3 DEF Push, Coherent, Types
    <3>2. Pushed("told", stack) BY <3>1, Pushes, FrameFacts
    <3>3. Top' = "told" /\ \A f : Has(stack', f) <=> f = "told" \/ Has(stack, f)
      BY <3>1, <3>2 DEF Top, Pushed
    <3> QED BY <2>1, <3>3 DEF Settled
  <2> QED BY <1>2, <2>2, <2>3 DEF Check
<1>3. CASE /\ Top = "drain" /\ queue # <<>> /\ Head(queue) = "zone" /\ queue' = Tail(queue)
           /\ Enter("micro", <<"microDone">> \o stack) /\ UNCHANGED <<mode, micro, macro, ops>>
  <2> DEFINE rest == Push("microDone", stack)
  <2>1. stack \in Seq(Frame) BY DEF Coherent, Types
  <2>2. Pushed("microDone", stack) BY <2>1, Pushes, FrameFacts
  <2>3. Enter("micro", rest) BY <1>3 DEF Push
  <2> HIDE DEF rest
  <2>4. rest \in Seq(Frame) /\ \A f \in ZoneCode \cup {"stable"} : Has(rest, f) <=> Has(stack, f)
    BY <2>2 DEF Pushed, ZoneCode, rest
  <2>5. "micro" \in ZoneCode \ {"tick"} BY DEF ZoneCode
  <2> QED BY <1>3, <2>3, <2>4, <2>5, EnterSettled
<1>4. CASE /\ Top \in {"script", "drain"} /\ stack' = Below
           /\ UNCHANGED <<mode, zone, micro, macro, tasks, task, queue, changed, silenced, ops>>
  <2>1. Top \notin ZoneCode \cup {"nothing"} /\ Top # "frame" BY <1>4 DEF ZoneCode
  <2>2. zone.checking \in BOOLEAN BY DEF Coherent, Types
  <2> QED BY <1>4, <2>1, <2>2, PopSettled
<1> QED BY <1>1, <1>2, <1>3, <1>4 DEF Drain

LEMMA TimerFiresSettled == Coherent /\ Settled /\ TimerFires => Settled'
<1> SUFFICES ASSUME Coherent, Settled, TimerFires PROVE Settled' OBVIOUS
<1> DEFINE rest == <<"timerDone", "drain">>
<1>1. stack = <<>> /\ Types /\ Enter("timer", rest) /\ mode' = mode
  BY DEF TimerFires, Idle, Coherent
<1>2. rest \in Seq(Frame) /\ \A f : Has(rest, f) <=> f \in {"timerDone", "drain"}
  BY <1>1, OnDrain
<1> HIDE DEF rest
<1>3. \A f : ~Has(stack, f) BY <1>1, NothingThere
<1>4. \A f \in ZoneCode \cup {"stable"} : Has(rest, f) <=> Has(stack, f)
  BY <1>2, <1>3 DEF ZoneCode
<1>5. "timer" \in ZoneCode \ {"tick"} BY DEF ZoneCode
<1> QED BY <1>1, <1>2, <1>4, <1>5, EnterSettled

LEMMA FrameFiresFacts ==
    ASSUME Coherent, FrameFires
    PROVE  /\ Types /\ stack = <<>> /\ zone.raf /\ micro = 0
           /\ zone'.isStable = zone.isStable /\ ~zone'.raf /\ zone'.checking
           /\ ~zone.isStable =>
                stack' = Push("tick", Push("emptied", <<"frame", "drain">>))
           /\ zone.isStable => stack' = <<"frame", "drain">>
           /\ Pushed("emptied", <<"frame", "drain">>)
           /\ Pushed("tick", Push("emptied", <<"frame", "drain">>))
           /\ Head(<<"frame", "drain">>) = "frame" /\ <<"frame", "drain">> # <<>>
           /\ \A f : Has(<<"frame", "drain">>, f) <=> f \in {"frame", "drain"}
<1> DEFINE rest == <<"frame", "drain">>
           z == [zone EXCEPT !.raf = FALSE, !.checking = TRUE]
<1>1. stack = <<>> /\ queue = <<>> /\ zone.raf /\ Types /\ CheckStable(z, micro, rest)
  BY DEF FrameFires, Idle, Coherent
<1>2. /\ rest \in Seq(Frame) /\ rest # <<>> /\ Head(rest) = "frame"
      /\ \A f : Has(rest, f) <=> f \in {"frame", "drain"}
  BY <1>1, OnDrain
<1>3. /\ z \in ZoneState /\ z.nesting = zone.nesting /\ z.isStable = zone.isStable
      /\ ~z.raf /\ z.checking
  <2>1. zone \in ZoneState BY <1>1 DEF Types, ZoneState
  <2> QED BY <2>1 DEF ZoneState
<1> HIDE DEF rest, z
<1>4. Waiting(queue) = 0
  <2>1. Queued(queue) BY <1>1, Queues DEF Types
  <2> QED BY <2>1, <1>1 DEF Queued
<1>5. micro = 0 /\ zone.nesting = 0 BY <1>4, <1>1, NothingThere DEF Coherent, Counted
<1>6. Emits(z, micro) <=> ~zone.isStable BY <1>3, <1>5 DEF Emits, HasPendingMicrotasks
<1>7. /\ zone'.isStable = z.isStable /\ zone'.raf = z.raf /\ zone'.checking = z.checking
      /\ Emits(z, micro) => stack' = Push("tick", Push("emptied", rest))
      /\ ~Emits(z, micro) => stack' = rest
      /\ Pushed("emptied", rest) /\ Pushed("tick", Push("emptied", rest))
  BY <1>1, <1>2, <1>3, CheckStableStep
<1> QED BY <1>1, <1>2, <1>3, <1>5, <1>6, <1>7 DEF rest

LEMMA FrameFiresSettled == Coherent /\ Settled /\ FrameFires => Settled'
<1> SUFFICES ASSUME Coherent, Settled, FrameFires PROVE Settled' OBVIOUS
<1>1. /\ stack = <<>> /\ zone.raf /\ ~zone'.raf /\ zone'.checking
      /\ ~zone.isStable => stack' = Push("tick", Push("emptied", <<"frame", "drain">>))
      /\ Pushed("tick", Push("emptied", <<"frame", "drain">>))
  BY FrameFiresFacts
<1>2. ~zone.isStable BY <1>1 DEF Settled
<1>3. Has(stack', "tick") /\ Top' = "tick" BY <1>1, <1>2 DEF Pushed, Top
<1>4. "tick" \in ZoneCode BY DEF ZoneCode
<1> QED BY <1>1, <1>3, <1>4 DEF Settled

LEMMA ScriptSettled == Coherent /\ Settled /\ Script => Settled'
<1> SUFFICES ASSUME Coherent, Settled, Script PROVE Settled' OBVIOUS
<1>1. /\ stack = <<>> /\ stack' = <<"script">> /\ UNCHANGED <<mode, zone, micro, changed>>
  BY DEF Script, Idle
<1>2. \A f : ~Has(stack, f) BY <1>1, NothingThere
<1>3. ~Has(stack', "stable")
  <2>1. Len(<<"script">>) = 1 /\ <<"script">>[1] = "script" OBVIOUS
  <2> QED BY <1>1, <2>1 DEF Has
<1>4. Top' = "script" BY <1>1 DEF Top
<1> QED BY <1>1, <1>2, <1>3, <1>4 DEF Settled

LEMMA RunSettled == Coherent /\ Settled /\ Run => Settled'
<1>1. "run" \in ZoneCode \ {"tick"} BY DEF ZoneCode
<1>2. Coherent => stack \in Seq(Frame) BY DEF Coherent, Types
<1> QED BY <1>1, <1>2, EnterSettled DEF Run

LEMMA EventSettled == Coherent /\ Settled /\ "onStable" \notin Gaps /\ Event => Settled'
<1> SUFFICES ASSUME Coherent, Settled, "onStable" \notin Gaps, Event PROVE Settled' OBVIOUS
<1> DEFINE rest == (IF InStack("drain") THEN <<>> ELSE <<"drain">>) \o stack
<1>1. Enter("event", rest) /\ mode' = mode BY DEF Event
<1>2. stack \in Seq(Frame) BY DEF Coherent, Types
<1>3. InStack("stable") <=> Has(stack, "stable") BY <1>2 DEF InStack, Has
<1>4. ~(mode = "events" /\ Has(stack, "stable") /\ ~zone.checking) BY <1>3 DEF Event
<1>5. rest \in Seq(Frame) /\ \A f \in ZoneCode \cup {"stable"} : Has(rest, f) <=> Has(stack, f)
  <2>1. CASE InStack("drain")
    <3>1. rest = stack BY <1>2, <2>1, ConcatEmptySeq
    <3> QED BY <3>1, <1>2
  <2>2. CASE ~InStack("drain")
    <3>1. rest = Push("drain", stack) BY <2>2 DEF Push
    <3>2. Pushed("drain", stack) BY <1>2, Pushes, FrameFacts
    <3> HIDE DEF rest
    <3> QED BY <3>1, <3>2 DEF Pushed, ZoneCode
  <2> QED BY <2>1, <2>2
<1>6. "event" \in ZoneCode \ {"tick"} BY DEF ZoneCode
<1> HIDE DEF rest
<1> QED BY <1>1, <1>4, <1>5, <1>6, EnterSettled

LEMMA OthersSettled ==
    Coherent /\ Settled /\ (ScheduleMicrotask \/ ScheduleTimer \/ CancelTimer \/ UNCHANGED vars)
      => Settled'
<1> SUFFICES ASSUME Coherent, Settled,
                    ScheduleMicrotask \/ ScheduleTimer \/ CancelTimer \/ UNCHANGED vars
             PROVE  Settled'
  OBVIOUS
<1>1. UNCHANGED <<mode, zone, stack, changed>>
  BY DEF ScheduleMicrotask, ScheduleTimer, CancelTimer, vars
<1>2. micro' = micro + 1 \/ micro' = micro
  BY DEF ScheduleMicrotask, ScheduleTimer, CancelTimer, vars
<1>3. micro > 0 => micro' > 0 BY <1>2 DEF Coherent, Types
<1> QED BY <1>1, <1>3 DEF Settled, Top

LEMMA StepSettled == Coherent /\ Settled /\ "onStable" \notin Gaps /\ [Next]_vars => Settled'
BY LeaveSettled, EmptiedSettled, StableSettled, MicroDoneSettled, PopsSettled, DrainSettled,
   TimerFiresSettled, FrameFiresSettled, ScriptSettled, RunSettled, EventSettled, OthersSettled
   DEF Next, System, Application

LEMMA InitSettled == Init => Settled
<1> SUFFICES ASSUME Init PROVE Settled OBVIOUS
<1>1. \A f : Has(stack, f) <=> f \in {"run", "script"} BY InitStack DEF Init
<1>2. Top = "run" BY DEF Init, Top
<1>3. ~zone.isStable /\ ~zone.raf BY DEF Init
<1> QED BY <1>1, <1>2, <1>3 DEF Settled, ZoneCode

LEMMA SettledImplies == Coherent /\ Settled => WorkIsChecked
<1> SUFFICES ASSUME Coherent, Settled, Idle, ~zone.raf PROVE ~changed BY DEF WorkIsChecked
<1>1. \A f : ~Has(stack, f) BY NothingThere DEF Idle
<1>2. Waiting(queue) = 0
  <2>1. Queued(queue) BY Queues DEF Coherent, Types
  <2> QED BY <2>1 DEF Queued, Idle
<1>3. micro = 0 BY <1>2, NothingThere DEF Coherent, Counted, Idle
<1> QED BY <1>1, <1>3 DEF Settled

\* Once the zone is idle and no animation frame is asked for, everything that
\* changed in it has been through change detection, for an application that does
\* not dispatch coalesced events from its onStable subscribers.
THEOREM AllWorkIsChecked == ASSUME "onStable" \notin Gaps PROVE Spec => []WorkIsChecked
<1>1. Init => Coherent /\ Settled BY InitCoherent, InitSettled
<1>2. Coherent /\ Settled /\ [Next]_vars => (Coherent /\ Settled)' BY StepCoherent, StepSettled
<1>3. Coherent /\ Settled => WorkIsChecked BY SettledImplies
<1> QED BY <1>1, <1>2, <1>3, PTL DEF Spec

-----------------------------------------------------------------------------
\* The pending task is held exactly from the first onUnstable until the removal is
\* told, an unstable zone holds it, and without it no microtask or timer is left.
Held ==
  /\ tasks.has <=> task # None /\ Top # "told"
  /\ tasks.pending = IF tasks.has THEN {task} ELSE {}
  /\ ~zone.isStable => tasks.has
  /\ ~tasks.has => micro = 0 /\ macro = 0

\* The third inductive invariant. A zone that is unstable, with no frame asked for
\* and no microtask left, is so because its code, or its onStable, runs right now,
\* over no drain: so a check that is drained finds a stable zone or pending work.
Quiet ==
  /\ Calm(stack)
  /\ ~zone.isStable /\ ~zone.raf /\ micro = 0 => Busy(stack)
  /\ Held

\* The task stays, and so does what is told.
LEMMA StayHeld ==
    ASSUME Coherent, Quiet, UNCHANGED <<tasks, task>>, Top # "told",
           stack' \in Seq(Frame), Has(stack', "told") => Has(stack, "told"),
           ~zone'.isStable => ~zone.isStable,
           ~tasks.has => micro' = 0 /\ macro' = 0
    PROVE  Held'
<1>1. tasks.has => ~Has(stack', "told")
  <2>1. tasks.has => tasks.pending # {} BY DEF Quiet, Held
  <2>2. Has(stack, "told") => tasks.pending = {} BY DEF Coherent, OneTask
  <2> QED BY <2>1, <2>2
<1>2. Top' = "told" => Has(stack', "told")
  <2>1. Top' = "told" => stack' # <<>> /\ Head(stack') = "told" BY DEF Top
  <2> QED BY <2>1, HeadHas
<1>3. tasks.has <=> task # None BY DEF Quiet, Held
<1>4. ~zone'.isStable => tasks.has BY DEF Quiet, Held
<1> QED BY <1>1, <1>2, <1>3, <1>4 DEF Quiet, Held

LEMMA EnterQuiet ==
    ASSUME Coherent, Quiet, NEW code \in ZoneCode \ {"tick"}, NEW rest \in Seq(Frame),
           Enter(code, rest), Calm(rest), Top # "told"
    PROVE  Quiet'
<1>1. code \in Frame /\ code # "told" /\ code # "drain" /\ code \in Zoney
  BY DEF Frame, ZoneCode, Zoney
<1>2. stack' = Push(code, rest) /\ Pushed(code, rest) BY <1>1, Pushes DEF Enter, Push
<1>3. Calm(stack') /\ Busy(stack') /\ stack' # <<>> /\ Head(stack') = code
  BY <1>1, <1>2 DEF Pushed
<1>4. Top' = code BY <1>3 DEF Top
<1>5. ~zone'.isStable
  <2>1. zone \in ZoneState BY DEF Coherent, Types, ZoneState
  <2>2. zone' = [zone EXCEPT !.nesting = @ + 1, !.isStable = FALSE] BY DEF Enter
  <2> QED BY <2>1, <2>2, EnteredZone
<1>6. tasks'.has /\ task' # None /\ tasks'.pending = {task'}
  <2>1. CASE zone.isStable /\ task = None
    <3>1. tasks.pending = {} BY <2>1 DEF Coherent, OneTask
    <3>2. \E id \in TaskId : id \notin tasks.pending BY <3>1, NgZoneAssumption
    <3>3. NewTask(tasks) \in TaskId BY <3>2 DEF NewTask
    <3>4. task' = NewTask(tasks) /\ tasks' = [pending |-> {NewTask(tasks)}, has |-> TRUE]
      BY <2>1, <3>1 DEF Enter, Added
    <3> HIDE DEF NewTask
    <3> QED BY <3>3, <3>4, NgZoneAssumption
  <2>2. CASE ~(zone.isStable /\ task = None)
    <3>1. UNCHANGED <<tasks, task>> BY <2>2 DEF Enter
    <3>2. tasks.has BY <2>2 DEF Quiet, Held
    <3> QED BY <3>1, <3>2 DEF Quiet, Held
  <2> QED BY <2>1, <2>2
<1>7. Held' BY <1>1, <1>4, <1>6 DEF Held
<1> QED BY <1>3, <1>7 DEF Quiet

LEMMA LeaveQuiet == Coherent /\ Quiet /\ Leave => Quiet'
<1> SUFFICES ASSUME Coherent, Quiet, Leave PROVE Quiet' OBVIOUS
<1> DEFINE r == zone.raf \/ (Coalesces(Top) /\ ~zone.checking)
           emits == Nest(Below) = 0 /\ micro = 0 /\ ~r
<1>1. /\ Top \in ZoneCode /\ ~zone.isStable
      /\ ~zone'.isStable /\ zone'.raf = r
      /\ emits => stack' = Push("tick", Push("emptied", Below))
      /\ ~emits => stack' = Below
      /\ Pushed("emptied", Below) /\ Pushed("tick", Push("emptied", Below))
  BY LeaveFacts
<1>2. /\ Top \in Frame /\ Below \in Seq(Frame) /\ stack = Push(Top, Below)
      /\ \A f : Has(stack, f) <=> f = Top \/ Has(Below, f)
      /\ Known(Below)
  BY <1>1, Popped DEF ZoneCode
<1>3. Calm(Below)
  <2>1. Pushed(Top, Below) BY <1>2, Pushes
  <2> QED BY <2>1, <1>2 DEF Pushed, Quiet
<1>4. UNCHANGED <<tasks, task, micro, macro>> BY DEF Leave
<1>5. /\ Calm(stack') /\ stack' \in Seq(Frame)
      /\ Has(stack', "told") => Has(stack, "told")
      /\ micro = 0 /\ ~r => Busy(stack')
  <2>1. CASE emits
    <3>1. Has(stack', "told") => Has(Below, "told") BY <2>1, <1>1 DEF Pushed
    <3>2. Calm(stack') /\ stack' \in Seq(Frame) BY <2>1, <1>1, <1>3 DEF Pushed
    <3>3. Busy(stack') BY <2>1, <1>1 DEF Pushed, Zoney, ZoneCode
    <3> QED BY <3>1, <3>2, <3>3, <1>2
  <2>2. CASE ~emits
    <3>1. micro = 0 /\ ~r => Busy(Below) BY <2>2, <1>2, <1>3 DEF Known
    <3> QED BY <3>1, <2>2, <1>1, <1>2, <1>3
  <2> QED BY <2>1, <2>2
<1>6. Top # "told" BY <1>1 DEF ZoneCode
<1>7. ~tasks.has => micro' = 0 /\ macro' = 0 BY <1>4 DEF Quiet, Held
<1>8. Held' BY <1>1, <1>4, <1>5, <1>6, <1>7, StayHeld
<1> HIDE DEF r, emits
<1> QED BY <1>1, <1>4, <1>5, <1>8 DEF Quiet

LEMMA EmptiedQuiet == Coherent /\ Quiet /\ Emptied => Quiet'
<1> SUFFICES ASSUME Coherent, Quiet, Emptied PROVE Quiet' OBVIOUS
<1>1. /\ Top = "emptied" /\ Below \in Seq(Frame) /\ ~zone.isStable
      /\ \A f : Has(stack, f) <=> f = "emptied" \/ Has(Below, f)
      /\ zone'.isStable = zone.isStable /\ zone'.raf = zone.raf
      /\ HasPendingMicrotasks(zone, micro) => stack' = Below
      /\ ~HasPendingMicrotasks(zone, micro) => stack' = Push("stable", Below)
      /\ Pushed("stable", Below)
  BY EmptiedFacts
<1>2. stack = Push("emptied", Below) /\ Pushed("emptied", Below)
  BY <1>1, Popped, Pushes DEF Frame
<1>3. Calm(Below) BY <1>2 DEF Pushed, Quiet
<1>4. UNCHANGED <<tasks, task, micro, macro>> BY DEF Emptied
<1>5. /\ Calm(stack') /\ stack' \in Seq(Frame)
      /\ Has(stack', "told") => Has(stack, "told")
      /\ micro = 0 /\ ~zone.raf => Busy(stack')
  <2>1. CASE HasPendingMicrotasks(zone, micro)
    <3>1. zone.raf \/ micro # 0 BY <2>1 DEF HasPendingMicrotasks
    <3> QED BY <3>1, <2>1, <1>1, <1>3
  <2>2. CASE ~HasPendingMicrotasks(zone, micro) BY <2>2, <1>1, <1>3 DEF Pushed
  <2> QED BY <2>1, <2>2
<1>6. Top # "told" BY <1>1
<1>7. ~tasks.has => micro' = 0 /\ macro' = 0 BY <1>4 DEF Quiet, Held
<1>8. Held' BY <1>1, <1>4, <1>5, <1>6, <1>7, StayHeld
<1> QED BY <1>1, <1>4, <1>5, <1>8 DEF Quiet

LEMMA StableQuiet == Coherent /\ Quiet /\ Stable => Quiet'
<1> SUFFICES ASSUME Coherent, Quiet, Stable PROVE Quiet' OBVIOUS
<1>1. Top = "stable" /\ stack' = Below /\ UNCHANGED <<tasks, task, micro, macro>>
  BY DEF Stable
<1>2. /\ Below \in Seq(Frame) /\ stack = Push(Top, Below) /\ Pushed(Top, Below)
      /\ \A f : Has(stack, f) <=> f = Top \/ Has(Below, f)
  BY <1>1, Popped, Pushes
<1>3. Calm(stack') BY <1>1, <1>2 DEF Pushed, Quiet
<1>4. zone'.isStable BY DEF Stable, Coherent, Types
<1>5. ~tasks.has => micro' = 0 /\ macro' = 0 BY <1>1 DEF Quiet, Held
<1>6. Held' BY <1>1, <1>2, <1>4, <1>5, StayHeld
<1> QED BY <1>3, <1>4, <1>6 DEF Quiet

LEMMA ToldQuiet == Coherent /\ Quiet /\ Told => Quiet'
<1> SUFFICES ASSUME Coherent, Quiet, Told PROVE Quiet' OBVIOUS
<1>1. Top = "told" /\ stack' = Below /\ task' = None /\ UNCHANGED <<zone, tasks, micro, macro>>
  BY DEF Told
<1>2. /\ stack = Push(Top, Below) /\ Pushed(Top, Below) BY <1>1, Popped, Pushes
<1>3. Calm(stack') BY <1>1, <1>2 DEF Pushed, Quiet
<1>4. ~tasks.has /\ zone.isStable BY <1>1 DEF Quiet, Held
<1>5. Held' BY <1>1, <1>4 DEF Quiet, Held
<1> QED BY <1>1, <1>3, <1>4, <1>5 DEF Quiet

LEMMA MicroDoneQuiet == Coherent /\ Quiet /\ MicroDone => Quiet'
<1> SUFFICES ASSUME Coherent, Quiet, MicroDone PROVE Quiet' OBVIOUS
<1> DEFINE emits == Nest(Below) = 0 /\ micro = 1 /\ ~zone.raf
<1>1. /\ Top = "microDone" /\ ~zone.isStable /\ micro > 0
      /\ ~zone'.isStable /\ zone'.raf = zone.raf
      /\ emits => stack' = Push("tick", Push("emptied", Below))
      /\ ~emits => stack' = Below
      /\ Pushed("emptied", Below) /\ Pushed("tick", Push("emptied", Below))
  BY MicroDoneFacts
<1>2. /\ Below \in Seq(Frame) /\ stack = Push(Top, Below) /\ Pushed(Top, Below)
      /\ \A f : Has(stack, f) <=> f = Top \/ Has(Below, f)
      /\ Known(Below)
  BY <1>1, Popped, Pushes
<1>3. Calm(Below) BY <1>2 DEF Pushed, Quiet
<1>4. UNCHANGED <<tasks, task, macro>> /\ micro' = micro - 1 /\ micro \in Nat
  BY DEF MicroDone, Coherent, Types
<1>5. /\ Calm(stack') /\ stack' \in Seq(Frame)
      /\ Has(stack', "told") => Has(stack, "told")
      /\ micro' = 0 /\ ~zone.raf => Busy(stack')
  <2>1. CASE emits
    <3>1. Has(stack', "told") => Has(Below, "told") BY <2>1, <1>1 DEF Pushed
    <3>2. Calm(stack') /\ stack' \in Seq(Frame) BY <2>1, <1>1, <1>3 DEF Pushed
    <3>3. Busy(stack') BY <2>1, <1>1 DEF Pushed, Zoney, ZoneCode
    <3> QED BY <3>1, <3>2, <3>3, <1>2
  <2>2. CASE ~emits
    <3>1. micro' = 0 => micro = 1 BY <1>4
    <3>2. micro = 1 /\ ~zone.raf => Busy(Below) BY <2>2, <1>2, <1>3 DEF Known
    <3> QED BY <3>1, <3>2, <2>2, <1>1, <1>2, <1>3
  <2> QED BY <2>1, <2>2
<1>6. tasks.has BY <1>1 DEF Quiet, Held
<1>7. Top # "told" BY <1>1
<1>8. Held' BY <1>1, <1>4, <1>5, <1>6, <1>7, StayHeld
<1> HIDE DEF emits
<1> QED BY <1>1, <1>5, <1>8 DEF Quiet

\* The end of code outside the zone, of a drain, a timer or an animation frame.
LEMMA PopQuiet ==
    ASSUME Coherent, Quiet, Top \in {"script", "drain", "timerDone", "frame"}, stack' = Below,
           zone'.isStable = zone.isStable, zone'.raf = zone.raf,
           UNCHANGED <<tasks, task, micro>>, ~tasks.has => macro' = 0
    PROVE  Quiet'
<1>1. Top # "nothing" /\ Top \notin Zoney \cup {"stable"} /\ Top # "told"
  BY DEF Zoney, ZoneCode
<1>2. /\ Below \in Seq(Frame) /\ stack = Push(Top, Below) /\ Pushed(Top, Below)
      /\ \A f : Has(stack, f) <=> f = Top \/ Has(Below, f)
  BY <1>1, Popped, Pushes
<1>3. Calm(stack') /\ (Busy(stack) => Busy(stack')) BY <1>1, <1>2 DEF Pushed, Quiet
<1>4. ~tasks.has => micro' = 0 /\ macro' = 0 BY DEF Quiet, Held
<1>5. stack' \in Seq(Frame) /\ (Has(stack', "told") => Has(stack, "told")) BY <1>2
<1>6. Held' BY <1>1, <1>4, <1>5, StayHeld
<1> QED BY <1>3, <1>6 DEF Quiet

LEMMA PopsQuiet == Coherent /\ Quiet /\ (TimerDone \/ FrameEnds) => Quiet'
<1> SUFFICES ASSUME Coherent, Quiet, TimerDone \/ FrameEnds PROVE Quiet' OBVIOUS
<1>1. CASE TimerDone
  <2>1. tasks.has
    <3>1. Top = "timerDone" BY <1>1 DEF TimerDone
    <3>2. macro > 0 BY <3>1, Popped DEF Coherent, TimerCounted
    <3> QED BY <3>2 DEF Quiet, Held
  <2> QED BY <1>1, <2>1, PopQuiet DEF TimerDone
<1>2. CASE FrameEnds
  <2>1. zone'.isStable = zone.isStable /\ zone'.raf = zone.raf
    BY <1>2 DEF FrameEnds, Coherent, Types
  <2>2. ~tasks.has => macro' = 0 BY <1>2 DEF FrameEnds, Quiet, Held
  <2> QED BY <1>2, <2>1, <2>2, PopQuiet DEF FrameEnds
<1> QED BY <1>1, <1>2

LEMMA CheckQuiet == Coherent /\ Quiet /\ Top = "drain" /\ Check => Quiet'
<1> SUFFICES ASSUME Coherent, Quiet, Top = "drain", Check PROVE Quiet' OBVIOUS
<1>1. UNCHANGED <<zone, micro, macro, task>> BY DEF Check
<1>2. CASE UNCHANGED <<tasks, stack>> BY <1>1, <1>2 DEF Quiet, Held, Top
<1>3. CASE /\ task # None /\ macro = 0 /\ ~HasPendingMicrotasks(zone, micro)
           /\ tasks' = Removed(tasks, task) /\ stack' = <<"told">> \o stack
  <2>1. stack' = Push("told", stack) /\ stack \in Seq(Frame) BY <1>3 DEF Push, Coherent, Types
  <2>2. Pushed("told", stack) BY <2>1, Pushes, FrameFacts
  <2>3. Top' = "told" /\ Calm(stack') BY <2>1, <2>2 DEF Top, Pushed, Quiet
  <2>4. micro = 0 /\ ~zone.raf
    BY <1>3 DEF HasPendingMicrotasks, Coherent, Types
  <2>5. ~Busy(stack)
    <3>1. stack = Push(Top, Below) /\ Pushed(Top, Below) BY Popped, Pushes
    <3> QED BY <3>1 DEF Pushed, Zoney, ZoneCode
  <2>6. zone.isStable BY <2>4, <2>5 DEF Quiet
  <2>7. tasks.pending \ {task} = {} BY DEF Coherent, OneTask
  <2>8. tasks' = [pending |-> {}, has |-> FALSE] BY <1>3, <2>7 DEF Removed
  <2>9. Held' BY <1>1, <1>3, <2>3, <2>4, <2>6, <2>8 DEF Held
  <2> QED BY <1>1, <2>3, <2>6, <2>9 DEF Quiet
<1> QED BY <1>2, <1>3 DEF Check

LEMMA DrainQuiet == Coherent /\ Quiet /\ Drain => Quiet'
<1> SUFFICES ASSUME Coherent, Quiet, Drain PROVE Quiet' OBVIOUS
<1>1. CASE /\ stack = <<>> /\ queue # <<>> /\ stack' = <<"drain">>
           /\ UNCHANGED <<mode, zone, micro, macro, tasks, task, queue, changed, silenced, ops>>
  <2>1. /\ \A f : Has(stack', f) <=> f = "drain"
        /\ Push("drain", <<>>) = <<"drain">> /\ Pushed("drain", <<>>) /\ stack' \in Seq(Frame)
    BY <1>1, EmptyStack DEF Coherent
  <2>2. Calm(stack') BY <1>1, <2>1, NothingThere DEF Pushed
  <2>3. ~Busy(stack) /\ Top # "told" BY <1>1, NothingThere DEF Top
  <2>4. ~tasks.has => micro' = 0 /\ macro' = 0 BY <1>1 DEF Quiet, Held
  <2>5. ~Has(stack', "told") BY <2>1
  <2>6. Held' BY <1>1, <2>1, <2>3, <2>4, <2>5, StayHeld
  <2> QED BY <1>1, <2>2, <2>3, <2>6 DEF Quiet
<1>2. CASE Top = "drain" /\ queue # <<>> /\ Head(queue) = "check" /\ Check
  BY <1>2, CheckQuiet
<1>3. CASE /\ Top = "drain" /\ queue # <<>> /\ Head(queue) = "zone" /\ queue' = Tail(queue)
           /\ Enter("micro", <<"microDone">> \o stack) /\ UNCHANGED <<mode, micro, macro, ops>>
  <2> DEFINE rest == Push("microDone", stack)
  <2>1. stack \in Seq(Frame) BY DEF Coherent, Types
  <2>2. Pushed("microDone", stack) BY <2>1, Pushes, FrameFacts
  <2>3. Enter("micro", rest) BY <1>3 DEF Push
  <2> HIDE DEF rest
  <2>4. rest \in Seq(Frame) /\ Calm(rest) BY <2>2 DEF Pushed, Quiet, rest
  <2>5. "micro" \in ZoneCode \ {"tick"} BY DEF ZoneCode
  <2> QED BY <1>3, <2>3, <2>4, <2>5, EnterQuiet
<1>4. CASE /\ Top \in {"script", "drain"} /\ stack' = Below
           /\ UNCHANGED <<mode, zone, micro, macro, tasks, task, queue, changed, silenced, ops>>
  <2>1. ~tasks.has => macro' = 0 BY <1>4 DEF Quiet, Held
  <2> QED BY <1>4, <2>1, PopQuiet
<1> QED BY <1>1, <1>2, <1>3, <1>4 DEF Drain

LEMMA TimerFiresQuiet == Coherent /\ Quiet /\ TimerFires => Quiet'
<1> SUFFICES ASSUME Coherent, Quiet, TimerFires PROVE Quiet' OBVIOUS
<1> DEFINE rest == <<"timerDone", "drain">>
<1>1. stack = <<>> /\ Types /\ Enter("timer", rest) BY DEF TimerFires, Idle, Coherent
<1>2. /\ rest = Push("timerDone", <<"drain">>) /\ rest \in Seq(Frame)
      /\ Pushed("timerDone", <<"drain">>)
  BY <1>1, OnDrain
<1>3. Push("drain", <<>>) = <<"drain">> /\ Pushed("drain", <<>>) BY <1>1, EmptyStack
<1>4. Calm(<<"drain">>) BY <1>3, NothingThere DEF Pushed
<1> HIDE DEF rest
<1>5. Calm(rest) BY <1>2, <1>4 DEF Pushed
<1>6. "timer" \in ZoneCode \ {"tick"} /\ Top # "told" BY <1>1 DEF ZoneCode, Top
<1> QED BY <1>1, <1>2, <1>5, <1>6, EnterQuiet

LEMMA FrameFiresQuiet == Coherent /\ Quiet /\ FrameFires => Quiet'
<1> SUFFICES ASSUME Coherent, Quiet, FrameFires PROVE Quiet' OBVIOUS
<1> DEFINE rest == <<"frame", "drain">>
<1>1. /\ Types /\ stack = <<>> /\ zone'.isStable = zone.isStable
      /\ ~zone.isStable => stack' = Push("tick", Push("emptied", rest))
      /\ zone.isStable => stack' = rest
      /\ Pushed("emptied", rest) /\ Pushed("tick", Push("emptied", rest))
      /\ \A f : Has(rest, f) <=> f \in {"frame", "drain"}
  BY FrameFiresFacts
<1>2. rest = Push("frame", <<"drain">>) /\ Pushed("frame", <<"drain">>) /\ rest \in Seq(Frame)
  BY <1>1, OnDrain
<1>3. Push("drain", <<>>) = <<"drain">> /\ Pushed("drain", <<>>) BY <1>1, EmptyStack
<1>4. Calm(<<"drain">>) BY <1>3, NothingThere DEF Pushed
<1> HIDE DEF rest
<1>5. Calm(rest) BY <1>2, <1>4 DEF Pushed
<1>6. Calm(stack') /\ stack' \in Seq(Frame) /\ ~Has(stack', "told")
  <2>1. CASE zone.isStable BY <2>1, <1>1, <1>2, <1>5
  <2>2. CASE ~zone.isStable
    <3>1. ~Has(rest, "told") BY <1>1
    <3>2. ~Has(Push("emptied", rest), "told") BY <3>1, <1>1 DEF Pushed
    <3>3. ~Has(stack', "told") BY <3>2, <2>2, <1>1 DEF Pushed
    <3>4. Calm(stack') /\ stack' \in Seq(Frame) BY <2>2, <1>1, <1>2, <1>5 DEF Pushed
    <3> QED BY <3>3, <3>4
  <2> QED BY <2>1, <2>2
<1>7. ~zone.isStable => Busy(stack') BY <1>1 DEF Pushed, Zoney, ZoneCode
<1>8. Top # "told" BY <1>1 DEF Top
<1>9. UNCHANGED <<tasks, task>> /\ (~tasks.has => micro' = 0 /\ macro' = 0)
  BY DEF FrameFires, Quiet, Held
<1>10. Held' BY <1>1, <1>6, <1>8, <1>9, StayHeld
<1> QED BY <1>1, <1>6, <1>7, <1>10 DEF Quiet

LEMMA ScriptQuiet == Coherent /\ Quiet /\ Script => Quiet'
<1> SUFFICES ASSUME Coherent, Quiet, Script PROVE Quiet' OBVIOUS
<1>1. /\ stack = <<>> /\ stack' = <<"script">>
      /\ UNCHANGED <<zone, micro, macro, tasks, task>>
  BY DEF Script, Idle
<1>2. Len(<<"script">>) = 1 /\ <<"script">>[1] = "script" OBVIOUS
<1>3. Calm(stack') /\ ~Has(stack', "told") BY <1>1, <1>2 DEF Calm, Has
<1>4. stack' \in Seq(Frame) BY <1>1, FrameFacts
<1>5. Top # "told" /\ ~Busy(stack) BY <1>1, NothingThere DEF Top
<1>6. ~tasks.has => micro' = 0 /\ macro' = 0 BY <1>1 DEF Quiet, Held
<1>7. Held' BY <1>1, <1>3, <1>4, <1>5, <1>6, StayHeld
<1> QED BY <1>1, <1>3, <1>5, <1>7 DEF Quiet

LEMMA RunQuiet == Gaps = {} /\ Coherent /\ Quiet /\ Run => Quiet'
<1>1. "run" \in ZoneCode \ {"tick"} BY DEF ZoneCode
<1>2. Coherent => stack \in Seq(Frame) BY DEF Coherent, Types
<1>3. Gaps = {} /\ Run => Top # "told" BY DEF Run, ZoneCode
<1>4. Quiet => Calm(stack) BY DEF Quiet
<1> QED BY <1>1, <1>2, <1>3, <1>4, EnterQuiet DEF Run

LEMMA EventQuiet == Gaps = {} /\ Coherent /\ Quiet /\ Event => Quiet'
<1> SUFFICES ASSUME Gaps = {}, Coherent, Quiet, Event PROVE Quiet' OBVIOUS
<1> DEFINE rest == (IF InStack("drain") THEN <<>> ELSE <<"drain">>) \o stack
<1>1. Enter("event", rest) BY DEF Event
<1>2. stack \in Seq(Frame) BY DEF Coherent, Types
<1>3. Top # "told" BY DEF Event, Idle, Top, ZoneCode
<1>4. rest \in Seq(Frame) /\ Calm(rest)
  <2>1. CASE InStack("drain")
    <3>1. rest = stack BY <1>2, <2>1, ConcatEmptySeq
    <3> QED BY <3>1, <1>2 DEF Quiet
  <2>2. CASE ~InStack("drain")
    <3>1. rest = Push("drain", stack) BY <2>2 DEF Push
    <3>2. Pushed("drain", stack) BY <1>2, Pushes, FrameFacts
    <3>3. \A f \in Zoney : ~Has(stack, f)
      <4>1. CASE stack = <<>> BY <4>1, NothingThere
      <4>2. CASE Top \in {"script", "stable"}
        <5>1. /\ \A f : Has(stack, f) <=> f = Top \/ Has(Below, f)
              /\ Allowed(Top, Below)
          BY <4>2, Popped
        <5>2. Top \notin Zoney BY <4>2 DEF Zoney, ZoneCode
        <5>3. Top = "script" => \A f : ~Has(Below, f) BY <5>1, NothingThere DEF Allowed
        <5>4. Top = "stable" => \A f \in Zoney : ~Has(Below, f) BY <5>1 DEF Allowed, Fits
        <5> QED BY <4>2, <5>1, <5>2, <5>3, <5>4
      <4> QED BY <2>2, <4>1, <4>2 DEF Event, Idle
    <3> HIDE DEF rest
    <3> QED BY <3>1, <3>2, <3>3 DEF Pushed, Quiet
  <2> QED BY <2>1, <2>2
<1>5. "event" \in ZoneCode \ {"tick"} BY DEF ZoneCode
<1> HIDE DEF rest
<1> QED BY <1>1, <1>3, <1>4, <1>5, EnterQuiet

LEMMA OthersQuiet ==
    Coherent /\ Quiet /\ (ScheduleMicrotask \/ ScheduleTimer \/ CancelTimer \/ UNCHANGED vars)
      => Quiet'
<1> SUFFICES ASSUME Coherent, Quiet,
                    ScheduleMicrotask \/ ScheduleTimer \/ CancelTimer \/ UNCHANGED vars
             PROVE  Quiet'
  OBVIOUS
<1>1. UNCHANGED <<zone, stack, tasks, task>>
  BY DEF ScheduleMicrotask, ScheduleTimer, CancelTimer, vars
<1>2. micro \in Nat /\ macro \in Nat BY DEF Coherent, Types
<1>3. (micro' = 0 => micro = 0) /\ (~tasks.has => micro' = 0 /\ macro' = 0)
  <2>1. CASE ScheduleMicrotask \/ ScheduleTimer
    <3>1. Top \in ZoneCode /\ Top # "nothing" /\ Top \in Zoney
      BY <2>1 DEF ScheduleMicrotask, ScheduleTimer, ZoneCode, Zoney
    <3>2. Nest(stack) = Nest(Below) + 1 /\ Nest(Below) \in Nat BY <3>1, Popped
    <3>3. ~zone.isStable BY <3>2 DEF Coherent, Counted
    <3>4. tasks.has BY <3>3 DEF Quiet, Held
    <3>5. micro' = micro \/ micro' = micro + 1
      BY <2>1 DEF ScheduleMicrotask, ScheduleTimer
    <3> QED BY <3>4, <3>5, <1>2
  <2>2. CASE CancelTimer
    <3>1. micro' = micro /\ macro > 0 BY <2>2, <1>2 DEF CancelTimer
    <3> QED BY <3>1 DEF Quiet, Held
  <2>3. CASE UNCHANGED vars BY <2>3 DEF vars, Quiet, Held
  <2> QED BY <2>1, <2>2, <2>3
<1> QED BY <1>1, <1>3 DEF Quiet, Held, Top

LEMMA StepQuiet == Gaps = {} /\ Coherent /\ Quiet /\ [Next]_vars => Quiet'
BY LeaveQuiet, EmptiedQuiet, StableQuiet, ToldQuiet, MicroDoneQuiet, PopsQuiet, DrainQuiet,
   TimerFiresQuiet, FrameFiresQuiet, ScriptQuiet, RunQuiet, EventQuiet, OthersQuiet
   DEF Next, System, Application

LEMMA InitQuiet == Gaps = {} /\ Init => Quiet
<1> SUFFICES ASSUME Gaps = {}, Init PROVE Quiet OBVIOUS
<1>1. Calm(stack) /\ Busy(stack) /\ Top = "run" BY InitStack DEF Init, Top
<1>2. macro = 0 BY DEF Init
<1>3. \E id \in TaskId : id \notin NoTasks.pending BY NgZoneAssumption DEF NoTasks
<1>4. NewTask(NoTasks) \in TaskId BY <1>3 DEF NewTask
<1>5. task = NewTask(NoTasks) /\ tasks = [pending |-> {task}, has |-> TRUE]
  BY <1>2 DEF Init, Added, NoTasks
<1>6. task # None BY <1>4, <1>5, NgZoneAssumption
<1>7. Held BY <1>1, <1>5, <1>6 DEF Held
<1> QED BY <1>1, <1>7 DEF Quiet

LEMMA QuietImplies == Coherent /\ Settled /\ Quiet => StableIsIdle
<1> SUFFICES ASSUME Coherent, Settled, Quiet, ~tasks.has
             PROVE  /\ micro = 0 /\ macro = 0 /\ ~zone.raf /\ ~changed
                    /\ \A f \in ZoneCode : ~InStack(f)
  BY DEF StableIsIdle
<1>1. zone.isStable /\ micro = 0 /\ macro = 0 BY DEF Quiet, Held
<1>2. ~zone.raf BY <1>1 DEF Settled
<1>3. Nest(stack) = 0 BY <1>1 DEF Coherent, Counted
<1>4. \A f \in Zoney : ~Has(stack, f) BY <1>3, Knows DEF Coherent, Types, Known
<1>5. \A f \in ZoneCode : ~Has(stack, f) BY <1>4 DEF Zoney
<1>6. ~changed BY <1>1, <1>2, <1>5 DEF Settled
<1>7. \A f : InStack(f) <=> Has(stack, f) BY DEF InStack, Has, Coherent, Types
<1> QED BY <1>1, <1>2, <1>5, <1>6, <1>7

\* When ApplicationRef.isStable is true (the pending task of the zone is gone), the
\* zone has no microtask, timer or animation frame left, nothing of it is running
\* and nothing is unchecked, in an application with none of the Gaps.
THEOREM StableMeansIdle == ASSUME Gaps = {} PROVE Spec => []StableIsIdle
<1>1. "onStable" \notin Gaps OBVIOUS
<1>2. Init => Coherent /\ Settled /\ Quiet BY InitCoherent, InitSettled, InitQuiet
<1>3. Coherent /\ Settled /\ Quiet /\ [Next]_vars => (Coherent /\ Settled /\ Quiet)'
  BY <1>1, StepCoherent, StepSettled, StepQuiet
<1>4. Coherent /\ Settled /\ Quiet => StableIsIdle BY QuietImplies
<1> QED BY <1>2, <1>3, <1>4, PTL DEF Spec
=============================================================================
