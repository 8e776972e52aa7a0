------------------------ MODULE EffectSchedulerProof ------------------------
(***************************************************************************)
(* That an aborted flush strands no effect, for any number of effects,     *)
(* zones, changes and nested flushes.  A flush queued as a microtask takes *)
(* at least one effect before it can end, so the flushes still queued are  *)
(* never fewer than the effects, except between the start of the outermost *)
(* flush and the first effect it takes.                                    *)
(***************************************************************************)
EXTENDS EffectScheduler, SequenceTheorems, FiniteSetTheorems, TLAPS

\* Calls of flush() and of run() alternate; the outermost is a flush.
Alternates ==
    /\ stack \in Seq(FlushFrame \cup RunFrame)
    /\ \A k \in 1..Len(stack) : stack[k].at = IF k % 2 = 1 THEN "flush" ELSE "run"

FlushesSuffice ==
    queuedEffectCount <= microtasks + (IF Len(stack) = 1 THEN 1 ELSE 0)

QueueTypes == zones \in Seq(Zone) /\ queue \in [Zone -> Seq(Effect)]

StrandInv ==
    /\ QueueTypes
    /\ queuedEffectCount \in Int /\ microtasks \in Nat
    /\ hasQueuedFlush = FALSE
    /\ Alternates
    /\ FlushesSuffice

LEMMA StackLen == Alternates => Len(stack) \in Nat /\ (Idle <=> Len(stack) = 0)
BY DEF Alternates, Idle

LEMMA TopAt ==
    ASSUME Alternates, ~Idle
    PROVE  Top.at = IF Len(stack) % 2 = 1 THEN "flush" ELSE "run"
<1>1. Len(stack) \in 1..Len(stack) BY StackLen
<1> QED BY <1>1 DEF Alternates, Top

\* A frame of the right kind is pushed.
LEMMA PushAlternates ==
    ASSUME Alternates, NEW f \in FlushFrame \cup RunFrame,
           f.at = IF (Len(stack) + 1) % 2 = 1 THEN "flush" ELSE "run",
           stack' = Append(stack, f)
    PROVE  Alternates' /\ Len(stack') = Len(stack) + 1
<1>1. stack \in Seq(FlushFrame \cup RunFrame) /\ Len(stack) \in Nat BY DEF Alternates
<1>2. /\ stack' \in Seq(FlushFrame \cup RunFrame) /\ Len(stack') = Len(stack) + 1
      /\ \A k \in 1..Len(stack') : stack'[k] = IF k = Len(stack) + 1 THEN f ELSE stack[k]
  BY <1>1
<1>3. \A k \in 1..Len(stack') : k \in 1..Len(stack) \/ k = Len(stack) + 1 BY <1>1, <1>2
<1> QED BY <1>2, <1>3 DEF Alternates

\* Frames are popped.
LEMMA PopAlternates ==
    ASSUME Alternates, NEW n \in Nat, n <= Len(stack), stack' = SubSeq(stack, 1, n)
    PROVE  Alternates' /\ Len(stack') = n
<1>1. stack \in Seq(FlushFrame \cup RunFrame) /\ Len(stack) \in Nat BY DEF Alternates
<1>2. /\ stack' \in Seq(FlushFrame \cup RunFrame) /\ Len(stack') = n
      /\ \A k \in 1..n : stack'[k] = stack[k]
  BY <1>1
<1> QED BY <1>1, <1>2 DEF Alternates

LEMMA PopIsSubSeq ==
    ASSUME Alternates, ~Idle
    PROVE  /\ Pop = SubSeq(stack, 1, Len(stack) - 1)
           /\ Len(stack) - 1 \in Nat /\ Len(stack) - 1 <= Len(stack)
BY StackLen DEF Pop, Front

\* Scheduling an effect brings its own flush.
LEMMA ScheduleSuffices ==
    ASSUME StrandInv, NEW e \in Effect, ScheduleEffect(e), UNCHANGED stack
    PROVE  StrandInv'
<1>1. queuedEffectCount' \in {queuedEffectCount, queuedEffectCount + 1}
  BY DEF ScheduleEffect, Enqueue
<1>2. microtasks' = microtasks + 1 /\ hasQueuedFlush' = FALSE
  BY DEF ScheduleEffect, StrandInv
<1>3. Alternates' BY DEF StrandInv, Alternates
<1>4. queuedEffectCount \in Int /\ microtasks \in Nat BY DEF StrandInv
<1>5. QueueTypes'
  <2> DEFINE z == CreationZone[e]
  <2>1. z \in Zone /\ queue[z] \in Seq(Effect) /\ zones \in Seq(Zone)
    BY ZonesAssumption DEF StrandInv, QueueTypes
  <2>2. zones' = zones \/ zones' = Append(zones, z) BY DEF ScheduleEffect, Enqueue
  <2>3. queue' = queue \/ queue' = [queue EXCEPT ![z] = Append(@, e)]
    BY DEF ScheduleEffect, Enqueue
  <2> HIDE DEF z
  <2>4. Append(zones, z) \in Seq(Zone) /\ Append(queue[z], e) \in Seq(Effect) BY <2>1
  <2> QED BY <2>1, <2>2, <2>3, <2>4 DEF StrandInv, QueueTypes
<1> QED BY <1>1, <1>2, <1>3, <1>4, <1>5 DEF StrandInv, FlushesSuffice

\* Steps that change nothing but the stack, above the outermost flush.
LEMMA StackOnly ==
    ASSUME StrandInv, Alternates',
           UNCHANGED <<queuedEffectCount, microtasks, hasQueuedFlush, zones, queue>>,
           queuedEffectCount <= 0 \/ Len(stack') = 1 \/ Len(stack) # 1
    PROVE  StrandInv'
BY DEF StrandInv, FlushesSuffice, QueueTypes

LEMMA FlushSuffices ==
    ASSUME StrandInv, FlushMicrotask \/ Flush
    PROVE  StrandInv'
<1>1. Alternates /\ Len(stack) \in Nat BY StackLen DEF StrandInv
<1>2. CallFlush => Alternates' /\ Len(stack') = Len(stack) + 1
  <2> SUFFICES ASSUME CallFlush PROVE Alternates' /\ Len(stack') = Len(stack) + 1 OBVIOUS
  <2>1. [at |-> "flush", zone |-> 1] \in FlushFrame BY DEF FlushFrame
  <2>2. (Len(stack) + 1) % 2 = 1
    <3>1. CASE Idle BY <3>1, <1>1, StackLen
    <3>2. CASE ~Idle
      <4>1. Top.at # "flush" BY <3>2 DEF FlushMicrotask, Flush, UserCode, Flushing
      <4>2. Len(stack) % 2 # 1 BY <1>1, <3>2, <4>1, TopAt
      <4> QED BY <1>1, <4>2
    <3> QED BY <3>1, <3>2
  <2> QED BY <1>1, <2>1, <2>2, PushAlternates DEF CallFlush
<1>3. CASE FlushMicrotask
  <2>1. /\ Idle /\ microtasks > 0 /\ microtasks' = microtasks - 1
        /\ UNCHANGED <<queuedEffectCount, hasQueuedFlush, zones, queue>>
        /\ IF queuedEffectCount > 0 THEN CallFlush ELSE UNCHANGED stack
    BY <1>3 DEF FlushMicrotask
  <2>2. Len(stack) = 0 BY <1>1, <2>1, StackLen
  <2>3. CASE queuedEffectCount > 0
    <3>1. Alternates' /\ Len(stack') = 1 BY <1>2, <2>1, <2>2, <2>3
    <3> QED BY <2>1, <2>2, <3>1 DEF StrandInv, FlushesSuffice, QueueTypes
  <2>4. CASE ~(queuedEffectCount > 0)
    <3>1. stack' = stack BY <2>1, <2>4
    <3>2. Alternates' BY <1>1, <3>1 DEF Alternates
    <3> QED BY <2>1, <2>2, <2>4, <3>1, <3>2 DEF StrandInv, FlushesSuffice, QueueTypes
  <2> QED BY <2>3, <2>4
<1>4. CASE Flush
  <2>1. CallFlush /\ UNCHANGED <<queuedEffectCount, hasQueuedFlush, microtasks, zones, queue>>
    BY <1>4 DEF Flush
  <2>2. Alternates' /\ Len(stack') = Len(stack) + 1 BY <1>2, <2>1
  <2>3. Len(stack) # 1
    <3> SUFFICES ASSUME Len(stack) = 1 PROVE FALSE OBVIOUS
    <3>1. ~Idle BY <1>1, StackLen
    <3>2. Top.at = "flush" BY <1>1, <3>1, TopAt
    <3> QED BY <1>4, <3>1, <3>2 DEF Flush, UserCode, Flushing
  <2> QED BY <2>1, <2>2, <2>3, StackOnly
<1> QED BY <1>3, <1>4

\* Whoever takes an effect from a queue needs one flush less.
LEMMA DequeueSuffices ==
    ASSUME StrandInv, Dequeue
    PROVE  StrandInv'
<1>1. /\ Alternates /\ Len(stack) \in Nat /\ ~Idle /\ Top.at = "flush"
      /\ queuedEffectCount' = queuedEffectCount - 1
      /\ UNCHANGED <<hasQueuedFlush, microtasks>>
  BY StackLen DEF StrandInv, Dequeue, Flushing
<1>2. Len(stack) % 2 = 1 /\ (Len(stack) + 1) % 2 # 1
  BY <1>1, TopAt
<1>3. PICK e \in Effect :
         /\ QueueTypes'
         /\ UNCHANGED stack \/ stack' = Append(stack, [at |-> "run", effect |-> e])
  <2> DEFINE z == zones[Top.zone]
  <2>1. Top.zone \in 1..Len(zones)
    <3>1. Len(stack) \in 1..Len(stack) BY <1>1, StackLen
    <3>2. Top \in FlushFrame \cup RunFrame BY <1>1, <3>1, ElementOfSeq DEF Alternates, Top
    <3>3. Top \in FlushFrame BY <1>1, <3>2 DEF RunFrame
    <3>4. zones \in Seq(Zone) /\ Top.zone <= Len(zones)
      BY DEF Dequeue, StrandInv, QueueTypes
    <3> QED BY <3>3, <3>4 DEF FlushFrame
  <2>2. z \in Zone /\ queue[z] \in Seq(Effect) /\ queue[z] # <<>>
    BY <2>1, ElementOfSeq DEF Dequeue, StrandInv, QueueTypes
  <2>3. Head(queue[z]) \in Effect /\ Tail(queue[z]) \in Seq(Effect)
    BY <2>2, HeadTailProperties
  <2>4. queue' = [queue EXCEPT ![z] = Tail(@)] /\ zones' = zones BY DEF Dequeue
  <2>5. UNCHANGED stack \/ stack' = Append(stack, [at |-> "run", effect |-> Head(queue[z])])
    BY DEF Dequeue
  <2> HIDE DEF z
  <2>6. QueueTypes' BY <2>2, <2>3, <2>4 DEF StrandInv, QueueTypes
  <2> QED BY <2>3, <2>5, <2>6
<1>4. CASE UNCHANGED stack
  <2>1. Alternates' BY <1>1, <1>4 DEF Alternates
  <2> QED BY <1>1, <1>3, <1>4, <2>1 DEF StrandInv, FlushesSuffice
<1>5. CASE stack' = Append(stack, [at |-> "run", effect |-> e])
  <2>1. [at |-> "run", effect |-> e] \in RunFrame BY <1>3 DEF RunFrame
  <2>2. Alternates' /\ Len(stack') = Len(stack) + 1
    BY <1>1, <1>2, <1>5, <2>1, PushAlternates
  <2> QED BY <1>1, <1>3, <2>2 DEF StrandInv, FlushesSuffice
<1> QED BY <1>3, <1>4, <1>5

\* The loops of flush() go on, or it returns with nothing queued.
LEMMA LoopSuffices ==
    ASSUME StrandInv, NextZone \/ FlushAgain
    PROVE  StrandInv'
<1>1. /\ Alternates /\ Len(stack) \in Nat \ {0} /\ ~Idle /\ Top.at = "flush"
      /\ UNCHANGED <<queuedEffectCount, microtasks, hasQueuedFlush, zones, queue>>
  BY StackLen DEF StrandInv, NextZone, FlushAgain, Flushing
<1>2. Top \in FlushFrame
  <2>1. Top \in FlushFrame \cup RunFrame BY <1>1, ElementOfSeq DEF Alternates, Top
  <2> QED BY <1>1, <2>1 DEF RunFrame
<1>3. ASSUME NEW z \in Nat \ {0}, stack' = [stack EXCEPT ![Len(stack)].zone = z]
      PROVE  StrandInv'
  <2>1. [Top EXCEPT !.zone = z] \in FlushFrame /\ [Top EXCEPT !.zone = z].at = "flush"
    BY <1>1, <1>2 DEF FlushFrame
  <2>2. stack' = [stack EXCEPT ![Len(stack)] = [Top EXCEPT !.zone = z]]
    BY <1>3 DEF Top
  <2>3. /\ stack' \in Seq(FlushFrame \cup RunFrame) /\ Len(stack') = Len(stack)
        /\ \A k \in 1..Len(stack) : stack'[k].at = stack[k].at
    <3>1. Len(stack) \in 1..Len(stack) /\ stack \in Seq(FlushFrame \cup RunFrame)
      BY <1>1 DEF Alternates
    <3> QED BY <1>1, <2>1, <2>2, <3>1, ExceptSeq DEF Top
  <2>4. Alternates' BY <1>1, <2>3 DEF Alternates
  <2> QED BY <1>1, <2>3, <2>4, StackOnly
<1>4. CASE NextZone
  <2>1. Top.zone + 1 \in Nat \ {0} BY <1>2 DEF FlushFrame
  <2>2. stack' = [stack EXCEPT ![Len(stack)].zone = Top.zone + 1]
    BY <1>4 DEF NextZone, Top
  <2> QED BY <1>3, <2>1, <2>2
<1>5. CASE FlushAgain
  <2>1. CASE queuedEffectCount > 0
    <3>1. stack' = [stack EXCEPT ![Len(stack)].zone = 1] BY <1>5, <2>1 DEF FlushAgain
    <3>2. 1 \in Nat \ {0} OBVIOUS
    <3> QED BY <1>3, <3>1, <3>2
  <2>2. CASE ~(queuedEffectCount > 0)
    <3>1. stack' = Pop BY <1>5, <2>2 DEF FlushAgain
    <3>2. Alternates' BY <1>1, <3>1, PopIsSubSeq, PopAlternates
    <3>3. queuedEffectCount <= 0 BY <2>2 DEF StrandInv
    <3> QED BY <1>1, <3>2, <3>3, StackOnly
  <2> QED BY <2>1, <2>2
<1> QED BY <1>4, <1>5

\* An effect returns or its cleanup function ends the flush that called it.
LEMMA ReturnSuffices ==
    ASSUME StrandInv, Return \/ CleanupThrows
    PROVE  StrandInv'
<1>1. /\ Alternates /\ Len(stack) \in Nat \ {0} /\ ~Idle /\ Top.at = "run"
      /\ UNCHANGED <<queuedEffectCount, microtasks, hasQueuedFlush, zones, queue>>
  BY StackLen DEF StrandInv, Return, CleanupThrows
<1>2. Len(stack) % 2 # 1 BY <1>1, TopAt
<1>3. Len(stack) # 1 /\ Len(stack) - 2 \in Nat
  <2>1. 1 % 2 = 1 OBVIOUS
  <2>2. Len(stack) # 1 BY <1>2, <2>1
  <2>3. PICK n \in Nat \ {0} : n = Len(stack) BY <1>1
  <2>4. n # 1 => n - 2 \in Nat OBVIOUS
  <2> QED BY <2>2, <2>3, <2>4
<1>4. CASE Return
  BY <1>1, <1>3, <1>4, PopIsSubSeq, PopAlternates, StackOnly DEF Return
<1>5. CASE CleanupThrows
  BY <1>1, <1>3, <1>5, PopAlternates, StackOnly DEF CleanupThrows
<1> QED BY <1>4, <1>5

LEMMA NextStrandInv == StrandInv /\ [Next]_vars => StrandInv'
<1> SUFFICES ASSUME StrandInv, [Next]_vars PROVE StrandInv' OBVIOUS
<1>1. ASSUME NEW e \in Effect, Create(e) \/ Change(e) PROVE StrandInv'
  BY <1>1, ScheduleSuffices DEF Create, Change
<1>2. ASSUME NEW e \in Effect, Destroy(e) PROVE StrandInv'
  BY <1>2 DEF Destroy, StrandInv, Alternates, FlushesSuffice, QueueTypes
<1>3. CASE Proceed
  BY <1>3, FlushSuffices, DequeueSuffices, LoopSuffices, ReturnSuffices DEF Proceed
<1>4. CASE UNCHANGED vars
  BY <1>4 DEF vars, StrandInv, Alternates, FlushesSuffice, QueueTypes
<1> QED BY <1>1, <1>2, <1>3, <1>4, FlushSuffices DEF Next, Application

\* Whenever no code runs, there are as many flushes in the microtask queue as
\* there are effects to run: however many flushes are aborted by a throwing
\* cleanup function, no effect is left without a flush to run it.
THEOREM NoEffectStranded == Spec => []NothingStranded
<1>1. Init => StrandInv
  <2> SUFFICES ASSUME Init PROVE StrandInv OBVIOUS
  <2>1. zones \in Seq(Zone) /\ queue \in [Zone -> Seq(Effect)]
        /\ stack \in Seq(FlushFrame \cup RunFrame)
    BY DEF Init
  <2> QED BY <2>1 DEF Init, StrandInv, QueueTypes, Alternates, FlushesSuffice
<1>2. StrandInv /\ [Next]_vars => StrandInv' BY NextStrandInv
<1>3. StrandInv => NothingStranded
  BY StackLen DEF StrandInv, FlushesSuffice, NothingStranded
<1> QED BY <1>1, <1>2, <1>3, PTL DEF Spec

-----------------------------------------------------------------------------
(***************************************************************************)
(* The contents of the queues.  A queue changes at its ends only, and      *)
(* every step changes at most one: what Queued gains or loses with it is   *)
(* one effect, which is what EffectQueue allows.                           *)
(***************************************************************************)
SetTypes ==
    /\ dirty \subseteq created /\ created \subseteq Effect /\ destroyed \subseteq created
    /\ changes \in 0..MaxChanges

\* The effects in the queue of a zone.
InQueue(z) == {queue[z][i] : i \in 1..Len(queue[z])}

LEMMA QueuedIsUnion == Queued = UNION {InQueue(z) : z \in Zone}
BY DEF Queued, InQueue

\* The queue of a zone: each effect once, and of that zone.
QueueOfZone(z) ==
    /\ \A i, j \in 1..Len(queue[z]) : queue[z][i] = queue[z][j] => i = j
    /\ \A i \in 1..Len(queue[z]) : CreationZone[queue[z][i]] = z
    /\ queue[z] # <<>> => Contains(zones, z)

Contents ==
    /\ \A z \in Zone : QueueOfZone(z)
    /\ dirty \ destroyed = Queued \ destroyed
    /\ IsFiniteSet(Queued) /\ queuedEffectCount = Cardinality(Queued)

ExactInv == StrandInv /\ SetTypes /\ Contents

LEMMA QueuedOf ==
    ASSUME NEW e, Contents
    PROVE  e \in Queued <=> CreationZone[e] \in Zone /\ Contains(queue[CreationZone[e]], e)
BY DEF Contents, QueueOfZone, Queued, Contains

\* An effect enters its queue if it is not there.
LEMMA EnqueueExact ==
    ASSUME ExactInv, NEW e \in Effect, Enqueue(e)
    PROVE  /\ Queued' = Queued \cup {e}
           /\ (\A z \in Zone : QueueOfZone(z))'
           /\ IsFiniteSet(Queued') /\ queuedEffectCount' = Cardinality(Queued')
<1> DEFINE z == CreationZone[e]
<1>1. /\ z \in Zone /\ queue \in [Zone -> Seq(Effect)] /\ zones \in Seq(Zone)
      /\ queue[z] \in Seq(Effect) /\ Len(queue[z]) \in Nat
  BY ZonesAssumption DEF ExactInv, StrandInv, QueueTypes
<1>2. /\ zones' = (IF Contains(zones, z) THEN zones ELSE Append(zones, z))
      /\ IF Contains(queue[z], e)
         THEN UNCHANGED <<queue, queuedEffectCount>>
         ELSE /\ queue' = [queue EXCEPT ![z] = Append(@, e)]
              /\ queuedEffectCount' = queuedEffectCount + 1
  BY DEF Enqueue
<1>3. ASSUME NEW y PROVE (Contains(zones, y) => Contains(zones', y)) /\ Contains(zones', z)
  <2>1. CASE Contains(zones, z) BY <1>2, <2>1
  <2>2. CASE ~Contains(zones, z)
    <3>1. zones' = Append(zones, z) BY <1>2, <2>2
    <3>2. /\ Len(zones') = Len(zones) + 1 /\ Len(zones) \in Nat /\ zones'[Len(zones) + 1] = z
          /\ \A i \in 1..Len(zones) : zones'[i] = zones[i]
      BY <1>1, <3>1
    <3> QED BY <3>2 DEF Contains
  <2> QED BY <2>1, <2>2
<1>4. Contents BY DEF ExactInv
<1>5. CASE Contains(queue[z], e)
  <2>1. queue' = queue /\ queuedEffectCount' = queuedEffectCount BY <1>2, <1>5
  <2>2. Queued' = Queued BY <2>1 DEF Queued
  <2>3. e \in Queued BY <1>1, <1>4, <1>5, QueuedOf
  <2>4. \A y \in Zone : QueueOfZone(y)' BY <1>3, <1>4, <2>1 DEF Contents, QueueOfZone
  <2> QED BY <1>4, <2>1, <2>2, <2>3, <2>4 DEF Contents
<1>6. CASE ~Contains(queue[z], e)
  <2>1. queue' = [queue EXCEPT ![z] = Append(@, e)]
        /\ queuedEffectCount' = queuedEffectCount + 1
    BY <1>2, <1>6
  <2>2. /\ queue'[z] = Append(queue[z], e) /\ Len(queue'[z]) = Len(queue[z]) + 1
        /\ queue'[z][Len(queue[z]) + 1] = e
        /\ \A i \in 1..Len(queue[z]) : queue'[z][i] = queue[z][i]
        /\ \A y \in Zone \ {z} : queue'[y] = queue[y]
    BY <1>1, <2>1
  <2> HIDE DEF z
  <2>3. Queued' = Queued \cup {e}
    <3>1. ASSUME NEW y \in Zone \ {z} PROVE InQueue(y)' = InQueue(y)
      BY <2>2 DEF InQueue
    <3>2. InQueue(z)' = InQueue(z) \cup {e} BY <1>1, <2>2 DEF InQueue
    <3>3. Queued' = UNION {InQueue(y)' : y \in Zone} BY DEF Queued, InQueue
    <3>4. \A x : x \in Queued' <=> x \in Queued \cup {e}
      BY <1>1, <3>1, <3>2, <3>3, QueuedIsUnion
    <3> QED BY <3>4
  <2>4. e \notin Queued BY <1>4, <1>6, QueuedOf DEF z
  <2>5. ASSUME NEW y \in Zone PROVE QueueOfZone(y)'
    <3>1. CASE y # z BY <1>3, <1>4, <2>2, <3>1 DEF Contents, QueueOfZone
    <3>2. CASE y = z
      <4>1. \A i \in 1..Len(queue[z]) : queue[z][i] # e BY <1>6 DEF Contains
      <4>2. CreationZone[e] = z BY DEF z
      <4>3. \A i \in 1..Len(queue'[z]) : i \in 1..Len(queue[z]) \/ i = Len(queue[z]) + 1
        BY <1>1, <2>2
      <4>4. \A i, j \in 1..Len(queue'[z]) : queue'[z][i] = queue'[z][j] => i = j
        BY <1>1, <1>4, <2>2, <4>1, <4>3 DEF Contents, QueueOfZone
      <4>5. \A i \in 1..Len(queue'[z]) : CreationZone[queue'[z][i]] = z
        BY <1>1, <1>4, <2>2, <4>2, <4>3 DEF Contents, QueueOfZone
      <4> QED BY <1>3, <3>2, <4>4, <4>5 DEF QueueOfZone
    <3> QED BY <3>1, <3>2
  <2> QED BY <1>4, <2>1, <2>3, <2>4, <2>5, FS_AddElement DEF Contents
<1> QED BY <1>5, <1>6

\* The first of a queue leaves it.
LEMMA DequeueExact ==
    ASSUME ExactInv, NEW z \in Zone, queue[z] # <<>>,
           queue' = [queue EXCEPT ![z] = Tail(@)], zones' = zones,
           queuedEffectCount' = queuedEffectCount - 1
    PROVE  /\ Head(queue[z]) \in Queued \cap Effect
           /\ Queued' = Queued \ {Head(queue[z])}
           /\ (\A y \in Zone : QueueOfZone(y))'
           /\ IsFiniteSet(Queued') /\ queuedEffectCount' = Cardinality(Queued')
<1> DEFINE e == Head(queue[z])
<1>1. /\ queue \in [Zone -> Seq(Effect)] /\ queue[z] \in Seq(Effect)
      /\ Len(queue[z]) \in Nat \ {0}
  BY EmptySeq DEF ExactInv, StrandInv, QueueTypes
<1>2. /\ e = queue[z][1] /\ e \in Effect
      /\ Len(queue'[z]) = Len(queue[z]) - 1
      /\ \A i \in 1..Len(queue'[z]) : queue'[z][i] = queue[z][i + 1]
      /\ \A y \in Zone \ {z} : queue'[y] = queue[y]
  BY <1>1
<1>3. Contents BY DEF ExactInv
<1> HIDE DEF e
<1>4. e \in Queued BY <1>1, <1>2 DEF Queued
<1>5. CreationZone[e] = z BY <1>1, <1>2, <1>3 DEF Contents, QueueOfZone
<1>6. Queued' = Queued \ {e}
  <2>1. ASSUME NEW y \in Zone \ {z} PROVE InQueue(y)' = InQueue(y) \ {e}
    <3>1. InQueue(y)' = InQueue(y) BY <1>2 DEF InQueue
    <3>2. e \notin InQueue(y) BY <1>3, <1>5 DEF Contents, QueueOfZone, InQueue
    <3> QED BY <3>1, <3>2
  <2>2. InQueue(z)' = InQueue(z) \ {e}
    <3>1. ASSUME NEW i \in 1..Len(queue'[z])
          PROVE  i + 1 \in 1..Len(queue[z]) /\ queue'[z][i] = queue[z][i + 1] /\ queue[z][i + 1] # e
      BY <1>1, <1>2, <1>3 DEF Contents, QueueOfZone
    <3>2. ASSUME NEW i \in 1..Len(queue[z]), queue[z][i] # e
          PROVE  i - 1 \in 1..Len(queue'[z]) /\ queue'[z][i - 1] = queue[z][i]
      <4>1. i # 1 BY <1>2, <3>2
      <4>2. i - 1 \in 1..Len(queue'[z]) BY <1>1, <1>2, <4>1
      <4> QED BY <1>2, <4>2
    <3>3. ASSUME NEW x \in InQueue(z)' PROVE x \in InQueue(z) \ {e}
      BY <3>1, <3>3 DEF InQueue
    <3>4. ASSUME NEW x \in InQueue(z) \ {e} PROVE x \in InQueue(z)'
      <4>1. PICK i \in 1..Len(queue[z]) : x = queue[z][i] BY <3>4 DEF InQueue
      <4>2. i - 1 \in 1..Len(queue'[z]) /\ queue'[z][i - 1] = x BY <3>2, <3>4, <4>1
      <4> QED BY <4>2 DEF InQueue
    <3> QED BY <3>3, <3>4
  <2>3. Queued' = UNION {InQueue(y)' : y \in Zone} BY DEF Queued, InQueue
  <2>4. \A x : x \in Queued' <=> x \in Queued \ {e} BY <2>1, <2>2, <2>3, QueuedIsUnion
  <2> QED BY <2>4
<1>7. ASSUME NEW y \in Zone PROVE QueueOfZone(y)'
  <2>1. CASE y # z BY <1>2, <1>3, <2>1 DEF Contents, QueueOfZone
  <2>2. CASE y = z
    <3>1. \A i \in 1..Len(queue'[z]) : i + 1 \in 1..Len(queue[z]) BY <1>1, <1>2
    <3>2. queue[z] # <<>> => Contains(zones, z) BY <1>3 DEF Contents, QueueOfZone
    <3> QED BY <1>1, <1>2, <1>3, <2>2, <3>1, <3>2 DEF Contents, QueueOfZone
  <2> QED BY <2>1, <2>2
<1>8. IsFiniteSet(Queued') /\ Cardinality(Queued') = Cardinality(Queued) - 1
  BY <1>3, <1>4, <1>6, FS_RemoveElement DEF Contents
<1> QED BY <1>2, <1>3, <1>4, <1>6, <1>7, <1>8 DEF Contents, e

\* Steps that leave the queues alone.
LEMMA QueuesStay ==
    ASSUME ExactInv, StrandInv', SetTypes', UNCHANGED <<queue, zones, queuedEffectCount>>,
           dirty' = dirty, destroyed' = destroyed \/ \E e : destroyed' = destroyed \cup {e}
    PROVE  ExactInv' /\ Queued' = Queued
<1>1. Queued' = Queued BY DEF Queued
<1>2. \A z \in Zone : QueueOfZone(z)' BY DEF ExactInv, Contents, QueueOfZone
<1>3. dirty' \ destroyed' = Queued' \ destroyed' BY <1>1 DEF ExactInv, Contents
<1> QED BY <1>1, <1>2, <1>3 DEF ExactInv, Contents

LEMMA ScheduleStep ==
    ASSUME ExactInv, NEW e \in Effect, Create(e) \/ Change(e)
    PROVE  ExactInv' /\ Promise!ScheduleEffect(e)
<1>1. StrandInv' BY NextStrandInv DEF ExactInv, Next, Application
<1>2. Enqueue(e) /\ dirty' = dirty \cup {e} /\ destroyed' = destroyed /\ e \notin destroyed
  BY DEF Create, Change, ScheduleEffect, ExactInv, SetTypes
<1>3. SetTypes' BY ZonesAssumption DEF ExactInv, SetTypes, Create, Change
<1>4. dirty' \ destroyed' = Queued' \ destroyed'
  BY <1>2, EnqueueExact DEF ExactInv, Contents
<1> QED BY <1>1, <1>2, <1>3, <1>4, EnqueueExact DEF ExactInv, Contents, Promise!ScheduleEffect

LEMMA DequeueStep ==
    ASSUME ExactInv, Dequeue
    PROVE  ExactInv' /\ \E e \in Effect : Promise!RunEffect(e)
<1>1. StrandInv' BY NextStrandInv DEF ExactInv, Next, Proceed
<1> DEFINE z == zones[Top.zone]
<1>2. z \in Zone
  <2>1. /\ Alternates /\ ~Idle /\ Top.at = "flush" /\ zones \in Seq(Zone)
        /\ Top.zone <= Len(zones)
    BY DEF ExactInv, StrandInv, QueueTypes, Dequeue, Flushing
  <2>2. Len(stack) \in 1..Len(stack) BY <2>1, StackLen
  <2>3. Top \in FlushFrame \cup RunFrame BY <2>1, <2>2, ElementOfSeq DEF Alternates, Top
  <2>4. Top \in FlushFrame BY <2>1, <2>3 DEF RunFrame
  <2>5. Top.zone \in 1..Len(zones) BY <2>1, <2>4 DEF FlushFrame
  <2> QED BY <2>1, <2>5, ElementOfSeq
<1>3. /\ queue[z] # <<>> /\ queue' = [queue EXCEPT ![z] = Tail(@)] /\ zones' = zones
      /\ queuedEffectCount' = queuedEffectCount - 1
      /\ UNCHANGED <<created, destroyed, changes>>
      /\ dirty' = IF Head(queue[z]) \in destroyed THEN dirty ELSE dirty \ {Head(queue[z])}
  BY DEF Dequeue
<1> HIDE DEF z
<1>4. PICK e \in Effect :
         /\ e \in Queued /\ Queued' = Queued \ {e}
         /\ dirty' = IF e \in destroyed THEN dirty ELSE dirty \ {e}
  BY <1>2, <1>3, DequeueExact
<1>5. SetTypes' BY <1>3 DEF ExactInv, SetTypes
<1>6. dirty' \ destroyed' = Queued' \ destroyed' BY <1>3, <1>4 DEF ExactInv, Contents
<1> QED
  BY <1>1, <1>2, <1>3, <1>4, <1>5, <1>6, DequeueExact
  DEF ExactInv, Contents, Promise!RunEffect

LEMMA ExactStep ==
    ASSUME ExactInv, [Next]_vars
    PROVE  ExactInv' /\ [Promise!Next]_Queued
<1>0. StrandInv' BY NextStrandInv DEF ExactInv
<1>1. ASSUME NEW e \in Effect, Create(e) \/ Change(e) PROVE ExactInv' /\ [Promise!Next]_Queued
  BY <1>1, ScheduleStep DEF Promise!Next
<1>2. ASSUME NEW e \in Effect, Destroy(e) PROVE ExactInv' /\ [Promise!Next]_Queued
  <2>1. SetTypes' BY <1>2 DEF Destroy, ExactInv, SetTypes
  <2> QED BY <1>0, <1>2, <2>1, QueuesStay DEF Destroy
<1>3. CASE Dequeue BY <1>3, DequeueStep DEF Promise!Next
<1>4. CASE \/ Flush \/ FlushMicrotask \/ NextZone \/ FlushAgain \/ Return \/ CleanupThrows
           \/ UNCHANGED vars
  <2>1. UNCHANGED <<dirty, created, destroyed, queuedEffectCount, zones, queue, changes>>
    BY <1>4 DEF Flush, FlushMicrotask, NextZone, FlushAgain, Return, CleanupThrows, vars
  <2>2. SetTypes' BY <2>1 DEF ExactInv, SetTypes
  <2> QED BY <1>0, <2>1, <2>2, QueuesStay
<1> QED BY <1>1, <1>2, <1>3, <1>4 DEF Next, Application, Proceed

LEMMA ExactInit == Init => ExactInv /\ Promise!Init
<1> SUFFICES ASSUME Init PROVE ExactInv /\ Promise!Init OBVIOUS
<1>1. zones \in Seq(Zone) /\ queue \in [Zone -> Seq(Effect)]
      /\ stack \in Seq(FlushFrame \cup RunFrame)
  BY DEF Init
<1>2. StrandInv BY <1>1 DEF Init, StrandInv, QueueTypes, Alternates, FlushesSuffice
<1>3. \A z \in Zone : queue[z] = <<>> /\ Len(queue[z]) = 0 BY DEF Init
<1>4. Queued = {} BY <1>3 DEF Queued
<1>5. \A z \in Zone : QueueOfZone(z) BY <1>3 DEF QueueOfZone
<1>6. SetTypes BY ZonesAssumption DEF Init, SetTypes
<1>7. Contents BY <1>4, <1>5, FS_EmptySet DEF Init, Contents
<1> QED BY <1>2, <1>4, <1>6, <1>7 DEF ExactInv, Promise!Init

LEMMA ExactInvariant == Spec => []ExactInv
BY ExactInit, ExactStep, PTL DEF Spec

\* The variables of the scheduler have their types; in particular the count of
\* effects queued never goes below zero.
THEOREM TypeCorrect == Spec => []TypeOK
<1>1. ExactInv => TypeOK
  BY FS_CardinalityType
  DEF ExactInv, StrandInv, SetTypes, Contents, QueueTypes, Alternates, TypeOK
<1> QED BY <1>1, ExactInvariant, PTL

\* Through any nesting and any aborted flush the queues hold the dirty effects,
\* each once, and the count is their number.
THEOREM QueuesStayExact == Spec => []QueuesExact
<1>1. ASSUME ExactInv PROVE QueuesExact
  <2>1. ASSUME NEW z \in Zone PROVE IsInjective(queue[z])
    <3>1. DOMAIN queue[z] = 1..Len(queue[z]) BY <1>1 DEF ExactInv, StrandInv, QueueTypes
    <3> QED BY <1>1, <3>1 DEF ExactInv, Contents, QueueOfZone, IsInjective
  <2> QED BY <1>1, <2>1 DEF ExactInv, Contents, QueueOfZone, QueuesExact
<1> QED BY <1>1, ExactInvariant, PTL

\* The scheduler does nothing that the contract of EffectScheduler (effect.ts)
\* does not allow: an effect handed over is taken once, and nothing else is.
THEOREM Implements == Spec => Promise!Safety
<1>1. Init => Promise!Init BY ExactInit
<1>2. ExactInv /\ [Next]_vars => [Promise!Next]_Queued BY ExactStep
<1> QED BY <1>1, <1>2, ExactInvariant, PTL DEF Spec, Promise!Safety
=============================================================================
