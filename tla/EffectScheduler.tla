-------------------------- MODULE EffectScheduler --------------------------
(***************************************************************************)
(* ZoneAwareEffectScheduler of effect.ts: a queue of effects for each zone *)
(* in which effects were created, flushed by microtasks and, in tests, by  *)
(* explicit calls.  The effects run user code, which may schedule effects, *)
(* create and destroy them, and call flush() again; a cleanup function may *)
(* throw, which aborts the flush.                                          *)
(*                                                                         *)
(* Of an effect's watch (watch.ts) only the dirty flag is kept: an effect  *)
(* is scheduled when it becomes dirty and clean again when it starts.      *)
(***************************************************************************)
EXTENDS Naturals, SequencesExt

CONSTANTS
    Effect,
    Zone,
    CreationZone,   \* CreationZone[e]: the zone e is created in
    MaxChanges,     \* bound: times a signal read by an effect changes
    MaxDepth        \* bound: flush() and run() calls in progress at once

ASSUME ZonesAssumption ==
    /\ CreationZone \in [Effect -> Zone]
    /\ MaxChanges \in Nat /\ MaxDepth \in Nat

VARIABLES
    dirty,              \* the effects whose watch is dirty
    created, destroyed,
    hasQueuedFlush, queuedEffectCount,
    zones,              \* keys of the Map queues, in the order of insertion
    queue,              \* queue[z]: the Set queues.get(z), in that order
    microtasks,         \* flushes in the microtask queue
    stack,              \* calls of flush() and run() in progress, innermost last
    changes             \* counts what MaxChanges bounds

vars == <<dirty, created, destroyed, hasQueuedFlush, queuedEffectCount, zones, queue,
          microtasks, stack, changes>>

FlushFrame == [at : {"flush"}, zone : Nat \ {0}]
RunFrame   == [at : {"run"}, effect : Effect]

TypeOK ==
    /\ dirty \subseteq created
    /\ created \subseteq Effect /\ destroyed \subseteq created
    /\ hasQueuedFlush \in BOOLEAN
    /\ queuedEffectCount \in Nat /\ microtasks \in Nat
    /\ zones \in Seq(Zone)
    /\ queue \in [Zone -> Seq(Effect)]
    /\ stack \in Seq(FlushFrame \cup RunFrame)
    /\ changes \in 0..MaxChanges

Init ==
    /\ dirty = {} /\ created = {} /\ destroyed = {}
    /\ hasQueuedFlush = FALSE
    /\ queuedEffectCount = 0
    /\ zones = <<>>
    /\ queue = [z \in Zone |-> <<>>]
    /\ microtasks = 0
    /\ stack = <<>>
    /\ changes = 0

Idle == stack = <<>>
Top  == stack[Len(stack)]
Pop  == Front(stack)
Flushing == ~Idle /\ Top.at = "flush"
\* User code is running: the application's own, or that of an effect.
UserCode == ~Flushing

-----------------------------------------------------------------------------
\* Mutant: the size is not counted for the first effect of a zone.
EnqueueUncounted(e) ==
    LET z == CreationZone[e] IN
    /\ zones' = IF Contains(zones, z) THEN zones ELSE Append(zones, z)
    /\ IF Contains(queue[z], e)
       THEN UNCHANGED <<queue, queuedEffectCount>>
       ELSE /\ queue' = [queue EXCEPT ![z] = Append(@, e)]
            /\ queuedEffectCount' =
                  IF Contains(zones, z) THEN queuedEffectCount + 1 ELSE queuedEffectCount

Enqueue(e) ==
    LET z == CreationZone[e] IN
    /\ zones' = IF Contains(zones, z) THEN zones ELSE Append(zones, z)
    /\ IF Contains(queue[z], e)
       THEN UNCHANGED <<queue, queuedEffectCount>>
       ELSE /\ queue' = [queue EXCEPT ![z] = Append(@, e)]
            /\ queuedEffectCount' = queuedEffectCount + 1

\* Mutant: the flag is left set, as its comment says, and never reset.
ScheduleEffectOnce(e) ==
    /\ Enqueue(e)
    /\ hasQueuedFlush' = TRUE
    /\ microtasks' = IF hasQueuedFlush THEN microtasks ELSE microtasks + 1

\* scheduleEffect: a microtask is queued, and the flag is left as it was.
ScheduleEffect(e) ==
    /\ Enqueue(e)
    /\ IF hasQueuedFlush
       THEN UNCHANGED <<microtasks, hasQueuedFlush>>
       ELSE /\ microtasks' = microtasks + 1
            /\ hasQueuedFlush' = FALSE

-----------------------------------------------------------------------------
\* effect(): the watch is notified once to trigger its first run.
Create(e) ==
    /\ UserCode
    /\ e \notin created
    /\ created' = created \cup {e}
    /\ dirty' = dirty \cup {e}
    /\ ScheduleEffect(e)
    /\ UNCHANGED <<destroyed, stack, changes>>

\* A signal e has read changes: a clean watch becomes dirty and is scheduled.
Change(e) ==
    /\ UserCode
    /\ e \in created \ (destroyed \cup dirty)
    /\ changes < MaxChanges
    /\ changes' = changes + 1
    /\ dirty' = dirty \cup {e}
    /\ ScheduleEffect(e)
    /\ UNCHANGED <<created, destroyed, stack>>

\* EffectHandle.destroy: a scheduled effect stays in its queue.
Destroy(e) ==
    /\ UserCode
    /\ e \in created \ destroyed
    /\ destroyed' = destroyed \cup {e}
    /\ UNCHANGED <<dirty, created, hasQueuedFlush, queuedEffectCount, zones, queue,
                   microtasks, stack, changes>>

-----------------------------------------------------------------------------
CallFlush == stack' = Append(stack, [at |-> "flush", zone |-> 1])

FlushMicrotask ==
    /\ Idle /\ microtasks > 0
    /\ microtasks' = microtasks - 1
    /\ IF queuedEffectCount > 0 THEN CallFlush ELSE UNCHANGED stack
    /\ UNCHANGED <<dirty, created, destroyed, hasQueuedFlush, queuedEffectCount, zones,
                   queue, changes>>

\* TestBed.flushEffects or ComponentFixture.detectChanges, also from an effect.
Flush ==
    /\ UserCode /\ queuedEffectCount > 0
    /\ Len(stack) < MaxDepth
    /\ CallFlush
    /\ UNCHANGED <<dirty, created, destroyed, hasQueuedFlush, queuedEffectCount, zones,
                   queue, microtasks, changes>>

\* Mutant: an effect that was destroyed leaves its queue uncounted.
DequeueUncounted ==
    /\ Flushing /\ Top.zone <= Len(zones)
    /\ LET z == zones[Top.zone] IN
        /\ queue[z] # <<>>
        /\ LET e == Head(queue[z]) IN
            /\ queue' = [queue EXCEPT ![z] = Tail(@)]
            /\ IF e \in destroyed
               THEN UNCHANGED <<dirty, stack, queuedEffectCount>>
               ELSE /\ dirty' = dirty \ {e}
                    /\ stack' = Append(stack, [at |-> "run", effect |-> e])
                    /\ queuedEffectCount' = queuedEffectCount - 1
    /\ UNCHANGED <<created, destroyed, hasQueuedFlush, zones, microtasks, changes>>

\* flushQueue takes the next effect of the Set.  What an iterator has passed
\* is deleted, so the next one is the first, whoever else is iterating.
Dequeue ==
    /\ Flushing /\ Top.zone <= Len(zones)
    /\ LET z == zones[Top.zone] IN
        /\ queue[z] # <<>>
        /\ LET e == Head(queue[z]) IN
            /\ queue' = [queue EXCEPT ![z] = Tail(@)]
            /\ IF e \in destroyed
               THEN UNCHANGED <<dirty, stack>>
               ELSE /\ dirty' = dirty \ {e}
                    /\ stack' = Append(stack, [at |-> "run", effect |-> e])
    /\ queuedEffectCount' = queuedEffectCount - 1
    /\ UNCHANGED <<created, destroyed, hasQueuedFlush, zones, microtasks, changes>>

NextZone ==
    /\ Flushing /\ Top.zone <= Len(zones)
    /\ queue[zones[Top.zone]] = <<>>
    /\ stack' = [stack EXCEPT ![Len(stack)].zone = @ + 1]
    /\ UNCHANGED <<dirty, created, destroyed, hasQueuedFlush, queuedEffectCount, zones,
                   queue, microtasks, changes>>

\* The end of the loop over the zones, in the loop until nothing is queued.
FlushAgain ==
    /\ Flushing /\ Top.zone > Len(zones)
    /\ stack' = IF queuedEffectCount > 0
                THEN [stack EXCEPT ![Len(stack)].zone = 1] ELSE Pop
    /\ UNCHANGED <<dirty, created, destroyed, hasQueuedFlush, queuedEffectCount, zones,
                   queue, microtasks, changes>>

\* The effect returns, or throws: runEffect catches what the effect throws.
Return ==
    /\ ~Idle /\ Top.at = "run"
    /\ stack' = Pop
    /\ UNCHANGED <<dirty, created, destroyed, hasQueuedFlush, queuedEffectCount, zones,
                   queue, microtasks, changes>>

\* The cleanup function of a previous run throws out of run(): the flush ends
\* there.  Had an effect called it, runEffect catches; that effect goes on.
CleanupThrows ==
    /\ ~Idle /\ Top.at = "run"
    /\ stack' = SubSeq(stack, 1, Len(stack) - 2)
    /\ UNCHANGED <<dirty, created, destroyed, hasQueuedFlush, queuedEffectCount, zones,
                   queue, microtasks, changes>>

-----------------------------------------------------------------------------
Application ==
    \/ \E e \in Effect : Create(e) \/ Change(e) \/ Destroy(e)
    \/ Flush

\* What is running ends, and the event loop drains its microtasks.
Proceed == FlushMicrotask \/ Dequeue \/ NextZone \/ FlushAgain \/ Return \/ CleanupThrows

Next == Application \/ Proceed

Spec == Init /\ [][Next]_vars
FairSpec == Spec /\ WF_vars(Proceed)

-----------------------------------------------------------------------------
Queued == UNION {{queue[z][i] : i \in 1..Len(queue[z])} : z \in Zone}

\* The queues hold the effects that are dirty, each once and under its own zone,
\* and the count is their number, through nested and aborted flushes: a count
\* above it would make flush() loop forever, a count below it end it early.
QueuesExact ==
    /\ dirty \ destroyed = Queued \ destroyed
    /\ \A z \in Zone :
        /\ IsInjective(queue[z])
        /\ \A i \in 1..Len(queue[z]) : CreationZone[queue[z][i]] = z
        /\ queue[z] # <<>> => Contains(zones, z)
    /\ queuedEffectCount = Cardinality(Queued)

\* An effect in a queue has a flush coming to it, even when cleanup functions
\* abort one flush after the other ("TODO: what happens if this throws an
\* error?"): its watch is dirty, so nothing would ever schedule it again.
NothingStranded ==
    Idle => queuedEffectCount <= microtasks

Promise == INSTANCE EffectQueue WITH pending <- Queued

\* The scheduler keeps its promise: what is handed over is run, once.
KeepsPromise == Promise!Spec
=============================================================================
