------------------------------ MODULE Signals ------------------------------
(***************************************************************************)
(* The reactive graph of @angular/core/primitives/signals: writable        *)
(* signals, memoizing computeds and watches (the base of effects), and the *)
(* push/pull algorithm that keeps them consistent.                         *)
(*                                                                         *)
(* JavaScript runs to completion, but the algorithm calls user code (the   *)
(* computation of a computed, the function of a watch) from the middle of  *)
(* its own loops, and that code calls it again.  The variable stack is     *)
(* the part of the JavaScript call stack that matters: who is being        *)
(* brought up to date, polled or executed, and how far it has got.  What   *)
(* runs between two calls of user code is one step.                        *)
(*                                                                         *)
(* The arrays of live consumers are not state here: the live consumers of  *)
(* a producer are derived from the dependency lists (IsLive below).        *)
(* Module LiveEdges models the arrays and shows that they hold just that.  *)
(***************************************************************************)
EXTENDS Naturals, Sequences, Reach

CONSTANTS
    Signal,       \* writable signals, signal()
    Computed,     \* memoizing signals, computed()
    Watch,        \* watches, the nodes of effect()
    Value,        \* the values a signal may hold
    InitialValue, \* InitialValue[s]: what signal(...) was created with
    Program,      \* the applications considered
    Body,         \* Body[p][n][t]: what the user code of n does next in p, when
                  \* its previous operations in this run gave the results t
    AllowWrites,  \* AllowWrites[p]: watches created with allowSignalWrites
    FragileCleanup, \* FragileCleanup[p]: watches that register cleanup functions
                  \* that may throw
    MaxOps,       \* bound: operations in one run of user code
    MaxEpoch,     \* bound: no write from outside once the epoch is this high
    UNSET, COMPUTING, ERRORED,  \* the sentinel values of computed.ts
    DONE,         \* result of an operation that returns nothing
    NoNode        \* hole of a sparse producerNode array

Producer == Signal \cup Computed
Consumer == Computed \cup Watch
Node     == Signal \cup Computed \cup Watch

Outcome == Value \cup {ERRORED}
\* A read returns the value field whatever it holds; that no read ever returns
\* UNSET or COMPUTING is for the algorithm to ensure (SignalsRef!GlitchFree).
Content == Value \cup {UNSET, COMPUTING, ERRORED}
Result  == Content \cup {DONE}
Trace   == UNION {[1..k -> Result] : k \in 0..MaxOps}

Op == [op : {"read", "peek"}, node : Producer]
        \cup [op : {"set"}, node : Signal, val : Value]
        \cup [op : {"destroy"}, node : Watch]
        \cup [op : {"return"}, val : Outcome]

ASSUME NodesDisjoint ==
    /\ Signal \cap Computed = {} /\ Signal \cap Watch = {} /\ Computed \cap Watch = {}
    /\ NoNode \notin Node
ASSUME ValuesDistinct ==
    /\ {UNSET, COMPUTING, ERRORED, DONE} \cap Value = {}
    /\ UNSET # COMPUTING /\ UNSET # ERRORED /\ COMPUTING # ERRORED /\ DONE # ERRORED
    /\ InitialValue \in [Signal -> Value]
ASSUME BoundsAssumption == MaxOps \in Nat /\ MaxEpoch \in Nat
\* User code terminates, and only watches have side effects.
ASSUME BodyAssumption ==
    /\ AllowWrites \in [Program -> SUBSET Watch]
    /\ FragileCleanup \in [Program -> SUBSET Watch]
    /\ Body \in [Program -> [Consumer -> [Trace -> Op]]]
    /\ \A p \in Program, n \in Consumer, t \in Trace :
          /\ Len(t) = MaxOps => Body[p][n][t].op = "return"
          /\ n \in Computed => Body[p][n][t].op # "destroy"

VARIABLES
    program,    \* the application that runs; never changes
    value, version, lastCleanEpoch, dirty,  \* fields of a ReactiveNode
    deps,       \* producerNode with producerLastReadVersion, by consumer
    nextIndex,  \* nextProducerIndex
    epoch,      \* the global epoch
    hasRun,     \* watches whose function has run
    destroyed,  \* watches after destroy(): fn and schedule are null
    scheduled,  \* watches handed to their schedule hook and not yet run
    stack       \* calls in progress, the innermost last

nodeVars  == <<value, version, lastCleanEpoch, dirty>>
edgeVars  == <<deps, nextIndex>>
watchVars == <<hasRun, destroyed, scheduled>>
vars == <<program, value, version, lastCleanEpoch, dirty, deps, nextIndex, epoch,
          hasRun, destroyed, scheduled, stack>>

Dep   == [node : Producer \cup {NoNode}, seen : Nat]
Frame == [at : {"update", "poll", "polled", "body", "await"}, node : Node,
          i : Nat, trace : Trace, old : Content]

TypeOK ==
    /\ program \in Program
    /\ value \in [Node -> Content]
    /\ version \in [Node -> Nat]
    /\ lastCleanEpoch \in [Node -> Nat]
    /\ dirty \in [Node -> BOOLEAN]
    /\ deps \in [Node -> Seq(Dep)]
    /\ nextIndex \in [Node -> Nat]
    /\ epoch \in Nat
    /\ hasRun \subseteq Watch
    /\ destroyed \subseteq Watch
    /\ scheduled \subseteq Watch
    /\ stack \in Seq(Frame)

Init ==
    /\ program \in Program
    /\ value = [n \in Node |-> IF n \in Signal THEN InitialValue[n] ELSE UNSET]
    /\ version = [n \in Node |-> 0]
    /\ lastCleanEpoch = [n \in Node |-> 0]
    /\ dirty = [n \in Node |-> n \in Computed]
    /\ deps = [n \in Node |-> <<>>]
    /\ nextIndex = [n \in Node |-> 0]
    /\ epoch = 1
    /\ hasRun = {} /\ destroyed = {} /\ scheduled = {}
    /\ stack = <<>>

-----------------------------------------------------------------------------
(* Liveness of consumers, and the push phase.                              *)

DepNodes(c) == {deps[c][i].node : i \in 1..Len(deps[c])}

Dependencies == [c \in Node |-> DepNodes(c)]
Dependents   == [p \in Node |-> {c \in Consumer : p \in DepNodes(c)}]

\* The computeds some watch depends on, directly or through computeds.
LiveComputed == Reachable(Watch, Computed, Dependencies)

\* consumerIsLive: always for a watch, else while there is a live consumer.
IsLive(n) == n \in Watch \/ \E x \in Watch \cup LiveComputed : n \in DepNodes(x)

\* producerNotifyConsumers: the clean live computeds that a notification
\* starting at s marks dirty, and with them the clean watches.
Reached(s)  == Reachable({s}, {c \in LiveComputed : ~dirty[c]}, Dependents)
\* Mutant: only the consumers of s itself are notified.
NotifiedDirectly(s) == {n \in LiveComputed \cup Watch : ~dirty[n] /\ s \in DepNodes(n)}

Notified(s) ==
    Reached(s) \cup
        {w \in Watch : ~dirty[w] /\ DepNodes(w) \cap (Reached(s) \cup {s}) # {}}

\* Mutants: computeds are scheduled like watches; the epoch is not incremented.
SetSignalSchedulingAll(s, v) ==
    IF value[s] = v
    THEN UNCHANGED <<nodeVars, epoch, scheduled>>
    ELSE /\ value' = [value EXCEPT ![s] = v]
         /\ version' = [version EXCEPT ![s] = @ + 1]
         /\ epoch' = epoch + 1
         /\ dirty' = [n \in Node |-> dirty[n] \/ n \in Notified(s)]
         /\ scheduled' = scheduled \cup (Notified(s) \ destroyed)
         /\ UNCHANGED lastCleanEpoch

SetSignalSameEpoch(s, v) ==
    IF value[s] = v
    THEN UNCHANGED <<nodeVars, epoch, scheduled>>
    ELSE /\ value' = [value EXCEPT ![s] = v]
         /\ version' = [version EXCEPT ![s] = @ + 1]
         /\ dirty' = [n \in Node |-> dirty[n] \/ n \in Notified(s)]
         /\ scheduled' = scheduled \cup ((Notified(s) \cap Watch) \ destroyed)
         /\ UNCHANGED <<lastCleanEpoch, epoch>>

\* signalSetFn where writing is allowed: an equal value changes nothing.
SetSignal(s, v) ==
    IF value[s] = v
    THEN UNCHANGED <<nodeVars, epoch, scheduled>>
    ELSE /\ value' = [value EXCEPT ![s] = v]
         /\ version' = [version EXCEPT ![s] = @ + 1]
         /\ epoch' = epoch + 1
         /\ dirty' = [n \in Node |-> dirty[n] \/ n \in Notified(s)]
         /\ scheduled' = scheduled \cup ((Notified(s) \cap Watch) \ destroyed)
         /\ UNCHANGED lastCleanEpoch

\* consumerDestroy and the nulling of fn and schedule; a no-op the second time.
DestroyWatch(w) ==
    /\ destroyed' = destroyed \cup {w}
    /\ deps' = IF w \in destroyed THEN deps ELSE [deps EXCEPT ![w] = <<>>]

-----------------------------------------------------------------------------
(* The call stack.                                                         *)

Call(n) == [at |-> "update", node |-> n, i |-> 0, trace |-> <<>>, old |-> UNSET]

Busy == stack # <<>>
Top  == stack[Len(stack)]
Pop  == SubSeq(stack, 1, Len(stack) - 1)
SetTop(f) == [stack EXCEPT ![Len(stack)] = f]

\* The operation of the innermost user code is over and gave r.
Resume(r) == SetTop([Top EXCEPT !.at = "body", !.trace = Append(@, r)])

\* Mutant: a computed that is not live is never notified, but is trusted too.
UpToDateIfClean(n) == ~dirty[n]

\* The two early returns of producerUpdateValueVersion.
UpToDate(n) == ~dirty[n] /\ (IsLive(n) \/ lastCleanEpoch[n] = epoch)

\* consumerBeforeComputation, and the COMPUTING mark of a computed.
StartBody(n) ==
    /\ nextIndex' = [nextIndex EXCEPT ![n] = 0]
    /\ value' = IF n \in Computed THEN [value EXCEPT ![n] = COMPUTING] ELSE value
    /\ stack' = SetTop([Top EXCEPT !.at = "body", !.trace = <<>>, !.old = value[n]])
    /\ UNCHANGED deps

-----------------------------------------------------------------------------
(* Operations called when nothing else is on the stack.                    *)

\* A write from outside any reactive context (an event handler, say).
Set(s, v) ==
    /\ ~Busy
    /\ epoch < MaxEpoch
    /\ SetSignal(s, v)
    /\ UNCHANGED <<edgeVars, hasRun, destroyed, stack>>

\* A read of a computed from outside any reactive context.
Read(c) ==
    /\ ~Busy
    /\ stack' = <<Call(c)>>
    /\ UNCHANGED <<nodeVars, edgeVars, epoch, watchVars>>

\* effect() calls notify() once to trigger the first run.
Notify(w) ==
    /\ ~Busy
    /\ w \notin hasRun \cup destroyed \cup scheduled
    /\ dirty' = [dirty EXCEPT ![w] = TRUE]
    /\ scheduled' = scheduled \cup {w}
    /\ UNCHANGED <<value, version, lastCleanEpoch, edgeVars, epoch, hasRun, destroyed, stack>>

Destroy(w) ==
    /\ ~Busy
    /\ w \notin destroyed
    /\ DestroyWatch(w)
    /\ UNCHANGED <<nodeVars, nextIndex, epoch, hasRun, scheduled, stack>>

\* The scheduler calls run() of a watch that was scheduled and destroyed since.
RunDestroyed(w) ==
    /\ ~Busy
    /\ w \in scheduled \cap destroyed
    /\ scheduled' = scheduled \ {w}
    /\ UNCHANGED <<nodeVars, edgeVars, epoch, hasRun, destroyed, stack>>

\* Mutant: a run that polls leaves the dirty flag set.
RunStayingDirty(w) ==
    /\ ~Busy
    /\ w \in scheduled \ destroyed
    /\ scheduled' = scheduled \ {w}
    /\ dirty' = IF w \in hasRun THEN dirty ELSE [dirty EXCEPT ![w] = FALSE]
    /\ hasRun' = hasRun \cup {w}
    /\ IF w \in hasRun
       THEN /\ stack' = <<[Call(w) EXCEPT !.at = "poll", !.i = 1]>>
            /\ UNCHANGED nextIndex
       ELSE /\ stack' = <<[Call(w) EXCEPT !.at = "body"]>>
            /\ nextIndex' = [nextIndex EXCEPT ![w] = 0]
    /\ UNCHANGED <<value, version, lastCleanEpoch, deps, epoch, destroyed>>

\* The scheduler calls run(): the first run executes the function at once,
\* a later one polls the producers first.
Run(w) ==
    /\ ~Busy
    /\ w \in scheduled \ destroyed
    /\ scheduled' = scheduled \ {w}
    /\ dirty' = [dirty EXCEPT ![w] = FALSE]
    /\ hasRun' = hasRun \cup {w}
    /\ IF w \in hasRun
       THEN /\ stack' = <<[Call(w) EXCEPT !.at = "poll", !.i = 1]>>
            /\ UNCHANGED nextIndex
       ELSE /\ stack' = <<[Call(w) EXCEPT !.at = "body"]>>
            /\ nextIndex' = [nextIndex EXCEPT ![w] = 0]
    /\ UNCHANGED <<value, version, lastCleanEpoch, deps, epoch, destroyed>>

-----------------------------------------------------------------------------
(* producerUpdateValueVersion.                                             *)

Updating == Busy /\ Top.at = "update"

UpdateSkip ==
    /\ Updating /\ UpToDate(Top.node)
    /\ stack' = Pop
    /\ UNCHANGED <<nodeVars, edgeVars, epoch, watchVars>>

UpdatePoll ==
    /\ Updating /\ ~UpToDate(Top.node)
    /\ value[Top.node] \notin {UNSET, COMPUTING}
    /\ stack' = SetTop([Top EXCEPT !.at = "poll", !.i = 1])
    /\ UNCHANGED <<nodeVars, edgeVars, epoch, watchVars>>

UpdateFirst ==
    /\ Updating /\ ~UpToDate(Top.node)
    /\ value[Top.node] = UNSET
    /\ StartBody(Top.node)
    /\ UNCHANGED <<version, lastCleanEpoch, dirty, epoch, watchVars>>

\* "Detected cycle in computations": the exception unwinds to the innermost
\* user code, whose read throws before the dependency is recorded.
UpdateCycle ==
    /\ Updating /\ ~UpToDate(Top.node)
    /\ value[Top.node] = COMPUTING
    /\ \E k \in 1..Len(stack) :
        /\ stack[k].at = "await"
        /\ \A j \in (k + 1)..Len(stack) : stack[j].at # "await"
        /\ stack' = Append(SubSeq(stack, 1, k - 1),
                           [stack[k] EXCEPT !.at = "body", !.trace = Append(@, ERRORED)])
    /\ UNCHANGED <<nodeVars, edgeVars, epoch, watchVars>>

-----------------------------------------------------------------------------
(* consumerPollProducersForChange, for a computed or a watch.              *)

Polling  == Busy /\ Top.at \in {"poll", "polled"}
\* Mutant: the last producer is not polled.
InRangeButLast == Top.i \in 1..(Len(deps[Top.node]) - 1)
InRange  == Top.i \in 1..Len(deps[Top.node])
Polled   == deps[Top.node][Top.i]
Mismatch == Polled.seen # version[Polled.node]

PollChanged ==
    /\ Polling /\ InRange /\ Mismatch
    /\ StartBody(Top.node)
    /\ UNCHANGED <<version, lastCleanEpoch, dirty, epoch, watchVars>>

PollProducer ==
    /\ Polling /\ Top.at = "poll" /\ InRange /\ ~Mismatch
    /\ stack' = Append(SetTop([Top EXCEPT !.at = "polled"]), Call(Polled.node))
    /\ UNCHANGED <<nodeVars, edgeVars, epoch, watchVars>>

PollNext ==
    /\ Polling /\ Top.at = "polled" /\ InRange /\ ~Mismatch
    /\ stack' = SetTop([Top EXCEPT !.at = "poll", !.i = @ + 1])
    /\ UNCHANGED <<nodeVars, edgeVars, epoch, watchVars>>

\* No producer changed: a producer is clean again, a watch returns from run().
PollUnchanged ==
    /\ Polling /\ ~InRange
    /\ LET n == Top.node IN
        /\ dirty' = IF n \in Watch THEN dirty ELSE [dirty EXCEPT ![n] = FALSE]
        /\ lastCleanEpoch' = IF n \in Watch THEN lastCleanEpoch
                             ELSE [lastCleanEpoch EXCEPT ![n] = epoch]
    /\ stack' = Pop
    /\ UNCHANGED <<value, version, edgeVars, epoch, watchVars>>

-----------------------------------------------------------------------------
(* User code: the computation of a computed, the function of a watch.      *)

Current == Body[program][Top.node][Top.trace]
Running(op) == Busy /\ Top.at = "body" /\ Current.op = op

\* producerAccessed: the dependency at nextIndex becomes p.  After a destroy()
\* in mid-run the array is shorter than nextIndex and the write leaves holes.
Access(c, p) ==
    LET idx == nextIndex[c] + 1
        len == IF idx > Len(deps[c]) THEN idx ELSE Len(deps[c])
        hole == [node |-> NoNode, seen |-> 0]
    IN  /\ deps' = [deps EXCEPT ![c] =
                     [j \in 1..len |->
                        IF j = idx THEN [node |-> p, seen |-> version[p]]
                        ELSE IF j \in 1..Len(deps[c]) THEN deps[c][j] ELSE hole]]
        /\ nextIndex' = [nextIndex EXCEPT ![c] = idx]

BodyReadSignal ==
    /\ Running("read") /\ Current.node \in Signal
    /\ Access(Top.node, Current.node)
    /\ stack' = Resume(value[Current.node])
    /\ UNCHANGED <<nodeVars, epoch, watchVars>>

\* untracked(): the read is not recorded.
BodyPeekSignal ==
    /\ Running("peek") /\ Current.node \in Signal
    /\ stack' = Resume(value[Current.node])
    /\ UNCHANGED <<nodeVars, edgeVars, epoch, watchVars>>

\* The getter of a computed brings it up to date first ...
BodyCallComputed ==
    /\ Running("read") \/ Running("peek")
    /\ Current.node \in Computed
    /\ stack' = Append(SetTop([Top EXCEPT !.at = "await"]), Call(Current.node))
    /\ UNCHANGED <<nodeVars, edgeVars, epoch, watchVars>>

\* ... and then records the dependency and returns the value, or throws.
BodyGotComputed ==
    /\ Busy /\ Top.at = "await"
    /\ IF Current.op = "read" THEN Access(Top.node, Current.node) ELSE UNCHANGED edgeVars
    /\ stack' = Resume(value[Current.node])
    /\ UNCHANGED <<nodeVars, epoch, watchVars>>

BodySet ==
    /\ Running("set")
    /\ Top.node \in AllowWrites[program]
    /\ SetSignal(Current.node, Current.val)
    /\ stack' = Resume(DONE)
    /\ UNCHANGED <<edgeVars, hasRun, destroyed>>

\* Writing where producerUpdatesAllowed() is false throws.
BodySetRefused ==
    /\ Running("set")
    /\ Top.node \notin AllowWrites[program]
    /\ stack' = Resume(ERRORED)
    /\ UNCHANGED <<nodeVars, edgeVars, epoch, watchVars>>

BodyDestroy ==
    /\ Running("destroy")
    /\ DestroyWatch(Current.node)
    /\ stack' = Resume(DONE)
    /\ UNCHANGED <<nodeVars, nextIndex, epoch, hasRun, scheduled>>

\* Mutant: dependencies that the run did not read are kept.
TruncateNothing(c) == UNCHANGED deps

\* consumerAfterComputation: drop the dependencies not read in this run.
Truncate(c) ==
    deps' = [deps EXCEPT ![c] = IF Len(@) > nextIndex[c] THEN SubSeq(@, 1, nextIndex[c]) ELSE @]

\* A computation returned or threw: an equal value keeps the version.
FinishComputed ==
    /\ Running("return") /\ Top.node \in Computed
    /\ LET c == Top.node
           same == Current.val = Top.old /\ Top.old \in Value
       IN  /\ value' = [value EXCEPT ![c] = Current.val]
           /\ version' = IF same THEN version ELSE [version EXCEPT ![c] = @ + 1]
           /\ dirty' = [dirty EXCEPT ![c] = FALSE]
           /\ lastCleanEpoch' = [lastCleanEpoch EXCEPT ![c] = epoch]
           /\ Truncate(c)
    /\ stack' = Pop
    /\ UNCHANGED <<nextIndex, epoch, watchVars>>

FinishWatch ==
    /\ Running("return") /\ Top.node \in Watch
    /\ Truncate(Top.node)
    /\ stack' = Pop
    /\ UNCHANGED <<nodeVars, nextIndex, epoch, watchVars>>

\* The cleanup function registered by an earlier run (i counts from 1 in those)
\* throws before the function of the watch is called: nothing has been read.
CleanupThrows ==
    /\ Busy /\ Top.at = "body" /\ Top.trace = <<>> /\ Top.i > 0
    /\ Top.node \in FragileCleanup[program]
    /\ Truncate(Top.node)
    /\ stack' = Pop
    /\ UNCHANGED <<nodeVars, nextIndex, epoch, watchVars>>

-----------------------------------------------------------------------------
\* What the user and the scheduler may do when the stack is empty.
External ==
    \/ \E s \in Signal, v \in Value : Set(s, v)
    \/ \E c \in Computed : Read(c)
    \/ \E w \in Watch : Notify(w) \/ Destroy(w)

\* The scheduler's turn of w.
Dispatch(w) == (Run(w) \/ RunDestroyed(w)) /\ UNCHANGED program

\* The code that is running goes on.
Continue ==
    /\ \/ UpdateSkip \/ UpdatePoll \/ UpdateFirst \/ UpdateCycle
       \/ PollChanged \/ PollProducer \/ PollNext \/ PollUnchanged
       \/ BodyReadSignal \/ BodyPeekSignal \/ BodyCallComputed \/ BodyGotComputed
       \/ BodySet \/ BodySetRefused \/ BodyDestroy
       \/ FinishComputed \/ FinishWatch \/ CleanupThrows
    /\ UNCHANGED program

Next ==
    \/ External /\ UNCHANGED program
    \/ \E w \in Watch : Dispatch(w)
    \/ Continue

\* Synchronous code runs on, and a scheduled watch is eventually run; nothing
\* obliges the user to write, read, create or destroy.
Fairness ==
    /\ WF_vars(Continue)
    /\ \A w \in Watch : SF_vars(Dispatch(w))

Spec == Init /\ [][Next]_vars
FairSpec == Spec /\ Fairness
-----------------------------------------------------------------------------
(* Properties.                                                             *)

\* A watch that is marked dirty is in the hands of its scheduler, and a watch
\* its scheduler holds is dirty: a dirty watch is never notified again
\* (producerNotifyConsumers skips it), so one outside the queue would be lost.
DirtyIsScheduled ==
    \A w \in Watch \ destroyed : dirty[w] <=> w \in scheduled

Open(n) == \E k \in 1..Len(stack) : stack[k].node = n /\ stack[k].at # "update"

\* The versions n recorded, and those its computeds recorded, and so on, are
\* the present ones: a full recomputation from the signals would find nothing.
DeepCurrent(n) ==
    \E S \in SUBSET Consumer :
        /\ n \in S
        /\ \A x \in S : \A j \in 1..Len(deps[x]) :
              LET d == deps[x][j] IN
                /\ d.node # NoNode /\ d.seen = version[d.node]
                /\ d.node \in Signal \cup S

\* Whatever the early returns of producerUpdateValueVersion take for up to
\* date is so, however the graph changed since it was computed; and a clean
\* watch has seen the present state, so that no change has been missed.
CleanIsCurrent ==
    \A n \in (Computed \cup hasRun) \ destroyed :
        UpToDate(n) /\ ~Open(n) => DeepCurrent(n)

\* A computed whose value is about to be recorded and returned depends on
\* nothing that is still being computed or polled: a new edge never points
\* back into the stack, where the removal of stale edges is not over.
ReadsAreBelow ==
    Busy /\ Top.at = "await" =>
        \A n \in {Current.node} \cup Reachable({Current.node}, Computed, Dependencies) :
            ~Open(n)

\* A computation runs at most once between two writes, however many
\* consumers ask for its value and in whatever order.
OncePerEpoch ==
    [][\A c \in Computed :
          value[c] # COMPUTING /\ value'[c] = COMPUTING => lastCleanEpoch[c] < epoch]_vars
=============================================================================
