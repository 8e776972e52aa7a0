------------------------------- MODULE NgZone -------------------------------
(***************************************************************************)
(* NgZone (packages/core/src/zone/ng_zone.ts), the change detection it     *)
(* triggers and the pending task that stands for it (packages/core/src/    *)
(* change_detection/scheduling/ng_zone_scheduling.ts), over the tasks of   *)
(* zone.js (packages/zone.js/lib/zone.ts).                                 *)
(*                                                                         *)
(* There is one thread; `stack` is what it is in the middle of, innermost  *)
(* first.  Code of the application in the zone: "run" (NgZone.run),        *)
(* "event", "timer" and "micro" (tasks of the zone) and "tick" (the tick   *)
(* of the onMicrotaskEmpty subscriber).  The rest is left to do once what  *)
(* is above it returns: "emptied" and "stable" are the two emissions of    *)
(* checkStable, "microDone" and "timerDone" the end of Zone.runTask,       *)
(* "frame" the end of the animation frame callback, "drain" zone.js        *)
(* draining the microtasks, "script" code outside the zone, and "told" the *)
(* rest of the microtask that removes the pending task.                    *)
(*                                                                         *)
(* `queue` holds the microtasks of zone.js: those of the zone ("zone") and *)
(* the one ZoneStablePendingTask queues on onStable ("check").             *)
(*                                                                         *)
(* Code that throws leaves by the same `finally` blocks as code that       *)
(* returns, so Leave stands for both.                                      *)
(*                                                                         *)
(* Gaps are things an application may do for which the code gives up one   *)
(* of the properties below:                                                *)
(*   "onStable": with eventCoalescing, an event while onStable is emitted  *)
(*     outside an animation frame (a subscriber that calls focus());       *)
(*   "hears": a subscriber of isStable that runs code in the zone;         *)
(*   "dispatch": code in the zone, under no task, that dispatches an event;*)
(*   "early": a timer set in the zone before ZoneStablePendingTask starts. *)
(***************************************************************************)
EXTENDS PendingTasks, Sequences, FiniteSets

CONSTANTS
  Modes,   \* the coalescing options tried, of {"none", "events", "runs"}
  Gaps,    \* what else the application may do, of the four gaps below
  MaxOps,  \* bound on the operations of the application
  None

ASSUME NgZoneAssumption ==
  /\ Modes \subseteq {"none", "events", "runs"}
  /\ Gaps \subseteq {"hears", "dispatch", "early", "onStable"}
  /\ MaxOps \in Nat
  /\ TaskId # {} /\ None \notin TaskId

VARIABLES
  mode,     \* shouldCoalesce{Event,Run}ChangeDetection
  zone,     \* _nesting, isStable, lastRequestAnimationFrameId # -1, isCheckStableRunning
  micro,    \* number of microtasks of the zone, the running one included
  macro,    \* the same for macrotasks (timers)
  tasks,    \* PendingTasks
  task,     \* `task` of ZoneStablePendingTask
  queue, stack,
  changed,  \* code ran in the zone since the end of the last tick
  silenced, \* the last macrotask was cancelled from outside the zone
  ops

vars == <<mode, zone, micro, macro, tasks, task, queue, stack, changed, silenced, ops>>

ZoneCode == {"run", "event", "timer", "micro", "tick"}
Frame == ZoneCode \cup {"emptied", "stable", "microDone", "timerDone",
                        "frame", "drain", "script", "told"}
InStack(f) == \E i \in DOMAIN stack : stack[i] = f
Top == IF stack = <<>> THEN "nothing" ELSE Head(stack)
Below == Tail(stack)

HasPendingMicrotasks(z, m) == m > 0 \/ z.raf

-----------------------------------------------------------------------------
(* onEnter: the zone becomes unstable, and ZoneStablePendingTask adds its  *)
(* task unless it still has one.                                           *)
Enter(code, rest) ==
  /\ zone' = [zone EXCEPT !.nesting = @ + 1, !.isStable = FALSE]
  /\ IF zone.isStable /\ task = None
     THEN /\ task' = NewTask(tasks)
          /\ tasks' = Added(tasks, NewTask(tasks))
     ELSE UNCHANGED <<task, tasks>>
  /\ stack' = <<code>> \o rest
  /\ changed' = TRUE
  /\ silenced' = FALSE

CheckStableNested(z, m, rest) ==
  IF ~HasPendingMicrotasks(z, m) /\ ~z.isStable
  THEN zone' = [z EXCEPT !.nesting = @ + 2] /\ stack' = <<"tick", "emptied">> \o rest
  ELSE zone' = z /\ stack' = rest

CheckStableIgnoresFrame(z, m, rest) ==
  IF z.nesting = 0 /\ m = 0 /\ ~z.isStable
  THEN zone' = [z EXCEPT !.nesting = 2] /\ stack' = <<"tick", "emptied">> \o rest
  ELSE zone' = z /\ stack' = rest

(* checkStable up to the tick in its first emission: _nesting is 2 there,  *)
(* once for checkStable and once for zone.run.                             *)
CheckStable(z, m, rest) ==
  IF z.nesting = 0 /\ ~HasPendingMicrotasks(z, m) /\ ~z.isStable
  THEN zone' = [z EXCEPT !.nesting = 2] /\ stack' = <<"tick", "emptied">> \o rest
  ELSE zone' = z /\ stack' = rest

Coalesces(code) == (mode = "events" /\ code = "event") \/ mode = "runs"

(* The finally blocks of onInvoke and onInvokeTask: an animation frame     *)
(* when the entry is coalesced, then onLeave.                              *)
Leave ==
  /\ Top \in ZoneCode
  /\ CheckStable([zone EXCEPT !.nesting = @ - 1,
                              !.raf = @ \/ (Coalesces(Top) /\ ~zone.checking)],
                 micro, Below)
  /\ changed' = (changed /\ Top # "tick")
  /\ UNCHANGED <<mode, micro, macro, tasks, task, queue, silenced, ops>>

EmptiedKeepsNesting ==
  /\ Top = "emptied"
  /\ IF HasPendingMicrotasks(zone, micro)
     THEN stack' = Below /\ UNCHANGED queue
     ELSE stack' = <<"stable">> \o Below /\ queue' = Append(queue, "check")
  /\ UNCHANGED <<mode, zone, micro, macro, tasks, task, changed, silenced, ops>>

EmptiedChecksAtOnce ==
  /\ Top = "emptied"
  /\ zone' = [zone EXCEPT !.nesting = @ - 1]
  /\ IF HasPendingMicrotasks(zone, micro)
     THEN stack' = Below /\ UNCHANGED <<tasks, task>>
     ELSE /\ stack' = <<"stable">> \o Below
          /\ IF task # None /\ macro = 0
             THEN tasks' = Removed(tasks, task) /\ task' = None
             ELSE UNCHANGED <<tasks, task>>
  /\ UNCHANGED <<mode, micro, macro, queue, changed, silenced, ops>>

(* checkStable after onMicrotaskEmpty: onStable, on which                  *)
(* ZoneStablePendingTask queues its check.                                 *)
Emptied ==
  /\ Top = "emptied"
  /\ zone' = [zone EXCEPT !.nesting = @ - 1]
  /\ IF HasPendingMicrotasks(zone, micro)
     THEN stack' = Below /\ UNCHANGED queue
     ELSE stack' = <<"stable">> \o Below /\ queue' = Append(queue, "check")
  /\ UNCHANGED <<mode, micro, macro, tasks, task, changed, silenced, ops>>

Stable ==
  /\ Top = "stable"
  /\ zone' = [zone EXCEPT !.isStable = TRUE]
  /\ stack' = Below
  /\ UNCHANGED <<mode, micro, macro, tasks, task, queue, changed, silenced, ops>>

CheckForgetsTimers ==
  /\ queue' = Tail(queue)
  /\ IF task # None /\ ~HasPendingMicrotasks(zone, micro)
     THEN tasks' = Removed(tasks, task) /\ stack' = <<"told">> \o stack
     ELSE UNCHANGED <<tasks, stack>>
  /\ UNCHANGED <<mode, zone, micro, macro, task, changed, silenced, ops>>

(* The check of ZoneStablePendingTask: remove() emits, and `task` is reset *)
(* only after the subscribers of isStable have run ("told").               *)
Check ==
  /\ queue' = Tail(queue)
  /\ IF task # None /\ macro = 0 /\ ~HasPendingMicrotasks(zone, micro)
     THEN tasks' = Removed(tasks, task) /\ stack' = <<"told">> \o stack
     ELSE UNCHANGED <<tasks, stack>>
  /\ UNCHANGED <<mode, zone, micro, macro, task, changed, silenced, ops>>

Told ==
  /\ Top = "told"
  /\ task' = None
  /\ stack' = Below
  /\ UNCHANGED <<mode, zone, micro, macro, tasks, queue, changed, silenced, ops>>

MicroDoneSilently ==
  /\ Top = "microDone"
  /\ micro' = micro - 1
  /\ stack' = Below
  /\ UNCHANGED <<mode, zone, macro, tasks, task, queue, changed, silenced, ops>>

(* onHasTask for microtasks and macrotasks. *)
MicroDone ==
  /\ Top = "microDone"
  /\ micro' = micro - 1
  /\ IF micro = 1 THEN CheckStable(zone, 0, Below)
     ELSE stack' = Below /\ UNCHANGED zone
  /\ UNCHANGED <<mode, macro, tasks, task, queue, changed, silenced, ops>>

TimerDone ==
  /\ Top = "timerDone"
  /\ macro' = macro - 1
  /\ stack' = Below
  /\ UNCHANGED <<mode, zone, micro, tasks, task, queue, changed, silenced, ops>>

(* drainMicroTaskQueue, at the end of the outermost task or of a script. *)
Drain ==
  \/ /\ stack = <<>>
     /\ queue # <<>>
     /\ stack' = <<"drain">>
     /\ UNCHANGED <<mode, zone, micro, macro, tasks, task, queue, changed, silenced, ops>>
  \/ /\ Top = "drain"
     /\ queue # <<>>
     /\ \/ Head(queue) = "check" /\ Check
        \/ /\ Head(queue) = "zone"
           /\ queue' = Tail(queue)
           /\ Enter("micro", <<"microDone">> \o stack)
           /\ UNCHANGED <<mode, micro, macro, ops>>
  \/ /\ Top = "script" \/ (Top = "drain" /\ queue = <<>>)
     /\ stack' = Below
     /\ UNCHANGED <<mode, zone, micro, macro, tasks, task, queue, changed, silenced, ops>>

Idle == stack = <<>> /\ queue = <<>>

TimerFires ==
  /\ Idle /\ macro > 0
  /\ Enter("timer", <<"timerDone", "drain">>)
  /\ UNCHANGED <<mode, micro, macro, queue, ops>>

(* The animation frame of delayChangeDetectionForEvents. *)
FrameFires ==
  /\ Idle /\ zone.raf
  /\ CheckStable([zone EXCEPT !.raf = FALSE, !.checking = TRUE], micro, <<"frame", "drain">>)
  /\ UNCHANGED <<mode, micro, macro, tasks, task, queue, changed, silenced, ops>>

FrameEnds ==
  /\ Top = "frame"
  /\ zone' = [zone EXCEPT !.checking = FALSE]
  /\ stack' = Below
  /\ UNCHANGED <<mode, micro, macro, tasks, task, queue, changed, silenced, ops>>

-----------------------------------------------------------------------------
(* The application. *)
Spend == ops < MaxOps /\ ops' = ops + 1

Script ==
  /\ Idle /\ Spend
  /\ stack' = <<"script">>
  /\ UNCHANGED <<mode, zone, micro, macro, tasks, task, queue, changed, silenced>>

(* NgZone.run: by code in or out of the zone, by a subscriber of onStable, *)
(* or by a subscriber of isStable.                                         *)
Run ==
  /\ Spend
  /\ \/ Top \in ZoneCode \cup {"script", "stable"}
     \/ Top = "told" /\ ~tasks.has /\ "hears" \in Gaps
  /\ Enter("run", stack)
  /\ UNCHANGED <<mode, micro, macro, queue>>

(* A DOM event with a listener of the zone, from the browser or dispatched *)
(* by code: zone.js drains the microtasks when no task is around it, even  *)
(* if code in the zone is (gap "dispatch").                                *)
Event ==
  /\ Spend
  /\ mode = "events" /\ InStack("stable") /\ ~zone.checking => "onStable" \in Gaps
  /\ \/ Idle \/ Top \in {"script", "stable"}
     \/ Top \in ZoneCode /\ (InStack("drain") \/ "dispatch" \in Gaps)
  /\ Enter("event", (IF InStack("drain") THEN <<>> ELSE <<"drain">>) \o stack)
  /\ UNCHANGED <<mode, micro, macro, queue>>

ScheduleMicrotask ==
  /\ Top \in ZoneCode /\ Spend
  /\ micro' = micro + 1
  /\ queue' = Append(queue, "zone")
  /\ UNCHANGED <<mode, zone, macro, tasks, task, stack, changed, silenced>>

ScheduleTimer ==
  /\ Top \in ZoneCode /\ Spend
  /\ macro' = macro + 1
  /\ UNCHANGED <<mode, zone, micro, tasks, task, queue, stack, changed, silenced>>

(* clearTimeout, of a timer that is not running. *)
CancelTimer ==
  /\ Top \in ZoneCode \cup {"script"} /\ Spend
  /\ macro > (IF InStack("timerDone") THEN 1 ELSE 0)
  /\ macro' = macro - 1
  /\ silenced' = (macro = 1 /\ zone.isStable)
  /\ UNCHANGED <<mode, zone, micro, tasks, task, queue, stack, changed>>

-----------------------------------------------------------------------------
(* The application bootstraps inside zone.run; ZoneStablePendingTask       *)
(* starts there, with its task unless tasks are already pending.           *)
Init ==
  /\ mode \in Modes
  /\ zone = [nesting |-> 1, isStable |-> FALSE, raf |-> FALSE, checking |-> FALSE]
  /\ micro = 0
  /\ macro \in IF "early" \in Gaps THEN {0, 1} ELSE {0}
  /\ task = IF macro = 0 THEN NewTask(NoTasks) ELSE None
  /\ tasks = IF macro = 0 THEN Added(NoTasks, task) ELSE NoTasks
  /\ queue = <<>>
  /\ stack = <<"run", "script">>
  /\ changed = TRUE
  /\ silenced = FALSE
  /\ ops = 0

System ==
  \/ Leave \/ Emptied \/ Stable \/ Told \/ MicroDone \/ TimerDone
  \/ Drain \/ TimerFires \/ FrameFires \/ FrameEnds

Application ==
  \/ Script \/ Run \/ Event \/ ScheduleMicrotask \/ ScheduleTimer \/ CancelTimer

Next == System \/ Application

Spec == Init /\ [][Next]_vars

(* Code returns, timers and animation frames fire, microtasks run. *)
FairSpec == Spec /\ WF_vars(System)

-----------------------------------------------------------------------------
(* _nesting counts the code in the zone and the emissions of               *)
(* onMicrotaskEmpty, and every variable has its type.                      *)
TypeOK ==
  /\ mode \in Modes
  /\ zone \in [nesting : Nat, isStable : BOOLEAN, raf : BOOLEAN, checking : BOOLEAN]
  /\ zone.nesting = Cardinality({i \in DOMAIN stack : stack[i] \in ZoneCode \cup {"emptied"}})
  /\ zone.isStable => zone.nesting = 0
  /\ micro \in Nat /\ macro \in Nat
  /\ tasks \in PendingTasksType
  /\ task \in TaskId \cup {None}
  /\ queue \in Seq({"zone", "check"})
  /\ stack \in Seq(Frame)
  /\ changed \in BOOLEAN /\ silenced \in BOOLEAN
  /\ ops \in 0..MaxOps

(* No change is left without a tick: when nothing runs, no microtask is    *)
(* queued and no animation frame is due, the last code that ran in the     *)
(* zone was followed by one.                                               *)
WorkIsChecked == Idle /\ ~zone.raf => ~changed

(* isStable of ApplicationRef says what it means: while it is true no code *)
(* runs in the zone, nothing of it is pending and nothing is unchecked.    *)
StableIsIdle ==
  ~tasks.has =>
    /\ micro = 0 /\ macro = 0 /\ ~zone.raf /\ ~changed
    /\ \A f \in ZoneCode : ~InStack(f)

(* A tick never starts inside another (ApplicationRef.tick would throw),   *)
(* whatever runs in the zone during it or on onStable.                     *)
TicksDontNest ==
  \A i, j \in DOMAIN stack : stack[i] = "tick" /\ stack[j] = "tick" => i = j

(* With runCoalescing a tick only happens in an animation frame.           *)
CoalescedInFrame == mode = "runs" /\ InStack("tick") => InStack("frame")

(* Once the application does nothing any more it becomes stable, unless    *)
(* its last timer was cancelled from outside the zone, of which the zone   *)
(* tells nobody.                                                           *)
BecomesStable == <>[](~tasks.has \/ silenced)
=============================================================================
