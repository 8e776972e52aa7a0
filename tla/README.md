# Verification of Angular's state machines

TLA+ models of the parts of this repository whose correctness depends on the
order in which things happen (the reactive graph, effects, change detection and
its two schedulers, the service worker's driver, forms and the router), TLC
configurations that check them on small instances, and TLAPS proofs for instances
of every size. Everything is
translated from the code under `packages/`; the table `map` in `PROJECT.json`
names the lines behind each definition.

Contents: [the system](#the-system), [modules](#modules),
[runs](#runs), [fairness](#fairness), [proofs](#proofs),
[what the models leave out](#what-the-models-leave-out),
[disagreements found](#disagreements-between-code-and-documentation),
[plan](#plan).

## The system

Angular is a component framework. What a component shows is derived from state;
the framework's own logic is to find out *what* has to be derived again and
*when*. All of it runs on one thread. The hard behaviours come from re-entrancy
(user code called from the middle of an algorithm calls that algorithm again),
from the order in which the event loop runs microtasks, timers and animation
frames, and, in the service worker and the router, from what happens between an
`await` and its answer.

| component | state | operations | interacts with | correct when |
|---|---|---|---|---|
| **Reactive graph** `core/primitives/signals` | per node: value, version, dirty flag, last clean epoch, producer list, live consumer list; a global epoch and active consumer | read, set, compute, run, notify, destroy | calls user code, which calls it; tells a watch's `schedule` hook | no stale value is ever read; nothing is computed in vain; liveness of computeds is exact; no notification is lost |
| **Effects and their scheduler** `core/src/render3/reactivity/effect.ts` | queues per zone, their count, queued microtasks | schedule, flush, run, destroy | a watch per effect; the microtask queue; test harness | each scheduled effect runs, whatever throws |
| **Pending tasks and zoneless scheduler** `core/src/pending_tasks.ts`, `change_detection/scheduling` | set of tasks, the pending render task | add, remove, notify, tick | ApplicationRef, timers | stable exactly when nothing is pending; no notification lost |
| **Change detection of views** `core/src/render3/instructions/change_detection.ts`, `reactive_lview_consumer.ts` | `LView` flags, reactive template consumers | mark dirty, mark for refresh, refresh, attach, detach | the graph, ApplicationRef | every dirty view that can be reached is refreshed |
| **ApplicationRef** `core/src/application/application_ref.ts` | views, running flag | tick, attach, detach, destroy | views, schedulers | no recursion; bounded rerun; guard always reset |
| **NgZone** `core/src/zone/ng_zone.ts`, `ng_zone_scheduling.ts` | nesting, pending flags, stability, coalescing frame | run, invoke, checkStable | zone.js, ApplicationRef, pending tasks | a change detection follows every turn; stability events alternate |
| **zone.js** `zone.js/lib/zone.ts` | task states, counts by zone, microtask queue | schedule, run, cancel, drain | the event loop | counts equal the tasks alive; a scheduled microtask is run |
| **Service worker driver** `service-worker/worker/src/driver.ts`, `idle.ts` | versions, client assignments, readiness, idle queue; three tables on disk | fetch, assign, check for update, install, clean up, restart | caches, network, clients | a client is served from one version, across restarts |
| **Service worker caches** `assets.ts`, `data.ts`, `app-version.ts` | cached responses, LRU list | fetch, install, evict | driver, network | content matches its hash; the size limit holds |
| **Router navigation** `router/src/navigation_transition.ts`, `statemanager/state_manager.ts` | current navigation, URL and router state, page ids, pending tasks | navigate, redirect, refuse, fail, activate, end, popstate | session history, guards, components | only the last navigation takes effect; every call is answered once; the browser shows the router's URL |
| **Reactive forms** `forms/src/model` | status, errors, pending validator by control | set value, validate, enable, disable | parents and children, asynchronous validators | a parent's status follows from its children's; late answers are ignored |
| **Deferrable views** `core/src/defer` | state of the block and of its loading | trigger, load, render | timers, change detection | states only advance; minimum durations hold |

Not candidates for model checking (sequential, or data rather than control):
template instructions and DOM rendering, dependency injection, hydration and
i18n, the HTTP client, common directives and pipes, animations, platform
adapters, the compiler with its CLI and language service, localisation, elements,
upgrade, and the build, benchmark, developer-tool and documentation projects.
`PROJECT.json` gives the reason for each.

The hazards, each at the line where it bites, are in `PROJECT.json` under
`hazards`, with the property that covers it or the reason why none does yet.

## Modules

| module | models | size of its state space |
|---|---|---|
| `Reach` | reachability in a finite graph, as a least fixed point | - |
| `Signals` | the reactive graph: signals, computeds, watches | 600 000 states |
| `SignalsRef` | the reference: what a computed should be worth | - |
| `LiveEdges` | the doubly linked edges between consumers and producers | 2 100 000 states |
| `EffectQueue` | abstract: what an effect scheduler promises | - |
| `EffectScheduler` | `ZoneAwareEffectScheduler` and the life of effects | 55 000 states |
| `PendingTasks` | the set of tasks and `hasPendingTasks`, for the next two | - |
| `ChangeDetection` | views, their flags, the traversal, `ApplicationRef.tick()` and the zoneless scheduler | 1 330 000 states |
| `NgZone` | zones and microtasks, the ticks they cause, the task that stands for them | 50 000 states |
| `SwDriver` | the service worker's driver with its tables and activities | 570 000 states |
| `ControlTree` | values and statuses of a tree of form controls | 1 570 000 states |
| `Navigation` | the router's navigations and the session history | 450 000 states |
| `MCSignals`, `MCLiveEdges`, ... | instances for TLC | |
| `SignalsProof`, `LiveEdgesProof`, `EffectSchedulerProof`, `ChangeDetectionProof`, `NgZoneProof`, `SwDriverProof`, `ControlTreeProof`, `NavigationProof` | theorems and proofs | |

Everywhere, JavaScript's one thread shows as a stack: `stack` (or `todo`, in
`ControlTree`) holds the calls in progress, an action is the code from one point
where foreign code may run to the next, and foreign code is any action of the
application that is legal at that point. Counters named `ops`, `calls`, `count` or
`epoch` bound what the application does, never what the framework does.

### Signals

`value`, `version`, `lastCleanEpoch`, `dirty` and `nextIndex` are the fields of a
`ReactiveNode` (`graph.ts:88`); `deps[c]` is `producerNode` zipped with
`producerLastReadVersion`; `epoch` is the module's counter. Versions and the
epoch are plain numbers in the code too (doubles, exact up to 2^53), so no width
is modelled.

**Control.** JavaScript runs to completion, but `consumerPollProducersForChange`
and the getters call user code from inside their loops. `stack` is the part of
the JavaScript stack that matters. A frame is `update` (about to execute
`producerUpdateValueVersion`), `poll`/`polled` (before/after the call of it for
the i-th producer in the poll loop), `body` (user code runs) or `await` (user
code is inside the getter of a computed). One action runs from one such point to
the next; when the stack is empty, the application may write, read, create
(`Notify`) or destroy, and a scheduled watch may run.

**User code** is data: `Body[p][n][t]` is the next operation of node `n` in
program `p`, when its operations in this run so far returned `t`. That is any
deterministic computation; `MCSignals` has six programs that work and one with a
cycle that comes and goes, the proofs assume
only that user code terminates and that computeds do not destroy watches.

| action | code |
|---|---|
| `Set`, `BodySet`, `BodySetRefused` | `signalSetFn`, `signalValueChanged` and the whole push phase |
| `Notified` | `producerNotifyConsumers`/`consumerMarkDirty`: clean live consumers, transitively, stopping at dirty ones |
| `Read`, `BodyCallComputed`, `BodyGotComputed` | the getter of `createComputed` |
| `Update*` | `producerUpdateValueVersion`: two early returns, poll, recompute, cycle |
| `Poll*` | `consumerPollProducersForChange`, one call of `producerUpdateValueVersion` per step |
| `Access` | `producerAccessed`, including the holes a destroyed watch leaves |
| `Truncate`, `FinishComputed`, `FinishWatch` | `consumerAfterComputation`, `producerRecomputeValue`, `run` |
| `Notify`, `Run`, `RunDestroyed`, `CleanupThrows`, `Destroy`, `BodyDestroy` | `watch.ts` |

The push phase runs no user code of interest (the `schedule` hook only queues),
so it is one step; the set it marks is stated as reachability, not as recursion.

Liveness is a property of the graph here: a consumer is live if it is a watch or
some watch depends on it. In the code it is whether an array is empty. Module
`LiveEdges` models these arrays, and its invariant `LivenessExact` is the
justification. Conversely, `LiveEdges` only lets a consumer read a computed that
does not depend on anything still running; that is `ReadsAreBelow` of `Signals`.

### LiveEdges

`prods[c]` is `producerNode` with `producerIndexOfThis`, `cons[p]` is
`liveConsumerNode` with `liveConsumerIndexOfThis`; indices start at 1. The two
recursive functions of `graph.ts:427-480` and the loops that call them are steps
over `calls`, an explicit stack: a frame is a loop through the dependencies of one
node and its place in it. No other code runs while `calls` is not empty.

| action | code |
|---|---|
| `Access`, `Replace`, `Store`, `Accessed` | `producerAccessed`: kept, replaced, stored, linked |
| `Finish`, `Truncate` | `consumerAfterComputation`: unlink, then drop |
| `Destroy`, `Clear` | `consumerDestroy`: unlink, then drop |
| `Descend` | the next call in one of these loops, or in a recursive function's own |
| `Attach` | the end of `producerAddLiveConsumer` |
| `Detach` | the end of `producerRemoveLiveConsumerAtIndex`: swap with the last, pointer repair |

A consumer may read any producer that depends on nothing still running: no program
restricts the order of reads, so every rewiring is explored.

### EffectScheduler and EffectQueue

The `Map` of `Set`s is `zones` with `queue`; both iterate in the order of
insertion. `stack` holds the `flush()` calls in progress and the effects they
run. User code (an effect, or the application when the stack is empty) creates,
changes and destroys effects and may call `flush()`, as `TestBed.flushEffects`
and `ComponentFixture.detectChanges` do. What an effect throws is caught by
`runEffect`, but what its cleanup function throws leaves `run()` and with it the
flush (`CleanupThrows`).

`EffectQueue` is the contract (`abstract class EffectScheduler`), and what
`Signals` assumes of its scheduler: what is handed over is run later, once.
`KeepsPromise` checks that `EffectScheduler` implements it with
`pending <- Queued`, fairness included.

### ChangeDetection and PendingTasks

`ui.flags[v]` is what the traversal reads of an `LView`: attached or not, inserted
in its container or not, `Dirty`, `RefreshView`, `HasChildViewsToRefresh`, and the
state of its reactive template consumer. A frame of `stack` is `refreshView`
(`refresh`), a traversal in targeted mode (`traverse`), `detectChangesInViewWhileDirty`
(`while`) or `ApplicationRef.tick()` (`tick`), with what it has left to visit in
`todo`: components, containers, and the points at which it runs user code
(template, hooks, `afterRender`). `content[c]` is what an `LContainer` holds now.
The loop over it (`detectChangesInEmbeddedViews`, `change_detection.ts:306-311`)
reads its length and the view at its index, `pos`, each time it goes round, while
hooks insert and take out views under it. A view that the loop steps over in this
way although it is marked is recorded in `skipped` (a history variable, no state of
the code) until it is visited or attached anew.

| action | code |
|---|---|
| `DirtyPath`, `MarkAncestors`, `MarkForRefresh`, `SignalChanges` | `markViewDirty`, `markAncestorsForTraversal`, `markViewForRefresh`, `consumerMarkedDirty` |
| `VisitChild`, `VisitEmbedded`, `ContainerDone` | the loops over the components and over the live contents of a container |
| `Visit` | `detectChangesInView`: which of the two modes, or neither |
| `CodeReturns`, `Refreshed`, `Traversed` | the rest of `refreshView` and of the traversal, flags cleared where the code clears them |
| `WhileDirty`, `WhileDone`, `WhileGivesUp` | the loop with its limit |
| `TickView`, `TickRendered`, `TickAgain`, `TickEnds`, `TimerFires` | `tick()`, `detectChangesInAttachedViews`, the scheduler's race of timers |
| `CodeThrows`, `Throw`, `WhileGivesUp` | exceptions: unwound to the tick, or out of `detectChanges()` |
| `Marks`, `Detach`, `Reattach`, `InsertView`, `RemoveView`, `DetectChanges`, `AttachView`, `DetachView`, `Tick`, `OtherAdds`, `Destroy` | what user code may call, at any of these points |

`PendingTasks` emits synchronously when the set becomes empty or stops being so,
and the subscribers run inside `add()` and `remove()` (`Heard`).

### NgZone

`zone` is the private state of `NgZone` (`nesting`, `isStable`, whether an animation
frame is due, whether `checkStable` is emitting), `micro`, `macro` and `queue` the
counts and the microtask queue of zone.js, `task` the pending task of
`ZoneStablePendingTask`, `changed` whether code in the zone ran since the last tick.
`Leave` is the `finally` block of a run; `Emptied` and `Stable` are the two
emissions of `checkStable`; `Told` and `Check` are the microtask that removes the
task; `FrameFires` is the coalesced change detection. `Run`, `Event`,
`ScheduleMicrotask`, `ScheduleTimer` and `CancelTimer` may be done by any code,
inside the zone, outside, or in a subscriber.

`Gaps` names what the code cannot take: with a gap open one of the properties
fails. The passing run has none open; `ng_zone_event_coalescing` opens one.

### SwDriver

`act[p].at` is the `await` at which an activity waits: the `fetch` handler of a
client, a drain of the idle queue, a message, or `initialize()` (`Boot`). One
activity at a time runs until its next `await` (`Turn`). `disk` holds the three
tables of the control database, `syncs` the snapshots that `sync()` took and that
the browser is still writing; they may land one table at a time (`Landed`), and
`Terminate` stops the worker at any time, also between two tables.

| action | code |
|---|---|
| `BootLoad`, `BootStartOver`, `BootManifest`, `BootWritten`, `BootFails` | `initialize()` |
| `FetchEvent`, `Fetch*`, `AssignVersion`, `Pin` | `onFetch`, `handleFetch`, `assignVersion` |
| `MessageEvent`, `MessageInitialized`, `Activate`, `BeginCheck`, ... | `handleMessage`, `updateClient`, `checkForUpdate` |
| `CheckFindsNew`, `Install`, `InstallFails`, `InitializeFully` | `checkForUpdate`, `setupUpdate`, `versionFailed`, `initializeFully` |
| `MatchAll`, `Clean` | `cleanupCaches` |
| `TakeSnapshot`, `WritesLand`, `WritesFail` | `sync()` |
| `Trigger`, `TakeQueue`, `Execute`, `Drained` | the idle scheduler |

### ControlTree

`value`, `status`, `failed` (errors), `own` (`_hasOwnPendingAsyncValidator`), `sub`
(the subscription to the last validation), `controls` (the children of a group, in
the order of the object), `open` (validations not answered). `todo` is the rest of
the calls in progress, in order: a call that emits leaves its own rest below the
calls of the subscriber. `Proceed` takes the next step of `patchValue`, `disable`,
`enable`, `updateValueAndValidity` or `_updateControlsErrors`; `Answer` is an
asynchronous validator; `Call`, `RemoveControl` and `AddControl` are the
application's, when no call is in progress or in a subscriber.

### Navigation

`nav` is the current transition with its stage (`recognize`, `check`, `activate`,
`none`), `tree` the router's URL and state (with what `HistoryStateManager` keeps),
`entries` and the position in them the session history with its page ids, `going`
the traversals asked for, `popped` the `popstate` events whose timeout is due, and
`open` the promises not settled.

| action | code |
|---|---|
| `Navigate`, `PopState`, `Supersede` | `scheduleNavigation`, the `switchMap` over `transitions`, `navigateToSyncWithBrowser` |
| `Recognize`, `Activate`, `End` | the pipeline of `navigation_transition.ts` and, for each of its events, `handleRouterEvent` of the state manager |
| `Reject`, `Redirect`, `Fail` | cancellation by a guard, `NavigationError` |
| `SetBrowserUrl`, `RestoreHistory` | the methods of these names |
| `Traverse`, `Gone` | the user, and `historyGo()`, which is asynchronous |
| `Supersede`, `RemoveTasks` | the task of `Router.scheduleNavigation`, removed in a microtask |

## Runs

| run | bounds | checks |
|---|---|---|
| `signals` | 2 signals, 2 computeds, 2 watches, 2 values, 4 operations per run, 3 epochs; 6 programs | `TypeOK` and the properties below |
| `signals_cycle` | the same, a cycle that comes and goes | `FreshIsRight`: **violated** |
| `signals_cleanup` | the same, an effect whose cleanup function may throw | `EffectsSettle`: **violated** |
| `live_edges` | 1 signal, 2 computeds, 2 watches, 2 reads per run, 4 edges in all | `Linked`, `LivenessExact` |
| `effect_scheduler` | 3 effects in 2 zones, 2 changes, 4 nested calls | `TypeOK`, `QueuesExact`, `NothingStranded`, `KeepsPromise` |
| `change_detection` | 2 roots, a component in one of them, 2 embedded views in a container of the component, declared in the root; 3 operations of user code, 2 reruns | `TypeOK`, `Reachable`, `NothingLeftBehind`, `TasksAreReal`, `BecomesStable` |
| `ng_zone` | the three coalescing modes; 6 operations | `TypeOK`, `WorkIsChecked`, `StableIsIdle`, `TicksDontNest`, `CoalescedInFrame`, `BecomesStable` |
| `ng_zone_event_coalescing` | event coalescing, with events on `onStable`; 3 operations | `WorkIsChecked`: **violated** |
| `sw_driver` | 2 versions, 1 client, 1 drain, 1 message handler; 1 deployment, stop, failed write and message, 2 requests | `TypeOK`, `VersionsKnown`, `DiskMatchesMemory`, `PinsRecoverable`, `FetchAnswered`, `NavCheckRuns` |
| `control_tree` | a group in a group, a control in each; 3 calls | `TypeOK`, `ParentsFollow`, `VerdictIsCurrent`, `AnswerIsAwaited`, `Decided` |
| `control_tree_disabling` | the same, 2 calls, subscribers may call in the middle of `disable()` | `DisableDisables`: **violated** |
| `navigation` | 3 URLs, one redirected by the configuration; 4 pairs of options; 3 calls | `TypeOK`, `UrlFollows`, `NavigatingIsPending`, `NavigationsEnd` |

The properties of `signals`:

- `FreshIsRight`: a computed the algorithm takes for up to date has the value its
  computation would return if everything were evaluated afresh. `SignalsRef!Eval` is
  that reference: `RunOn` is the results of a run on given values of the producers,
  `EvalWhile` evaluates what is not being evaluated already. Both are recursive
  functions, the first on the number of operations, the second on a finite set of
  computeds.
- `GlitchFree`: no user code ever reads any other value, not even in the middle
  of a run of which parts are stale; in particular no read returns `UNSET` or
  `COMPUTING`.
- `CleanIsCurrent`: whatever the two early returns trust has recorded the present
  versions, transitively; for a watch, no change has been missed.
- `DirtyIsScheduled`: a watch is dirty exactly while its scheduler holds it.
- `SoundEffectsSettle`: once the writes stop, each effect alive comes to have read,
  in its last run, exactly what a run would read now, and none of it has changed
  since; and this stays so. That is `EffectsSettle`, for programs in which no
  cleanup function throws.
- `ReadsAreBelow`: whoever is reading is never a dependency of what it reads, even
  when two computeds swap the direction of their dependency.
- `OncePerEpoch`: a computation runs at most once between two writes.

Of `change_detection`:

- `Reachable`: a view that has to be refreshed or traversed is marked on its parent
  too, or some call in progress is going to visit it; stopping at the first
  ancestor already marked loses nothing. It excepts what is below a view that an
  exception left behind (`aborted`) and a view that the loop over its container
  stepped over (`skipped`): the code loses both, see below. Without the second
  exception TLC refutes it, so the case occurs in the run.
- `NothingLeftBehind`: when nothing runs and nothing is scheduled, no view on the
  screen has `RefreshView`, `HasChildViewsToRefresh` or a dirty consumer, although
  notifications during a tick are dropped; with the same exceptions, for the view
  and those above it. It does not speak of views that are only `Dirty`: a
  `markForCheck()` during a tick is lost (`application_ref.ts:704-706`, a TODO).
- `TasksAreReal`: the scheduler has a task exactly while one timer or tick of its is
  under way. `BecomesStable`: and in the end it has none.

Of `ng_zone`: `WorkIsChecked` (code in the zone is followed by a tick),
`StableIsIdle` (the application is not called stable while the zone has work),
`TicksDontNest`, `CoalescedInFrame`, `BecomesStable`.

Of `sw_driver`: `VersionsKnown` (no lookup of a version fails), `DiskMatchesMemory`
(when no handler is about to write, a restart changes nothing), `PinsRecoverable`
(a page answered with the version it is pinned to is given the same after a stop
at any moment, between any two table writes), `FetchAnswered`, `NavCheckRuns`.

Of `control_tree`: `ParentsFollow` (every status and value is what recalculating it
would give), `VerdictIsCurrent` (the verdict is on the present value),
`AnswerIsAwaited` (one validation at most is open for an enabled control, and it
can be cancelled), `Decided` (nothing stays `PENDING`).

Of `navigation`: `UrlFollows` (at rest the browser shows the router's URL),
`NavigatingIsPending` (tasks wait exactly while a navigation runs, and its promise
is the only one open), `NavigationsEnd`.

### Why the bounds are enough

`signals`: two computeds and two watches are the least in which a consumer is
reached on two paths (diamond), is kept live by one of two, and is rewired while
another is being polled; with two values every dependency can come and go, and
three epochs allow a change, its reversal, and runs in between. The programs are
chosen so that each branch of the algorithm is taken; `loop` is there for the
cycle error. `live_edges`: four edges give every way two watches can share a
computed whose own dependencies move; a cascade needs a chain of two, the pointer
repair two consumers of one producer, a repeated dependency two reads.
`effect_scheduler`: nesting four deep is flush, effect, flush, effect.

`change_detection`: three levels of views are the least in which marking can stop
half-way; the embedded views are declared above the component that holds them, so
that they are reached on two ways (transplanted views), and they are two in one
container, so that one that is taken out shifts the index of the other under the
loop; a second root follows the one that fails. Three operations are a mark, a move and an exception or another
mark; the limit of 100 reruns becomes 2, which three operations can exceed.
`ng_zone`: six operations are an event that schedules a timer and a microtask,
whose code runs code in the zone, and two more on the way to the tick and on
`onStable`. `sw_driver`: a second request while the first is at an `await`, an idle
task and a message handler beside them, and one of each mishap, are what each
hazard needs; with two versions the latest hash moves once, and with one stop the
worker restarts from every mixture of tables. One client suffices for what is
said of each client by itself; `VersionsKnown` is proved for any number.
`control_tree`: a group in a group is the least with an ancestor that is not the
parent; the group has the asynchronous validator, so that its children's changes
overtake its answers; three calls are one of the application and two subscribers',
or a change, a change of it before the answer, and another. `navigation`: the
third URL is redirected to the second, so that a redirect can end on the current
URL; three calls are a navigation, one that supersedes it, and a move of the user
in between.

Symmetry is used in `live_edges` only, over computeds and over watches, which
nothing there tells apart. Deadlock checking is on where the system never stops
(`signals`, `live_edges`). It is off in the other passing runs: an application
whose bound is reached and whose work is done, or a worker that is idle, stops.


Each property has a *mutant*: a change to one mapped definition, marked "Mutant"
in the modules, that a plausible bug would make (no pointer repair, no cascade,
the dirty flag left set, the flag `hasQueuedFlush` never reset...) and that
violates the property under the run's own bounds.

## Fairness

`Signals!Fairness` is weak fairness of `Continue`, as synchronous code always
runs on, and strong fairness of each watch's turn, as its scheduler runs it while
the user's actions, taken when the stack is empty, enable and disable that turn
over and over. That the scheduler keeps a scheduled watch and gets to it is what
`EffectScheduler` is checked to do. Nothing is assumed of the user: he may stop
at any time, and the bound on the epoch stops his writes in the end, which is
the hypothesis of `EffectsSettle`. Where effects write, those of `MCSignals` reach
a fixed point; a program whose effects write forever never settles, in the code
as in the model.

`EffectScheduler!FairSpec` has weak fairness of `Proceed`: the event loop drains
its microtasks, and effects return. The application is free to stop.

`ChangeDetection`, `NgZone`, `ControlTree` and `Navigation` have weak fairness of
`System`, the steps that are not the application's: synchronous calls return,
timers and animation frames fire, microtasks run; an asynchronous validator
answers, guards and resolvers return, a traversal of the session history takes
place. One fairness condition is enough because each of these steps uses up
something that only a bounded number of the application's operations creates.
`Navigation` is the exception: refusing a navigation creates a traversal, which
creates a navigation. That is why `NavigationsEnd` supposes that refusals and
failures stop in the end (`RefusalsStop`); without it the property is false (see
the disagreements).

`SwDriver!FairSpec` has weak fairness of each activity's turn and of writes: every
promise of the browser settles and the idle timer fires, unless the worker is
stopped first. Users, servers and failures are obliged to nothing.

## Proofs

Each theorem holds for every value of the constants that satisfies the named
`ASSUME`s of the module it is about. All have the form `Spec => []P`, except
`ComputedOnce` (an action property), `Implements` (a refinement) and
`OrderedIsGrounded` (a fact about programs).

| module | theorem | states | assumes besides |
|---|---|---|---|
| `SignalsProof` | `TypeCorrect`, `WellFormed` | `TypeOK`, the shape of graph and stack | |
| | `NoLostNotification` | `DirtyIsScheduled` | |
| | `CachesAreCurrent` | `CleanIsCurrent` | |
| | `NoReadFromAbove` | `ReadsAreBelow` | |
| | `ComputedOnce` | `OncePerEpoch` | |
| | `CachesAreRight` | `FreshIsRight` | `Grounded(program)` |
| | `NoGlitches` | `GlitchFree` | `Grounded(program)` |
| | `NoFalseCycle` | no cycle is ever detected | `Grounded(program)` |
| | `OrderedIsGrounded` | which programs are grounded | |
| `LiveEdgesProof` | `EdgesAreLinked` | `Linked` | |
| | `LivenessIsExact` | `LivenessExact` | |
| `EffectSchedulerProof` | `TypeCorrect` | `TypeOK` | |
| | `NoEffectStranded` | `NothingStranded` | |
| | `QueuesStayExact` | `QueuesExact` | |
| | `Implements` | `Promise!Safety` | |
| `NgZoneProof` | `TypeCorrect`, `NoNestedTick`, `TickInFrame` | `TypeOK`, `TicksDontNest`, `CoalescedInFrame` | |
| | `AllWorkIsChecked` | `WorkIsChecked` | `"onStable" \notin Gaps` |
| | `StableMeansIdle` | `StableIsIdle` | `Gaps = {}` |
| `ChangeDetectionProof` | `StaysReachable` | `Reachable` | |
| | `NothingIsLeftBehind` | `NothingLeftBehind` | `HearsUnstable = FALSE` |
| | `TypeCorrect`, `TasksStayReal` | `TypeOK`, `TasksAreReal` | `HearsUnstable = FALSE` |
| `SwDriverProof` | `LookupsSucceed`, `TypeCorrect` | `VersionsKnown`, `TypeOK` | |
| | `TablesMatch` | `DiskMatchesMemory` | |
| | `PinsSurviveCrashes` | `PinsRecoverable` | |
| `ControlTreeProof` | `TypeCorrect` | `TypeOK` | |
| | `ParentsFollowAlways` | `ParentsFollow` | `"disabling" \notin Gaps` |
| | `VerdictsAreCurrent`, `AnswersAreAwaited` | `VerdictIsCurrent`, `AnswerIsAwaited` | `Gaps = {}` |
| `NavigationProof` | `TypeCorrect`, `NoCallForgotten` | `TypeOK`, `NavigatingIsPending` | |
| | `UrlIsShown` | `UrlFollows` | |

### SignalsProof

For all sets of nodes, values and programs. The assumptions are that the kinds of
nodes are disjoint, sentinels are not values, user code terminates within `MaxOps`
operations, and computeds do not destroy watches. Cycles are not excluded.

`TypeOK` is not inductive. Which operation comes next is defined only while the
trace is within the bound, and a hole in a producer list is not a node to poll.
`IInv` adds that signals always have a value and no dependency; that only the
lists of watches destroyed in mid-run have holes; that no such watch is being
polled; that a suspended reader is at a read; and that a watch is only at the
bottom of the stack. `DirtyIsScheduled` is inductive relative to `IInv`: the push
phase schedules exactly the watches it marks, and `Run` takes a watch out of the
scheduler's hands in the step that clears its flag.

`CleanIsCurrent` is the heart of the algorithm: whatever is taken for up to date
without being looked at has recorded the present version of each dependency, and
these in turn. It is not inductive, because flags and epochs do not say which of
the computeds that are *not* trusted at the moment will be trusted a step later.
The invariant `Trust` therefore follows a set of computeds that the algorithm does
not know: `Good`, the largest set of clean computeds whose recorded versions are
the present ones and whose dependencies are signals or in the set again. Then:

- whatever `UpToDate` lets through is in `Good` (`Trusting`), and a computed that
  is dirty has a last clean epoch in the past (`Epochs`), so that the comparison of
  epochs never hides a dirty flag;
- a write removes from `Good` exactly what it marks, and what it marks is nobody's
  trusted dependency afterwards, since the epoch moved;
- a call in progress has seen members of `Good` only: the producers polled so far,
  and those read so far (`Frames`), except by a watch that was notified in its own
  run;
- whenever a call returns, the producer its caller waited for is in `Good`
  (`Arrived`).

A version that goes up could put others out of `Good`. It goes up only for a
computed that was dirty or looked at; that nobody in `Good` depends on it is the
point at which induction along the graph is needed, as a cycle that was detected may
have left dependencies in both directions. Induction over data is out of the
provers' reach, so the proof takes least numbers: `Least` follows from the
well-foundedness of the strict subset order on finite sets.

`ReadsAreBelow` and `OncePerEpoch` follow from `Trust`: what is being computed is
not in `Good`, what is read is; and `producerRecomputeValue` sets the last clean
epoch to the present one, past which `UpToDate` never lets a second one begin.

### SignalsProof, second part: the values

`CleanIsCurrent` says that versions agree, the second part of the module that values
do. It assumes, besides what the first part does, that there are finitely many computeds, without
which the reference could not be evaluated. The theorems are about the programs that
are `Grounded`: whatever the signals are, the computeds have ranks such that the run
of each on the reference values reads computeds of lower rank only, and none of it by
`untracked()`. Both halves are needed. A cycle that comes and goes makes `FreshIsRight`
false (`signals_cycle`), and a value that depends on an untracked read need not follow
what was read. The ranks may differ from one state of the signals to the next, so
dynamic dependencies are free to swap their direction, as in the program "swap";
`OrderedIsGrounded` is the simple sufficient condition, one order for all signals and
all results. Watches may read untracked, write and destroy as they like.
`MCSignals!GroundedPrograms` has TLC evaluate which of the programs of the runs are
grounded: all but "loop" and "cycle".

The invariant, `Memory`, holds on top of `Trust`:

- `Memos`: for the value of each computed there is a run of its code, the results of
  its operations one by one, that returns it, and each read in that run is recorded
  among its dependencies, in order.
- `Held`: the version recorded with a read stands for the value read. As long as the
  producer has that version, it has that value, or had it when its computation in
  progress started (`Frame.old`): a recomputation that ends in the same value keeps
  the version, one that ends in another raises it. `HeldKept` is what a step has to
  leave true for all the rest to stay.
- `Bodies`: what a computation in progress has read so far is recorded, and was
  right; for a watch the same, up to its own last write.
- `SeenBefore`, `Marked`: no recorded version is of the future, and what is marked
  as being computed is on the stack.

A member of `Good` is then right, by least counterexample along the ranks
(`GoodIsRight`): its run retraces the reference's run read by read, as user code that
has had the same results does the same next (`Retrace`). The same argument is what
bounds the stack. Polling does not follow a run in progress but the reads of an old
one; because producers are polled in the order in which they were read, and polling
stops at the first that changed, what is polled next is a read that the present run
would make as well (`CallsLower`). So ranks go down along the stack and no
computation comes back to itself (`NoCycle`).

`Eval` is a recursive function whose domain shrinks with the set of what is being
evaluated; that it satisfies its equation (`EvalWhileIs`, `RunFunction`) is
proved by the least number of steps at which there would be no function that does,
which takes the place of an induction.

### LiveEdgesProof

For any sets of nodes and any bounds. `Linked` and `LivenessExact` speak of the
moments when no call is in progress; in the middle of a cascade both are false. What
holds then (`IInv`) is stated by `On`: a dependency of a consumer should be linked if
the consumer is live or, for those that a loop in progress goes through, if the loop
has already linked it, or has not yet unlinked it. `HaveTwins` and `AreTwins` say
that what is `On` is linked and that nothing else is. The rest of the invariant is
what makes a step of one call leave the edges of the others alone:

- `Frames`: each call is about the producer of the dependency its caller is at, so
  `Attach` and `Detach` change that dependency from off to on or back, and no other
  (`OnReturn`). Just then the producer's own list gains its first entry or loses its
  last; its own dependencies have all been linked or unlinked by its own loop, so
  they are on, or off, before and after (`OnAttach`, `OnDetach`).
- `OneCall`: no node is in two calls at once, because a call further in is about
  something further down, and dependencies do not lead back (`Grounded`, `NewNode`).
  Without it the entry that a loop is going to remove could be moved by a call for
  the same producer.
- `Runs`, `Holes`: a loop never meets a hole, though a watch destroyed in mid-run
  gets some.

`Grounded` says that every set of nodes has a member that depends on none of it,
`Rooted` that it has one on which none depends. `NewEdge` shows that a read by a
running consumer keeps both, as what it reads depends on nothing that runs: among the
members of a set that are reachable from what is read, or from which the reader is
reachable, the old graph has one. `LivenessExact` follows: the live computeds are
closed under dependency, and among those that no watch reaches there would be one
without a consumer.

### EffectSchedulerProof

For any effects, zones, changes and nesting.

- `NoEffectStranded`. The invariant is that the flushes queued as microtasks are
  never fewer than the effects queued, except between the start of the outermost
  flush and the first effect it takes, when the flush that has begun makes up the
  difference. It needs that `flush` and `run` frames alternate, and that
  `hasQueuedFlush` is always false. So the flag that is never set is what makes an
  aborted flush harmless, which answers the "TODO: what happens if this throws an
  error?" at `effect.ts:137`.
- `QueuesStayExact` and `Implements`. A queue changes at its ends only, and by one
  effect in a step: `EnqueueExact` and `DequeueExact` say what `Queued` gains or
  loses, and each such change is a step of `EffectQueue`.

### NgZoneProof

For any coalescing modes, bounds and gaps, in three layers. `Coherent` says what
the stack looks like, and that `nesting` and the count of microtasks are what can be
read off stack and queue; it holds whatever the application does, and gives the
types, `TicksDontNest` and `CoalescedInFrame`. `Settled` says that a change is in
code still running, or that its check is on its way. It needs that no subscriber
of `onStable` dispatches an event under event coalescing, which is the
disagreement that the run `ng_zone_event_coalescing` shows: there is no weaker
hypothesis for `AllWorkIsChecked`. `Quiet` says the same of the pending task; each
of the other gaps refutes `StableIsIdle` in TLC. `Gaps` is a constant, so the two
theorems hold of the applications that do none of these things, and the first three
of all.

### ChangeDetectionProof

For any finite tree of views with any templates declared anywhere in it, any number
of operations of user code and any limit of reruns. The assumptions are that the
tree is one (no view is above itself) and that there are two identities for tasks.
The views above a view, and the way up to the first that is in no container, are
stated as reachability; `AncestorsLeast` is what replaces induction along the way up.

- `StaysReachable` holds for any number of containers with any number of views, which
  user code inserts and takes out under the loops over them. The invariant carries that
  a container lists every view inserted in it (`ContentOK`). When the content changes,
  a call that was to visit a view of it still is to do so, or has stepped over it
  (`ChangedKeeps`, `InsertKeeps`, `RemoveKeeps`); the second makes the view a member of
  `skipped` if it is marked, and what marks it later marks its parent too.
  `Reachable` alone is not inductive: when an exception unwinds the
  calls, `HasChildViewsToRefresh` of the views being traversed is already cleared, and
  the views that still wait on their lists can be found again only from the marks that
  the unwound refreshes leave. The invariant `Held` says what these marks need.
  `Found` is `Reachable`, with the calls that await a view named. `Chained`
  says of a view that is marked once more while it is traversed below another that the
  other is marked as well, or was left behind, or that a call made since is going to
  visit the view again. So, from the innermost refresh
  that is unwound, each view being traversed gets its mark, up to where `MarksReach`
  ends (`UnwoundAreMarked`, by the greatest index at which it does not). Everything
  that user code does to flags is summed up in `Grown`: no mark goes away, and
  whoever comes to need a visit has a parent that is marked.
- `TypeCorrect`, `TasksStayReal` and `NothingIsLeftBehind`. The invariant `Tasks` adds
  that the task has one timer or one tick (`TaskOK`), and that without a task no root
  needs a visit, except one that a call has just begun with, or after a tick that
  failed (`Quiet`).
  The latter holds because whatever marks a root also notifies; operations that mark
  none are `Calm`. `NeedsLeadUp` carries a view's need up to its root by `Reachable`.
  At most one tick is in progress because the guard of `Tick` and the timer, which
  fires on an empty stack only, are the two ways in.
  A subscriber that marks a view when the application becomes *unstable* makes
  `notify()` leak a task (see below): with `HearsUnstable = TRUE` the count of timers,
  and with it these theorems, does not hold.

### SwDriverProof

For any versions, clients, drains, messages and bounds. The assumptions are that
activities of different kinds are different, and that there are finitely many
versions, at least one.

- `LookupsSucceed`. Almost every activity writes to `act`, so the proof first shows
  that a step of another activity leaves `initialize()` where it is (`BootStays`).
  Then: only `initialize()` reads the tables, and it takes over a client's version
  only if there is a manifest for it; an assignment takes `latestHash`, which is
  known; a cleanup keeps the versions that clients and `latestHash` have after it
  dropped the pins of those that are gone.
- `TypeCorrect`. An activity keeps over an `await` what it needs after it
  (`Sane`), and before `initialize()` is done nobody is past it (`Early`).
- `TablesMatch` and `PinsSurviveCrashes`. Writes of several `sync()` calls may
  overlap and land in part. Each belongs to an activity that waits for it
  (`Writers`), the newest snapshot is what memory holds or some activity is about to
  take one, and the pin of a page is `Secured`: in the tables, and in every snapshot
  that may still land on them.

### ControlTreeProof

For any tree, validators, values and number of calls. The assumptions are that the
tree is one (no group is above itself) and that a group is built with the values of
its children. The initial statuses are whatever satisfies the equations of the
constructors, so that initial values may be rejected and nothing is defined by
recursion along the tree; the groups above a control are given by reachability.

The properties hold when no call is in progress. Proved is what holds in between:
whatever does not agree yet, the list `todo` has a step that will see to it.

- `ParentsFollowAlways`. In `FollowInv`, `Follows(n)` says of one control which steps
  may be owed: an update of it or of a control below that passes it on (`Coverers`),
  or, of its value alone, the `revalue` of a `disable()` (`Revaluers`), or, of its
  status alone, a status passed up (`Restaters`); or `disable()` has not been
  through its children yet (`Disabling`). That is not inductive for a step with
  `onlySelf`: who sees to the parent? `Shape` is what is missing. Each such step is
  `Bound` to a later one that covers the parent (`Chained`), and while children remain
  to be disabled nothing but that comes first (`InOrder`). The last part is what a
  subscriber that calls in the middle of `disable()` destroys, hence the
  hypothesis; the run `control_tree_disabling` shows that there is no proof without
  it.
- `VerdictsAreCurrent` and `AnswersAreAwaited`. `Awaits` and `Judged` say what the two
  properties say of a control at rest, at every moment at which no update of it is
  owed. A status is passed up without validating the parent again, so a control
  could be left with an old status until an answer repairs it: `Waiting` says that
  then it is `PENDING`, so that a control with errors is never taken for another.
  `SubscribedFirst` says that the subscription that is going to be overwritten
  belongs to nobody, which a call in the gap "atOnce" refutes.

### NavigationProof

For any URLs, configured redirects, options and number of calls. In `TypeCorrect`
the types say that the router never calls `history.go(0)`. It and
`NoCallForgotten` are inductive together, neither is alone: a promise is one of
two identities, the least that a navigation and the one that supersedes it need,
and that a free one exists when a navigation begins is just what
`NavigatingIsPending` says. The proof goes through superseding first (`Supersede`
from a call, from a `popstate` event and from a redirect settles or hands on the
promise) and then over the actions.

`UrlIsShown` has an invariant of its own on top of that one (`FollowInv`), which
says what holds when the router is not at rest.

- With "replace" (`Rewritten`): the browser shows the router's URL between
  navigations and while one activates, unless an event of the browser is pending;
  with early updates it shows, from the recognition to the activation, the URL of
  the navigation. Nothing is asked of the router here, not even that a navigation
  has succeeded.
- With "computed" nothing is rewritten, so the argument is about the way back.
  `Home`: some entry of the session history still has the page and the URL the router
  is at. `Resting`: between navigations the browser is at that entry, or the last
  `history.go()` that the router asked for leads there; the ones before it do not
  matter. That a traversal which runs out of the history does nothing is what could
  go wrong: `HomeIsNear` shows that the last one never does, because in a counted
  history the difference of two pages is the distance of their entries
  (`CountedBy`, proved by the least counterexample). `Activating`: a component that
  ends or fails while it activates is at an entry of its own, which has a page, so
  `currentPageId` is taken from the entry and not left as it was.

### Only model-checked

- Liveness: `SoundEffectsSettle`, the fairness half of `KeepsPromise`, both
  `BecomesStable`, `FetchAnswered`, `NavCheckRuns`, `Decided`, `NavigationsEnd`.
  TLAPS has no reasoning about fairness here.
- `FreshIsRight` and `GlitchFree` of programs that are not grounded: "loop", where
  they hold, as its two computeds can never do other than fail. (Of "cycle"
  `signals_cycle` shows that they do not.)

## What the models leave out

Of the graph: custom `equal` functions (equality is identity of values); writes
inside a computed under `untracked()`, which the code does not refuse, because
there is no active consumer then; a cleanup function that throws out of
`destroy()`; a watch run synchronously from inside another computation;
`schedule` hooks that do more than queue; `consumerOnSignalRead` and the
post-set hook; consumers other than computeds and watches (of the reactive
template consumer, `ChangeDetection` has the state).

Of effects: effects created in a view before its first pass are scheduled later
(`EFFECTS_TO_SCHEDULE`); `DestroyRef`; the graph itself, of which only a dirty
flag per effect remains. Effects are created inside other effects too (under
`untracked()`, in the code).

Of change detection: creation mode, queries, `checkNoChanges`, the flushing of
effects by a refresh, destruction of views, the reactive consumers of embedded
views. The properties exclude, because the code does not take care of them: what
is below a view whose own refresh ended in an exception, whose
`HasChildViewsToRefresh` was cleared while only its ancestors are marked again, or
below a view that was being traversed then, if the view itself or one on the way down
to the one that failed had been detached, taken out, left behind before, or is visited
again further down (`aborted`, `Lost`; `change_detection.ts:266`); a view that the loop
over its container stepped over, and in `NothingLeftBehind` what is below it (`skipped`;
`change_detection.ts:308`); what was marked in a scheduled tick that
failed, as a notification during a tick is dropped (`failed`). Also visible in the
model without being a property: a view only marked `Dirty` during a tick is not
checked again in it (the TODO at `application_ref.ts:706`), and a root detached
in the middle of a pass makes the pass skip the next one (`:524`). With
`HearsUnstable = TRUE`, a subscriber that marks a view when the application
becomes unstable, `BecomesStable` fails: `notify()` is re-entered before
`pendingRenderTaskId` is assigned (`zoneless_scheduling_impl.ts:26`), and a task
leaks.

Of zones: `onError`, `runTask` and `runGuarded` (they enter and leave as `run`
does), events marked to be ignored, periodic timers, destruction, hierarchies of
zones and the state machine of tasks. An exception leaves by the same `finally`
blocks as a return. Each of the `Gaps` but "onStable" makes `StableIsIdle` fail
when it is opened; "onStable" is the second run. Cancelling the last timer from
outside the zone leaves the application unstable until something else happens
(`silenced`).

Of the service worker: unregistering (404 of the manifest, `configVersion`), push
messages and notification clicks, messages to clients, the delays of the idle
scheduler, the contents of caches. Known and not forbidden by a property: the
substitute a restart chooses for a stored hash it does not know is not written
back (`remapped`); a cleanup drops the pins of clients that `matchAll` does not
list (`driver.ts:1012`); a client pinned to one version may be answered by a newer
one that arrived during the `await` (`:739`, `:781`); a server that goes back to a
version still present does not make it the latest again (`:946`); when the `sync()`
of an assignment fails, `idle.trigger()` is not called (`:513`).

Of forms: `touched` and `pristine`, `updateOn`, `onlySelf` given by the application,
`setErrors` and `markAsPending` called by the application (after `setErrors(null)`
a group can be `VALID` although its asynchronous validator has not run),
`setControl`, `FormArray`, directives. A late answer may give errors to a control
that was disabled meanwhile. With the gap "atOnce" (a validator that answers
before `subscribe()` returns, and a subscriber that validates again)
`AnswerIsAwaited` fails: the closed subscription overwrites the later one
(`abstract_model.ts:1094`).

Of the router: `UrlHandlingStrategy`, `onSameUrlNavigation: 'reload'`,
`resetConfig`, outlets and the activation of routes, lazy loading, scrolling, view
transitions, titles, `dispose()`, changes of the session history by others, and
subscribers of the router's events that navigate. `UrlFollows` has its hypotheses
because without each of them the code does not restore the URL; see the
disagreements.

Of the rest of the repository: everything listed as `not_modelled`. By lines that
is nearly all of it: a compiler, a renderer and a set of tools, which are
sequential translations of data. What the models cover is where order matters.

## Disagreements between code and documentation

1. `signals_cycle`: a computed that took part in a cycle can keep its cached
   error for ever. The cyclic read throws (`computed.ts:105`) before the
   dependency is recorded (`computed.ts:55`), so the computed in between caches
   the error with no dependency on the one it read; when the signal that
   selected the cycle changes, nothing recomputes it. `README.md:47` of the
   package promises recomputation "whenever any of those dependencies changes".
2. `signals_cleanup`: a cleanup function that throws, even once, ends its effect.
   It is called (`watch.ts:101`) when the dependencies have been reset and before
   anything is read, so they are all dropped, and no signal schedules the effect
   again; `aio/content/guide/signals.md:105` says that whenever one changes, "the
   effect runs again". Without the exception the same program settles.
3. `ng_zone_event_coalescing`: an event caused by a subscriber of `onStable` makes
   an animation frame due while `checkStable` is emitting; `checkStable` then sets
   `isStable` (`ng_zone.ts:361`), and the frame finds the zone stable and emits
   nothing. What the listener changed is not shown, against `ng_zone.ts:304-306`.
4. `control_tree_disabling`: `disable()` of a group disables its children one by
   one, each of which emits; a subscriber that sets the value of a later child
   makes the group enabled again, and nothing recalculates it: all children are
   `DISABLED` and the group, which was `PENDING`, is `VALID`, against `abstract_model.ts:924-927`.

Seen while modelling, without a run:

- `destroy()` called by a watch while it runs does not disconnect it for good; its
  next read links it again, after holes (`graph.ts:215`, `:410`), against
  `watch.ts:37-39`.
- `effect.ts:95` sets `hasQueuedFlush` to `false` under a comment that explains
  leaving it `true`. See `NoEffectStranded` before "fixing" it.
- The catch block of `refreshView` (`change_detection.ts:266-273`) marks the ancestors
  again after an exception, so that what is left to refresh is found. A view that is
  being traversed in targeted mode and is detached by code below it, which then throws,
  stops these marks (`markAncestorsForTraversal` ends at a detached view): its children
  that were still to be visited are not found after it is attached again.
- `detectChangesInEmbeddedViews` (`change_detection.ts:306-311`) goes over the live
  container by index, and `detachView` splices it (`node_manipulation.ts:346`). Let
  the container of a component hold the embedded views e1 and e2, both declared in the
  root. The root's template marks both for refresh; a hook of e1 takes e1 out; the
  loop goes on behind e2. e2 keeps `RefreshView`, but `HasChildViewsToRefresh` of the
  component was cleared when it was entered: the tick ends, nothing is scheduled, and
  e2 is not refreshed until something marks or attaches it anew or the whole component
  is refreshed. `view_utils.ts:227` says that the marks ensure "views above the given
  `lView` are traversed". Without `skipped` in them, `Reachable` and
  `NothingLeftBehind` fail in this way.
- Router, "computed" with eager updates and `replaceUrl` (or a redirect), refused
  by a guard: the URL is not restored; the comment in `restoreHistory`
  (`state_manager.ts`) that none is needed does not hold.
- Router, eager updates and a redirect in the recognition stage: it happens before
  the URL is updated, contrary to the comment at `router.ts:231`, and replaces the
  entry of the page left. In deferred mode, a redirect of the initial navigation
  adds a second entry.
- Router: an initial navigation that is redirected or superseded leaves the first
  entry without a page id, and later restorations are wrong, against the comment
  that each page id is one more than the previous (hypothesis `Counted`).
- Router, "computed" with eager updates: a navigation that finishes between a
  `popstate` event and its `setTimeout` takes a wrong page id.
- Router: when a component navigates during activation, `currentPageId` is not
  brought up to date for the navigation superseded, and a refusal of the second
  goes back one page too far (hypothesis `tree.ended`).
- Router: a traversal to another entry of the current URL is skipped as the same
  URL and leaves `currentPageId` behind.
- Router, "computed": two pending traversals and guards that keep refusing take
  each other back for ever (hypothesis `RefusalsStop`).

## Plan

1. *(done)* the reactive graph, its edge lists, effects and their scheduler;
   first proofs.
2. *(done)* views, `ApplicationRef.tick()`, `PendingTasks` and the zoneless scheduler;
   NgZone and the scheduling of change detection by it.
3. *(done)* the service worker's driver, forms, the router; the proofs of
   `NavigationProof` and `SwDriverProof`.
4. *Deeper proofs.* *(done)* `CleanIsCurrent`, `ReadsAreBelow`, `OncePerEpoch`,
   `QueuesExact`, the refinement of `EffectQueue`; all of `NgZone`; all invariants of
   `SwDriver`, of `ChangeDetection` and of `ControlTree`; the
   router's URL.
5. *More of the system.* The state machine of zone.js tasks along a hierarchy of
   zones; the delays of the idle scheduler; the asset and data caches of the
   service worker (hash verification with its retry, the LRU list); deferrable
   views.

Each run stays below two and a half million states and finishes within a few minutes; the
whole project stays within twelve runs.
