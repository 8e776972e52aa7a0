-------------------------- MODULE ChangeDetection --------------------------
(***************************************************************************)
(* Change detection of a tree of views (packages/core/src): the flags that *)
(* lead a traversal to the views to refresh, the traversal itself with the *)
(* user code it calls, ApplicationRef.tick(), and the zoneless scheduler   *)
(* with its task in PendingTasks.                                          *)
(*                                                                         *)
(* All of it is one synchronous call, but templates and hooks run in the   *)
(* middle, and mark views, move them, throw or detect changes themselves:  *)
(* `stack` is the call stack, and an action is what happens up to the next *)
(* point where user code runs or a loop goes round.                        *)
(***************************************************************************)
EXTENDS PendingTasks, SequencesExt

CONSTANTS
  View,           \* the LViews: hosts, components and embedded views
  Root,           \* the views that can be attached to the ApplicationRef
  Embedded,       \* the views that are inserted in containers
  In,             \* the container an embedded view is inserted in
  Parent,         \* the view that holds the component or the container
  DeclaredIn,     \* the view that declares the template of an embedded view
  CheckAlways,    \* the views without OnPush
  Reads,          \* the views whose template reads signals
  Listener,       \* a view with a subscriber of isStable
  HearsUnstable,  \* the subscriber reacts to FALSE as well as to TRUE
  EnsureReachable,\* getEnsureDirtyViewsAreAlwaysReachable()
  MaxReruns,      \* MAXIMUM_REFRESH_RERUNS
  MaxOps,         \* bound: operations of user code
  None

(* The points of refreshView() at which user code runs, and those of tick(). *)
Code == {"template", "contentHooks", "viewHooks", "afterRender"}

(* The LContainers. *)
Container == {In[e] : e \in Embedded}

ASSUME ViewTree ==
  /\ IsFiniteSet(View) /\ View \cap Code = {}
  /\ Root \subseteq View /\ Embedded \subseteq View \ Root
  /\ DOMAIN In = Embedded /\ Container \cap (View \cup Code) = {}
  /\ \A e \in Embedded : \A x \in Embedded : In[e] = In[x] => Parent[e] = Parent[x]
  /\ Parent \in [View \ Root -> View] /\ DeclaredIn \in [Embedded -> View]
  /\ CheckAlways \subseteq View /\ Reads \subseteq View \ Embedded
  /\ Listener \in View /\ HearsUnstable \in BOOLEAN /\ EnsureReachable \in BOOLEAN
  /\ MaxReruns \in Nat /\ MaxOps \in Nat /\ None \notin View \cup TaskId
  /\ \E id1, id2 \in TaskId : id1 # id2

(* The views above v, as declared: no view is among those above itself. *)
Tree == INSTANCE Reach
Ancestors ==
  LET holder == [v \in View |-> IF v \in Root THEN {} ELSE {Parent[v]}]
  IN [v \in View |-> Tree!Reachable({v}, View, holder)]

ASSUME NoCycles == \A v \in View : v \notin Ancestors[v]

VARIABLES
  ui,        \* flags: those of the views; task: pendingRenderTaskId; timers:
             \* races of timeout and animation frame; tasks: PendingTasks
  views,     \* _views of the ApplicationRef
  content,   \* the views in the containers, in order
  stack,     \* the calls in progress, the innermost last
  aborted,   \* views whose children the last exception may have left behind
  skipped,   \* views that a loop stepped over though they had to be visited
  failed,    \* the last scheduled tick ended in an exception
  destroyed, \* of the ApplicationRef
  other,     \* a pending task that is not the scheduler's
  ops

vars == <<ui, views, content, stack, aborted, skipped, failed, destroyed, other, ops>>

Flags == [attached : BOOLEAN, inserted : BOOLEAN, dirty : BOOLEAN, refresh : BOOLEAN,
          child : BOOLEAN, consumer : {"none", "clean", "dirty"}]
Frame == [kind : {"tick", "while", "refresh", "traverse"}, view : View \cup {None},
          mode : {"Global", "Targeted"}, runs : Nat, pos : Nat, scheduled : BOOLEAN,
          todo : Seq(View \cup Container \cup Code)]
Call == [kind |-> "while", view |-> None, mode |-> "Global", runs |-> 0, pos |-> 0,
         scheduled |-> FALSE, todo |-> <<>>]

(* The calls of ApplicationRef.tick() in progress: _runningTick. *)
TickAt == {i \in DOMAIN stack : stack[i].kind = "tick"}

TypeOK ==
  /\ ui.flags \in [View -> Flags]
  /\ ui.task \in TaskId \cup {None} /\ ui.timers \in Nat /\ ui.tasks \in PendingTasksType
  /\ views \in Seq(Root)
  /\ content \in [Container -> Seq(Embedded)]
  /\ stack \in Seq(Frame)
  /\ aborted \subseteq View /\ skipped \subseteq View /\ failed \in BOOLEAN /\ destroyed \in BOOLEAN
  /\ other \in TaskId \cup {None} /\ ops \in 0..MaxOps
  /\ Cardinality(TickAt) <= 1

(* The body of notify(): a task, and a timer. *)
Schedule(u) ==
  LET id == NewTask(u.tasks)
  IN [u EXCEPT !.task = id, !.timers = @ + 1, !.tasks = Added(@, id)]

(* The application is created: its views are rendered, and a tick is scheduled
   by the notify() calls that creating and attaching them made. *)
Init ==
  /\ ui = Schedule([flags |-> [v \in View |-> [attached |-> TRUE, inserted |-> TRUE,
                        dirty |-> FALSE, refresh |-> FALSE, child |-> FALSE,
                        consumer |-> IF v \in Reads THEN "clean" ELSE "none"]],
                    task |-> None, timers |-> 0, tasks |-> NoTasks])
  /\ views = SetToSeq(Root)
  /\ content = [c \in Container |-> SetToSeq({e \in Embedded : In[e] = c})]
  /\ stack = <<>>
  /\ aborted = {} /\ skipped = {} /\ failed = FALSE /\ destroyed = FALSE /\ other = None /\ ops = 0

-----------------------------------------------------------------------------
(* Marking views *)

(* getLViewParent() *)
ParentIn(u, v) == IF v \in Root \/ ~u.flags[v].inserted THEN None ELSE Parent[v]

Up(v) == ParentIn(ui, v)

(* requiresRefreshOrTraversal() *)
Requires(u, v) ==
  u.flags[v].refresh \/ u.flags[v].child \/ u.flags[v].consumer = "dirty"

(* v and the views above it, up to one that is in no container. *)
Path(u, v) ==
  LET from == {v} \cup Ancestors[v]
  IN {w \in from : \A x \in from : w \in Ancestors[x] => ParentIn(u, x) # None}

DirtyPath(u, v) == [u EXCEPT !.flags =
  [w \in View |-> IF w \in Path(u, v) THEN [u.flags[w] EXCEPT !.dirty = TRUE] ELSE u.flags[w]]]

(* Mutant: a task for every notification. *)
NotifyAlways(u) == Schedule(u)

(* notify().  add() emits before it returns the identity of the task: a
   subscriber that marks a view then notifies while there is none. *)
Notify(u) ==
  IF u.task # None THEN u
  ELSE IF ~u.tasks.has /\ HearsUnstable
       THEN Schedule(DirtyPath(Schedule(u), Listener))
       ELSE Schedule(u)

(* The ancestors of v that get HasChildViewsToRefresh: up to one that has it
   already, or that is detached. *)
ToMark(u, v) ==
  {w \in Ancestors[v] \cap Path(u, v) :
     /\ ~u.flags[w].child
     /\ \A x \in Ancestors[v] :
          w \in Ancestors[x] => u.flags[x].attached /\ ~u.flags[x].child}

(* markAncestorsForTraversal() for the views S in turn: where one stops at what
   another has marked, there is nothing left to mark. *)
MarkAncestors(u, S) ==
  LET n == Notify(u)
      marked == UNION {ToMark(u, v) : v \in S}
  IN IF S = {} THEN u
     ELSE [n EXCEPT !.flags = [w \in View |->
             IF w \in marked THEN [n.flags[w] EXCEPT !.child = TRUE] ELSE n.flags[w]]]

(* markViewDirty() *)
MarkDirty(u, v) == DirtyPath(Notify(u), v)

(* A signal that the template of v read changes: consumerMarkedDirty(). *)
SignalChanges(u, v) ==
  IF u.flags[v].consumer = "clean"
  THEN MarkAncestors([u EXCEPT !.flags[v].consumer = "dirty"], {v}) ELSE u

(* markViewForRefresh() for the views S in turn *)
MarkForRefresh(u, S) ==
  LET new == {v \in S : ~u.flags[v].refresh}
      marked == [u EXCEPT !.flags = [w \in View |->
                   IF w \in new THEN [u.flags[w] EXCEPT !.refresh = TRUE] ELSE u.flags[w]]]
  IN MarkAncestors(marked, {v \in new : u.flags[v].attached})

(* updateAncestorTraversalFlagsOnAttach() *)
FlagsOnAttach(u, v) ==
  IF Requires(u, v) THEN MarkAncestors(u, {v})
  ELSE IF ~u.flags[v].dirty THEN u
  ELSE IF EnsureReachable THEN MarkAncestors([u EXCEPT !.flags[v].refresh = TRUE], {v})
  ELSE Notify(u)

-----------------------------------------------------------------------------
(* The traversal *)

Top == stack[Len(stack)]
Callers == SubSeq(stack, 1, Len(stack) - 1)
Step(f) == Append(Callers, f)

ContainersOf(v) == SetToSeq({In[e] : e \in {x \in Embedded : Parent[x] = v}})
ComponentsOf(v) == SetToSeq({c \in View \ (Root \cup Embedded) : Parent[c] = v})

(* refreshView(): what it runs and visits, in this order. *)
Refresh(v) == [Call EXCEPT !.kind = "refresh", !.view = v,
                           !.todo = <<"template">> \o ContainersOf(v) \o <<"contentHooks">>
                                      \o ComponentsOf(v) \o <<"viewHooks">>]
Traverse(v) == [Call EXCEPT !.kind = "traverse", !.view = v, !.mode = "Targeted",
                            !.todo = ContainersOf(v) \o ComponentsOf(v)]

Clear(f) == [f EXCEPT !.refresh = FALSE, !.child = FALSE,
                      !.consumer = IF @ = "dirty" THEN "clean" ELSE @]

(* detectChangesInView(), called with the stack st.  A dirty consumer whose
   producers turn out to be unchanged does not count. *)
Visit(v, mode, st) ==
  LET f == ui.flags[v] IN
  \E polled \in {p \in BOOLEAN : p => f.consumer = "dirty"} :
    LET refreshes == f.refresh \/ polled
                       \/ (mode = "Global" /\ (v \in CheckAlways \/ f.dirty))
    IN /\ ui' = [ui EXCEPT !.flags[v] = Clear(f)]
       /\ aborted' = IF refreshes THEN aborted \ {v} ELSE aborted
       /\ skipped' = skipped \ {v}
       /\ stack' = IF refreshes THEN Append(st, Refresh(v))
                   ELSE IF f.child THEN Append(st, Traverse(v)) ELSE st

Next1 == Head(Top.todo)
Popped == [Top EXCEPT !.todo = Tail(@), !.pos = 0]

Loop == stack # <<>> /\ Top.todo # <<>> /\ Top.kind \in {"refresh", "traverse"}

(* detectChangesInViewIfAttached(), called by the stack st *)
VisitIfAttached(v, st) ==
  IF ui.flags[v].attached THEN Visit(v, Top.mode, st)
  ELSE stack' = st /\ UNCHANGED <<ui, aborted, skipped>>

(* The next component. *)
VisitChild ==
  /\ Loop /\ Next1 \in View
  /\ VisitIfAttached(Next1, Step(Popped))
  /\ UNCHANGED <<views, content, failed, destroyed, other, ops>>

(* The view at the index of the loop over a container, as it is by now: what is
   inserted or removed before the index shifts the views under the loop. *)
VisitEmbedded ==
  /\ Loop /\ Next1 \in Container /\ Top.pos < Len(content[Next1])
  /\ VisitIfAttached(content[Next1][Top.pos + 1], Step([Top EXCEPT !.pos = @ + 1]))
  /\ UNCHANGED <<views, content, failed, destroyed, other, ops>>

(* The end of the container. *)
ContainerDone ==
  /\ Loop /\ Next1 \in Container /\ Top.pos >= Len(content[Next1])
  /\ stack' = Step(Popped)
  /\ UNCHANGED <<ui, views, content, aborted, skipped, failed, destroyed, other, ops>>

(* The transplanted views that v declares. *)
Moved(u, v) == {e \in Embedded : DeclaredIn[e] = v /\ Parent[e] # v /\ u.flags[e].inserted}

(* The template or the hooks of a view return.  After the template, views that
   are declared here and shown elsewhere are marked. *)
CodeReturns ==
  /\ Loop /\ Next1 \in Code
  /\ ui' = IF Next1 = "template"
           THEN MarkForRefresh(ui, Moved(ui, Top.view)) ELSE ui
  /\ stack' = Step(Popped)
  /\ UNCHANGED <<views, content, aborted, skipped, failed, destroyed, other, ops>>

(* refreshView() completes. *)
Refreshed ==
  /\ stack # <<>> /\ Top.kind = "refresh" /\ Top.todo = <<>>
  /\ ui' = [ui EXCEPT !.flags[Top.view].dirty = FALSE]
  /\ stack' = Callers
  /\ UNCHANGED <<views, content, aborted, skipped, failed, destroyed, other, ops>>

Traversed ==
  /\ stack # <<>> /\ Top.kind = "traverse" /\ Top.todo = <<>>
  /\ stack' = Callers
  /\ UNCHANGED <<ui, views, content, aborted, skipped, failed, destroyed, other, ops>>

(* detectChangesInViewWhileDirty(): once in the caller's mode, then in Targeted
   mode while it is necessary, up to the limit. *)
WhileFrame == stack # <<>> /\ Top.kind = "while"

WhileDirty ==
  /\ WhileFrame
  /\ Top.runs > 0 => Requires(ui, Top.view) /\ Top.runs <= MaxReruns
  /\ Visit(Top.view, Top.mode, Step([Top EXCEPT !.runs = @ + 1, !.mode = "Targeted"]))
  /\ UNCHANGED <<views, content, failed, destroyed, other, ops>>

WhileDone ==
  /\ WhileFrame /\ Top.runs > 0 /\ ~Requires(ui, Top.view)
  /\ stack' = Callers
  /\ UNCHANGED <<ui, views, content, aborted, skipped, failed, destroyed, other, ops>>

-----------------------------------------------------------------------------
(* ApplicationRef.tick(), and ChangeDetectionSchedulerImpl.tick() around it *)

(* What a subscriber makes of the emission of "stable": it may mark its view.
   n: the operations of user code so far. *)
Heard(u, n) ==
  {u} \cup (IF ~destroyed /\ n < MaxOps
            THEN {MarkDirty(u, Listener), SignalChanges(u, Listener)} ELSE {})

RemoveTask(u, id, n) ==
  LET gone == [u EXCEPT !.tasks = Removed(@, id)]
  IN /\ ui' \in IF u.tasks.has /\ ~gone.tasks.has THEN Heard(gone, n) ELSE {gone}
     /\ ops' = IF ui' = gone THEN n ELSE n + 1

(* Mutant: the task is removed before its identity is forgotten. *)
FinishRemovesFirst(f, u, error, n) ==
  /\ IF ~f.scheduled THEN ui' = u /\ ops' = n
     ELSE LET gone == [u EXCEPT !.tasks = Removed(@, u.task)]
          IN /\ \E h \in IF gone.tasks.has THEN {gone} ELSE Heard(gone, n) :
                  ui' = [h EXCEPT !.task = None]
             /\ ops' = n
  /\ failed' = IF f.scheduled \/ ~error THEN error ELSE failed

(* Mutant: the task is not removed when the tick failed. *)
FinishUnlessFailed(f, u, error, n) ==
  /\ IF f.scheduled /\ ~error THEN RemoveTask([u EXCEPT !.task = None], u.task, n)
                    ELSE ui' = u /\ ops' = n
  /\ failed' = IF f.scheduled \/ ~error THEN error ELSE failed

(* The tick of frame f ends, with an error that was reported or without one. *)
Finish(f, u, error, n) ==
  /\ IF f.scheduled THEN RemoveTask([u EXCEPT !.task = None], u.task, n)
                    ELSE ui' = u /\ ops' = n
  /\ failed' = IF f.scheduled \/ ~error THEN error ELSE failed

TickFrame == stack # <<>> /\ Top.kind = "tick"

(* The next root view: every one in the first pass, then those that need it. *)
TickView ==
  /\ TickFrame /\ Top.pos < Len(views) /\ Top.todo = <<>>
  /\ LET v == views[Top.pos + 1]
         on == [Top EXCEPT !.pos = @ + 1]
         first == Top.runs = 0
         mode == IF first \/ ui.flags[v].dirty THEN "Global" ELSE "Targeted"
     IN IF first \/ Requires(ui, v)
        THEN /\ stack' = Append(Step(on), [Call EXCEPT !.view = v, !.mode = mode])
             /\ ui' = IF first THEN [ui EXCEPT !.flags[v].refresh = TRUE] ELSE ui
        ELSE stack' = Step(on) /\ ui' = ui
  /\ UNCHANGED <<views, content, aborted, skipped, failed, destroyed, other, ops>>

(* The views are done; the afterRender callbacks run. *)
TickRendered ==
  /\ TickFrame /\ Top.pos >= Len(views) /\ Top.todo = <<>>
  /\ stack' = Step([Top EXCEPT !.todo = <<"afterRender">>])
  /\ UNCHANGED <<ui, views, content, aborted, skipped, failed, destroyed, other, ops>>

PassEnds == TickFrame /\ Top.todo # <<>>
Again == \E i \in DOMAIN views : Requires(ui, views[i])

(* Some view needs another pass. *)
TickAgain ==
  /\ PassEnds /\ Again /\ Top.runs + 1 < MaxReruns
  /\ stack' = Step([Top EXCEPT !.runs = @ + 1, !.pos = 0, !.todo = <<>>])
  /\ UNCHANGED <<ui, views, content, aborted, skipped, failed, destroyed, other, ops>>

(* No view does, or the limit is reached, which is an error. *)
TickEnds ==
  /\ PassEnds /\ (Again => Top.runs + 1 >= MaxReruns)
  /\ Finish(Top, ui, Again, ops)
  /\ stack' = Callers
  /\ UNCHANGED <<views, content, aborted, skipped, destroyed, other>>

(* Mutant: the ancestors are not marked. *)
NotUnwound(i) == ui

(* An exception unwinds the calls made since index i: each refreshView() marks
   its ancestors and throws again. *)
Unwound(i) ==
  LET refreshed == {j \in i..Len(stack) : stack[j].kind = "refresh"}
  IN MarkAncestors(ui, {stack[j].view : j \in refreshed})

(* The marks of the refresh at index j reach the view that is traversed at i: no
   view in between was detached, taken out or left behind before, and none is
   visited once more further on. *)
MarksReach(j, i) ==
  /\ stack[j].kind = "refresh" /\ Up(stack[j].view) # None
  /\ \A m \in (i + 1)..(j - 1) :
       LET v == stack[m].view
       IN /\ stack[m].kind = "traverse" /\ ui.flags[v].attached /\ Up(v) # None
          /\ v \notin aborted \cup skipped /\ \A d \in (m + 1)..Len(stack) : stack[d].view # v

(* An exception may leave children of the view at index i behind: its refresh ends
   here, and nothing marks the view itself; or no mark reaches it. *)
Lost(i) ==
  \/ stack[i].kind = "refresh"
  \/ /\ stack[i].kind = "traverse"
     /\ ~\E j \in (i + 1)..Len(stack) : MarksReach(j, i)

(* The exception reaches the event handler, or the callback of afterRender, or
   tick(), which reports it and returns.  n: as above. *)
Throw(n) ==
  LET k == IF TickAt = {} THEN 0 ELSE CHOOSE i \in TickAt : TRUE
      u == Unwound(k + 1)
  IN /\ IF k > 0 /\ stack[k].todo = <<>>
        THEN Finish(stack[k], u, TRUE, n) /\ stack' = SubSeq(stack, 1, k - 1)
        ELSE ui' = u /\ ops' = n /\ failed' = failed /\ stack' = SubSeq(stack, 1, k)
     /\ aborted' = aborted \cup {stack[i].view : i \in {j \in (k + 1)..Len(stack) : Lost(j)}}
     /\ UNCHANGED <<views, content, skipped, destroyed, other>>

(* INFINITE_CHANGE_DETECTION *)
WhileGivesUp ==
  /\ WhileFrame /\ Top.runs > MaxReruns /\ Requires(ui, Top.view)
  /\ Throw(ops)

(* The timeout or the animation frame of a notify(). *)
TimerFires ==
  /\ stack = <<>> /\ ui.timers > 0
  /\ LET fired == [ui EXCEPT !.timers = @ - 1]
         tick == [Call EXCEPT !.kind = "tick", !.scheduled = TRUE]
     IN IF destroyed
        THEN /\ Finish(tick, fired, FALSE, ops)
             /\ stack' = <<>>
        ELSE /\ ui' = fired /\ stack' = <<tick>>
             /\ UNCHANGED <<failed, ops>>
  /\ UNCHANGED <<views, content, aborted, skipped, destroyed, other>>

-----------------------------------------------------------------------------
(* User code: event handlers, templates, hooks and afterRender callbacks *)

InView == Loop /\ Next1 \in Code
Acts == /\ ~destroyed /\ ops < MaxOps /\ ops' = ops + 1
        /\ stack = <<>> \/ InView \/ PassEnds

Marks(v) ==
  /\ Acts
  /\ ui' \in {MarkDirty(ui, v), SignalChanges(ui, v)} \ {ui}
  /\ UNCHANGED <<views, content, stack, aborted, skipped, failed, destroyed, other>>

(* ChangeDetectorRef.detach() and reattach() *)
Detach(v) ==
  /\ Acts /\ ui.flags[v].attached
  /\ ui' = [ui EXCEPT !.flags[v].attached = FALSE]
  /\ UNCHANGED <<views, content, stack, aborted, skipped, failed, destroyed, other>>

Reattach(v) ==
  /\ Acts /\ ~ui.flags[v].attached /\ ui.flags[v].inserted
  /\ ui' = [FlagsOnAttach(ui, v) EXCEPT !.flags[v].attached = TRUE]
  /\ skipped' = skipped \ {v}
  /\ UNCHANGED <<views, content, stack, aborted, failed, destroyed, other>>

(* insertView() of a container, at any index *)
InsertView(e) ==
  /\ Acts /\ ~ui.flags[e].inserted
  /\ ui' = [FlagsOnAttach([ui EXCEPT !.flags[e].inserted = TRUE], e)
              EXCEPT !.flags[e].attached = TRUE]
  /\ \E k \in 1..(Len(content[In[e]]) + 1) :
       content' = [content EXCEPT ![In[e]] = InsertAt(@, k, e)]
  /\ skipped' = skipped \ {e}
  /\ UNCHANGED <<views, stack, aborted, failed, destroyed, other>>

(* What the loops over container c are to visit next and step over when the view
   at index k, which they have visited, is taken out. *)
SteppedOver(c, k) ==
  LET loops == {f \in ToSet(stack) : /\ f.todo # <<>> /\ Head(f.todo) = c
                                    /\ k <= f.pos /\ f.pos < Len(content[c])}
  IN {content[c][f.pos + 1] : f \in loops}

(* detachView() of a container *)
RemoveView(e) ==
  /\ Acts /\ ui.flags[e].inserted
  /\ ui' = [ui EXCEPT !.flags[e].inserted = FALSE, !.flags[e].attached = FALSE]
  /\ LET c == In[e]
     IN \E k \in DOMAIN content[c] :
          /\ content[c][k] = e /\ content' = [content EXCEPT ![c] = RemoveAt(@, k)]
          /\ skipped' = (skipped \ {e}) \cup {x \in SteppedOver(c, k) : Requires(ui, x)}
  /\ UNCHANGED <<views, stack, aborted, failed, destroyed, other>>

(* ViewRef.detectChanges(), also in the middle of a traversal *)
DetectChanges(v) ==
  /\ Acts
  /\ ui' = [ui EXCEPT !.flags[v].refresh = TRUE]
  /\ stack' = Append(stack, [Call EXCEPT !.view = v])
  /\ UNCHANGED <<views, content, aborted, skipped, failed, destroyed, other>>

(* ApplicationRef.attachView() and detachView() *)
AttachView(r) ==
  /\ Acts /\ r \notin ToSet(views)
  /\ views' = Append(views, r)
  /\ ui' = FlagsOnAttach(ui, r)
  /\ UNCHANGED <<content, stack, aborted, skipped, failed, destroyed, other>>

DetachView(r) ==
  /\ Acts
  /\ \E i \in DOMAIN views : views[i] = r /\ views' = RemoveAt(views, i)
  /\ UNCHANGED <<ui, content, stack, aborted, skipped, failed, destroyed, other>>

(* Mutant: no guard against re-entrancy. *)
TickUnguarded ==
  /\ Acts
  /\ stack' = Append(stack, [Call EXCEPT !.kind = "tick"])
  /\ UNCHANGED <<ui, views, content, aborted, skipped, failed, destroyed, other>>

(* ApplicationRef.tick() called by user code; inside a tick it throws. *)
Tick ==
  /\ Acts /\ TickAt = {}
  /\ stack' = Append(stack, [Call EXCEPT !.kind = "tick"])
  /\ UNCHANGED <<ui, views, content, aborted, skipped, failed, destroyed, other>>

(* A template or a hook throws; so does a call of tick() in it. *)
CodeThrows ==
  /\ InView /\ ops < MaxOps
  /\ Throw(ops + 1)

(* Another service adds and removes its task. *)
OtherAdds ==
  /\ Acts /\ other = None
  /\ other' = NewTask(ui.tasks)
  /\ ui' = [ui EXCEPT !.tasks = Added(@, other')]
  /\ UNCHANGED <<views, content, stack, aborted, skipped, failed, destroyed>>

OtherRemoves ==
  /\ stack = <<>> /\ other # None
  /\ RemoveTask(ui, other, ops)
  /\ other' = None
  /\ UNCHANGED <<views, content, stack, aborted, skipped, failed, destroyed>>

(* ngOnDestroy() of ApplicationRef and of PendingTasks *)
Destroy ==
  /\ Acts /\ stack = <<>>
  /\ destroyed' = TRUE /\ views' = <<>> /\ other' = None
  /\ ui' = [ui EXCEPT !.tasks = NoTasks]
  /\ UNCHANGED <<content, stack, aborted, skipped, failed>>

User == \/ \E v \in View : Marks(v) \/ Detach(v) \/ Reattach(v) \/ DetectChanges(v)
        \/ \E e \in Embedded : InsertView(e) \/ RemoveView(e)
        \/ \E r \in Root : AttachView(r) \/ DetachView(r)
        \/ Tick \/ CodeThrows \/ OtherAdds \/ Destroy

System == \/ VisitChild \/ VisitEmbedded \/ ContainerDone \/ CodeReturns \/ Refreshed \/ Traversed
          \/ WhileDirty \/ WhileDone \/ WhileGivesUp
          \/ TickView \/ TickRendered \/ TickAgain \/ TickEnds \/ TimerFires \/ OtherRemoves

Next == System \/ User
Spec == Init /\ [][Next]_vars

(* Calls return and timers fire; user code does what it likes. *)
FairSpec == Spec /\ WF_vars(System)

-----------------------------------------------------------------------------
(* Frame f is going to visit v: as a component, or in a container, of which it
   has the views beyond its index to go if it is in the middle of it. *)
Visits(f, v) ==
  \/ v \in ToSet(f.todo)
  \/ /\ v \in Embedded /\ In[v] \in ToSet(f.todo)
     /\ Head(f.todo) = In[v] => \E k \in DOMAIN content[In[v]] :
                                  k > f.pos /\ content[In[v]][k] = v

(* Some call in progress is going to visit v: that of its parent, or
   detectChanges() that has just begun with it. *)
Awaited(v) ==
  \E i \in DOMAIN stack :
    \/ stack[i].view = Up(v) /\ Visits(stack[i], v)
    \/ stack[i].view = v /\ stack[i].kind = "while" /\ stack[i].runs = 0

(* view_utils.ts:227, "Ensures views above the given `lView` are traversed":
   whatever is marked, detached, moved or thrown in the middle of traversals, a
   view that has to be refreshed or traversed is found again from its parent;
   stopping at the first ancestor that is marked loses nothing.  There are two
   exceptions.  One is a view below one whose own refresh ended in an exception,
   or that no mark reaches which the unwinding leaves (Lost).  The other is what
   the doc leaves out: a view that a loop over its container stepped over, when
   an earlier one was taken out under it, stays marked below a parent that is
   not, until it is visited or attached anew. *)
Reachable ==
  \A v \in View :
    (ui.flags[v].attached /\ Up(v) # None /\ Requires(ui, v))
      => \/ ui.flags[Up(v)].child \/ Awaited(v)
         \/ Up(v) \in aborted \/ v \in skipped

(* v is shown by the application. *)
Shown(v) ==
  /\ \A w \in Path(ui, v) : ui.flags[w].attached \/ w \in Root
  /\ Path(ui, v) \cap Root \cap ToSet(views) # {}

(* When nothing runs and nothing is scheduled, no view on the screen still has
   to be refreshed or traversed, although notifications during a tick are
   dropped: unless the last scheduled tick failed, an exception left a view above
   behind, or a loop over a container stepped over it or a view above.  (A view
   that is only Dirty is not led to: see the hazards.) *)
NothingLeftBehind ==
  (stack = <<>> /\ ui.task = None /\ ~failed /\ ~destroyed) =>
    \A v \in View : (/\ Shown(v) /\ Path(ui, v) \cap (aborted \ {v}) = {}
                    /\ Path(ui, v) \cap skipped = {}) => ~Requires(ui, v)

(* pending_tasks.ts:15, "keeps track of pending tasks happening in the system":
   the scheduler has a task exactly while one timer or tick of it is under way,
   and PendingTasks holds no task that nobody is going to remove. *)
TasksAreReal ==
  ~destroyed =>
    /\ ui.tasks.pending = {ui.task, other} \ {None}
    /\ ui.tasks.has = (ui.tasks.pending # {})
    /\ ui.timers + Cardinality({i \in TickAt : stack[i].scheduled})
         = IF ui.task = None THEN 0 ELSE 1

(* After user code stops, the application becomes stable, whatever failed. *)
BecomesStable == <>[](stack = <<>> /\ ui.timers = 0 /\ ~ui.tasks.has)
=============================================================================
