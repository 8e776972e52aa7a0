------------------------ MODULE ChangeDetectionProof ------------------------
(***************************************************************************)
(* That change detection finds every view that has to be visited, and that *)
(* the scheduler's task is real, for any tree of views, any number of      *)
(* operations of user code, and exceptions anywhere.                       *)
(*                                                                         *)
(* The first invariant, Held, is about flags and calls. A view that needs  *)
(* a visit has its parent marked, or a call in progress still has it on    *)
(* its list or ahead of its index in a container (Going), or its parent    *)
(* was left behind by an exception, or a loop over its container stepped   *)
(* over it (Found); the same for a view that is marked again while it is   *)
(* traversed (Chained): when an exception unwinds the calls, the marks of  *)
(* the refreshes among them then reach every traversal that had something  *)
(* left to visit, up to those that Lost names. Operations on flags are     *)
(* summed up in Grown: no mark is lost, and who comes to need a visit has  *)
(* its parent marked. When a container changes, a view of it that a loop   *)
(* was to visit still is ahead of the index of the loop: what is inserted  *)
(* or removed at another place moves it by one, and past the index only if *)
(* it is the next view and a visited one is removed (RemoveKeeps), which   *)
(* is when it is stepped over.                                             *)
(*                                                                         *)
(* The second, Tasks, is about notifications: the task has one timer or    *)
(* one tick, and without a task no root needs a visit (Quiet), since who   *)
(* marks a root also notifies (Calm).                                      *)
(***************************************************************************)
EXTENDS ChangeDetection, SequenceTheorems, FiniteSetTheorems, WellFoundedInduction, TLAPS

-----------------------------------------------------------------------------
(* The tree of views. *)

(* A set that holds the holder of v, and with a view its holder, holds all views
   above v. *)
LEMMA AncestorsLeast ==
    ASSUME NEW v \in View, NEW S \in SUBSET View,
           \A x \in {v} \cup S : x \notin Root => Parent[x] \in S
    PROVE  Ancestors[v] \subseteq S
<1> DEFINE holder == [x \in View |-> IF x \in Root THEN {} ELSE {Parent[x]}]
<1>1. Tree!Closed(S, {v}, View, holder) BY DEF Tree!Closed
<1>2. Ancestors[v] = Tree!Reachable({v}, View, holder) BY DEF Ancestors
<1> QED BY <1>1, <1>2 DEF Tree!Reachable

LEMMA AncestorsClosed ==
    ASSUME NEW v \in View
    PROVE  /\ Ancestors[v] \in SUBSET View
           /\ \A x \in {v} \cup Ancestors[v] : x \notin Root => Parent[x] \in Ancestors[v]
<1> DEFINE holder == [x \in View |-> IF x \in Root THEN {} ELSE {Parent[x]}]
<1>1. Ancestors[v] = Tree!Reachable({v}, View, holder) BY DEF Ancestors
<1>2. Ancestors[v] \in SUBSET View BY <1>1 DEF Tree!Reachable
<1>3. ASSUME NEW x \in {v} \cup Ancestors[v], x \notin Root PROVE Parent[x] \in Ancestors[v]
  <2>1. x \in View /\ Parent[x] \in View BY <1>2, <1>3, ViewTree
  <2>2. ASSUME NEW S \in SUBSET View, Tree!Closed(S, {v}, View, holder)
        PROVE  Parent[x] \in S
    <3>1. x \in {v} \cup S BY <1>1, <1>3, <2>2 DEF Tree!Reachable
    <3>2. Parent[x] \in holder[x] BY <1>3, <2>1
    <3> HIDE DEF holder
    <3> QED BY <2>1, <2>2, <3>1, <3>2 DEF Tree!Closed
  <2> HIDE DEF holder
  <2> QED BY <1>1, <2>1, <2>2 DEF Tree!Reachable
<1> QED BY <1>2, <1>3

LEMMA AncestorsAbove ==
    ASSUME NEW v \in View, NEW x \in Ancestors[v]
    PROVE  Ancestors[x] \subseteq Ancestors[v]
<1>1. x \in View BY AncestorsClosed
<1> QED BY <1>1, AncestorsClosed, AncestorsLeast

LEMMA AncestorsOf ==
    ASSUME NEW v \in View, v \notin Root
    PROVE  Ancestors[v] = {Parent[v]} \cup Ancestors[Parent[v]]
<1>1. Parent[v] \in View BY ViewTree
<1>2. Parent[v] \in Ancestors[v] BY AncestorsClosed
<1>3. Ancestors[Parent[v]] \subseteq Ancestors[v] BY <1>2, AncestorsAbove
<1> DEFINE S == {Parent[v]} \cup Ancestors[Parent[v]]
<1>4. S \in SUBSET View BY <1>1, AncestorsClosed
<1>5. \A x \in {v} \cup S : x \notin Root => Parent[x] \in S BY <1>1, AncestorsClosed
<1>6. Ancestors[v] \subseteq S BY <1>4, <1>5, AncestorsLeast
<1> QED BY <1>2, <1>3, <1>6

(* Of two views above v, one is above the other. *)
LEMMA AncestorsInLine ==
    ASSUME NEW v \in View, NEW x \in Ancestors[v], NEW y \in Ancestors[v]
    PROVE  x = y \/ x \in Ancestors[y] \/ y \in Ancestors[x]
<1> DEFINE S == {z \in Ancestors[v] : x = z \/ x \in Ancestors[z] \/ z \in Ancestors[x]}
<1>1. S \in SUBSET View /\ x \in View BY AncestorsClosed
<1>2. ASSUME NEW z \in {v} \cup S, z \notin Root PROVE Parent[z] \in S
  <2>1. z \in View /\ Parent[z] \in Ancestors[v] BY <1>1, <1>2, AncestorsClosed
  <2>2. CASE z = v BY <1>2, <2>1, <2>2, AncestorsOf
  <2>3. CASE x = z BY <1>1, <1>2, <2>1, <2>3, AncestorsClosed
  <2>4. CASE x \in Ancestors[z] BY <1>2, <2>1, <2>4, AncestorsOf
  <2>5. CASE z \in Ancestors[x] BY <1>1, <1>2, <2>1, <2>5, AncestorsClosed
  <2> QED BY <1>2, <2>2, <2>3, <2>4, <2>5
<1> HIDE DEF S
<1>3. Ancestors[v] \subseteq S BY <1>1, <1>2, AncestorsLeast
<1> QED BY <1>3 DEF S

-----------------------------------------------------------------------------
(* Marking. *)

(* The state of views and tasks: a record with flags for each view. *)
UiOK(u) ==
    /\ u = [flags |-> u.flags, task |-> u.task, timers |-> u.timers, tasks |-> u.tasks]
    /\ u.flags \in [View -> Flags]

(* The flags of w are those of u, but for Dirty. *)
Like(u, w) ==
    \A v \in View :
        /\ w.flags[v].attached = u.flags[v].attached
        /\ w.flags[v].inserted = u.flags[v].inserted
        /\ w.flags[v].refresh = u.flags[v].refresh
        /\ w.flags[v].child = u.flags[v].child
        /\ w.flags[v].consumer = u.flags[v].consumer

SameTasks(u, w) == w.task = u.task /\ w.timers = u.timers /\ w.tasks = u.tasks

LEMMA ParentInIs ==
    ASSUME NEW u, UiOK(u), NEW v \in View
    PROVE  /\ ParentIn(u, v) # None <=> v \notin Root /\ u.flags[v].inserted
           /\ ParentIn(u, v) # None => ParentIn(u, v) = Parent[v] /\ Parent[v] \in View
BY ViewTree DEF ParentIn

LEMMA ScheduleIs ==
    ASSUME NEW u, UiOK(u)
    PROVE  /\ UiOK(Schedule(u)) /\ Schedule(u).flags = u.flags
           /\ Schedule(u).task = NewTask(u.tasks)
           /\ Schedule(u).timers = u.timers + 1
           /\ Schedule(u).tasks = Added(u.tasks, NewTask(u.tasks))
<1> DEFINE id == NewTask(u.tasks)
           more == Added(u.tasks, id)
           n == u.timers + 1
<1>1. Schedule(u) = [u EXCEPT !.task = id, !.timers = n, !.tasks = more]
  BY DEF Schedule, UiOK
<1> HIDE DEF id, more, n
<1>2. Schedule(u) = [flags |-> u.flags, task |-> id, timers |-> n, tasks |-> more]
  BY <1>1 DEF UiOK
<1> QED BY <1>2 DEF UiOK, id, more, n

LEMMA DirtyPathIs ==
    ASSUME NEW u, UiOK(u), NEW v
    PROVE  UiOK(DirtyPath(u, v)) /\ Like(u, DirtyPath(u, v)) /\ SameTasks(u, DirtyPath(u, v))
<1> DEFINE F == [w \in View |-> IF w \in Path(u, v) THEN [u.flags[w] EXCEPT !.dirty = TRUE]
                                ELSE u.flags[w]]
<1>1. DirtyPath(u, v) = [u EXCEPT !.flags = F] BY DEF DirtyPath
<1>2. \A w \in View : F[w] \in Flags /\ F[w].attached = u.flags[w].attached
        /\ F[w].inserted = u.flags[w].inserted /\ F[w].refresh = u.flags[w].refresh
        /\ F[w].child = u.flags[w].child /\ F[w].consumer = u.flags[w].consumer
  BY DEF UiOK, Flags
<1>3. F \in [View -> Flags] BY <1>2
<1> HIDE DEF F
<1>4. DirtyPath(u, v) = [flags |-> F, task |-> u.task, timers |-> u.timers, tasks |-> u.tasks]
  BY <1>1 DEF UiOK
<1> QED BY <1>2, <1>3, <1>4 DEF UiOK, Like, SameTasks

LEMMA NotifyIs ==
    ASSUME NEW u, UiOK(u)
    PROVE  UiOK(Notify(u)) /\ Like(u, Notify(u))
<1>1. CASE u.task # None BY <1>1 DEF Notify, Like
<1>2. CASE u.task = None /\ ~u.tasks.has /\ HearsUnstable
  <2> DEFINE a == Schedule(u)
             b == DirtyPath(a, Listener)
  <2>1. UiOK(a) /\ Like(u, a) BY ScheduleIs DEF Like
  <2> HIDE DEF a
  <2>2. UiOK(b) /\ Like(a, b) BY <2>1, DirtyPathIs
  <2> HIDE DEF b
  <2>3. UiOK(Schedule(b)) /\ Schedule(b).flags = b.flags BY <2>2, ScheduleIs
  <2>4. Notify(u) = Schedule(b) BY <1>2 DEF Notify, a, b
  <2> QED BY <2>1, <2>2, <2>3, <2>4 DEF Like
<1>3. CASE u.task = None /\ ~(~u.tasks.has /\ HearsUnstable)
  BY <1>3, ScheduleIs DEF Notify, Like
<1> QED BY <1>1, <1>2, <1>3

LEMMA ToMarkSets ==
    ASSUME NEW u, UiOK(u), NEW v \in View
    PROVE  /\ ToMark(u, v) \in SUBSET View
           /\ \A w \in ToMark(u, v) : ~u.flags[w].child
BY AncestorsClosed DEF ToMark

\* The walk up from v marks the view that holds it, or finds it marked.
LEMMA ToMarkFirst ==
    ASSUME NEW u, UiOK(u), NEW v \in View, ParentIn(u, v) # None
    PROVE  u.flags[Parent[v]].child \/ Parent[v] \in ToMark(u, v)
<1> DEFINE p == Parent[v]
<1>1. v \notin Root /\ p \in View BY ParentInIs
<1>2. p \in Ancestors[v] /\ p \notin Ancestors[p] BY <1>1, AncestorsOf, NoCycles
<1>3. ASSUME NEW x \in Ancestors[v], p \in Ancestors[x] PROVE FALSE
  <2>1. x = p \/ x \in Ancestors[p] BY <1>1, AncestorsOf
  <2>2. p \in Ancestors[p] BY <1>1, <1>3, <2>1, AncestorsAbove
  <2> QED BY <1>2, <2>2
<1>4. p \in Path(u, v) BY <1>2, <1>3 DEF Path
<1> QED BY <1>2, <1>3, <1>4 DEF ToMark

\* It goes on from a view that is attached.
LEMMA ToMarkNext ==
    ASSUME NEW u, UiOK(u), NEW v \in View, NEW x \in ToMark(u, v),
           u.flags[x].attached, ParentIn(u, x) # None
    PROVE  u.flags[Parent[x]].child \/ Parent[x] \in ToMark(u, v)
<1> DEFINE q == Parent[x]
<1>1. x \in View /\ x \in Ancestors[v] /\ x \in Path(u, v) /\ ~u.flags[x].child
  BY ToMarkSets DEF ToMark
<1>2. x \notin Root /\ q \in View BY <1>1, ParentInIs
<1>3. q \in Ancestors[x] /\ q \in Ancestors[v] /\ q \notin Ancestors[q]
  BY <1>1, <1>2, AncestorsOf, AncestorsAbove, NoCycles
<1>4. ASSUME NEW y \in Ancestors[v], q \in Ancestors[y] PROVE y = x \/ x \in Ancestors[y]
  <2>1. ~(y \in Ancestors[x])
    <3>1. ASSUME y \in Ancestors[x] PROVE FALSE
      <4>1. y = q \/ y \in Ancestors[q] BY <1>1, <1>2, <3>1, AncestorsOf
      <4>2. q \in Ancestors[q] BY <1>2, <1>4, <4>1, AncestorsAbove
      <4> QED BY <1>3, <4>2
    <3> QED BY <3>1
  <2> QED BY <1>1, <1>4, <2>1, AncestorsInLine
<1>5. q \in Path(u, v)
  <2>1. ASSUME NEW y \in {v} \cup Ancestors[v], q \in Ancestors[y]
        PROVE  ParentIn(u, y) # None
    <3>1. CASE y = v BY <1>1, <3>1 DEF Path
    <3>2. CASE y \in Ancestors[v] BY <1>1, <1>4, <2>1, <3>2 DEF Path
    <3> QED BY <3>1, <3>2
  <2> QED BY <1>3, <2>1 DEF Path
<1>6. ASSUME NEW y \in Ancestors[v], q \in Ancestors[y]
      PROVE  u.flags[y].attached /\ ~u.flags[y].child
  BY <1>1, <1>4, <1>6 DEF ToMark
<1> QED BY <1>3, <1>5, <1>6 DEF ToMark

\* What marking from the views S makes of the flags.
Marked(u, S, w) ==
    /\ UiOK(w)
    /\ \A v \in View :
        /\ w.flags[v].attached = u.flags[v].attached
        /\ w.flags[v].inserted = u.flags[v].inserted
        /\ w.flags[v].refresh = u.flags[v].refresh
        /\ w.flags[v].consumer = u.flags[v].consumer
        /\ u.flags[v].child => w.flags[v].child
    /\ \A v \in S : ParentIn(u, v) # None => w.flags[Parent[v]].child
    /\ \A v \in View :
        w.flags[v].child /\ ~u.flags[v].child /\ u.flags[v].attached /\ ParentIn(u, v) # None
          => w.flags[Parent[v]].child

LEMMA MarkAncestorsIs ==
    ASSUME NEW u, UiOK(u), NEW S \in SUBSET View
    PROVE  Marked(u, S, MarkAncestors(u, S))
<1>1. CASE S = {} BY <1>1 DEF MarkAncestors, Marked
<1>2. CASE S # {}
  <2> DEFINE n == Notify(u)
             M == UNION {ToMark(u, v) : v \in S}
             F == [v \in View |-> IF v \in M THEN [n.flags[v] EXCEPT !.child = TRUE]
                                  ELSE n.flags[v]]
             w == MarkAncestors(u, S)
  <2>1. UiOK(n) /\ Like(u, n) BY NotifyIs
  <2>2. w = [n EXCEPT !.flags = F] BY <1>2 DEF MarkAncestors
  <2>3. \A v \in S : ParentIn(u, v) # None => u.flags[Parent[v]].child \/ Parent[v] \in M
    BY ToMarkFirst
  <2>4. \A v \in M : u.flags[v].attached /\ ParentIn(u, v) # None
                      => u.flags[Parent[v]].child \/ Parent[v] \in M
    <3>1. ASSUME NEW v \in M, u.flags[v].attached, ParentIn(u, v) # None
          PROVE  u.flags[Parent[v]].child \/ Parent[v] \in M
      <4>1. PICK s \in S : v \in ToMark(u, s) OBVIOUS
      <4>2. u.flags[Parent[v]].child \/ Parent[v] \in ToMark(u, s)
        BY <3>1, <4>1, ToMarkNext
      <4> QED BY <4>2
    <3> QED BY <3>1
  <2>5. M \in SUBSET View BY ToMarkSets
  <2> HIDE DEF n, M
  <2>6. \A v \in View : /\ F[v] \in Flags
                        /\ F[v].attached = n.flags[v].attached
                        /\ F[v].inserted = n.flags[v].inserted
                        /\ F[v].refresh = n.flags[v].refresh
                        /\ F[v].consumer = n.flags[v].consumer
                        /\ (F[v].child <=> v \in M \/ n.flags[v].child)
    <3>1. ASSUME NEW v \in View
          PROVE  /\ F[v] \in Flags
                 /\ F[v].attached = n.flags[v].attached
                 /\ F[v].inserted = n.flags[v].inserted
                 /\ F[v].refresh = n.flags[v].refresh
                 /\ F[v].consumer = n.flags[v].consumer
                 /\ (F[v].child <=> v \in M \/ n.flags[v].child)
      <4> DEFINE f == n.flags[v]
      <4>1. f \in Flags BY <2>1 DEF UiOK
      <4>2. CASE v \in M
        <5>1. F[v] = [f EXCEPT !.child = TRUE] BY <4>2
        <5> HIDE DEF F, f
        <5>2. F[v] = [attached |-> f.attached, inserted |-> f.inserted, dirty |-> f.dirty,
                      refresh |-> f.refresh, child |-> TRUE, consumer |-> f.consumer]
          BY <4>1, <5>1 DEF Flags
        <5>3. F[v].child = TRUE BY <5>2
        <5>4. F[v].child <=> (v \in M \/ f.child) BY <4>2, <5>3
        <5>5. F[v] \in Flags BY <4>1, <5>2 DEF Flags
        <5>6. /\ F[v].attached = f.attached /\ F[v].inserted = f.inserted
              /\ F[v].refresh = f.refresh /\ F[v].consumer = f.consumer
          BY <5>2
        <5> QED BY <5>4, <5>5, <5>6 DEF f
      <4>3. CASE v \notin M
        <5>1. F[v] = f BY <4>3
        <5> HIDE DEF F
        <5>2. f.child \in BOOLEAN BY <4>1 DEF Flags
        <5>3. f.child <=> (v \in M \/ f.child) BY <4>3, <5>2
        <5> QED BY <4>1, <5>1, <5>3
      <4> QED BY <4>2, <4>3
    <3> QED BY <3>1
  <2>7. F \in [View -> Flags] BY <2>6
  <2> HIDE DEF F
  <2>8. w = [flags |-> F, task |-> n.task, timers |-> n.timers, tasks |-> n.tasks]
    BY <2>1, <2>2 DEF UiOK
  <2>9. UiOK(w) /\ w.flags = F BY <2>7, <2>8 DEF UiOK
  <2> HIDE DEF w
  <2>10. \A v \in View : u.flags[v].child \in BOOLEAN /\ n.flags[v].child = u.flags[v].child
    BY <2>1 DEF UiOK, Flags, Like
  <2>11. \A v \in View : /\ w.flags[v].attached = u.flags[v].attached
                         /\ w.flags[v].inserted = u.flags[v].inserted
                         /\ w.flags[v].refresh = u.flags[v].refresh
                         /\ w.flags[v].consumer = u.flags[v].consumer
                         /\ (w.flags[v].child <=> v \in M \/ u.flags[v].child)
    BY <2>1, <2>6, <2>9, <2>10 DEF Like
  <2>12. \A v \in View : ParentIn(u, v) # None => Parent[v] \in View BY ParentInIs
  <2> QED BY <2>3, <2>4, <2>9, <2>11, <2>12 DEF Marked, w
<1> QED BY <1>1, <1>2

-----------------------------------------------------------------------------
(* What the operations do to flags and tasks. *)

(* v takes part in traversals from its parent. *)
Hangs(u, v) == u.flags[v].attached /\ ParentIn(u, v) # None

(* From u to w, no view outside X loses its parent's mark, nor comes to need one
   that the parent does not get. *)
Grown(u, w, X) ==
    /\ \A v \in View : u.flags[v].child => w.flags[v].child
    /\ \A v \in View \ X :
        Hangs(w, v) /\ Requires(w, v)
          => w.flags[Parent[v]].child \/ (Hangs(u, v) /\ Requires(u, v))
    /\ \A v \in View \ X :
        Hangs(w, v) /\ w.flags[v].child
          => w.flags[Parent[v]].child \/ (Hangs(u, v) /\ u.flags[v].child)

(* From u to w, the tasks stay, or those of a notification are added; without a
   task no root comes to need a visit. *)
Calm(u, w) ==
    \/ /\ SameTasks(u, w)
       /\ u.task = None => \A r \in Root : Requires(w, r) => Requires(u, r)
    \/ u.task = None /\ SameTasks(Schedule(u), w)

(* From u to w, no view is put into a container. *)
Kept(u, w) == \A v \in View : w.flags[v].inserted => u.flags[v].inserted

Effect(u, w) ==
    UiOK(w) /\ Grown(u, w, {}) /\ Kept(u, w) /\ (~HearsUnstable => Calm(u, w))

LEMMA HangsIs ==
    ASSUME NEW u, UiOK(u), NEW v \in View, Hangs(u, v)
    PROVE  v \notin Root /\ Parent[v] \in View /\ ParentIn(u, v) = Parent[v]
BY ParentInIs DEF Hangs

LEMMA GrownTrans ==
    ASSUME NEW u, UiOK(u), NEW w, UiOK(w), NEW z, UiOK(z), NEW X, NEW Y,
           Grown(u, w, X), Grown(w, z, Y)
    PROVE  Grown(u, z, X \cup Y)
BY HangsIs DEF Grown

LEMMA GrownClose ==
    ASSUME NEW u, NEW w, NEW X, Grown(u, w, X),
           \A v \in X : Hangs(w, v) /\ Requires(w, v) => w.flags[Parent[v]].child
    PROVE  Grown(u, w, {})
BY DEF Grown, Requires

LEMMA GrownLike ==
    ASSUME NEW u, UiOK(u), NEW w, UiOK(w), Like(u, w)
    PROVE  /\ Grown(u, w, {}) /\ Kept(u, w)
           /\ \A v \in View : /\ Hangs(w, v) <=> Hangs(u, v)
                              /\ Requires(w, v) <=> Requires(u, v)
BY ParentInIs DEF Grown, Kept, Like, Hangs, Requires

LEMMA GrownMarked ==
    ASSUME NEW u, UiOK(u), NEW S, NEW w, Marked(u, S, w)
    PROVE  Grown(u, w, {}) /\ Kept(u, w)
<1>1. UiOK(w) /\ \A v \in View : Hangs(w, v) <=> Hangs(u, v)
  BY ParentInIs DEF Marked, Hangs
<1> QED BY <1>1 DEF Marked, Grown, Kept, Hangs, Requires

\* The flags of one view change.
LEMMA FlagSet ==
    ASSUME NEW u, UiOK(u), NEW v \in View, NEW f \in Flags
    PROVE  LET w == [u EXCEPT !.flags[v] = f]
           IN /\ UiOK(w) /\ SameTasks(u, w) /\ w.flags[v] = f
              /\ \A x \in View \ {v} : w.flags[x] = u.flags[x]
<1> DEFINE w == [u EXCEPT !.flags[v] = f]
           F == [u.flags EXCEPT ![v] = f]
<1>1. w = [u EXCEPT !.flags = F] OBVIOUS
<1>2. F \in [View -> Flags] /\ F[v] = f /\ \A x \in View \ {v} : F[x] = u.flags[x]
  BY DEF UiOK
<1> HIDE DEF F
<1>3. w = [flags |-> F, task |-> u.task, timers |-> u.timers, tasks |-> u.tasks]
  BY <1>1 DEF UiOK
<1> QED BY <1>2, <1>3 DEF UiOK, SameTasks

\* A notification was sent.
Loud(u, w) ==
    \/ u.task # None /\ SameTasks(u, w)
    \/ u.task = None /\ SameTasks(Schedule(u), w)

LEMMA LoudIsCalm ==
    ASSUME NEW u, NEW w, Loud(u, w)
    PROVE  Calm(u, w)
BY DEF Loud, Calm

LEMMA LoudAfter ==
    ASSUME NEW u, UiOK(u), NEW w, UiOK(w), NEW z, SameTasks(u, w), Loud(w, z)
    PROVE  Loud(u, z)
BY ScheduleIs DEF Loud, SameTasks

LEMMA NotifyLoud ==
    ASSUME NEW u, UiOK(u), ~HearsUnstable
    PROVE  Loud(u, Notify(u))
BY DEF Notify, Loud, SameTasks

LEMMA MarkAncestorsLoud ==
    ASSUME NEW u, UiOK(u), NEW S \in SUBSET View, S # {}, ~HearsUnstable
    PROVE  Loud(u, MarkAncestors(u, S))
<1> DEFINE n == Notify(u)
           M == UNION {ToMark(u, v) : v \in S}
           F == [v \in View |-> IF v \in M THEN [n.flags[v] EXCEPT !.child = TRUE]
                                ELSE n.flags[v]]
<1>1. UiOK(n) /\ Loud(u, n) BY NotifyIs, NotifyLoud
<1>2. MarkAncestors(u, S) = [n EXCEPT !.flags = F] BY DEF MarkAncestors
<1> HIDE DEF n, M, F
<1>3. MarkAncestors(u, S) = [flags |-> F, task |-> n.task, timers |-> n.timers,
                             tasks |-> n.tasks]
  BY <1>1, <1>2 DEF UiOK
<1> QED BY <1>1, <1>3 DEF Loud, SameTasks

LEMMA MarkAncestorsEffect ==
    ASSUME NEW u, UiOK(u), NEW S \in SUBSET View
    PROVE  Effect(u, MarkAncestors(u, S))
<1> DEFINE w == MarkAncestors(u, S)
<1>1. UiOK(w) /\ Grown(u, w, {}) /\ Kept(u, w) BY MarkAncestorsIs, GrownMarked DEF Marked
<1>2. CASE S = {}
  <2>1. w = u BY <1>2 DEF MarkAncestors
  <2> QED BY <1>1, <2>1 DEF Effect, Calm, SameTasks
<1>3. CASE S # {} BY <1>1, <1>3, MarkAncestorsLoud, LoudIsCalm DEF Effect
<1> QED BY <1>2, <1>3

LEMMA MarkDirtyEffect ==
    ASSUME NEW u, UiOK(u), NEW v \in View
    PROVE  /\ Effect(u, MarkDirty(u, v))
           /\ \A x \in View : Hangs(MarkDirty(u, v), x) <=> Hangs(u, x)
           /\ ~HearsUnstable => Loud(u, MarkDirty(u, v))
<1> DEFINE n == Notify(u)
           w == DirtyPath(n, v)
<1>1. UiOK(n) /\ Like(u, n) BY NotifyIs
<1>2. UiOK(w) /\ Like(n, w) /\ SameTasks(n, w) BY <1>1, DirtyPathIs
<1>3. ~HearsUnstable => Loud(u, n) BY NotifyLoud
<1>4. MarkDirty(u, v) = w BY DEF MarkDirty
<1> HIDE DEF n, w
<1>5. Grown(u, w, {}) /\ Kept(u, w) BY <1>1, <1>2, GrownLike DEF Like
<1>6. ~HearsUnstable => Loud(u, w) BY <1>2, <1>3 DEF Loud, SameTasks
<1>7. Like(u, w) BY <1>1, <1>2 DEF Like
<1>8. \A x \in View : Hangs(w, x) <=> Hangs(u, x) BY <1>2, <1>7, GrownLike
<1> QED BY <1>2, <1>4, <1>5, <1>6, <1>8, LoudIsCalm DEF Effect

\* A view that comes to need a refresh has its ancestors marked.
LEMMA MarkFromEffect ==
    ASSUME NEW u, UiOK(u), NEW v \in View, NEW f \in Flags,
           f.attached = u.flags[v].attached, f.inserted = u.flags[v].inserted,
           f.child = u.flags[v].child
    PROVE  LET w == MarkAncestors([u EXCEPT !.flags[v] = f], {v})
           IN /\ Effect(u, w)
              /\ \A x \in View : Hangs(w, x) <=> Hangs(u, x)
              /\ Hangs(w, v) => w.flags[Parent[v]].child
              /\ ~HearsUnstable => Loud(u, w)
<1> DEFINE a == [u EXCEPT !.flags[v] = f]
           w == MarkAncestors(a, {v})
<1>1. UiOK(a) /\ SameTasks(u, a) /\ a.flags[v] = f
      /\ \A x \in View \ {v} : a.flags[x] = u.flags[x]
  BY FlagSet
<1> HIDE DEF a
<1>2. Marked(a, {v}, w) BY <1>1, MarkAncestorsIs
<1>3. ~HearsUnstable => Loud(u, w) BY <1>1, MarkAncestorsLoud, LoudAfter, <1>2 DEF Marked
<1> HIDE DEF w
<1>4. \A x \in View : Hangs(a, x) <=> Hangs(u, x) BY <1>1, ParentInIs DEF Hangs
<1>5. Grown(u, a, {v}) BY <1>1, <1>4 DEF Grown, Requires
<1>10. UiOK(w) BY <1>2 DEF Marked
<1>6. Grown(a, w, {}) /\ UiOK(w) BY <1>1, <1>2, <1>10, GrownMarked
<1>7. Grown(u, w, {v}) BY <1>1, <1>5, <1>6, GrownTrans
<1>8. Hangs(w, v) => w.flags[Parent[v]].child
  <2>1. ParentIn(w, v) # None <=> ParentIn(a, v) # None BY <1>1, <1>2, <1>6, ParentInIs DEF Marked
  <2> QED BY <1>2, <2>1 DEF Marked, Hangs
<1>9. Grown(u, w, {}) BY <1>7, <1>8, GrownClose
<1>11. \A x \in View : Hangs(w, x) <=> Hangs(u, x)
  BY <1>1, <1>2, <1>4, <1>6, ParentInIs DEF Marked, Hangs
<1>13. Kept(u, w) BY <1>1, <1>2 DEF Marked, Kept
<1>12. Effect(u, w) BY <1>3, <1>6, <1>9, <1>13, LoudIsCalm DEF Effect
<1> QED BY <1>3, <1>8, <1>11, <1>12 DEF a, w

LEMMA SignalEffect ==
    ASSUME NEW u, UiOK(u), NEW v \in View
    PROVE  /\ Effect(u, SignalChanges(u, v))
           /\ \A x \in View : Hangs(SignalChanges(u, v), x) <=> Hangs(u, x)
           /\ ~HearsUnstable => Loud(u, SignalChanges(u, v)) \/ SignalChanges(u, v) = u
<1>1. CASE u.flags[v].consumer = "clean"
  <2> DEFINE f == [u.flags[v] EXCEPT !.consumer = "dirty"]
  <2>1. u.flags[v] \in Flags BY DEF UiOK
  <2>2. /\ f \in Flags /\ f.attached = u.flags[v].attached
        /\ f.inserted = u.flags[v].inserted /\ f.child = u.flags[v].child
    BY <2>1 DEF Flags
  <2>3. SignalChanges(u, v) = MarkAncestors([u EXCEPT !.flags[v] = f], {v})
    BY <1>1 DEF SignalChanges
  <2> HIDE DEF f
  <2> QED BY <2>2, <2>3, MarkFromEffect
<1>2. CASE u.flags[v].consumer # "clean"
  <2>1. SignalChanges(u, v) = u BY <1>2 DEF SignalChanges
  <2> QED BY <2>1, GrownLike DEF Effect, Calm, SameTasks, Like
<1> QED BY <1>1, <1>2

\* Transplanted views are marked; the views above those that are attached, too.
LEMMA RefreshMarksEffect ==
    ASSUME NEW u, UiOK(u), NEW S \in SUBSET (View \ Root)
    PROVE  Effect(u, MarkForRefresh(u, S))
<1> DEFINE new == {v \in S : ~u.flags[v].refresh}
           F == [x \in View |-> IF x \in new THEN [u.flags[x] EXCEPT !.refresh = TRUE]
                                ELSE u.flags[x]]
           a == [u EXCEPT !.flags = F]
           on == {v \in new : u.flags[v].attached}
           w == MarkAncestors(a, on)
<1>1. MarkForRefresh(u, S) = w BY DEF MarkForRefresh
<1>2. new \in SUBSET View /\ new \cap Root = {} /\ on \in SUBSET View /\ on \subseteq new
  OBVIOUS
<1>3. \A x \in View : /\ F[x] \in Flags /\ F[x].attached = u.flags[x].attached
                      /\ F[x].inserted = u.flags[x].inserted
                      /\ F[x].child = u.flags[x].child
                      /\ F[x].consumer = u.flags[x].consumer
                      /\ x \notin new => F[x] = u.flags[x]
  BY <1>2 DEF UiOK, Flags
<1>4. F \in [View -> Flags] BY <1>3
<1>5. \A v \in new : ~(v \in on) => ~u.flags[v].attached OBVIOUS
<1> HIDE DEF F, new, on
<1>6. a = [flags |-> F, task |-> u.task, timers |-> u.timers, tasks |-> u.tasks]
  BY DEF UiOK
<1> HIDE DEF a
<1>7. UiOK(a) /\ SameTasks(u, a) /\ a.flags = F BY <1>4, <1>6 DEF UiOK, SameTasks
<1>8. \A x \in View : Hangs(a, x) <=> Hangs(u, x) BY <1>3, <1>7, ParentInIs DEF Hangs
<1>9. Grown(u, a, new) BY <1>3, <1>7, <1>8 DEF Grown, Requires
<1>10. Marked(a, on, w) BY <1>2, <1>7, MarkAncestorsIs
<1>11. UiOK(w) BY <1>10 DEF Marked
<1>12. Grown(u, w, new)
  <2>1. Grown(a, w, {}) BY <1>7, <1>10, GrownMarked
  <2>2. new \cup {} = new OBVIOUS
  <2> HIDE DEF w
  <2> QED BY <1>7, <1>9, <1>11, <2>1, <2>2, GrownTrans
<1>13. ASSUME NEW v \in new, Hangs(w, v) PROVE w.flags[Parent[v]].child
  <2>1. v \in View /\ w.flags[v].attached = u.flags[v].attached
    BY <1>2, <1>3, <1>7, <1>10 DEF Marked
  <2>2. v \in on BY <1>5, <1>13, <2>1 DEF Hangs
  <2>3. ParentIn(w, v) # None <=> ParentIn(a, v) # None
    BY <1>7, <1>10, <1>11, <2>1, ParentInIs DEF Marked
  <2> QED BY <1>10, <1>13, <2>2, <2>3 DEF Marked, Hangs
<1>14. Grown(u, w, {}) BY <1>12, <1>13, GrownClose
<1>15. ~HearsUnstable => Calm(u, w)
  <2>1. CASE on = {}
    <3>1. w = a BY <2>1 DEF MarkAncestors
    <3>2. \A r \in Root : r \in View /\ r \notin new BY <1>2, ViewTree
    <3>3. \A r \in Root : a.flags[r] = u.flags[r] BY <1>3, <1>7, <3>2
    <3> QED BY <1>7, <3>1, <3>3 DEF Calm, Requires
  <2>2. CASE on # {}
    <3> HIDE DEF w
    <3>1. ~HearsUnstable => Loud(a, w) BY <1>2, <1>7, <2>2, MarkAncestorsLoud DEF w
    <3> QED BY <1>7, <1>11, <3>1, LoudAfter, LoudIsCalm
  <2> QED BY <2>1, <2>2
<1>16. Kept(u, w) BY <1>3, <1>7, <1>10 DEF Marked, Kept
<1> QED BY <1>1, <1>11, <1>14, <1>15, <1>16 DEF Effect

\* A view that is about to be attached.
LEMMA OnAttachIs ==
    ASSUME NEW u, UiOK(u), NEW v \in View
    PROVE  LET w == FlagsOnAttach(u, v)
           IN /\ Effect(u, w)
              /\ w.flags[v].inserted = u.flags[v].inserted
              /\ ParentIn(w, v) # None /\ Requires(w, v) => w.flags[Parent[v]].child
              /\ ~HearsUnstable => Loud(u, w) \/ (w = u /\ ~Requires(u, v))
<1> DEFINE w == FlagsOnAttach(u, v)
<1>1. CASE Requires(u, v)
  <2>1. w = MarkAncestors(u, {v}) BY <1>1 DEF FlagsOnAttach
  <2> HIDE DEF w
  <2>2. Marked(u, {v}, w) /\ Effect(u, w) BY <2>1, MarkAncestorsIs, MarkAncestorsEffect
  <2>3. ~HearsUnstable => Loud(u, w) BY <2>1, MarkAncestorsLoud
  <2>4. UiOK(w) /\ w.flags[v].inserted = u.flags[v].inserted BY <2>2 DEF Marked
  <2>5. ParentIn(w, v) # None <=> ParentIn(u, v) # None BY <2>4, ParentInIs
  <2>6. ParentIn(u, v) # None => w.flags[Parent[v]].child BY <2>2 DEF Marked
  <2> QED BY <2>2, <2>3, <2>4, <2>5, <2>6 DEF w
<1>2. CASE ~Requires(u, v) /\ ~u.flags[v].dirty
  <2>1. w = u BY <1>2 DEF FlagsOnAttach
  <2>2. Effect(u, u) BY GrownLike DEF Effect, Calm, SameTasks, Like
  <2> QED BY <1>2, <2>1, <2>2
<1>3. CASE ~Requires(u, v) /\ u.flags[v].dirty /\ EnsureReachable
  <2> DEFINE f == [u.flags[v] EXCEPT !.refresh = TRUE]
             a == [u EXCEPT !.flags[v] = f]
  <2>1. u.flags[v] \in Flags BY DEF UiOK
  <2>2. /\ f \in Flags /\ f.attached = u.flags[v].attached
        /\ f.inserted = u.flags[v].inserted /\ f.child = u.flags[v].child
    BY <2>1 DEF Flags
  <2>3. w = MarkAncestors(a, {v}) BY <1>3 DEF FlagsOnAttach
  <2> HIDE DEF f, w
  <2>4. UiOK(a) /\ SameTasks(u, a) /\ a.flags[v] = f BY <2>2, FlagSet
  <2>5. Effect(u, w) /\ (~HearsUnstable => Loud(u, w)) BY <2>2, <2>3, MarkFromEffect
  <2> HIDE DEF a
  <2>6. Marked(a, {v}, w) BY <2>3, <2>4, MarkAncestorsIs
  <2>7. UiOK(w) /\ w.flags[v].inserted = u.flags[v].inserted
    BY <2>2, <2>4, <2>6 DEF Marked
  <2>8. ParentIn(w, v) # None <=> ParentIn(a, v) # None BY <2>2, <2>4, <2>7, ParentInIs
  <2>9. ParentIn(a, v) # None => w.flags[Parent[v]].child BY <2>6 DEF Marked
  <2> QED BY <2>5, <2>7, <2>8, <2>9 DEF w
<1>4. CASE ~Requires(u, v) /\ u.flags[v].dirty /\ ~EnsureReachable
  <2>1. w = Notify(u) BY <1>4 DEF FlagsOnAttach
  <2> HIDE DEF w
  <2>2. UiOK(w) /\ Like(u, w) /\ (~HearsUnstable => Loud(u, w))
    BY <2>1, NotifyIs, NotifyLoud
  <2>3. Effect(u, w) BY <2>2, GrownLike, LoudIsCalm DEF Effect
  <2>4. ~Requires(w, v) /\ w.flags[v].inserted = u.flags[v].inserted
    BY <1>4, <2>2, GrownLike DEF Like
  <2> QED BY <2>2, <2>3, <2>4 DEF w
<1> QED BY <1>1, <1>2, <1>3, <1>4

\* w is u, but for the place of v.
Placed(u, w, v) ==
    /\ UiOK(w) /\ SameTasks(u, w)
    /\ \A x \in View : /\ w.flags[x].refresh = u.flags[x].refresh
                       /\ w.flags[x].child = u.flags[x].child
                       /\ w.flags[x].consumer = u.flags[x].consumer
    /\ \A x \in View \ {v} : /\ w.flags[x].attached = u.flags[x].attached
                             /\ w.flags[x].inserted = u.flags[x].inserted

LEMMA PlacedIs ==
    ASSUME NEW u, UiOK(u), NEW v \in View, NEW f \in Flags,
           f.refresh = u.flags[v].refresh, f.child = u.flags[v].child,
           f.consumer = u.flags[v].consumer
    PROVE  Placed(u, [u EXCEPT !.flags[v] = f], v) /\ [u EXCEPT !.flags[v] = f].flags[v] = f
<1> DEFINE w == [u EXCEPT !.flags[v] = f]
<1>1. UiOK(w) /\ SameTasks(u, w) /\ w.flags[v] = f
      /\ \A x \in View \ {v} : w.flags[x] = u.flags[x]
  BY FlagSet
<1> HIDE DEF w
<1>2. \A x \in View : /\ w.flags[x].refresh = u.flags[x].refresh
                      /\ w.flags[x].child = u.flags[x].child
                      /\ w.flags[x].consumer = u.flags[x].consumer
  BY <1>1
<1> QED BY <1>1, <1>2 DEF Placed, w

LEMMA PlacedGrown ==
    ASSUME NEW u, UiOK(u), NEW v \in View, NEW w, Placed(u, w, v)
    PROVE  Grown(u, w, {v})
<1>1. \A x \in View \ {v} : Hangs(w, x) <=> Hangs(u, x)
  BY ParentInIs DEF Placed, Hangs
<1> QED BY <1>1 DEF Grown, Requires, Placed

LEMMA PlacedCalm ==
    ASSUME NEW u, UiOK(u), NEW a, NEW w, NEW z, NEW v \in View,
           Placed(u, a, v) \/ a = u, Calm(a, w), Placed(w, z, v) \/ z = w
    PROVE  Calm(u, z)
<1>1. SameTasks(u, a) /\ SameTasks(w, z) BY DEF Placed, SameTasks
<1>2. UiOK(a) BY DEF Placed
<1>3. \A r \in Root : (Requires(a, r) <=> Requires(u, r)) /\ (Requires(z, r) <=> Requires(w, r))
  BY ViewTree DEF Placed, Requires
<1>4. SameTasks(Schedule(a), w) => SameTasks(Schedule(u), w)
  BY <1>1, <1>2, ScheduleIs DEF SameTasks
<1> QED BY <1>1, <1>3, <1>4 DEF Calm, SameTasks

LEMMA DetachEffect ==
    ASSUME NEW u, UiOK(u), NEW v \in View, NEW w, Placed(u, w, v), Kept(u, w),
           ~w.flags[v].attached
    PROVE  Effect(u, w)
<1>1. Grown(u, w, {v}) BY PlacedGrown
<1>2. Grown(u, w, {}) BY <1>1, GrownClose DEF Hangs
<1>3. Calm(u, u) BY DEF Calm, SameTasks
<1>4. Calm(u, w) BY <1>3, PlacedCalm
<1> QED BY <1>2, <1>4 DEF Effect, Placed

LEMMA AttachEffect ==
    ASSUME NEW u, UiOK(u), NEW v \in View, NEW a, Placed(u, a, v) \/ a = u
    PROVE  LET z == [FlagsOnAttach(a, v) EXCEPT !.flags[v].attached = TRUE]
           IN /\ UiOK(z) /\ Grown(u, z, {}) /\ Kept(a, z)
              /\ ~HearsUnstable => Calm(u, z)
              /\ Hangs(z, v) /\ Requires(z, v) => z.flags[Parent[v]].child
<1> DEFINE w == FlagsOnAttach(a, v)
           f == [w.flags[v] EXCEPT !.attached = TRUE]
           z == [w EXCEPT !.flags[v].attached = TRUE]
<1>1. UiOK(a) BY DEF Placed
<1>2. Effect(a, w) /\ (ParentIn(w, v) # None /\ Requires(w, v) => w.flags[Parent[v]].child)
  BY <1>1, OnAttachIs
<1>3. Grown(u, a, {v})
  <2>1. CASE a = u BY <2>1, GrownLike DEF Like, Grown
  <2>2. CASE Placed(u, a, v) BY <2>2, PlacedGrown
  <2> QED BY <2>1, <2>2
<1>4. UiOK(w) /\ Grown(a, w, {}) /\ Kept(a, w) /\ (~HearsUnstable => Calm(a, w))
  BY <1>2 DEF Effect
<1> HIDE DEF w
<1>5. w.flags[v] \in Flags BY <1>4 DEF UiOK
<1>6. /\ f \in Flags /\ f.attached /\ f.inserted = w.flags[v].inserted
      /\ f.refresh = w.flags[v].refresh /\ f.child = w.flags[v].child
      /\ f.consumer = w.flags[v].consumer
  BY <1>5 DEF Flags
<1>7. z = [w EXCEPT !.flags[v] = f] OBVIOUS
<1> HIDE DEF f, z
<1>9. Placed(w, z, v) /\ z.flags[v] = f BY <1>4, <1>6, <1>7, PlacedIs
<1>10. z.flags[v].inserted = w.flags[v].inserted BY <1>6, <1>9
<1>11. UiOK(z) BY <1>9 DEF Placed
<1>12. Grown(w, z, {v}) BY <1>4, <1>9, PlacedGrown
<1>13. Grown(u, w, {v}) BY <1>1, <1>3, <1>4, GrownTrans
<1>14. Grown(u, z, {v}) BY <1>4, <1>11, <1>12, <1>13, GrownTrans
<1>15. Hangs(z, v) /\ Requires(z, v) => z.flags[Parent[v]].child
  <2>1. Requires(z, v) <=> Requires(w, v) BY <1>9 DEF Placed, Requires
  <2>2. ParentIn(z, v) # None <=> ParentIn(w, v) # None BY <1>4, <1>10, <1>11, ParentInIs
  <2>3. ParentIn(w, v) # None => Parent[v] \in View BY <1>4, ParentInIs
  <2>4. w.flags[Parent[v]].child /\ Parent[v] \in View => z.flags[Parent[v]].child
    BY <1>9 DEF Placed
  <2> QED BY <1>2, <2>1, <2>2, <2>3, <2>4 DEF Hangs
<1>16. Grown(u, z, {}) BY <1>14, <1>15, GrownClose
<1>17. ~HearsUnstable => Calm(u, z) BY <1>4, <1>9, PlacedCalm
<1>18. Kept(a, z) BY <1>4, <1>9, <1>10 DEF Placed, Kept
<1> QED BY <1>11, <1>15, <1>16, <1>17, <1>18 DEF w, z

-----------------------------------------------------------------------------
(* The calls in progress. *)

Viewed(f) == f.kind \in {"refresh", "traverse"}

FrameOK(f) ==
    /\ f \in Frame
    /\ f.kind # "tick" => f.view \in View
    /\ f.kind = "tick" => f.view = None
    /\ f.kind = "while" => f.todo = <<>>
    /\ Viewed(f) =>
         /\ \A x \in View \cap ToSet(f.todo) : x \notin Root /\ Parent[x] = f.view
         /\ \A x \in Embedded : In[x] \in ToSet(f.todo) => Parent[x] = f.view
         /\ f.pos # 0 => f.todo # <<>> /\ Head(f.todo) \in Container

(* g may be called by f. *)
Above(f, g) ==
    /\ f.kind = "while" => f.runs > 0
    /\ Viewed(g) => \/ f.kind = "while" /\ f.view = g.view
                    \/ Viewed(f) /\ g.view \notin Root /\ Parent[g.view] = f.view

StackOK(st) ==
    /\ st \in Seq(Frame)
    /\ \A i \in 1..Len(st) : FrameOK(st[i])
    /\ \A i \in 2..Len(st) : Above(st[i - 1], st[i])
    /\ \A i, j \in 1..Len(st) : st[i].kind = "tick" /\ st[j].kind = "tick" => i = j

Pop(st) == SubSeq(st, 1, Len(st) - 1)

LEMMA CutIs ==
    ASSUME NEW st \in Seq(Frame), NEW k \in 0..Len(st)
    PROVE  /\ SubSeq(st, 1, k) \in Seq(Frame) /\ Len(SubSeq(st, 1, k)) = k
           /\ \A i \in 1..k : SubSeq(st, 1, k)[i] = st[i]
<1>1. \A i \in 1..k : st[i] \in Frame BY ElementOfSeq
<1> QED BY <1>1, SubSeqProperties

LEMMA PushIs ==
    ASSUME NEW st \in Seq(Frame), NEW f \in Frame
    PROVE  /\ Append(st, f) \in Seq(Frame) /\ Len(Append(st, f)) = Len(st) + 1
           /\ Append(st, f)[Len(st) + 1] = f
           /\ \A i \in 1..Len(st) : Append(st, f)[i] = st[i]
BY AppendProperties

LEMMA PopIs ==
    ASSUME NEW st \in Seq(Frame), st # <<>>
    PROVE  /\ Len(st) \in Nat /\ Len(st) > 0 /\ Len(st) - 1 \in Nat
           /\ Pop(st) \in Seq(Frame) /\ Len(Pop(st)) = Len(st) - 1
           /\ \A i \in 1..(Len(st) - 1) : Pop(st)[i] = st[i]
<1> DEFINE k == Len(st) - 1
<1>1. Len(st) \in Nat /\ Len(st) > 0 BY EmptySeq
<1>2. k \in 0..Len(st) /\ k \in Nat BY <1>1
<1>3. Pop(st) = SubSeq(st, 1, k) BY DEF Pop
<1> HIDE DEF k
<1>4. /\ SubSeq(st, 1, k) \in Seq(Frame) /\ Len(SubSeq(st, 1, k)) = k
      /\ \A i \in 1..k : SubSeq(st, 1, k)[i] = st[i]
  BY <1>2, CutIs
<1>5. /\ Pop(st) \in Seq(Frame) /\ Len(Pop(st)) = k /\ \A i \in 1..k : Pop(st)[i] = st[i]
  BY <1>3, <1>4
<1> HIDE DEF Pop
<1> QED BY <1>1, <1>2, <1>5 DEF k

LEMMA StepIs ==
    ASSUME NEW st \in Seq(Frame), st # <<>>, NEW f \in Frame
    PROVE  LET new == Append(Pop(st), f)
           IN /\ new \in Seq(Frame) /\ Len(new) = Len(st) /\ new[Len(st)] = f
              /\ \A i \in 1..(Len(st) - 1) : new[i] = st[i]
<1>1. Pop(st) \in Seq(Frame) /\ Len(Pop(st)) = Len(st) - 1 /\ Len(st) \in Nat
      /\ \A i \in 1..(Len(st) - 1) : Pop(st)[i] = st[i]
  BY PopIs
<1>2. (Len(st) - 1) + 1 = Len(st) BY <1>1
<1> QED BY <1>1, <1>2, PushIs

LEMMA StackCut ==
    ASSUME NEW st, StackOK(st), NEW k \in 0..Len(st)
    PROVE  StackOK(SubSeq(st, 1, k))
<1> DEFINE new == SubSeq(st, 1, k)
<1>1. Len(st) \in Nat /\ new \in Seq(Frame) /\ Len(new) = k /\ \A i \in 1..k : new[i] = st[i]
  BY CutIs DEF StackOK
<1> HIDE DEF new
<1>2. \A i \in 1..k : FrameOK(new[i]) BY <1>1 DEF StackOK
<1>3. ASSUME NEW i \in 2..k PROVE Above(new[i - 1], new[i])
  <2>1. i \in 1..k /\ i - 1 \in 1..k /\ i \in 2..Len(st) BY <1>1
  <2> QED BY <1>1, <2>1 DEF StackOK
<1>4. ASSUME NEW i \in 1..k, NEW j \in 1..k, new[i].kind = "tick", new[j].kind = "tick"
      PROVE  i = j
  <2>1. i \in 1..Len(st) /\ j \in 1..Len(st) /\ new[i] = st[i] /\ new[j] = st[j] BY <1>1
  <2> QED BY <1>4, <2>1 DEF StackOK
<1>5. StackOK(new) BY <1>1, <1>2, <1>3, <1>4 DEF StackOK
<1> QED BY <1>5 DEF new

LEMMA StackPop ==
    ASSUME NEW st, StackOK(st), st # <<>>
    PROVE  StackOK(Pop(st))
<1>1. Len(st) - 1 \in 0..Len(st) BY PopIs DEF StackOK
<1> QED BY <1>1, StackCut DEF Pop

LEMMA StackPush ==
    ASSUME NEW st, StackOK(st), NEW f, FrameOK(f),
           st # <<>> => Above(st[Len(st)], f),
           f.kind = "tick" => \A i \in 1..Len(st) : st[i].kind # "tick"
    PROVE  StackOK(Append(st, f))
<1> DEFINE new == Append(st, f)
           L == Len(st)
<1>1. L \in Nat /\ new \in Seq(Frame) /\ Len(new) = L + 1 /\ new[L + 1] = f
      /\ \A i \in 1..L : new[i] = st[i]
  BY PushIs DEF StackOK, FrameOK
<1>2. st # <<>> <=> L # 0 BY EmptySeq DEF StackOK
<1> HIDE DEF new
<1>3. \A i \in 1..(L + 1) : i = L + 1 \/ i \in 1..L BY <1>1
<1>4. \A i \in 1..(L + 1) : FrameOK(new[i]) BY <1>1, <1>3 DEF StackOK
<1>5. ASSUME NEW i \in 2..(L + 1) PROVE Above(new[i - 1], new[i])
  <2>1. CASE i = L + 1
    <3>1. i - 1 = L /\ L # 0 /\ L \in 1..L BY <1>1, <2>1
    <3> QED BY <1>1, <1>2, <2>1, <3>1
  <2>2. CASE i # L + 1
    <3>1. i \in 2..L /\ i \in 1..L /\ i - 1 \in 1..L BY <1>1, <2>2
    <3> QED BY <1>1, <3>1 DEF StackOK
  <2> QED BY <2>1, <2>2
<1>6. ASSUME NEW i \in 1..(L + 1), NEW j \in 1..(L + 1),
             new[i].kind = "tick", new[j].kind = "tick"
      PROVE  i = j
  BY <1>1, <1>3, <1>6 DEF StackOK
<1> HIDE DEF L
<1> QED BY <1>1, <1>4, <1>5, <1>6 DEF StackOK, new

LEMMA StackStep ==
    ASSUME NEW st, StackOK(st), st # <<>>, NEW f, FrameOK(f),
           f.kind = st[Len(st)].kind, f.view = st[Len(st)].view
    PROVE  StackOK(Append(Pop(st), f))
<1> DEFINE L == Len(st)
           low == Pop(st)
<1>1. /\ L \in Nat /\ L > 0 /\ L - 1 \in Nat /\ low \in Seq(Frame) /\ Len(low) = L - 1
      /\ \A i \in 1..(L - 1) : low[i] = st[i]
  BY PopIs DEF StackOK
<1>2. StackOK(low) BY StackPop
<1> HIDE DEF low
<1>3. low # <<>> => Above(low[Len(low)], f)
  <2>1. ASSUME low # <<>> PROVE Above(low[Len(low)], f)
    <3>1. L - 1 # 0 BY <1>1, <2>1, EmptySeq
    <3>2. L \in 2..L /\ L - 1 \in 1..(L - 1) BY <1>1, <3>1
    <3>3. Above(st[L - 1], st[L]) /\ low[Len(low)] = st[L - 1] BY <1>1, <3>2 DEF StackOK
    <3> QED BY <3>3 DEF Above, Viewed
  <2> QED BY <2>1
<1>4. f.kind = "tick" => \A i \in 1..Len(low) : low[i].kind # "tick"
  <2>1. ASSUME f.kind = "tick", NEW i \in 1..(L - 1), low[i].kind = "tick" PROVE FALSE
    <3>1. i \in 1..L /\ L \in 1..L /\ i # L BY <1>1
    <3> QED BY <1>1, <2>1, <3>1 DEF StackOK
  <2> QED BY <1>1, <2>1
<1> QED BY <1>2, <1>3, <1>4, StackPush DEF low

-----------------------------------------------------------------------------
(* The views that have to be visited are found. *)

(* With the containers as in c, frame f is going to visit v. *)
Going(c, f, v) ==
    \/ v \in ToSet(f.todo)
    \/ /\ v \in Embedded /\ In[v] \in ToSet(f.todo)
       /\ Head(f.todo) = In[v]
            => \E k \in DOMAIN c[In[v]] : k > f.pos /\ c[In[v]][k] = v

LEMMA NotGoing ==
    ASSUME NEW f, f.todo = <<>>
    PROVE  \A c, v : ~Going(c, f, v)
BY DEF Going, ToSet

(* The containers are lists of their views, and hold all that are in one. *)
ContentOK(u, c) ==
    /\ c \in [Container -> Seq(Embedded)]
    /\ \A k \in Container : \A e \in ToSet(c[k]) : In[e] = k
    /\ \A e \in Embedded : u.flags[e].inserted => e \in ToSet(c[In[e]])

LEMMA KeptContent ==
    ASSUME NEW u, NEW w, NEW c, ContentOK(u, c), Kept(u, w)
    PROVE  ContentOK(w, c)
BY ViewTree DEF ContentOK, Kept

AwaitedIn(c, st, v) ==
    \E i \in 1..Len(st) :
        \/ st[i].view = Parent[v] /\ Going(c, st[i], v)
        \/ st[i].view = v /\ st[i].kind = "while" /\ st[i].runs = 0

Found(u, c, st, ab, X) ==
    \A v \in View \ X :
        Hangs(u, v) /\ Requires(u, v)
          => u.flags[Parent[v]].child \/ AwaitedIn(c, st, v) \/ Parent[v] \in ab

(* A view that is traversed below another and that is marked once more: so is the
   other, or a call made since is going to visit the view again. *)
Chained(u, c, st, ab, X) ==
    \A m \in 2..Len(st) :
        LET v == st[m].view
            p == st[m - 1].view
        IN (/\ st[m].kind = "traverse" /\ st[m - 1].kind = "traverse"
            /\ v \notin X /\ Hangs(u, v) /\ u.flags[v].child)
              => \/ u.flags[p].child \/ p \in ab
                 \/ \E d \in (m + 1)..Len(st) : st[d].view = p /\ Going(c, st[d], v)

FoundBut(u, c, st, ab, X) == Found(u, c, st, ab, X) /\ Chained(u, c, st, ab, X)

LEMMA PairIs ==
    ASSUME NEW st, StackOK(st), NEW m \in 2..Len(st)
    PROVE  /\ m \in 1..Len(st) /\ m - 1 \in 1..Len(st) /\ m \in Nat
           /\ FrameOK(st[m]) /\ FrameOK(st[m - 1]) /\ Above(st[m - 1], st[m])
           /\ st[m].kind = "traverse" /\ st[m - 1].kind = "traverse"
                => st[m].view \in View \ Root /\ Parent[st[m].view] = st[m - 1].view
                   /\ st[m - 1].view \in View
<1>1. m \in 1..Len(st) /\ m - 1 \in 1..Len(st) /\ m \in Nat
  BY LenProperties DEF StackOK
<1>2. FrameOK(st[m]) /\ FrameOK(st[m - 1]) /\ Above(st[m - 1], st[m])
  BY <1>1 DEF StackOK
<1>3. st[m].kind = "traverse" /\ st[m - 1].kind = "traverse"
        => st[m].view \in View \ Root /\ Parent[st[m].view] = st[m - 1].view
           /\ st[m - 1].view \in View
  BY <1>2 DEF Above, Viewed, FrameOK
<1> QED BY <1>1, <1>2, <1>3

\* Flags change, calls do not.
LEMMA FoundGrown ==
    ASSUME NEW u, UiOK(u), NEW w, UiOK(w), Grown(u, w, {}),
           NEW c, NEW st, StackOK(st), NEW ab, NEW X, FoundBut(u, c, st, ab, X)
    PROVE  FoundBut(w, c, st, ab, X)
<1>1. \A v \in View : Hangs(u, v) \/ Hangs(w, v) => Parent[v] \in View BY HangsIs
<1>2. Found(w, c, st, ab, X)
  <2>1. ASSUME NEW v \in View \ X, Hangs(w, v), Requires(w, v)
        PROVE  w.flags[Parent[v]].child \/ AwaitedIn(c, st, v) \/ Parent[v] \in ab
    <3>1. CASE w.flags[Parent[v]].child BY <3>1
    <3>2. CASE Hangs(u, v) /\ Requires(u, v)
      <4>1. u.flags[Parent[v]].child \/ AwaitedIn(c, st, v) \/ Parent[v] \in ab
        BY <2>1, <3>2 DEF FoundBut, Found
      <4> QED BY <1>1, <3>2, <4>1 DEF Grown
    <3> QED BY <2>1, <3>1, <3>2 DEF Grown
  <2> QED BY <2>1 DEF Found
<1>3. Chained(w, c, st, ab, X)
  <2>1. ASSUME NEW m \in 2..Len(st), NEW v, NEW p, v = st[m].view, p = st[m - 1].view,
               st[m].kind = "traverse", st[m - 1].kind = "traverse",
               v \notin X, Hangs(w, v), w.flags[v].child
        PROVE  \/ w.flags[p].child \/ p \in ab
               \/ \E d \in (m + 1)..Len(st) : st[d].view = p /\ Going(c, st[d], v)
    <3>1. v \in View /\ Parent[v] = p /\ p \in View BY <2>1, PairIs
    <3>2. CASE w.flags[p].child BY <3>2
    <3>3. CASE Hangs(u, v) /\ u.flags[v].child
      <4>1. \/ u.flags[p].child \/ p \in ab
            \/ \E d \in (m + 1)..Len(st) : st[d].view = p /\ Going(c, st[d], v)
        BY <2>1, <3>3 DEF FoundBut, Chained
      <4> QED BY <3>1, <4>1 DEF Grown
    <3> QED BY <2>1, <3>1, <3>2, <3>3 DEF Grown
  <2> QED BY <2>1 DEF Chained
<1> QED BY <1>2, <1>3 DEF FoundBut

\* Calls return or go on, containers change from c to e, and nobody outside X who
\* hangs in the tree is dropped from the lists.
LEMMA FoundGoesOn ==
    ASSUME NEW u, NEW st, StackOK(st), NEW new, StackOK(new), NEW ab, NEW X, NEW Y,
           NEW c, NEW e,
           Y \subseteq X, FoundBut(u, c, st, ab, Y), Len(new) <= Len(st),
           \A i \in 1..Len(new) : new[i].kind = st[i].kind /\ new[i].view = st[i].view,
           \A i \in 1..Len(st) : \A v \in View \ X :
             Hangs(u, v) /\ st[i].view \in View /\ Going(c, st[i], v)
               => i <= Len(new) /\ Going(e, new[i], v),
           \A i \in 1..Len(st) :
             st[i].kind = "while" /\ st[i].runs = 0 /\ st[i].view \notin X
               => i <= Len(new) /\ new[i].runs = 0
    PROVE  FoundBut(u, e, new, ab, X)
<1> DEFINE K == Len(new)
           L == Len(st)
<1>1. K \in Nat /\ L \in Nat /\ K <= L BY LenProperties DEF StackOK
<1>2. Found(u, e, new, ab, X)
  <2>1. ASSUME NEW v \in View \ X, Hangs(u, v), Requires(u, v)
        PROVE  u.flags[Parent[v]].child \/ AwaitedIn(e, new, v) \/ Parent[v] \in ab
    <3>1. u.flags[Parent[v]].child \/ AwaitedIn(c, st, v) \/ Parent[v] \in ab
      BY <2>1 DEF FoundBut, Found
    <3>2. Parent[v] \in View BY <2>1, ViewTree DEF Hangs, ParentIn
    <3>3. ASSUME AwaitedIn(c, st, v) PROVE AwaitedIn(e, new, v)
      <4>1. PICK i \in 1..L : \/ st[i].view = Parent[v] /\ Going(c, st[i], v)
                              \/ st[i].view = v /\ st[i].kind = "while" /\ st[i].runs = 0
        BY <3>3 DEF AwaitedIn
      <4>2. i <= K BY <2>1, <3>2, <4>1
      <4>3. i \in 1..K BY <1>1, <4>2
      <4>4. \/ new[i].view = Parent[v] /\ Going(e, new[i], v)
            \/ new[i].view = v /\ new[i].kind = "while" /\ new[i].runs = 0
        BY <2>1, <3>2, <4>1, <4>3
      <4> QED BY <4>3, <4>4 DEF AwaitedIn
    <3> QED BY <3>1, <3>3
  <2> QED BY <2>1 DEF Found
<1>3. Chained(u, e, new, ab, X)
  <2>1. ASSUME NEW m \in 2..K, NEW v, NEW p, v = new[m].view, p = new[m - 1].view,
               new[m].kind = "traverse", new[m - 1].kind = "traverse",
               v \notin X, Hangs(u, v), u.flags[v].child
        PROVE  \/ u.flags[p].child \/ p \in ab
               \/ \E d \in (m + 1)..K : new[d].view = p /\ Going(e, new[d], v)
    <3>1. m \in 2..L /\ m \in 1..K /\ m - 1 \in 1..K BY <1>1
    <3>2. /\ v = st[m].view /\ p = st[m - 1].view
          /\ st[m].kind = "traverse" /\ st[m - 1].kind = "traverse" /\ v \notin Y
      BY <2>1, <3>1
    <3>3. \/ u.flags[p].child \/ p \in ab
          \/ \E d \in (m + 1)..L : st[d].view = p /\ Going(c, st[d], v)
      BY <2>1, <3>1, <3>2 DEF FoundBut, Chained
    <3>4. v \in View \ X /\ p \in View BY <2>1, PairIs
    <3>5. ASSUME NEW d \in (m + 1)..L, st[d].view = p, Going(c, st[d], v)
          PROVE  d \in (m + 1)..K /\ new[d].view = p /\ Going(e, new[d], v)
      <4>1. d \in 1..L BY <1>1, <3>1
      <4>2. d <= K /\ Going(e, new[d], v) BY <2>1, <3>4, <3>5, <4>1
      <4>3. d \in 1..K /\ d \in (m + 1)..K BY <1>1, <3>1, <4>1, <4>2
      <4> QED BY <3>5, <4>2, <4>3
    <3> QED BY <3>3, <3>5
  <2> QED BY <2>1 DEF Chained
<1> QED BY <1>2, <1>3 DEF FoundBut

\* The mark of a parent makes up for a view in X that was not found.
LEMMA FoundShrink ==
    ASSUME NEW u, UiOK(u), NEW c, NEW st, StackOK(st), NEW ab, NEW X, NEW Z,
           FoundBut(u, c, st, ab, X),
           \A v \in (X \cap View) \ Z :
             Hangs(u, v) /\ Requires(u, v) => u.flags[Parent[v]].child
    PROVE  FoundBut(u, c, st, ab, Z)
<1>1. Found(u, c, st, ab, Z) BY DEF FoundBut, Found
<1>2. Chained(u, c, st, ab, Z)
  <2>1. ASSUME NEW m \in 2..Len(st), NEW v, NEW p, v = st[m].view, p = st[m - 1].view,
               st[m].kind = "traverse", st[m - 1].kind = "traverse",
               v \notin Z, Hangs(u, v), u.flags[v].child
        PROVE  \/ u.flags[p].child \/ p \in ab
               \/ \E d \in (m + 1)..Len(st) : st[d].view = p /\ Going(c, st[d], v)
    <3>1. v \in View /\ Parent[v] = p BY <2>1, PairIs
    <3>2. CASE v \in X BY <2>1, <3>1, <3>2 DEF Requires
    <3>3. CASE v \notin X BY <2>1, <3>3 DEF FoundBut, Chained
    <3> QED BY <3>2, <3>3
  <2> QED BY <2>1 DEF Chained
<1> QED BY <1>1, <1>2 DEF FoundBut

\* tick() or detectChanges() is called, the latter for a view that it marks.
LEMMA FoundCall ==
    ASSUME NEW u, UiOK(u), NEW w, UiOK(w), NEW c, NEW st, StackOK(st), NEW ab, NEW X,
           FoundBut(u, c, st, ab, X),
           NEW f, FrameOK(f), f.kind \in {"tick", "while"}, NEW v \in View,
           \/ v \in Root \/ w.flags[v].refresh = u.flags[v].refresh
           \/ f.kind = "while" /\ f.view = v /\ f.runs = 0,
           \A x \in View : /\ w.flags[x].attached = u.flags[x].attached
                           /\ w.flags[x].inserted = u.flags[x].inserted
                           /\ w.flags[x].child = u.flags[x].child
                           /\ w.flags[x].consumer = u.flags[x].consumer
                           /\ x # v => w.flags[x].refresh = u.flags[x].refresh
    PROVE  FoundBut(w, c, Append(st, f), ab, X)
<1> DEFINE new == Append(st, f)
           L == Len(st)
<1>1. L \in Nat /\ Len(new) = L + 1 /\ new[L + 1] = f /\ \A i \in 1..L : new[i] = st[i]
  BY PushIs, LenProperties DEF StackOK, FrameOK
<1>2. \A x \in View : Hangs(w, x) <=> Hangs(u, x) BY ParentInIs DEF Hangs
<1> HIDE DEF new
<1>3. Found(w, c, new, ab, X)
  <2>1. ASSUME NEW x \in View \ X, Hangs(w, x), Requires(w, x)
        PROVE  w.flags[Parent[x]].child \/ AwaitedIn(c, new, x) \/ Parent[x] \in ab
    <3>1. x \notin Root /\ Parent[x] \in View /\ Hangs(u, x) BY <1>2, <2>1, HangsIs
    <3>2. CASE f.view = x /\ f.kind = "while" /\ f.runs = 0
      <4>1. f.view = x /\ f.kind = "while" /\ f.runs = 0 BY <3>2
      <4>2. L + 1 \in 1..Len(new) BY <1>1
      <4> QED BY <1>1, <4>1, <4>2 DEF AwaitedIn
    <3>3. CASE w.flags[x].refresh = u.flags[x].refresh
      <4>1. Requires(u, x) BY <2>1, <3>3 DEF Requires
      <4>2. u.flags[Parent[x]].child \/ AwaitedIn(c, st, x) \/ Parent[x] \in ab
        BY <3>1, <4>1 DEF FoundBut, Found
      <4>3. AwaitedIn(c, st, x) => AwaitedIn(c, new, x)
        <5>1. \A i \in 1..L : i \in 1..Len(new) /\ new[i] = st[i] BY <1>1
        <5> QED BY <5>1 DEF AwaitedIn
      <4> QED BY <3>1, <4>2, <4>3
    <3> QED BY <3>1, <3>2, <3>3
  <2> QED BY <2>1 DEF Found
<1>4. Chained(w, c, new, ab, X)
  <2>1. ASSUME NEW m \in 2..Len(new), NEW x, NEW p, x = new[m].view, p = new[m - 1].view,
               new[m].kind = "traverse", new[m - 1].kind = "traverse",
               x \notin X, Hangs(w, x), w.flags[x].child
        PROVE  \/ w.flags[p].child \/ p \in ab
               \/ \E d \in (m + 1)..Len(new) : new[d].view = p /\ Going(c, new[d], x)
    <3>1. m # L + 1 BY <1>1, <2>1
    <3>2. m \in 2..L /\ m \in 1..L /\ m - 1 \in 1..L BY <1>1, <3>1
    <3>3. /\ x = st[m].view /\ p = st[m - 1].view
          /\ st[m].kind = "traverse" /\ st[m - 1].kind = "traverse"
      BY <1>1, <2>1, <3>2
    <3>4. x \in View /\ p \in View BY <3>2, <3>3, PairIs
    <3>5. \/ u.flags[p].child \/ p \in ab
          \/ \E d \in (m + 1)..L : st[d].view = p /\ Going(c, st[d], x)
      BY <1>2, <2>1, <3>2, <3>3, <3>4 DEF FoundBut, Chained
    <3>6. \A d \in (m + 1)..L : d \in (m + 1)..Len(new) /\ d \in 1..L BY <1>1, <3>2
    <3> QED BY <1>1, <3>4, <3>5, <3>6
  <2> QED BY <2>1 DEF Chained
<1> QED BY <1>3, <1>4 DEF FoundBut, new

-----------------------------------------------------------------------------
(* The visit of a view. *)

LEMMA SetToSeqIs ==
    ASSUME NEW S, IsFiniteSet(S)
    PROVE  SetToSeq(S) \in Seq(S) /\ ToSet(SetToSeq(S)) = S
<1> DEFINE n == Cardinality(S)
           f == SetToSeq(S)
<1>1. n \in Nat /\ ExistsBijection(1..n, S) BY FS_CardinalityType
<1>2. PICK g \in [1..n -> S] : IsInjective(g)
  BY <1>1 DEF ExistsBijection, Bijection, Injection
<1>3. f \in [1..n -> S] /\ IsInjective(f) BY <1>2 DEF SetToSeq
<1> HIDE DEF f
<1>4. f \in Seq(S) BY <1>1, <1>3, SeqDef
<1>5. f \in Injection(1..n, S) BY <1>3 DEF Injection
<1>6. IsFiniteSet(1..n) /\ Cardinality(1..n) = n BY <1>1, FS_Interval
<1> HIDE DEF n
<1>7. Cardinality(1..n) = Cardinality(S) BY <1>6 DEF n
<1>8. f \in Surjection(1..n, S) BY <1>5, <1>7, FS_Injection
<1>9. ToSet(f) = S BY <1>3, <1>8 DEF ToSet, Surjection
<1> QED BY <1>4, <1>9 DEF f

LEMMA ToSetConcat ==
    ASSUME NEW S, NEW s \in Seq(S), NEW t \in Seq(S)
    PROVE  s \o t \in Seq(S) /\ ToSet(s \o t) = ToSet(s) \cup ToSet(t)
<1>1. \A q : ToSet(q) = Range(q) BY DEF ToSet, Range
<1> QED BY <1>1, ConcatProperties, RangeConcatenation

\* What is visited below v, and where it is listed.
Below(v) == {x \in View \ Root : Parent[x] = v}
Here(v) == {e \in Embedded : Parent[e] = v}
ListedIn(v) == {In[e] : e \in Here(v)}

LEMMA ListsAre ==
    ASSUME NEW v \in View
    PROVE  /\ ContainersOf(v) \in Seq(View \cup Container \cup Code)
           /\ ComponentsOf(v) \in Seq(View \cup Container \cup Code)
           /\ ToSet(ContainersOf(v)) = ListedIn(v)
           /\ ToSet(ComponentsOf(v)) = {x \in View \ (Root \cup Embedded) : Parent[x] = v}
<1> DEFINE E == ListedIn(v)
           C == {x \in View \ (Root \cup Embedded) : Parent[x] = v}
           f == [e \in Here(v) |-> In[e]]
<1>1. E \subseteq Container /\ C \subseteq View BY DEF ListedIn, Here, Container
<1>2. ContainersOf(v) = SetToSeq(E) /\ ComponentsOf(v) = SetToSeq(C)
  BY DEF ContainersOf, ComponentsOf, ListedIn, Here
<1>3. IsFiniteSet(Here(v)) /\ IsFiniteSet(C)
  <2>1. Here(v) \subseteq View BY ViewTree DEF Here
  <2> QED BY <1>1, <2>1, FS_Subset, ViewTree
<1>4. f \in Surjection(Here(v), E) BY DEF Surjection, ListedIn
<1>5. IsFiniteSet(E) BY <1>3, <1>4, FS_Surjection
<1> HIDE DEF E, C
<1>6. /\ ContainersOf(v) \in Seq(E) /\ ToSet(ContainersOf(v)) = E
      /\ ComponentsOf(v) \in Seq(C) /\ ToSet(ComponentsOf(v)) = C
  BY <1>2, <1>3, <1>5, SetToSeqIs
<1>7. E \subseteq View \cup Container \cup Code /\ C \subseteq View \cup Container \cup Code
  BY <1>1
<1>8. /\ ContainersOf(v) \in Seq(View \cup Container \cup Code)
      /\ ComponentsOf(v) \in Seq(View \cup Container \cup Code)
  BY <1>6, <1>7, SeqMonotonic
<1> QED BY <1>6, <1>8 DEF E, C

LEMMA VisitFrames ==
    ASSUME NEW v \in View, NEW g \in {Refresh(v), Traverse(v)}
    PROVE  /\ FrameOK(g) /\ Viewed(g) /\ g.view = v /\ g.pos = 0
           /\ \A x \in Below(v) : IF x \in Embedded THEN In[x] \in ToSet(g.todo)
                                                   ELSE x \in ToSet(g.todo)
<1> DEFINE A == View \cup Container \cup Code
           B == {x \in View \ (Root \cup Embedded) : Parent[x] = v}
           E == ContainersOf(v)
           C == ComponentsOf(v)
           s == <<"template">>
           t == <<"contentHooks">>
           z == <<"viewHooks">>
<1>1. s \in Seq(A) /\ t \in Seq(A) /\ z \in Seq(A) /\ E \in Seq(A) /\ C \in Seq(A)
      /\ ToSet(E) = ListedIn(v) /\ ToSet(C) = B
  BY ListsAre DEF Code
<1>2. ToSet(s) \subseteq Code /\ ToSet(t) \subseteq Code /\ ToSet(z) \subseteq Code
  BY DEF ToSet, Code
<1>3. PICK todo, kind, mode :
        /\ todo = s \o E \o t \o C \o z \/ todo = E \o C
        /\ kind \in {"refresh", "traverse"} /\ mode \in {"Global", "Targeted"}
        /\ g = [kind |-> kind, view |-> v, mode |-> mode, runs |-> 0, pos |-> 0,
                scheduled |-> FALSE, todo |-> todo]
  BY DEF Refresh, Traverse, Call
<1> HIDE DEF A, B, E, C, s, t, z
<1>4. /\ todo \in Seq(A) /\ ToSet(todo) \subseteq ListedIn(v) \cup B \cup Code
      /\ ListedIn(v) \cup B \subseteq ToSet(todo)
  <2>1. CASE todo = E \o C BY <1>1, <2>1, ToSetConcat
  <2>2. CASE todo = s \o E \o t \o C \o z
    <3> DEFINE a == s \o E
               b == a \o t
               c == b \o C
    <3>1. a \in Seq(A) /\ ToSet(a) = ToSet(s) \cup ToSet(E) BY <1>1, ToSetConcat
    <3> HIDE DEF a
    <3>2. b \in Seq(A) /\ ToSet(b) = ToSet(a) \cup ToSet(t) BY <1>1, <3>1, ToSetConcat
    <3> HIDE DEF b
    <3>3. c \in Seq(A) /\ ToSet(c) = ToSet(b) \cup ToSet(C) BY <1>1, <3>2, ToSetConcat
    <3> HIDE DEF c
    <3>4. todo = c \o z BY <2>2 DEF a, b, c
    <3>5. todo \in Seq(A) /\ ToSet(todo) = ToSet(c) \cup ToSet(z)
      BY <1>1, <3>3, <3>4, ToSetConcat
    <3> QED BY <1>1, <1>2, <3>1, <3>2, <3>3, <3>5
  <2> QED BY <1>3, <2>1, <2>2
<1>5. /\ g.kind = kind /\ g.view = v /\ g.mode = mode /\ g.runs = 0 /\ g.pos = 0
      /\ g.scheduled = FALSE /\ g.todo = todo
  BY <1>3
<1>6. g \in Frame BY <1>3, <1>4 DEF Frame, A
<1>7. \A x \in Below(v) : IF x \in Embedded THEN In[x] \in ToSet(g.todo) ELSE x \in ToSet(g.todo)
  BY <1>4, <1>5 DEF Below, ListedIn, Here, B
<1>8. \A x \in View \cap ToSet(g.todo) : x \notin Root /\ Parent[x] = v
  <2>1. ListedIn(v) \subseteq Container BY DEF ListedIn, Here, Container
  <2> QED BY <1>4, <1>5, <2>1, ViewTree DEF B
<1>9. ASSUME NEW x \in Embedded, In[x] \in ToSet(g.todo) PROVE Parent[x] = v
  <2>1. In[x] \in Container BY DEF Container
  <2>2. In[x] \in ListedIn(v) BY <1>4, <1>5, <1>9, <2>1, ViewTree DEF B
  <2>3. PICK e \in Here(v) : In[x] = In[e] BY <2>2 DEF ListedIn
  <2>4. e \in Embedded /\ Parent[e] = v BY DEF Here
  <2> QED BY <2>3, <2>4, ViewTree
<1> QED BY <1>3, <1>5, <1>6, <1>7, <1>8, <1>9 DEF FrameOK, Viewed

\* A frame at the start of its list is going to visit whoever is in the list.
LEMMA AllGoing ==
    ASSUME NEW u, UiOK(u), NEW c, ContentOK(u, c), NEW f, f.pos = 0,
           NEW x \in View, Hangs(u, x),
           IF x \in Embedded THEN In[x] \in ToSet(f.todo) ELSE x \in ToSet(f.todo)
    PROVE  Going(c, f, x)
<1>1. CASE x \notin Embedded BY <1>1 DEF Going
<1>2. CASE x \in Embedded
  <2>1. x \in ToSet(c[In[x]]) BY <1>2, ParentInIs DEF ContentOK, Hangs
  <2>2. In[x] \in Container BY <1>2 DEF Container
  <2>3. DOMAIN c[In[x]] = 1..Len(c[In[x]]) BY <2>2, LenProperties DEF ContentOK
  <2>4. PICK k \in DOMAIN c[In[x]] : c[In[x]][k] = x BY <2>1 DEF ToSet
  <2>5. k > f.pos BY <2>3, <2>4
  <2> QED BY <1>2, <2>4, <2>5 DEF Going
<1> QED BY <1>1, <1>2

\* detectChangesInView(x), called with the stack st: new is the stack after it.
LEMMA VisitKeeps ==
    ASSUME NEW u, UiOK(u), NEW w, UiOK(w), NEW c, ContentOK(w, c),
           NEW st, StackOK(st), st # <<>>, NEW ab, NEW Y,
           NEW x \in View, FoundBut(u, c, st, ab, Y \cup {x}),
           Above(st[Len(st)], Refresh(x)), Above(st[Len(st)], Traverse(x)),
           w.flags[x].attached = u.flags[x].attached,
           w.flags[x].inserted = u.flags[x].inserted, ~Requires(w, x),
           \A y \in View \ {x} : w.flags[y] = u.flags[y],
           NEW new, NEW ab2,
           \/ ab2 = ab /\ ~u.flags[x].child /\ new = st
           \/ ab2 = ab \ {x} /\ new = Append(st, Refresh(x))
           \/ ab2 = ab /\ new = Append(st, Traverse(x))
    PROVE  StackOK(new) /\ FoundBut(w, c, new, ab2, Y \ {x})
<1> DEFINE L == Len(st)
<1>1. L \in Nat BY LenProperties DEF StackOK
<1>2. \A y \in View : Hangs(w, y) <=> Hangs(u, y) BY ParentInIs DEF Hangs
<1>3. ~w.flags[x].child BY DEF Requires
<1>4. \A y \in View \ {x} : /\ Requires(w, y) <=> Requires(u, y)
                            /\ w.flags[y].child = u.flags[y].child
  BY DEF Requires
<1>5. CASE ab2 = ab /\ ~u.flags[x].child /\ new = st
  <2>1. \A y \in View : u.flags[y].child => w.flags[y].child BY <1>4, <1>5
  <2>2. Found(w, c, st, ab, Y \ {x})
    <3>1. ASSUME NEW v \in View \ (Y \ {x}), Hangs(w, v), Requires(w, v)
          PROVE  w.flags[Parent[v]].child \/ AwaitedIn(c, st, v) \/ Parent[v] \in ab
      <4>1. v # x /\ Hangs(u, v) /\ Requires(u, v) /\ Parent[v] \in View
        BY <1>2, <1>4, <3>1, HangsIs
      <4>2. u.flags[Parent[v]].child \/ AwaitedIn(c, st, v) \/ Parent[v] \in ab
        BY <4>1 DEF FoundBut, Found
      <4> QED BY <2>1, <4>1, <4>2
    <3> QED BY <3>1 DEF Found
  <2>3. Chained(w, c, st, ab, Y \ {x})
    <3>1. ASSUME NEW m \in 2..L, NEW v, NEW p, v = st[m].view, p = st[m - 1].view,
                 st[m].kind = "traverse", st[m - 1].kind = "traverse",
                 v \notin Y \ {x}, Hangs(w, v), w.flags[v].child
          PROVE  \/ w.flags[p].child \/ p \in ab
                 \/ \E d \in (m + 1)..L : st[d].view = p /\ Going(c, st[d], v)
      <4>1. v \in View /\ p \in View BY <3>1, PairIs
      <4>2. v # x /\ Hangs(u, v) /\ u.flags[v].child BY <1>2, <1>3, <1>4, <3>1, <4>1
      <4>3. \/ u.flags[p].child \/ p \in ab
            \/ \E d \in (m + 1)..L : st[d].view = p /\ Going(c, st[d], v)
        BY <3>1, <4>2 DEF FoundBut, Chained
      <4> QED BY <2>1, <4>1, <4>3
    <3> QED BY <3>1 DEF Chained
  <2> QED BY <1>5, <2>2, <2>3 DEF FoundBut
<1>6. ASSUME NEW g \in {Refresh(x), Traverse(x)}, new = Append(st, g),
             ab2 = ab \/ ab2 = ab \ {x}
      PROVE  StackOK(new) /\ FoundBut(w, c, new, ab2, Y \ {x})
  <2>1. FrameOK(g) /\ Viewed(g) /\ g.view = x /\ g.pos = 0
      /\ \A y \in Below(x) : IF y \in Embedded THEN In[y] \in ToSet(g.todo)
                                               ELSE y \in ToSet(g.todo)
    BY <1>6, VisitFrames
  <2>2. StackOK(new)
    <3>1. Above(st[Len(st)], g) /\ g.kind # "tick" BY <1>6, <2>1 DEF Viewed
    <3> QED BY <1>6, <2>1, <3>1, StackPush
  <2>3. Len(new) = L + 1 /\ new[L + 1] = g /\ \A i \in 1..L : new[i] = st[i]
    BY <1>6, <2>1, PushIs DEF StackOK, FrameOK
  <2>4. Found(w, c, new, ab2, Y \ {x})
    <3>1. ASSUME NEW v \in View \ (Y \ {x}), Hangs(w, v), Requires(w, v)
          PROVE  w.flags[Parent[v]].child \/ AwaitedIn(c, new, v) \/ Parent[v] \in ab2
      <4>1. v # x /\ Hangs(u, v) /\ Requires(u, v) /\ Parent[v] \in View /\ v \notin Root
        BY <1>2, <1>4, <3>1, HangsIs
      <4>2. u.flags[Parent[v]].child \/ AwaitedIn(c, st, v) \/ Parent[v] \in ab
        BY <4>1 DEF FoundBut, Found
      <4>3. CASE Parent[v] = x
        <5>1. Going(c, g, v) BY <2>1, <3>1, <4>1, <4>3, AllGoing DEF Below
        <5>2. L + 1 \in 1..Len(new) BY <1>1, <2>3
        <5> QED BY <2>1, <2>3, <4>3, <5>1, <5>2 DEF AwaitedIn
      <4>4. CASE Parent[v] # x
        <5>1. \A i \in 1..L : i \in 1..Len(new) /\ new[i] = st[i] BY <1>1, <2>3
        <5>2. AwaitedIn(c, st, v) => AwaitedIn(c, new, v) BY <5>1 DEF AwaitedIn
        <5> QED BY <1>4, <1>6, <4>1, <4>2, <4>4, <5>2
      <4> QED BY <4>3, <4>4
    <3> QED BY <3>1 DEF Found
  <2>5. Chained(w, c, new, ab2, Y \ {x})
    <3>1. ASSUME NEW m \in 2..Len(new), NEW v, NEW p, v = new[m].view, p = new[m - 1].view,
                 new[m].kind = "traverse", new[m - 1].kind = "traverse",
                 v \notin Y \ {x}, Hangs(w, v), w.flags[v].child
          PROVE  \/ w.flags[p].child \/ p \in ab2
                 \/ \E d \in (m + 1)..Len(new) : new[d].view = p /\ Going(c, new[d], v)
      <4>1. v # x BY <1>3, <3>1
      <4>2. m # L + 1 BY <2>1, <2>3, <3>1, <4>1
      <4>3. m \in 2..L /\ m \in 1..L /\ m - 1 \in 1..L /\ m \in Nat BY <1>1, <2>3, <4>2
      <4>4. /\ v = st[m].view /\ p = st[m - 1].view
            /\ st[m].kind = "traverse" /\ st[m - 1].kind = "traverse"
        BY <2>3, <3>1, <4>3
      <4>5. v \in View \ Root /\ Parent[v] = p /\ p \in View BY <4>3, <4>4, PairIs
      <4>6. \/ u.flags[p].child \/ p \in ab
            \/ \E d \in (m + 1)..L : st[d].view = p /\ Going(c, st[d], v)
        BY <1>2, <1>4, <3>1, <4>1, <4>3, <4>4, <4>5 DEF FoundBut, Chained
      <4>7. CASE p = x
        <5>1. Going(c, g, v) BY <2>1, <3>1, <4>5, <4>7, AllGoing DEF Below
        <5>2. L + 1 \in (m + 1)..Len(new) BY <1>1, <2>3, <4>3
        <5> QED BY <2>1, <2>3, <4>7, <5>1, <5>2
      <4>8. CASE p # x
        <5>1. \A d \in (m + 1)..L : d \in (m + 1)..Len(new) /\ new[d] = st[d]
          BY <1>1, <2>3, <4>3
        <5> QED BY <1>4, <1>6, <4>5, <4>6, <4>8, <5>1
      <4> QED BY <4>7, <4>8
    <3> QED BY <3>1 DEF Chained
  <2> QED BY <2>2, <2>4, <2>5 DEF FoundBut
<1> QED BY <1>5, <1>6

-----------------------------------------------------------------------------
(* Exceptions. *)

LEMMA Greatest ==
    ASSUME NEW n \in Nat, NEW T \in SUBSET (1..n), T # {}
    PROVE  \E x \in T : \A y \in T : y <= x
<1> DEFINE F == FiniteSubsetsOf(Nat)
           R == StrictSubsetOrdering(Nat)
           D == {x..n : x \in T}
<1>1. IsWellFoundedOn(R, F) BY FS_StrictSubsetOrderingWellFounded
<1>2. \A x \in T : IsFiniteSet(x..n) /\ x..n \in SUBSET Nat BY FS_Interval
<1>3. D \subseteq F /\ D # {} BY <1>2 DEF FiniteSubsetsOf
<1> HIDE DEF D, F, R
<1>4. PICK d \in D : \A e \in D : ~(<<e, d>> \in R) BY <1>1, <1>3, WFMin
<1>5. PICK x \in T : d = x..n BY <1>4 DEF D
<1>6. ASSUME NEW y \in T, y > x PROVE FALSE
  <2>1. y..n \in D BY DEF D
  <2>2. y..n \subseteq x..n /\ x \in x..n /\ x \notin y..n BY <1>6
  <2>3. y..n \in SUBSET Nat /\ x..n \in SUBSET Nat BY <1>2
  <2>4. <<y..n, x..n>> \in R BY <2>2, <2>3 DEF R, StrictSubsetOrdering
  <2> QED BY <1>4, <1>5, <2>1, <2>4
<1> QED BY <1>6

\* An exception unwinds the calls above index k: w are the flags after it, and ab
\* are the views that it may have left behind.
Unwinds(k, w, ab) ==
    /\ UiOK(w) /\ Grown(ui, w, {})
    /\ \A v \in View : Hangs(ui, v) => Hangs(w, v)
    /\ \A j \in (k + 1)..Len(stack) :
        stack[j].kind = "refresh" /\ ParentIn(ui, stack[j].view) # None
          => w.flags[Parent[stack[j].view]].child
    /\ ab = aborted \cup {stack[i].view : i \in {j \in (k + 1)..Len(stack) : Lost(j)}}

\* What a call that was unwound still had to visit is found again.
LEMMA UnwoundAreMarked ==
    ASSUME UiOK(ui), StackOK(stack), FoundBut(ui, content, stack, aborted, skipped),
           NEW k \in 0..Len(stack), \A i \in (k + 1)..Len(stack) : stack[i].kind # "tick",
           NEW w, NEW ab, Unwinds(k, w, ab),
           NEW i0 \in (k + 1)..Len(stack), Viewed(stack[i0])
    PROVE  w.flags[stack[i0].view].child \/ stack[i0].view \in ab
<1> DEFINE L == Len(stack)
           V(n) == stack[n].view
           Dropped(n) == ~w.flags[V(n)].child /\ V(n) \notin ab
           T == {n \in 1..L : n > k /\ stack[n].kind = "traverse" /\ Dropped(n)}
<1>1. L \in Nat /\ k \in Nat BY LenProperties DEF StackOK
<1>2. ASSUME NEW n \in (k + 1)..L, Lost(n) PROVE V(n) \in ab BY <1>2 DEF Unwinds
<1>3. \A n \in (k + 1)..L : stack[n].kind = "refresh" => V(n) \in ab BY <1>2 DEF Lost
<1>4. SUFFICES ASSUME Dropped(i0) PROVE FALSE OBVIOUS
<1>5. i0 \in T
  <2>1. i0 \in 1..L /\ i0 > k BY <1>1
  <2> QED BY <1>3, <1>4, <2>1 DEF Viewed
<1>6. PICK i \in T : \A n \in T : n <= i BY <1>1, <1>5, Greatest
<1>7. i \in (k + 1)..L /\ i \in 1..L /\ stack[i].kind = "traverse" /\ Dropped(i)
  BY <1>1, <1>6
<1>8. ~Lost(i) BY <1>2, <1>7
<1>9. PICK j \in (i + 1)..L : MarksReach(j, i) BY <1>7, <1>8 DEF Lost
<1> DEFINE T2 == {n \in 1..L : i <= n /\ n <= j - 1 /\ ~w.flags[V(n)].child}
<1>10. i \in T2 BY <1>1, <1>7, <1>9
<1>11. PICK m \in T2 : \A n \in T2 : n <= m BY <1>1, <1>10, Greatest
<1>12. /\ m \in 1..L /\ i <= m /\ m <= j - 1 /\ ~w.flags[V(m)].child
       /\ j \in 1..L /\ j \in (k + 1)..L /\ j > i /\ i > k /\ m \in Nat /\ i \in Nat /\ j \in Nat
       /\ m + 1 \in 2..L /\ (m + 1) - 1 = m
  BY <1>1, <1>7, <1>9, <1>11
<1> HIDE DEF T2
<1>13. stack[m].kind = "traverse"
  <2>1. m = i \/ m \in (i + 1)..(j - 1) BY <1>12
  <2> QED BY <1>7, <1>9, <2>1 DEF MarksReach
<1> DEFINE v == V(m + 1)
           p == V(m)
<1>14. /\ FrameOK(stack[m + 1]) /\ FrameOK(stack[m]) /\ Above(stack[m], stack[m + 1])
  BY <1>12, PairIs
<1>15. CASE m = j - 1
  <2>1. m + 1 = j BY <1>12, <1>15
  <2>2. stack[j].kind = "refresh" /\ Up(V(j)) # None BY <1>9 DEF MarksReach
  <2>3. Parent[V(j)] = V(m) BY <1>13, <1>14, <2>1, <2>2 DEF Above, Viewed
  <2> QED BY <1>12, <2>2, <2>3 DEF Unwinds, Up
<1>16. CASE m # j - 1
  <2>1. m + 1 \in (i + 1)..(j - 1) /\ m + 1 <= j - 1 BY <1>12, <1>16
  <2>2. /\ stack[m + 1].kind = "traverse" /\ ui.flags[v].attached /\ Up(v) # None
        /\ v \notin skipped
    BY <1>9, <2>1 DEF MarksReach
  <2>3. v \in View /\ p \in View /\ Parent[v] = p
    BY <1>13, <1>14, <2>2 DEF Above, Viewed, FrameOK
  <2>4. w.flags[v].child
    <3>1. m + 1 \notin T2 BY <1>11, <1>12
    <3>2. m + 1 \in 1..L /\ i <= m + 1 BY <1>12
    <3> QED BY <2>1, <3>1, <3>2 DEF T2
  <2>5. Hangs(ui, v) /\ Hangs(w, v) BY <2>2, <2>3 DEF Hangs, Up, Unwinds
  <2>6. ui.flags[v].child BY <1>12, <2>3, <2>4, <2>5 DEF Unwinds, Grown
  <2>7. \/ ui.flags[p].child \/ p \in aborted
        \/ \E d \in (m + 2)..L : V(d) = p /\ Going(content, stack[d], v)
    <3>1. (m + 1) + 1 = m + 2 BY <1>12
    <3> QED BY <1>12, <1>13, <2>2, <2>5, <2>6, <3>1 DEF FoundBut, Chained
  <2>8. ~ui.flags[p].child BY <1>12, <2>3 DEF Unwinds, Grown
  <2>9. p \notin aborted
    <3>1. CASE m = i BY <1>7, <3>1 DEF Unwinds
    <3>2. CASE m # i
      <4>1. m \in (i + 1)..(j - 1) BY <1>12, <3>2
      <4> QED BY <1>9, <4>1 DEF MarksReach
    <3> QED BY <3>1, <3>2
  <2>10. ASSUME NEW d \in (m + 2)..L, V(d) = p, Going(content, stack[d], v) PROVE FALSE
    <3>1. d \in (m + 1)..L /\ d \in 1..L /\ d \in (k + 1)..L /\ d > k /\ d > i BY <1>12
    <3>2. CASE m # i
      <4>1. m \in (i + 1)..(j - 1) BY <1>12, <3>2
      <4> QED BY <1>9, <2>10, <3>1, <4>1 DEF MarksReach
    <3>3. CASE m = i
      <4>1. FrameOK(stack[d]) /\ stack[d].kind # "tick" BY <3>1 DEF StackOK
      <4>2. stack[d].kind # "while" BY <2>10, <4>1, NotGoing DEF FrameOK
      <4>3. stack[d].kind \in {"refresh", "traverse"} BY <4>1, <4>2 DEF FrameOK, Frame
      <4>4. Dropped(d) BY <1>7, <2>10, <3>3
      <4>5. stack[d].kind = "traverse" BY <1>3, <3>1, <4>3, <4>4
      <4>6. d \in T BY <3>1, <4>4, <4>5
      <4> QED BY <1>6, <1>12, <3>1, <4>6
    <3> QED BY <3>2, <3>3
  <2> QED BY <2>7, <2>8, <2>9, <2>10
<1> QED BY <1>15, <1>16

LEMMA UnwindKeeps ==
    ASSUME UiOK(ui), StackOK(stack), FoundBut(ui, content, stack, aborted, skipped),
           \A i \in 1..Len(stack) : stack[i].kind = "while" => stack[i].runs > 0,
           NEW k \in 0..Len(stack), \A i \in (k + 1)..Len(stack) : stack[i].kind # "tick",
           NEW w, NEW ab, Unwinds(k, w, ab),
           NEW n \in 0..k, \A i \in (n + 1)..k : stack[i].kind = "tick"
    PROVE  FoundBut(w, content, SubSeq(stack, 1, n), ab, skipped)
<1> DEFINE L == Len(stack)
           new == SubSeq(stack, 1, n)
<1>1. L \in Nat /\ k \in Nat /\ n \in 0..L /\ n \in Nat BY LenProperties DEF StackOK
<1>2. Len(new) = n /\ \A i \in 1..n : new[i] = stack[i] BY <1>1, CutIs DEF StackOK
<1> HIDE DEF new
<1>3. aborted \subseteq ab BY DEF Unwinds
<1>4. ASSUME NEW i \in 1..L, stack[i].view \in View, NEW v, Going(content, stack[i], v)
      PROVE  i \in 1..n \/ w.flags[stack[i].view].child \/ stack[i].view \in ab
  <2>1. FrameOK(stack[i]) BY DEF StackOK
  <2>2. CASE i \in (k + 1)..L
    <3>1. stack[i].kind # "while" BY <1>4, <2>1, NotGoing DEF FrameOK
    <3>2. stack[i].kind # "tick" BY <2>2
    <3>3. Viewed(stack[i]) BY <2>1, <3>1, <3>2 DEF FrameOK, Frame, Viewed
    <3> QED BY <2>2, <3>3, UnwoundAreMarked
  <2>3. CASE i \in (n + 1)..k
    <3>1. stack[i].view = None BY <2>1, <2>3 DEF FrameOK
    <3> QED BY <1>4, <3>1, ViewTree
  <2> QED BY <1>1, <2>2, <2>3
<1>5. Found(w, content, new, ab, skipped)
  <2>1. ASSUME NEW v \in View \ skipped, Hangs(w, v), Requires(w, v)
        PROVE  w.flags[Parent[v]].child \/ AwaitedIn(content, new, v) \/ Parent[v] \in ab
    <3>1. CASE w.flags[Parent[v]].child BY <3>1
    <3>2. CASE Hangs(ui, v) /\ Requires(ui, v)
      <4>1. Parent[v] \in View BY <3>2, HangsIs
      <4>2. ui.flags[Parent[v]].child \/ AwaitedIn(content, stack, v) \/ Parent[v] \in aborted
        BY <2>1, <3>2 DEF FoundBut, Found
      <4>3. CASE ui.flags[Parent[v]].child BY <4>1, <4>3 DEF Unwinds, Grown
      <4>4. CASE Parent[v] \in aborted BY <1>3, <4>4
      <4>5. CASE AwaitedIn(content, stack, v)
        <5>1. PICK i \in 1..L : stack[i].view = Parent[v] /\ Going(content, stack[i], v)
          BY <4>5 DEF AwaitedIn
        <5>2. i \in 1..n \/ w.flags[Parent[v]].child \/ Parent[v] \in ab
          BY <1>4, <4>1, <5>1
        <5>3. i \in 1..n => AwaitedIn(content, new, v) BY <1>2, <5>1 DEF AwaitedIn
        <5> QED BY <5>2, <5>3
      <4> QED BY <4>2, <4>3, <4>4, <4>5
    <3> QED BY <2>1, <3>1, <3>2 DEF Unwinds, Grown
  <2> QED BY <2>1 DEF Found
<1>6. Chained(w, content, new, ab, skipped)
  <2>1. ASSUME NEW m \in 2..n, NEW v, NEW p, v = new[m].view, p = new[m - 1].view,
               new[m].kind = "traverse", new[m - 1].kind = "traverse",
               v \notin skipped, Hangs(w, v), w.flags[v].child
        PROVE  \/ w.flags[p].child \/ p \in ab
               \/ \E d \in (m + 1)..n : new[d].view = p /\ Going(content, new[d], v)
    <3>1. m \in 2..L /\ m \in 1..n /\ m - 1 \in 1..n /\ m \in Nat BY <1>1
    <3>2. /\ v = stack[m].view /\ p = stack[m - 1].view
          /\ stack[m].kind = "traverse" /\ stack[m - 1].kind = "traverse"
      BY <1>2, <2>1, <3>1
    <3>3. v \in View /\ Parent[v] = p /\ p \in View BY <3>1, <3>2, PairIs
    <3>4. CASE w.flags[p].child BY <3>4
    <3>5. CASE Hangs(ui, v) /\ ui.flags[v].child
      <4>1. \/ ui.flags[p].child \/ p \in aborted
            \/ \E d \in (m + 1)..L : stack[d].view = p /\ Going(content, stack[d], v)
        BY <2>1, <3>1, <3>2, <3>5 DEF FoundBut, Chained
      <4>2. CASE ui.flags[p].child BY <3>3, <4>2 DEF Unwinds, Grown
      <4>3. CASE p \in aborted BY <1>3, <4>3
      <4>4. ASSUME NEW d \in (m + 1)..L, stack[d].view = p, Going(content, stack[d], v)
            PROVE  \/ w.flags[p].child \/ p \in ab
                   \/ d \in (m + 1)..n /\ new[d].view = p /\ Going(content, new[d], v)
        <5>1. d \in 1..L BY <1>1, <3>1
        <5>2. d \in 1..n \/ w.flags[p].child \/ p \in ab BY <1>4, <3>3, <4>4, <5>1
        <5>3. d \in 1..n => d \in (m + 1)..n /\ new[d] = stack[d] BY <1>1, <1>2, <3>1
        <5> QED BY <4>4, <5>2, <5>3
      <4> QED BY <4>1, <4>2, <4>3, <4>4
    <3> QED BY <2>1, <3>3, <3>4, <3>5 DEF Unwinds, Grown
  <2> QED BY <1>2, <2>1 DEF Chained
<1> QED BY <1>5, <1>6 DEF FoundBut, new

-----------------------------------------------------------------------------
(* The steps. *)

Held ==
    /\ UiOK(ui) /\ StackOK(stack) /\ FoundBut(ui, content, stack, aborted, skipped)
    /\ ContentOK(ui, content) /\ views \in Seq(Root)
    /\ aborted \subseteq View /\ skipped \subseteq View

LEMMA TopIs ==
    ASSUME StackOK(stack), stack # <<>>
    PROVE  /\ Len(stack) \in Nat /\ Len(stack) > 0 /\ Len(stack) \in 1..Len(stack)
           /\ FrameOK(Top) /\ Top \in Frame /\ Callers = Pop(stack)
<1>1. Len(stack) \in Nat /\ Len(stack) > 0 BY PopIs DEF StackOK
<1>2. Len(stack) \in 1..Len(stack) BY <1>1
<1> QED BY <1>1, <1>2 DEF StackOK, FrameOK, Top, Callers, Pop

LEMMA GoesOn ==
    ASSUME StackOK(stack), stack # <<>>, NEW f, FrameOK(f), f.kind = Top.kind, f.view = Top.view,
           NEW u, NEW X, skipped \subseteq X, FoundBut(u, content, stack, aborted, skipped),
           \A v \in View \ X :
             Hangs(u, v) /\ Top.view \in View /\ Going(content, Top, v) => Going(content, f, v),
           Top.kind = "while" /\ Top.runs = 0 /\ Top.view \notin X => f.runs = 0
    PROVE  /\ StackOK(Step(f)) /\ FoundBut(u, content, Step(f), aborted, X) /\ Step(f) # <<>>
           /\ Len(Step(f)) = Len(stack) /\ Step(f)[Len(stack)] = f
<1> DEFINE new == Append(Pop(stack), f)
           L == Len(stack)
<1>1. L \in Nat /\ L > 0 /\ L \in 1..L /\ Step(f) = new BY TopIs DEF Step
<1>2. new \in Seq(Frame) /\ Len(new) = L /\ new[L] = f /\ \A i \in 1..(L - 1) : new[i] = stack[i]
  BY StepIs DEF StackOK, FrameOK
<1>3. StackOK(new) BY StackStep DEF Top
<1> HIDE DEF new
<1>4. \A i \in 1..L : i = L \/ i \in 1..(L - 1) BY <1>1
<1>5. \A i \in 1..L : new[i].kind = stack[i].kind /\ new[i].view = stack[i].view
  BY <1>2, <1>4 DEF Top
<1>6. \A i \in 1..L : \A v \in View \ X :
        Hangs(u, v) /\ stack[i].view \in View /\ Going(content, stack[i], v)
          => i <= L /\ Going(content, new[i], v)
  BY <1>1, <1>2, <1>4 DEF Top
<1>7. \A i \in 1..L : stack[i].kind = "while" /\ stack[i].runs = 0 /\ stack[i].view \notin X
                        => i <= L /\ new[i].runs = 0
  BY <1>1, <1>2, <1>4 DEF Top
<1>8. Len(new) <= L BY <1>1, <1>2
<1>9. FoundBut(u, content, new, aborted, X)
  BY <1>2, <1>3, <1>5, <1>6, <1>7, <1>8, FoundGoesOn
<1>10. new # <<>> BY <1>1, <1>2, EmptySeq
<1> QED BY <1>1, <1>2, <1>3, <1>9, <1>10

LEMMA Returns ==
    ASSUME StackOK(stack), stack # <<>>, NEW u, FoundBut(u, content, stack, aborted, skipped),
           Top.view \in View => Top.todo = <<>>,
           ~(Top.kind = "while" /\ Top.runs = 0)
    PROVE  StackOK(Callers) /\ FoundBut(u, content, Callers, aborted, skipped)
<1> DEFINE new == Pop(stack)
           L == Len(stack)
<1>1. L \in Nat /\ L > 0 /\ L \in 1..L /\ Callers = new BY TopIs
<1>2. new \in Seq(Frame) /\ Len(new) = L - 1 /\ \A i \in 1..(L - 1) : new[i] = stack[i]
  BY PopIs DEF StackOK
<1>3. StackOK(new) BY StackPop
<1> HIDE DEF new
<1>4. \A i \in 1..L : i = L \/ (i \in 1..(L - 1) /\ i <= L - 1) BY <1>1
<1>5. \A i \in 1..Len(new) : new[i].kind = stack[i].kind /\ new[i].view = stack[i].view
  BY <1>2
<1>6. \A i \in 1..L : \A v \in View \ skipped :
        Hangs(u, v) /\ stack[i].view \in View /\ Going(content, stack[i], v)
          => i <= Len(new) /\ Going(content, new[i], v)
  BY <1>1, <1>2, <1>4, NotGoing DEF Top
<1>7. \A i \in 1..L : stack[i].kind = "while" /\ stack[i].runs = 0 /\ stack[i].view \notin skipped
                        => i <= Len(new) /\ new[i].runs = 0
  BY <1>1, <1>2, <1>4 DEF Top
<1>8. Len(new) <= L BY <1>1, <1>2
<1>9. FoundBut(u, content, new, aborted, skipped) BY <1>3, <1>5, <1>6, <1>7, <1>8, FoundGoesOn
<1> QED BY <1>1, <1>3, <1>9

\* The next of what is still to be visited or run is taken from the list.
LEMMA NextIsTaken ==
    ASSUME StackOK(stack), Loop, NEW u, UiOK(u), ContentOK(u, content),
           FoundBut(u, content, stack, aborted, skipped),
           NEW X, skipped \subseteq X, Next1 \in View => Next1 \in X,
           Next1 \in Container => Top.pos >= Len(content[Next1])
    PROVE  /\ StackOK(Step(Popped)) /\ FoundBut(u, content, Step(Popped), aborted, X)
           /\ Step(Popped) # <<>> /\ Len(Step(Popped)) = Len(stack)
           /\ Step(Popped)[Len(stack)] = Popped
           /\ Popped.kind = Top.kind /\ Popped.view = Top.view
           /\ Next1 \in View => Next1 \notin Root /\ Parent[Next1] = Top.view
<1> DEFINE A == View \cup Container \cup Code
           t == Top.todo
<1>1. FrameOK(Top) /\ Top \in Frame /\ stack # <<>> /\ Viewed(Top) BY TopIs DEF Loop, Viewed
<1>2. t \in Seq(A) /\ t # <<>> BY <1>1 DEF Frame, Loop
<1>3. Next1 = Head(t) /\ Popped = [Top EXCEPT !.todo = Tail(t), !.pos = 0] BY DEF Next1, Popped
<1> HIDE DEF A, t
<1>4. /\ Len(t) \in Nat /\ Len(t) > 0 /\ DOMAIN t = 1..Len(t)
      /\ Tail(t) \in Seq(A) /\ Len(Tail(t)) = Len(t) - 1 /\ Head(t) = t[1]
      /\ \A i \in 1..Len(Tail(t)) : Tail(t)[i] = t[i + 1]
      /\ DOMAIN Tail(t) = 1..Len(Tail(t))
  BY <1>2, HeadTailProperties, LenProperties, EmptySeq
<1>5. \A v \in ToSet(t) : v = Head(t) \/ v \in ToSet(Tail(t))
  <2>1. ASSUME NEW i \in 1..Len(t) PROVE t[i] = Head(t) \/ t[i] \in ToSet(Tail(t))
    <3>1. CASE i = 1 BY <1>4, <3>1
    <3>2. CASE i # 1
      <4>1. i - 1 \in 1..Len(Tail(t)) /\ (i - 1) + 1 = i BY <1>4, <3>2
      <4>2. Tail(t)[i - 1] = t[i] BY <1>4, <4>1
      <4> QED BY <1>4, <4>1, <4>2 DEF ToSet
    <3> QED BY <3>1, <3>2
  <2> QED BY <1>4, <2>1 DEF ToSet
<1>6. ToSet(Tail(t)) \subseteq ToSet(t) /\ Head(t) \in ToSet(t)
  <2>1. \A i \in 1..Len(Tail(t)) : i + 1 \in 1..Len(t) BY <1>4
  <2>2. 1 \in 1..Len(t) BY <1>4
  <2> QED BY <1>4, <2>1, <2>2 DEF ToSet
<1>7. /\ Popped.kind = Top.kind /\ Popped.view = Top.view /\ Popped.runs = Top.runs
      /\ Popped.todo = Tail(t) /\ Popped.pos = 0 /\ Popped \in Frame /\ Top.pos \in Nat
  BY <1>1, <1>3, <1>4 DEF Frame, A
<1>8. FrameOK(Popped) BY <1>1, <1>6, <1>7 DEF FrameOK, Viewed, t
<1>9. Next1 \in View => Next1 \notin Root /\ Parent[Next1] = Top.view
  BY <1>1, <1>3, <1>6 DEF FrameOK, t
<1>10. ASSUME NEW v \in View \ X, Hangs(u, v), Going(content, Top, v)
       PROVE  Going(content, Popped, v)
  <2>1. CASE v \in ToSet(t) BY <1>3, <1>5, <1>7, <2>1 DEF Going
  <2>2. CASE v \in Embedded /\ In[v] \in ToSet(Tail(t)) BY <1>7, <1>10, <2>2, AllGoing
  <2>3. CASE v \in Embedded /\ In[v] = Head(t) /\ v \notin ToSet(t)
    <3>1. In[v] \in Container BY <2>3 DEF Container
    <3>2. PICK k \in DOMAIN content[In[v]] : k > Top.pos
      BY <1>10, <2>3 DEF Going, t
    <3>3. Top.pos >= Len(content[In[v]]) BY <1>3, <2>3, <3>1
    <3>4. /\ DOMAIN content[In[v]] = 1..Len(content[In[v]]) /\ Len(content[In[v]]) \in Nat
      BY <3>1, LenProperties DEF ContentOK
    <3> QED BY <1>7, <3>2, <3>3, <3>4
  <2>4. v \in ToSet(t) \/ (v \in Embedded /\ In[v] \in ToSet(t)) BY <1>10 DEF Going, t
  <2> QED BY <1>5, <2>1, <2>2, <2>3, <2>4
<1>11. Top.kind # "while" BY <1>1 DEF Viewed
<1>12. /\ StackOK(Step(Popped)) /\ FoundBut(u, content, Step(Popped), aborted, X)
       /\ Step(Popped) # <<>> /\ Len(Step(Popped)) = Len(stack)
       /\ Step(Popped)[Len(stack)] = Popped
  BY <1>1, <1>7, <1>8, <1>10, <1>11, GoesOn
<1> QED BY <1>7, <1>9, <1>12

LEMMA VisitStep ==
    ASSUME UiOK(ui), NEW st, StackOK(st), st # <<>>, NEW x \in View, NEW mode,
           FoundBut(ui, content, st, aborted, skipped \cup {x}), aborted \subseteq View,
           skipped \subseteq View, ContentOK(ui, content), content' = content,
           \/ st[Len(st)].kind = "while" /\ st[Len(st)].runs > 0 /\ st[Len(st)].view = x
           \/ Viewed(st[Len(st)]) /\ x \notin Root /\ Parent[x] = st[Len(st)].view,
           Visit(x, mode, st)
    PROVE  /\ UiOK(ui') /\ StackOK(stack') /\ FoundBut(ui', content', stack', aborted', skipped')
           /\ aborted' \subseteq View /\ skipped' \subseteq View
           /\ ContentOK(ui', content') /\ SameTasks(ui, ui')
           /\ ~Requires(ui', x) /\ \A y \in View \ {x} : ui'.flags[y] = ui.flags[y]
           /\ stack' \in {st, Append(st, Refresh(x)), Append(st, Traverse(x))}
<1> DEFINE f == ui.flags[x]
           g == Clear(f)
<1>1. f \in Flags BY DEF UiOK
<1>2. /\ g \in Flags /\ g.attached = f.attached /\ g.inserted = f.inserted
      /\ ~g.refresh /\ ~g.child /\ g.consumer # "dirty"
  BY <1>1 DEF Flags, Clear
<1> HIDE DEF g
<1>3. ui' = [ui EXCEPT !.flags[x] = g] BY DEF Visit, g
<1>4. PICK refreshes \in BOOLEAN :
        /\ aborted' = IF refreshes THEN aborted \ {x} ELSE aborted
        /\ stack' = IF refreshes THEN Append(st, Refresh(x))
                    ELSE IF f.child THEN Append(st, Traverse(x)) ELSE st
  <2>1. PICK polled \in {p \in BOOLEAN : p => f.consumer = "dirty"} :
          /\ aborted' = IF (f.refresh \/ polled
                              \/ (mode = "Global" /\ (x \in CheckAlways \/ f.dirty)))
                        THEN aborted \ {x} ELSE aborted
          /\ stack' = IF (f.refresh \/ polled
                            \/ (mode = "Global" /\ (x \in CheckAlways \/ f.dirty)))
                      THEN Append(st, Refresh(x))
                      ELSE IF f.child THEN Append(st, Traverse(x)) ELSE st
    BY DEF Visit
  <2>2. (f.refresh \/ polled \/ (mode = "Global" /\ (x \in CheckAlways \/ f.dirty))) \in BOOLEAN
    OBVIOUS
  <2> QED BY <2>1, <2>2
<1>5. /\ UiOK(ui') /\ SameTasks(ui, ui') /\ ui'.flags[x] = g
      /\ \A y \in View \ {x} : ui'.flags[y] = ui.flags[y]
  BY <1>2, <1>3, FlagSet
<1>6. ~Requires(ui', x) BY <1>2, <1>5 DEF Requires
<1>7. Above(st[Len(st)], Refresh(x)) /\ Above(st[Len(st)], Traverse(x))
  <2>1. ASSUME NEW h \in {Refresh(x), Traverse(x)} PROVE Above(st[Len(st)], h)
    <3>1. h.view = x BY <2>1, VisitFrames
    <3> QED BY <3>1 DEF Above, Viewed
  <2> QED BY <2>1
<1>8. /\ ui'.flags[x].attached = ui.flags[x].attached
      /\ ui'.flags[x].inserted = ui.flags[x].inserted
  BY <1>2, <1>5
<1>9. \/ aborted' = aborted /\ ~ui.flags[x].child /\ stack' = st
      \/ aborted' = aborted \ {x} /\ stack' = Append(st, Refresh(x))
      \/ aborted' = aborted /\ stack' = Append(st, Traverse(x))
  BY <1>4
<1>13. ContentOK(ui', content)
  <2>1. Kept(ui, ui') BY <1>5, <1>8 DEF Kept
  <2> QED BY <2>1, KeptContent
<1>14. skipped' = skipped \ {x} BY DEF Visit
<1>10. StackOK(stack') /\ FoundBut(ui', content, stack', aborted', skipped \ {x})
  BY <1>5, <1>6, <1>7, <1>8, <1>9, <1>13, VisitKeeps
<1>11. aborted' \subseteq View BY <1>9
<1>12. stack' \in {st, Append(st, Refresh(x)), Append(st, Traverse(x))} BY <1>9
<1> QED BY <1>5, <1>6, <1>10, <1>11, <1>12, <1>13, <1>14

LEMMA FrameIs ==
    ASSUME NEW g \in Frame
    PROVE  /\ g = [kind |-> g.kind, view |-> g.view, mode |-> g.mode, runs |-> g.runs,
                   pos |-> g.pos, scheduled |-> g.scheduled, todo |-> g.todo]
           /\ g.runs \in Nat /\ g.pos \in Nat /\ g.todo \in Seq(View \cup Container \cup Code)
BY DEF Frame

LEMMA FrameRuns ==
    ASSUME NEW g \in Frame, NEW runs \in Nat
    PROVE  LET f == [g EXCEPT !.runs = runs, !.mode = "Targeted"]
           IN /\ f \in Frame /\ f.kind = g.kind /\ f.view = g.view /\ f.runs = runs
              /\ f.scheduled = g.scheduled /\ f.todo = g.todo
<1> DEFINE f == [g EXCEPT !.runs = runs, !.mode = "Targeted"]
<1>1. f \in Frame BY DEF Frame
<1>2. /\ f.kind = g.kind /\ f.view = g.view /\ f.runs = runs
      /\ f.scheduled = g.scheduled /\ f.todo = g.todo
  BY DEF Frame
<1> QED BY <1>1, <1>2

(* A scheduled tick is in progress. *)
HasSched(st) == \E i \in 1..Len(st) : st[i].kind = "tick" /\ st[i].scheduled

StaysCalm == (~HearsUnstable => Calm(ui, ui')) /\ (HasSched(stack') <=> HasSched(stack))

LEMMA SchedStep ==
    ASSUME StackOK(stack), stack # <<>>, NEW f \in Frame, f.kind = Top.kind,
           f.scheduled = Top.scheduled
    PROVE  HasSched(Step(f)) <=> HasSched(stack)
<1> DEFINE new == Step(f)
           L == Len(stack)
<1>1. L \in Nat /\ L > 0 /\ L \in 1..L /\ new = Append(Pop(stack), f) BY TopIs DEF Step
<1>2. Len(new) = L /\ new[L] = f /\ \A i \in 1..(L - 1) : new[i] = stack[i]
  BY <1>1, StepIs DEF StackOK
<1> HIDE DEF new
<1>3. \A i \in 1..L : i = L \/ i \in 1..(L - 1) BY <1>1
<1>4. \A i \in 1..L : (new[i].kind = "tick" /\ new[i].scheduled)
                        <=> (stack[i].kind = "tick" /\ stack[i].scheduled)
  BY <1>2, <1>3 DEF Top
<1> QED BY <1>2, <1>4 DEF HasSched, new

LEMMA SchedPop ==
    ASSUME StackOK(stack), stack # <<>>, ~(Top.kind = "tick" /\ Top.scheduled)
    PROVE  HasSched(Callers) <=> HasSched(stack)
<1> DEFINE new == Callers
           L == Len(stack)
<1>1. L \in Nat /\ L > 0 /\ L \in 1..L /\ new = Pop(stack) BY TopIs
<1>2. Len(new) = L - 1 /\ \A i \in 1..(L - 1) : new[i] = stack[i]
  BY <1>1, PopIs DEF StackOK
<1> HIDE DEF new
<1>3. \A i \in 1..L : i = L \/ i \in 1..(L - 1) BY <1>1
<1>4. \A i \in 1..(L - 1) : i \in 1..L BY <1>1
<1> QED BY <1>2, <1>3, <1>4 DEF HasSched, Top, new

LEMMA SchedPush ==
    ASSUME NEW st, StackOK(st), NEW f \in Frame, ~(f.kind = "tick" /\ f.scheduled)
    PROVE  HasSched(Append(st, f)) <=> HasSched(st)
<1> DEFINE new == Append(st, f)
           L == Len(st)
<1>1. L \in Nat /\ Len(new) = L + 1 /\ new[L + 1] = f /\ \A i \in 1..L : new[i] = st[i]
  BY PushIs, LenProperties DEF StackOK
<1> HIDE DEF new
<1>2. \A i \in 1..(L + 1) : i = L + 1 \/ i \in 1..L BY <1>1
<1>3. \A i \in 1..L : i \in 1..(L + 1) BY <1>1
<1> QED BY <1>1, <1>2, <1>3 DEF HasSched, new

LEMMA CalmSame ==
    ASSUME NEW u, UiOK(u), NEW w, SameTasks(u, w),
           \A r \in Root : Requires(w, r) => Requires(u, r)
    PROVE  Calm(u, w)
BY DEF Calm

\* Held by what has not changed.
LEMMA EffectKeeps ==
    ASSUME Held, NEW u, Effect(ui, u)
    PROVE  /\ UiOK(u) /\ FoundBut(u, content, stack, aborted, skipped)
           /\ ContentOK(u, content)
BY FoundGrown, KeptContent DEF Held, Effect

LEMMA VisitSched ==
    ASSUME NEW st, StackOK(st), NEW x \in View,
           NEW new \in {st, Append(st, Refresh(x)), Append(st, Traverse(x))}
    PROVE  HasSched(new) <=> HasSched(st)
<1>1. \A g \in {Refresh(x), Traverse(x)} : g \in Frame /\ g.kind # "tick"
  BY VisitFrames DEF FrameOK, Viewed
<1> QED BY <1>1, SchedPush

LEMMA VisitIfAttachedKeeps ==
    ASSUME Held, NEW base, StackOK(base), base # <<>>, NEW x \in View, x \notin Root,
           FoundBut(ui, content, base, aborted, skipped \cup {x}),
           Viewed(base[Len(base)]), Parent[x] = base[Len(base)].view,
           HasSched(base) <=> HasSched(stack),
           VisitIfAttached(x, base), UNCHANGED <<views, content>>
    PROVE  Held' /\ StaysCalm
<1>1. UiOK(ui) /\ aborted \subseteq View /\ skipped \subseteq View /\ ContentOK(ui, content)
  BY DEF Held
<1>2. CASE ~ui.flags[x].attached
  <2>1. stack' = base /\ UNCHANGED <<ui, aborted, skipped>> BY <1>2 DEF VisitIfAttached
  <2>2. ~Hangs(ui, x) BY <1>2 DEF Hangs
  <2>3. FoundBut(ui, content, base, aborted, skipped)
    <3>1. \A v \in ((skipped \cup {x}) \cap View) \ skipped :
            Hangs(ui, v) /\ Requires(ui, v) => ui.flags[Parent[v]].child
      BY <2>2
    <3> QED BY <1>1, <3>1, FoundShrink
  <2>4. Calm(ui, ui') BY <2>1 DEF Calm, SameTasks
  <2> QED BY <2>1, <2>3, <2>4 DEF Held, StaysCalm
<1>3. CASE ui.flags[x].attached
  <2>1. Visit(x, Top.mode, base) BY <1>3 DEF VisitIfAttached
  <2>2. /\ UiOK(ui') /\ StackOK(stack') /\ FoundBut(ui', content', stack', aborted', skipped')
        /\ aborted' \subseteq View /\ skipped' \subseteq View
        /\ ContentOK(ui', content') /\ SameTasks(ui, ui')
        /\ ~Requires(ui', x) /\ \A y \in View \ {x} : ui'.flags[y] = ui.flags[y]
        /\ stack' \in {base, Append(base, Refresh(x)), Append(base, Traverse(x))}
    BY <1>1, <2>1, VisitStep
  <2>3. \A r \in Root : Requires(ui', r) => Requires(ui, r)
    BY <2>2, ViewTree DEF Requires
  <2>4. HasSched(stack') <=> HasSched(stack) BY <2>2, VisitSched
  <2>5. Calm(ui, ui') BY <1>1, <2>2, <2>3, CalmSame
  <2> QED BY <2>2, <2>4, <2>5 DEF Held, StaysCalm
<1> QED BY <1>2, <1>3

LEMMA PoppedSched ==
    ASSUME Held, Loop
    PROVE  HasSched(Step(Popped)) <=> HasSched(stack)
<1>1. StackOK(stack) /\ stack # <<>> /\ Top \in Frame BY TopIs DEF Held, Loop
<1> DEFINE t == Tail(Top.todo)
<1>2. Top.todo \in Seq(View \cup Container \cup Code) /\ Top.todo # <<>>
  BY <1>1, FrameIs DEF Loop
<1>3. t \in Seq(View \cup Container \cup Code) BY <1>2, HeadTailProperties
<1>4. Popped = [Top EXCEPT !.todo = t, !.pos = 0] BY DEF Popped
<1> HIDE DEF t
<1>5. Popped \in Frame /\ Popped.kind = Top.kind /\ Popped.scheduled = Top.scheduled
  BY <1>1, <1>3, <1>4 DEF Frame
<1> QED BY <1>1, <1>5, SchedStep

LEMMA VisitChildKeeps ==
    ASSUME Held, VisitChild
    PROVE  Held' /\ StaysCalm
<1> DEFINE base == Step(Popped)
           x == Next1
<1>1. /\ StackOK(stack) /\ UiOK(ui) /\ ContentOK(ui, content) /\ Loop /\ x \in View
      /\ stack # <<>> /\ Viewed(Top) /\ VisitIfAttached(x, base) /\ UNCHANGED <<views, content>>
      /\ FoundBut(ui, content, stack, aborted, skipped)
  BY DEF Held, VisitChild, Loop, Viewed
<1>2. x \notin Container BY <1>1, ViewTree
<1>3. /\ StackOK(base) /\ FoundBut(ui, content, base, aborted, skipped \cup {x}) /\ base # <<>>
      /\ Len(base) = Len(stack) /\ base[Len(stack)] = Popped
      /\ Popped.kind = Top.kind /\ Popped.view = Top.view
      /\ x \notin Root /\ Parent[x] = Top.view
  BY <1>1, <1>2, NextIsTaken
<1>4. HasSched(base) <=> HasSched(stack) BY <1>1, PoppedSched
<1>5. Viewed(base[Len(base)]) /\ Parent[x] = base[Len(base)].view BY <1>1, <1>3 DEF Viewed
<1> HIDE DEF base, x
<1> QED BY <1>1, <1>3, <1>4, <1>5, VisitIfAttachedKeeps

LEMMA VisitEmbeddedKeeps ==
    ASSUME Held, VisitEmbedded
    PROVE  Held' /\ StaysCalm
<1> DEFINE f == [Top EXCEPT !.pos = @ + 1]
           base == Step(f)
           n == Next1
           x == content[n][Top.pos + 1]
<1>1. /\ StackOK(stack) /\ UiOK(ui) /\ ContentOK(ui, content) /\ Loop /\ n \in Container
      /\ stack # <<>> /\ Viewed(Top) /\ VisitIfAttached(x, base) /\ UNCHANGED <<views, content>>
      /\ FoundBut(ui, content, stack, aborted, skipped) /\ Top.pos < Len(content[n])
      /\ n = Head(Top.todo) /\ Top.todo # <<>>
  BY DEF Held, VisitEmbedded, Loop, Viewed, Next1
<1>2. FrameOK(Top) /\ Top \in Frame /\ Top.pos \in Nat /\ Top.pos + 1 \in Nat
      /\ Top.todo \in Seq(View \cup Container \cup Code)
  <2>1. FrameOK(Top) /\ Top \in Frame BY <1>1, TopIs
  <2>2. Top.pos \in Nat /\ Top.todo \in Seq(View \cup Container \cup Code) BY <2>1, FrameIs
  <2> QED BY <2>1, <2>2
<1>3. n \in ToSet(Top.todo)
  <2>1. Len(Top.todo) \in Nat /\ Len(Top.todo) > 0 /\ DOMAIN Top.todo = 1..Len(Top.todo)
    BY <1>1, <1>2, LenProperties, EmptySeq
  <2>2. 1 \in DOMAIN Top.todo /\ n = Top.todo[1] BY <1>1, <2>1
  <2> QED BY <2>2 DEF ToSet
<1> DEFINE s == content[n]
<1>4. s \in Seq(Embedded) /\ DOMAIN s = 1..Len(s) /\ Len(s) \in Nat
      /\ \A e \in ToSet(s) : In[e] = n
  BY <1>1, LenProperties DEF ContentOK
<1>5. Top.pos + 1 \in DOMAIN s BY <1>1, <1>2, <1>4
<1>6. x \in Embedded /\ In[x] = n
  <2>1. x \in ToSet(s) BY <1>5 DEF ToSet
  <2>2. x \in Embedded BY <1>4, <1>5, ElementOfSeq
  <2> QED BY <1>4, <2>1, <2>2
<1>7. x \in View /\ x \notin Root /\ Parent[x] = Top.view
  <2>1. Parent[x] = Top.view BY <1>1, <1>2, <1>3, <1>6 DEF FrameOK
  <2> QED BY <1>6, <2>1, ViewTree
<1>8. /\ f \in Frame /\ f.kind = Top.kind /\ f.view = Top.view /\ f.pos = Top.pos + 1
      /\ f.todo = Top.todo /\ f.scheduled = Top.scheduled
  <2> DEFINE q == Top.pos + 1
  <2>1. f = [Top EXCEPT !.pos = q] /\ q \in Nat BY <1>2
  <2> HIDE DEF q, f
  <2>2. /\ f \in Frame /\ f.kind = Top.kind /\ f.view = Top.view /\ f.pos = q
        /\ f.todo = Top.todo /\ f.scheduled = Top.scheduled
    BY <1>2, <2>1 DEF Frame
  <2> QED BY <2>2 DEF q
<1> HIDE DEF f, n, s
<1>9. FrameOK(f) BY <1>1, <1>2, <1>8 DEF FrameOK, Viewed
<1>10. ASSUME NEW v \in View \ (skipped \cup {x}), Going(content, Top, v)
       PROVE  Going(content, f, v)
  <2>1. CASE v \in ToSet(Top.todo) \/ In[v] # n BY <1>1, <1>8, <1>10, <2>1 DEF Going
  <2>2. CASE In[v] = n /\ v \notin ToSet(Top.todo)
    <3>1. PICK k \in DOMAIN s : k > Top.pos /\ s[k] = v
      BY <1>1, <1>10, <2>2 DEF Going, s
    <3>2. k # Top.pos + 1 /\ s[k] # x BY <1>10, <3>1 DEF s
    <3>3. k > f.pos BY <1>2, <1>4, <1>8, <3>1, <3>2
    <3> QED BY <1>8, <1>10, <2>2, <3>1, <3>3 DEF Going, s
  <2> QED BY <2>1, <2>2
<1>11. Top.kind # "while" BY <1>1 DEF Viewed
<1> HIDE DEF x
<1>12. /\ StackOK(base) /\ FoundBut(ui, content, base, aborted, skipped \cup {x}) /\ base # <<>>
       /\ Len(base) = Len(stack) /\ base[Len(stack)] = f
  BY <1>1, <1>8, <1>9, <1>10, <1>11, GoesOn
<1>13. HasSched(base) <=> HasSched(stack) BY <1>1, <1>8, SchedStep
<1>14. Viewed(base[Len(base)]) /\ Parent[x] = base[Len(base)].view
  BY <1>1, <1>7, <1>8, <1>12 DEF Viewed
<1> HIDE DEF base
<1> QED BY <1>1, <1>7, <1>12, <1>13, <1>14, VisitIfAttachedKeeps

LEMMA ContainerDoneKeeps ==
    ASSUME Held, ContainerDone
    PROVE  Held' /\ StaysCalm
<1> DEFINE base == Step(Popped)
<1>1. /\ StackOK(stack) /\ UiOK(ui) /\ ContentOK(ui, content) /\ Loop /\ Next1 \in Container
      /\ FoundBut(ui, content, stack, aborted, skipped) /\ Top.pos >= Len(content[Next1])
      /\ stack' = base /\ UNCHANGED <<ui, views, content, aborted, skipped>>
  BY DEF Held, ContainerDone
<1>2. Next1 \notin View BY <1>1, ViewTree
<1>3. StackOK(base) /\ FoundBut(ui, content, base, aborted, skipped)
  BY <1>1, <1>2, NextIsTaken
<1>4. HasSched(base) <=> HasSched(stack) BY <1>1, PoppedSched
<1>5. Calm(ui, ui') BY <1>1 DEF Calm, SameTasks
<1> HIDE DEF base
<1> QED BY <1>1, <1>3, <1>4, <1>5 DEF Held, StaysCalm

LEMMA CodeReturnsKeeps ==
    ASSUME Held, CodeReturns
    PROVE  Held' /\ StaysCalm
<1> DEFINE base == Step(Popped)
<1>1. StackOK(stack) /\ UiOK(ui) /\ Loop /\ Next1 \in Code /\ stack # <<>> /\ Viewed(Top)
  BY DEF Held, CodeReturns, Loop, Viewed
<1>2. Effect(ui, ui')
  <2>1. CASE Next1 = "template"
    <3>1. Moved(ui, Top.view) \in SUBSET (View \ Root) BY ViewTree DEF Moved
    <3>2. ui' = MarkForRefresh(ui, Moved(ui, Top.view)) BY <2>1 DEF CodeReturns
    <3> QED BY <1>1, <3>1, <3>2, RefreshMarksEffect
  <2>2. CASE Next1 # "template"
    <3>1. ui' = ui BY <2>2 DEF CodeReturns
    <3> QED BY <1>1, <3>1, GrownLike DEF Effect, Calm, SameTasks, Like
  <2> QED BY <2>1, <2>2
<1>3. UiOK(ui') /\ FoundBut(ui', content, stack, aborted, skipped) /\ ContentOK(ui', content)
  BY <1>2, EffectKeeps
<1>4. Next1 \notin View \cup Container BY <1>1, ViewTree
<1>5. /\ StackOK(base) /\ FoundBut(ui', content, base, aborted, skipped) /\ Len(base) = Len(stack)
      /\ base[Len(stack)] = Popped /\ Popped.kind = Top.kind
  BY <1>1, <1>3, <1>4, NextIsTaken
<1>6. HasSched(base) <=> HasSched(stack) BY <1>1, PoppedSched
<1>7. stack' = base /\ UNCHANGED <<views, content, aborted, skipped>> BY DEF CodeReturns
<1> HIDE DEF base
<1> QED BY <1>2, <1>3, <1>5, <1>6, <1>7 DEF Held, StaysCalm, Effect

LEMMA RefreshedKeeps ==
    ASSUME Held, Refreshed \/ Traversed
    PROVE  Held' /\ StaysCalm
<1>1. /\ StackOK(stack) /\ UiOK(ui) /\ stack # <<>> /\ Viewed(Top) /\ Top.todo = <<>>
      /\ stack' = Callers /\ UNCHANGED <<views, content, aborted, skipped>>
  BY DEF Held, Refreshed, Traversed, Viewed
<1>2. FrameOK(Top) /\ Top.view \in View BY <1>1, TopIs DEF FrameOK, Viewed
<1>3. UiOK(ui') /\ Like(ui, ui') /\ SameTasks(ui, ui')
  <2>1. CASE Traversed BY <1>1, <2>1 DEF Traversed, Like, SameTasks
  <2>2. CASE Refreshed
    <3> DEFINE v == Top.view
               f == [ui.flags[v] EXCEPT !.dirty = FALSE]
    <3>1. ui.flags[v] \in Flags BY <1>1, <1>2 DEF UiOK
    <3>2. /\ f \in Flags /\ f.attached = ui.flags[v].attached
          /\ f.inserted = ui.flags[v].inserted /\ f.child = ui.flags[v].child
          /\ f.refresh = ui.flags[v].refresh
          /\ f.consumer = ui.flags[v].consumer
      BY <3>1 DEF Flags
    <3>3. ui' = [ui EXCEPT !.flags[v] = f] /\ v \in View BY <1>2, <2>2 DEF Refreshed
    <3> HIDE DEF f, v
    <3>4. /\ UiOK(ui') /\ SameTasks(ui, ui') /\ ui'.flags[v] = f
          /\ \A x \in View \ {v} : ui'.flags[x] = ui.flags[x]
      BY <1>1, <3>2, <3>3, FlagSet
    <3> QED BY <3>2, <3>4 DEF Like
  <2> QED BY <2>1, <2>2
<1>4. /\ Grown(ui, ui', {}) /\ ContentOK(ui', content)
      /\ \A v \in View : Requires(ui', v) <=> Requires(ui, v)
  BY <1>1, <1>3, GrownLike, KeptContent DEF Held
<1>5. Calm(ui, ui') BY <1>1, <1>3, <1>4, ViewTree, CalmSame
<1>6. FoundBut(ui', content, stack, aborted, skipped) BY <1>1, <1>3, <1>4, FoundGrown DEF Held
<1>8. StackOK(Callers) /\ FoundBut(ui', content, Callers, aborted, skipped)
  BY <1>1, <1>6, Returns DEF Viewed
<1>9. HasSched(Callers) <=> HasSched(stack) BY <1>1, SchedPop DEF Viewed
<1> QED BY <1>1, <1>3, <1>4, <1>5, <1>8, <1>9 DEF Held, StaysCalm

LEMMA WhileDirtyKeeps ==
    ASSUME Held, WhileDirty
    PROVE  /\ Held' /\ (HasSched(stack') <=> HasSched(stack))
           /\ SameTasks(ui, ui')
           /\ \A r \in Root : Requires(ui', r) => Requires(ui, r) /\ r # Top.view
<1> DEFINE x == Top.view
           f == [Top EXCEPT !.runs = @ + 1, !.mode = "Targeted"]
           base == Step(f)
<1>1. /\ StackOK(stack) /\ UiOK(ui) /\ stack # <<>> /\ Top.kind = "while"
      /\ Visit(x, Top.mode, base) /\ UNCHANGED <<views, content>>
      /\ FoundBut(ui, content, stack, aborted, skipped) /\ aborted \subseteq View
      /\ skipped \subseteq View /\ ContentOK(ui, content)
  BY DEF Held, WhileDirty, WhileFrame
<1>2. FrameOK(Top) /\ x \in View /\ Top.todo = <<>> BY <1>1, TopIs DEF FrameOK
<1>3. /\ f \in Frame /\ f.kind = "while" /\ f.view = x /\ f.runs > 0 /\ f.todo = <<>>
      /\ f.scheduled = Top.scheduled
  <2>1. Top \in Frame BY <1>2 DEF FrameOK
  <2>2. Top.runs + 1 \in Nat /\ Top.runs + 1 > 0 BY <2>1 DEF Frame
  <2>3. /\ f \in Frame /\ f.kind = Top.kind /\ f.view = Top.view /\ f.runs = Top.runs + 1
        /\ f.scheduled = Top.scheduled /\ f.todo = Top.todo
    BY <2>1, <2>2, FrameRuns
  <2> HIDE DEF f
  <2> QED BY <1>1, <1>2, <2>2, <2>3
<1>4. FrameOK(f) BY <1>2, <1>3 DEF FrameOK, Viewed
<1>5. \A v \in View : ~Going(content, Top, v) BY <1>2, NotGoing
<1> HIDE DEF f, x
<1>6. /\ StackOK(base) /\ FoundBut(ui, content, base, aborted, skipped \cup {x}) /\ base # <<>>
      /\ Len(base) = Len(stack) /\ base[Len(stack)] = f
  BY <1>1, <1>3, <1>4, <1>5, GoesOn DEF x
<1>7. HasSched(base) <=> HasSched(stack) BY <1>1, <1>3, SchedStep DEF x
<1> HIDE DEF base
<1>8. /\ UiOK(ui') /\ StackOK(stack') /\ FoundBut(ui', content', stack', aborted', skipped')
      /\ aborted' \subseteq View /\ skipped' \subseteq View
      /\ ContentOK(ui', content') /\ SameTasks(ui, ui')
      /\ ~Requires(ui', x) /\ \A y \in View \ {x} : ui'.flags[y] = ui.flags[y]
      /\ stack' \in {base, Append(base, Refresh(x)), Append(base, Traverse(x))}
  BY <1>1, <1>2, <1>3, <1>6, VisitStep DEF x
<1>9. \A r \in Root : Requires(ui', r) => Requires(ui, r) /\ r # x
  BY <1>8, ViewTree DEF Requires
<1>10. HasSched(stack') <=> HasSched(stack) BY <1>2, <1>6, <1>7, <1>8, VisitSched
<1> QED BY <1>1, <1>8, <1>9, <1>10 DEF Held, x

LEMMA WhileDoneKeeps ==
    ASSUME Held, WhileDone
    PROVE  Held' /\ StaysCalm
<1>1. /\ StackOK(stack) /\ UiOK(ui) /\ stack # <<>> /\ Top.kind = "while" /\ Top.runs > 0
      /\ stack' = Callers /\ UNCHANGED <<ui, views, content, aborted, skipped>>
  BY DEF Held, WhileDone, WhileFrame
<1>2. FrameOK(Top) /\ Top.todo = <<>> /\ Top.runs # 0 BY <1>1, TopIs DEF FrameOK, Frame
<1>4. StackOK(Callers) /\ FoundBut(ui, content, Callers, aborted, skipped)
  BY <1>1, <1>2, Returns DEF Held
<1>5. HasSched(Callers) <=> HasSched(stack) BY <1>1, SchedPop
<1>6. Calm(ui, ui') BY <1>1 DEF Calm, SameTasks
<1> QED BY <1>1, <1>4, <1>5, <1>6 DEF Held, StaysCalm

LEMMA TickGoesOnKeeps ==
    ASSUME Held, TickRendered \/ TickAgain
    PROVE  Held' /\ StaysCalm
<1>1. /\ StackOK(stack) /\ UiOK(ui) /\ stack # <<>> /\ Top.kind = "tick"
      /\ UNCHANGED <<ui, views, content, aborted, skipped>>
  BY DEF Held, TickRendered, TickAgain, PassEnds, TickFrame
<1>2. PICK f : /\ \/ f = [Top EXCEPT !.todo = <<"afterRender">>]
                  \/ f = [Top EXCEPT !.runs = @ + 1, !.pos = 0, !.todo = <<>>]
               /\ stack' = Step(f)
  BY DEF TickRendered, TickAgain
<1>3. FrameOK(Top) /\ Top \in Frame /\ Top.view = None BY <1>1, TopIs DEF FrameOK
<1>4. /\ <<"afterRender">> \in Seq(View \cup Container \cup Code)
      /\ <<>> \in Seq(View \cup Container \cup Code)
  BY DEF Code
<1>5. /\ f \in Frame /\ f.kind = "tick" /\ f.view = None /\ f.scheduled = Top.scheduled
  <2>1. PICK runs \in Nat, pos \in Nat, todo \in Seq(View \cup Container \cup Code) :
          f = [Top EXCEPT !.runs = runs, !.pos = pos, !.todo = todo]
    <3>1. CASE f = [Top EXCEPT !.todo = <<"afterRender">>]
      <4>1. f = [Top EXCEPT !.runs = Top.runs, !.pos = Top.pos, !.todo = <<"afterRender">>]
        BY <1>3, <3>1, FrameIs
      <4> QED BY <1>3, <1>4, <4>1, FrameIs
    <3>2. CASE f = [Top EXCEPT !.runs = @ + 1, !.pos = 0, !.todo = <<>>]
      <4>1. Top.runs + 1 \in Nat /\ 0 \in Nat BY <1>3, FrameIs
      <4> QED BY <1>4, <3>2, <4>1
    <3> QED BY <1>2, <3>1, <3>2
  <2> DEFINE h == [Top EXCEPT !.runs = runs, !.pos = pos, !.todo = todo]
  <2>3. h \in Frame /\ h.kind = Top.kind /\ h.view = Top.view /\ h.scheduled = Top.scheduled
    BY <1>3 DEF Frame
  <2>4. f = h BY <2>1
  <2> HIDE DEF h
  <2>2. f \in Frame /\ f.kind = Top.kind /\ f.view = Top.view /\ f.scheduled = Top.scheduled
    BY <2>3, <2>4
  <2> QED BY <1>1, <1>3, <2>2
<1>6. FrameOK(f) BY <1>5 DEF FrameOK, Viewed
<1>7. None \notin View BY ViewTree
<1>8. StackOK(Step(f)) /\ FoundBut(ui, content, Step(f), aborted, skipped)
  BY <1>1, <1>3, <1>5, <1>6, <1>7, GoesOn DEF Held
<1>9. HasSched(Step(f)) <=> HasSched(stack) BY <1>1, <1>5, SchedStep
<1>10. Calm(ui, ui') BY <1>1 DEF Calm, SameTasks
<1> QED BY <1>1, <1>2, <1>8, <1>9, <1>10 DEF Held, StaysCalm

\* Tasks and timers change, flags do not.
LEMMA TasksSet ==
    ASSUME NEW u, UiOK(u), NEW w, w.flags = u.flags,
           w = [flags |-> w.flags, task |-> w.task, timers |-> w.timers, tasks |-> w.tasks]
    PROVE  /\ UiOK(w) /\ Grown(u, w, {}) /\ Kept(u, w)
           /\ \A v \in View : /\ Hangs(w, v) <=> Hangs(u, v)
                              /\ Requires(w, v) <=> Requires(u, v)
<1>1. UiOK(w) /\ Like(u, w) BY DEF UiOK, Like
<1> QED BY <1>1, GrownLike

\* A tick ends: the view of a subscriber may be marked.
LEMMA HeardIs ==
    ASSUME NEW u, UiOK(u), NEW n, NEW w \in Heard(u, n)
    PROVE  Effect(u, w) /\ \A v \in View : Hangs(w, v) <=> Hangs(u, v)
<1>1. Listener \in View BY ViewTree
<1>2. w = u \/ w = MarkDirty(u, Listener) \/ w = SignalChanges(u, Listener) BY DEF Heard
<1>3. CASE w = u BY <1>3, GrownLike DEF Effect, Calm, SameTasks, Like
<1>4. CASE w = MarkDirty(u, Listener) BY <1>1, <1>4, MarkDirtyEffect
<1>5. CASE w = SignalChanges(u, Listener) BY <1>1, <1>5, SignalEffect
<1> QED BY <1>2, <1>3, <1>4, <1>5

LEMMA RemoveTaskIs ==
    ASSUME NEW u, UiOK(u), NEW id, NEW n, RemoveTask(u, id, n)
    PROVE  /\ UiOK(ui') /\ Grown(u, ui', {}) /\ Kept(u, ui')
           /\ \A v \in View : Hangs(ui', v) <=> Hangs(u, v)
<1> DEFINE left == Removed(u.tasks, id)
           gone == [u EXCEPT !.tasks = left]
<1>1. gone.flags = u.flags
      /\ gone = [flags |-> gone.flags, task |-> gone.task, timers |-> gone.timers,
                 tasks |-> gone.tasks]
  <2> HIDE DEF left
  <2> QED BY DEF UiOK
<1>2. ui' \in Heard(gone, n) BY DEF RemoveTask, Heard
<1> HIDE DEF gone
<1>3. /\ UiOK(gone) /\ Grown(u, gone, {}) /\ Kept(u, gone)
      /\ \A v \in View : Hangs(gone, v) <=> Hangs(u, v)
  BY <1>1, TasksSet
<1>4. Effect(gone, ui') /\ \A v \in View : Hangs(ui', v) <=> Hangs(gone, v)
  BY <1>2, <1>3, HeardIs
<1>5. UiOK(ui') /\ Grown(gone, ui', {}) /\ Kept(gone, ui') BY <1>4 DEF Effect
<1>6. Grown(u, ui', {}) BY <1>3, <1>5, GrownTrans
<1>7. Kept(u, ui') BY <1>3, <1>5 DEF Kept
<1> QED BY <1>3, <1>4, <1>5, <1>6, <1>7

LEMMA FinishIs ==
    ASSUME NEW f, NEW u, UiOK(u), NEW error, NEW n, Finish(f, u, error, n)
    PROVE  /\ UiOK(ui') /\ Grown(u, ui', {}) /\ Kept(u, ui')
           /\ \A v \in View : Hangs(ui', v) <=> Hangs(u, v)
<1>1. CASE ~f.scheduled
  <2>1. ui' = u BY <1>1 DEF Finish
  <2> QED BY <2>1, GrownLike DEF Like
<1>2. CASE f.scheduled
  <2> DEFINE a == [u EXCEPT !.task = None]
  <2>1. a.flags = u.flags
        /\ a = [flags |-> a.flags, task |-> a.task, timers |-> a.timers, tasks |-> a.tasks]
    BY DEF UiOK
  <2>2. RemoveTask(a, u.task, n) BY <1>2 DEF Finish
  <2> HIDE DEF a
  <2>3. UiOK(a) /\ Grown(u, a, {}) /\ Kept(u, a) /\ \A v \in View : Hangs(a, v) <=> Hangs(u, v)
    BY <2>1, TasksSet
  <2>4. /\ UiOK(ui') /\ Grown(a, ui', {}) /\ Kept(a, ui')
        /\ \A v \in View : Hangs(ui', v) <=> Hangs(a, v)
    BY <2>2, <2>3, RemoveTaskIs
  <2>5. Grown(u, ui', {}) BY <2>3, <2>4, GrownTrans
  <2>6. Kept(u, ui') BY <2>3, <2>4 DEF Kept
  <2> QED BY <2>3, <2>4, <2>5, <2>6
<1> QED BY <1>1, <1>2

\* The tick that an exception ends, or 0.
LEMMA TickIs ==
    ASSUME StackOK(stack), NEW k, k = IF TickAt = {} THEN 0 ELSE CHOOSE i \in TickAt : TRUE
    PROVE  /\ k \in 0..Len(stack)
           /\ k > 0 => k \in 1..Len(stack) /\ stack[k].kind = "tick"
           /\ \A i \in 1..Len(stack) : stack[i].kind = "tick" => i = k
<1>1. Len(stack) \in Nat /\ DOMAIN stack = 1..Len(stack) BY LenProperties DEF StackOK
<1>2. CASE TickAt = {} BY <1>1, <1>2 DEF TickAt
<1>3. CASE TickAt # {}
  <2>1. k \in TickAt BY <1>3
  <2>2. k \in 1..Len(stack) /\ stack[k].kind = "tick" BY <1>1, <2>1 DEF TickAt
  <2> QED BY <1>1, <2>2 DEF StackOK
<1> QED BY <1>2, <1>3

LEMMA ThrowKeeps ==
    ASSUME Held, stack # <<>>, Top.kind = "while" => Top.runs > 0, NEW n, Throw(n)
    PROVE  Held'
<1> DEFINE L == Len(stack)
           k == IF TickAt = {} THEN 0 ELSE CHOOSE i \in TickAt : TRUE
           S == {stack[j].view : j \in {i \in (k + 1)..L : stack[i].kind = "refresh"}}
           u == Unwound(k + 1)
           n2 == IF k > 0 /\ stack[k].todo = <<>> THEN k - 1 ELSE k
<1>1. /\ StackOK(stack) /\ UiOK(ui) /\ L \in Nat /\ L > 0 /\ L \in 1..L
      /\ UNCHANGED <<views, content, skipped>>
      /\ aborted \subseteq View /\ views \in Seq(Root)
      /\ FoundBut(ui, content, stack, aborted, skipped)
  BY TopIs DEF Held, Throw
<1>2. /\ k \in 0..L /\ (k > 0 => k \in 1..L /\ stack[k].kind = "tick")
      /\ \A i \in 1..L : stack[i].kind = "tick" => i = k
  BY <1>1, TickIs
<1>3. /\ IF k > 0 /\ stack[k].todo = <<>>
         THEN Finish(stack[k], u, TRUE, n) /\ stack' = SubSeq(stack, 1, k - 1)
         ELSE ui' = u /\ stack' = SubSeq(stack, 1, k)
      /\ aborted' = aborted \cup {stack[i].view : i \in {j \in (k + 1)..L : Lost(j)}}
  BY DEF Throw
<1>4. u = MarkAncestors(ui, S) BY DEF Unwound
<1> HIDE DEF k
<1>5. \A i \in (k + 1)..L : i \in 1..L /\ i # k /\ stack[i].kind # "tick" /\ stack[i].view \in View
  <2>1. ASSUME NEW i \in (k + 1)..L
        PROVE  i \in 1..L /\ i # k /\ stack[i].kind # "tick" /\ stack[i].view \in View
    <3>1. i \in 1..L /\ i # k BY <1>1, <1>2
    <3> QED BY <1>1, <1>2, <3>1 DEF StackOK, FrameOK
  <2> QED BY <2>1
<1>6. S \in SUBSET View BY <1>5
<1>7. /\ stack' = SubSeq(stack, 1, n2) /\ n2 \in 0..k /\ n2 \in 0..L
      /\ \A i \in (n2 + 1)..k : stack[i].kind = "tick"
  <2> HIDE DEF u
  <2>1. CASE k > 0 /\ stack[k].todo = <<>>
    <3>1. n2 = k - 1 BY <2>1
    <3>2. stack' = SubSeq(stack, 1, k - 1) BY <1>3, <2>1
    <3> HIDE DEF n2
    <3>3. n2 \in 0..k /\ n2 \in 0..L /\ \A i \in (n2 + 1)..k : i = k
      BY <1>1, <1>2, <2>1, <3>1
    <3>4. stack[k].kind = "tick" BY <1>2, <2>1
    <3> QED BY <3>1, <3>2, <3>3, <3>4
  <2>2. CASE ~(k > 0 /\ stack[k].todo = <<>>)
    <3>1. n2 = k BY <2>2
    <3>2. stack' = SubSeq(stack, 1, k) BY <1>3, <2>2
    <3> HIDE DEF n2
    <3>3. n2 \in 0..k /\ n2 \in 0..L /\ \A i \in (n2 + 1)..k : FALSE
      BY <1>1, <1>2, <3>1
    <3> QED BY <3>1, <3>2, <3>3
  <2> QED BY <2>1, <2>2
<1>8. Marked(ui, S, u) BY <1>1, <1>4, <1>6, MarkAncestorsIs
<1> HIDE DEF u
<1>9. UiOK(u) /\ Grown(ui, u, {}) /\ Kept(ui, u) /\ \A v \in View : Hangs(u, v) <=> Hangs(ui, v)
  <2>1. UiOK(u) BY <1>8 DEF Marked
  <2>2. Grown(ui, u, {}) /\ Kept(ui, u) BY <1>1, <1>8, GrownMarked
  <2>3. ASSUME NEW v \in View PROVE Hangs(u, v) <=> Hangs(ui, v)
    <3>1. /\ u.flags[v].attached = ui.flags[v].attached
          /\ u.flags[v].inserted = ui.flags[v].inserted
      BY <1>8 DEF Marked
    <3> QED BY <1>1, <2>1, <3>1, ParentInIs DEF Hangs
  <2> QED BY <2>1, <2>2, <2>3
<1>10. /\ UiOK(ui') /\ Grown(u, ui', {}) /\ Kept(u, ui')
       /\ \A v \in View : Hangs(ui', v) <=> Hangs(u, v)
  <2>1. CASE ui' = u BY <1>9, <2>1, GrownLike DEF Like
  <2>2. CASE Finish(stack[k], u, TRUE, n) BY <1>9, <2>2, FinishIs
  <2> QED BY <1>3, <2>1, <2>2
<1>11. Unwinds(k, ui', aborted')
  <2>1. Grown(ui, ui', {}) BY <1>1, <1>9, <1>10, GrownTrans
  <2>2. \A v \in View : Hangs(ui, v) => Hangs(ui', v) BY <1>9, <1>10
  <2>3. ASSUME NEW j \in (k + 1)..L, stack[j].kind = "refresh",
               ParentIn(ui, stack[j].view) # None
        PROVE  ui'.flags[Parent[stack[j].view]].child
    <3>1. stack[j].view \in S /\ stack[j].view \in View BY <1>5, <2>3
    <3>2. Parent[stack[j].view] \in View BY <1>1, <2>3, <3>1, ParentInIs
    <3>3. u.flags[Parent[stack[j].view]].child BY <1>8, <2>3, <3>1 DEF Marked
    <3> QED BY <1>10, <3>2, <3>3 DEF Grown
  <2> QED BY <1>3, <1>10, <2>1, <2>2, <2>3 DEF Unwinds
<1>12. \A i \in 1..L : stack[i].kind = "while" => stack[i].runs > 0
  <2>1. ASSUME NEW i \in 1..L, stack[i].kind = "while" PROVE stack[i].runs > 0
    <3>1. CASE i = L BY <2>1, <3>1 DEF Top
    <3>2. CASE i # L
      <4>1. i + 1 \in 2..L /\ (i + 1) - 1 = i BY <1>1, <3>2
      <4>2. Above(stack[i], stack[i + 1]) BY <1>1, <4>1, PairIs
      <4> QED BY <2>1, <4>2 DEF Above
    <3> QED BY <3>1, <3>2
  <2> QED BY <2>1
<1> HIDE DEF n2
<1>16. ContentOK(ui', content)
  <2>1. Kept(ui, ui') BY <1>9, <1>10 DEF Kept
  <2> QED BY <2>1, KeptContent DEF Held
<1>13. FoundBut(ui', content, stack', aborted', skipped)
  BY <1>1, <1>2, <1>5, <1>7, <1>11, <1>12, UnwindKeeps
<1>14. StackOK(stack') BY <1>1, <1>7, StackCut
<1>15. aborted' \subseteq View BY <1>1, <1>3, <1>5
<1> QED BY <1>1, <1>10, <1>13, <1>14, <1>15, <1>16 DEF Held

LEMMA EffectStep ==
    ASSUME Held, Effect(ui, ui'), UNCHANGED <<stack, content, aborted, skipped>>,
           views' \in Seq(Root)
    PROVE  Held' /\ StaysCalm
<1>1. UiOK(ui') /\ FoundBut(ui', content, stack, aborted, skipped) /\ ContentOK(ui', content)
  BY EffectKeeps
<1> QED BY <1>1 DEF Held, StaysCalm, Effect

\* Flags, containers and the views that were stepped over change, calls do not.
LEMMA ChangedKeeps ==
    ASSUME Held, UiOK(ui'), Grown(ui, ui', {}), ContentOK(ui', content'), NEW X,
           skipped \subseteq X, skipped' \subseteq View,
           \A i \in 1..Len(stack) : \A v \in View \ X :
             Hangs(ui', v) /\ Going(content, stack[i], v) => Going(content', stack[i], v),
           \A v \in (X \cap View) \ skipped' :
             Hangs(ui', v) /\ Requires(ui', v) => ui'.flags[Parent[v]].child,
           UNCHANGED <<views, stack, aborted>>
    PROVE  Held'
<1>1. UiOK(ui) /\ StackOK(stack) /\ FoundBut(ui, content, stack, aborted, skipped) BY DEF Held
<1>2. FoundBut(ui', content, stack, aborted, skipped) BY <1>1, FoundGrown
<1>3. Len(stack) \in Nat BY <1>1, LenProperties DEF StackOK
<1>4. FoundBut(ui', content', stack, aborted, X) BY <1>1, <1>2, <1>3, FoundGoesOn
<1>5. FoundBut(ui', content', stack, aborted, skipped') BY <1>1, <1>4, FoundShrink
<1> QED BY <1>1, <1>5 DEF Held

\* User code marks, detaches and reattaches views.
LEMMA FlagsKeep ==
    ASSUME Held, NEW v \in View, Marks(v) \/ Detach(v) \/ Reattach(v)
    PROVE  Held' /\ StaysCalm
<1>1. /\ UiOK(ui) /\ ui.flags[v] \in Flags /\ views \in Seq(Root)
      /\ skipped \subseteq View /\ ContentOK(ui, content)
  BY DEF Held, UiOK
<1>2. CASE Marks(v)
  <2>1. ui' = MarkDirty(ui, v) \/ ui' = SignalChanges(ui, v) BY <1>2 DEF Marks
  <2>2. Effect(ui, ui')
    <3>1. CASE ui' = MarkDirty(ui, v) BY <1>1, <3>1, MarkDirtyEffect
    <3>2. CASE ui' = SignalChanges(ui, v) BY <1>1, <3>2, SignalEffect
    <3> QED BY <2>1, <3>1, <3>2
  <2>3. UNCHANGED <<views, content, stack, aborted, skipped>> BY <1>2 DEF Marks
  <2> QED BY <1>1, <2>2, <2>3, EffectStep
<1>3. CASE Detach(v)
  <2> DEFINE f == [ui.flags[v] EXCEPT !.attached = FALSE]
  <2>1. /\ f \in Flags /\ f.refresh = ui.flags[v].refresh /\ f.child = ui.flags[v].child
        /\ f.consumer = ui.flags[v].consumer /\ f.inserted = ui.flags[v].inserted
        /\ ~f.attached
    BY <1>1 DEF Flags
  <2>2. /\ ui' = [ui EXCEPT !.flags[v] = f]
        /\ UNCHANGED <<views, content, stack, aborted, skipped>>
    BY <1>3 DEF Detach
  <2> HIDE DEF f
  <2>3. Placed(ui, ui', v) /\ ui'.flags[v] = f BY <1>1, <2>1, <2>2, PlacedIs
  <2>4. Kept(ui, ui') BY <2>1, <2>3 DEF Kept, Placed
  <2>5. Effect(ui, ui') BY <1>1, <2>1, <2>3, <2>4, DetachEffect
  <2> QED BY <1>1, <2>2, <2>5, EffectStep
<1>4. CASE Reattach(v)
  <2>1. /\ ui' = [FlagsOnAttach(ui, v) EXCEPT !.flags[v].attached = TRUE]
        /\ skipped' = skipped \ {v} /\ UNCHANGED <<views, content, stack, aborted>>
    BY <1>4 DEF Reattach
  <2>2. /\ UiOK(ui') /\ Grown(ui, ui', {}) /\ Kept(ui, ui') /\ (~HearsUnstable => Calm(ui, ui'))
        /\ Hangs(ui', v) /\ Requires(ui', v) => ui'.flags[Parent[v]].child
    BY <1>1, <2>1, AttachEffect
  <2>3. ContentOK(ui', content') BY <1>1, <2>1, <2>2, KeptContent
  <2>4. \A x \in (skipped \cap View) \ skipped' : x = v BY <2>1
  <2>5. Held'
    <3> DEFINE X == skipped
    <3>1. \A x \in (X \cap View) \ skipped' :
            Hangs(ui', x) /\ Requires(ui', x) => ui'.flags[Parent[x]].child
      BY <2>2, <2>4
    <3>2. skipped \subseteq X /\ skipped' \subseteq View BY <1>1, <2>1
    <3>3. \A i \in 1..Len(stack) : \A x \in View \ X :
            Hangs(ui', x) /\ Going(content, stack[i], x) => Going(content', stack[i], x)
      BY <2>1
    <3> HIDE DEF X
    <3> QED BY <2>1, <2>2, <2>3, <3>1, <3>2, <3>3, ChangedKeeps
  <2> QED BY <2>1, <2>2, <2>5 DEF StaysCalm
<1> QED BY <1>2, <1>3, <1>4

LEMMA RemoveAtIs ==
    ASSUME NEW S, NEW s \in Seq(S), NEW i \in 1..Len(s)
    PROVE  /\ RemoveAt(s, i) \in Seq(S)
           /\ ToSet(RemoveAt(s, i)) \subseteq ToSet(s)
           /\ Len(RemoveAt(s, i)) = Len(s) - 1
           /\ \A j \in 1..Len(s) : /\ j < i => RemoveAt(s, i)[j] = s[j]
                                   /\ j > i => RemoveAt(s, i)[j - 1] = s[j]
<1> DEFINE a == SubSeq(s, 1, i - 1)
           b == SubSeq(s, i + 1, Len(s))
           r == RemoveAt(s, i)
<1>1. Len(s) \in Nat /\ i \in Nat /\ i - 1 \in 0..Len(s) BY LenProperties
<1>2. a \in Seq(S) /\ Len(a) = i - 1 /\ \A j \in 1..Len(a) : a[j] = s[j]
  BY <1>1, SubSeqProperties
<1>3. /\ b \in Seq(S) /\ Len(b) = Len(s) - i
      /\ \A j \in 1..Len(b) : b[j] = s[i + j] /\ i + j \in 1..Len(s)
  BY <1>1, SubSeqProperties
<1>4. r = a \o b BY DEF RemoveAt
<1> HIDE DEF a, b, r
<1>5. r \in Seq(S) /\ ToSet(r) = ToSet(a) \cup ToSet(b) BY <1>2, <1>3, <1>4, ToSetConcat
<1>6. DOMAIN s = 1..Len(s) /\ DOMAIN a = 1..Len(a) /\ DOMAIN b = 1..Len(b)
  BY <1>2, <1>3, LenProperties
<1>7. ToSet(a) \subseteq ToSet(s)
  <2>1. \A j \in 1..Len(a) : j \in 1..Len(s) BY <1>1, <1>2
  <2> QED BY <1>2, <1>6, <2>1 DEF ToSet
<1>8. ToSet(b) \subseteq ToSet(s) BY <1>3, <1>6 DEF ToSet
<1>9. /\ Len(r) = Len(a) + Len(b) /\ \A j \in 1..Len(a) : r[j] = a[j]
      /\ \A j \in Len(a) + 1..Len(a) + Len(b) : r[j] = b[j - Len(a)]
  <2>1. /\ Len(r) = Len(a) + Len(b)
        /\ \A j \in 1..Len(a) + Len(b) : r[j] = IF j <= Len(a) THEN a[j] ELSE b[j - Len(a)]
    BY <1>2, <1>3, <1>4, ConcatProperties
  <2>2. Len(a) \in Nat /\ Len(b) \in Nat BY <1>2, <1>3, LenProperties
  <2> QED BY <2>1, <2>2
<1>10. Len(r) = Len(s) - 1 BY <1>1, <1>2, <1>3, <1>9
<1>11. ASSUME NEW j \in 1..Len(s), j < i PROVE r[j] = s[j]
  <2>1. j \in 1..Len(a) BY <1>1, <1>2, <1>11
  <2> QED BY <1>2, <1>9, <2>1
<1>12. ASSUME NEW j \in 1..Len(s), j > i PROVE r[j - 1] = s[j]
  <2>1. /\ j - 1 \in Len(a) + 1..Len(a) + Len(b) /\ (j - 1) - Len(a) = j - i
        /\ j - i \in 1..Len(b) /\ i + (j - i) = j
    BY <1>1, <1>2, <1>3, <1>12
  <2>2. r[j - 1] = b[(j - 1) - Len(a)] /\ b[j - i] = s[i + (j - i)] BY <1>3, <1>9, <2>1
  <2> QED BY <2>1, <2>2
<1> QED BY <1>5, <1>7, <1>8, <1>10, <1>11, <1>12 DEF r

LEMMA InsertAtIs ==
    ASSUME NEW S, NEW s \in Seq(S), NEW i \in 1..(Len(s) + 1), NEW e \in S
    PROVE  /\ InsertAt(s, i, e) \in Seq(S)
           /\ ToSet(InsertAt(s, i, e)) = ToSet(s) \cup {e}
           /\ Len(InsertAt(s, i, e)) = Len(s) + 1
           /\ \A j \in 1..Len(s) : /\ j < i => InsertAt(s, i, e)[j] = s[j]
                                   /\ j >= i => InsertAt(s, i, e)[j + 1] = s[j]
<1> DEFINE a == SubSeq(s, 1, i - 1)
           b == SubSeq(s, i, Len(s))
           m == a \o <<e>>
           r == InsertAt(s, i, e)
<1>1. Len(s) \in Nat /\ i \in Nat /\ i - 1 \in 0..Len(s) BY LenProperties
<1>2. a \in Seq(S) /\ Len(a) = i - 1 /\ \A j \in 1..Len(a) : a[j] = s[j]
  BY <1>1, SubSeqProperties
<1>3. /\ b \in Seq(S) /\ Len(b) = (Len(s) - i) + 1
      /\ \A j \in 1..Len(b) : b[j] = s[(i + j) - 1] /\ (i + j) - 1 \in 1..Len(s)
  BY <1>1, SubSeqProperties
<1>4. r = m \o b BY DEF InsertAt
<1>5. <<e>> \in Seq(S) /\ Len(<<e>>) = 1 /\ ToSet(<<e>>) = {e} BY DEF ToSet
<1> DEFINE o == <<e>>
<1>6. o \in Seq(S) /\ Len(o) = 1 /\ ToSet(o) = {e} BY <1>5
<1> HIDE DEF a, b, o, r
<1>7. /\ m \in Seq(S) /\ Len(m) = i /\ ToSet(m) = ToSet(a) \cup {e}
      /\ \A j \in 1..Len(a) : m[j] = a[j]
  <2>1. m = a \o o BY DEF o
  <2>2. /\ a \o o \in Seq(S) /\ Len(a \o o) = Len(a) + Len(o)
        /\ \A j \in 1..Len(a) : (a \o o)[j] = a[j]
    <3>1. /\ a \o o \in Seq(S) /\ Len(a \o o) = Len(a) + Len(o)
          /\ \A j \in 1..Len(a) + Len(o) :
               (a \o o)[j] = IF j <= Len(a) THEN a[j] ELSE o[j - Len(a)]
      BY <1>2, <1>6, ConcatProperties
    <3>2. Len(a) \in Nat /\ Len(o) = 1 BY <1>2, <1>6, LenProperties
    <3> QED BY <3>1, <3>2
  <2>3. ToSet(a \o o) = ToSet(a) \cup ToSet(o) BY <1>2, <1>6, ToSetConcat
  <2> HIDE DEF m
  <2> QED BY <1>1, <1>2, <1>6, <2>1, <2>2, <2>3
<1> HIDE DEF m
<1>8. r \in Seq(S) /\ ToSet(r) = ToSet(m) \cup ToSet(b) BY <1>3, <1>4, <1>7, ToSetConcat
<1>9. /\ Len(r) = Len(m) + Len(b) /\ \A j \in 1..Len(m) : r[j] = m[j]
      /\ \A j \in Len(m) + 1..Len(m) + Len(b) : r[j] = b[j - Len(m)]
  <2>1. /\ Len(r) = Len(m) + Len(b)
        /\ \A j \in 1..Len(m) + Len(b) : r[j] = IF j <= Len(m) THEN m[j] ELSE b[j - Len(m)]
    BY <1>3, <1>4, <1>7, ConcatProperties
  <2>2. Len(m) \in Nat /\ Len(b) \in Nat BY <1>3, <1>7, LenProperties
  <2> QED BY <2>1, <2>2
<1>10. Len(r) = Len(s) + 1 BY <1>1, <1>3, <1>7, <1>9
<1>11. ASSUME NEW j \in 1..Len(s), j < i PROVE r[j] = s[j]
  <2>1. j \in 1..Len(a) /\ j \in 1..Len(m) BY <1>1, <1>2, <1>7, <1>11
  <2> QED BY <1>2, <1>7, <1>9, <2>1
<1>12. ASSUME NEW j \in 1..Len(s), j >= i PROVE r[j + 1] = s[j]
  <2> DEFINE k == (j - i) + 1
  <2>1. /\ j + 1 \in Len(m) + 1..Len(m) + Len(b) /\ (j + 1) - Len(m) = k
        /\ k \in 1..Len(b) /\ (i + k) - 1 = j
    BY <1>1, <1>3, <1>7, <1>12
  <2> HIDE DEF k
  <2>2. r[j + 1] = b[(j + 1) - Len(m)] /\ b[k] = s[(i + k) - 1] BY <1>3, <1>9, <2>1
  <2> QED BY <2>1, <2>2
<1>13. DOMAIN s = 1..Len(s) /\ DOMAIN a = 1..Len(a) /\ DOMAIN b = 1..Len(b)
  BY <1>2, <1>3, LenProperties
<1>14. ToSet(a) \cup ToSet(b) = ToSet(s)
  <2>1. \A j \in 1..Len(a) : j \in 1..Len(s) BY <1>1, <1>2
  <2>2. ToSet(a) \subseteq ToSet(s) BY <1>2, <1>13, <2>1 DEF ToSet
  <2>3. ToSet(b) \subseteq ToSet(s) BY <1>3, <1>13 DEF ToSet
  <2>4. ASSUME NEW j \in 1..Len(s) PROVE s[j] \in ToSet(a) \cup ToSet(b)
    <3>1. CASE j < i
      <4>1. j \in 1..Len(a) BY <1>1, <1>2, <3>1
      <4> QED BY <1>2, <1>13, <4>1 DEF ToSet
    <3>2. CASE ~(j < i)
      <4> DEFINE k == (j - i) + 1
      <4>1. k \in 1..Len(b) /\ (i + k) - 1 = j BY <1>1, <1>3, <3>2
      <4> HIDE DEF k
      <4> QED BY <1>3, <1>13, <4>1 DEF ToSet
    <3> QED BY <3>1, <3>2
  <2> QED BY <1>13, <2>2, <2>3, <2>4 DEF ToSet
<1>15. ToSet(r) = ToSet(s) \cup {e} BY <1>7, <1>8, <1>14
<1> QED BY <1>8, <1>10, <1>11, <1>12, <1>15 DEF r

\* A view is in a container.
LEMMA EmbeddedIs ==
    ASSUME Held, NEW e \in Embedded
    PROVE  /\ e \in View /\ In[e] \in Container /\ content[In[e]] \in Seq(Embedded)
           /\ DOMAIN content[In[e]] = 1..Len(content[In[e]]) /\ Len(content[In[e]]) \in Nat
           /\ ui.flags[e] \in Flags
<1>1. e \in View /\ In[e] \in Container BY ViewTree DEF Container
<1>2. content[In[e]] \in Seq(Embedded) BY <1>1 DEF Held, ContentOK
<1> QED BY <1>1, <1>2, LenProperties DEF Held, UiOK

\* A view is put into its container.
LEMMA InsertKeeps ==
    ASSUME Held, NEW e \in Embedded, InsertView(e)
    PROVE  Held' /\ StaysCalm
<1> DEFINE c == In[e]
           s == content[c]
           f == [ui.flags[e] EXCEPT !.inserted = TRUE]
           a == [ui EXCEPT !.flags[e] = f]
<1>1. /\ UiOK(ui) /\ ContentOK(ui, content) /\ skipped \subseteq View /\ e \in View
      /\ c \in Container /\ s \in Seq(Embedded) /\ DOMAIN s = 1..Len(s) /\ Len(s) \in Nat
      /\ ui.flags[e] \in Flags
  BY EmbeddedIs DEF Held
<1>2. PICK k \in 1..(Len(s) + 1) : content' = [content EXCEPT ![c] = InsertAt(s, k, e)]
  BY DEF InsertView
<1>3. skipped' = skipped \ {e} /\ UNCHANGED <<views, stack, aborted>> BY DEF InsertView
<1>4. ui' = [FlagsOnAttach(a, e) EXCEPT !.flags[e].attached = TRUE] BY DEF InsertView
<1>5. /\ f \in Flags /\ f.refresh = ui.flags[e].refresh /\ f.child = ui.flags[e].child
      /\ f.consumer = ui.flags[e].consumer
  BY <1>1 DEF Flags
<1> HIDE DEF f
<1>6. Placed(ui, a, e) BY <1>1, <1>5, PlacedIs
<1> HIDE DEF a
<1>7. /\ UiOK(ui') /\ Grown(ui, ui', {}) /\ Kept(a, ui') /\ (~HearsUnstable => Calm(ui, ui'))
      /\ Hangs(ui', e) /\ Requires(ui', e) => ui'.flags[Parent[e]].child
  BY <1>1, <1>4, <1>6, AttachEffect
<1>8. \A v \in View \ {e} : ui'.flags[v].inserted => ui.flags[v].inserted
  BY <1>6, <1>7 DEF Kept, Placed
<1> DEFINE t == content'[c]
<1> HIDE DEF s
<1>9. /\ t \in Seq(Embedded) /\ ToSet(t) = ToSet(s) \cup {e} /\ Len(t) = Len(s) + 1
      /\ \A j \in 1..Len(s) : (j < k => t[j] = s[j]) /\ (j >= k => t[j + 1] = s[j])
      /\ content' \in [Container -> Seq(Embedded)]
      /\ \A d \in Container \ {c} : content'[d] = content[d]
  <2> DEFINE n == InsertAt(s, k, e)
  <2>1. /\ n \in Seq(Embedded) /\ ToSet(n) = ToSet(s) \cup {e} /\ Len(n) = Len(s) + 1
        /\ \A j \in 1..Len(s) : (j < k => n[j] = s[j]) /\ (j >= k => n[j + 1] = s[j])
    <3>1. k \in 1..(Len(s) + 1) BY <1>2
    <3>2. s \in Seq(Embedded) BY <1>1
    <3> QED BY <3>1, <3>2, InsertAtIs
  <2>2. content' = [content EXCEPT ![c] = n] BY <1>2
  <2> HIDE DEF n
  <2>3. content \in [Container -> Seq(Embedded)] BY <1>1 DEF ContentOK
  <2>4. t = n BY <1>1, <2>2, <2>3
  <2> QED BY <1>1, <2>1, <2>2, <2>3, <2>4
<1> HIDE DEF t
<1>10. ContentOK(ui', content')
  <2>1. ASSUME NEW d \in Container, NEW x \in ToSet(content'[d]) PROVE In[x] = d
    <3>1. CASE d # c BY <1>1, <1>9, <2>1, <3>1 DEF ContentOK
    <3>2. CASE d = c BY <1>1, <1>9, <2>1, <3>2 DEF ContentOK, t, s
    <3> QED BY <3>1, <3>2
  <2>2. ASSUME NEW x \in Embedded, ui'.flags[x].inserted PROVE x \in ToSet(content'[In[x]])
    <3>1. x \in View /\ In[x] \in Container BY EmbeddedIs
    <3>2. CASE x = e BY <1>9, <3>2 DEF t
    <3>3. CASE x # e
      <4>1. x \in ToSet(content[In[x]]) BY <1>1, <1>8, <2>2, <3>1, <3>3 DEF ContentOK
      <4> QED BY <1>9, <3>1, <4>1 DEF t, s
    <3> QED BY <3>2, <3>3
  <2> QED BY <1>9, <2>1, <2>2 DEF ContentOK
<1>11. ASSUME NEW i \in 1..Len(stack), NEW v \in View, Going(content, stack[i], v)
       PROVE  Going(content', stack[i], v)
  <2> DEFINE g == stack[i]
  <2>1. g \in Frame /\ g.pos \in Nat BY DEF Held, StackOK, FrameOK, Frame
  <2> HIDE DEF g
  <2>2. CASE v \in Embedded /\ In[v] = c /\ Head(g.todo) = c /\ c \in ToSet(g.todo)
             /\ v \notin ToSet(g.todo)
    <3>1. PICK j \in 1..Len(s) : j > g.pos /\ s[j] = v
      BY <1>1, <1>11, <2>2 DEF Going, g, s
    <3>2. DOMAIN t = 1..Len(t) BY <1>9, LenProperties
    <3>3. \E n \in DOMAIN t : n > g.pos /\ t[n] = v
      <4>1. CASE j < k
        <5>1. j \in DOMAIN t BY <1>1, <1>9, <3>2
        <5> QED BY <1>9, <3>1, <4>1, <5>1
      <4>2. CASE j >= k
        <5>1. j + 1 \in DOMAIN t /\ j + 1 > g.pos BY <1>1, <1>9, <2>1, <3>1, <3>2
        <5> QED BY <1>9, <3>1, <4>2, <5>1
      <4> QED BY <4>1, <4>2
    <3> QED BY <2>2, <3>3 DEF Going, g, t
  <2>3. CASE v \in ToSet(g.todo) BY <2>3 DEF Going, g
  <2>4. CASE v \in Embedded /\ In[v] \in ToSet(g.todo) /\ Head(g.todo) # In[v]
    BY <2>4 DEF Going, g
  <2>5. CASE v \in Embedded /\ In[v] # c
    <3>1. content'[In[v]] = content[In[v]] BY <1>9, <2>5 DEF Container
    <3> QED BY <1>11, <3>1 DEF Going
  <2>6. v \in ToSet(g.todo) \/ (v \in Embedded /\ In[v] \in ToSet(g.todo))
    BY <1>11 DEF Going, g
  <2> QED BY <2>2, <2>3, <2>4, <2>5, <2>6
<1>12. Held'
  <2> DEFINE X == skipped
  <2>1. skipped \subseteq X /\ skipped' \subseteq View BY <1>1, <1>3
  <2>2. \A v \in (X \cap View) \ skipped' :
          Hangs(ui', v) /\ Requires(ui', v) => ui'.flags[Parent[v]].child
    <3>1. \A v \in (X \cap View) \ skipped' : v = e BY <1>3
    <3> QED BY <1>7, <3>1
  <2>3. \A i \in 1..Len(stack) : \A v \in View \ X :
          Hangs(ui', v) /\ Going(content, stack[i], v) => Going(content', stack[i], v)
    BY <1>11
  <2> HIDE DEF X
  <2> QED BY <1>3, <1>7, <1>10, <2>1, <2>2, <2>3, ChangedKeeps
<1> QED BY <1>3, <1>7, <1>12 DEF StaysCalm

\* A view is taken out of its container.  A loop over it that has visited the views
\* up to the index goes on with the one after the next.
LEMMA RemoveKeeps ==
    ASSUME Held, NEW e \in Embedded, RemoveView(e)
    PROVE  Held' /\ StaysCalm
<1> DEFINE c == In[e]
           s == content[c]
           f == [ui.flags[e] EXCEPT !.inserted = FALSE, !.attached = FALSE]
<1>1. /\ UiOK(ui) /\ ContentOK(ui, content) /\ skipped \subseteq View /\ e \in View
      /\ c \in Container /\ s \in Seq(Embedded) /\ DOMAIN s = 1..Len(s) /\ Len(s) \in Nat
      /\ ui.flags[e] \in Flags
  BY EmbeddedIs DEF Held
<1>2. PICK k \in 1..Len(s) :
        /\ s[k] = e /\ content' = [content EXCEPT ![c] = RemoveAt(s, k)]
        /\ skipped' = (skipped \ {e}) \cup {x \in SteppedOver(c, k) : Requires(ui, x)}
  BY <1>1 DEF RemoveView
<1>3. UNCHANGED <<views, stack, aborted>> BY DEF RemoveView
<1>4. ui' = [ui EXCEPT !.flags[e] = f]
  <2>1. ui' = [ui EXCEPT !.flags[e].inserted = FALSE, !.flags[e].attached = FALSE]
    BY DEF RemoveView
  <2> QED BY <1>1, <2>1 DEF UiOK
<1>5. /\ f \in Flags /\ f.refresh = ui.flags[e].refresh /\ f.child = ui.flags[e].child
      /\ f.consumer = ui.flags[e].consumer /\ ~f.attached /\ ~f.inserted
  BY <1>1 DEF Flags
<1> HIDE DEF f
<1>6. Placed(ui, ui', e) /\ ui'.flags[e] = f BY <1>1, <1>4, <1>5, PlacedIs
<1>7. Kept(ui, ui') BY <1>5, <1>6 DEF Kept, Placed
<1>8. Effect(ui, ui') BY <1>1, <1>5, <1>6, <1>7, DetachEffect
<1> DEFINE t == content'[c]
<1>9. /\ t \in Seq(Embedded) /\ ToSet(t) \subseteq ToSet(s) /\ Len(t) = Len(s) - 1
      /\ \A j \in 1..Len(s) : (j < k => t[j] = s[j]) /\ (j > k => t[j - 1] = s[j])
      /\ content' \in [Container -> Seq(Embedded)]
      /\ \A d \in Container \ {c} : content'[d] = content[d]
  <2> DEFINE n == RemoveAt(s, k)
  <2>1. /\ n \in Seq(Embedded) /\ ToSet(n) \subseteq ToSet(s) /\ Len(n) = Len(s) - 1
        /\ \A j \in 1..Len(s) : (j < k => n[j] = s[j]) /\ (j > k => n[j - 1] = s[j])
    BY <1>1, <1>2, RemoveAtIs
  <2>2. content' = [content EXCEPT ![c] = n] BY <1>2
  <2> HIDE DEF n
  <2>3. content \in [Container -> Seq(Embedded)] BY <1>1 DEF ContentOK
  <2>4. t = n BY <1>1, <2>2, <2>3
  <2> QED BY <1>1, <2>1, <2>2, <2>3, <2>4
<1> HIDE DEF s, t
<1>10. DOMAIN t = 1..Len(t) BY <1>9, LenProperties
\* What comes before the index stays where it is, what comes after it moves down.
<1>11. ASSUME NEW v, v # e, NEW j \in 1..Len(s), s[j] = v, NEW p \in Nat, j > p,
              ~(k <= p /\ p < Len(s) /\ s[p + 1] = v)
       PROVE  \E n \in DOMAIN t : n > p /\ t[n] = v
  <2>1. j # k BY <1>2, <1>11
  <2>2. CASE j < k
    <3>1. j \in DOMAIN t /\ t[j] = v BY <1>1, <1>9, <1>10, <1>11, <2>2
    <3> QED BY <1>11, <3>1
  <2>3. CASE j > k
    <3>1. j - 1 \in DOMAIN t /\ t[j - 1] = v BY <1>1, <1>9, <1>10, <1>11, <2>3
    <3>2. j - 1 # p
      <4>1. ASSUME j - 1 = p PROVE FALSE
        <5>1. j = p + 1 /\ k <= p /\ p < Len(s) BY <1>1, <1>11, <2>3, <4>1
        <5> QED BY <1>11, <5>1
      <4> QED BY <4>1
    <3>3. j - 1 > p BY <1>11, <3>2
    <3> QED BY <3>1, <3>3
  <2> QED BY <2>1, <2>2, <2>3
<1>12. ContentOK(ui', content')
  <2>1. ASSUME NEW d \in Container, NEW x \in ToSet(content'[d]) PROVE In[x] = d
    <3>1. CASE d # c BY <1>1, <1>9, <2>1, <3>1 DEF ContentOK
    <3>2. CASE d = c BY <1>1, <1>9, <2>1, <3>2 DEF ContentOK, t, s
    <3> QED BY <3>1, <3>2
  <2>2. ASSUME NEW x \in Embedded, ui'.flags[x].inserted PROVE x \in ToSet(content'[In[x]])
    <3>1. x \in View /\ In[x] \in Container BY EmbeddedIs
    <3>2. x # e BY <1>5, <1>6, <2>2
    <3>3. x \in ToSet(content[In[x]]) BY <1>1, <1>7, <2>2, <3>1 DEF ContentOK, Kept
    <3>4. CASE In[x] # c BY <1>9, <3>1, <3>3, <3>4
    <3>5. CASE In[x] = c
      <4>1. PICK j \in 1..Len(s) : s[j] = x BY <1>1, <3>3, <3>5 DEF ToSet, s
      <4>2. j > 0 /\ 0 \in Nat /\ ~(k <= 0) BY <1>1
      <4>3. \E n \in DOMAIN t : n > 0 /\ t[n] = x BY <1>11, <3>2, <4>1, <4>2
      <4> QED BY <3>5, <4>3 DEF ToSet, t
    <3> QED BY <3>4, <3>5
  <2> QED BY <1>9, <2>1, <2>2 DEF ContentOK
<1>13. ASSUME NEW i \in 1..Len(stack), NEW v \in View, v # e, v \notin SteppedOver(c, k),
              Going(content, stack[i], v)
       PROVE  Going(content', stack[i], v)
  <2> DEFINE g == stack[i]
  <2>1. /\ g \in Frame /\ g.pos \in Nat /\ g.todo \in Seq(View \cup Container \cup Code)
        /\ g \in ToSet(stack)
    <3>1. DOMAIN stack = 1..Len(stack) BY LenProperties DEF Held, StackOK
    <3>2. g \in Frame BY DEF Held, StackOK, FrameOK
    <3> QED BY <3>1, <3>2, FrameIs DEF ToSet
  <2> HIDE DEF g
  <2>2. CASE v \in Embedded /\ In[v] = c /\ Head(g.todo) = c /\ c \in ToSet(g.todo)
             /\ v \notin ToSet(g.todo)
    <3>1. PICK j \in 1..Len(s) : j > g.pos /\ s[j] = v
      BY <1>1, <1>13, <2>2 DEF Going, g, s
    <3>2. g.todo # <<>> BY <2>2 DEF ToSet
    <3>3. ~(k <= g.pos /\ g.pos < Len(s) /\ s[g.pos + 1] = v)
      BY <1>13, <2>1, <2>2, <3>2 DEF SteppedOver, s
    <3>4. \E n \in DOMAIN t : n > g.pos /\ t[n] = v BY <1>11, <1>13, <2>1, <3>1, <3>3
    <3> QED BY <2>2, <3>4 DEF Going, g, t
  <2>3. CASE v \in ToSet(g.todo) BY <2>3 DEF Going, g
  <2>4. CASE v \in Embedded /\ In[v] \in ToSet(g.todo) /\ Head(g.todo) # In[v]
    BY <2>4 DEF Going, g
  <2>5. CASE v \in Embedded /\ In[v] # c
    <3>1. content'[In[v]] = content[In[v]] BY <1>9, <2>5 DEF Container
    <3> QED BY <1>13, <3>1 DEF Going
  <2>6. v \in ToSet(g.todo) \/ (v \in Embedded /\ In[v] \in ToSet(g.todo))
    BY <1>13 DEF Going, g
  <2> QED BY <2>2, <2>3, <2>4, <2>5, <2>6
<1>14. SteppedOver(c, k) \subseteq View
  <2>1. ASSUME NEW g \in ToSet(stack), g.pos < Len(s), k <= g.pos
        PROVE  s[g.pos + 1] \in View
    <3>1. DOMAIN stack = 1..Len(stack) BY LenProperties DEF Held, StackOK
    <3>2. g \in Frame BY <2>1, <3>1 DEF Held, StackOK, FrameOK, ToSet
    <3>3. g.pos \in Nat BY <3>2, FrameIs
    <3>4. g.pos + 1 \in 1..Len(s) BY <1>1, <2>1, <3>3
    <3>5. s[g.pos + 1] \in Embedded BY <1>1, <3>4, ElementOfSeq
    <3> QED BY <3>5, ViewTree
  <2> QED BY <2>1 DEF SteppedOver, s
<1>15. Held'
  <2> DEFINE X == skipped \cup {e} \cup SteppedOver(c, k)
  <2>1. skipped \subseteq X /\ skipped' \subseteq View BY <1>1, <1>2, <1>14
  <2>2. \A v \in (X \cap View) \ skipped' :
          Hangs(ui', v) /\ Requires(ui', v) => ui'.flags[Parent[v]].child
    <3>1. ~Hangs(ui', e) BY <1>5, <1>6 DEF Hangs
    <3>2. \A v \in View : Requires(ui', v) <=> Requires(ui, v) BY <1>6 DEF Placed, Requires
    <3> QED BY <1>2, <3>1, <3>2
  <2>3. \A i \in 1..Len(stack) : \A v \in View \ X :
          Hangs(ui', v) /\ Going(content, stack[i], v) => Going(content', stack[i], v)
    BY <1>13
  <2> HIDE DEF X
  <2>4. UiOK(ui') /\ Grown(ui, ui', {}) BY <1>8 DEF Effect
  <2> QED BY <1>3, <1>12, <2>1, <2>2, <2>3, <2>4, ChangedKeeps
<1> QED BY <1>3, <1>8, <1>15 DEF StaysCalm, Effect

\* Root views are attached to the application and detached from it.
LEMMA RootsKeep ==
    ASSUME Held, NEW r \in Root, AttachView(r) \/ DetachView(r)
    PROVE  Held' /\ StaysCalm
<1>1. UiOK(ui) /\ views \in Seq(Root) /\ r \in View BY ViewTree DEF Held
<1>2. CASE AttachView(r)
  <2>1. Effect(ui, ui') BY <1>1, <1>2, OnAttachIs DEF AttachView
  <2>2. views' \in Seq(Root) /\ UNCHANGED <<stack, content, aborted, skipped>>
    BY <1>1, <1>2, AppendProperties DEF AttachView
  <2> QED BY <2>1, <2>2, EffectStep
<1>3. CASE DetachView(r)
  <2>1. PICK i \in DOMAIN views : views' = RemoveAt(views, i) BY <1>3 DEF DetachView
  <2>2. i \in 1..Len(views) BY <1>1, LenProperties
  <2>3. views' \in Seq(Root) BY <1>1, <2>1, <2>2, RemoveAtIs
  <2>4. UNCHANGED <<ui, stack, content, aborted, skipped>> BY <1>3 DEF DetachView
  <2>5. Effect(ui, ui') BY <1>1, <2>4, GrownLike DEF Effect, Calm, SameTasks, Like
  <2> QED BY <2>3, <2>4, <2>5, EffectStep
<1> QED BY <1>2, <1>3

\* Tasks come and go.
LEMMA TasksKeep ==
    ASSUME Held, OtherAdds \/ OtherRemoves \/ Destroy
    PROVE  Held' /\ stack' = stack
<1>1. UiOK(ui) /\ views \in Seq(Root) /\ StackOK(stack) BY DEF Held
<1>2. /\ UNCHANGED <<stack, content, aborted, skipped>> /\ views' \in Seq(Root)
  <2>1. <<>> \in Seq(Root) OBVIOUS
  <2> QED BY <1>1, <2>1 DEF OtherAdds, OtherRemoves, Destroy
<1>3. UiOK(ui') /\ Grown(ui, ui', {}) /\ Kept(ui, ui')
  <2>1. CASE OtherRemoves BY <1>1, <2>1, RemoveTaskIs DEF OtherRemoves
  <2>2. ASSUME NEW t, ui' = [ui EXCEPT !.tasks = t] 
        PROVE  UiOK(ui') /\ Grown(ui, ui', {}) /\ Kept(ui, ui')
    <3>1. ui'.flags = ui.flags
          /\ ui' = [flags |-> ui'.flags, task |-> ui'.task, timers |-> ui'.timers,
                    tasks |-> ui'.tasks]
      BY <1>1, <2>2 DEF UiOK
    <3> QED BY <1>1, <3>1, TasksSet
  <2> QED BY <2>1, <2>2 DEF OtherAdds, Destroy
<1>4. FoundBut(ui', content, stack, aborted, skipped) BY <1>1, <1>3, FoundGrown DEF Held
<1>5. ContentOK(ui', content) BY <1>3, KeptContent DEF Held
<1> QED BY <1>1, <1>2, <1>3, <1>4, <1>5 DEF Held

\* detectChangesInViewWhileDirty() has just been called for r.
Fresh(r) == stack # <<>> /\ Top.kind = "while" /\ Top.view = r /\ Top.runs = 0

LEMMA CallIs ==
    ASSUME NEW v \in View, NEW m \in {"Global", "Targeted"}
    PROVE  LET f == [Call EXCEPT !.view = v, !.mode = m]
           IN FrameOK(f) /\ f.kind = "while" /\ f.view = v /\ f.runs = 0
<1> DEFINE f == [Call EXCEPT !.view = v, !.mode = m]
<1>1. <<>> \in Seq(View \cup Container \cup Code) OBVIOUS
<1>2. f \in Frame BY <1>1, ViewTree DEF Frame, Call
<1>3. f.kind = "while" /\ f.view = v /\ f.runs = 0 /\ f.todo = <<>> BY DEF Call
<1> HIDE DEF f
<1>4. FrameOK(f) BY <1>2, <1>3 DEF FrameOK, Viewed
<1>5. FrameOK(f) /\ f.kind = "while" /\ f.view = v /\ f.runs = 0 BY <1>3, <1>4
<1> QED BY <1>5 DEF f

LEMMA DetectCallIs ==
    ASSUME NEW v \in View
    PROVE  LET f == [Call EXCEPT !.view = v]
           IN FrameOK(f) /\ f.kind = "while" /\ f.view = v /\ f.runs = 0
<1> DEFINE f == [Call EXCEPT !.view = v]
<1>1. <<>> \in Seq(View \cup Container \cup Code) OBVIOUS
<1>2. f \in Frame BY <1>1, ViewTree DEF Frame, Call
<1>3. f.kind = "while" /\ f.view = v /\ f.runs = 0 /\ f.todo = <<>> BY DEF Call
<1> HIDE DEF f
<1>4. FrameOK(f) BY <1>2, <1>3 DEF FrameOK, Viewed
<1>5. FrameOK(f) /\ f.kind = "while" /\ f.view = v /\ f.runs = 0 BY <1>3, <1>4
<1> QED BY <1>5 DEF f

LEMMA TickCallIs ==
    ASSUME NEW s \in BOOLEAN
    PROVE  LET f == [Call EXCEPT !.kind = "tick", !.scheduled = s]
           IN FrameOK(f) /\ f.kind = "tick" /\ f.scheduled = s
<1> DEFINE f == [Call EXCEPT !.kind = "tick", !.scheduled = s]
<1>1. <<>> \in Seq(View \cup Container \cup Code) OBVIOUS
<1>2. f \in Frame BY <1>1, ViewTree DEF Frame, Call
<1>3. f.kind = "tick" /\ f.scheduled = s /\ f.view = None BY DEF Call
<1> HIDE DEF f
<1>4. FrameOK(f) BY <1>2, <1>3 DEF FrameOK, Viewed
<1>5. FrameOK(f) /\ f.kind = "tick" /\ f.scheduled = s BY <1>3, <1>4
<1> QED BY <1>5 DEF f

LEMMA TickByUserIs ==
    LET f == [Call EXCEPT !.kind = "tick"]
    IN FrameOK(f) /\ f.kind = "tick" /\ ~f.scheduled
<1> DEFINE f == [Call EXCEPT !.kind = "tick"]
<1>1. <<>> \in Seq(View \cup Container \cup Code) OBVIOUS
<1>2. f \in Frame BY <1>1 DEF Frame, Call
<1>3. f.kind = "tick" /\ f.view = None /\ ~f.scheduled BY DEF Call
<1> HIDE DEF f
<1>4. FrameOK(f) BY <1>2, <1>3 DEF FrameOK, Viewed
<1>5. FrameOK(f) /\ f.kind = "tick" /\ ~f.scheduled BY <1>3, <1>4
<1> QED BY <1>5 DEF f

LEMMA RefreshSet ==
    ASSUME NEW u, UiOK(u), NEW v \in View
    PROVE  LET w == [u EXCEPT !.flags[v].refresh = TRUE]
           IN /\ UiOK(w) /\ SameTasks(u, w)
              /\ \A x \in View : /\ w.flags[x].attached = u.flags[x].attached
                                 /\ w.flags[x].inserted = u.flags[x].inserted
                                 /\ w.flags[x].child = u.flags[x].child
                                 /\ w.flags[x].consumer = u.flags[x].consumer
                                 /\ x # v => w.flags[x].refresh = u.flags[x].refresh
<1> DEFINE g == [u.flags[v] EXCEPT !.refresh = TRUE]
           w == [u EXCEPT !.flags[v] = g]
<1>1. u.flags[v] \in Flags BY DEF UiOK
<1>2. /\ g \in Flags /\ g.attached = u.flags[v].attached
      /\ g.inserted = u.flags[v].inserted /\ g.child = u.flags[v].child
      /\ g.consumer = u.flags[v].consumer
  BY <1>1 DEF Flags
<1>3. w = [u EXCEPT !.flags[v].refresh = TRUE] OBVIOUS
<1> HIDE DEF g
<1>4. /\ UiOK(w) /\ SameTasks(u, w) /\ w.flags[v] = g
      /\ \A x \in View \ {v} : w.flags[x] = u.flags[x]
  BY <1>2, FlagSet
<1> HIDE DEF w
<1>5. /\ UiOK(w) /\ SameTasks(u, w)
      /\ \A x \in View : /\ w.flags[x].attached = u.flags[x].attached
                         /\ w.flags[x].inserted = u.flags[x].inserted
                         /\ w.flags[x].child = u.flags[x].child
                         /\ w.flags[x].consumer = u.flags[x].consumer
                         /\ x # v => w.flags[x].refresh = u.flags[x].refresh
  BY <1>2, <1>4
<1> QED BY <1>3, <1>5

\* Where user code runs, the innermost call may make another.
LEMMA ActsIs ==
    ASSUME StackOK(stack), Acts
    PROVE  /\ stack # <<>> => Top.kind # "while"
           /\ \A r \in View : ~Fresh(r)
BY DEF Acts, InView, Loop, PassEnds, TickFrame, Fresh

\* detectChanges() and tick() are called.
LEMMA CallKeeps ==
    ASSUME Held, Acts, NEW f, FrameOK(f), f.kind \in {"while", "tick"}, NEW v \in View,
           f.kind = "while" => /\ f.view = v /\ f.runs = 0
                               /\ ui' = [ui EXCEPT !.flags[v].refresh = TRUE],
           f.kind = "tick" => TickAt = {} /\ ui' = ui /\ ~f.scheduled,
           stack' = Append(stack, f), UNCHANGED <<views, content, aborted, skipped>>
    PROVE  /\ Held' /\ (HasSched(stack') <=> HasSched(stack)) /\ SameTasks(ui, ui')
           /\ \A r \in Root : Requires(ui', r) => Requires(ui, r) \/ Fresh(r)'
<1>1. /\ UiOK(ui) /\ StackOK(stack) /\ FoundBut(ui, content, stack, aborted, skipped)
      /\ stack \in Seq(Frame) /\ f \in Frame /\ Len(stack) \in Nat
  BY LenProperties DEF Held, StackOK, FrameOK
<1>2. /\ UiOK(ui') /\ SameTasks(ui, ui')
      /\ \A x \in View : /\ ui'.flags[x].attached = ui.flags[x].attached
                         /\ ui'.flags[x].inserted = ui.flags[x].inserted
                         /\ ui'.flags[x].child = ui.flags[x].child
                         /\ ui'.flags[x].consumer = ui.flags[x].consumer
                         /\ x # v => ui'.flags[x].refresh = ui.flags[x].refresh
      /\ f.kind = "tick" => ui'.flags[v].refresh = ui.flags[v].refresh
  <2>1. CASE f.kind = "tick"
    <3>1. ui' = ui BY <2>1
    <3> QED BY <1>1, <3>1 DEF SameTasks
  <2>2. CASE f.kind = "while"
    <3> DEFINE w == [ui EXCEPT !.flags[v].refresh = TRUE]
    <3>1. ui' = w BY <2>2
    <3>2. /\ UiOK(w) /\ SameTasks(ui, w)
          /\ \A x \in View : /\ w.flags[x].attached = ui.flags[x].attached
                             /\ w.flags[x].inserted = ui.flags[x].inserted
                             /\ w.flags[x].child = ui.flags[x].child
                             /\ w.flags[x].consumer = ui.flags[x].consumer
                             /\ x # v => w.flags[x].refresh = ui.flags[x].refresh
      BY <1>1, RefreshSet
    <3> HIDE DEF w
    <3> QED BY <2>2, <3>1, <3>2
  <2> QED BY <2>1, <2>2
<1>3. FoundBut(ui', content, stack', aborted, skipped) BY <1>1, <1>2, FoundCall
<1>4. StackOK(stack')
  <2>1. stack # <<>> => Above(stack[Len(stack)], f)
    BY <1>1, ActsIs DEF Above, Viewed, Top
  <2>2. f.kind = "tick" => \A i \in 1..Len(stack) : stack[i].kind # "tick"
    BY <1>1, LenProperties DEF TickAt
  <2> QED BY <1>1, <2>1, <2>2, StackPush
<1>5. HasSched(stack') <=> HasSched(stack)
  <2>1. ~(f.kind = "tick" /\ f.scheduled) OBVIOUS
  <2> QED BY <1>1, <2>1, SchedPush
<1>6. ASSUME NEW r \in Root, Requires(ui', r) PROVE Requires(ui, r) \/ Fresh(r)'
  <2>1. r \in View BY ViewTree
  <2>2. CASE r # v \/ f.kind = "tick" BY <1>2, <1>6, <2>1, <2>2 DEF Requires
  <2>3. CASE r = v /\ f.kind = "while"
    <3>1. Len(stack') = Len(stack) + 1 /\ stack'[Len(stack) + 1] = f /\ stack' # <<>>
      <4>1. stack' \in Seq(Frame) /\ Len(stack') = Len(stack) + 1
            /\ stack'[Len(stack) + 1] = f
        BY <1>1, PushIs
      <4>2. Len(stack') # 0 BY <1>1, <4>1
      <4> QED BY <4>1, <4>2, EmptySeq
    <3> QED BY <2>3, <3>1 DEF Fresh, Top
  <2> QED BY <2>2, <2>3
<1>7. ContentOK(ui', content)
  <2>1. Kept(ui, ui') BY <1>2 DEF Kept
  <2> QED BY <2>1, KeptContent DEF Held
<1> QED BY <1>2, <1>3, <1>4, <1>5, <1>6, <1>7 DEF Held

LEMMA DetectKeeps ==
    ASSUME Held, NEW v \in View, DetectChanges(v)
    PROVE  /\ Held' /\ (HasSched(stack') <=> HasSched(stack)) /\ SameTasks(ui, ui')
           /\ \A r \in Root : Requires(ui', r) => Requires(ui, r) \/ Fresh(r)'
<1> DEFINE f == [Call EXCEPT !.view = v]
<1>1. FrameOK(f) /\ f.kind = "while" /\ f.view = v /\ f.runs = 0 BY DetectCallIs
<1>2. /\ Acts /\ stack' = Append(stack, f) /\ ui' = [ui EXCEPT !.flags[v].refresh = TRUE]
      /\ UNCHANGED <<views, content, aborted, skipped>>
  BY DEF DetectChanges
<1> HIDE DEF f
<1> QED BY <1>1, <1>2, CallKeeps

LEMMA TickKeeps ==
    ASSUME Held, Tick
    PROVE  /\ Held' /\ (HasSched(stack') <=> HasSched(stack)) /\ SameTasks(ui, ui')
           /\ \A r \in Root : Requires(ui', r) => Requires(ui, r) \/ Fresh(r)'
<1> DEFINE f == [Call EXCEPT !.kind = "tick"]
<1>1. FrameOK(f) /\ f.kind = "tick" /\ ~f.scheduled BY TickByUserIs
<1>2. /\ Acts /\ stack' = Append(stack, f) /\ ui' = ui /\ TickAt = {}
      /\ UNCHANGED <<views, content, aborted, skipped>>
  BY DEF Tick
<1>3. Listener \in View BY ViewTree
<1> HIDE DEF f
<1> QED BY <1>1, <1>2, <1>3, CallKeeps

LEMMA TickViewKeeps ==
    ASSUME Held, TickView
    PROVE  /\ Held' /\ (HasSched(stack') <=> HasSched(stack)) /\ SameTasks(ui, ui')
           /\ \A r \in Root : Requires(ui', r) => Requires(ui, r) \/ Fresh(r)'
<1> DEFINE v == views[Top.pos + 1]
           on == [Top EXCEPT !.pos = @ + 1]
           first == Top.runs = 0
           mode == IF first \/ ui.flags[v].dirty THEN "Global" ELSE "Targeted"
           f == [Call EXCEPT !.view = v, !.mode = mode]
           base == Step(on)
<1>1. /\ UiOK(ui) /\ StackOK(stack) /\ FoundBut(ui, content, stack, aborted, skipped)
      /\ stack # <<>>
      /\ Top.kind = "tick" /\ Top.pos < Len(views) /\ views \in Seq(Root)
      /\ UNCHANGED <<views, content, aborted, skipped>> /\ aborted \subseteq View
  BY DEF Held, TickView, TickFrame
<1>2. FrameOK(Top) /\ Top \in Frame /\ Top.view = None /\ Top.pos \in Nat
  BY <1>1, TopIs, FrameIs DEF FrameOK
<1>3. v \in Root /\ v \in View
  <2>1. Top.pos + 1 \in 1..Len(views) BY <1>1, <1>2, LenProperties
  <2> QED BY <1>1, <2>1, ElementOfSeq, ViewTree
<1>4. FrameOK(f) /\ f.kind = "while" /\ f.view = v /\ f.runs = 0
  <2>1. mode \in {"Global", "Targeted"} OBVIOUS
  <2> HIDE DEF v, mode
  <2> QED BY <1>3, <2>1, CallIs
<1>5. on \in Frame /\ on.kind = Top.kind /\ on.view = Top.view /\ on.scheduled = Top.scheduled
  BY <1>2 DEF Frame
<1>6. /\ \/ stack' = base /\ ui' = ui
         \/ /\ stack' = Append(base, f)
            /\ ui' = ui \/ ui' = [ui EXCEPT !.flags[v].refresh = TRUE]
  BY DEF TickView
<1> HIDE DEF v, on, f, first, mode
<1>7. FrameOK(on) BY <1>1, <1>2, <1>5 DEF FrameOK, Viewed
<1>8. None \notin View BY ViewTree
<1>9. /\ StackOK(base) /\ FoundBut(ui, content, base, aborted, skipped) /\ base # <<>>
      /\ Len(base) = Len(stack) /\ base[Len(stack)] = on
  BY <1>1, <1>2, <1>5, <1>7, <1>8, GoesOn
<1>10. HasSched(base) <=> HasSched(stack) BY <1>1, <1>5, SchedStep
<1> HIDE DEF base
<1>11. CASE stack' = base /\ ui' = ui
  BY <1>1, <1>9, <1>10, <1>11 DEF Held, SameTasks
<1>12. CASE /\ stack' = Append(base, f)
            /\ ui' = ui \/ ui' = [ui EXCEPT !.flags[v].refresh = TRUE]
  <2>1. /\ UiOK(ui') /\ SameTasks(ui, ui')
        /\ \A x \in View : /\ ui'.flags[x].attached = ui.flags[x].attached
                           /\ ui'.flags[x].inserted = ui.flags[x].inserted
                           /\ ui'.flags[x].child = ui.flags[x].child
                           /\ ui'.flags[x].consumer = ui.flags[x].consumer
                           /\ x # v => ui'.flags[x].refresh = ui.flags[x].refresh
    <3>1. CASE ui' = ui BY <1>1, <3>1 DEF SameTasks
    <3>2. CASE ui' = [ui EXCEPT !.flags[v].refresh = TRUE]
      <4> DEFINE w == [ui EXCEPT !.flags[v].refresh = TRUE]
      <4>1. ui' = w BY <3>2
      <4>2. /\ UiOK(w) /\ SameTasks(ui, w)
            /\ \A x \in View : /\ w.flags[x].attached = ui.flags[x].attached
                               /\ w.flags[x].inserted = ui.flags[x].inserted
                               /\ w.flags[x].child = ui.flags[x].child
                               /\ w.flags[x].consumer = ui.flags[x].consumer
                               /\ x # v => w.flags[x].refresh = ui.flags[x].refresh
        BY <1>1, <1>3, RefreshSet
      <4> HIDE DEF w
      <4> QED BY <4>1, <4>2
    <3> QED BY <1>12, <3>1, <3>2
  <2>2. FoundBut(ui', content, stack', aborted, skipped)
    BY <1>1, <1>3, <1>4, <1>9, <1>12, <2>1, FoundCall
  <2>3. Above(base[Len(base)], f) BY <1>1, <1>4, <1>5, <1>9 DEF Above, Viewed
  <2>4. StackOK(stack') BY <1>4, <1>9, <1>12, <2>3, StackPush
  <2>5. f \in Frame /\ base \in Seq(Frame) BY <1>4, <1>9 DEF FrameOK, StackOK
  <2>6. HasSched(stack') <=> HasSched(base) BY <1>4, <1>9, <1>12, <2>5, SchedPush
  <2>7. ASSUME NEW r \in Root, Requires(ui', r) PROVE Requires(ui, r) \/ Fresh(r)'
    <3>1. r \in View BY ViewTree
    <3>2. CASE r # v BY <2>1, <2>7, <3>1, <3>2 DEF Requires
    <3>3. CASE r = v
      <4>1. Len(stack') = Len(base) + 1 /\ stack'[Len(base) + 1] = f /\ stack' # <<>>
        BY <1>12, <2>5, PushIs, LenProperties
      <4> QED BY <1>4, <3>3, <4>1 DEF Fresh, Top
    <3> QED BY <3>2, <3>3
  <2>8. ContentOK(ui', content)
    <3>1. Kept(ui, ui') BY <2>1 DEF Kept
    <3> QED BY <3>1, KeptContent DEF Held
  <2> QED BY <1>1, <1>10, <2>1, <2>2, <2>4, <2>6, <2>7, <2>8 DEF Held
<1> QED BY <1>6, <1>11, <1>12

LEMMA TickEndsKeeps ==
    ASSUME Held, TickEnds
    PROVE  Held'
<1>1. /\ UiOK(ui) /\ StackOK(stack) /\ stack # <<>> /\ Top.kind = "tick"
      /\ Finish(Top, ui, Again, ops) /\ stack' = Callers
      /\ UNCHANGED <<views, content, aborted, skipped>>
  BY DEF Held, TickEnds, PassEnds, TickFrame
<1>2. UiOK(ui') /\ Grown(ui, ui', {}) /\ Kept(ui, ui') BY <1>1, FinishIs
<1>3. FoundBut(ui', content, stack, aborted, skipped) BY <1>1, <1>2, FoundGrown DEF Held
<1>4. Top.view \notin View BY <1>1, TopIs, ViewTree DEF FrameOK
<1>5. StackOK(Callers) /\ FoundBut(ui', content, Callers, aborted, skipped)
  BY <1>1, <1>3, <1>4, Returns
<1>6. ContentOK(ui', content) BY <1>2, KeptContent DEF Held
<1> QED BY <1>1, <1>2, <1>5, <1>6 DEF Held

LEMMA TimerKeeps ==
    ASSUME Held, TimerFires
    PROVE  Held'
<1> DEFINE fired == [ui EXCEPT !.timers = @ - 1]
           tick == [Call EXCEPT !.kind = "tick", !.scheduled = TRUE]
<1>1. /\ UiOK(ui) /\ StackOK(stack) /\ FoundBut(ui, content, stack, aborted, skipped)
      /\ stack = <<>>
      /\ UNCHANGED <<views, content, aborted, skipped>>
  BY DEF Held, TimerFires
<1>2. UiOK(fired) /\ Grown(ui, fired, {}) /\ Kept(ui, fired)
  <2> DEFINE n == ui.timers - 1
  <2>1. fired.flags = ui.flags
        /\ fired = [flags |-> fired.flags, task |-> fired.task, timers |-> fired.timers,
                    tasks |-> fired.tasks]
    <3>1. fired = [ui EXCEPT !.timers = n] OBVIOUS
    <3> HIDE DEF n, fired
    <3>2. ui = [flags |-> ui.flags, task |-> ui.task, timers |-> ui.timers, tasks |-> ui.tasks]
      BY <1>1 DEF UiOK
    <3>3. fired = [flags |-> ui.flags, task |-> ui.task, timers |-> n, tasks |-> ui.tasks]
      BY <3>1, <3>2
    <3> QED BY <3>3
  <2> HIDE DEF fired
  <2> QED BY <1>1, <2>1, TasksSet
<1>3. \/ Finish(tick, fired, FALSE, ops) /\ stack' = <<>>
      \/ ui' = fired /\ stack' = <<tick>>
  BY DEF TimerFires
<1>4. FrameOK(tick) /\ tick.kind = "tick" BY TickCallIs
<1>5. \A x \in View : ui.flags[x] = fired.flags[x] BY <1>1 DEF UiOK
<1> HIDE DEF fired, tick
<1>6. CASE Finish(tick, fired, FALSE, ops) /\ stack' = <<>>
  <2>1. UiOK(ui') /\ Grown(fired, ui', {}) /\ Kept(fired, ui') BY <1>2, <1>6, FinishIs
  <2>2. Grown(ui, ui', {}) BY <1>1, <1>2, <2>1, GrownTrans
  <2>3. FoundBut(ui', content, stack, aborted, skipped) BY <1>1, <2>1, <2>2, FoundGrown
  <2>4. Kept(ui, ui') BY <1>2, <2>1 DEF Kept
  <2>5. ContentOK(ui', content) BY <2>4, KeptContent DEF Held
  <2> QED BY <1>1, <1>6, <2>1, <2>3, <2>5 DEF Held
<1>7. CASE ui' = fired /\ stack' = <<tick>>
  <2>1. tick \in Frame /\ <<tick>> = Append(<<>>, tick) BY <1>4 DEF FrameOK
  <2>2. stack' = Append(stack, tick) BY <1>1, <1>7, <2>1
  <2>3. Listener \in View BY ViewTree
  <2>4. FoundBut(ui', content, stack', aborted, skipped)
    <3>1. \A x \in View : ui'.flags[x] = ui.flags[x] BY <1>5, <1>7
    <3>2. UiOK(ui') BY <1>2, <1>7
    <3>3. FoundBut(ui', content, Append(stack, tick), aborted, skipped)
      BY <1>1, <1>4, <2>3, <3>1, <3>2, FoundCall
    <3> QED BY <2>2, <3>3
  <2>5. StackOK(stack')
    <3>1. \A i \in 1..Len(stack) : FALSE BY <1>1
    <3> QED BY <1>1, <1>4, <2>2, <3>1, StackPush
  <2>6. ContentOK(ui', content) BY <1>2, <1>7, KeptContent DEF Held
  <2> QED BY <1>1, <1>2, <1>7, <2>4, <2>5, <2>6 DEF Held
<1> QED BY <1>3, <1>6, <1>7

LEMMA ErrorsKeep ==
    ASSUME Held, WhileGivesUp \/ CodeThrows
    PROVE  Held'
<1>1. CASE WhileGivesUp
  <2>1. stack # <<>> /\ Top.runs > MaxReruns /\ Throw(ops) BY <1>1 DEF WhileGivesUp, WhileFrame
  <2>2. Top \in Frame BY <2>1, TopIs DEF Held
  <2>3. Top.runs > 0 BY <2>1, <2>2, ViewTree DEF Frame
  <2> QED BY <2>1, <2>3, ThrowKeeps
<1>2. CASE CodeThrows
  <2>1. stack # <<>> /\ Top.kind # "while" /\ Throw(ops + 1)
    BY <1>2 DEF CodeThrows, InView, Loop
  <2> QED BY <2>1, ThrowKeeps
<1> QED BY <1>1, <1>2

LEMMA HeldAtFirst ==
    ASSUME Init
    PROVE  Held
<1> DEFINE flags == [v \in View |-> [attached |-> TRUE, inserted |-> TRUE,
                        dirty |-> FALSE, refresh |-> FALSE, child |-> FALSE,
                        consumer |-> IF v \in Reads THEN "clean" ELSE "none"]]
           u == [flags |-> flags, task |-> None, timers |-> 0, tasks |-> NoTasks]
<1>1. UiOK(u) BY DEF UiOK, Flags
<1>2. \A v \in View : ~u.flags[v].refresh /\ ~u.flags[v].child /\ u.flags[v].consumer # "dirty"
  OBVIOUS
<1>3. /\ ui = Schedule(u) /\ views = SetToSeq(Root) /\ stack = <<>>
      /\ content = [c \in Container |-> SetToSeq({e \in Embedded : In[e] = c})]
      /\ aborted = {} /\ skipped = {}
  BY DEF Init
<1> HIDE DEF u
<1>4. UiOK(ui) /\ ui.flags = u.flags BY <1>1, <1>3, ScheduleIs
<1>5. \A v \in View : ~Requires(ui, v) BY <1>2, <1>4 DEF Requires
<1>6. StackOK(<<>>)
  <2>1. <<>> \in Seq(Frame) /\ Len(<<>>) = 0 OBVIOUS
  <2> QED BY <2>1 DEF StackOK
<1>7. FoundBut(ui, content, stack, aborted, skipped)
  <2>1. \A m \in 2..Len(<<>>) : FALSE OBVIOUS
  <2> QED BY <1>3, <1>5, <2>1 DEF FoundBut, Found, Chained
<1>8. views \in Seq(Root)
  <2>1. IsFiniteSet(Root) BY ViewTree, FS_Subset
  <2> QED BY <1>3, <2>1, SetToSeqIs
<1>9. ContentOK(ui, content)
  <2>1. ASSUME NEW c \in Container
        PROVE  content[c] \in Seq(Embedded) /\ ToSet(content[c]) = {e \in Embedded : In[e] = c}
    <3> DEFINE S == {e \in Embedded : In[e] = c}
    <3>1. IsFiniteSet(S) BY ViewTree, FS_Subset
    <3>2. S \subseteq Embedded OBVIOUS
    <3>3. content[c] = SetToSeq(S) BY <1>3
    <3> HIDE DEF S
    <3>4. content[c] \in Seq(S) /\ ToSet(content[c]) = S BY <3>1, <3>3, SetToSeqIs
    <3>5. content[c] \in Seq(Embedded) BY <3>2, <3>4, SeqMonotonic
    <3> QED BY <3>4, <3>5 DEF S
  <2>2. content \in [Container -> Seq(Embedded)] BY <1>3, <2>1
  <2>3. \A e \in Embedded : In[e] \in Container BY DEF Container
  <2> QED BY <2>1, <2>2, <2>3 DEF ContentOK
<1> QED BY <1>3, <1>4, <1>6, <1>7, <1>8, <1>9 DEF Held

LEMMA HeldStays ==
    ASSUME Held, [Next]_vars
    PROVE  Held'
<1>1. CASE UNCHANGED vars
  BY <1>1 DEF vars, Held, UiOK, StackOK, FoundBut, Found, Chained, Hangs, Requires, ParentIn,
              AwaitedIn, Going, ContentOK
<1>2. CASE VisitChild BY <1>2, VisitChildKeeps
<1>3. CASE CodeReturns BY <1>3, CodeReturnsKeeps
<1>4. CASE Refreshed \/ Traversed BY <1>4, RefreshedKeeps
<1>5. CASE WhileDirty BY <1>5, WhileDirtyKeeps
<1>6. CASE WhileDone BY <1>6, WhileDoneKeeps
<1>7. CASE WhileGivesUp \/ CodeThrows BY <1>7, ErrorsKeep
<1>8. CASE TickView BY <1>8, TickViewKeeps
<1>9. CASE TickRendered \/ TickAgain BY <1>9, TickGoesOnKeeps
<1>10. CASE TickEnds BY <1>10, TickEndsKeeps
<1>11. CASE TimerFires BY <1>11, TimerKeeps
<1>12. CASE OtherAdds \/ OtherRemoves \/ Destroy BY <1>12, TasksKeep
<1>13. CASE \E v \in View : Marks(v) \/ Detach(v) \/ Reattach(v) BY <1>13, FlagsKeep
<1>14. CASE \E v \in View : DetectChanges(v) BY <1>14, DetectKeeps
<1>15. CASE \E r \in Root : AttachView(r) \/ DetachView(r) BY <1>15, RootsKeep
<1>16. CASE Tick BY <1>16, TickKeeps
<1>17. CASE VisitEmbedded BY <1>17, VisitEmbeddedKeeps
<1>18. CASE ContainerDone BY <1>18, ContainerDoneKeeps
<1>19. CASE \E e \in Embedded : InsertView(e) \/ RemoveView(e)
  BY <1>19, InsertKeeps, RemoveKeeps
<1> QED BY <1>1, <1>2, <1>3, <1>4, <1>5, <1>6, <1>7, <1>8, <1>9, <1>10, <1>11, <1>12, <1>13,
           <1>14, <1>15, <1>16, <1>17, <1>18, <1>19 DEF Next, System, User

(* view_utils.ts:227: in every state a view that is attached and has to be refreshed or
   traversed is found from its parent, which is marked or about to visit it, or was
   left behind by an exception; or a loop over its container stepped over it. *)
THEOREM StaysReachable == Spec => []Reachable
<1>1. Held => Reachable
  <2> SUFFICES ASSUME Held, NEW v \in View,
                      ui.flags[v].attached, Up(v) # None, Requires(ui, v)
               PROVE  ui.flags[Up(v)].child \/ Awaited(v) \/ Up(v) \in aborted \/ v \in skipped
    BY DEF Reachable
  <2>1. UiOK(ui) /\ Hangs(ui, v) BY DEF Held, Hangs, Up
  <2>2. Up(v) = Parent[v] BY <2>1, HangsIs DEF Up
  <2>3. \/ ui.flags[Parent[v]].child \/ AwaitedIn(content, stack, v)
        \/ Parent[v] \in aborted \/ v \in skipped
    BY <2>1 DEF Held, FoundBut, Found
  <2>4. AwaitedIn(content, stack, v) => Awaited(v)
    <3>1. DOMAIN stack = 1..Len(stack) BY LenProperties DEF Held, StackOK
    <3>2. \A f : Going(content, f, v) => Visits(f, v) BY DEF Going, Visits
    <3> QED BY <2>2, <3>1, <3>2 DEF Awaited, AwaitedIn
  <2> QED BY <2>2, <2>3, <2>4
<1> QED BY <1>1, HeldAtFirst, HeldStays, PTL DEF Spec

-----------------------------------------------------------------------------
(* Tasks. *)

Running(st) == IF HasSched(st) THEN 1 ELSE 0

TaskTypes(u, o) ==
    /\ u.task \in TaskId \cup {None} /\ u.timers \in Nat /\ u.tasks \in PendingTasksType
    /\ o \in TaskId \cup {None}

(* The tasks are those of the scheduler and of the other service; the scheduler's
   has one timer, or one tick, of which n are in progress. *)
TaskOK(u, o, n) ==
    /\ TaskTypes(u, o)
    /\ u.tasks.pending = {u.task, o} \ {None}
    /\ u.tasks.has <=> u.tasks.pending # {}
    /\ u.task = o => u.task = None
    /\ u.timers + n = IF u.task = None THEN 0 ELSE 1

LEMMA TaskOKSame ==
    ASSUME NEW u, NEW w, NEW o, NEW n, TaskOK(u, o, n), SameTasks(u, w)
    PROVE  TaskOK(w, o, n)
BY DEF TaskOK, TaskTypes, SameTasks

LEMMA NewTaskIs ==
    ASSUME NEW t, NEW id \in TaskId \cup {None}, t.pending \subseteq {id}
    PROVE  NewTask(t) \in TaskId /\ NewTask(t) \notin t.pending /\ NewTask(t) # None
<1>1. \E a \in TaskId : a \notin t.pending BY ViewTree
<1> QED BY <1>1, ViewTree DEF NewTask

LEMMA ScheduleTasks ==
    ASSUME NEW u, UiOK(u), NEW o, NEW n \in Nat, TaskOK(u, o, n), u.task = None
    PROVE  TaskOK(Schedule(u), o, n) /\ Schedule(u).task # None
<1> DEFINE id == NewTask(u.tasks)
           w == Schedule(u)
<1>1. /\ u.timers \in Nat /\ u.tasks \in PendingTasksType /\ o \in TaskId \cup {None}
      /\ u.tasks.pending = {o} \ {None} /\ u.timers + n = 0
  BY DEF TaskOK, TaskTypes
<1>2. id \in TaskId /\ id \notin u.tasks.pending /\ id # None BY <1>1, NewTaskIs
<1> HIDE DEF id
<1>3. w.task = id /\ w.timers = u.timers + 1 /\ w.tasks = Added(u.tasks, id)
  BY ScheduleIs DEF id
<1> HIDE DEF w
<1>4. /\ w.tasks = [pending |-> u.tasks.pending \cup {id}, has |-> TRUE]
      /\ w.tasks.pending = u.tasks.pending \cup {id} /\ w.tasks.has
  BY <1>3 DEF Added
<1>5. w.tasks \in PendingTasksType
  <2>1. u.tasks.pending \in SUBSET TaskId BY <1>1 DEF PendingTasksType
  <2>2. u.tasks.pending \cup {id} \in SUBSET TaskId BY <1>2, <2>1
  <2> QED BY <1>4, <2>2 DEF PendingTasksType
<1>6. w.timers + n = 1 /\ w.timers \in Nat
  <2> DEFINE t == u.timers
  <2>1. t \in Nat /\ t + n = 0 BY <1>1
  <2>2. w.timers = t + 1 BY <1>3
  <2> HIDE DEF t
  <2>3. t + 1 \in Nat /\ (t + 1) + n = 1 BY <2>1
  <2> QED BY <2>2, <2>3
<1>7. TaskOK(w, o, n) BY <1>1, <1>2, <1>3, <1>4, <1>5, <1>6 DEF TaskOK, TaskTypes
<1> QED BY <1>2, <1>3, <1>7 DEF w

LEMMA CalmTasks ==
    ASSUME NEW u, UiOK(u), NEW w, NEW o, NEW n \in Nat, TaskOK(u, o, n), Calm(u, w)
    PROVE  /\ TaskOK(w, o, n)
           /\ w.task = None
                => u.task = None /\ \A r \in Root : Requires(w, r) => Requires(u, r)
<1>1. CASE SameTasks(u, w) /\ (u.task = None => \A r \in Root : Requires(w, r) => Requires(u, r))
  BY <1>1, TaskOKSame DEF SameTasks
<1>2. CASE u.task = None /\ SameTasks(Schedule(u), w)
  <2>1. TaskOK(Schedule(u), o, n) /\ Schedule(u).task # None BY <1>2, ScheduleTasks
  <2> QED BY <1>2, <2>1, TaskOKSame DEF SameTasks
<1> QED BY <1>1, <1>2 DEF Calm

LEMMA LoudTasks ==
    ASSUME NEW u, UiOK(u), NEW w, NEW o, NEW n \in Nat, TaskOK(u, o, n), Loud(u, w)
    PROVE  TaskOK(w, o, n) /\ w.task # None
<1>1. TaskOK(w, o, n) BY LoudIsCalm, CalmTasks
<1>2. CASE u.task # None /\ SameTasks(u, w) BY <1>1, <1>2 DEF SameTasks
<1>3. CASE u.task = None /\ SameTasks(Schedule(u), w)
  BY <1>1, <1>3, ScheduleTasks DEF SameTasks
<1> QED BY <1>1, <1>2, <1>3 DEF Loud

LEMMA HeardTasks ==
    ASSUME ~HearsUnstable, NEW u, UiOK(u), NEW o, NEW k \in Nat, TaskOK(u, o, k),
           NEW n, NEW w \in Heard(u, n)
    PROVE  TaskOK(w, o, k) /\ (w = u \/ w.task # None)
<1>1. Listener \in View BY ViewTree
<1>2. w = u \/ w = MarkDirty(u, Listener) \/ w = SignalChanges(u, Listener) BY DEF Heard
<1>3. CASE w = u BY <1>3
<1>4. CASE w = MarkDirty(u, Listener) BY <1>1, <1>4, MarkDirtyEffect, LoudTasks
<1>5. CASE w = SignalChanges(u, Listener)
  <2>1. Loud(u, w) \/ w = u BY <1>1, <1>5, SignalEffect
  <2> QED BY <2>1, LoudTasks
<1> QED BY <1>2, <1>3, <1>4, <1>5

\* A task of the two that there may be is removed.
LEMMA RemoveTasks ==
    ASSUME ~HearsUnstable, NEW u, UiOK(u), NEW id, NEW o, NEW k \in Nat, NEW n \in 0..MaxOps,
           u.tasks \in PendingTasksType,
           TaskOK([u EXCEPT !.tasks = Removed(@, id)], o, k), RemoveTask(u, id, n)
    PROVE  /\ TaskOK(ui', o, k) /\ ops' \in 0..MaxOps
           /\ ui'.task = None => \A v \in View : Requires(ui', v) <=> Requires(u, v)
<1> DEFINE left == Removed(u.tasks, id)
           gone == [u EXCEPT !.tasks = left]
<1>1. gone.flags = u.flags
      /\ gone = [flags |-> gone.flags, task |-> gone.task, timers |-> gone.timers,
                 tasks |-> gone.tasks]
  <2> HIDE DEF left
  <2> QED BY DEF UiOK
<1>2. /\ ui' \in Heard(gone, n) /\ ops' = IF ui' = gone THEN n ELSE n + 1
      /\ TaskOK(gone, o, k)
  BY DEF RemoveTask, Heard
<1> HIDE DEF gone
<1>3. /\ UiOK(gone) /\ \A v \in View : Requires(gone, v) <=> Requires(u, v)
  BY <1>1, TasksSet
<1>4. TaskOK(ui', o, k) /\ (ui' = gone \/ ui'.task # None) BY <1>2, <1>3, HeardTasks
<1>5. ui' # gone => n < MaxOps BY <1>2 DEF Heard
<1>6. ops' \in 0..MaxOps BY <1>2, <1>5, ViewTree
<1> QED BY <1>3, <1>4, <1>6

LEMMA RemovedIs ==
    ASSUME NEW t \in PendingTasksType, NEW id
    PROVE  /\ Removed(t, id) \in PendingTasksType
           /\ Removed(t, id).pending = t.pending \ {id}
           /\ (t.has <=> t.pending # {})
                => (Removed(t, id).has <=> Removed(t, id).pending # {})
<1>1. t.pending \in SUBSET TaskId /\ t.has \in BOOLEAN BY DEF PendingTasksType
<1> DEFINE b == t.has /\ t.pending \ {id} # {}
<1>2. b \in BOOLEAN BY <1>1
<1>3. Removed(t, id) = [pending |-> t.pending \ {id}, has |-> b] BY DEF Removed
<1>4. b <=> (t.has /\ t.pending \ {id} # {}) OBVIOUS
<1> HIDE DEF b
<1> QED BY <1>1, <1>2, <1>3, <1>4 DEF PendingTasksType

\* A tick ends.
LEMMA FinishTasks ==
    ASSUME ~HearsUnstable, NEW f, NEW u, UiOK(u), NEW error \in BOOLEAN, NEW n \in 0..MaxOps,
           NEW o, TaskOK(u, o, IF f.scheduled THEN 1 ELSE 0), failed \in BOOLEAN,
           Finish(f, u, error, n)
    PROVE  /\ TaskOK(ui', o, 0) /\ ops' \in 0..MaxOps /\ failed' \in BOOLEAN
           /\ ui'.task = None => \A v \in View : Requires(ui', v) <=> Requires(u, v)
           /\ f.scheduled /\ error => failed'
           /\ ~f.scheduled => ui' = u /\ (failed' = failed \/ ~error)
<1>1. failed' = IF f.scheduled \/ ~error THEN error ELSE failed BY DEF Finish
<1>2. CASE ~f.scheduled
  <2>1. ui' = u /\ ops' = n BY <1>2 DEF Finish
  <2>2. TaskOK(u, o, 0) BY <1>2
  <2> QED BY <1>1, <1>2, <2>1, <2>2
<1>3. CASE f.scheduled
  <2> DEFINE a == [u EXCEPT !.task = None]
             left == Removed(u.tasks, u.task)
             gone == [a EXCEPT !.tasks = left]
  <2>1. /\ a.flags = u.flags /\ a.task = None /\ a.timers = u.timers /\ a.tasks = u.tasks
        /\ a = [flags |-> a.flags, task |-> a.task, timers |-> a.timers, tasks |-> a.tasks]
    BY DEF UiOK
  <2>2. RemoveTask(a, u.task, n) BY <1>3 DEF Finish
  <2> HIDE DEF a
  <2>3. UiOK(a) /\ \A v \in View : Requires(a, v) <=> Requires(u, v) BY <2>1, TasksSet
  <2>4. TaskOK(u, o, 1) BY <1>3
  <2>5. /\ u.tasks \in PendingTasksType /\ (u.tasks.has <=> u.tasks.pending # {})
        /\ u.tasks.pending = {u.task, o} \ {None} /\ o \in TaskId \cup {None}
        /\ u.timers = 0 /\ u.task # None /\ u.task # o
    BY <2>4 DEF TaskOK, TaskTypes
  <2>6. /\ left \in PendingTasksType /\ left.pending = {o} \ {None}
        /\ left.has <=> left.pending # {}
    BY <2>5, RemovedIs
  <2> HIDE DEF left
  <2>7. /\ gone.task = None /\ gone.timers = 0 /\ gone.tasks = left
    BY <2>1, <2>5
  <2>8. TaskOK(gone, o, 0)
    <3> HIDE DEF gone
    <3> QED BY <2>5, <2>6, <2>7 DEF TaskOK, TaskTypes
  <2>9. gone = [a EXCEPT !.tasks = Removed(@, u.task)] BY <2>1 DEF left
  <2> HIDE DEF gone
  <2>10. /\ TaskOK(ui', o, 0) /\ ops' \in 0..MaxOps
         /\ ui'.task = None => \A v \in View : Requires(ui', v) <=> Requires(a, v)
    BY <2>1, <2>2, <2>3, <2>5, <2>8, <2>9, RemoveTasks
  <2> QED BY <1>1, <1>3, <2>3, <2>10
<1> QED BY <1>2, <1>3

\* A timer fires after the application is destroyed: nobody hears of it.
LEMMA FinishDestroyed ==
    ASSUME destroyed, NEW f, NEW u, UiOK(u), NEW error \in BOOLEAN, NEW n \in 0..MaxOps,
           NEW o, TaskTypes(u, o), failed \in BOOLEAN, Finish(f, u, error, n)
    PROVE  TaskTypes(ui', o) /\ ops' \in 0..MaxOps /\ failed' \in BOOLEAN
<1>1. failed' = IF f.scheduled \/ ~error THEN error ELSE failed BY DEF Finish
<1>2. CASE ~f.scheduled BY <1>1, <1>2 DEF Finish
<1>3. CASE f.scheduled
  <2> DEFINE left == Removed(u.tasks, u.task)
             gone == [[u EXCEPT !.task = None] EXCEPT !.tasks = left]
  <2>1. ui' = gone /\ ops' = n BY <1>3 DEF Finish, RemoveTask, Heard
  <2>2. left \in PendingTasksType BY RemovedIs DEF TaskTypes
  <2> HIDE DEF left
  <2>3. gone.task = None /\ gone.timers = u.timers /\ gone.tasks = left BY DEF UiOK
  <2> HIDE DEF gone
  <2> QED BY <1>1, <2>1, <2>2, <2>3 DEF TaskTypes
<1> QED BY <1>2, <1>3

(* Without a task, no root needs a visit, but for one that is about to get it. *)
Quiet ==
    (ui.task = None /\ ~failed /\ ~destroyed)
      => \A r \in ToSet(views) : Requires(ui, r) => Fresh(r)

Tasks ==
    /\ TaskTypes(ui, other)
    /\ failed \in BOOLEAN /\ destroyed \in BOOLEAN /\ ops \in 0..MaxOps
    /\ ~destroyed => TaskOK(ui, other, Running(stack))
    /\ destroyed => stack = <<>> /\ other = None
    /\ Quiet

LEMMA RootsAre ==
    ASSUME NEW s \in Seq(Root)
    PROVE  ToSet(s) \subseteq Root
<1>1. DOMAIN s = 1..Len(s) BY LenProperties
<1> QED BY <1>1, ElementOfSeq DEF ToSet

\* A step in the middle of which nobody is about to be visited.
LEMMA TasksStep ==
    ASSUME ~HearsUnstable, Held, Tasks, ~destroyed, StaysCalm,
           \A r \in Root : ~Fresh(r), UNCHANGED <<failed, destroyed, other>>,
           ops' \in 0..MaxOps, views' \in Seq(Root),
           \A r \in ToSet(views') : ui'.task = None /\ Requires(ui', r) => r \in ToSet(views)
    PROVE  Tasks'
<1>1. Running(stack) \in Nat /\ Running(stack)' = Running(stack) BY DEF Running, StaysCalm
<1>2. UiOK(ui) /\ TaskOK(ui, other, Running(stack)) /\ Calm(ui, ui')
  BY DEF Held, Tasks, StaysCalm
<1>3. /\ TaskOK(ui', other, Running(stack))
      /\ ui'.task = None
           => ui.task = None /\ \A r \in Root : Requires(ui', r) => Requires(ui, r)
  BY <1>1, <1>2, CalmTasks
<1>4. TaskOK(ui', other', Running(stack')) BY <1>1, <1>3
<1>5. Quiet'
  <2>1. ToSet(views') \subseteq Root BY RootsAre
  <2>2. ASSUME ui'.task = None, ~failed', NEW r \in ToSet(views'), Requires(ui', r)
        PROVE  FALSE
    <3>1. r \in Root /\ r \in ToSet(views) BY <2>1, <2>2
    <3>2. ui.task = None /\ Requires(ui, r) BY <1>3, <2>2, <3>1
    <3> QED BY <2>2, <3>1, <3>2 DEF Tasks, Quiet
  <2> QED BY <2>2 DEF Quiet
<1> QED BY <1>4, <1>5 DEF Tasks, TaskOK

\* A call is made, or a view is visited.
LEMMA TasksCall ==
    ASSUME Held, Tasks, ~destroyed, SameTasks(ui, ui'), HasSched(stack') <=> HasSched(stack),
           UNCHANGED <<failed, destroyed, other, views>>, ops' \in 0..MaxOps,
           \A r \in Root : Requires(ui', r) => (Requires(ui, r) /\ ~Fresh(r)) \/ Fresh(r)'
    PROVE  Tasks'
<1>1. Running(stack)' = Running(stack) BY DEF Running
<1>2. TaskOK(ui', other', Running(stack')) BY <1>1, TaskOKSame DEF Tasks
<1>3. Quiet'
  <2>1. ToSet(views) \subseteq Root BY RootsAre DEF Held
  <2>2. ASSUME ui'.task = None, ~failed', NEW r \in ToSet(views'), Requires(ui', r)
        PROVE  Fresh(r)'
    BY <2>1, <2>2 DEF Tasks, Quiet, SameTasks
  <2> QED BY <2>2 DEF Quiet
<1> QED BY <1>2, <1>3 DEF Tasks, TaskOK

LEMMA NotFresh ==
    ASSUME stack # <<>> => Top.kind # "while" \/ Top.runs > 0
    PROVE  \A r \in Root : ~Fresh(r)
BY DEF Fresh

\* The steps of traversals and ticks that set no root's flags and return nothing.
LEMMA TraversalTasks ==
    ASSUME ~HearsUnstable, Held, Tasks,
           \/ VisitChild \/ VisitEmbedded \/ ContainerDone \/ CodeReturns
           \/ Refreshed \/ Traversed \/ WhileDone
           \/ TickRendered \/ TickAgain
    PROVE  Tasks'
<1>1. StaysCalm /\ Held'
  BY VisitChildKeeps, VisitEmbeddedKeeps, ContainerDoneKeeps, CodeReturnsKeeps, RefreshedKeeps,
     WhileDoneKeeps, TickGoesOnKeeps
<1>2. /\ stack # <<>> /\ UNCHANGED <<views, failed, destroyed, other, ops>>
      /\ Top.kind # "while" \/ Top.runs > 0
  BY DEF VisitChild, VisitEmbedded, ContainerDone, CodeReturns, Refreshed, Traversed,
         WhileDone, TickRendered, TickAgain, Loop, WhileFrame, PassEnds, TickFrame
<1>3. ~destroyed /\ ops' \in 0..MaxOps BY <1>2 DEF Tasks
<1>4. views' \in Seq(Root) BY <1>1 DEF Held
<1> QED BY <1>1, <1>2, <1>3, <1>4, NotFresh, TasksStep

LEMMA ActsTasks ==
    ASSUME Held, Tasks, Acts
    PROVE  /\ ~destroyed /\ ops' \in 0..MaxOps /\ \A r \in Root : ~Fresh(r)
<1>1. ops \in Nat /\ ops < MaxOps /\ ops' = ops + 1 /\ ~destroyed /\ MaxOps \in Nat
  BY ViewTree DEF Acts, Tasks
<1>2. ops' \in 0..MaxOps BY <1>1
<1>3. \A r \in Root : ~Fresh(r) BY ActsIs, ViewTree DEF Held
<1> QED BY <1>1, <1>2, <1>3

LEMMA FlagsTasks ==
    ASSUME ~HearsUnstable, Held, Tasks,
           \/ \E v \in View : Marks(v) \/ Detach(v) \/ Reattach(v)
           \/ \E e \in Embedded : InsertView(e) \/ RemoveView(e)
    PROVE  Tasks'
<1>1. StaysCalm /\ Held' BY FlagsKeep, InsertKeeps, RemoveKeeps
<1>2. Acts /\ UNCHANGED <<views, failed, destroyed, other>>
  BY DEF Marks, Detach, Reattach, InsertView, RemoveView
<1>3. views' \in Seq(Root) BY <1>1 DEF Held
<1> QED BY <1>1, <1>2, <1>3, ActsTasks, TasksStep

LEMMA RootsTasks ==
    ASSUME ~HearsUnstable, Held, Tasks, NEW r \in Root, AttachView(r) \/ DetachView(r)
    PROVE  Tasks'
<1>1. StaysCalm /\ Held' BY RootsKeep
<1>2. Acts /\ UNCHANGED <<failed, destroyed, other>> BY DEF AttachView, DetachView
<1>3. views' \in Seq(Root) /\ views \in Seq(Root) BY <1>1 DEF Held
<1>4. UiOK(ui) /\ TaskOK(ui, other, Running(stack)) /\ Running(stack) \in Nat /\ r \in View
  BY <1>2, ActsTasks, ViewTree DEF Held, Tasks, Running
<1>5. ASSUME NEW q \in ToSet(views'), ui'.task = None, Requires(ui', q)
      PROVE  q \in ToSet(views)
  <2>1. CASE AttachView(r)
    <3>1. ToSet(views') = ToSet(views) \cup {r}
      <4>1. views' = Append(views, r) BY <2>1 DEF AttachView
      <4>2. /\ Len(views') = Len(views) + 1 /\ views'[Len(views) + 1] = r
            /\ \A i \in 1..Len(views) : views'[i] = views[i]
            /\ DOMAIN views = 1..Len(views) /\ DOMAIN views' = 1..Len(views')
            /\ Len(views) \in Nat
        BY <1>3, <4>1, AppendProperties, LenProperties
      <4>3. 1..Len(views') = 1..Len(views) \cup {Len(views) + 1} BY <4>2
      <4> QED BY <4>2, <4>3 DEF ToSet
    <3>2. Loud(ui, ui') \/ (ui' = ui /\ ~Requires(ui, r))
      BY <1>4, <2>1, OnAttachIs DEF AttachView
    <3>3. ~Loud(ui, ui') BY <1>4, <1>5, LoudTasks
    <3> QED BY <1>5, <3>1, <3>2, <3>3
  <2>2. CASE DetachView(r)
    <3>1. PICK i \in DOMAIN views : views' = RemoveAt(views, i) BY <2>2 DEF DetachView
    <3>2. i \in 1..Len(views) BY <1>3, LenProperties
    <3> QED BY <1>3, <1>5, <3>1, <3>2, RemoveAtIs
  <2> QED BY <2>1, <2>2
<1> QED BY <1>1, <1>2, <1>3, <1>5, ActsTasks, TasksStep

LEMMA CallTasks ==
    ASSUME Held, Tasks,
           \/ WhileDirty \/ TickView \/ Tick \/ \E v \in View : DetectChanges(v)
    PROVE  Tasks'
<1>1. CASE WhileDirty
  <2>1. /\ stack # <<>> /\ UNCHANGED <<views, failed, destroyed, other, ops>>
    BY <1>1 DEF WhileDirty, WhileFrame
  <2>2. ~destroyed /\ ops' \in 0..MaxOps BY <2>1 DEF Tasks
  <2>3. /\ SameTasks(ui, ui') /\ (HasSched(stack') <=> HasSched(stack))
        /\ \A r \in Root : Requires(ui', r) => Requires(ui, r) /\ r # Top.view
    BY <1>1, WhileDirtyKeeps
  <2>4. \A r \in Root : Requires(ui', r) => Requires(ui, r) /\ ~Fresh(r) BY <2>3 DEF Fresh
  <2> QED BY <2>1, <2>2, <2>3, <2>4, TasksCall
<1>2. CASE TickView
  <2>1. /\ stack # <<>> /\ UNCHANGED <<views, failed, destroyed, other, ops>>
        /\ Top.kind # "while"
    BY <1>2 DEF TickView, TickFrame
  <2>2. ~destroyed /\ ops' \in 0..MaxOps BY <2>1 DEF Tasks
  <2>3. \A r \in Root : ~Fresh(r) BY <2>1, NotFresh
  <2>4. /\ SameTasks(ui, ui') /\ (HasSched(stack') <=> HasSched(stack))
        /\ \A r \in Root : Requires(ui', r) => Requires(ui, r) \/ Fresh(r)'
    BY <1>2, TickViewKeeps
  <2> QED BY <2>1, <2>2, <2>3, <2>4, TasksCall
<1>3. CASE Tick \/ \E v \in View : DetectChanges(v)
  <2>1. Acts /\ UNCHANGED <<views, failed, destroyed, other>>
    BY <1>3 DEF Tick, DetectChanges
  <2>2. /\ SameTasks(ui, ui') /\ (HasSched(stack') <=> HasSched(stack))
        /\ \A r \in Root : Requires(ui', r) => Requires(ui, r) \/ Fresh(r)'
    BY <1>3, TickKeeps, DetectKeeps
  <2>3. ~destroyed /\ ops' \in 0..MaxOps /\ \A r \in Root : ~Fresh(r) BY <2>1, ActsTasks
  <2> QED BY <2>1, <2>2, <2>3, TasksCall
<1> QED BY <1>1, <1>2, <1>3

\* The one tick that may be in progress is at k.
LEMMA SchedCut ==
    ASSUME StackOK(stack), NEW k \in 0..Len(stack), k > 0 => stack[k].kind = "tick",
           \A i \in 1..Len(stack) : stack[i].kind = "tick" => i = k
    PROVE  /\ HasSched(SubSeq(stack, 1, k)) <=> HasSched(stack)
           /\ k > 0 => /\ HasSched(stack) <=> stack[k].scheduled
                       /\ ~HasSched(SubSeq(stack, 1, k - 1))
<1>1. Len(stack) \in Nat /\ k \in Nat /\ stack \in Seq(Frame) BY LenProperties DEF StackOK
<1>2. /\ Len(SubSeq(stack, 1, k)) = k
      /\ \A i \in 1..k : SubSeq(stack, 1, k)[i] = stack[i] /\ i \in 1..Len(stack)
  BY <1>1, CutIs
<1>3. HasSched(SubSeq(stack, 1, k)) => HasSched(stack) BY <1>2 DEF HasSched
<1>4. HasSched(stack) => k > 0 /\ k \in 1..k /\ stack[k].scheduled BY <1>1 DEF HasSched
<1>5. HasSched(stack) => HasSched(SubSeq(stack, 1, k)) BY <1>2, <1>4 DEF HasSched
<1>6. k > 0 /\ stack[k].scheduled => HasSched(stack)
  <2>1. k > 0 => k \in 1..Len(stack) BY <1>1
  <2> QED BY <2>1 DEF HasSched
<1>7. ASSUME k > 0 PROVE ~HasSched(SubSeq(stack, 1, k - 1))
  <2> DEFINE new == SubSeq(stack, 1, k - 1)
  <2>1. k - 1 \in 0..Len(stack) BY <1>1, <1>7
  <2>2. Len(new) = k - 1 /\ \A i \in 1..(k - 1) : new[i] = stack[i] BY <1>1, <2>1, CutIs
  <2>3. \A i \in 1..(k - 1) : i \in 1..Len(stack) /\ i # k BY <1>1
  <2> HIDE DEF new
  <2>4. ~HasSched(new) BY <2>2, <2>3 DEF HasSched
  <2> QED BY <2>4 DEF new
<1> QED BY <1>3, <1>4, <1>5, <1>6, <1>7

LEMMA TickEndsTasks ==
    ASSUME ~HearsUnstable, Held, Tasks, TickEnds
    PROVE  Tasks'
<1> DEFINE L == Len(stack)
<1>1. /\ UiOK(ui) /\ StackOK(stack) /\ stack # <<>> /\ Top.kind = "tick"
      /\ Finish(Top, ui, Again, ops) /\ stack' = Callers
      /\ UNCHANGED <<views, destroyed, other>>
  BY DEF Held, TickEnds, PassEnds, TickFrame
<1>2. L \in Nat /\ L > 0 /\ L \in 1..L /\ Callers = SubSeq(stack, 1, L - 1) BY <1>1, TopIs DEF Pop
<1>3. /\ ~destroyed /\ failed \in BOOLEAN /\ ops \in 0..MaxOps
      /\ TaskOK(ui, other, Running(stack))
  BY <1>1 DEF Tasks
<1>4. (HasSched(stack) <=> Top.scheduled) /\ ~HasSched(Callers)
  <2>1. \A i \in 1..L : stack[i].kind = "tick" => i = L BY <1>1, <1>2 DEF StackOK, Top
  <2>2. L \in 0..L BY <1>2
  <2> QED BY <1>1, <1>2, <2>1, <2>2, SchedCut DEF Top
<1>5. TaskOK(ui, other, IF Top.scheduled THEN 1 ELSE 0) BY <1>3, <1>4 DEF Running
<1>6. Again \in BOOLEAN BY DEF Again
<1>7. /\ TaskOK(ui', other, 0) /\ ops' \in 0..MaxOps /\ failed' \in BOOLEAN
      /\ ui'.task = None => \A v \in View : Requires(ui', v) <=> Requires(ui, v)
      /\ Top.scheduled /\ Again => failed'
      /\ ~Top.scheduled => ui' = ui /\ (failed' = failed \/ ~Again)
  BY <1>1, <1>3, <1>5, <1>6, FinishTasks
<1>8. TaskOK(ui', other', Running(stack')) BY <1>1, <1>4, <1>7 DEF Running
<1>9. Quiet'
  <2>1. ToSet(views) \subseteq Root /\ Root \subseteq View BY RootsAre, ViewTree DEF Held
  <2>2. \A r \in ToSet(views) : Requires(ui, r) => Again BY DEF ToSet, Again
  <2>3. ASSUME ui'.task = None, ~failed', NEW r \in ToSet(views'), Requires(ui', r)
        PROVE  FALSE
    <3>1. r \in Root /\ r \in View /\ r \in ToSet(views) BY <1>1, <2>1, <2>3
    <3>2. Requires(ui, r) /\ Again BY <1>7, <2>2, <2>3, <3>1
    <3>3. ui' = ui /\ failed' = failed BY <1>7, <2>3, <3>2
    <3>4. ~Fresh(r) BY <1>1 DEF Fresh
    <3> QED BY <1>3, <2>3, <3>1, <3>2, <3>3, <3>4 DEF Tasks, Quiet
  <2> QED BY <2>3 DEF Quiet
<1> QED BY <1>1, <1>3, <1>7, <1>8, <1>9 DEF Tasks, TaskOK

LEMMA ThrowTasks ==
    ASSUME ~HearsUnstable, Held, Tasks, stack # <<>>, Top.kind = "while" => Top.runs > 0,
           NEW n \in 0..MaxOps, Throw(n)
    PROVE  Tasks'
<1> DEFINE L == Len(stack)
           k == IF TickAt = {} THEN 0 ELSE CHOOSE i \in TickAt : TRUE
           S == {stack[j].view : j \in {i \in (k + 1)..L : stack[i].kind = "refresh"}}
           u == Unwound(k + 1)
<1>1. /\ StackOK(stack) /\ UiOK(ui) /\ L \in Nat /\ UNCHANGED <<views, destroyed, other>>
  BY TopIs DEF Held, Throw
<1>2. /\ k \in 0..L /\ (k > 0 => k \in 1..L /\ stack[k].kind = "tick")
      /\ \A i \in 1..L : stack[i].kind = "tick" => i = k
  BY <1>1, TickIs
<1>3. IF k > 0 /\ stack[k].todo = <<>>
      THEN Finish(stack[k], u, TRUE, n) /\ stack' = SubSeq(stack, 1, k - 1)
      ELSE ui' = u /\ ops' = n /\ failed' = failed /\ stack' = SubSeq(stack, 1, k)
  BY DEF Throw
<1>4. u = MarkAncestors(ui, S) BY DEF Unwound
<1> HIDE DEF k
<1>5. S \in SUBSET View
  <2>1. ASSUME NEW i \in (k + 1)..L PROVE stack[i].view \in View
    <3>1. i \in 1..L /\ i # k BY <1>1, <1>2
    <3> QED BY <1>1, <1>2, <3>1 DEF StackOK, FrameOK
  <2> QED BY <2>1
<1>6. /\ ~destroyed /\ failed \in BOOLEAN /\ TaskOK(ui, other, Running(stack))
      /\ Running(stack) \in Nat
  BY DEF Tasks, Running
<1>7. UiOK(u) /\ Calm(ui, u) BY <1>1, <1>4, <1>5, MarkAncestorsEffect DEF Effect
<1>8. S = {} => u = ui BY <1>4 DEF MarkAncestors
<1>9. S # {} => Loud(ui, u) BY <1>1, <1>4, <1>5, MarkAncestorsLoud
<1> HIDE DEF S, u
<1>10. TaskOK(u, other, Running(stack)) BY <1>1, <1>6, <1>7, CalmTasks
<1>11. u = ui \/ u.task # None BY <1>1, <1>6, <1>8, <1>9, LoudTasks
<1>12. /\ HasSched(SubSeq(stack, 1, k)) <=> HasSched(stack)
       /\ k > 0 => /\ HasSched(stack) <=> stack[k].scheduled
                   /\ ~HasSched(SubSeq(stack, 1, k - 1))
  BY <1>1, <1>2, SchedCut
<1>13. ToSet(views) \subseteq Root BY RootsAre DEF Held
<1>14. ASSUME ui.task = None, ~failed, NEW r \in ToSet(views), Requires(ui, r)
       PROVE  FALSE
  <2>1. ~Fresh(r) BY DEF Fresh
  <2> QED BY <1>6, <1>14, <2>1 DEF Tasks, Quiet
<1>15. CASE k > 0 /\ stack[k].todo = <<>>
  <2>1. Finish(stack[k], u, TRUE, n) /\ stack' = SubSeq(stack, 1, k - 1) BY <1>3, <1>15
  <2>2. TaskOK(u, other, IF stack[k].scheduled THEN 1 ELSE 0)
    BY <1>10, <1>12, <1>15 DEF Running
  <2>3. /\ TaskOK(ui', other, 0) /\ ops' \in 0..MaxOps /\ failed' \in BOOLEAN
        /\ stack[k].scheduled => failed'
        /\ ~stack[k].scheduled => ui' = u /\ failed' = failed
    BY <1>6, <1>7, <2>1, <2>2, FinishTasks
  <2>4. TaskOK(ui', other', Running(stack')) BY <1>1, <1>12, <1>15, <2>1, <2>3 DEF Running
  <2>5. Quiet'
    <3>1. ASSUME ui'.task = None, ~failed', NEW r \in ToSet(views'), Requires(ui', r)
          PROVE  FALSE
      <4>1. ui' = ui /\ failed' = failed /\ views' = views BY <1>1, <1>11, <2>3, <3>1
      <4> QED BY <1>14, <3>1, <4>1
    <3> QED BY <3>1 DEF Quiet
  <2> QED BY <1>1, <1>6, <2>3, <2>4, <2>5 DEF Tasks, TaskOK
<1>16. CASE ~(k > 0 /\ stack[k].todo = <<>>)
  <2>1. ui' = u /\ ops' = n /\ failed' = failed /\ stack' = SubSeq(stack, 1, k)
    BY <1>3, <1>16
  <2>2. TaskOK(ui', other', Running(stack')) BY <1>1, <1>10, <1>12, <2>1 DEF Running
  <2>3. Quiet'
    <3>1. ASSUME ui'.task = None, ~failed', NEW r \in ToSet(views'), Requires(ui', r)
          PROVE  FALSE
      <4>1. ui' = ui /\ failed' = failed /\ views' = views BY <1>1, <1>11, <2>1, <3>1
      <4> QED BY <1>14, <3>1, <4>1
    <3> QED BY <3>1 DEF Quiet
  <2> QED BY <1>1, <1>6, <2>1, <2>2, <2>3 DEF Tasks, TaskOK
<1> QED BY <1>15, <1>16

LEMMA ErrorsTasks ==
    ASSUME ~HearsUnstable, Held, Tasks, WhileGivesUp \/ CodeThrows
    PROVE  Tasks'
<1>1. CASE WhileGivesUp
  <2>1. stack # <<>> /\ Top.runs > MaxReruns /\ Throw(ops) BY <1>1 DEF WhileGivesUp, WhileFrame
  <2>2. Top \in Frame BY <2>1, TopIs DEF Held
  <2>3. Top.runs > 0 BY <2>1, <2>2, ViewTree DEF Frame
  <2>4. ops \in 0..MaxOps BY DEF Tasks
  <2> QED BY <2>1, <2>3, <2>4, ThrowTasks
<1>2. CASE CodeThrows
  <2>1. stack # <<>> /\ Top.kind # "while" /\ Throw(ops + 1)
    BY <1>2 DEF CodeThrows, InView, Loop
  <2>2. ops + 1 \in 0..MaxOps BY <1>2, ViewTree DEF Tasks, CodeThrows
  <2> QED BY <2>1, <2>2, ThrowTasks
<1> QED BY <1>1, <1>2

LEMMA TimerTasks ==
    ASSUME ~HearsUnstable, Held, Tasks, TimerFires
    PROVE  Tasks'
<1> DEFINE n == ui.timers - 1
           fired == [ui EXCEPT !.timers = n]
           tick == [Call EXCEPT !.kind = "tick", !.scheduled = TRUE]
<1>1. /\ UiOK(ui) /\ stack = <<>> /\ ui.timers > 0 /\ UNCHANGED <<views, destroyed, other>>
      /\ failed \in BOOLEAN /\ ops \in 0..MaxOps /\ TaskTypes(ui, other)
  BY DEF Held, TimerFires, Tasks
<1>2. IF destroyed THEN Finish(tick, fired, FALSE, ops) /\ stack' = <<>>
                   ELSE ui' = fired /\ stack' = <<tick>> /\ UNCHANGED <<failed, ops>>
  BY DEF TimerFires
<1>3. n \in Nat BY <1>1 DEF TaskTypes
<1> HIDE DEF n
<1>4. /\ fired = [flags |-> ui.flags, task |-> ui.task, timers |-> n, tasks |-> ui.tasks]
  BY <1>1 DEF UiOK
<1>5. FrameOK(tick) /\ tick.kind = "tick" /\ tick.scheduled BY TickCallIs
<1> HIDE DEF fired, tick
<1>6. UiOK(fired) /\ TaskTypes(fired, other) BY <1>1, <1>3, <1>4 DEF UiOK, TaskTypes
<1>7. CASE destroyed
  <2>1. FALSE \in BOOLEAN OBVIOUS
  <2>2. TaskTypes(ui', other) /\ ops' \in 0..MaxOps /\ failed' \in BOOLEAN
    BY <1>1, <1>2, <1>6, <1>7, <2>1, FinishDestroyed
  <2> QED BY <1>1, <1>2, <1>7, <2>2 DEF Tasks, Quiet
<1>8. CASE ~destroyed
  <2>1. ui' = fired /\ stack' = <<tick>> /\ failed' = failed /\ ops' = ops BY <1>2, <1>8
  <2>2. TaskOK(ui, other, 0)
    <3>1. ~HasSched(stack) BY <1>1 DEF HasSched
    <3> QED BY <1>8, <3>1 DEF Tasks, Running
  <2>3. ui.timers = 1 /\ ui.task # None BY <1>1, <2>2 DEF TaskOK, TaskTypes
  <2>4. n = 0 BY <2>3 DEF n
  <2>5. TaskOK(fired, other, 1) BY <1>4, <1>6, <2>2, <2>3, <2>4 DEF TaskOK
  <2>6. HasSched(stack')
    <3>1. Len(<<tick>>) = 1 /\ <<tick>>[1] = tick OBVIOUS
    <3>2. 1 \in 1..Len(<<tick>>) BY <3>1
    <3> QED BY <1>5, <2>1, <3>1, <3>2 DEF HasSched
  <2>7. TaskOK(ui', other', Running(stack')) BY <1>1, <2>1, <2>5, <2>6 DEF Running
  <2>8. ui'.task # None BY <1>4, <2>1, <2>3
  <2> QED BY <1>1, <1>8, <2>1, <2>7, <2>8 DEF Tasks, Quiet, TaskOK
<1> QED BY <1>7, <1>8

LEMMA OtherAddsTasks ==
    ASSUME Held, Tasks, OtherAdds
    PROVE  Tasks'
<1> DEFINE id == NewTask(ui.tasks)
           t == Added(ui.tasks, id)
<1>1. /\ Acts /\ other = None /\ other' = id /\ ui' = [ui EXCEPT !.tasks = t] /\ UiOK(ui)
      /\ UNCHANGED <<views, stack, failed, destroyed>>
  BY DEF OtherAdds, Held
<1>2. ~destroyed /\ ops' \in 0..MaxOps BY <1>1, ActsTasks
<1>3. TaskOK(ui, other, Running(stack)) BY <1>2 DEF Tasks
<1>4. /\ ui.tasks \in PendingTasksType /\ ui.tasks.pending = {ui.task} \ {None}
      /\ ui.task \in TaskId \cup {None}
  BY <1>1, <1>3 DEF TaskOK, TaskTypes
<1>5. id \in TaskId /\ id \notin ui.tasks.pending /\ id # None BY <1>4, NewTaskIs
<1> HIDE DEF id
<1>6. t = [pending |-> ui.tasks.pending \cup {id}, has |-> TRUE] BY DEF Added
<1>7. ui.tasks.pending \cup {id} \in SUBSET TaskId
  <2>1. ui.tasks.pending \in SUBSET TaskId BY <1>4 DEF PendingTasksType
  <2> QED BY <1>5, <2>1
<1>8. t \in PendingTasksType /\ t.pending = ui.tasks.pending \cup {id} /\ t.has
  BY <1>6, <1>7 DEF PendingTasksType
<1> HIDE DEF t
<1>9. ui' = [flags |-> ui.flags, task |-> ui.task, timers |-> ui.timers, tasks |-> t]
  BY <1>1 DEF UiOK
<1>10. /\ ui'.flags = ui.flags /\ ui'.task = ui.task /\ ui'.timers = ui.timers
       /\ ui'.tasks = t
  BY <1>9
<1>11. TaskTypes(ui', id) BY <1>3, <1>5, <1>8, <1>10 DEF TaskOK, TaskTypes
<1>12. /\ t.pending = {ui.task, id} \ {None} /\ t.has /\ t.pending # {}
  BY <1>4, <1>5, <1>8
<1>13. ui.task # id BY <1>4, <1>5
<1>14. TaskOK(ui', id, Running(stack)) BY <1>3, <1>10, <1>11, <1>12, <1>13 DEF TaskOK
<1>15. Running(stack') = Running(stack) BY <1>1
<1>16. Quiet' BY <1>1, <1>10 DEF Tasks, Quiet, Requires, Fresh, Top
<1> QED BY <1>1, <1>2, <1>14, <1>15, <1>16 DEF Tasks, TaskOK

LEMMA OtherRemovesTasks ==
    ASSUME ~HearsUnstable, Held, Tasks, OtherRemoves
    PROVE  Tasks'
<1> DEFINE left == Removed(ui.tasks, other)
           gone == [ui EXCEPT !.tasks = left]
<1>1. /\ stack = <<>> /\ other # None /\ RemoveTask(ui, other, ops) /\ other' = None
      /\ UNCHANGED <<views, stack, failed, destroyed>> /\ UiOK(ui) /\ ~destroyed
      /\ ops \in 0..MaxOps
  BY DEF OtherRemoves, Held, Tasks
<1>2. TaskOK(ui, other, Running(stack)) /\ Running(stack) \in Nat BY <1>1 DEF Tasks, Running
<1>3. /\ ui.tasks \in PendingTasksType /\ (ui.tasks.has <=> ui.tasks.pending # {})
      /\ ui.tasks.pending = {ui.task, other} \ {None} /\ ui.task # other
  BY <1>1, <1>2 DEF TaskOK, TaskTypes
<1>4. /\ left \in PendingTasksType /\ left.pending = {ui.task} \ {None}
      /\ left.has <=> left.pending # {}
  BY <1>3, RemovedIs
<1>5. gone = [ui EXCEPT !.tasks = Removed(@, other)] OBVIOUS
<1> HIDE DEF left
<1>6. gone = [flags |-> ui.flags, task |-> ui.task, timers |-> ui.timers, tasks |-> left]
  BY <1>1 DEF UiOK
<1> HIDE DEF gone
<1>7. gone.task = ui.task /\ gone.timers = ui.timers /\ gone.tasks = left BY <1>6
<1>8. TaskOK(gone, None, Running(stack)) BY <1>2, <1>4, <1>7 DEF TaskOK, TaskTypes
<1>9. /\ TaskOK(ui', None, Running(stack)) /\ ops' \in 0..MaxOps
      /\ ui'.task = None => \A v \in View : Requires(ui', v) <=> Requires(ui, v)
  BY <1>1, <1>2, <1>3, <1>5, <1>8, RemoveTasks
<1>10. ui'.task = None => ui.task = None
  <2>1. ui' \in Heard(gone, ops) BY <1>1, <1>5 DEF RemoveTask, Heard
  <2>2. UiOK(gone) BY <1>1, <1>6 DEF UiOK
  <2>3. ui' = gone \/ ui'.task # None BY <1>2, <1>8, <2>1, <2>2, HeardTasks
  <2> QED BY <1>7, <2>3
<1>11. Quiet'
  <2>1. ToSet(views) \subseteq Root /\ Root \subseteq View BY RootsAre, ViewTree DEF Held
  <2>2. ASSUME ui'.task = None, ~failed', NEW r \in ToSet(views'), Requires(ui', r)
        PROVE  FALSE
    <3>1. r \in View /\ r \in ToSet(views) /\ Requires(ui, r) /\ ~failed /\ ui.task = None
      BY <1>1, <1>9, <1>10, <2>1, <2>2
    <3> QED BY <1>1, <3>1 DEF Tasks, Quiet, Fresh
  <2> QED BY <2>2 DEF Quiet
<1>12. TaskOK(ui', other', Running(stack')) BY <1>1, <1>9
<1> QED BY <1>1, <1>9, <1>11, <1>12 DEF Tasks, TaskOK

LEMMA DestroyTasks ==
    ASSUME Held, Tasks, Destroy
    PROVE  Tasks'
<1>1. /\ Acts /\ stack = <<>> /\ destroyed' = TRUE /\ other' = None
      /\ ui' = [ui EXCEPT !.tasks = NoTasks] /\ UNCHANGED <<stack, failed>> /\ UiOK(ui)
  BY DEF Destroy, Held
<1>2. NoTasks \in PendingTasksType BY DEF NoTasks, PendingTasksType
<1>3. ui'.task = ui.task /\ ui'.timers = ui.timers /\ ui'.tasks = NoTasks
  BY <1>1 DEF UiOK
<1>4. TaskTypes(ui', other') BY <1>1, <1>2, <1>3 DEF Tasks, TaskTypes
<1>5. ops' \in 0..MaxOps BY <1>1, ActsTasks
<1> QED BY <1>1, <1>4, <1>5 DEF Tasks, Quiet

LEMMA TasksAtFirst ==
    ASSUME Init
    PROVE  Tasks
<1> DEFINE flags == [v \in View |-> [attached |-> TRUE, inserted |-> TRUE,
                        dirty |-> FALSE, refresh |-> FALSE, child |-> FALSE,
                        consumer |-> IF v \in Reads THEN "clean" ELSE "none"]]
           u == [flags |-> flags, task |-> None, timers |-> 0, tasks |-> NoTasks]
<1>1. UiOK(u) BY DEF UiOK, Flags
<1>2. u.task = None /\ u.timers = 0 /\ u.tasks = NoTasks OBVIOUS
<1>3. /\ ui = Schedule(u) /\ stack = <<>> /\ failed = FALSE /\ destroyed = FALSE
      /\ other = None /\ ops = 0
  BY DEF Init
<1> HIDE DEF u
<1>4. NoTasks \in PendingTasksType /\ NoTasks.pending = {} /\ ~NoTasks.has
  BY DEF NoTasks, PendingTasksType
<1>5. TaskOK(u, None, 0) BY <1>2, <1>4 DEF TaskOK, TaskTypes
<1>6. TaskOK(ui, other, 0) /\ ui.task # None
  <2>1. 0 \in Nat OBVIOUS
  <2> QED BY <1>1, <1>2, <1>3, <1>5, <2>1, ScheduleTasks
<1>7. Running(stack) = 0 BY <1>3 DEF Running, HasSched
<1>8. ops \in 0..MaxOps BY <1>3, ViewTree
<1> QED BY <1>3, <1>6, <1>7, <1>8 DEF Tasks, Quiet, TaskOK

LEMMA TasksStay ==
    ASSUME ~HearsUnstable, Held, Tasks, [Next]_vars
    PROVE  Tasks'
<1>1. CASE UNCHANGED vars
  BY <1>1 DEF vars, Tasks, Quiet, Fresh, Top, Requires, TaskTypes, TaskOK, Running, HasSched
<1>2. CASE \/ VisitChild \/ VisitEmbedded \/ ContainerDone \/ CodeReturns
           \/ Refreshed \/ Traversed \/ WhileDone
           \/ TickRendered \/ TickAgain
  BY <1>2, TraversalTasks
<1>3. CASE WhileDirty \/ TickView \/ Tick \/ \E v \in View : DetectChanges(v)
  BY <1>3, CallTasks
<1>4. CASE WhileGivesUp \/ CodeThrows BY <1>4, ErrorsTasks
<1>5. CASE TickEnds BY <1>5, TickEndsTasks
<1>6. CASE TimerFires BY <1>6, TimerTasks
<1>7. CASE OtherRemoves BY <1>7, OtherRemovesTasks
<1>8. CASE OtherAdds BY <1>8, OtherAddsTasks
<1>9. CASE Destroy BY <1>9, DestroyTasks
<1>10. CASE \/ \E v \in View : Marks(v) \/ Detach(v) \/ Reattach(v)
            \/ \E e \in Embedded : InsertView(e) \/ RemoveView(e)
  BY <1>10, FlagsTasks
<1>11. CASE \E r \in Root : AttachView(r) \/ DetachView(r) BY <1>11, RootsTasks
<1> QED BY <1>1, <1>2, <1>3, <1>4, <1>5, <1>6, <1>7, <1>8, <1>9, <1>10, <1>11
        DEF Next, System, User

LEMMA TaskInvariant ==
    ASSUME HearsUnstable = FALSE
    PROVE  Spec => [](Held /\ Tasks)
<1>1. Held /\ Tasks /\ [Next]_vars => (Held /\ Tasks)' BY HeldStays, TasksStay
<1> QED BY <1>1, HeldAtFirst, TasksAtFirst, PTL DEF Spec

\* tick() is not called in the middle of tick().
LEMMA OneTick ==
    ASSUME StackOK(stack)
    PROVE  /\ Cardinality(TickAt) <= 1
           /\ Cardinality({i \in TickAt : stack[i].scheduled}) = Running(stack)
<1>1. DOMAIN stack = 1..Len(stack) BY LenProperties DEF StackOK
<1>2. ASSUME NEW T, T \subseteq TickAt
      PROVE  Cardinality(T) = IF T = {} THEN 0 ELSE 1
  <2>1. CASE T = {} BY <2>1, FS_EmptySet
  <2>2. CASE T # {}
    <3>1. PICK i \in T : TRUE BY <2>2
    <3>2. T = {i} BY <1>1, <1>2, <3>1 DEF TickAt, StackOK
    <3> QED BY <2>2, <3>2, FS_Singleton
  <2> QED BY <2>1, <2>2
<1> DEFINE T == {i \in TickAt : stack[i].scheduled}
<1>3. T # {} <=> HasSched(stack) BY <1>1 DEF TickAt, HasSched
<1>4. T \subseteq TickAt OBVIOUS
<1> HIDE DEF T
<1>5. Cardinality(T) = Running(stack) BY <1>2, <1>3, <1>4 DEF Running
<1>6. Cardinality(TickAt) <= 1 BY <1>2
<1> QED BY <1>5, <1>6 DEF T

(* Flags, frames, tasks and timers keep their types, and at most one tick() is in
   progress, when the subscribers of isStable only react to TRUE. *)
THEOREM TypeCorrect ==
    ASSUME HearsUnstable = FALSE
    PROVE  Spec => []TypeOK
<1>1. Held /\ Tasks => TypeOK
  BY OneTick DEF Held, UiOK, StackOK, ContentOK, Tasks, TaskTypes, TypeOK
<1> QED BY <1>1, TaskInvariant, PTL

(* pending_tasks.ts:15: PendingTasks holds the scheduler's task and that of the other
   service, no more; the scheduler's has exactly one timer or one tick that is going to
   remove it, whatever is thrown. *)
THEOREM TasksStayReal ==
    ASSUME HearsUnstable = FALSE
    PROVE  Spec => []TasksAreReal
<1>1. Held /\ Tasks => TasksAreReal
  <2> SUFFICES ASSUME Held, Tasks, ~destroyed PROVE TasksAreReal BY DEF TasksAreReal
  <2>1. TaskOK(ui, other, Running(stack)) BY DEF Tasks
  <2>2. ui.tasks.has \in BOOLEAN BY <2>1 DEF TaskOK, TaskTypes, PendingTasksType
  <2>3. Cardinality({i \in TickAt : stack[i].scheduled}) = Running(stack)
    BY OneTick DEF Held
  <2>4. ui.tasks.has = (ui.tasks.pending # {}) BY <2>1, <2>2 DEF TaskOK
  <2> QED BY <2>1, <2>3, <2>4 DEF TaskOK, TasksAreReal
<1> QED BY <1>1, TaskInvariant, PTL

\* The need for a visit leads up to the root when nothing is in progress.
LEMMA NeedsLeadUp ==
    ASSUME Held, stack = <<>>, NEW v \in View, Shown(v), Requires(ui, v),
           Path(ui, v) \cap (aborted \ {v}) = {}, Path(ui, v) \cap skipped = {}
    PROVE  \A w \in Path(ui, v) : Requires(ui, w)
<1> DEFINE P == Path(ui, v)
           A == Ancestors[v]
           S == {w \in A : w \in P => Requires(ui, w)}
<1>1. UiOK(ui) /\ A \in SUBSET View /\ S \in SUBSET View BY AncestorsClosed DEF Held
<1>2. P = {w \in {v} \cup A :
             \A x \in {v} \cup A : w \in Ancestors[x] => ParentIn(ui, x) # None}
  BY DEF Path
<1> HIDE DEF P
<1>3. ASSUME NEW x \in {v} \cup S, x \notin Root PROVE Parent[x] \in S
  <2> DEFINE p == Parent[x]
  <2>1. x \in {v} \cup A /\ x \in View /\ p \in A BY <1>1, <1>3, AncestorsClosed
  <2>2. SUFFICES ASSUME p \in P PROVE Requires(ui, p) BY <2>1
  <2>3. p \in Ancestors[x] BY <1>3, <2>1, AncestorsClosed
  <2>4. ParentIn(ui, x) # None BY <1>2, <2>1, <2>2, <2>3
  <2>5. x \in P
    <3>1. ASSUME NEW y \in {v} \cup A, x \in Ancestors[y] PROVE ParentIn(ui, y) # None
      <4>1. y \in View /\ p \in Ancestors[y] BY <1>1, <1>3, <3>1, AncestorsClosed
      <4> QED BY <1>2, <2>2, <4>1
    <3> QED BY <1>2, <2>1, <3>1
  <2>6. Requires(ui, x) /\ Hangs(ui, x) BY <1>3, <2>4, <2>5 DEF Shown, P, Hangs
  <2>7. ui.flags[p].child \/ AwaitedIn(content, stack, x) \/ p \in aborted
    BY <2>1, <2>5, <2>6 DEF Held, FoundBut, Found, P
  <2>8. ~AwaitedIn(content, stack, x) BY DEF AwaitedIn
  <2>9. p # v BY <2>1, NoCycles
  <2> QED BY <2>2, <2>7, <2>8, <2>9 DEF P, Requires
<1>4. A \subseteq S BY <1>1, <1>3, AncestorsLeast
<1> QED BY <1>2, <1>4 DEF P

(* When no call is in progress and no tick is scheduled, no view that is shown still has
   to be refreshed or traversed: neither notifications that tick() drops nor marks that
   stop at a marked ancestor lose one, unless an exception or a loop over a container
   left it behind. *)
THEOREM NothingIsLeftBehind ==
    ASSUME HearsUnstable = FALSE
    PROVE  Spec => []NothingLeftBehind
<1>1. Held /\ Tasks => NothingLeftBehind
  <2> SUFFICES ASSUME Held, Tasks, stack = <<>>, ui.task = None, ~failed, ~destroyed,
                      NEW v \in View, Shown(v), Path(ui, v) \cap (aborted \ {v}) = {},
                      Path(ui, v) \cap skipped = {},
                      Requires(ui, v)
               PROVE  FALSE
    BY DEF NothingLeftBehind
  <2>1. PICK r \in Path(ui, v) : r \in ToSet(views) BY DEF Shown
  <2>2. Requires(ui, r) BY <2>1, NeedsLeadUp
  <2> QED BY <2>1, <2>2 DEF Tasks, Quiet, Fresh
<1> QED BY <1>1, TaskInvariant, PTL
=============================================================================
