-------------------------- MODULE NavigationProof --------------------------
(***************************************************************************)
(* Types, that pending tasks and promises stand for the navigation in      *)
(* progress, and that the browser shows the URL of the router, for any     *)
(* URLs, options and number of calls.  The first two hold together: a free *)
(* identity for a new promise is there because the navigation in progress  *)
(* has the only other one.  The third has an invariant of its own on top,  *)
(* about the history and the traversals that the router has asked for.     *)
(***************************************************************************)
EXTENDS Navigation, FiniteSetTheorems, WellFoundedInduction, SequenceTheorems, TLAPS

EntryType == [url : Url, page : Nat \cup {None}]
TreeType == [url : Url, ended : BOOLEAN, hidden : BOOLEAN]
OptionType == {"none", "skip", "replace"}
RequestType == [stage : {"recognize", "check", "activate"}, url : Url, popstate : BOOLEAN,
                option : OptionType, promise : Promises]
TasksType == [waiting : BOOLEAN, leaving : BOOLEAN]

(* TypeOK by parts. *)
HistoryOK == /\ entries \in Seq(EntryType) /\ pos \in DOMAIN entries
GoingOK == going \in Seq(Int \ {0})
PoppedOK == popped \in Seq(Url)
TreeOK == tree \in TreeType
MementoOK == memento \in TreeType
RestOK == /\ mode \in Modes /\ page \in Nat /\ navigated \in BOOLEAN /\ calls \in 0..MaxCalls
NavOK == /\ nav \in RequestType \cup {NoNav}
         /\ open \subseteq Promises /\ tasks \in TasksType

IInv == /\ HistoryOK /\ GoingOK /\ PoppedOK /\ TreeOK /\ MementoOK /\ RestOK
        /\ NavOK /\ NavigatingIsPending

LEMMA PartsAreTypes ==
  /\ HistoryOK /\ GoingOK /\ PoppedOK /\ TreeOK /\ MementoOK /\ RestOK /\ NavOK => TypeOK
BY DEF HistoryOK, GoingOK, PoppedOK, TreeOK, MementoOK, RestOK, NavOK, TypeOK, EntryType,
       TreeType, RequestType, OptionType, TasksType

LEMMA NavOf ==
  ASSUME NavOK
  PROVE  /\ Running <=> nav \in RequestType
         /\ ~Running <=> nav = NoNav
         /\ NoNav \notin RequestType
BY DEF NavOK, Running, NoNav, RequestType

LEMMA PageIdType ==
  ASSUME HistoryOK, RestOK
  PROVE  BrowserPageId \in Nat
<1>1. entries[pos] \in EntryType BY DEF HistoryOK
<1> QED BY <1>1 DEF BrowserPageId, RestOK, EntryType

LEMMA EntryTyped ==
  ASSUME NEW url \in Url, NEW p \in Nat
  PROVE  Entry(url, p) \in EntryType
BY DEF Entry, EntryType

LEMMA ReplaceTyped ==
  ASSUME HistoryOK, NEW url \in Url, NEW p \in Nat, ReplaceState(url, p)
  PROVE  HistoryOK'
<1> DEFINE e == Entry(url, p)
<1>1. e \in EntryType BY EntryTyped
<1> HIDE DEF e
<1>2. entries' = [entries EXCEPT ![pos] = e] /\ pos' = pos BY DEF ReplaceState, e
<1>3. entries' \in Seq(EntryType) /\ DOMAIN entries' = DOMAIN entries
  BY <1>1, <1>2 DEF HistoryOK
<1> QED BY <1>2, <1>3 DEF HistoryOK

LEMMA SetTyped ==
  ASSUME HistoryOK, RestOK, NEW url \in Url, SetBrowserUrl(url)
  PROVE  HistoryOK'
<1>1. BrowserPageId \in Nat BY PageIdType
<1>2. CASE BrowserUrl = url \/ nav.option = "replace"
  BY <1>1, <1>2, ReplaceTyped DEF SetBrowserUrl
<1>3. CASE ~(BrowserUrl = url \/ nav.option = "replace")
  <2> DEFINE e == Entry(url, BrowserPageId + 1)
  <2>1. e \in EntryType BY <1>1, EntryTyped
  <2> HIDE DEF e
  <2>2. entries' = Append(SubSeq(entries, 1, pos), e) /\ pos' = pos + 1
    BY <1>3 DEF SetBrowserUrl, e
  <2>3. pos \in 1..Len(entries) /\ Len(entries) \in Nat BY DEF HistoryOK
  <2>4. SubSeq(entries, 1, pos) \in Seq(EntryType) /\ Len(SubSeq(entries, 1, pos)) = pos
    BY <2>3 DEF HistoryOK
  <2> HIDE DEF e
  <2>5. entries' \in Seq(EntryType) /\ Len(entries') = pos + 1 BY <2>1, <2>2, <2>4
  <2> QED BY <2>2, <2>3, <2>5 DEF HistoryOK
<1> QED BY <1>2, <1>3

LEMMA RestoreTyped ==
  ASSUME HistoryOK, GoingOK, TreeOK, MementoOK, RestOK, NEW err \in BOOLEAN,
         RestoreHistory(err)
  PROVE  HistoryOK' /\ GoingOK' /\ TreeOK'
<1>1. BrowserPageId \in Nat /\ page \in Nat BY PageIdType DEF RestOK
<1>2. CASE Computed /\ page # BrowserPageId /\ going' = Append(going, page - BrowserPageId)
           /\ UNCHANGED <<entries, pos, tree>>
  <2>1. page - BrowserPageId \in Int \ {0} BY <1>1, <1>2
  <2>2. going' \in Seq(Int \ {0}) BY <1>2, <2>1 DEF GoingOK
  <2> QED BY <1>2, <2>2 DEF HistoryOK, GoingOK, TreeOK
<1>3. ASSUME NEW t \in TreeType, tree' = t, ReplaceState(tree'.url, page), UNCHANGED going
      PROVE  HistoryOK' /\ GoingOK' /\ TreeOK'
  <2>1. tree'.url \in Url BY <1>3 DEF TreeType
  <2>2. HistoryOK' BY <1>1, <1>3, <2>1, ReplaceTyped
  <2> QED BY <1>3, <2>2 DEF GoingOK, TreeOK
<1>4. CASE UNCHANGED <<entries, pos, tree, going>>
  BY <1>4 DEF HistoryOK, GoingOK, TreeOK
<1>5. \/ Computed /\ page # BrowserPageId /\ going' = Append(going, page - BrowserPageId)
         /\ UNCHANGED <<entries, pos, tree>>
      \/ UNCHANGED <<entries, pos, tree, going>>
      \/ /\ tree' \in {tree, memento} /\ ReplaceState(tree'.url, page) /\ UNCHANGED going
  BY DEF RestoreHistory
<1> QED BY <1>2, <1>3, <1>4, <1>5 DEF TreeOK, MementoOK

(* What scheduleNavigation() leaves, when it settles or hands on whatever is open. *)
LEMMA ScheduleKeeps ==
  ASSUME NavOK, TreeOK, MementoOK,
         NEW r \in RequestType, NEW settled \in SUBSET Promises,
         open \subseteq settled \cup {r.promise}, r.promise \notin settled,
         Schedule(r, settled)
  PROVE  NavOK' /\ TreeOK' /\ MementoOK' /\ NavigatingIsPending'
<1>1. r.promise \in Promises /\ r.stage # "none" BY DEF RequestType
<1>2. NoNav \notin RequestType /\ NoNav.stage = "none" BY DEF NoNav, RequestType
<1>3. CASE SameUrl(r)
  <2>1. /\ nav' = NoNav /\ open' = {} /\ tasks' = [waiting |-> FALSE, leaving |-> TRUE]
        /\ tree' = [tree EXCEPT !.hidden = @ \/ Skip(r)] /\ memento' = memento
    BY <1>3 DEF Schedule, Finished
  <2>2. tree' \in TreeType BY <2>1 DEF TreeOK, TreeType, Skip
  <2>3. NavOK' BY <2>1 DEF NavOK, TasksType
  <2>4. NavigatingIsPending' BY <1>2, <2>1 DEF NavigatingIsPending, Running
  <2> QED BY <2>1, <2>2, <2>3, <2>4 DEF TreeOK, MementoOK
<1>4. CASE ~SameUrl(r)
  <2>1. /\ nav' = r /\ open' = (open \ settled) \cup {r.promise}
        /\ tasks' = [tasks EXCEPT !.waiting = TRUE]
        /\ memento' = tree /\ tree' = tree
    BY <1>4 DEF Schedule
  <2>2. open' = {r.promise} BY <2>1
  <2>3. NavOK' /\ tasks'.waiting = TRUE BY <1>1, <2>1, <2>2 DEF NavOK, TasksType
  <2>4. NavigatingIsPending' BY <1>1, <2>1, <2>2, <2>3 DEF NavigatingIsPending, Running
  <2> QED BY <2>1, <2>3, <2>4 DEF TreeOK, MementoOK
<1> QED BY <1>3, <1>4

LEMMA SupersedeKeeps ==
  ASSUME IInv, NEW url \in Url, NEW popstate \in BOOLEAN, NEW option \in OptionType,
         Supersede(url, popstate, option)
  PROVE  NavOK' /\ TreeOK' /\ MementoOK' /\ NavigatingIsPending'
<1> DEFINE p == NewPromise
           settled == IF Running THEN {nav.promise} ELSE {}
           r == Request(url, popstate, option, p)
<1>1. open = settled /\ settled \in SUBSET Promises
  BY NavOf DEF IInv, NavigatingIsPending, RequestType, NavOK
<1>2. \E q \in Promises : q \notin open
  <2>1. open = {} \/ \E q \in Promises : open = {q}
    BY NavOf DEF IInv, NavigatingIsPending, RequestType
  <2> QED BY <2>1 DEF Promises
<1>3. p \in Promises /\ p \notin open BY <1>2 DEF NewPromise
<1>4. r \in RequestType /\ r.promise = p BY <1>3 DEF Request, RequestType
<1>5. Schedule(r, settled) BY DEF Supersede
<1> HIDE DEF p, settled, r
<1> QED BY <1>1, <1>3, <1>4, <1>5, ScheduleKeeps DEF IInv

(* A transition that is over leaves neither promise nor waiting task. *)
LEMMA OverKeeps ==
  ASSUME NavOK, NavigatingIsPending, Running, Over
  PROVE  NavOK' /\ NavigatingIsPending'
<1>1. nav' = NoNav /\ open' = {} /\ tasks' = [waiting |-> FALSE, leaving |-> TRUE]
  BY DEF Over, Finished, NavigatingIsPending
<1>2. NoNav.stage = "none" BY DEF NoNav
<1> QED BY <1>1, <1>2 DEF NavOK, TasksType, NavigatingIsPending, Running

(* A transition that goes on keeps its promise. *)
LEMMA GoesOn ==
  ASSUME NavOK, NavigatingIsPending, Running, NEW s \in {"check", "activate"},
         nav' = [nav EXCEPT !.stage = s], UNCHANGED <<open, tasks>>
  PROVE  NavOK' /\ NavigatingIsPending'
<1>1. nav \in RequestType BY NavOf
<1>2. nav' \in RequestType /\ nav'.promise = nav.promise /\ nav'.stage # "none"
  BY <1>1 DEF RequestType
<1> QED BY <1>2 DEF NavOK, NavigatingIsPending, Running

(* A traversal within the session history. *)
LEMMA MoveTyped ==
  ASSUME HistoryOK, PoppedOK, NEW n \in Int, MoveBy(n), UNCHANGED entries
  PROVE  HistoryOK' /\ PoppedOK'
<1>1. CASE pos + n \in DOMAIN entries
  <2>0. entries[pos + n] \in EntryType BY <1>1 DEF HistoryOK
  <2>1. entries[pos + n].url \in Url BY <2>0 DEF EntryType
  <2>2. pos' = pos + n /\ popped' = Append(popped, entries[pos + n].url)
    BY <1>1 DEF MoveBy
  <2> QED BY <1>1, <2>1, <2>2 DEF HistoryOK, PoppedOK
<1>2. CASE pos + n \notin DOMAIN entries
  BY <1>2 DEF MoveBy, HistoryOK, PoppedOK
<1> QED BY <1>1, <1>2

LEMMA InitHolds == Init => IInv
<1> SUFFICES ASSUME Init PROVE IInv OBVIOUS
<1>1. PICK u \in Url : /\ entries = <<[url |-> u, page |-> None]>>
                       /\ nav = Request(u, FALSE, "replace", 1)
  BY DEF Init
<1>2. (CHOOSE v \in Url : TRUE) \in Url BY <1>1
<1>3. tree \in TreeType /\ memento \in TreeType BY <1>2 DEF Init, TreeType
<1>4. HistoryOK BY <1>1 DEF Init, HistoryOK, EntryType
<1>5. nav \in RequestType /\ nav.promise = 1 /\ nav.stage # "none"
  BY <1>1 DEF Request, RequestType, OptionType, Promises
<1>6. NavOK
  <2>1. open = {1} /\ tasks = [waiting |-> TRUE, leaving |-> FALSE] BY DEF Init
  <2>2. open \subseteq Promises BY <2>1 DEF Promises
  <2> QED BY <1>5, <2>1, <2>2 DEF NavOK, TasksType
<1>7. NavigatingIsPending BY <1>5 DEF Init, NavigatingIsPending, Running
<1>8. GoingOK /\ PoppedOK
  <2>1. going = <<>> /\ popped = <<>> BY DEF Init
  <2>2. <<>> \in Seq(Int \ {0}) OBVIOUS
  <2>3. <<>> \in Seq(Url) OBVIOUS
  <2> QED BY <2>1, <2>2, <2>3 DEF GoingOK, PoppedOK
<1>9. RestOK
  <2>1. mode \in Modes /\ page = 0 /\ navigated = FALSE /\ calls = 0 BY DEF Init
  <2>2. MaxCalls \in Nat BY NavigationAssumption
  <2>3. page \in Nat /\ calls \in 0..MaxCalls BY <2>1, <2>2, SMT
  <2>4. navigated \in BOOLEAN BY <2>1, Zenon
  <2> QED BY <2>1, <2>3, <2>4, Zenon DEF RestOK
<1> QED BY <1>3, <1>4, <1>6, <1>7, <1>8, <1>9 DEF IInv, TreeOK, MementoOK

LEMMA StepHolds == IInv /\ [Next]_vars => IInv'
<1> SUFFICES ASSUME IInv, [Next]_vars PROVE IInv' OBVIOUS
<1> USE DEF history, manager
<1>0. /\ HistoryOK /\ GoingOK /\ PoppedOK /\ TreeOK /\ MementoOK /\ RestOK
      /\ NavOK /\ NavigatingIsPending
  BY DEF IInv
<1>t. Running => Target[nav.url] \in Url /\ nav.url \in Url
  BY <1>0, NavOf, NavigationAssumption DEF RequestType
<1>1. CASE Recognize
  <2>1. Running BY <1>1 DEF Recognize, Running
  <2>2. NavOK' /\ NavigatingIsPending' BY <1>0, <1>1, <2>1, GoesOn DEF Recognize
  <2>3. HistoryOK' BY <1>0, <1>1, <1>t, <2>1, SetTyped DEF Recognize, HistoryOK
  <2>4. UNCHANGED <<mode, going, popped, tree, memento, page, navigated, calls>>
    BY <1>1 DEF Recognize
  <2> QED BY <1>0, <2>2, <2>3, <2>4
     DEF IInv, GoingOK, PoppedOK, TreeOK, MementoOK, RestOK
<1>2. CASE Reject
  <2>1. Running BY <1>2 DEF Reject, Running
  <2>2. NavOK' /\ NavigatingIsPending' BY <1>0, <1>2, <2>1, OverKeeps DEF Reject
  <2>3. HistoryOK' /\ GoingOK' /\ TreeOK' BY <1>0, <1>2, RestoreTyped DEF Reject
  <2>4. navigated' = TRUE /\ UNCHANGED <<mode, popped, memento, page, calls>>
    BY <1>2 DEF Reject
  <2> QED BY <1>0, <2>2, <2>3, <2>4 DEF IInv, PoppedOK, MementoOK, RestOK
<1>3. ASSUME NEW url \in Url, Redirect(url) PROVE IInv'
  <2> DEFINE option == IF Skip(nav) THEN "skip"
                       ELSE IF mode.update = "eager" \/ nav.popstate THEN "replace" ELSE "none"
             r == Request(url, FALSE, option, nav.promise)
  <2>1. Running BY <1>3 DEF Redirect, Running
  <2>2. r \in RequestType /\ r.promise = nav.promise /\ open = {nav.promise}
    BY <1>0, <2>1, NavOf DEF Request, RequestType, OptionType, NavigatingIsPending
  <2>3. Schedule(r, {}) /\ UNCHANGED <<mode, entries, pos, going, popped, page, navigated>>
    BY <1>3 DEF Redirect
  <2>4. calls' \in 0..MaxCalls
    BY <1>0, <1>3, NavigationAssumption DEF Redirect, RestOK
  <2> HIDE DEF r, option
  <2>5. NavOK' /\ TreeOK' /\ MementoOK' /\ NavigatingIsPending'
    BY <1>0, <2>2, <2>3, ScheduleKeeps
  <2> QED BY <1>0, <2>3, <2>4, <2>5 DEF IInv, HistoryOK, GoingOK, PoppedOK, RestOK
<1>4. CASE Activate
  <2>1. Running BY <1>4 DEF Activate, Running
  <2>2. NavOK' /\ NavigatingIsPending' BY <1>0, <1>4, <2>1, GoesOn DEF Activate
  <2>3. HistoryOK' BY <1>0, <1>4, <1>t, <2>1, SetTyped DEF Activate, HistoryOK
  <2>4. tree' = [url |-> Target[nav.url], ended |-> FALSE, hidden |-> Skip(nav)]
        /\ UNCHANGED <<mode, going, popped, memento, page, navigated, calls>>
    BY <1>4 DEF Activate
  <2>5. TreeOK' BY <1>t, <2>1, <2>4 DEF TreeOK, TreeType, Skip
  <2> QED BY <1>0, <2>2, <2>3, <2>4, <2>5 DEF IInv, GoingOK, PoppedOK, MementoOK, RestOK
<1>5. CASE Fail
  <2>1. NavOK' /\ NavigatingIsPending' BY <1>0, <1>5, OverKeeps DEF Fail
  <2>2. HistoryOK' /\ GoingOK' /\ TreeOK' BY <1>0, <1>5, RestoreTyped DEF Fail
  <2>3. UNCHANGED <<mode, popped, memento, page, navigated, calls>> BY <1>5 DEF Fail
  <2> QED BY <1>0, <2>1, <2>2, <2>3 DEF IInv, PoppedOK, MementoOK, RestOK
<1>6. CASE End
  <2>1. Running BY <1>6 DEF End, Running
  <2>2. NavOK' /\ NavigatingIsPending' BY <1>0, <1>6, <2>1, OverKeeps DEF End
  <2>3. /\ page' = BrowserPageId /\ tree' = [tree EXCEPT !.ended = TRUE] /\ navigated' = TRUE
        /\ UNCHANGED <<mode, entries, pos, going, popped, memento, calls>>
    BY <1>6 DEF End
  <2>4. TreeOK' BY <1>0, <2>3 DEF TreeOK, TreeType
  <2>5. RestOK' BY <1>0, <2>3, PageIdType DEF RestOK
  <2> QED BY <1>0, <2>2, <2>3, <2>4, <2>5 DEF IInv, HistoryOK, GoingOK, PoppedOK, MementoOK
<1>7. ASSUME NEW url \in Url, NEW option \in Options, Navigate(url, option) PROVE IInv'
  <2>1. Supersede(url, FALSE, option)
        /\ UNCHANGED <<mode, entries, pos, going, popped, page, navigated>>
    BY <1>7 DEF Navigate
  <2>2. option \in OptionType BY NavigationAssumption DEF OptionType
  <2>3. NavOK' /\ TreeOK' /\ MementoOK' /\ NavigatingIsPending'
    BY <2>1, <2>2, SupersedeKeeps
  <2>4. calls' \in 0..MaxCalls
    BY <1>0, <1>7, NavigationAssumption DEF Navigate, RestOK
  <2> QED BY <1>0, <2>1, <2>3, <2>4 DEF IInv, HistoryOK, GoingOK, PoppedOK, RestOK
<1>8. ASSUME NEW n \in Int, Traverse(n) PROVE IInv'
  <2>1. MoveBy(n) /\ UNCHANGED <<mode, entries, going, tree, memento, page, navigated,
                                 nav, open, tasks>>
    BY <1>8 DEF Traverse
  <2>2. HistoryOK' /\ PoppedOK' BY <1>0, <2>1, MoveTyped
  <2>3. calls' \in 0..MaxCalls
    BY <1>0, <1>8, NavigationAssumption DEF Traverse, RestOK
  <2> QED BY <1>0, <2>1, <2>2, <2>3
     DEF IInv, GoingOK, TreeOK, MementoOK, RestOK, NavOK, NavigatingIsPending, Running
<1>9. CASE Gone
  <2>1. MoveBy(Head(going)) /\ going # <<>> /\ going' = Tail(going)
        /\ UNCHANGED <<mode, entries, tree, memento, page, navigated, nav, open, tasks, calls>>
    BY <1>9 DEF Gone
  <2>2. Head(going) \in Int /\ GoingOK' BY <1>0, <2>1 DEF GoingOK
  <2>3. HistoryOK' /\ PoppedOK' BY <1>0, <2>1, <2>2, MoveTyped
  <2> QED BY <1>0, <2>1, <2>2, <2>3
     DEF IInv, TreeOK, MementoOK, RestOK, NavOK, NavigatingIsPending, Running
<1>10. CASE PopState
  <2>1. /\ popped # <<>> /\ popped' = Tail(popped) /\ Supersede(Head(popped), TRUE, "replace")
        /\ UNCHANGED <<mode, entries, pos, going, page, navigated, calls>>
    BY <1>10 DEF PopState
  <2>2. Head(popped) \in Url /\ PoppedOK' BY <1>0, <2>1 DEF PoppedOK
  <2>3. NavOK' /\ TreeOK' /\ MementoOK' /\ NavigatingIsPending'
    BY <2>1, <2>2, SupersedeKeeps DEF OptionType
  <2> QED BY <1>0, <2>1, <2>2, <2>3 DEF IInv, HistoryOK, GoingOK, RestOK
<1>11. CASE RemoveTasks
  <2>1. /\ tasks' = [tasks EXCEPT !.leaving = FALSE]
        /\ UNCHANGED <<mode, entries, pos, going, popped, tree, memento, page, navigated,
                       nav, open, calls>>
    BY <1>11 DEF RemoveTasks
  <2>2. tasks' \in TasksType /\ tasks'.waiting = tasks.waiting
    BY <1>0, <2>1 DEF NavOK, TasksType
  <2> QED BY <1>0, <2>1, <2>2
     DEF IInv, HistoryOK, GoingOK, PoppedOK, TreeOK, MementoOK, RestOK, NavOK,
         NavigatingIsPending, Running
<1>12. CASE UNCHANGED vars
  BY <1>0, <1>12 DEF vars, IInv, HistoryOK, GoingOK, PoppedOK, TreeOK, MementoOK, RestOK,
         NavOK, NavigatingIsPending, Running
<1> QED BY <1>1, <1>2, <1>3, <1>4, <1>5, <1>6, <1>7, <1>8, <1>9, <1>10, <1>11, <1>12
       DEF Next, System, Application

(* The inductive invariant of Navigation. *)
THEOREM Inductive == Spec => []IInv
BY InitHolds, StepHolds, PTL DEF Spec

(* The state of router, browser and calls is always of its types: in particular a
   traversal the router asks for is never history.go(0). *)
THEOREM TypeCorrect == Spec => []TypeOK
<1>1. IInv => TypeOK BY PartsAreTypes DEF IInv
<1> QED BY <1>1, Inductive, PTL

(* Every navigation that is superseded, redirected, refused or skipped has its
   promise settled or handed on, and tasks wait exactly while one runs. *)
THEOREM NoCallForgotten == Spec => []NavigatingIsPending
<1>1. IInv => NavigatingIsPending BY DEF IInv
<1> QED BY <1>1, Inductive, PTL
-----------------------------------------------------------------------------
(* UrlFollows.  With "replace" whatever ends a navigation writes the URL of *)
(* the router; with "computed" a traversal that is still to be done, or one *)
(* the router asks for, leads back to the entry the router is at.           *)

Shows == BrowserUrl = tree.url

(* "replace": the browser shows the URL of the router between navigations and
   while one activates, and when the URL is updated early that of the navigation. *)
Rewritten ==
  ~Computed =>
    /\ going = <<>>
    /\ popped = <<>> /\ ~tree.hidden /\ nav.stage \in {"none", "activate"} => Shows
    /\ popped = <<>> /\ mode.update = "eager" /\ nav.stage = "check" /\ ~Skip(nav)
         => BrowserUrl = Target[nav.url]

Late == Computed /\ mode.update = "deferred"

(* The router has a place in a history whose pages are counted. *)
Placed == ~tree.hidden /\ tree.ended /\ Counted

(* "computed": an entry has the page and the URL of the router. *)
HomeIn == \E k \in DOMAIN entries : entries[k].page = page /\ entries[k].url = tree.url
Home == Late /\ Placed => HomeIn

(* Between navigations the browser is there, or the last traversal leads there. *)
Returns == going # <<>> /\ going[Len(going)] = page - BrowserPageId
Resting == Late /\ ~Running /\ popped = <<>> /\ Placed => Shows \/ Returns

(* A navigation that activates is at an entry of its own. *)
Activating == Late /\ nav.stage = "activate" /\ ~tree.hidden => Shows /\ entries[pos].page \in Nat

FollowInv == Rewritten /\ Home /\ Resting /\ Activating

LEMMA Least ==
  ASSUME NEW T \in SUBSET Nat, T # {}
  PROVE  \E x \in T : \A y \in T : x <= y
<1> DEFINE D == {0..x : x \in T}
           F == FiniteSubsetsOf(Nat)
           R == StrictSubsetOrdering(Nat)
<1>1. IsWellFoundedOn(R, F) BY FS_StrictSubsetOrderingWellFounded
<1>2. \A x \in T : IsFiniteSet(0..x) /\ 0..x \in SUBSET Nat BY FS_Interval
<1>3. D \subseteq F /\ D # {} BY <1>2 DEF FiniteSubsetsOf
<1> HIDE DEF D, F, R
<1>4. PICK d \in D : \A e \in D : ~(<<e, d>> \in R) BY <1>1, <1>3, WFMin
<1>5. PICK x \in T : d = 0..x BY <1>4 DEF D
<1>6. ASSUME NEW y \in T, y < x PROVE FALSE
  <2>1. 0..y \in D BY DEF D
  <2>2. 0..y \subseteq 0..x /\ x \in 0..x /\ x \notin 0..y BY <1>6
  <2>3. 0..y \in SUBSET Nat /\ 0..x \in SUBSET Nat BY <1>2
  <2>4. <<0..y, 0..x>> \in R BY <2>2, <2>3 DEF R, StrictSubsetOrdering
  <2> QED BY <1>4, <1>5, <2>1, <2>4
<1> QED BY <1>6

(* In a counted history the pages are those of consecutive numbers. *)
LEMMA CountedBy ==
  ASSUME HistoryOK, Counted, Len(entries) > 1, NEW i \in DOMAIN entries
  PROVE  /\ entries[1].page \in Nat
         /\ entries[i].page \in Nat
         /\ entries[i].page = entries[1].page + (i - 1)
<1> DEFINE n == Len(entries)
           P(j) == entries[j].page
           T == {j \in 1..n : P(j) # P(1) + (j - 1)}
<1>1. n \in Nat /\ n > 1 /\ DOMAIN entries = 1..n BY DEF HistoryOK
<1>2. \A j \in 1..n : P(j) \in Nat \cup {None}
  <2>1. \A j \in 1..n : entries[j] \in EntryType BY <1>1 DEF HistoryOK
  <2> QED BY <2>1 DEF EntryType
<1>3. \A j \in 1..(n - 1) : P(j) # None /\ P(j + 1) = P(j) + 1 BY DEF Counted
<1> HIDE DEF n, P
<1>4. \A j \in 1..(n - 1) : P(j) \in Nat /\ P(j + 1) = P(j) + 1
  <2> TAKE j \in 1..(n - 1)
  <2>1. j \in 1..n BY <1>1
  <2> QED BY <1>2, <1>3, <2>1
<1>5. P(1) \in Nat BY <1>1, <1>4
<1>6. T = {}
  <2> SUFFICES ASSUME T # {} PROVE FALSE OBVIOUS
  <2>1. T \in SUBSET Nat BY <1>1
  <2>2. PICK x \in T : \A y \in T : x <= y BY <2>1, Least
  <2>3. x \in 1..n /\ P(x) # P(1) + (x - 1) OBVIOUS
  <2>4. x # 1 BY <1>5, <2>3
  <2> DEFINE z == x - 1
  <2>5. z \in 1..(n - 1) /\ z \in 1..n /\ z < x /\ x = z + 1 BY <1>1, <2>3, <2>4
  <2> HIDE DEF z
  <2>6. z \notin T BY <1>1, <2>2, <2>3, <2>5
  <2>7. P(z) = P(1) + (z - 1) BY <2>5, <2>6
  <2>8. P(z + 1) = P(z) + 1 BY <1>4, <2>5
  <2>9. P(z + 1) = P(1) + z BY <1>1, <1>5, <2>5, <2>7, <2>8
  <2> QED BY <1>1, <2>3, <2>5, <2>9
<1>7. i \in 1..n BY <1>1
<1>8. P(i) = P(1) + (i - 1) BY <1>6, <1>7
<1>9. P(i) \in Nat BY <1>1, <1>5, <1>7, <1>8
<1> QED BY <1>5, <1>8, <1>9 DEF P

(* Where the router is at home, relative to where the browser is. *)
LEMMA HomeIsNear ==
  ASSUME IInv, Computed, Counted, HomeIn
  PROVE  Shows \/ (/\ pos + (page - BrowserPageId) \in DOMAIN entries
                   /\ page # BrowserPageId)
<1>1. PICK k \in DOMAIN entries : entries[k].page = page /\ entries[k].url = tree.url
  BY DEF HomeIn
<1>2. HistoryOK /\ page \in Nat BY DEF IInv, RestOK
<1>3. pos \in DOMAIN entries /\ DOMAIN entries = 1..Len(entries) /\ Len(entries) \in Nat
  BY <1>2 DEF HistoryOK
<1>4. CASE Len(entries) > 1
  <2> DEFINE q == entries[1].page
             e == entries[pos].page
  <2>1. q \in Nat /\ page = q + (k - 1) BY <1>1, <1>2, <1>4, CountedBy
  <2>2. e \in Nat /\ e = q + (pos - 1) BY <1>2, <1>3, <1>4, CountedBy
  <2>3. BrowserPageId = e BY <2>2, NavigationAssumption DEF BrowserPageId
  <2> HIDE DEF q, e
  <2>4. k \in Nat /\ pos \in Nat BY <1>3
  <2>5. pos + (page - e) = k BY <2>1, <2>2, <2>4
  <2>6. page = e => k = pos BY <2>1, <2>2, <2>4
  <2> QED BY <1>1, <2>3, <2>5, <2>6 DEF Shows, BrowserUrl
<1>5. CASE ~(Len(entries) > 1)
  <2>1. k = pos BY <1>3, <1>5
  <2> QED BY <1>1, <2>1 DEF Shows, BrowserUrl
<1> QED BY <1>4, <1>5

LEMMA ReplaceShows ==
  ASSUME HistoryOK, NEW url \in Url, NEW p \in Nat, ReplaceState(url, p), mode' = mode
  PROVE  BrowserUrl' = url /\ (Computed => entries'[pos'].page = p)
<1> DEFINE e == Entry(url, p)
<1>1. e.url = url /\ (Computed => e.page = p) BY DEF Entry
<1> HIDE DEF e
<1>2. entries' = [entries EXCEPT ![pos] = e] /\ pos' = pos BY DEF ReplaceState, e
<1>3. entries'[pos'] = e BY <1>2 DEF HistoryOK
<1> QED BY <1>1, <1>3 DEF BrowserUrl

LEMMA SetShows ==
  ASSUME HistoryOK, RestOK, NEW url \in Url, SetBrowserUrl(url), mode' = mode
  PROVE  BrowserUrl' = url /\ (Computed => entries'[pos'].page \in Nat)
<1>1. BrowserPageId \in Nat BY PageIdType
<1>2. CASE BrowserUrl = url \/ nav.option = "replace"
  BY <1>1, <1>2, ReplaceShows DEF SetBrowserUrl
<1>3. CASE ~(BrowserUrl = url \/ nav.option = "replace")
  <2> DEFINE b == BrowserPageId + 1
             e == Entry(url, b)
  <2>1. e.url = url /\ (Computed => e.page = b) BY DEF Entry
  <2>2. e \in EntryType /\ b \in Nat BY <1>1, EntryTyped
  <2>3. entries' = Append(SubSeq(entries, 1, pos), e) /\ pos' = pos + 1
    BY <1>3 DEF SetBrowserUrl
  <2> HIDE DEF e, b
  <2>4. pos \in 1..Len(entries) /\ Len(entries) \in Nat BY DEF HistoryOK
  <2>5. SubSeq(entries, 1, pos) \in Seq(EntryType) /\ Len(SubSeq(entries, 1, pos)) = pos
    BY <2>4 DEF HistoryOK
  <2>6. entries'[pos'] = e BY <2>2, <2>3, <2>4, <2>5
  <2> QED BY <2>1, <2>2, <2>6 DEF BrowserUrl
<1> QED BY <1>2, <1>3

(* A call, a redirect or an event either starts a navigation or is skipped because the
   browser shows the URL already, or need not. *)
LEMMA ScheduleFollows ==
  ASSUME IInv, FollowInv, NEW r \in RequestType, NEW settled, r.stage = "recognize",
         Schedule(r, settled), UNCHANGED <<mode, entries, pos, going, page>>
  PROVE  FollowInv'
<1>1. TreeOK /\ NoNav.stage = "none" BY DEF IInv, NoNav
<1>2. /\ tree'.url = tree.url /\ tree'.ended = tree.ended
      /\ tree.hidden => tree'.hidden
      /\ \/ nav'.stage = "none" /\ (Shows \/ tree'.hidden)
         \/ nav'.stage = "recognize"
  <2>1. CASE SameUrl(r)
    <3>1. nav' = NoNav /\ tree' = [tree EXCEPT !.hidden = @ \/ Skip(r)]
      BY <2>1 DEF Schedule
    <3>2. BrowserUrl = tree.url \/ Skip(r) BY <2>1 DEF SameUrl
    <3>3. /\ tree'.url = tree.url /\ tree'.ended = tree.ended
          /\ tree'.hidden = (tree.hidden \/ Skip(r))
      BY <1>1, <3>1 DEF TreeOK, TreeType
    <3> QED BY <1>1, <3>1, <3>2, <3>3 DEF Shows
  <2>2. CASE ~SameUrl(r) BY <2>2 DEF Schedule
  <2> QED BY <2>1, <2>2
<1>3. (Shows => Shows') /\ (Computed' <=> Computed) /\ (Late' <=> Late)
      /\ (Placed' => Placed) /\ (HomeIn => HomeIn')
  BY <1>2 DEF Shows, BrowserUrl, Computed, Late, Placed, Counted, HomeIn
<1>4. Rewritten'
  BY <1>2, <1>3 DEF FollowInv, Rewritten
<1>5. Home' BY <1>3 DEF FollowInv, Home
<1>6. Resting' BY <1>2, <1>3 DEF Resting, Placed, Running
<1>7. Activating' BY <1>2 DEF Activating
<1> QED BY <1>4, <1>5, <1>6, <1>7 DEF FollowInv

(* Whatever is refused or fails, of the router's place: what RestoreHistory leaves. *)
LEMMA RestoreFollows ==
  ASSUME IInv, FollowInv, Running, NEW err \in BOOLEAN, err \/ nav.stage # "activate",
         RestoreHistory(err), Over, UNCHANGED <<mode, popped, page>>
  PROVE  FollowInv'
<1>0. HistoryOK /\ GoingOK /\ TreeOK /\ MementoOK /\ RestOK BY DEF IInv
<1>1. nav'.stage = "none" /\ ~Running' BY DEF Over, NoNav, Running
<1>2. page \in Nat /\ BrowserPageId \in Nat BY <1>0, PageIdType DEF RestOK
<1>3. (Computed' <=> Computed) /\ (Late' <=> Late) BY DEF Computed, Late
<1>4. Activating' BY <1>1 DEF Activating
<1>5. ASSUME ReplaceState(tree'.url, page), tree' \in TreeType
      PROVE  Shows' /\ (Computed => HomeIn')
  <2>1. tree'.url \in Url BY <1>5 DEF TreeType
  <2>2. BrowserUrl' = tree'.url /\ (Computed => entries'[pos'].page = page)
    BY <1>0, <1>2, <1>5, <2>1, ReplaceShows
  <2>3. pos' \in DOMAIN entries' BY <1>0, <1>2, <1>5, <2>1, ReplaceTyped DEF HistoryOK
  <2> QED BY <2>2, <2>3 DEF Shows, HomeIn, BrowserUrl
<1>6. CASE ~Computed
  <2>1. tree' \in TreeType /\ ReplaceState(tree'.url, page) /\ UNCHANGED going
    BY <1>0, <1>6 DEF RestoreHistory, TreeOK, MementoOK
  <2>2. Shows' BY <1>5, <2>1
  <2>3. Rewritten' BY <1>1, <1>6, <2>1, <2>2 DEF FollowInv, Rewritten
  <2>4. Home' /\ Resting' BY <1>3, <1>6 DEF Home, Resting, Late
  <2> QED BY <1>4, <2>3, <2>4 DEF FollowInv
<1>7. CASE Computed /\ page # BrowserPageId
  <2>1. going' = Append(going, page - BrowserPageId) /\ UNCHANGED <<entries, pos, tree>>
    BY <1>7 DEF RestoreHistory
  <2> DEFINE d == page - BrowserPageId
  <2>2. d \in Int \ {0} BY <1>2, <1>7
  <2>3. BrowserPageId' = BrowserPageId BY <2>1 DEF BrowserPageId, Computed
  <2>4. d' = d BY <2>3
  <2> HIDE DEF d
  <2>5. going' # <<>> /\ going'[Len(going')] = d BY <1>0, <2>1, <2>2 DEF GoingOK, d
  <2>6. Returns' BY <2>4, <2>5 DEF Returns, d
  <2>7. Resting' BY <2>6 DEF Resting
  <2>8. Home' BY <1>3, <2>1 DEF FollowInv, Home, Placed, Counted, HomeIn
  <2>9. Rewritten' BY <1>3, <1>7 DEF Rewritten
  <2> QED BY <1>4, <2>7, <2>8, <2>9 DEF FollowInv
<1>8. CASE Computed /\ page = BrowserPageId /\ nav.stage = "activate"
  <2>1. tree' \in TreeType /\ ReplaceState(tree'.url, page)
    BY <1>0, <1>8 DEF RestoreHistory, MementoOK
  <2>2. Shows' /\ HomeIn' BY <1>5, <1>8, <2>1
  <2>3. Rewritten' BY <1>3, <1>8 DEF Rewritten
  <2> QED BY <1>4, <2>2, <2>3 DEF FollowInv, Home, Resting
<1>9. CASE Computed /\ page = BrowserPageId /\ nav.stage # "activate"
  <2>1. UNCHANGED <<entries, pos, tree, going>> BY <1>9 DEF RestoreHistory
  <2>2. (Placed' <=> Placed) /\ (Shows => Shows') /\ (HomeIn <=> HomeIn')
    BY <2>1 DEF Placed, Counted, Shows, BrowserUrl, HomeIn
  <2>3. Home' BY <1>3, <2>2 DEF FollowInv, Home
  <2>4. Late /\ Placed => Shows BY <1>9, HomeIsNear DEF FollowInv, Home, Late, Placed
  <2>5. Resting' BY <1>3, <2>2, <2>4 DEF Resting
  <2>6. Rewritten' BY <1>3, <1>9 DEF Rewritten
  <2> QED BY <1>4, <2>3, <2>5, <2>6 DEF FollowInv
<1> QED BY <1>6, <1>7, <1>8, <1>9

LEMMA FollowInit == Init => FollowInv
<1> SUFFICES ASSUME Init PROVE FollowInv OBVIOUS
<1>1. going = <<>> /\ tree.ended = FALSE /\ nav.stage = "recognize"
  BY DEF Init, Request
<1> QED BY <1>1 DEF FollowInv, Rewritten, Home, Resting, Activating, Placed

(* A traversal leaves the router where it is, and the event it fires is not over. *)
LEMMA MoveFollows ==
  ASSUME FollowInv, Async, PoppedOK, NEW n \in Int, MoveBy(n), pos + n \in DOMAIN entries,
         entries[pos + n].url \in Url,
         UNCHANGED <<mode, entries, tree, page, nav>>, Computed \/ UNCHANGED going
  PROVE  FollowInv'
<1>1. popped' = Append(popped, entries[pos + n].url) BY DEF MoveBy
<1>2. popped' # <<>> BY <1>1 DEF PoppedOK
<1>3. (Computed' <=> Computed) /\ (Late' <=> Late) /\ (Placed' <=> Placed) /\ (HomeIn => HomeIn')
  BY DEF Computed, Late, Placed, Counted, HomeIn
<1>4. Rewritten' BY <1>2, <1>3 DEF FollowInv, Rewritten
<1>5. Home' BY <1>3 DEF FollowInv, Home
<1>6. Resting' BY <1>2 DEF Resting
<1>7. Activating' BY DEF Async, Activating
<1> QED BY <1>4, <1>5, <1>6, <1>7 DEF FollowInv

(* A traversal out of the history does nothing: it was not the one that leads back. *)
LEMMA GoneNowhere ==
  ASSUME IInv, FollowInv, Async, going # <<>>, pos + Head(going) \notin DOMAIN entries,
         going' = Tail(going), UNCHANGED <<mode, entries, pos, popped, tree, page, nav>>
  PROVE  FollowInv'
<1>0. GoingOK BY DEF IInv
<1>1. (Computed' <=> Computed) /\ (Late' <=> Late) /\ (Placed' <=> Placed)
      /\ (Running' <=> Running) /\ (HomeIn <=> HomeIn') /\ (Shows <=> Shows')
  BY DEF Computed, Late, Placed, Counted, Running, HomeIn, Shows, BrowserUrl
<1>2. Computed BY DEF FollowInv, Rewritten
<1>3. Rewritten' BY <1>1, <1>2 DEF Rewritten
<1>4. Home' BY <1>1 DEF FollowInv, Home
<1>5. Activating' BY DEF Async, Activating
<1>6. ASSUME Late, Placed, Returns, ~Shows PROVE Returns'
  <2> DEFINE d == page - BrowserPageId
  <2>1. pos + d \in DOMAIN entries
    BY <1>2, <1>6, HomeIsNear DEF FollowInv, Home, Placed
  <2>2. d' = d BY DEF BrowserPageId, Computed
  <2> HIDE DEF d
  <2>3. going[Len(going)] = d BY <1>6 DEF Returns, d
  <2>4. Len(going) # 1 BY <1>0, <2>1, <2>3 DEF GoingOK
  <2> DEFINE n == Len(going)
  <2>5. n \in Nat /\ n # 0 /\ n # 1 BY <1>0, <2>4, EmptySeq DEF GoingOK
  <2>6. Len(going') = n - 1 /\ \A i \in 1..Len(going') : going'[i] = going[i + 1]
    BY <1>0, HeadTailProperties DEF GoingOK
  <2> HIDE DEF n
  <2>7. going' # <<>> BY <2>5, <2>6, EmptySeq
  <2>8. going'[n - 1] = going[n] BY <2>5, <2>6
  <2>9. going'[Len(going')] = going[Len(going)] BY <2>6, <2>8 DEF n
  <2> QED BY <2>2, <2>3, <2>7, <2>9 DEF Returns, d
<1>7. Resting' BY <1>1, <1>6 DEF FollowInv, Resting
<1> QED BY <1>3, <1>4, <1>5, <1>7 DEF FollowInv

LEMMA FollowStep == IInv /\ FollowInv /\ [Next]_vars => FollowInv'
<1> SUFFICES ASSUME IInv, FollowInv, [Next]_vars PROVE FollowInv' OBVIOUS
<1> USE DEF history, manager
<1>0. /\ HistoryOK /\ GoingOK /\ PoppedOK /\ TreeOK /\ MementoOK /\ RestOK
      /\ NavOK /\ NavigatingIsPending
      /\ Rewritten /\ Home /\ Resting /\ Activating
  BY DEF IInv, FollowInv
<1>t. Running => Target[nav.url] \in Url /\ nav \in RequestType
  BY <1>0, NavOf, NavigationAssumption DEF RequestType
<1>u. mode.update \in {"deferred", "eager"} BY <1>0, NavigationAssumption DEF RestOK
<1>1. CASE Recognize
  <2>1. Running /\ nav.stage = "recognize" BY <1>1 DEF Recognize, Running
  <2>2. nav'.stage = "check" /\ nav'.url = nav.url /\ (Skip(nav)' <=> Skip(nav))
    BY <1>1, <1>t, <2>1 DEF Recognize, RequestType, Skip
  <2>3. UNCHANGED <<mode, going, popped, tree, page>> BY <1>1 DEF Recognize
  <2>4. (Computed' <=> Computed) /\ (Late' <=> Late) BY <2>3 DEF Computed, Late
  <2>5. ASSUME mode.update = "eager", ~Skip(nav) PROVE BrowserUrl' = Target[nav.url]
    <3>1. SetBrowserUrl(Target[nav.url]) BY <1>1, <2>5 DEF Recognize
    <3> QED BY <1>0, <1>t, <2>1, <2>3, <3>1, SetShows
  <2>6. Rewritten' BY <1>0, <2>2, <2>3, <2>4, <2>5 DEF Rewritten
  <2>7. Home'
    <3>1. CASE Late
      <4>1. UNCHANGED <<entries, pos>> BY <1>1, <3>1 DEF Recognize, Late
      <4> QED BY <1>0, <2>3, <2>4, <4>1 DEF Home, Placed, Counted, HomeIn
    <3>2. CASE ~Late BY <2>4, <3>2 DEF Home
    <3> QED BY <3>1, <3>2
  <2>8. Resting' /\ Activating' BY <2>2 DEF Resting, Activating, Running
  <2> QED BY <2>6, <2>7, <2>8 DEF FollowInv
<1>2. CASE Reject
  <2>1. Running /\ nav.stage # "activate" BY <1>2 DEF Reject, Running
  <2>2. RestoreHistory(FALSE) /\ Over /\ UNCHANGED <<mode, popped, page>>
    BY <1>2 DEF Reject
  <2> QED BY <2>1, <2>2, RestoreFollows
<1>3. ASSUME NEW url \in Url, Redirect(url) PROVE FollowInv'
  <2> DEFINE option == IF Skip(nav) THEN "skip"
                       ELSE IF mode.update = "eager" \/ nav.popstate THEN "replace" ELSE "none"
             r == Request(url, FALSE, option, nav.promise)
  <2>1. Running BY <1>3 DEF Redirect, Running
  <2>2. r \in RequestType /\ r.stage = "recognize"
    BY <1>t, <2>1 DEF Request, RequestType, OptionType
  <2>3. Schedule(r, {}) /\ UNCHANGED <<mode, entries, pos, going, page>>
    BY <1>3 DEF Redirect
  <2> HIDE DEF r, option
  <2> QED BY <2>2, <2>3, ScheduleFollows
<1>4. CASE Activate
  <2>1. Running /\ nav.stage = "check" BY <1>4 DEF Activate, Running
  <2>2. nav'.stage = "activate" BY <1>4, <1>t, <2>1 DEF Activate, RequestType
  <2>3. tree'.url = Target[nav.url] /\ tree'.ended = FALSE /\ tree'.hidden = Skip(nav)
    BY <1>4 DEF Activate
  <2>4. UNCHANGED <<mode, going, popped, page>> BY <1>4 DEF Activate
  <2>5. (Computed' <=> Computed) /\ (Late' <=> Late) BY <2>4 DEF Computed, Late
  <2>6. ASSUME mode.update = "deferred", ~Skip(nav)
        PROVE  Shows' /\ (Computed => entries'[pos'].page \in Nat)
    <3>1. SetBrowserUrl(Target[nav.url]) BY <1>4, <2>6 DEF Activate
    <3>2. BrowserUrl' = Target[nav.url] /\ (Computed => entries'[pos'].page \in Nat)
      BY <1>0, <1>t, <2>1, <2>4, <3>1, SetShows
    <3> QED BY <2>3, <3>2 DEF Shows
  <2>7. Home' /\ Resting' BY <2>2, <2>3 DEF Home, Resting, Placed
  <2>8. Activating' BY <2>3, <2>5, <2>6 DEF Activating, Late
  <2>9. ASSUME ~Computed, popped = <<>>, ~Skip(nav), mode.update = "eager" PROVE Shows'
    <3>1. UNCHANGED <<entries, pos>> BY <1>4, <2>9 DEF Activate
    <3>2. BrowserUrl = Target[nav.url] BY <1>0, <2>1, <2>9 DEF Rewritten
    <3> QED BY <2>3, <3>1, <3>2 DEF Shows, BrowserUrl
  <2>10. Rewritten' BY <1>0, <1>u, <2>2, <2>3, <2>4, <2>5, <2>6, <2>9 DEF Rewritten
  <2> QED BY <2>7, <2>8, <2>10 DEF FollowInv
<1>5. CASE Fail
  BY <1>5, RestoreFollows DEF Fail
<1>6. CASE End
  <2>1. nav.stage = "activate" /\ nav'.stage = "none" BY <1>6 DEF End, Over, NoNav
  <2>2. /\ page' = BrowserPageId
        /\ tree'.url = tree.url /\ tree'.hidden = tree.hidden
        /\ UNCHANGED <<mode, entries, pos, going, popped>>
    BY <1>0, <1>6 DEF End, TreeOK, TreeType
  <2>3. (Computed' <=> Computed) /\ (Late' <=> Late) /\ (Shows' <=> Shows)
    BY <2>2 DEF Computed, Late, Shows, BrowserUrl
  <2>4. Rewritten' BY <1>0, <2>1, <2>2, <2>3 DEF Rewritten
  <2>5. ASSUME Late, ~tree.hidden PROVE Shows' /\ HomeIn'
    <3>1. Shows /\ entries[pos].page \in Nat BY <1>0, <2>1, <2>5 DEF Activating
    <3>2. BrowserPageId = entries[pos].page
      BY <2>5, <3>1, NavigationAssumption DEF BrowserPageId, Late
    <3> QED BY <1>0, <2>2, <3>1, <3>2 DEF Shows, BrowserUrl, HomeIn, HistoryOK
  <2>6. Home' /\ Resting' BY <2>2, <2>3, <2>5 DEF Home, Resting, Placed
  <2>7. Activating' BY <2>1 DEF Activating
  <2> QED BY <2>4, <2>6, <2>7 DEF FollowInv
<1>7. ASSUME NEW url \in Url, NEW option \in OptionType, NEW popstate \in BOOLEAN,
             Supersede(url, popstate, option), UNCHANGED <<mode, entries, pos, going, page>>
      PROVE  FollowInv'
  <2> DEFINE settled == IF Running THEN {nav.promise} ELSE {}
             r == Request(url, popstate, option, NewPromise)
  <2>1. \E q \in Promises : q \notin open
    <3>1. open = {} \/ \E q \in Promises : open = {q}
      BY <1>0, NavOf DEF NavigatingIsPending, RequestType
    <3> QED BY <3>1 DEF Promises
  <2>2. NewPromise \in Promises BY <2>1 DEF NewPromise
  <2>3. r \in RequestType /\ r.stage = "recognize" BY <2>2 DEF Request, RequestType
  <2>4. Schedule(r, settled) BY <1>7 DEF Supersede
  <2> HIDE DEF r, settled
  <2> QED BY <1>7, <2>3, <2>4, ScheduleFollows
<1>8. ASSUME NEW url \in Url, NEW option \in Options, Navigate(url, option) PROVE FollowInv'
  <2>1. option \in OptionType BY NavigationAssumption DEF OptionType
  <2> QED BY <1>7, <1>8, <2>1 DEF Navigate
<1>9. ASSUME NEW n \in Int, Traverse(n) PROVE FollowInv'
  <2>1. /\ Async /\ MoveBy(n) /\ pos + n \in DOMAIN entries
        /\ UNCHANGED <<mode, entries, going, tree, page, nav>>
    BY <1>9 DEF Traverse
  <2>2. entries[pos + n] \in EntryType BY <1>0, <2>1 DEF HistoryOK
  <2>3. entries[pos + n].url \in Url BY <2>2 DEF EntryType
  <2> QED BY <1>0, <2>1, <2>3, MoveFollows
<1>10. CASE Gone
  <2>1. /\ Async /\ going # <<>> /\ MoveBy(Head(going)) /\ going' = Tail(going)
        /\ UNCHANGED <<mode, entries, tree, page, nav>>
    BY <1>10 DEF Gone
  <2>2. CASE pos + Head(going) \in DOMAIN entries
    <3>1. Head(going) \in Int BY <1>0, <2>1 DEF GoingOK
    <3>2. entries[pos + Head(going)] \in EntryType BY <1>0, <2>2 DEF HistoryOK
    <3>3. entries[pos + Head(going)].url \in Url BY <3>2 DEF EntryType
    <3>4. Computed BY <1>0, <2>1 DEF Rewritten
    <3> QED BY <1>0, <2>1, <2>2, <3>1, <3>3, <3>4, MoveFollows
  <2>3. CASE pos + Head(going) \notin DOMAIN entries
    <3>1. UNCHANGED <<pos, popped>> BY <2>1, <2>3 DEF MoveBy
    <3> QED BY <2>1, <2>3, <3>1, GoneNowhere
  <2> QED BY <2>2, <2>3
<1>11. CASE PopState
  <2>1. /\ Supersede(Head(popped), TRUE, "replace") /\ popped # <<>>
        /\ UNCHANGED <<mode, entries, pos, going, page>>
    BY <1>11 DEF PopState
  <2>2. Head(popped) \in Url BY <1>0, <2>1 DEF PoppedOK
  <2> QED BY <1>7, <2>1, <2>2 DEF OptionType
<1>12. ASSUME UNCHANGED <<mode, entries, pos, going, popped, tree, page, nav>>
       PROVE  FollowInv'
  <2>1. (Computed' <=> Computed) /\ (Late' <=> Late) /\ (Placed' <=> Placed)
        /\ (Running' <=> Running) /\ (HomeIn' <=> HomeIn) /\ (Shows' <=> Shows)
    BY <1>12 DEF Computed, Late, Placed, Counted, Running, HomeIn, Shows, BrowserUrl
  <2>2. Returns' <=> Returns BY <1>12 DEF Returns, BrowserPageId, Computed
  <2>3. Rewritten' BY <1>0, <1>12, <2>1 DEF Rewritten, BrowserUrl, Skip
  <2>4. Home' BY <1>0, <2>1 DEF Home
  <2>5. Resting' BY <1>0, <1>12, <2>1, <2>2 DEF Resting
  <2>6. Activating' BY <1>0, <1>12, <2>1 DEF Activating
  <2> QED BY <2>3, <2>4, <2>5, <2>6 DEF FollowInv
<1>13. CASE RemoveTasks
  BY <1>12, <1>13 DEF RemoveTasks
<1>14. CASE UNCHANGED vars
  BY <1>12, <1>14 DEF vars
<1> QED BY <1>1, <1>2, <1>3, <1>4, <1>5, <1>6, <1>8, <1>9, <1>10, <1>11, <1>13, <1>14
       DEF Next, System, Application

(* At rest the browser shows the URL of the router: with "replace" because everything
   that refuses or fails a navigation rewrites it, with "computed" because whatever the
   user or the router traversed is on its way back to an entry that is still there. *)
THEOREM UrlIsShown == Spec => []UrlFollows
<1>1. Init => IInv /\ FollowInv BY InitHolds, FollowInit
<1>2. IInv /\ FollowInv /\ [Next]_vars => (IInv /\ FollowInv)' BY StepHolds, FollowStep
<1>3. FollowInv => UrlFollows
  BY DEF FollowInv, Rewritten, Resting, Late, Placed, Returns, Shows, AtRest, UrlFollows, Running
<1> QED BY <1>1, <1>2, <1>3, PTL DEF Spec
=============================================================================
