----------------------------- MODULE Navigation -----------------------------
(***************************************************************************)
(* Navigations of the router (packages/router/src): the transition that    *)
(* navigation_transition.ts drives through guards and activation, the      *)
(* next one that supersedes it, what the HistoryStateManager writes to     *)
(* the session history of the browser and how it takes that back, and the  *)
(* pending tasks and promises of the calls.                                *)
(*                                                                         *)
(* Matching, guards and resolvers are asynchronous: anything may happen    *)
(* before they answer.  Activation is synchronous, but the components it   *)
(* creates may navigate.  The stages of a transition are "recognize",      *)
(* "check" (guards and resolvers), "activate" and, when it is over,        *)
(* "none".  Subscribers of the events of the router do not navigate.       *)
(***************************************************************************)
EXTENDS Integers, Sequences

CONSTANTS
  Url,
  Target,     \* the URL that the redirects of the configuration make of another
  Modes,      \* canceledNavigationResolution and urlUpdateStrategy, the pairs tried
  Options,    \* extras of a call: none, skipLocationChange or replaceUrl
  MaxCalls,   \* bound: navigations, redirects by guards and moves of the user
  None        \* the page id of an entry that has none

ASSUME NavigationAssumption ==
  /\ Target \in [Url -> Url]
  /\ Modes \subseteq [resolution : {"replace", "computed"}, update : {"deferred", "eager"}]
  /\ Options \subseteq {"none", "skip", "replace"}
  /\ MaxCalls \in Nat /\ None \notin Int

VARIABLES
  mode,         \* the options of the Router
  entries, pos, \* the session history: URL and routerPageId of each entry; the current one
  going,        \* history.go() called by the router and not yet done
  popped,       \* URLs of popstate events whose setTimeout has not fired
  tree,         \* currentUrlTree: its URL, whether the navigation to it has ended
                \* (lastSuccessfulId), and whether the browser need not show it
  memento,      \* stateMemento
  page,         \* currentPageId
  navigated,    \* of the Router
  nav,          \* the transition in progress
  open,         \* the promises that are not settled
  tasks,        \* whether there are pending tasks: those that wait for the end of
                \* a navigation, and those that a microtask is going to remove
  calls         \* counts against MaxCalls

history == <<entries, pos, going, popped>>
manager == <<tree, memento, page>>
vars == <<mode, history, manager, navigated, nav, open, tasks, calls>>

Computed == mode.resolution = "computed"
Running == nav.stage # "none"

(* Identities of promises; those of settled ones serve again. *)
Promises == 1..2
NoNav == [stage |-> "none"]

(* No code of the router runs: events of the browser and timers may come. *)
Async == nav.stage # "activate"

Skip(r) == r.option = "skip"

(* Types; in particular the router never asks the browser for history.go(0),
   which would reload the page. *)
TypeOK ==
  /\ mode \in Modes
  /\ entries \in Seq([url : Url, page : Nat \cup {None}]) /\ pos \in DOMAIN entries
  /\ going \in Seq(Int \ {0}) /\ popped \in Seq(Url)
  /\ {tree, memento} \subseteq [url : Url, ended : BOOLEAN, hidden : BOOLEAN]
  /\ page \in Nat /\ navigated \in BOOLEAN
  /\ nav \in [stage : {"recognize", "check", "activate"}, url : Url, popstate : BOOLEAN,
              option : {"none", "skip", "replace"}, promise : Promises] \cup {NoNav}
  /\ open \subseteq Promises
  /\ tasks \in [waiting : BOOLEAN, leaving : BOOLEAN]
  /\ calls \in 0..MaxCalls

-----------------------------------------------------------------------------
(* The session history *)

BrowserUrl == entries[pos].url

BrowserPageId == IF Computed /\ entries[pos].page # None THEN entries[pos].page ELSE page

Entry(url, p) == [url |-> url, page |-> IF Computed THEN p ELSE None]

ReplaceState(url, p) == entries' = [entries EXCEPT ![pos] = Entry(url, p)] /\ UNCHANGED pos

SetBrowserUrl(url) ==
  IF BrowserUrl = url \/ nav.option = "replace"
  THEN ReplaceState(url, BrowserPageId)
  ELSE /\ entries' = Append(SubSeq(entries, 1, pos), Entry(url, BrowserPageId + 1))
       /\ pos' = pos + 1

(* Mutant: historyGo() without the test of targetPagePosition. *)
RestoreHistoryUntested(err) ==
  /\ going' = IF Computed THEN Append(going, page - BrowserPageId) ELSE going
  /\ tree' = IF ~Computed /\ err THEN memento ELSE tree
  /\ IF Computed THEN UNCHANGED <<entries, pos>> ELSE ReplaceState(tree'.url, page)

(* err: restoringFromCaughtError. *)
RestoreHistory(err) ==
  \/ /\ Computed /\ page # BrowserPageId
     /\ going' = Append(going, page - BrowserPageId)
     /\ UNCHANGED <<entries, pos, tree>>
  \/ /\ Computed /\ page = BrowserPageId
     /\ IF nav.stage = "activate"
        THEN tree' = memento /\ ReplaceState(tree'.url, page)
        ELSE UNCHANGED <<entries, pos, tree>>
     /\ UNCHANGED going
  \/ /\ ~Computed
     /\ tree' = IF err THEN memento ELSE tree
     /\ ReplaceState(tree'.url, page)
     /\ UNCHANGED going

-----------------------------------------------------------------------------
(* scheduleNavigation() and the beginning of the transition *)

Request(url, popstate, option, promise) ==
  [stage |-> "recognize", url |-> url, popstate |-> popstate, option |-> option,
   promise |-> promise]

(* Neither the router nor the browser would get another URL. *)
SameUrl(r) == navigated /\ r.url = tree.url /\ (BrowserUrl = r.url \/ Skip(r))

(* afterNextNavigation(): every task waiting leaves. *)
Finished == tasks' = [waiting |-> FALSE, leaving |-> TRUE]

(* Mutant: NavigationSkipped does not end the wait of the pending tasks. *)
ScheduleUnheard(r, settled) ==
  IF SameUrl(r)
  THEN /\ nav' = NoNav
       /\ open' = open \ (settled \cup {r.promise})
       /\ tree' = [tree EXCEPT !.hidden = @ \/ Skip(r)]
       /\ UNCHANGED <<memento, tasks>>
  ELSE /\ nav' = r
       /\ open' = (open \ settled) \cup {r.promise}
       /\ tasks' = [tasks EXCEPT !.waiting = TRUE]
       /\ memento' = tree
       /\ UNCHANGED tree

Schedule(r, settled) ==
  IF SameUrl(r)
  THEN /\ nav' = NoNav
       /\ open' = open \ (settled \cup {r.promise})
       /\ Finished
       /\ tree' = [tree EXCEPT !.hidden = @ \/ Skip(r)]
       /\ UNCHANGED memento
  ELSE /\ nav' = r
       /\ open' = (open \ settled) \cup {r.promise}
       /\ tasks' = [tasks EXCEPT !.waiting = TRUE]
       /\ memento' = tree
       /\ UNCHANGED tree

NewPromise == CHOOSE p \in Promises : p \notin open

(* Mutant: the promise of the superseded navigation is not settled. *)
SupersedeSilently(url, popstate, option) ==
  Schedule(Request(url, popstate, option, NewPromise), {})

(* switchMap() drops the transition in progress, whose promise becomes false. *)
Supersede(url, popstate, option) ==
  Schedule(Request(url, popstate, option, NewPromise),
           IF Running THEN {nav.promise} ELSE {})

(* The initial navigation has been requested. *)
Init ==
  /\ mode \in Modes
  /\ \E u \in Url :
       /\ entries = <<[url |-> u, page |-> None]>>
       /\ nav = Request(u, FALSE, "replace", 1)
  /\ pos = 1 /\ going = <<>> /\ popped = <<>>
  /\ tree = [url |-> CHOOSE u \in Url : TRUE, ended |-> FALSE, hidden |-> FALSE]
  /\ memento = tree
  /\ page = 0 /\ navigated = FALSE
  /\ open = {1} /\ tasks = [waiting |-> TRUE, leaving |-> FALSE] /\ calls = 0

-----------------------------------------------------------------------------
(* The transition *)

Over == nav' = NoNav /\ open' = open \ {nav.promise} /\ Finished

Recognize ==
  /\ nav.stage = "recognize"
  /\ nav' = [nav EXCEPT !.stage = "check"]
  /\ IF mode.update = "eager" /\ ~Skip(nav)
     THEN SetBrowserUrl(Target[nav.url]) ELSE UNCHANGED <<entries, pos>>
  /\ UNCHANGED <<mode, going, popped, manager, navigated, open, tasks, calls>>

(* A guard of the route, or a resolver without data, refuses. *)
Reject ==
  /\ nav.stage \in {"recognize", "check"}
  /\ RestoreHistory(FALSE)
  /\ navigated' = TRUE
  /\ Over
  /\ UNCHANGED <<mode, popped, memento, page, calls>>

(* A guard answers with another URL: the promise is handed on. *)
Redirect(url) ==
  /\ nav.stage \in {"recognize", "check"} /\ calls < MaxCalls
  /\ LET option == IF Skip(nav) THEN "skip"
                   ELSE IF mode.update = "eager" \/ nav.popstate THEN "replace" ELSE "none"
     IN Schedule(Request(url, FALSE, option, nav.promise), {})
  /\ calls' = calls + 1
  /\ UNCHANGED <<mode, history, page, navigated>>

(* BeforeActivateRoutes *)
Activate ==
  /\ nav.stage = "check"
  /\ nav' = [nav EXCEPT !.stage = "activate"]
  /\ tree' = [url |-> Target[nav.url], ended |-> FALSE, hidden |-> Skip(nav)]
  /\ IF mode.update = "deferred" /\ ~Skip(nav)
     THEN SetBrowserUrl(Target[nav.url]) ELSE UNCHANGED <<entries, pos>>
  /\ UNCHANGED <<mode, going, popped, memento, page, navigated, open, tasks, calls>>

(* No route matches, or code of the application throws. *)
Fail ==
  /\ Running
  /\ RestoreHistory(TRUE)
  /\ Over
  /\ UNCHANGED <<mode, popped, memento, page, navigated, calls>>

(* Mutant: the page is the one that was current before. *)
EndOnPageBefore ==
  /\ nav.stage = "activate"
  /\ tree' = [tree EXCEPT !.ended = TRUE]
  /\ navigated' = TRUE
  /\ Over
  /\ UNCHANGED <<mode, history, memento, page, calls>>

(* NavigationEnd *)
End ==
  /\ nav.stage = "activate"
  /\ page' = BrowserPageId /\ tree' = [tree EXCEPT !.ended = TRUE]
  /\ navigated' = TRUE
  /\ Over
  /\ UNCHANGED <<mode, history, memento, calls>>

-----------------------------------------------------------------------------
(* The application, the user and the browser *)

(* router.navigateByUrl() *)
Navigate(url, option) ==
  /\ calls < MaxCalls
  /\ Supersede(url, FALSE, option)
  /\ calls' = calls + 1
  /\ UNCHANGED <<mode, history, page, navigated>>

(* A traversal fires popstate; the listener of the router starts a timer. *)
MoveBy(n) ==
  IF pos + n \in DOMAIN entries
  THEN pos' = pos + n /\ popped' = Append(popped, entries[pos + n].url)
  ELSE UNCHANGED <<pos, popped>>

(* The user goes back or forward. *)
Traverse(n) ==
  /\ Async /\ calls < MaxCalls
  /\ pos + n \in DOMAIN entries
  /\ MoveBy(n)
  /\ calls' = calls + 1
  /\ UNCHANGED <<mode, entries, going, manager, navigated, nav, open, tasks>>

Gone ==
  /\ Async /\ going # <<>>
  /\ MoveBy(Head(going))
  /\ going' = Tail(going)
  /\ UNCHANGED <<mode, entries, manager, navigated, nav, open, tasks, calls>>

(* navigateToSyncWithBrowser() *)
PopState ==
  /\ Async /\ popped # <<>>
  /\ popped' = Tail(popped)
  /\ Supersede(Head(popped), TRUE, "replace")
  /\ UNCHANGED <<mode, entries, pos, going, page, navigated, calls>>

RemoveTasks ==
  /\ Async /\ tasks.leaving
  /\ tasks' = [tasks EXCEPT !.leaving = FALSE]
  /\ UNCHANGED <<mode, history, manager, navigated, nav, open, calls>>

System == Recognize \/ Reject \/ Activate \/ Fail \/ End \/ Gone \/ PopState \/ RemoveTasks

Application ==
  \/ \E u \in Url : Redirect(u) \/ \E o \in Options : Navigate(u, o)
  \/ \E n \in {-2, -1, 1, 2} : Traverse(n)

Next == System \/ Application

Spec == Init /\ [][Next]_vars

(* Guards, resolvers and components return; traversals happen, timers fire. *)
FairSpec == Spec /\ WF_vars(System)

-----------------------------------------------------------------------------
(* No navigation, traversal or event of the browser is under way. *)
AtRest == ~Running /\ going = <<>> /\ popped = <<>>

(* "we need to ensure each page id in the browser history is 1 more than the
   previous entry" *)
Counted == \A i \in 1..Len(entries) - 1 :
  entries[i].page # None /\ entries[i + 1].page = entries[i].page + 1

(* At rest the browser shows the URL of the router, whatever was rejected, failed,
   redirected or superseded and whichever way the user moved meanwhile, unless a
   navigation was not to change the location.  With "computed" restoration this
   needs pages that are counted, the URL updated late, and a router whose last
   activation ended. *)
UrlFollows ==
  AtRest /\ ~tree.hidden =>
    /\ ~Computed => BrowserUrl = tree.url
    /\ Computed /\ mode.update = "deferred" /\ Counted /\ tree.ended => BrowserUrl = tree.url

(* Tasks wait, and keep the application unstable, exactly while a navigation runs,
   and then its promise is the only one not settled: whatever superseded or
   redirected it, no call is forgotten and none is answered for another. *)
NavigatingIsPending ==
  /\ tasks.waiting <=> Running
  /\ open = IF Running THEN {nav.promise} ELSE {}

RefusalsStop == <>[][~Reject /\ ~Fail]_vars

(* When the application no longer refuses or fails navigations, the traversals that
   take them back come to an end, and so do the navigations and their tasks. *)
NavigationsEnd ==
  RefusalsStop => <>[](AtRest /\ tasks = [waiting |-> FALSE, leaving |-> FALSE])
=============================================================================
