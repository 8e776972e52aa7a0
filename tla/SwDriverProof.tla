--------------------------- MODULE SwDriverProof ---------------------------
(***************************************************************************)
(* That the driver never looks up a version it does not have, and that its *)
(* tables survive a stop of the worker, for any number of versions,        *)
(* clients, drains and messages, and however often workers are stopped,    *)
(* pages come and go and writes fail.                                      *)
(*                                                                         *)
(* The first invariant, Inv, is about initialize(): no other activity      *)
(* moves it, and only it reads the tables, from which it takes the         *)
(* versions of the clients only as far as they have a manifest.            *)
(*                                                                         *)
(* The second, Full, is about the writes.  Each belongs to one activity    *)
(* that waits for it; before initialize() is done there is only its own;   *)
(* then the newest snapshot is what the driver holds unless a sync() has   *)
(* yet to take one; and the pin of a client is in every table that may     *)
(* have landed, or an activity that pins this client is not done writing.  *)
(***************************************************************************)
EXTENDS SwDriver, SequenceTheorems, FiniteSetTheorems, TLAPS

Others == Clients \cup Tasks

Shape == /\ act = [p \in Procs |-> act[p]] /\ "at" \in DOMAIN act[Boot]
         /\ DOMAIN clientVersionMap = Clients

Inv == Shape /\ VersionsKnown

LEMMA BootIsOther == Boot \in Procs /\ Boot \notin Others /\ Others \subseteq Procs
BY SwConstants DEF Procs, Others, Tasks

(* initialize() is where it was. *)
BootStays == Shape' /\ act'[Boot].at = act[Boot].at

LEMMA PutStays ==
  ASSUME Shape, NEW p \in Others, NEW a, act' = [act EXCEPT ![p] = a],
         DOMAIN clientVersionMap' = Clients
  PROVE  BootStays
BY BootIsOther DEF Shape, BootStays

(* The three ways in which an activity changes. *)
LEMMA GotoStays ==
  ASSUME Shape, NEW p \in Others, NEW l, Goto(p, l), DOMAIN clientVersionMap' = Clients
  PROVE  BootStays
BY BootIsOther DEF Shape, BootStays, Goto

LEMMA ServeStays ==
  ASSUME Shape, NEW p \in Others, NEW h, Serve(p, h), DOMAIN clientVersionMap' = Clients
  PROVE  BootStays
BY BootIsOther DEF Shape, BootStays, Serve

LEMMA FinishStays ==
  ASSUME Shape, NEW t \in Others, Finish(t), DOMAIN clientVersionMap' = Clients
  PROVE  BootStays
BY BootIsOther DEF Shape, BootStays, Finish

LEMMA TakeQueueStays ==
  ASSUME Shape, NEW t \in Others, TakeQueue(t), DOMAIN clientVersionMap' = Clients
  PROVE  BootStays
BY BootIsOther DEF Shape, BootStays, TakeQueue

(* An event may start initialize(), but does not complete it. *)
LEMMA AwaitStarts ==
  ASSUME Shape, NEW p \in Others, NEW a, Await(p, a), UNCHANGED known
  PROVE  Shape' /\ (act'[Boot].at = "done" => act[Boot].at = "done")
BY BootIsOther DEF Shape, Await, known

(* Nothing that VersionsKnown is about has changed. *)
LEMMA NothingNew ==
  ASSUME Inv, Shape', act'[Boot].at = "done" => act[Boot].at = "done", UNCHANGED known
  PROVE  Inv'
BY DEF Inv, VersionsKnown, known

LEMMA StaysNothingNew ==
  ASSUME Inv, BootStays, UNCHANGED known
  PROVE  Inv'
BY NothingNew DEF BootStays

(* A client is pinned to the latest version. *)
LEMMA PinKeeps ==
  ASSUME Inv, NEW p \in Others, NEW c, Pin(p, c),
         UNCHANGED <<latestHash, versions>>
  PROVE  Inv'
<1>1. DOMAIN clientVersionMap' = Clients BY DEF Inv, Shape, Pin
<1>2. BootStays BY <1>1, GotoStays DEF Inv, Pin
<1>3. ASSUME act[Boot].at = "done", NEW d \in Clients
      PROVE  clientVersionMap'[d] \in versions \cup {None}
  BY <1>3 DEF Inv, Shape, VersionsKnown, Pin
<1> QED BY <1>2, <1>3 DEF Inv, VersionsKnown, BootStays

LEMMA InitHolds == Init => Inv
<1> SUFFICES ASSUME Init PROVE Inv OBVIOUS
<1>1. act = [p \in Procs |-> Rest] /\ clientVersionMap = [c \in Clients |-> None]
  BY DEF Init, NoMap
<1>2. act[Boot] = Rest BY <1>1, BootIsOther
<1>3. Rest.at = "none" /\ "at" \in DOMAIN Rest BY DEF Rest
<1> QED BY <1>1, <1>2, <1>3 DEF Inv, Shape, VersionsKnown

(* initialize() takes over tables that can be used, or fresh ones. *)
LEMMA HydrateKeeps ==
  ASSUME NEW d, Valid(d), Hydrate(d)
  PROVE  /\ DOMAIN clientVersionMap' = Clients /\ latestHash' \in versions'
         /\ \A c \in Clients : clientVersionMap'[c] \in versions' \cup {None}
BY DEF Valid, Hydrate, Recovered

LEMMA BootKeeps ==
  ASSUME Inv, BootStep
  PROVE  Inv'
<1>1. ASSUME NEW l, Goto(Boot, l)
      PROVE  /\ act' = [p \in Procs |-> act'[p]] /\ "at" \in DOMAIN act'[Boot]
             /\ act'[Boot].at = l
  BY <1>1, BootIsOther DEF Inv, Shape, Goto
<1>2. CASE BootLoad
  BY <1>1, <1>2, HydrateKeeps DEF BootLoad, Inv, Shape, VersionsKnown
<1>3. CASE BootWritten
  <2>1. Valid(Fresh(act[Boot].ver)) BY DEF Valid, Fresh
  <2> QED BY <1>1, <1>3, <2>1, HydrateKeeps DEF BootWritten, Inv, Shape, VersionsKnown
<1>4. CASE BootStartOver
  BY <1>1, <1>4 DEF BootStartOver, driver, known, Inv, Shape, VersionsKnown
<1>5. CASE BootFails
  BY <1>1, <1>5 DEF BootFails, known, Inv, Shape, VersionsKnown
<1>6. CASE BootManifest
  <2>1. /\ act' = [p \in Procs |-> act'[p]] /\ "at" \in DOMAIN act'[Boot]
        /\ act'[Boot].at = "writing"
    BY <1>6, BootIsOther DEF BootManifest, Inv, Shape
  <2> QED BY <1>6, <2>1 DEF BootManifest, driver, known, Inv, Shape, VersionsKnown
<1> QED BY <1>2, <1>3, <1>4, <1>5, <1>6 DEF BootStep

LEMMA SnapshotKeeps ==
  ASSUME Inv, NEW p \in Others, TakeSnapshot(p)
  PROVE  Inv'
<1>1. UNCHANGED known BY DEF TakeSnapshot, driver
<1>2. BootStays BY <1>1, GotoStays DEF TakeSnapshot, known, Inv, Shape
<1> QED BY <1>1, <1>2, StaysNothingNew

LEMMA FetchKeeps ==
  ASSUME Inv, NEW c \in Clients, FetchStep(c)
  PROVE  Inv'
<1>0. c \in Others BY DEF Others
<1>s. ASSUME UNCHANGED known PROVE DOMAIN clientVersionMap' = Clients
  BY <1>s DEF known, Inv, Shape
<1>1. CASE FetchUninitialized(c) \/ FetchRejected(c) \/ FetchServe(c)
  <2>1. UNCHANGED known /\ act' = [act EXCEPT ![c] = Rest]
    BY <1>1 DEF FetchUninitialized, FetchRejected, FetchServe, driver
  <2> QED BY <1>0, <1>s, <2>1, PutStays, StaysNothingNew DEF Inv
<1>2. CASE FetchAssigned(c)
  <2>1. UNCHANGED known /\ Serve(c, latestHash) BY <1>2 DEF FetchAssigned, driver
  <2> QED BY <1>0, <1>s, <2>1, ServeStays, StaysNothingNew DEF Inv
<1>3. CASE FetchInitialized(c) \/ FetchClient(c)
  <2>1. /\ UNCHANGED <<latestHash, versions>>
        /\ \/ Pin(c, c)
           \/ UNCHANGED clientVersionMap /\ Goto(c, "getClient")
           \/ UNCHANGED clientVersionMap /\ \E h : Serve(c, h)
    BY <1>3 DEF FetchInitialized, AssignVersion, FetchClient
  <2>2. CASE Pin(c, c) BY <1>0, <2>1, <2>2, PinKeeps
  <2>3. CASE UNCHANGED clientVersionMap /\ Goto(c, "getClient")
    BY <1>0, <1>s, <2>1, <2>3, GotoStays, StaysNothingNew DEF Inv, known
  <2>4. CASE UNCHANGED clientVersionMap /\ \E h : Serve(c, h)
    BY <1>0, <1>s, <2>1, <2>4, ServeStays, StaysNothingNew DEF Inv, known
  <2> QED BY <2>1, <2>2, <2>3, <2>4
<1>4. CASE TakeSnapshot(c) BY <1>0, <1>4, SnapshotKeeps
<1> QED BY <1>1, <1>2, <1>3, <1>4 DEF FetchStep

(* The versions that cleanupCaches() keeps. *)
LEMMA CleanKeeps ==
  ASSUME Inv, NEW t \in Others, Clean(t)
  PROVE  Inv'
<1>1. /\ clientVersionMap' =
           [c \in Clients |-> IF c \in act[t].active THEN clientVersionMap[c] ELSE None]
      /\ versions' = versions \cap ({clientVersionMap'[c] : c \in Clients} \cup {latestHash})
      /\ act' = [act EXCEPT ![t].at = "sync", ![t].active = {}]
      /\ latestHash' = latestHash
  BY DEF Clean
<1>2. BootStays BY <1>1, BootIsOther DEF Inv, Shape, BootStays
<1>3. ASSUME act[Boot].at = "done"
      PROVE  /\ latestHash' \in versions'
             /\ \A c \in Clients : clientVersionMap'[c] \in versions' \cup {None}
  BY <1>1, <1>3 DEF Inv, VersionsKnown
<1> QED BY <1>2, <1>3 DEF Inv, VersionsKnown, BootStays

LEMMA InstallKeeps ==
  ASSUME Inv, NEW t \in Others, Install(t)
  PROVE  Inv'
<1>1. /\ versions' = versions \cup {act[t].ver} /\ latestHash' = act[t].ver
      /\ clientVersionMap' = clientVersionMap /\ Goto(t, "sync")
  BY DEF Install
<1>2. BootStays BY <1>1, GotoStays DEF Inv, Shape
<1> QED BY <1>1, <1>2 DEF Inv, VersionsKnown, BootStays

LEMMA TaskKeeps ==
  ASSUME Inv, NEW t \in Tasks, TaskStep(t)
  PROVE  Inv'
<1>0. t \in Others BY DEF Others
<1>s. ASSUME UNCHANGED known PROVE DOMAIN clientVersionMap' = Clients
  BY <1>s DEF known, Inv, Shape
<1>1. CASE MessageInitialized(t) \/ BeginCheck(t) \/ BeginOther(t)
  <2>1. /\ UNCHANGED known
        /\ (\E l : Goto(t, l)) \/ act' = [act EXCEPT ![t] = Rest]
    BY <1>1 DEF MessageInitialized, BeginCheck, BeginOther, driver
  <2> QED BY <1>0, <1>s, <2>1, GotoStays, PutStays, StaysNothingNew DEF Inv
<1>2. CASE Execute(t) \/ Drained(t)
  <2>1. UNCHANGED known /\ (TakeQueue(t) \/ act' = [act EXCEPT ![t] = Rest])
    BY <1>2 DEF Execute, Drained, driver
  <2> QED BY <1>0, <1>s, <2>1, TakeQueueStays, PutStays, StaysNothingNew DEF Inv
<1>3. CASE \/ CheckDone(t) \/ InstallFails(t) \/ InitializeFully(t)
           \/ TaskSynced(t) \/ TaskRejected(t)
  <2>1. UNCHANGED known /\ Finish(t)
    BY <1>3 DEF CheckDone, InstallFails, InitializeFully, TaskSynced, TaskRejected, driver
  <2> QED BY <1>0, <1>s, <2>1, FinishStays, StaysNothingNew DEF Inv
<1>4. CASE CheckFindsNew(t)
  <2>1. UNCHANGED known /\ act' = [act EXCEPT ![t].at = "install", ![t].ver = server]
    BY <1>4 DEF CheckFindsNew, driver
  <2>2. BootStays BY <1>0, <1>s, <2>1, BootIsOther DEF Inv, Shape, BootStays
  <2> QED BY <2>1, <2>2, StaysNothingNew
<1>5. CASE MatchAll(t)
  <2>1. /\ UNCHANGED known
        /\ \E A : act' = [act EXCEPT ![t].at = "clean", ![t].active = A]
    BY <1>5 DEF MatchAll, driver
  <2>2. PICK A : act' = [act EXCEPT ![t].at = "clean", ![t].active = A] BY <2>1
  <2>3. BootStays BY <1>0, <1>s, <2>1, <2>2, BootIsOther DEF Inv, Shape, BootStays
  <2> QED BY <2>1, <2>3, StaysNothingNew
<1>6. CASE Activate(t)
  <2> DEFINE c == Current(t)[2]
  <2>1. /\ UNCHANGED <<latestHash, versions>>
        /\ Pin(t, c) \/ (UNCHANGED clientVersionMap /\ Finish(t))
    BY <1>6 DEF Activate
  <2>2. CASE UNCHANGED clientVersionMap /\ Finish(t)
    BY <1>0, <1>s, <2>1, <2>2, FinishStays, StaysNothingNew DEF Inv, known
  <2>3. CASE Pin(t, c) BY <1>0, <2>1, <2>3, PinKeeps
  <2> QED BY <2>1, <2>2, <2>3
<1>7. CASE Clean(t) BY <1>0, <1>7, CleanKeeps
<1>8. CASE Install(t) BY <1>0, <1>8, InstallKeeps
<1>9. CASE TakeSnapshot(t) BY <1>0, <1>9, SnapshotKeeps
<1> QED BY <1>1, <1>2, <1>3, <1>4, <1>5, <1>6, <1>7, <1>8, <1>9 DEF TaskStep

(* A write that ends may wake initialize(), which is not done with that. *)
LEMMA WriteKeeps ==
  ASSUME Inv, NEW p, NEW l, l # "done", Goto(p, l), UNCHANGED known
  PROVE  Inv'
<1>1. Shape' /\ (act'[Boot].at = "done" => act[Boot].at = "done")
  BY BootIsOther DEF Inv, Shape, Goto, known
<1> QED BY <1>1, NothingNew

LEMMA EnvironmentKeeps ==
  ASSUME Inv, Environment
  PROVE  Inv'
<1>1. ASSUME NEW c \in Clients, NEW n \in BOOLEAN, FetchEvent(c, n) PROVE Inv'
  <2>1. UNCHANGED known /\ \E a : Await(c, a) BY <1>1 DEF FetchEvent, driver
  <2>2. c \in Others BY DEF Others
  <2> QED BY <2>1, <2>2, AwaitStarts, NothingNew DEF Inv
<1>2. ASSUME NEW t \in Messages, NEW task, MessageEvent(t, task) PROVE Inv'
  <2>1. UNCHANGED known /\ \E a : Await(t, a) BY <1>2 DEF MessageEvent, driver
  <2>2. t \in Others BY DEF Others, Tasks
  <2> QED BY <2>1, <2>2, AwaitStarts, NothingNew DEF Inv
<1>3. CASE WritesFail
  <2>1. UNCHANGED known /\ Goto(Head(syncs).by, "rejected") BY <1>3 DEF WritesFail, driver
  <2> QED BY <2>1, WriteKeeps
<1>4. ASSUME UNCHANGED known, UNCHANGED act PROVE Inv'
  BY <1>4, NothingNew DEF Inv, Shape, known
<1>5. ASSUME NEW c \in Clients, FetchIgnored(c) \/ ClientCloses(c) PROVE Inv'
  BY <1>4, <1>5 DEF FetchIgnored, ClientCloses, driver
<1>6. ASSUME NEW h \in Hashes, Deploy(h) PROVE Inv'
  BY <1>4, <1>6 DEF Deploy, driver
<1>7. CASE Terminate
  <2>1. act' = [p \in Procs |-> Rest] /\ DOMAIN clientVersionMap' = Clients
    BY <1>7 DEF Terminate, NoMap
  <2>2. act'[Boot] = Rest BY <2>1, BootIsOther
  <2>3. Rest.at = "none" /\ "at" \in DOMAIN Rest BY DEF Rest
  <2> QED BY <2>1, <2>2, <2>3 DEF Inv, Shape, VersionsKnown
<1> QED BY <1>1, <1>2, <1>3, <1>5, <1>6, <1>7 DEF Environment

LEMMA StepHolds == Inv /\ [Next]_vars => Inv'
<1> SUFFICES ASSUME Inv, [Next]_vars PROVE Inv' OBVIOUS
<1>1. CASE BootStep BY <1>1, BootKeeps
<1>2. ASSUME NEW c \in Clients, FetchStep(c) PROVE Inv' BY <1>2, FetchKeeps
<1>3. ASSUME NEW t \in Tasks, TaskStep(t) PROVE Inv' BY <1>3, TaskKeeps
<1>4. CASE WritesLand
  <2>1. UNCHANGED known /\ Goto(Head(syncs).by, "written") BY <1>4 DEF WritesLand, driver
  <2> QED BY <2>1, WriteKeeps
<1>5. CASE Environment BY <1>5, EnvironmentKeeps
<1>6. CASE UNCHANGED vars
  <2>1. UNCHANGED known /\ UNCHANGED act BY <1>6 DEF vars, driver
  <2> QED BY <2>1, NothingNew DEF Inv, Shape, known
<1> QED BY <1>1, <1>2, <1>3, <1>4, <1>5, <1>6 DEF Next

(* driver.ts:97, "If a ManifestHash appears here, it is also present in the versions
   map": the lookup of a version never fails, neither for a client nor for the latest. *)
THEOREM LookupsSucceed == Spec => []VersionsKnown
<1>1. Inv => VersionsKnown BY DEF Inv
<1> QED BY <1>1, InitHolds, StepHolds, PTL DEF Spec

-----------------------------------------------------------------------------
(* What an activity keeps over its awaits is enough for what it does next. *)
Working == {"manifest", "install", "matchAll", "clean", "initFully", "sync", "writing",
            "written", "rejected"}

(* What the idle queue holds: an activation is never put off. *)
IdleTask == ({"check", "navcheck", "cleanup"} \X {None}) \cup ({"initialize"} \X Hashes)

Sane(p, a) ==
  /\ a \in Activity
  /\ p \in Drains => a.todo \in Seq(IdleTask)
  /\ p \in Tasks /\ a.at \in Working => a.todo # <<>>
  /\ a.at = "install" => a.ver \in Hashes
  /\ p = Boot /\ a.at \in {"writing", "written"} => a.ver \in Hashes

Acts == act \in [Procs -> Activity] /\ \A p \in Procs : Sane(p, act[p])

(* Every write in flight belongs to an activity that waits for it. *)
Writers ==
  \A i \in DOMAIN syncs :
    /\ act[syncs[i].by].at = "writing"
    /\ \A j \in DOMAIN syncs : syncs[i].by = syncs[j].by => i = j

(* Until initialize() is done, nobody else has come past ensureInitialized(). *)
Early ==
  act[Boot].at # "done" =>
    /\ \A p \in Others : act[p].at \in {"none", "init"}
    /\ queue = <<>> /\ ~timer

(* The only write then is that of the fresh tables. *)
BootAlone ==
  /\ act[Boot].at \notin {"writing", "done"} => syncs = <<>>
  /\ act[Boot].at = "writing" => syncs = <<[by |-> Boot, snap |-> Fresh(act[Boot].ver)]>>
  /\ act[Boot].at = "written" => disk = Fresh(act[Boot].ver)

(* Activity a of p is a request of client c that pins it, or an activation. *)
Pins(p, a, c) ==
  p = c \/ (p \in Messages /\ a.todo # <<>> /\ Head(a.todo) = <<"activate", c>>)

Holds(d, c, v) == d.assignments[c] = v /\ v \in d.manifests

(* The tables as they will be when no write is in flight any more. *)
Newest == IF syncs = <<>> THEN disk ELSE syncs[Len(syncs)].snap

Matches(d) ==
  d.manifests = versions /\ d.latest = latestHash /\ Recovered(d) = clientVersionMap

(* The version v of c is in the tables whatever has landed, or will be from the
   write of an activity that pins c on. *)
Secured(c, v) ==
  \/ \E p \in Others : Pins(p, act[p], c) /\ act[p].at = "sync"
  \/ \E i \in DOMAIN syncs :
       /\ Pins(syncs[i].by, act[syncs[i].by], c)
       /\ \A j \in DOMAIN syncs : j >= i => Holds(syncs[j].snap, c, v)
  \/ Holds(disk, c, v) /\ \A j \in DOMAIN syncs : Holds(syncs[j].snap, c, v)

Stored ==
  act[Boot].at = "done" /\ count["fault"] = 0 =>
    /\ (\A p \in Others : act[p].at # "sync") => Matches(Newest)
    /\ \A c \in Clients \ remapped :
         clientVersionMap[c] # None => Secured(c, clientVersionMap[c])

(* The types, by groups of variables. *)
TKnown == /\ latestHash \in Hash /\ versions \subseteq Hashes
          /\ clientVersionMap \in [Clients -> Hash]
TReady == ready \in {"NORMAL", "EXISTING_CLIENTS_ONLY", "SAFE_MODE"}
TIdle == scheduledNavUpdateCheck \in BOOLEAN /\ timer \in BOOLEAN /\ queue \in Seq(IdleTask)
TStore == /\ syncs \in Seq([by : Procs, snap : Tables]) /\ disk \in Tables
          /\ remapped \subseteq Clients
TPages == /\ server \in Hashes /\ document \in [Clients -> Hash]
          /\ clients \in [Clients -> {"new", "loading", "open", "closed"}]
TCount == count \in [Rare -> Nat] /\ \A r \in Rare : count[r] <= Bounds[r]

Types == TKnown /\ TReady /\ TIdle /\ TStore /\ TPages /\ TCount

Full == Inv /\ TypeOK /\ Types /\ Acts /\ Writers /\ Early /\ BootAlone /\ Stored

-----------------------------------------------------------------------------
(* Activities and what becomes of them. *)
LEMMA ActivityFields ==
  ASSUME NEW a \in Activity, NEW l \in At
  PROVE  /\ [a EXCEPT !.at = l] \in Activity
         /\ [a EXCEPT !.at = l].at = l /\ [a EXCEPT !.at = l].ver = a.ver
         /\ [a EXCEPT !.at = l].todo = a.todo
BY DEF Activity

LEMMA ActivityVer ==
  ASSUME NEW a \in Activity, NEW l \in At, NEW h \in Hash
  PROVE  /\ [a EXCEPT !.at = l, !.ver = h] \in Activity
         /\ [a EXCEPT !.at = l, !.ver = h].at = l /\ [a EXCEPT !.at = l, !.ver = h].ver = h
         /\ [a EXCEPT !.at = l, !.ver = h].todo = a.todo
BY DEF Activity

LEMMA ActivityTodo ==
  ASSUME NEW a \in Activity, NEW l \in At, NEW s \in Seq(Task)
  PROVE  /\ [a EXCEPT !.at = l, !.todo = s] \in Activity
         /\ [a EXCEPT !.at = l, !.todo = s].at = l
         /\ [a EXCEPT !.at = l, !.todo = s].todo = s
BY DEF Activity

LEMMA ActivityActive ==
  ASSUME NEW a \in Activity, NEW l \in At, NEW A \in SUBSET Clients
  PROVE  /\ [a EXCEPT !.at = l, !.active = A] \in Activity
         /\ [a EXCEPT !.at = l, !.active = A].at = l
         /\ [a EXCEPT !.at = l, !.active = A].ver = a.ver
         /\ [a EXCEPT !.at = l, !.active = A].todo = a.todo
BY DEF Activity

LEMMA RestActivity ==
  Rest \in Activity /\ Rest.at = "none" /\ Rest.ver = None /\ Rest.todo = <<>>
BY EmptySeq DEF Rest, Activity, Hash, At

(* Activity p is a from now on, and no other has changed. *)
Moved(p, a) ==
  Acts' /\ act'[p] = a /\ \A q \in Procs : q # p => act'[q] = act[q]

LEMMA PutMoves ==
  ASSUME Acts, NEW p \in Procs, NEW a, Sane(p, a), act' = [act EXCEPT ![p] = a]
  PROVE  Moved(p, a)
<1>1. a \in Activity BY DEF Sane
<1>2. act' \in [Procs -> Activity] /\ act'[p] = a BY <1>1 DEF Acts
<1>3. \A q \in Procs : q # p => act'[q] = act[q] BY DEF Acts
<1>4. \A q \in Procs : Sane(q, act'[q]) BY <1>2, <1>3 DEF Acts
<1> QED BY <1>2, <1>3, <1>4 DEF Moved, Acts

LEMMA GotoMoves ==
  ASSUME Acts, NEW p \in Procs, NEW l \in At, Goto(p, l),
         p \in Tasks /\ l \in Working => act[p].todo # <<>>,
         l = "install" => act[p].ver \in Hashes,
         p = Boot /\ l \in {"writing", "written"} => act[p].ver \in Hashes
  PROVE  \E a : Moved(p, a) /\ a.at = l /\ a.todo = act[p].todo /\ a.ver = act[p].ver
<1> DEFINE a == [act[p] EXCEPT !.at = l]
<1>1. act[p] \in Activity /\ None \in Hash BY DEF Acts, Hash
<1>2. a \in Activity /\ a.at = l /\ a.todo = act[p].todo /\ a.ver = act[p].ver
  BY <1>1, ActivityFields
<1>3. act' = [act EXCEPT ![p] = a] BY DEF Goto, Acts
<1> HIDE DEF a
<1>4. Sane(p, a) BY <1>2 DEF Acts, Sane
<1>5. Moved(p, a) BY <1>3, <1>4, PutMoves
<1> QED BY <1>2, <1>5

LEMMA ServeMoves ==
  ASSUME Acts, NEW p \in Procs, NEW h \in Hash, Serve(p, h)
  PROVE  \E a : Moved(p, a) /\ a.at = "serve"
<1> DEFINE a == [act[p] EXCEPT !.at = "serve", !.ver = h]
<1>1. act[p] \in Activity /\ "serve" \in At BY DEF Acts, At
<1>2. a \in Activity /\ a.at = "serve" /\ a.todo = act[p].todo BY <1>1 DEF Activity
<1>3. act' = [act EXCEPT ![p] = a] BY DEF Serve, Acts
<1> HIDE DEF a
<1>4. Sane(p, a) BY <1>2 DEF Acts, Sane, Working
<1> QED BY <1>2, <1>3, <1>4, PutMoves

LEMMA RestMoves ==
  ASSUME Acts, NEW p \in Procs, act' = [act EXCEPT ![p] = Rest]
  PROVE  Moved(p, Rest)
<1>1. Sane(p, Rest) BY RestActivity, EmptySeq DEF Sane, Working
<1> QED BY <1>1, PutMoves

LEMMA FinishMoves ==
  ASSUME Acts, NEW t \in Tasks, act[t].todo # <<>>, Finish(t)
  PROVE  \E a : Moved(t, a) /\ a.at = "next"
<1> DEFINE s == Tail(act[t].todo)
           a == [Rest EXCEPT !.at = "next", !.todo = s]
<1>1. t \in Procs /\ act[t].todo \in Seq(Task) BY DEF Acts, Activity, Procs
<1>2. s \in Seq(Task) /\ "next" \in At BY <1>1, HeadTailProperties DEF At
<1>3. t \in Drains => s \in Seq(IdleTask)
  <2>1. t \in Drains => act[t].todo \in Seq(IdleTask) BY <1>1 DEF Acts, Sane
  <2> QED BY <2>1, HeadTailProperties
<1> HIDE DEF s
<1>4. a \in Activity /\ a.at = "next" /\ a.todo = s BY <1>2, RestActivity DEF Activity
<1>5. act' = [act EXCEPT ![t] = a] BY DEF Finish, s
<1> HIDE DEF a
<1>6. Sane(t, a) BY <1>3, <1>4 DEF Sane, Working
<1> QED BY <1>1, <1>4, <1>5, <1>6, PutMoves

-----------------------------------------------------------------------------
(* What is kept of the tables, by kind of step. *)
Safe == Writers /\ Early /\ BootAlone /\ Stored

LEMMA OthersAre ==
  /\ Boot \notin Others /\ Boot \in Procs /\ Procs = Others \cup {Boot}
  /\ Clients \subseteq Others /\ Tasks \subseteq Others
BY SwConstants DEF Procs, Others, Tasks

LEMMA SyncTypes ==
  ASSUME TypeOK
  PROVE  /\ syncs \in Seq([by : Procs, snap : Tables]) /\ Len(syncs) \in Nat
         /\ DOMAIN syncs = 1..Len(syncs)
         /\ \A i \in DOMAIN syncs : syncs[i].by \in Procs /\ syncs[i].snap \in Tables
         /\ syncs = <<>> <=> Len(syncs) = 0
<1>1. syncs \in Seq([by : Procs, snap : Tables]) BY DEF TypeOK
<1>2. /\ Len(syncs) \in Nat /\ DOMAIN syncs = 1..Len(syncs)
      /\ \A i \in DOMAIN syncs : syncs[i] \in [by : Procs, snap : Tables]
  BY <1>1, LenProperties, ElementOfSeq
<1> QED BY <1>1, <1>2, EmptySeq

(* p was neither about to write nor writing. *)
LEMMA WritersStay ==
  ASSUME TypeOK, Writers, NEW p \in Procs, NEW a, Moved(p, a), UNCHANGED syncs,
         act[p].at # "writing"
  PROVE  Writers'
<1>1. \A i \in DOMAIN syncs : syncs[i].by \in Procs BY SyncTypes
<1>2. \A i \in DOMAIN syncs : act'[syncs[i].by] = act[syncs[i].by]
  BY <1>1 DEF Moved, Writers
<1> QED BY <1>2 DEF Writers

LEMMA SecuredStays ==
  ASSUME TypeOK, Writers, NEW p \in Procs, NEW a, Moved(p, a), UNCHANGED <<syncs, disk>>,
         act[p].at \notin {"sync", "writing"}, NEW c, NEW v, Secured(c, v)
  PROVE  Secured(c, v)'
<1>1. \A i \in DOMAIN syncs : syncs[i].by \in Procs BY SyncTypes
<1>2. \A i \in DOMAIN syncs : act'[syncs[i].by] = act[syncs[i].by]
  BY <1>1 DEF Moved, Writers
<1>3. CASE \E q \in Others : Pins(q, act[q], c) /\ act[q].at = "sync"
  <2>1. PICK q \in Others : Pins(q, act[q], c) /\ act[q].at = "sync" BY <1>3
  <2>2. act'[q] = act[q] BY <2>1, OthersAre DEF Moved
  <2>3. Pins(q, act'[q], c) /\ act'[q].at = "sync" BY <2>1, <2>2
  <2> QED BY <2>3 DEF Secured
<1>4. CASE \E i \in DOMAIN syncs :
             /\ Pins(syncs[i].by, act[syncs[i].by], c)
             /\ \A j \in DOMAIN syncs : j >= i => Holds(syncs[j].snap, c, v)
  BY <1>2, <1>4 DEF Secured
<1>5. CASE Holds(disk, c, v) /\ \A j \in DOMAIN syncs : Holds(syncs[j].snap, c, v)
  BY <1>5 DEF Secured
<1> QED BY <1>3, <1>4, <1>5 DEF Secured

(* A step that neither changes what is stored nor the maps to be stored. *)
LEMMA WalkKeeps ==
  ASSUME Full, NEW p \in Others, NEW a, Moved(p, a), UNCHANGED <<known, syncs, disk, remapped>>,
         act[p].at \notin {"sync", "writing"}, a.at \notin {"sync", "writing"},
         act[Boot].at = "done" \/ (a.at \in {"none", "init"} /\ UNCHANGED <<queue, timer>>),
         count'["fault"] = count["fault"]
  PROVE  Safe'
<1>1. TypeOK /\ Writers /\ p \in Procs /\ act'[Boot] = act[Boot]
  BY OthersAre DEF Moved, Full
<1>2. Writers' BY <1>1, WritersStay
<1>3. Early' BY <1>1, OthersAre DEF Full, Early, Moved
<1>4. BootAlone' BY <1>1 DEF Full, BootAlone
<1>5. Stored'
  <2> SUFFICES ASSUME act'[Boot].at = "done", count'["fault"] = 0
               PROVE  /\ (\A q \in Others : act'[q].at # "sync") => Matches(Newest)'
                      /\ \A c \in Clients \ remapped' :
                           clientVersionMap'[c] # None => Secured(c, clientVersionMap[c])'
    BY DEF Stored
  <2>1. (\A q \in Others : act'[q].at # "sync") => \A q \in Others : act[q].at # "sync"
    BY OthersAre DEF Moved
  <2>2. (\A q \in Others : act'[q].at # "sync") => Matches(Newest)'
    BY <1>1, <2>1 DEF Full, Stored, Matches, Newest, known
  <2>3. ASSUME NEW c \in Clients \ remapped', clientVersionMap'[c] # None
        PROVE  Secured(c, clientVersionMap[c])'
    <3>1. clientVersionMap' = clientVersionMap BY DEF known
    <3>2. Secured(c, clientVersionMap[c]) BY <1>1, <2>3, <3>1 DEF Full, Stored
    <3>3. ASSUME NEW v, Secured(c, v) PROVE Secured(c, v)' BY <1>1, <3>3, SecuredStays
    <3>4. PICK v : v = clientVersionMap[c] OBVIOUS
    <3>5. Secured(c, v)' BY <3>2, <3>3, <3>4
    <3> QED BY <3>1, <3>4, <3>5 DEF Secured
  <2> QED BY <2>2, <2>3
<1> QED BY <1>2, <1>3, <1>4, <1>5 DEF Safe

(* The maps are changed, and p is about to write them: a client gets a version
   only from an activity that pins it. *)
LEMMA ChangeKeeps ==
  ASSUME Full, NEW p \in Others, NEW a, Moved(p, a), UNCHANGED <<syncs, disk, remapped>>,
         act[p].at \notin {"sync", "writing"}, a.at = "sync", act[Boot].at = "done",
         count'["fault"] = count["fault"],
         \A c \in Clients : \/ clientVersionMap'[c] \in {clientVersionMap[c], None}
                            \/ Pins(p, a, c)
  PROVE  Safe'
<1>1. TypeOK /\ Writers /\ p \in Procs /\ act'[Boot] = act[Boot] /\ act[Boot].at = "done"
  BY OthersAre DEF Moved, Full, Early
<1>2. Writers' BY <1>1, WritersStay
<1>3. Early' /\ BootAlone' BY <1>1 DEF Full, Early, BootAlone
<1>4. p \in Others /\ act'[p].at = "sync" BY DEF Moved
<1>5. Stored'
  <2> SUFFICES ASSUME NEW c \in Clients \ remapped', count'["fault"] = 0,
                      clientVersionMap'[c] # None
               PROVE  Secured(c, clientVersionMap[c])'
    BY <1>4 DEF Stored
  <2>1. CASE Pins(p, a, c)
    <3>1. Pins(p, act'[p], c) BY <2>1 DEF Moved
    <3> QED BY <3>1, <1>4 DEF Secured
  <2>2. CASE clientVersionMap'[c] = clientVersionMap[c]
    <3>1. Secured(c, clientVersionMap[c]) BY <1>1, <2>2 DEF Full, Stored
    <3>2. ASSUME NEW v, Secured(c, v) PROVE Secured(c, v)' BY <1>1, <3>2, SecuredStays
    <3>3. PICK v : v = clientVersionMap[c] OBVIOUS
    <3>4. Secured(c, v)' BY <3>1, <3>2, <3>3
    <3> QED BY <2>2, <3>3, <3>4 DEF Secured
  <2> QED BY <2>1, <2>2
<1> QED BY <1>2, <1>3, <1>5 DEF Safe

(* Only the world outside changes, or idle.trigger() finds nothing to do. *)
LEMMA StillKeeps ==
  ASSUME Full, UNCHANGED <<act, known, syncs, disk, remapped, queue>>,
         timer' = timer \/ (timer' = (timer \/ queue' # <<>>)),
         count'["fault"] = count["fault"]
  PROVE  Safe'
<1>1. Writers' /\ BootAlone' BY DEF Full, Writers, BootAlone
<1>2. Early' BY DEF Full, Early
<1>3. Stored'
  BY DEF Full, Stored, Matches, Newest, Secured, known
<1> QED BY <1>1, <1>2, <1>3 DEF Safe

LEMMA DoneBy ==
  ASSUME Full, NEW p \in Others, act[p].at \notin {"none", "init"}
  PROVE  act[Boot].at = "done"
BY DEF Full, Early

(* TakeSnapshot: what is to be written is what the driver holds. *)
LEMMA SnapshotIs ==
  ASSUME Full, act[Boot].at = "done"
  PROVE  LET d == [manifests |-> versions, assignments |-> clientVersionMap,
                   latest |-> latestHash]
         IN  /\ d \in Tables /\ Matches(d)
             /\ \A c \in Clients :
                  clientVersionMap[c] # None => Holds(d, c, clientVersionMap[c])
<1> DEFINE d == [manifests |-> versions, assignments |-> clientVersionMap,
                 latest |-> latestHash]
<1>1. d.manifests = versions /\ d.assignments = clientVersionMap /\ d.latest = latestHash
  OBVIOUS
<1>2. d \in Tables BY DEF Full, TypeOK, Tables
<1>3. \A c \in Clients : clientVersionMap[c] \in versions \cup {None}
  BY DEF Full, Inv, VersionsKnown
<1> HIDE DEF d
<1>4. clientVersionMap = [c \in Clients |-> clientVersionMap[c]] BY DEF Full, TypeOK
<1>5. Recovered(d) = clientVersionMap BY <1>1, <1>3, <1>4 DEF Recovered
<1>6. \A c \in Clients : clientVersionMap[c] # None => Holds(d, c, clientVersionMap[c])
  BY <1>1, <1>3 DEF Holds
<1> QED BY <1>1, <1>2, <1>5, <1>6 DEF Matches, d

LEMMA AppendIs ==
  ASSUME NEW S, NEW s \in Seq(S), NEW e \in S
  PROVE  /\ Append(s, e) \in Seq(S) /\ Append(s, e) # <<>> /\ Len(s) \in Nat
         /\ Len(Append(s, e)) = Len(s) + 1 /\ Append(s, e)[Len(s) + 1] = e
         /\ DOMAIN Append(s, e) = 1..(Len(s) + 1)
         /\ \A i \in 1..Len(s) : Append(s, e)[i] = s[i]
BY LenProperties, AppendProperties, EmptySeq

LEMMA TakeSnapshotSafe ==
  ASSUME Full, NEW p \in Others, TakeSnapshot(p), NEW a, Moved(p, a), a.at = "writing",
         a.todo = act[p].todo
  PROVE  Safe' /\ syncs' \in Seq([by : Procs, snap : Tables])
<1> DEFINE d == [manifests |-> versions, assignments |-> clientVersionMap,
                 latest |-> latestHash]
           w == [by |-> p, snap |-> d]
           n == Len(syncs) + 1
<1>1. act[p].at = "sync" /\ act[Boot].at = "done" /\ act'[Boot] = act[Boot] /\ p \in Procs
  BY OthersAre, DoneBy DEF TakeSnapshot, Moved
<1>2. /\ d \in Tables /\ Matches(d)
      /\ \A c \in Clients : clientVersionMap[c] # None => Holds(d, c, clientVersionMap[c])
  BY <1>1, SnapshotIs
<1>3. /\ syncs' = Append(syncs, w)
      /\ UNCHANGED <<known, disk, remapped, queue, timer, count>>
  BY DEF TakeSnapshot, driver, idle, world
<1>4. syncs \in Seq([by : Procs, snap : Tables]) /\ DOMAIN syncs = 1..Len(syncs)
      /\ \A i \in DOMAIN syncs : syncs[i].by \in Procs
  BY SyncTypes DEF Full
<1>5. w \in [by : Procs, snap : Tables] BY <1>1, <1>2
<1>w. w.by = p /\ w.snap = d OBVIOUS
<1> HIDE DEF d, w
<1>6. /\ syncs' \in Seq([by : Procs, snap : Tables]) /\ syncs' # <<>>
      /\ n \in Nat /\ Len(syncs') = n /\ syncs'[n] = w /\ DOMAIN syncs' = 1..n
      /\ Len(syncs) \in Nat
      /\ \A i \in DOMAIN syncs : i \in 1..n /\ i # n /\ syncs'[i] = syncs[i]
      /\ \A i \in 1..n : i = n \/ i \in DOMAIN syncs
  BY <1>3, <1>4, <1>5, AppendIs
<1> HIDE DEF n
<1>7. /\ act'[p] = a
      /\ \A i \in DOMAIN syncs : syncs[i].by # p /\ act'[syncs[i].by] = act[syncs[i].by]
  BY <1>1, <1>4 DEF Moved, Full, Writers
<1>8. Writers'
  <2>1. ASSUME NEW i \in 1..n PROVE act'[syncs'[i].by].at = "writing"
    BY <1>6, <1>7, <1>w DEF Full, Writers
  <2>2. ASSUME NEW i \in 1..n, NEW j \in 1..n, syncs'[i].by = syncs'[j].by PROVE i = j
    <3>1. CASE i = n \/ j = n BY <3>1, <2>2, <1>6, <1>7, <1>w
    <3>2. CASE i # n /\ j # n BY <3>2, <2>2, <1>6 DEF Full, Writers
    <3> QED BY <3>1, <3>2
  <2> QED BY <2>1, <2>2, <1>6 DEF Writers
<1>9. Early' /\ BootAlone' BY <1>1 DEF Early, BootAlone
<1>10. Stored'
  <2> SUFFICES ASSUME act'[Boot].at = "done", count'["fault"] = 0
               PROVE  /\ Matches(Newest)'
                      /\ \A c \in Clients \ remapped' :
                           clientVersionMap'[c] # None => Secured(c, clientVersionMap[c])'
    BY DEF Stored
  <2>1. Newest' = d BY <1>6, <1>w DEF Newest
  <2>2. Matches(Newest)' BY <1>2, <1>3, <2>1 DEF Matches, known
  <2>3. ASSUME NEW c \in Clients \ remapped', clientVersionMap'[c] # None,
               NEW v, v = clientVersionMap[c]
        PROVE  Secured(c, v)'
    <3>1. Holds(d, c, v) /\ Secured(c, v)
      BY <1>1, <1>2, <1>3, <2>3 DEF Full, Stored, known
    <3>2. Holds(syncs'[n].snap, c, v) BY <3>1, <1>6, <1>w
    <3>3. CASE \E q \in Others : Pins(q, act[q], c) /\ act[q].at = "sync"
      <4>1. PICK q \in Others : Pins(q, act[q], c) /\ act[q].at = "sync" BY <3>3
      <4>2. CASE q = p
        <5>1. Pins(syncs'[n].by, act'[syncs'[n].by], c)
          BY <4>1, <4>2, <1>6, <1>7, <1>w DEF Pins
        <5>2. \A j \in DOMAIN syncs' : j >= n => j = n BY <1>6
        <5> QED BY <5>1, <5>2, <3>2, <1>6 DEF Secured
      <4>3. CASE q # p
        <5>1. act'[q] = act[q] BY <4>3, OthersAre DEF Moved
        <5> QED BY <4>1, <5>1 DEF Secured
      <4> QED BY <4>2, <4>3
    <3>4. CASE \E i \in DOMAIN syncs :
                 /\ Pins(syncs[i].by, act[syncs[i].by], c)
                 /\ \A j \in DOMAIN syncs : j >= i => Holds(syncs[j].snap, c, v)
      <4>1. PICK i \in DOMAIN syncs :
              /\ Pins(syncs[i].by, act[syncs[i].by], c)
              /\ \A j \in DOMAIN syncs : j >= i => Holds(syncs[j].snap, c, v)
        BY <3>4
      <4>2. i \in DOMAIN syncs' /\ Pins(syncs'[i].by, act'[syncs'[i].by], c)
        BY <4>1, <1>6, <1>7
      <4>3. \A j \in DOMAIN syncs' : j >= i => Holds(syncs'[j].snap, c, v)
        BY <4>1, <3>2, <1>6
      <4> QED BY <4>2, <4>3 DEF Secured
    <3>5. CASE Holds(disk, c, v) /\ \A j \in DOMAIN syncs : Holds(syncs[j].snap, c, v)
      <4>1. Holds(disk', c, v) BY <3>5, <1>3
      <4>2. \A j \in DOMAIN syncs' : Holds(syncs'[j].snap, c, v) BY <3>5, <3>2, <1>6
      <4> QED BY <4>1, <4>2 DEF Secured
    <3> QED BY <3>1, <3>3, <3>4, <3>5 DEF Secured
  <2>4. ASSUME NEW c \in Clients \ remapped', clientVersionMap'[c] # None
        PROVE  Secured(c, clientVersionMap[c])'
    <3>1. clientVersionMap' = clientVersionMap BY <1>3 DEF known
    <3>2. PICK v : v = clientVersionMap[c] OBVIOUS
    <3>3. Secured(c, v)' BY <2>3, <2>4, <3>2
    <3> QED BY <3>1, <3>2, <3>3 DEF Secured
  <2> QED BY <2>2, <2>4
<1> QED BY <1>6, <1>8, <1>9, <1>10 DEF Safe

(* The first write in flight ends: the tables are those of its snapshot, or,
   after a fault, anything. *)
LEMMA WriteEnds ==
  ASSUME Full, syncs # <<>>, NEW a, Moved(Head(syncs).by, a),
         a.at \in {"written", "rejected"}, a.ver = act[Head(syncs).by].ver,
         syncs' = Tail(syncs), UNCHANGED <<known, remapped, queue, timer>>,
         \/ disk' = Head(syncs).snap /\ count' = count
         \/ a.at = "rejected" /\ count'["fault"] # 0
  PROVE  Safe' /\ syncs' \in Seq([by : Procs, snap : Tables])
<1> DEFINE p == Head(syncs).by
           n == Len(syncs)
<1>1. /\ syncs \in Seq([by : Procs, snap : Tables]) /\ n \in Nat /\ n # 0
      /\ DOMAIN syncs = 1..n /\ Head(syncs) = syncs[1]
      /\ \A i \in DOMAIN syncs : syncs[i].by \in Procs
  BY SyncTypes DEF Full
<1>2. /\ syncs' \in Seq([by : Procs, snap : Tables]) /\ Len(syncs') = n - 1
      /\ DOMAIN syncs' = 1..(n - 1) /\ (syncs' = <<>> <=> n = 1)
  <2>1. /\ syncs' \in Seq([by : Procs, snap : Tables]) /\ Len(syncs') = n - 1
    BY <1>1, HeadTailProperties
  <2> QED BY <1>1, <2>1, LenProperties, EmptySeq
<1>3. \A i \in 1..(n - 1) : i + 1 \in 1..n /\ syncs'[i] = syncs[i + 1]
  BY <1>1, <1>2, HeadTailProperties
<1>4. p \in Procs /\ act[p].at = "writing" /\ p = syncs[1].by BY <1>1 DEF Full, Writers
<1> HIDE DEF p, n
<1>5. \A i \in 2..n : syncs[i].by # p /\ act'[syncs[i].by] = act[syncs[i].by]
  <2> TAKE i \in 2..n
  <2>1. i \in DOMAIN syncs /\ 1 \in DOMAIN syncs /\ i # 1 BY <1>1
  <2>2. syncs[i].by # p BY <2>1, <1>4 DEF Full, Writers
  <2> QED BY <2>1, <2>2, <1>1 DEF Moved, p
<1>6. Writers'
  <2>1. ASSUME NEW i \in 1..(n - 1) PROVE act'[syncs'[i].by].at = "writing"
    <3>1. i + 1 \in 2..n /\ i + 1 \in DOMAIN syncs BY <1>1
    <3> QED BY <3>1, <1>3, <1>5 DEF Full, Writers
  <2>2. ASSUME NEW i \in 1..(n - 1), NEW j \in 1..(n - 1), syncs'[i].by = syncs'[j].by
        PROVE  i = j
    <3>1. i + 1 \in DOMAIN syncs /\ j + 1 \in DOMAIN syncs BY <1>1
    <3>2. i + 1 = j + 1 BY <3>1, <2>2, <1>3 DEF Full, Writers
    <3> QED BY <3>2, <1>1
  <2> QED BY <2>1, <2>2, <1>2 DEF Writers
<1>7. act[Boot].at = "done" => act'[Boot] = act[Boot] /\ p # Boot
  BY <1>4, OthersAre DEF Moved, p
<1>8. act[Boot].at # "done" => p = Boot /\ n = 1
  <2> SUFFICES ASSUME act[Boot].at # "done" PROVE p = Boot /\ n = 1 OBVIOUS
  <2>1. p \notin Others BY <1>4 DEF Full, Early
  <2>2. p = Boot BY <2>1, <1>4, OthersAre
  <2>3. syncs = <<[by |-> Boot, snap |-> Fresh(act[Boot].ver)]>>
    BY <2>2, <1>4 DEF Full, BootAlone
  <2> QED BY <2>2, <2>3 DEF n
<1>9. Early' /\ BootAlone'
  <2>1. CASE act[Boot].at = "done" BY <2>1, <1>7 DEF Early, BootAlone
  <2>2. CASE act[Boot].at # "done"
    <3>1. p = Boot /\ syncs' = <<>> /\ act'[Boot] = a BY <2>2, <1>8, <1>2 DEF Moved, p
    <3>2. \A q \in Others : act'[q] = act[q] BY <3>1, OthersAre DEF Moved, p
    <3>3. Early' BY <2>2, <3>1, <3>2 DEF Full, Early
    <3>4. a.at = "written" => disk' = Fresh(a.ver)
      <4>1. syncs = <<[by |-> Boot, snap |-> Fresh(act[Boot].ver)]>>
        BY <3>1, <1>4 DEF Full, BootAlone
      <4>2. Head(syncs).snap = Fresh(act[Boot].ver) BY <4>1
      <4> QED BY <4>2, <3>1 DEF p
    <3> QED BY <3>1, <3>3, <3>4 DEF BootAlone
  <2> QED BY <2>1, <2>2
<1>10. Stored'
  <2> SUFFICES ASSUME act'[Boot].at = "done", count'["fault"] = 0
               PROVE  /\ (\A q \in Others : act'[q].at # "sync") => Matches(Newest)'
                      /\ \A c \in Clients \ remapped' :
                           clientVersionMap'[c] # None => Secured(c, clientVersionMap[c])'
    BY DEF Stored
  <2>1. act[Boot].at = "done" BY <1>8 DEF Moved, p
  <2>2. disk' = syncs[1].snap /\ count["fault"] = 0 BY <1>1
  <2>3. Newest' = Newest
    <3>1. n = 1 => Newest' = syncs[1].snap BY <1>2, <2>2 DEF Newest
    <3>2. n # 1 => n - 1 \in 1..(n - 1) /\ (n - 1) + 1 = n BY <1>1
    <3>3. n # 1 => Newest' = syncs[n].snap BY <1>2, <1>3, <3>2 DEF Newest
    <3> QED BY <3>1, <3>3 DEF Newest, n
  <2>4. ASSUME \A q \in Others : act'[q].at # "sync"
        PROVE  \A q \in Others : act[q].at # "sync"
    BY <2>4, <1>4, OthersAre DEF Moved, p
  <2>5. (\A q \in Others : act'[q].at # "sync") => Matches(Newest)'
    BY <2>1, <2>2, <2>3, <2>4 DEF Full, Stored, Matches, known
  <2>6. ASSUME NEW c \in Clients \ remapped', clientVersionMap'[c] # None,
               NEW v, v = clientVersionMap[c]
        PROVE  Secured(c, v)'
    <3>1. Secured(c, v) BY <2>1, <2>2, <2>6 DEF Full, Stored, known
    <3>2. CASE \E q \in Others : Pins(q, act[q], c) /\ act[q].at = "sync"
      <4>1. PICK q \in Others : Pins(q, act[q], c) /\ act[q].at = "sync" BY <3>2
      <4>2. act'[q] = act[q] BY <4>1, <1>4, OthersAre DEF Moved, p
      <4> QED BY <4>1, <4>2 DEF Secured
    <3>3. CASE \E i \in DOMAIN syncs :
                 /\ Pins(syncs[i].by, act[syncs[i].by], c)
                 /\ \A j \in DOMAIN syncs : j >= i => Holds(syncs[j].snap, c, v)
      <4>1. PICK i \in DOMAIN syncs :
              /\ Pins(syncs[i].by, act[syncs[i].by], c)
              /\ \A j \in DOMAIN syncs : j >= i => Holds(syncs[j].snap, c, v)
        BY <3>3
      <4>2. CASE i = 1
        <5>1. Holds(disk', c, v) BY <4>1, <4>2, <2>2, <1>1
        <5>2. \A j \in DOMAIN syncs' : Holds(syncs'[j].snap, c, v)
          BY <4>1, <4>2, <1>1, <1>2, <1>3
        <5> QED BY <5>1, <5>2 DEF Secured
      <4>3. CASE i # 1
        <5>1. i \in 2..n /\ i - 1 \in 1..(n - 1) /\ (i - 1) + 1 = i BY <4>3, <1>1
        <5>2. Pins(syncs'[i - 1].by, act'[syncs'[i - 1].by], c)
          BY <5>1, <4>1, <1>3, <1>5
        <5>3. ASSUME NEW j \in 1..(n - 1), j >= i - 1 PROVE Holds(syncs'[j].snap, c, v)
          <6>1. j + 1 \in DOMAIN syncs /\ j + 1 >= i BY <5>1, <5>3, <1>1
          <6> QED BY <6>1, <4>1, <1>3
        <5> QED BY <5>1, <5>2, <5>3, <1>2 DEF Secured
      <4> QED BY <4>2, <4>3
    <3>4. CASE Holds(disk, c, v) /\ \A j \in DOMAIN syncs : Holds(syncs[j].snap, c, v)
      <4>1. Holds(disk', c, v) BY <3>4, <2>2, <1>1
      <4>2. \A j \in DOMAIN syncs' : Holds(syncs'[j].snap, c, v) BY <3>4, <1>1, <1>2, <1>3
      <4> QED BY <4>1, <4>2 DEF Secured
    <3> QED BY <3>1, <3>2, <3>3, <3>4 DEF Secured
  <2>7. ASSUME NEW c \in Clients \ remapped', clientVersionMap'[c] # None
        PROVE  Secured(c, clientVersionMap[c])'
    <3>1. clientVersionMap' = clientVersionMap BY DEF known
    <3>2. PICK v : v = clientVersionMap[c] OBVIOUS
    <3>3. Secured(c, v)' BY <2>6, <2>7, <3>2
    <3> QED BY <3>1, <3>2, <3>3 DEF Secured
  <2> QED BY <2>5, <2>7
<1> QED BY <1>2, <1>6, <1>9, <1>10 DEF Safe

(* An event begins to wait for initialize(), which it may start. *)
LEMMA AwaitSafe ==
  ASSUME Full, NEW p \in Others, act[p].at = "none", NEW a, Sane(p, a), a.at = "init",
         Await(p, a), UNCHANGED <<known, syncs, disk, remapped, queue, timer>>,
         count'["fault"] = count["fault"]
  PROVE  Safe' /\ Acts'
<1> DEFINE b == [act[Boot] EXCEPT !.at = IF @ = "none" THEN "read" ELSE @]
           l == IF act[Boot].at = "none" THEN "read" ELSE act[Boot].at
<1>1. Boot \in Procs /\ p \in Procs /\ p # Boot /\ Boot \notin Tasks
  BY OthersAre
<1>2. act \in [Procs -> Activity] /\ a \in Activity BY DEF Full, Acts, Sane
<1>3. /\ act' = [act EXCEPT ![p] = a, ![Boot].at = IF @ = "none" THEN "read" ELSE @]
  BY DEF Await
<1>4. b \in Activity /\ b.at = l /\ b.ver = act[Boot].ver
  BY <1>1, <1>2 DEF Activity, At
<1>5. act' \in [Procs -> Activity] /\ act'[p] = a /\ act'[Boot] = b
      /\ \A q \in Procs : q # p /\ q # Boot => act'[q] = act[q]
  BY <1>1, <1>2, <1>3, <1>4
<1> HIDE DEF b, l
<1>6. Sane(Boot, b)
  <2>1. b.at = act[Boot].at \/ b.at = "read" BY <1>4 DEF l
  <2>2. Sane(Boot, act[Boot]) BY <1>1 DEF Full, Acts
  <2> QED BY <1>1, <1>4, <2>1, <2>2 DEF Sane, Tasks
<1>7. Acts' BY <1>5, <1>6 DEF Full, Acts
<1>8. \A i \in DOMAIN syncs : /\ syncs[i].by \in Procs /\ syncs[i].by # p
                              /\ act'[syncs[i].by].at = "writing"
                              /\ act'[syncs[i].by].todo = act[syncs[i].by].todo
  <2> TAKE i \in DOMAIN syncs
  <2>1. syncs[i].by \in Procs /\ act[syncs[i].by].at = "writing"
    BY SyncTypes DEF Full, Writers
  <2>2. CASE syncs[i].by = Boot
    <3>1. b.at = "writing" BY <2>1, <2>2, <1>4 DEF l
    <3>2. b.todo = act[Boot].todo BY <1>1, <1>2 DEF b, Activity
    <3> QED BY <2>1, <2>2, <3>1, <3>2, <1>1, <1>5
  <2>3. CASE syncs[i].by # Boot BY <2>1, <2>3, <1>5
  <2> QED BY <2>2, <2>3
<1>9. Writers' BY <1>8 DEF Full, Writers
<1>10. act'[Boot].at = "done" <=> act[Boot].at = "done" BY <1>4, <1>5 DEF l
<1>11. Early'
  <2>1. \A q \in Others : q \in Procs /\ q # Boot BY OthersAre
  <2> QED BY <1>5, <1>10, <2>1 DEF Full, Early
<1>12. BootAlone' BY <1>4, <1>5 DEF Full, BootAlone, l
<1>13. Stored'
  <2> SUFFICES ASSUME act'[Boot].at = "done", count'["fault"] = 0
               PROVE  /\ (\A q \in Others : act'[q].at # "sync") => Matches(Newest)'
                      /\ \A c \in Clients \ remapped' :
                           clientVersionMap'[c] # None => Secured(c, clientVersionMap[c])'
    BY DEF Stored
  <2>1. act[Boot].at = "done" BY <1>10
  <2>2. \A q \in Others : act'[q].at = "sync" <=> act[q].at = "sync" BY <1>5, OthersAre
  <2>3. (\A q \in Others : act'[q].at # "sync") => Matches(Newest)'
    BY <2>1, <2>2 DEF Full, Stored, Matches, Newest, known
  <2>4. ASSUME NEW c \in Clients \ remapped', clientVersionMap'[c] # None,
               NEW v, v = clientVersionMap[c]
        PROVE  Secured(c, v)'
    <3>1. Secured(c, v) BY <2>1, <2>4 DEF Full, Stored, known
    <3>2. CASE \E q \in Others : Pins(q, act[q], c) /\ act[q].at = "sync"
      <4>1. PICK q \in Others : Pins(q, act[q], c) /\ act[q].at = "sync" BY <3>2
      <4>2. act'[q] = act[q] BY <4>1, <1>5, OthersAre
      <4> QED BY <4>1, <4>2 DEF Secured
    <3>3. CASE \E i \in DOMAIN syncs :
                 /\ Pins(syncs[i].by, act[syncs[i].by], c)
                 /\ \A j \in DOMAIN syncs : j >= i => Holds(syncs[j].snap, c, v)
      BY <3>3, <1>8 DEF Secured, Pins
    <3>4. CASE Holds(disk, c, v) /\ \A j \in DOMAIN syncs : Holds(syncs[j].snap, c, v)
      BY <3>4 DEF Secured
    <3> QED BY <3>1, <3>2, <3>3, <3>4 DEF Secured
  <2>5. ASSUME NEW c \in Clients \ remapped', clientVersionMap'[c] # None
        PROVE  Secured(c, clientVersionMap[c])'
    <3>1. clientVersionMap' = clientVersionMap BY DEF known
    <3>2. PICK v : v = clientVersionMap[c] OBVIOUS
    <3>3. Secured(c, v)' BY <2>4, <2>5, <3>2
    <3> QED BY <3>1, <3>2, <3>3 DEF Secured
  <2> QED BY <2>3, <2>5
<1> QED BY <1>7, <1>9, <1>11, <1>12, <1>13 DEF Safe

-----------------------------------------------------------------------------
LEMMA IdleTasks == IdleTask \subseteq Task
BY DEF IdleTask, Task

LEMMA TypesAre == Types /\ Acts => TypeOK
<1>1. TIdle => queue \in Seq(Task) BY IdleTasks, SeqMonotonic DEF TIdle
<1> QED BY <1>1 DEF TypeOK, Types, TKnown, TReady, TIdle, TStore, TPages, TCount, Acts

LEMMA HappensTypes ==
  ASSUME TCount, NEW r \in Rare, Happens(r)
  PROVE  TCount' /\ (r # "fault" => count'["fault"] = count["fault"])
         /\ (r = "fault" => count'["fault"] # 0)
<1>1. Bounds \in [Rare -> Nat] /\ "fault" \in Rare BY SwConstants DEF Rare
<1>2. count' = [count EXCEPT ![r] = count[r] + 1] /\ count[r] < Bounds[r] BY DEF Happens
<1>3. count[r] \in Nat /\ Bounds[r] \in Nat BY <1>1 DEF TCount
<1>4. count' \in [Rare -> Nat] /\ count'[r] = count[r] + 1
      /\ \A x \in Rare : x # r => count'[x] = count[x]
  BY <1>2, <1>3 DEF TCount
<1>5. \A x \in Rare : count'[x] <= Bounds[x] BY <1>2, <1>3, <1>4 DEF TCount
<1>6. r = "fault" => count'["fault"] # 0 BY <1>3, <1>4
<1> QED BY <1>1, <1>4, <1>5, <1>6 DEF TCount

LEMMA SetToSeqIs ==
  ASSUME NEW S, IsFiniteSet(S), NEW T, S \subseteq T
  PROVE  SetToSeq(S) \in Seq(T)
<1> DEFINE n == Cardinality(S)
<1>1. n \in Nat /\ ExistsBijection(1..n, S) BY FS_CardinalityType
<1>2. PICK f \in [1..n -> S] : IsInjective(f)
  BY <1>1 DEF ExistsBijection, Bijection, Injection
<1>3. SetToSeq(S) \in [1..n -> S] BY <1>2 DEF SetToSeq
<1>4. SetToSeq(S) \in [1..n -> T] BY <1>3
<1> QED BY <1>1, <1>4, SeqDef

LEMMA ScheduleTypes ==
  ASSUME TIdle, NEW tasks \in Seq(IdleTask), NEW hs \in SUBSET Hashes, ScheduleAfter(tasks, hs),
         UNCHANGED scheduledNavUpdateCheck
  PROVE  TIdle'
<1> DEFINE S == {<<"initialize", h>> : h \in hs}
           f == [h \in hs |-> <<"initialize", h>>]
<1>1. IsFiniteSet(hs) BY SwConstants, FS_Subset
<1>2. f \in Surjection(hs, S) BY DEF Surjection
<1>3. IsFiniteSet(S) BY <1>1, <1>2, FS_Surjection
<1>4. S \subseteq IdleTask BY DEF IdleTask
<1>5. SetToSeq(S) \in Seq(IdleTask) BY <1>3, <1>4, SetToSeqIs
<1>6. <<<<"cleanup", None>>>> \in Seq(IdleTask) BY DEF IdleTask
<1> HIDE DEF S
<1>7. queue \o tasks \in Seq(IdleTask) BY ConcatProperties DEF TIdle
<1>8. (queue \o tasks) \o <<<<"cleanup", None>>>> \in Seq(IdleTask)
  BY <1>6, <1>7, ConcatProperties
<1>9. queue' \in Seq(IdleTask) BY <1>5, <1>8, ConcatProperties DEF ScheduleAfter, S
<1> QED BY <1>9 DEF TIdle, ScheduleAfter, Trigger

LEMMA RecoveredTypes ==
  ASSUME NEW d \in Tables, Valid(d)
  PROVE  /\ d.latest \in Hashes /\ d.manifests \subseteq Hashes
         /\ Recovered(d) \in [Clients -> Hash]
         /\ \A c \in Clients : Recovered(d)[c] \in d.manifests \cup {None}
<1>1. /\ d.latest \in d.manifests /\ d.manifests \subseteq Hashes
      /\ d.assignments \in [Clients -> Hash]
  BY DEF Valid, Tables
<1>2. \A c \in Clients : Recovered(d)[c] \in d.manifests \cup {None}
  BY <1>1 DEF Recovered
<1>3. Recovered(d) \in [Clients -> Hash] BY <1>1 DEF Recovered, Hash
<1> QED BY <1>1, <1>2, <1>3

LEMMA FreshTypes ==
  ASSUME NEW h \in Hashes
  PROVE  /\ Fresh(h) \in Tables /\ Valid(Fresh(h)) /\ Recovered(Fresh(h)) = NoMap
         /\ NoMap \in [Clients -> Hash]
<1>1. NoMap \in [Clients -> Hash] BY DEF NoMap, Hash
<1>2. Fresh(h) \in Tables /\ Fresh(h).assignments = NoMap
  BY <1>1 DEF Fresh, Tables, Hash
<1>3. Recovered(Fresh(h)) = NoMap BY <1>2 DEF Recovered, NoMap
<1> QED BY <1>1, <1>2, <1>3 DEF Valid, Fresh

-----------------------------------------------------------------------------
(* initialize() *)
(* It is done, and holds what the tables hold. *)
LEMMA HydrateSafe ==
  ASSUME Full, act[Boot].at \in {"read", "written"}, NEW a, Moved(Boot, a), a.at = "done",
         Valid(disk), Hydrate(disk), UNCHANGED <<syncs, disk>>,
         \A c \in Clients \ remapped' :
           clientVersionMap'[c] # None => disk.assignments[c] = clientVersionMap'[c]
  PROVE  Safe'
<1>1. syncs = <<>> /\ syncs' = <<>> /\ DOMAIN syncs' = {} BY DEF Full, BootAlone
<1>2. act'[Boot].at = "done" BY DEF Moved
<1>3. Writers' /\ Early' /\ BootAlone' BY <1>1, <1>2 DEF Writers, Early, BootAlone
<1>4. disk \in Tables /\ \A c \in Clients : Recovered(disk)[c] \in disk.manifests \cup {None}
  BY RecoveredTypes DEF Full, TypeOK
<1>5. Matches(Newest)' BY <1>1 DEF Matches, Newest, Hydrate
<1>6. ASSUME NEW c \in Clients \ remapped', clientVersionMap'[c] # None
      PROVE  Secured(c, clientVersionMap[c])'
  <2>1. clientVersionMap' = Recovered(disk) BY DEF Hydrate
  <2>2. Holds(disk', c, clientVersionMap'[c]) BY <2>1, <1>4, <1>6 DEF Holds
  <2> QED BY <1>1, <2>2 DEF Secured
<1> QED BY <1>3, <1>5, <1>6 DEF Safe, Stored

LEMMA BootFull ==
  ASSUME Full, BootStep
  PROVE  Acts' /\ Types' /\ Safe'
<1>1. Types /\ Acts /\ Boot \in Procs /\ Boot \notin Tasks BY OthersAre DEF Full
<1>2. act[Boot] \in Activity BY <1>1 DEF Acts
<1>3. CASE BootLoad
  <2>1. /\ act[Boot].at = "read" /\ Valid(disk) /\ Hydrate(disk)
        /\ ScheduleAfter(<<<<"check", None>>>>, disk.manifests) /\ Goto(Boot, "done")
        /\ remapped' =
             remapped \cup {c \in Clients : Recovered(disk)[c] # disk.assignments[c]}
        /\ UNCHANGED <<ready, scheduledNavUpdateCheck, syncs, disk, server, clients,
                       document, count>>
    BY <1>3 DEF BootLoad, world
  <2>2. PICK a : Moved(Boot, a) /\ a.at = "done"
    <3>1. "done" \in At /\ "done" \notin Working BY DEF At, Working
    <3> QED BY <2>1, <3>1, <1>1, GotoMoves
  <2>3. disk \in Tables BY <1>1 DEF Types, TStore
  <2>4. Safe'
    <3>1. \A c \in Clients \ remapped' :
            clientVersionMap'[c] # None => disk.assignments[c] = clientVersionMap'[c]
      BY <2>1 DEF Hydrate
    <3> QED BY <2>1, <2>2, <3>1, HydrateSafe
  <2>5. TKnown' BY <2>1, <2>3, RecoveredTypes DEF Hydrate, TKnown, Hash
  <2>6. TIdle'
    <3>1. <<<<"check", None>>>> \in Seq(IdleTask) BY DEF IdleTask
    <3>2. disk.manifests \in SUBSET Hashes BY <2>1, <2>3, RecoveredTypes
    <3> QED BY <1>1, <2>1, <3>1, <3>2, ScheduleTypes DEF Types
  <2>7. TReady' /\ TStore' /\ TPages' /\ TCount'
    BY <1>1, <2>1 DEF Types, TReady, TStore, TPages, TCount
  <2> QED BY <2>2, <2>4, <2>5, <2>6, <2>7 DEF Moved, Types
<1>4. CASE BootStartOver
  <2>1. /\ act[Boot].at = "read" /\ Goto(Boot, "manifest")
        /\ UNCHANGED <<ready, latestHash, versions, clientVersionMap, scheduledNavUpdateCheck,
                       queue, timer, syncs, disk, remapped, server, clients, document>>
        /\ Happens("fault") \/ count' = count
    BY <1>4 DEF BootStartOver, driver, known, idle, store
  <2>2. PICK a : Moved(Boot, a) /\ a.at = "manifest"
    <3>1. "manifest" \in At BY DEF At
    <3> QED BY <2>1, <3>1, <1>1, GotoMoves
  <2>3. syncs' = <<>> /\ DOMAIN syncs' = {} BY <2>1 DEF Full, BootAlone
  <2>4. act'[Boot].at = "manifest" BY <2>2 DEF Moved
  <2>5. \A q \in Others : act'[q] = act[q] BY <2>2, OthersAre DEF Moved
  <2>6. Safe'
    BY <2>1, <2>3, <2>4, <2>5
       DEF Full, Safe, Writers, Early, BootAlone, Stored
  <2>7. TCount' BY <2>1, <1>1, HappensTypes DEF Types, TCount, Rare
  <2>8. TKnown' /\ TReady' /\ TIdle' /\ TStore' /\ TPages'
    BY <1>1, <2>1 DEF Types, TKnown, TReady, TIdle, TStore, TPages
  <2> QED BY <2>2, <2>6, <2>7, <2>8 DEF Moved, Types
<1>5. CASE BootManifest
  <2> DEFINE a == [act[Boot] EXCEPT !.at = "writing", !.ver = server]
  <2>1. /\ act[Boot].at = "manifest"
        /\ act' = [act EXCEPT ![Boot].ver = server, ![Boot].at = "writing"]
        /\ syncs' = Append(syncs, [by |-> Boot, snap |-> Fresh(server)])
        /\ UNCHANGED <<ready, latestHash, versions, clientVersionMap, scheduledNavUpdateCheck,
                       queue, timer, disk, remapped, server, clients, document, count>>
    BY <1>5 DEF BootManifest, driver, known, idle, world
  <2>2. server \in Hashes BY <1>1 DEF Types, TPages
  <2>3. a \in Activity /\ a.at = "writing" /\ a.ver = server
    BY <1>2, <2>2 DEF Activity, At, Hash
  <2>4. act' = [act EXCEPT ![Boot] = a] BY <2>1, <1>1 DEF Acts
  <2> HIDE DEF a
  <2>5. Moved(Boot, a)
    <3>1. Sane(Boot, a) BY <2>2, <2>3, <1>1 DEF Sane, Tasks
    <3> QED BY <1>1, <2>4, <3>1, PutMoves
  <2>6. /\ syncs' = <<[by |-> Boot, snap |-> Fresh(server)]>>
        /\ DOMAIN syncs' = {1} /\ syncs'[1].by = Boot
    <3>1. syncs = <<>> BY <2>1 DEF Full, BootAlone
    <3>2. syncs' = <<[by |-> Boot, snap |-> Fresh(server)]>> BY <2>1, <3>1
    <3>3. DOMAIN syncs' = 1..1 /\ syncs'[1] = [by |-> Boot, snap |-> Fresh(server)]
      BY <3>2
    <3> QED BY <3>2, <3>3
  <2>7. act'[Boot] = a /\ \A q \in Others : act'[q] = act[q] BY <2>5, OthersAre DEF Moved
  <2>8. Writers' BY <2>3, <2>6, <2>7 DEF Writers
  <2>9. BootAlone' BY <2>3, <2>6, <2>7 DEF BootAlone
  <2>10. Early' /\ Stored' BY <2>1, <2>3, <2>7 DEF Full, Early, Stored
  <2>11. TStore'
    <3>1. [by |-> Boot, snap |-> Fresh(server)] \in [by : Procs, snap : Tables]
      BY <1>1, <2>2, FreshTypes
    <3>2. syncs' \in Seq([by : Procs, snap : Tables])
      BY <2>1, <3>1, <1>1, AppendProperties DEF Types, TStore
    <3> QED BY <2>1, <3>2, <1>1 DEF Types, TStore
  <2>12. TKnown' /\ TReady' /\ TIdle' /\ TPages' /\ TCount'
    BY <1>1, <2>1 DEF Types, TKnown, TReady, TIdle, TPages, TCount
  <2> QED BY <2>5, <2>8, <2>9, <2>10, <2>11, <2>12 DEF Moved, Types, Safe
<1>6. CASE BootWritten
  <2> DEFINE h == act[Boot].ver
  <2>1. /\ act[Boot].at = "written" /\ Hydrate(Fresh(h)) /\ ScheduleAfter(<<>>, {h})
        /\ Goto(Boot, "done")
        /\ UNCHANGED <<ready, scheduledNavUpdateCheck, syncs, disk, remapped, server,
                       clients, document, count>>
    BY <1>6 DEF BootWritten, Synced, store, world
  <2>2. h \in Hashes /\ disk = Fresh(h)
    BY <2>1, <1>1 DEF Acts, Sane, Full, BootAlone
  <2> HIDE DEF h
  <2>3. Fresh(h) \in Tables /\ Valid(Fresh(h)) /\ Recovered(Fresh(h)) = NoMap
    BY <2>2, FreshTypes
  <2>4. PICK a : Moved(Boot, a) /\ a.at = "done"
    <3>1. "done" \in At /\ "done" \notin Working BY DEF At, Working
    <3> QED BY <2>1, <3>1, <1>1, GotoMoves
  <2>5. Safe'
    <3>1. clientVersionMap' = NoMap BY <2>1, <2>3 DEF Hydrate
    <3>2. \A c \in Clients : clientVersionMap'[c] = None BY <3>1 DEF NoMap
    <3>3. Valid(disk) /\ Hydrate(disk) BY <2>1, <2>2, <2>3
    <3> QED BY <2>1, <2>4, <3>2, <3>3, HydrateSafe
  <2>6. TKnown'
    BY <2>1, <2>3, RecoveredTypes DEF Hydrate, TKnown, Hash
  <2>7. TIdle'
    <3>1. <<>> \in Seq(IdleTask) BY EmptySeq
    <3>2. {h} \in SUBSET Hashes BY <2>2
    <3> QED BY <1>1, <2>1, <3>1, <3>2, ScheduleTypes DEF Types
  <2>8. TReady' /\ TStore' /\ TPages' /\ TCount'
    BY <1>1, <2>1 DEF Types, TReady, TStore, TPages, TCount
  <2> QED BY <2>4, <2>5, <2>6, <2>7, <2>8 DEF Moved, Types
<1>7. CASE BootFails
  <2>1. /\ act[Boot].at \in {"manifest", "rejected"} /\ ready' = "SAFE_MODE"
        /\ Goto(Boot, "failed")
        /\ UNCHANGED <<latestHash, versions, clientVersionMap, scheduledNavUpdateCheck,
                       queue, timer, syncs, disk, remapped, server, clients, document, count>>
    BY <1>7 DEF BootFails, known, idle, store, world
  <2>2. PICK a : Moved(Boot, a) /\ a.at = "failed"
    <3>1. "failed" \in At /\ "failed" \notin Working BY DEF At, Working
    <3> QED BY <2>1, <3>1, <1>1, GotoMoves
  <2>3. syncs' = <<>> /\ DOMAIN syncs' = {} BY <2>1 DEF Full, BootAlone
  <2>4. act'[Boot].at = "failed" /\ \A q \in Others : act'[q] = act[q]
    BY <2>2, OthersAre DEF Moved
  <2>5. Safe'
    BY <2>1, <2>3, <2>4 DEF Full, Safe, Writers, Early, BootAlone, Stored
  <2>6. Types'
    BY <1>1, <2>1 DEF Types, TKnown, TReady, TIdle, TStore, TPages, TCount
  <2> QED BY <2>2, <2>5, <2>6 DEF Moved
<1> QED BY <1>3, <1>4, <1>5, <1>6, <1>7 DEF BootStep

-----------------------------------------------------------------------------
(* The activities. *)
Fine == Acts' /\ Types' /\ Safe'

LEMMA StepIn == ASSUME NEW p \in Others PROVE p \in Procs /\ p # Boot
BY OthersAre

(* A walk of p to another await. *)
LEMMA GotoSafe ==
  ASSUME Full, NEW p \in Others, NEW l \in At \ {"sync", "writing", "install"}, Goto(p, l),
         p \in Tasks /\ l \in Working => act[p].todo # <<>>,
         act[p].at \notin {"sync", "writing"}, act[Boot].at = "done",
         UNCHANGED <<known, syncs, disk, remapped, count>>
  PROVE  Acts' /\ Safe'
<1>1. Acts /\ p \in Procs /\ p # Boot BY StepIn DEF Full
<1>2. PICK a : Moved(p, a) /\ a.at = l BY <1>1, GotoMoves
<1> QED BY <1>2, WalkKeeps DEF Moved

LEMMA ServeSafe ==
  ASSUME Full, NEW p \in Others, NEW h \in Hash, Serve(p, h),
         act[p].at \notin {"sync", "writing"}, act[Boot].at = "done",
         UNCHANGED <<known, syncs, disk, remapped, count>>
  PROVE  Acts' /\ Safe'
<1>1. Acts /\ p \in Procs BY StepIn DEF Full
<1>2. PICK a : Moved(p, a) /\ a.at = "serve" BY <1>1, ServeMoves
<1> QED BY <1>2, WalkKeeps DEF Moved

LEMMA RestSafe ==
  ASSUME Full, NEW p \in Others, act' = [act EXCEPT ![p] = Rest],
         act[p].at \notin {"sync", "writing"},
         act[Boot].at = "done" \/ UNCHANGED <<queue, timer>>,
         UNCHANGED <<known, syncs, disk, remapped, count>>
  PROVE  Acts' /\ Safe'
<1>1. Acts /\ p \in Procs BY StepIn DEF Full
<1>2. Moved(p, Rest) /\ Rest.at = "none" BY <1>1, RestMoves, RestActivity
<1> QED BY <1>2, WalkKeeps DEF Moved

LEMMA FinishSafe ==
  ASSUME Full, NEW t \in Tasks, act[t].todo # <<>>, Finish(t),
         act[t].at \notin {"sync", "writing"}, act[Boot].at = "done",
         UNCHANGED <<known, syncs, disk, remapped, count>>
  PROVE  Acts' /\ Safe'
<1>1. Acts /\ t \in Others BY OthersAre DEF Full
<1>2. PICK a : Moved(t, a) /\ a.at = "next" BY <1>1, FinishMoves
<1> QED BY <1>1, <1>2, WalkKeeps DEF Moved

LEMMA PinSafe ==
  ASSUME Full, NEW p \in Others, NEW c \in Clients, Pin(p, c), Pins(p, act[p], c),
         p \in Tasks => act[p].todo # <<>>,
         act[p].at \notin {"sync", "writing"}, act[Boot].at = "done",
         UNCHANGED <<latestHash, versions, syncs, disk, remapped, count>>
  PROVE  Acts' /\ Safe' /\ TKnown'
<1>1. Acts /\ p \in Procs /\ p # Boot /\ TKnown BY StepIn DEF Full, Types
<1>2. "sync" \in At /\ Goto(p, "sync")
      /\ clientVersionMap' = [clientVersionMap EXCEPT ![c] = latestHash]
  BY DEF Pin, At
<1>3. PICK a : Moved(p, a) /\ a.at = "sync" /\ a.todo = act[p].todo
  BY <1>1, <1>2, GotoMoves
<1>4. \A d \in Clients : \/ clientVersionMap'[d] \in {clientVersionMap[d], None}
                         \/ Pins(p, a, d)
  <2>1. Pins(p, a, c) BY <1>3 DEF Pins
  <2> QED BY <1>1, <1>2, <2>1 DEF TKnown
<1>5. TKnown' BY <1>1, <1>2 DEF TKnown
<1>6. Safe' BY <1>3, <1>4, ChangeKeeps
<1> QED BY <1>3, <1>5, <1>6 DEF Moved

LEMMA TakeSnapshotFine ==
  ASSUME Full, NEW p \in Others, TakeSnapshot(p)
  PROVE  Fine
<1>1. Acts /\ p \in Procs /\ p # Boot /\ Types BY StepIn DEF Full
<1>2. act[p].at = "sync" /\ Goto(p, "writing")
      /\ UNCHANGED <<ready, latestHash, versions, clientVersionMap, scheduledNavUpdateCheck,
                     queue, timer, disk, remapped, server, clients, document, count>>
  BY DEF TakeSnapshot, driver, known, idle, world
<1>3. p \in Tasks => act[p].todo # <<>> BY <1>1, <1>2 DEF Acts, Sane, Working
<1>4. "writing" \in At BY DEF At
<1>5. PICK a : Moved(p, a) /\ a.at = "writing" /\ a.todo = act[p].todo
  BY <1>1, <1>2, <1>3, <1>4, GotoMoves
<1>6. Safe' /\ syncs' \in Seq([by : Procs, snap : Tables]) BY <1>5, TakeSnapshotSafe
<1>7. Types'
  BY <1>1, <1>2, <1>6 DEF Types, TKnown, TReady, TIdle, TStore, TPages, TCount
<1> QED BY <1>5, <1>6, <1>7 DEF Moved, Fine

LEMMA OpensTypes ==
  ASSUME TPages, NEW c \in Clients, Opens(c)
  PROVE  clients' \in [Clients -> {"new", "loading", "open", "closed"}]
BY DEF TPages, Opens

LEMMA VersionFailedTypes ==
  ASSUME TReady, NEW h, VersionFailed(h) \/ ready' = ready
  PROVE  TReady'
BY DEF TReady, VersionFailed

LEMMA AppendTask ==
  ASSUME TIdle, NEW k \in IdleTask, queue' = Append(queue, k) \/ queue' = queue
  PROVE  queue' \in Seq(IdleTask)
BY AppendProperties DEF TIdle

(* A request of client c. *)
LEMMA FetchFine ==
  ASSUME Full, NEW c \in Clients, FetchStep(c)
  PROVE  Fine
<1>1. c \in Others /\ c \in Procs /\ c # Boot /\ c \notin Tasks /\ Acts /\ Types
      /\ TKnown /\ TReady /\ TIdle /\ TStore /\ TPages /\ TCount
  BY OthersAre, SwConstants DEF Full, Types, Tasks
<1>2. act[c] \in Activity /\ act[c].ver \in Hash BY <1>1 DEF Acts, Activity
<1>3. CASE FetchUninitialized(c)
  <2>1. /\ act[c].at = "init" /\ act' = [act EXCEPT ![c] = Rest] /\ Opens(c)
        /\ UNCHANGED <<ready, latestHash, versions, clientVersionMap, scheduledNavUpdateCheck,
                       queue, timer, syncs, disk, remapped, server, document, count>>
    BY <1>3 DEF FetchUninitialized, driver, known, idle, store
  <2>2. Acts' /\ Safe' BY <1>1, <2>1, RestSafe DEF known
  <2>3. TPages' BY <1>1, <2>1, OpensTypes DEF TPages
  <2>4. Types' BY <1>1, <2>1, <2>3 DEF Types, TKnown, TReady, TIdle, TStore, TCount
  <2> QED BY <2>2, <2>4 DEF Fine
<1>4. CASE FetchInitialized(c)
  <2>1. /\ act[c].at = "init" /\ act[Boot].at = "done" /\ AssignVersion(c)
        /\ scheduledNavUpdateCheck' = (scheduledNavUpdateCheck \/ act[c].nav)
        /\ queue' = Append(queue, <<"navcheck", None>>) \/ queue' = queue
        /\ UNCHANGED <<ready, latestHash, versions, timer, syncs, disk, remapped,
                       server, clients, document, count>>
    BY <1>4 DEF FetchInitialized, store, world
  <2>2. Acts' /\ Safe' /\ TKnown'
    <3> DEFINE hash == clientVersionMap[c]
    <3>1. hash \in Hash BY <1>1 DEF TKnown
    <3>2. \/ Goto(c, "getClient") /\ UNCHANGED clientVersionMap
          \/ Serve(c, hash) /\ UNCHANGED clientVersionMap
          \/ Serve(c, None) /\ UNCHANGED clientVersionMap
          \/ Pin(c, c)
      BY <2>1 DEF AssignVersion
    <3>3. CASE Goto(c, "getClient") /\ UNCHANGED clientVersionMap
      <4>1. "getClient" \in At \ {"sync", "writing", "install"} BY DEF At
      <4> QED BY <1>1, <2>1, <3>3, <4>1, GotoSafe DEF known, TKnown
    <3>4. CASE Serve(c, hash) /\ UNCHANGED clientVersionMap
      BY <1>1, <2>1, <3>1, <3>4, ServeSafe DEF known, TKnown
    <3>5. CASE Serve(c, None) /\ UNCHANGED clientVersionMap
      <4>1. None \in Hash BY DEF Hash
      <4> QED BY <1>1, <2>1, <3>5, <4>1, ServeSafe DEF known, TKnown
    <3>6. CASE Pin(c, c)
      <4>1. Pins(c, act[c], c) BY DEF Pins
      <4> QED BY <1>1, <2>1, <3>6, <4>1, PinSafe
    <3> QED BY <3>2, <3>3, <3>4, <3>5, <3>6
  <2>3. TIdle'
    <3>1. <<"navcheck", None>> \in IdleTask BY DEF IdleTask
    <3>2. queue' \in Seq(IdleTask) BY <1>1, <2>1, <3>1, AppendTask
    <3>3. scheduledNavUpdateCheck' \in BOOLEAN BY <1>2, <2>1
    <3> QED BY <1>1, <2>1, <3>2, <3>3 DEF TIdle
  <2>4. TReady' /\ TStore' /\ TPages' /\ TCount'
    BY <1>1, <2>1 DEF TReady, TStore, TPages, TCount
  <2> QED BY <2>2, <2>3, <2>4 DEF Types, Fine
<1>5. CASE FetchClient(c)
  <2>1. /\ act[c].at = "getClient"
        /\ Pin(c, c) \/ (Serve(c, latestHash) /\ UNCHANGED clientVersionMap)
        /\ UNCHANGED <<ready, latestHash, versions, scheduledNavUpdateCheck, queue, timer,
                       syncs, disk, remapped, server, clients, document, count>>
    BY <1>5 DEF FetchClient, idle, store, world
  <2>2. act[Boot].at = "done" BY <1>1, <2>1, DoneBy
  <2>3. Acts' /\ Safe' /\ TKnown'
    <3>1. CASE Pin(c, c)
      <4>1. Pins(c, act[c], c) BY DEF Pins
      <4> QED BY <1>1, <2>1, <2>2, <3>1, <4>1, PinSafe
    <3>2. CASE Serve(c, latestHash) /\ UNCHANGED clientVersionMap
      <4>1. latestHash \in Hash BY <1>1 DEF TKnown
      <4> QED BY <1>1, <2>1, <2>2, <3>2, <4>1, ServeSafe DEF known, TKnown
    <3> QED BY <2>1, <3>1, <3>2
  <2>4. TReady' /\ TIdle' /\ TStore' /\ TPages' /\ TCount'
    BY <1>1, <2>1 DEF TReady, TIdle, TStore, TPages, TCount
  <2> QED BY <2>3, <2>4 DEF Types, Fine
<1>6. CASE FetchAssigned(c)
  <2>1. /\ act[c].at = "written" /\ Serve(c, latestHash)
        /\ UNCHANGED <<ready, latestHash, versions, clientVersionMap, scheduledNavUpdateCheck,
                       queue, timer, syncs, disk, remapped, server, clients, document, count>>
    BY <1>6 DEF FetchAssigned, Synced, driver, known, idle, store, world
  <2>2. act[Boot].at = "done" BY <1>1, <2>1, DoneBy
  <2>3. latestHash \in Hash BY <1>1 DEF TKnown
  <2>4. Acts' /\ Safe' BY <1>1, <2>1, <2>2, <2>3, ServeSafe DEF known
  <2>5. Types' BY <1>1, <2>1 DEF Types, TKnown, TReady, TIdle, TStore, TPages, TCount
  <2> QED BY <2>4, <2>5 DEF Fine
<1>7. CASE FetchRejected(c)
  <2>1. /\ act[c].at = "rejected" /\ act' = [act EXCEPT ![c] = Rest]
        /\ UNCHANGED <<ready, latestHash, versions, clientVersionMap, scheduledNavUpdateCheck,
                       queue, timer, syncs, disk, remapped, server, clients, document, count>>
    BY <1>7 DEF FetchRejected, driver, known, idle, store, world
  <2>2. Acts' /\ Safe' BY <1>1, <2>1, RestSafe DEF known
  <2>3. Types' BY <1>1, <2>1 DEF Types, TKnown, TReady, TIdle, TStore, TPages, TCount
  <2> QED BY <2>2, <2>3 DEF Fine
<1>8. CASE FetchServe(c)
  <2>1. /\ act[c].at = "serve" /\ act' = [act EXCEPT ![c] = Rest] /\ Opens(c)
        /\ VersionFailed(act[c].ver) \/ ready' = ready
        /\ \E from \in {act[c].ver, None} :
             document' = IF act[c].nav THEN [document EXCEPT ![c] = from] ELSE document
        /\ queue' = queue /\ Trigger
        /\ UNCHANGED <<latestHash, versions, clientVersionMap, scheduledNavUpdateCheck,
                       syncs, disk, remapped, server, count>>
    BY <1>8 DEF FetchServe, known, store
  <2>2. act[Boot].at = "done" BY <1>1, <2>1, DoneBy
  <2>3. Acts' /\ Safe' BY <1>1, <2>1, <2>2, RestSafe DEF known
  <2>4. document' \in [Clients -> Hash]
    <3>1. PICK from \in {act[c].ver, None} :
            document' = IF act[c].nav THEN [document EXCEPT ![c] = from] ELSE document
      BY <2>1
    <3>2. from \in Hash BY <1>2 DEF Hash
    <3> QED BY <3>1, <3>2, <1>1 DEF TPages
  <2>5. TPages' BY <1>1, <2>1, <2>4, OpensTypes DEF TPages
  <2>6. TReady' BY <1>1, <2>1, VersionFailedTypes
  <2>7. TIdle' BY <1>1, <2>1 DEF TIdle, Trigger
  <2>8. TKnown' /\ TStore' /\ TCount' BY <1>1, <2>1 DEF TKnown, TStore, TCount
  <2> QED BY <2>3, <2>5, <2>6, <2>7, <2>8 DEF Types, Fine
<1>9. CASE TakeSnapshot(c) BY <1>1, <1>9, TakeSnapshotFine
<1> QED BY <1>3, <1>4, <1>5, <1>6, <1>7, <1>8, <1>9 DEF FetchStep

(* What is known of a task that t is at. *)
LEMMA TaskIs ==
  ASSUME Full, NEW t \in Tasks
  PROVE  /\ t \in Others /\ t \in Procs /\ t # Boot /\ Acts /\ Types
         /\ act[t] \in Activity /\ act[t].todo \in Seq(Task)
         /\ act[t].at \in Working => act[t].todo # <<>>
         /\ act[t].todo # <<>> => Current(t) \in Task
         /\ t \in Drains => act[t].todo \in Seq(IdleTask)
<1>1. t \in Others /\ t \in Procs /\ t # Boot /\ Acts /\ Types BY OthersAre DEF Full
<1>2. act[t] \in Activity /\ act[t].todo \in Seq(Task) BY <1>1 DEF Acts, Activity
<1>3. act[t].todo # <<>> => Current(t) \in Task BY <1>2, HeadTailProperties DEF Current
<1> QED BY <1>1, <1>2, <1>3 DEF Acts, Sane

(* What is waiting for its first await to end, or for nothing. *)
LEMMA QueueSteps ==
  ASSUME Full, NEW t \in Tasks, MessageInitialized(t) \/ Execute(t) \/ Drained(t)
  PROVE  Fine
<1>1. /\ t \in Others /\ t \in Procs /\ t # Boot /\ Acts /\ Types /\ act[t] \in Activity
      /\ TKnown /\ TReady /\ TIdle /\ TStore /\ TPages /\ TCount
  BY TaskIs DEF Types
<1>2. "next" \in At \ {"sync", "writing", "install"} /\ "next" \notin Working
  BY DEF At, Working
<1>3. CASE MessageInitialized(t)
  <2>1. /\ act[t].at = "init"
        /\ \/ act[Boot].at = "done" /\ Goto(t, "next")
           \/ act' = [act EXCEPT ![t] = Rest]
        /\ UNCHANGED <<ready, latestHash, versions, clientVersionMap, scheduledNavUpdateCheck,
                       queue, timer, syncs, disk, remapped, server, clients, document, count>>
    BY <1>3 DEF MessageInitialized, driver, known, idle, store, world
  <2>2. CASE act[Boot].at = "done" /\ Goto(t, "next")
    <3>1. Acts' /\ Safe' BY <1>1, <1>2, <2>1, <2>2, GotoSafe DEF known
    <3>2. Types' BY <1>1, <2>1 DEF Types, TKnown, TReady, TIdle, TStore, TPages, TCount
    <3> QED BY <3>1, <3>2 DEF Fine
  <2>3. CASE act' = [act EXCEPT ![t] = Rest]
    <3>1. Acts' /\ Safe' BY <1>1, <2>1, <2>3, RestSafe DEF known
    <3>2. Types' BY <1>1, <2>1 DEF Types, TKnown, TReady, TIdle, TStore, TPages, TCount
    <3> QED BY <3>1, <3>2 DEF Fine
  <2> QED BY <2>1, <2>2, <2>3
<1>4. ASSUME t \in Drains, TakeQueue(t), act[t].at \in {"none", "next"},
             act[Boot].at = "done", timer' \in BOOLEAN,
             UNCHANGED <<ready, latestHash, versions, clientVersionMap, scheduledNavUpdateCheck,
                         syncs, disk, remapped, server, clients, document, count>>
      PROVE  Fine
  <2> DEFINE a == [act[t] EXCEPT !.at = "next", !.todo = queue]
  <2>1. queue \in Seq(IdleTask) /\ queue \in Seq(Task)
    BY <1>1, IdleTasks, SeqMonotonic DEF TIdle
  <2>2. a \in Activity /\ a.at = "next" /\ a.todo = queue BY <1>1, <1>2, <2>1 DEF Activity
  <2>3. act' = [act EXCEPT ![t] = a] /\ queue' = <<>> BY <1>1, <1>4 DEF TakeQueue, Acts
  <2> HIDE DEF a
  <2>4. Sane(t, a) BY <1>2, <2>1, <2>2 DEF Sane
  <2>5. Moved(t, a) BY <1>1, <2>3, <2>4, PutMoves
  <2>6. Safe' BY <1>1, <1>4, <2>2, <2>5, WalkKeeps DEF known
  <2>7. TIdle' BY <1>1, <1>4, <2>3, EmptySeq DEF TIdle
  <2>8. TKnown' /\ TReady' /\ TStore' /\ TPages' /\ TCount'
    BY <1>1, <1>4 DEF TKnown, TReady, TStore, TPages, TCount
  <2> QED BY <2>5, <2>6, <2>7, <2>8 DEF Moved, Types, Fine
<1>5. CASE Execute(t)
  <2>1. act[Boot].at = "done" BY <1>5 DEF Execute, Full, Early
  <2> QED BY <1>4, <1>5, <2>1 DEF Execute, driver, known, store, world
<1>6. CASE Drained(t)
  <2>1. /\ act[t].at = "next" /\ act[Boot].at = "done"
        /\ UNCHANGED <<ready, latestHash, versions, clientVersionMap, scheduledNavUpdateCheck,
                       timer, syncs, disk, remapped, server, clients, document, count>>
        /\ \/ t \in Drains /\ TakeQueue(t)
           \/ act' = [act EXCEPT ![t] = Rest] /\ UNCHANGED queue
    BY <1>1, <1>6, DoneBy DEF Drained, driver, known, store, world
  <2>2. CASE t \in Drains /\ TakeQueue(t) BY <1>1, <1>4, <2>1, <2>2 DEF TIdle
  <2>3. CASE act' = [act EXCEPT ![t] = Rest] /\ UNCHANGED queue
    <3>1. Acts' /\ Safe' BY <1>1, <2>1, <2>3, RestSafe DEF known
    <3>2. Types' BY <1>1, <2>1, <2>3 DEF Types, TKnown, TReady, TIdle, TStore, TPages, TCount
    <3> QED BY <3>1, <3>2 DEF Fine
  <2> QED BY <2>1, <2>2, <2>3
<1> QED BY <1>3, <1>5, <1>6

(* A task begins. *)
LEMMA BeginSteps ==
  ASSUME Full, NEW t \in Tasks, BeginCheck(t) \/ BeginOther(t)
  PROVE  Fine
<1>1. /\ t \in Others /\ t \in Procs /\ Acts /\ Types
      /\ TKnown /\ TReady /\ TIdle /\ TStore /\ TPages /\ TCount
  BY TaskIs DEF Types
<1>2. PICK l \in {"manifest", "matchAll", "initFully"} : Goto(t, l)
  BY DEF BeginCheck, BeginOther
<1>3. /\ act[t].at = "next" /\ act[t].todo # <<>>
      /\ scheduledNavUpdateCheck' \in BOOLEAN
      /\ UNCHANGED <<ready, latestHash, versions, clientVersionMap, queue, timer, syncs, disk,
                     remapped, server, clients, document, count>>
  <2>1. CASE BeginCheck(t)
    BY <1>1, <2>1 DEF BeginCheck, Begin, driver, known, store, world, TIdle
  <2>2. CASE BeginOther(t)
    BY <1>1, <2>2 DEF BeginOther, Begin, driver, known, idle, store, world, TIdle
  <2> QED BY <2>1, <2>2
<1>4. l \in At \ {"sync", "writing", "install"} BY DEF At
<1>5. act[Boot].at = "done" BY <1>1, <1>3, DoneBy
<1>6. Acts' /\ Safe' BY <1>1, <1>2, <1>3, <1>4, <1>5, GotoSafe DEF known
<1>7. Types' BY <1>1, <1>3 DEF Types, TKnown, TReady, TIdle, TStore, TPages, TCount
<1> QED BY <1>6, <1>7 DEF Fine

(* A task ends, and of the driver only its state may have changed. *)
LEMMA EndSteps ==
  ASSUME Full, NEW t \in Tasks,
         \/ CheckDone(t) \/ InstallFails(t) \/ InitializeFully(t)
         \/ TaskSynced(t) \/ TaskRejected(t)
  PROVE  Fine
<1>1. /\ t \in Others /\ t \in Procs /\ Acts /\ Types
      /\ TKnown /\ TReady /\ TIdle /\ TStore /\ TPages /\ TCount
  BY TaskIs DEF Types
<1>2. /\ act[t].at \in {"manifest", "install", "initFully", "written", "rejected"}
      /\ Finish(t)
      /\ UNCHANGED <<latestHash, versions, clientVersionMap, scheduledNavUpdateCheck, queue,
                     timer, syncs, disk, remapped, server, clients, document, count>>
  BY DEF CheckDone, InstallFails, InitializeFully, TaskSynced, TaskRejected, Synced,
         driver, known, idle, store, world
<1>3. TReady'
  <2>1. CASE InitializeFully(t) BY <1>1, <2>1, VersionFailedTypes DEF InitializeFully
  <2>2. CASE CheckDone(t) \/ InstallFails(t) \/ TaskSynced(t) \/ TaskRejected(t)
    BY <1>1, <2>2 DEF TReady, CheckDone, InstallFails, TaskSynced, TaskRejected, driver
  <2> QED BY <2>1, <2>2
<1>4. act[t].todo # <<>> BY <1>2, TaskIs DEF Working
<1>5. act[Boot].at = "done" BY <1>1, <1>2, DoneBy
<1>6. Acts' /\ Safe' BY <1>2, <1>4, <1>5, FinishSafe DEF known
<1>7. Types' BY <1>1, <1>2, <1>3 DEF Types, TKnown, TIdle, TStore, TPages, TCount
<1> QED BY <1>6, <1>7 DEF Fine

(* ACTIVATE_UPDATE pins the client it is about. *)
LEMMA ActivateFine ==
  ASSUME Full, NEW t \in Tasks, Activate(t)
  PROVE  Fine
<1> DEFINE c == Current(t)[2]
<1>1. /\ t \in Others /\ t \in Procs /\ Acts /\ Types
      /\ TKnown /\ TReady /\ TIdle /\ TStore /\ TPages /\ TCount
  BY TaskIs DEF Types
<1>2. /\ act[t].at = "next" /\ act[t].todo # <<>> /\ Current(t)[1] = "activate"
      /\ document' = [document EXCEPT ![c] = None]
      /\ Pin(t, c) \/ (Finish(t) /\ UNCHANGED clientVersionMap)
      /\ UNCHANGED <<ready, latestHash, versions, scheduledNavUpdateCheck, queue, timer,
                     syncs, disk, remapped, server, clients, count>>
  BY DEF Activate, Begin, idle, store
<1>3. Current(t) \in Task BY <1>2, TaskIs
<1>4. c \in Clients /\ Current(t) = <<"activate", c>> BY <1>2, <1>3 DEF Task
<1>5. t \in Messages
  <2> SUFFICES ASSUME t \in Drains PROVE FALSE BY DEF Tasks
  <2>1. act[t].todo \in Seq(IdleTask) BY TaskIs
  <2>2. Current(t) \in IdleTask BY <2>1, <1>2, HeadTailProperties DEF Current
  <2> QED BY <2>2, <1>2 DEF IdleTask
<1>6. Pins(t, act[t], c) BY <1>2, <1>4, <1>5 DEF Pins, Current
<1>7. act[Boot].at = "done" BY <1>1, <1>2, DoneBy
<1> HIDE DEF c
<1>8. Acts' /\ Safe' /\ TKnown'
  <2>1. CASE Pin(t, c) BY <1>1, <1>2, <1>4, <1>6, <1>7, <2>1, PinSafe
  <2>2. CASE Finish(t) /\ UNCHANGED clientVersionMap
    BY <1>1, <1>2, <1>7, <2>2, FinishSafe DEF known, TKnown
  <2> QED BY <1>2, <2>1, <2>2
<1>9. TPages' BY <1>1, <1>2 DEF TPages, Hash
<1>10. TReady' /\ TIdle' /\ TStore' /\ TCount' BY <1>1, <1>2 DEF TReady, TIdle, TStore, TCount
<1> QED BY <1>8, <1>9, <1>10 DEF Types, Fine

(* checkForUpdate() has a new manifest, and setupUpdate() installs it. *)
LEMMA UpdateSteps ==
  ASSUME Full, NEW t \in Tasks, CheckFindsNew(t) \/ Install(t)
  PROVE  Fine
<1>1. /\ t \in Others /\ t \in Procs /\ t # Boot /\ Acts /\ Types /\ act[t] \in Activity
      /\ TKnown /\ TReady /\ TIdle /\ TStore /\ TPages /\ TCount
  BY TaskIs DEF Types
<1>2. act[t].at \in {"manifest", "install"} BY DEF CheckFindsNew, Install
<1>3. act[t].todo # <<>> /\ act[Boot].at = "done" BY <1>1, <1>2, TaskIs, DoneBy DEF Working
<1>4. CASE CheckFindsNew(t)
  <2> DEFINE a == [act[t] EXCEPT !.at = "install", !.ver = server]
  <2>1. /\ act' = [act EXCEPT ![t].at = "install", ![t].ver = server]
        /\ UNCHANGED <<ready, latestHash, versions, clientVersionMap, scheduledNavUpdateCheck,
                       queue, timer, syncs, disk, remapped, server, clients, document, count>>
    BY <1>4 DEF CheckFindsNew, driver, known, idle, store, world
  <2>2. server \in Hashes BY <1>1 DEF TPages
  <2>3. a \in Activity /\ a.at = "install" /\ a.ver = server /\ a.todo = act[t].todo
    BY <1>1, <2>2 DEF Activity, At, Hash
  <2>4. act' = [act EXCEPT ![t] = a] BY <1>1, <2>1 DEF Acts
  <2> HIDE DEF a
  <2>5. Sane(t, a) BY <1>1, <1>3, <2>2, <2>3 DEF Acts, Sane
  <2>6. Moved(t, a) BY <1>1, <2>4, <2>5, PutMoves
  <2>7. Safe' BY <1>1, <1>2, <1>3, <2>1, <2>3, <2>6, WalkKeeps DEF known
  <2>8. Types' BY <1>1, <2>1 DEF Types, TKnown, TReady, TIdle, TStore, TPages, TCount
  <2> QED BY <2>6, <2>7, <2>8 DEF Moved, Fine
<1>5. CASE Install(t)
  <2>1. /\ act[t].at = "install" /\ versions' = versions \cup {act[t].ver}
        /\ latestHash' = act[t].ver /\ Goto(t, "sync")
        /\ ready' = IF ready = "EXISTING_CLIENTS_ONLY" THEN "NORMAL" ELSE ready
        /\ UNCHANGED <<clientVersionMap, scheduledNavUpdateCheck, queue, timer, syncs, disk,
                       remapped, server, clients, document, count>>
    BY <1>5 DEF Install, idle, store, world
  <2>2. act[t].ver \in Hashes BY <1>1, <2>1 DEF Acts, Sane
  <2>3. "sync" \in At BY DEF At
  <2>4. PICK a : Moved(t, a) /\ a.at = "sync" BY <1>1, <1>3, <2>1, <2>3, GotoMoves
  <2>5. Safe' BY <1>1, <1>3, <2>1, <2>4, ChangeKeeps
  <2>6. TKnown' /\ TReady' BY <1>1, <2>1, <2>2 DEF TKnown, TReady, Hash
  <2>7. TIdle' /\ TStore' /\ TPages' /\ TCount'
    BY <1>1, <2>1 DEF TIdle, TStore, TPages, TCount
  <2> QED BY <2>4, <2>5, <2>6, <2>7 DEF Moved, Types, Fine
<1> QED BY <1>4, <1>5

(* cleanupCaches() forgets clients and versions, and writes that. *)
LEMMA CleanSteps ==
  ASSUME Full, NEW t \in Tasks, MatchAll(t) \/ Clean(t)
  PROVE  Fine
<1>1. /\ t \in Others /\ t \in Procs /\ t # Boot /\ Acts /\ Types /\ act[t] \in Activity
      /\ TKnown /\ TReady /\ TIdle /\ TStore /\ TPages /\ TCount
  BY TaskIs DEF Types
<1>2. act[t].at \in {"matchAll", "clean"} BY DEF MatchAll, Clean
<1>3. act[t].todo # <<>> /\ act[Boot].at = "done" BY <1>1, <1>2, TaskIs, DoneBy DEF Working
<1>4. ASSUME NEW l \in At \ {"install"}, NEW A \in SUBSET Clients,
             act' = [act EXCEPT ![t].at = l, ![t].active = A]
      PROVE  \E a : Moved(t, a) /\ a.at = l
  <2> DEFINE a == [act[t] EXCEPT !.at = l, !.active = A]
  <2>1. a \in Activity /\ a.at = l /\ a.todo = act[t].todo BY <1>1 DEF Activity
  <2>2. act' = [act EXCEPT ![t] = a] BY <1>1, <1>4 DEF Acts
  <2> HIDE DEF a
  <2>3. Sane(t, a) BY <1>1, <1>3, <2>1 DEF Acts, Sane
  <2> QED BY <1>1, <2>1, <2>2, <2>3, PutMoves
<1>5. CASE MatchAll(t)
  <2> DEFINE A == {c \in Clients : clients[c] = "open"}
  <2>1. /\ act' = [act EXCEPT ![t].at = "clean", ![t].active = A]
        /\ UNCHANGED <<ready, latestHash, versions, clientVersionMap, scheduledNavUpdateCheck,
                       queue, timer, syncs, disk, remapped, server, clients, document, count>>
    BY <1>5 DEF MatchAll, driver, known, idle, store, world
  <2>2. A \in SUBSET Clients /\ "clean" \in At \ {"install"} BY DEF At
  <2> HIDE DEF A
  <2>3. PICK a : Moved(t, a) /\ a.at = "clean" BY <1>4, <2>1, <2>2
  <2>4. Safe' BY <1>1, <1>2, <1>3, <2>1, <2>3, WalkKeeps DEF known
  <2>5. Types' BY <1>1, <2>1 DEF Types, TKnown, TReady, TIdle, TStore, TPages, TCount
  <2> QED BY <2>3, <2>4, <2>5 DEF Moved, Fine
<1>6. CASE Clean(t)
  <2>1. /\ clientVersionMap' =
             [c \in Clients |-> IF c \in act[t].active THEN clientVersionMap[c] ELSE None]
        /\ versions' \subseteq versions
        /\ act' = [act EXCEPT ![t].at = "sync", ![t].active = {}]
        /\ UNCHANGED <<ready, latestHash, scheduledNavUpdateCheck, queue, timer, syncs, disk,
                       remapped, server, clients, document, count>>
    BY <1>6 DEF Clean, idle, store, world
  <2>2. {} \in SUBSET Clients /\ "sync" \in At \ {"install"} BY DEF At
  <2>3. PICK a : Moved(t, a) /\ a.at = "sync" BY <1>4, <2>1, <2>2
  <2>4. \A c \in Clients : clientVersionMap'[c] \in {clientVersionMap[c], None} BY <2>1
  <2>5. Safe' BY <1>1, <1>2, <1>3, <2>1, <2>3, <2>4, ChangeKeeps
  <2>6. TKnown' BY <1>1, <2>1 DEF TKnown, Hash
  <2>7. TReady' /\ TIdle' /\ TStore' /\ TPages' /\ TCount'
    BY <1>1, <2>1 DEF TReady, TIdle, TStore, TPages, TCount
  <2> QED BY <2>3, <2>5, <2>6, <2>7 DEF Moved, Types, Fine
<1> QED BY <1>5, <1>6

LEMMA TaskFine ==
  ASSUME Full, NEW t \in Tasks, TaskStep(t)
  PROVE  Fine
<1>1. t \in Others BY OthersAre
<1>2. CASE TakeSnapshot(t) BY <1>1, <1>2, TakeSnapshotFine
<1> QED BY <1>2, QueueSteps, BeginSteps, EndSteps, ActivateFine, UpdateSteps, CleanSteps
        DEF TaskStep

-----------------------------------------------------------------------------
(* The browser and the server. *)
LEMMA WriteFine ==
  ASSUME Full, WritesLand \/ WritesFail
  PROVE  Fine
<1> DEFINE p == Head(syncs).by
           l == IF WritesLand THEN "written" ELSE "rejected"
<1>1. /\ Acts /\ Types /\ TKnown /\ TReady /\ TIdle /\ TStore /\ TPages /\ TCount
  BY DEF Full, Types
<1>2. syncs # <<>> /\ syncs' = Tail(syncs)
      /\ UNCHANGED <<ready, latestHash, versions, clientVersionMap, scheduledNavUpdateCheck,
                     queue, timer, remapped, server, clients, document>>
  BY DEF WritesLand, WritesFail, driver, known, idle, world
<1>3. syncs \in Seq([by : Procs, snap : Tables]) /\ syncs[1] = Head(syncs)
      /\ 1 \in DOMAIN syncs /\ Head(syncs) \in [by : Procs, snap : Tables]
  <2>1. syncs \in Seq([by : Procs, snap : Tables]) /\ DOMAIN syncs = 1..Len(syncs)
        /\ Len(syncs) \in Nat /\ Len(syncs) # 0
    BY <1>2, SyncTypes DEF Full
  <2> DEFINE R == [by : Procs, snap : Tables]
  <2>2. syncs \in Seq(R) /\ syncs # <<>> BY <1>2, <2>1
  <2> HIDE DEF R
  <2>3. Head(syncs) \in R BY <2>2, HeadTailProperties
  <2>4. syncs[1] = Head(syncs) BY <2>2
  <2>5. 1 \in DOMAIN syncs BY <2>1
  <2> QED BY <2>1, <2>3, <2>4, <2>5 DEF R
<1>4. p \in Procs /\ act[p].at = "writing" BY <1>3 DEF Full, Writers
<1>5. Head(syncs).snap \in Tables /\ disk \in Tables BY <1>1, <1>3 DEF TStore
<1>6. /\ p \in Tasks => act[p].todo # <<>>
      /\ p = Boot => act[p].ver \in Hashes
  BY <1>1, <1>4 DEF Acts, Sane, Working
<1>7. "written" \in At /\ "rejected" \in At BY DEF At
<1> HIDE DEF p
<1>8. CASE WritesLand
  <2>1. Goto(p, "written") /\ disk' = Head(syncs).snap /\ count' = count
    BY <1>8 DEF WritesLand, p, world
  <2>2. PICK a : Moved(p, a) /\ a.at = "written" /\ a.ver = act[p].ver
    BY <1>1, <1>4, <1>6, <1>7, <2>1, GotoMoves
  <2>3. Safe' /\ syncs' \in Seq([by : Procs, snap : Tables])
    BY <1>2, <2>1, <2>2, WriteEnds DEF p, known
  <2>4. TStore' BY <1>1, <1>2, <1>5, <2>1, <2>3 DEF TStore
  <2>5. TKnown' /\ TReady' /\ TIdle' /\ TPages' /\ TCount'
    BY <1>1, <1>2, <2>1 DEF TKnown, TReady, TIdle, TPages, TCount
  <2> QED BY <2>2, <2>3, <2>4, <2>5 DEF Moved, Types, Fine
<1>9. CASE WritesFail
  <2>1. /\ Goto(p, "rejected") /\ Happens("fault")
        /\ \E d \in [Keys -> BOOLEAN] :
             disk' = [x \in Keys |-> IF d[x] THEN Head(syncs).snap[x] ELSE disk[x]]
    BY <1>9 DEF WritesFail, p
  <2>2. TCount' /\ count'["fault"] # 0 BY <1>1, <2>1, HappensTypes DEF Rare
  <2>3. PICK a : Moved(p, a) /\ a.at = "rejected" /\ a.ver = act[p].ver
    BY <1>1, <1>4, <1>6, <1>7, <2>1, GotoMoves
  <2>4. Safe' /\ syncs' \in Seq([by : Procs, snap : Tables])
    BY <1>2, <2>2, <2>3, WriteEnds DEF p, known
  <2>5. disk' \in Tables
    <3>1. PICK d \in [Keys -> BOOLEAN] :
            disk' = [x \in Keys |-> IF d[x] THEN Head(syncs).snap[x] ELSE disk[x]]
      BY <2>1
    <3> DEFINE s == Head(syncs).snap
    <3>2. s \in Tables BY <1>5
    <3>3. disk' = [x \in Keys |-> IF d[x] THEN s[x] ELSE disk[x]] BY <3>1
    <3> HIDE DEF s
    <3> QED BY <1>5, <3>2, <3>3 DEF Tables, Keys
  <2>6. TStore' BY <1>1, <1>2, <2>4, <2>5 DEF TStore
  <2>7. TKnown' /\ TReady' /\ TIdle' /\ TPages'
    BY <1>1, <1>2 DEF TKnown, TReady, TIdle, TPages
  <2> QED BY <2>2, <2>3, <2>4, <2>6, <2>7 DEF Moved, Types, Fine
<1> QED BY <1>8, <1>9

(* An event adds an activity, which waits for the worker to be initialised. *)
LEMMA EventFine ==
  ASSUME Full, NEW p \in Others \ Drains, NEW a \in Activity, a.at = "init",
         p \in Clients \/ a.todo # <<>>, act[p].at = "none", Await(p, a),
         Happens("request") \/ Happens("message"),
         clients' \in [Clients -> {"new", "loading", "open", "closed"}],
         UNCHANGED <<ready, latestHash, versions, clientVersionMap, scheduledNavUpdateCheck,
                     queue, timer, syncs, disk, remapped, server, document>>
  PROVE  Fine
<1>1. /\ Acts /\ Types /\ TKnown /\ TReady /\ TIdle /\ TStore /\ TPages /\ TCount
  BY DEF Full, Types
<1>2. Sane(p, a) BY DEF Sane, Working
<1>3. TCount' /\ count'["fault"] = count["fault"] BY <1>1, HappensTypes DEF Rare
<1>4. Safe' /\ Acts' BY <1>2, <1>3, AwaitSafe DEF known
<1>5. Types' BY <1>1, <1>3 DEF Types, TKnown, TReady, TIdle, TStore, TPages
<1> QED BY <1>4, <1>5 DEF Fine

LEMMA FetchEventFine ==
  ASSUME Full, NEW c \in Clients, NEW n \in BOOLEAN, FetchEvent(c, n)
  PROVE  Fine
<1> DEFINE a == [Rest EXCEPT !.at = "init", !.nav = n]
<1>1. a \in Activity /\ a.at = "init"
  <2>1. Rest \in Activity /\ "init" \in At BY RestActivity DEF At
  <2> QED BY <2>1 DEF Activity
<1>2. Await(c, a) BY DEF FetchEvent
<1> HIDE DEF a
<1>3. c \in Others \ Drains BY OthersAre, SwConstants
<1>4. clients' \in [Clients -> {"new", "loading", "open", "closed"}]
  BY DEF FetchEvent, Full, Types, TPages
<1>5. /\ act[c].at = "none" /\ Happens("request")
      /\ UNCHANGED <<ready, latestHash, versions, clientVersionMap, scheduledNavUpdateCheck,
                     queue, timer, syncs, disk, remapped, server, document>>
  BY DEF FetchEvent, driver, known, idle, store
<1> QED BY <1>1, <1>2, <1>3, <1>4, <1>5, EventFine

LEMMA MessageEventFine ==
  ASSUME Full, NEW t \in Messages, NEW k \in Task, MessageEvent(t, k)
  PROVE  Fine
<1> DEFINE s == <<k>>
           a == [Rest EXCEPT !.at = "init", !.todo = s]
<1>1. s \in Seq(Task) /\ s # <<>> OBVIOUS
<1>2. Await(t, a) BY DEF MessageEvent
<1> HIDE DEF s
<1>3. a \in Activity /\ a.at = "init" /\ a.todo = s
  <2>1. Rest \in Activity /\ "init" \in At BY RestActivity DEF At
  <2> QED BY <1>1, <2>1 DEF Activity
<1> HIDE DEF a
<1>4. t \in Others \ Drains BY OthersAre, SwConstants DEF Tasks
<1>5. /\ act[t].at = "none" /\ Happens("message")
      /\ UNCHANGED <<ready, latestHash, versions, clientVersionMap, scheduledNavUpdateCheck,
                     queue, timer, syncs, disk, remapped, server, clients, document>>
  BY DEF MessageEvent, driver, known, idle, store
<1>6. clients' \in [Clients -> {"new", "loading", "open", "closed"}]
  BY <1>5 DEF Full, Types, TPages
<1> QED BY <1>1, <1>2, <1>3, <1>4, <1>5, <1>6, EventFine

LEMMA WorldFine ==
  ASSUME Full,
         \/ \E c \in Clients : FetchIgnored(c) \/ ClientCloses(c)
         \/ \E h \in Hashes : Deploy(h)
         \/ UNCHANGED vars
  PROVE  Fine
<1>1. /\ Acts /\ Types /\ TKnown /\ TReady /\ TIdle /\ TStore /\ TPages /\ TCount
  BY DEF Full, Types
<1>2. /\ UNCHANGED <<act, ready, latestHash, versions, clientVersionMap,
                     scheduledNavUpdateCheck, queue, syncs, disk, remapped, document>>
      /\ timer' = timer \/ timer' = (timer \/ queue' # <<>>)
      /\ count' = count \/ Happens("deploy")
      /\ server' \in Hashes
      /\ clients' \in [Clients -> {"new", "loading", "open", "closed"}]
  <2>1. CASE \E c \in Clients : FetchIgnored(c)
    <3>1. PICK c \in Clients : FetchIgnored(c) BY <2>1
    <3>2. Opens(c) BY <3>1 DEF FetchIgnored
    <3>3. clients' \in [Clients -> {"new", "loading", "open", "closed"}]
      BY <1>1, <3>2, OpensTypes
    <3> QED BY <1>1, <3>1, <3>3 DEF FetchIgnored, Trigger, driver, known, store, TPages
  <2>2. CASE \E c \in Clients : ClientCloses(c)
    BY <1>1, <2>2 DEF ClientCloses, driver, known, idle, store, TPages
  <2>3. CASE \E h \in Hashes : Deploy(h)
    BY <1>1, <2>3 DEF Deploy, driver, known, idle, store, TPages
  <2>4. CASE UNCHANGED vars
    BY <1>1, <2>4 DEF vars, driver, known, idle, store, world, TPages
  <2> QED BY <2>1, <2>2, <2>3, <2>4
<1>3. TCount' /\ count'["fault"] = count["fault"]
  <2>1. "deploy" \in Rare BY DEF Rare
  <2>2. count' = count => TCount' BY <1>1 DEF TCount
  <2> QED BY <1>1, <1>2, <2>1, <2>2, HappensTypes
<1>4. Safe' BY <1>2, <1>3, StillKeeps DEF known
<1>5. Acts' BY <1>1, <1>2 DEF Acts
<1>6. TIdle' BY <1>1, <1>2 DEF TIdle
<1>7. TKnown' /\ TReady' /\ TStore' /\ TPages' BY <1>1, <1>2 DEF TKnown, TReady, TStore, TPages
<1> QED BY <1>3, <1>4, <1>5, <1>6, <1>7 DEF Types, Fine

(* A worker starts from nothing but the tables. *)
LEMMA NewWorker ==
  ASSUME act = [p \in Procs |-> Rest], syncs = <<>>, queue = <<>>, ~timer
  PROVE  Acts /\ Safe
<1>1. Rest \in Activity /\ Rest.at = "none" /\ Rest.todo = <<>> BY RestActivity
<1>2. \A p \in Procs : act[p] = Rest OBVIOUS
<1>3. \A p \in Procs : Sane(p, Rest) BY <1>1, EmptySeq DEF Sane, Working
<1>4. Acts BY <1>1, <1>2, <1>3 DEF Acts
<1>5. act[Boot].at = "none" /\ \A p \in Others : act[p].at = "none"
  BY <1>1, <1>2, OthersAre
<1>6. DOMAIN syncs = {} OBVIOUS
<1>7. Writers /\ Early /\ BootAlone /\ Stored
  BY <1>5, <1>6 DEF Writers, Early, BootAlone, Stored
<1> QED BY <1>4, <1>7 DEF Safe

LEMMA TerminateFine ==
  ASSUME Full, Terminate
  PROVE  Fine
<1>1. /\ Acts /\ Types /\ TKnown /\ TReady /\ TIdle /\ TStore /\ TPages /\ TCount
  BY DEF Full, Types
<1>2. /\ ready' = "NORMAL" /\ latestHash' = None /\ versions' = {} /\ clientVersionMap' = NoMap
      /\ scheduledNavUpdateCheck' = FALSE /\ queue' = <<>> /\ timer' = FALSE
      /\ act' = [p \in Procs |-> Rest] /\ disk' \in Landed /\ syncs' = <<>>
      /\ Happens("stop") /\ UNCHANGED <<remapped, server, clients, document>>
  BY DEF Terminate
<1>3. Acts' /\ Safe'
  <2>1. Rest \in Activity /\ Rest.at = "none" /\ Rest.todo = <<>> BY RestActivity
  <2>2. \A p \in Procs : act'[p] = Rest BY <1>2
  <2>3. \A p \in Procs : Sane(p, Rest) BY <2>1, EmptySeq DEF Sane, Working
  <2>4. Acts' BY <1>2, <2>1, <2>2, <2>3 DEF Acts
  <2>5. act'[Boot].at = "none" /\ \A p \in Others : act'[p].at = "none"
    BY <2>1, <2>2, OthersAre
  <2>6. DOMAIN syncs' = {} BY <1>2
  <2>7. Writers' /\ Early' /\ BootAlone' /\ Stored'
    BY <1>2, <2>5, <2>6 DEF Writers, Early, BootAlone, Stored
  <2> QED BY <2>4, <2>7 DEF Safe
<1>4. \A k \in Keys : \A x \in Landable(k) :
        \E d \in Tables : x = d[k]
  <2>1. \A i \in DOMAIN syncs : syncs[i].snap \in Tables BY SyncTypes DEF Full
  <2> QED BY <1>1, <2>1 DEF Landable, TStore
<1>5. disk' \in Tables BY <1>2, <1>4 DEF Landed, Tables, Keys
<1>6. TStore' BY <1>1, <1>2, <1>5, EmptySeq DEF TStore
<1>7. TKnown' BY <1>2 DEF TKnown, NoMap, Hash
<1>8. TIdle' BY <1>2, EmptySeq DEF TIdle
<1>9. TCount' BY <1>1, <1>2, HappensTypes DEF Rare
<1>10. TReady' /\ TPages' BY <1>1, <1>2 DEF TReady, TPages
<1> QED BY <1>3, <1>6, <1>7, <1>8, <1>9, <1>10 DEF Types, Fine

LEMMA InitFull == Init => Full
<1> SUFFICES ASSUME Init PROVE Full OBVIOUS
<1>1. Acts /\ Safe
  <2>1. /\ act = [p \in Procs |-> Rest] /\ syncs = <<>> /\ queue = <<>> /\ ~timer
    BY DEF Init
  <2> QED BY <2>1, NewWorker
<1>2. server \in Hashes BY SwConstants DEF Init
<1>3. NoMap \in [Clients -> Hash] BY DEF NoMap, Hash
<1>4. TKnown /\ TReady /\ TPages BY <1>2, <1>3 DEF Init, TKnown, TReady, TPages, Hash
<1>5. TIdle BY EmptySeq DEF Init, TIdle
<1>6. TStore BY <1>3, EmptySeq DEF Init, TStore, Tables, Hash
<1>7. TCount BY SwConstants DEF Init, TCount
<1>8. Types BY <1>4, <1>5, <1>6, <1>7 DEF Types
<1> QED BY <1>1, <1>8, InitHolds, TypesAre DEF Full, Safe

LEMMA StepFull == Full /\ [Next]_vars => Full'
<1> SUFFICES ASSUME Full, [Next]_vars PROVE Full' OBVIOUS
<1>1. Inv' BY StepHolds DEF Full
<1>2. Fine
  <2>1. CASE BootStep BY <2>1, BootFull DEF Fine
  <2>2. ASSUME NEW c \in Clients, FetchStep(c) PROVE Fine BY <2>2, FetchFine
  <2>3. ASSUME NEW t \in Tasks, TaskStep(t) PROVE Fine BY <2>3, TaskFine
  <2>4. CASE WritesLand \/ WritesFail BY <2>4, WriteFine
  <2>5. CASE Terminate BY <2>5, TerminateFine
  <2>6. CASE \/ \E c \in Clients : FetchIgnored(c) \/ ClientCloses(c)
             \/ \E h \in Hashes : Deploy(h)
             \/ UNCHANGED vars
    BY <2>6, WorldFine
  <2>7. ASSUME NEW c \in Clients, NEW n \in BOOLEAN, FetchEvent(c, n) PROVE Fine
    BY <2>7, FetchEventFine
  <2>8. ASSUME NEW t \in Messages,
               \/ MessageEvent(t, <<"check", None>>)
               \/ \E c \in Clients : MessageEvent(t, <<"activate", c>>)
        PROVE  Fine
    <3>1. <<"check", None>> \in Task /\ \A c \in Clients : <<"activate", c>> \in Task
      BY DEF Task
    <3> QED BY <2>8, <3>1, MessageEventFine
  <2>9. CASE Environment BY <2>4, <2>5, <2>6, <2>7, <2>8, <2>9 DEF Environment
  <2> QED BY <2>1, <2>2, <2>3, <2>4, <2>6, <2>9 DEF Next
<1>3. TypeOK'
  <2>1. Types' /\ Acts' BY <1>2 DEF Fine
  <2>2. queue' \in Seq(Task) BY <2>1, IdleTasks, SeqMonotonic DEF Types, TIdle
  <2> QED BY <2>1, <2>2 DEF TypeOK, Types, TKnown, TReady, TIdle, TStore, TPages, TCount, Acts
<1> QED BY <1>1, <1>2, <1>3 DEF Full, Fine, Safe

LEMMA FullMatches == Full => DiskMatchesMemory
<1> SUFFICES ASSUME Full, act[Boot].at = "done", count["fault"] = 0,
                    \A p \in Procs : act[p].at \notin {"sync", "writing"}
             PROVE  /\ disk.manifests = versions /\ disk.latest = latestHash
                    /\ Recovered(disk) = clientVersionMap
  BY DEF DiskMatchesMemory
<1>1. DOMAIN syncs = {}
  <2> SUFFICES ASSUME NEW i \in DOMAIN syncs PROVE FALSE OBVIOUS
  <2>1. syncs[i].by \in Procs /\ act[syncs[i].by].at = "writing"
    BY SyncTypes DEF Full, Writers
  <2> QED BY <2>1
<1>2. syncs = <<>>
  <2>1. DOMAIN syncs = 1..Len(syncs) /\ Len(syncs) \in Nat /\ (syncs = <<>> <=> Len(syncs) = 0)
    BY SyncTypes DEF Full
  <2>2. Len(syncs) # 0 => 1 \in DOMAIN syncs BY <2>1
  <2> QED BY <1>1, <2>1, <2>2
<1>3. Matches(disk) BY <1>2, OthersAre DEF Full, Stored, Newest
<1> QED BY <1>3 DEF Matches

LEMMA FullRecoverable == Full => PinsRecoverable
<1> SUFFICES ASSUME Full, act[Boot].at = "done", count["fault"] = 0,
                    NEW d \in Landed, Valid(d), NEW c \in Clients \ remapped,
                    document[c] # None, document[c] = clientVersionMap[c], ~Pinning(c)
             PROVE  Recovered(d)[c] = clientVersionMap[c]
  BY DEF PinsRecoverable
<1> DEFINE v == clientVersionMap[c]
<1>1. v # None /\ Secured(c, v) BY DEF Full, Stored
<1>2. ASSUME NEW p \in Others, Pins(p, act[p], c) PROVE act[p].at \notin {"sync", "writing"}
  BY <1>2 DEF Pins, Pinning, Current
<1>3. \A i \in DOMAIN syncs : syncs[i].by \in Others
  <2> TAKE i \in DOMAIN syncs
  <2>1. syncs[i].by \in Procs /\ act[syncs[i].by].at = "writing"
    BY SyncTypes DEF Full, Writers
  <2>2. syncs[i].by # Boot BY <2>1
  <2> QED BY <2>1, <2>2, OthersAre
<1>4. Holds(disk, c, v) /\ \A i \in DOMAIN syncs : Holds(syncs[i].snap, c, v)
  <2>1. ~\E p \in Others : Pins(p, act[p], c) /\ act[p].at = "sync" BY <1>2
  <2>2. ~\E i \in DOMAIN syncs : Pins(syncs[i].by, act[syncs[i].by], c)
    BY <1>2, <1>3 DEF Full, Writers
  <2> QED BY <1>1, <2>1, <2>2 DEF Secured
<1> HIDE DEF v
<1>5. d.assignments \in Landable("assignments") /\ d.manifests \in Landable("manifests")
  BY DEF Landed
<1>6. d.assignments[c] = v BY <1>4, <1>5 DEF Landable, Holds
<1>7. v \in d.manifests BY <1>4, <1>5 DEF Landable, Holds
<1>8. Recovered(d)[c] = v BY <1>6, <1>7 DEF Recovered
<1> QED BY <1>8 DEF v

LEMMA FullInvariant == Spec => []Full
BY InitFull, StepFull, PTL DEF Spec

(* The driver, its idle queue, its activities and the control tables keep their types; in
   particular the versions, the queue and the tables only ever name known hashes. *)
THEOREM TypeCorrect == Spec => []TypeOK
<1>1. Full => TypeOK BY DEF Full
<1> QED BY <1>1, FullInvariant, PTL

(* While nothing is being written and no write has failed, the control tables hold what the
   driver holds: a restart of the worker then changes nothing. *)
THEOREM TablesMatch == Spec => []DiskMatchesMemory
BY FullInvariant, FullMatches, PTL

(* A crash at any moment, between any two writes that sync() has in flight, gives a page the
   version that it is pinned to and was answered with. *)
THEOREM PinsSurviveCrashes == Spec => []PinsRecoverable
BY FullInvariant, FullRecoverable, PTL
=============================================================================
