------------------------------ MODULE SwDriver ------------------------------
(***************************************************************************)
(* The service worker's Driver (packages/service-worker/worker): which     *)
(* version of the application serves which client.  JavaScript runs one    *)
(* continuation at a time, so an action is the code between two awaits of  *)
(* one activity: the fetch handler of a client, a drain of the idle queue, *)
(* the handling of a message, or the initialisation of the worker (Boot).  *)
(* The browser may kill the worker at any time; the three tables of the    *)
(* control database survive.                                               *)
(***************************************************************************)
EXTENDS Naturals, SequencesExt

CONSTANTS Hashes,     \* manifest hashes: the versions the server may offer
          Clients,    \* tabs; each has at most one request in the worker
          Drains,     \* bound: concurrent runs of IdleScheduler.execute()
          Messages,   \* bound: messages handled at the same time
          Boot,       \* the activity that runs Driver.initialize()
          None,       \* no hash, no owner
          Bounds      \* bounds: how often each of Rare may happen

(* What is bounded: new versions on the server, stops of the worker, failed
   operations on the database, messages and requests of the pages. *)
Rare == {"deploy", "stop", "fault", "message", "request"}

ASSUME SwConstants ==
  /\ Bounds \in [Rare -> Nat]
  /\ Hashes # {} /\ IsFiniteSet(Hashes)
  /\ None \notin Hashes /\ None \notin Clients
  /\ Boot \notin Clients \cup Drains \cup Messages
  /\ Clients \cap (Drains \cup Messages) = {} /\ Drains \cap Messages = {}

VARIABLES
  ready, latestHash, versions, clientVersionMap,   \* fields of Driver
  scheduledNavUpdateCheck, queue, timer,           \* update flag, IdleScheduler
  act,                         \* the activities, suspended at an await
  syncs, disk,                 \* writes in flight and the control tables
  remapped,                    \* clients whose stored hash a restart replaced
  server, clients, document,   \* the server; the tabs and what they show
  count                        \* how often each of Rare has happened

known == <<latestHash, versions, clientVersionMap>>
driver == <<ready, known>>
idle == <<scheduledNavUpdateCheck, queue, timer>>
store == <<syncs, disk, remapped>>
world == <<server, clients, document, count>>
vars == <<driver, idle, act, store, world>>

Tasks == Drains \cup Messages
Procs == Clients \cup Tasks \cup {Boot}
Keys == {"manifests", "assignments", "latest"}
Hash == Hashes \cup {None}
Tables == [manifests : SUBSET Hashes, assignments : [Clients -> Hash], latest : Hash]
Task == ({"check", "navcheck", "cleanup"} \X {None})
          \cup ({"initialize"} \X Hashes) \cup ({"activate"} \X Clients)
At == {"none", "init", "getClient", "sync", "writing", "written", "rejected", "serve", "next",
       "manifest", "install", "matchAll", "clean", "initFully", "read", "done", "failed"}

(* An activity: where it waits, and the locals it keeps over the await: a
   version, whether the request navigates, the tasks left, matchAll()'s answer. *)
Activity == [at : At, ver : Hash, nav : BOOLEAN, todo : Seq(Task),
             active : SUBSET Clients]
Rest == [at |-> "none", ver |-> None, nav |-> FALSE, todo |-> <<>>, active |-> {}]

TypeOK ==
  /\ ready \in {"NORMAL", "EXISTING_CLIENTS_ONLY", "SAFE_MODE"}
  /\ latestHash \in Hash
  /\ versions \subseteq Hashes
  /\ clientVersionMap \in [Clients -> Hash]
  /\ scheduledNavUpdateCheck \in BOOLEAN /\ timer \in BOOLEAN
  /\ queue \in Seq(Task)
  /\ act \in [Procs -> Activity]
  /\ syncs \in Seq([by : Procs, snap : Tables])
  /\ disk \in Tables
  /\ remapped \subseteq Clients
  /\ server \in Hashes
  /\ clients \in [Clients -> {"new", "loading", "open", "closed"}]
  /\ document \in [Clients -> Hash]
  /\ count \in [Rare -> Nat] /\ \A r \in Rare : count[r] <= Bounds[r]

NoMap == [c \in Clients |-> None]

(* What the tables hold is usable when the latest hash has a manifest. *)
Valid(d) == d.latest \in d.manifests

(* Mutant: no check that a stored hash still has a manifest. *)
RecoveredUnchecked(d) == d.assignments

(* The clients' versions after a restart from d: an unknown hash is replaced
   by the latest one. *)
Recovered(d) ==
  [c \in Clients |-> IF d.assignments[c] \in d.manifests \cup {None}
                     THEN d.assignments[c] ELSE d.latest]

Init ==
  /\ ready = "NORMAL"
  /\ latestHash = None /\ versions = {} /\ clientVersionMap = NoMap
  /\ scheduledNavUpdateCheck = FALSE /\ queue = <<>> /\ timer = FALSE
  /\ act = [p \in Procs |-> Rest]
  /\ syncs = <<>> /\ disk = [manifests |-> {}, assignments |-> NoMap, latest |-> None]
  /\ remapped = {}
  /\ server = CHOOSE h \in Hashes : TRUE
  /\ clients = [c \in Clients |-> "new"] /\ document = NoMap
  /\ count = [r \in Rare |-> 0]

Happens(r) == count[r] < Bounds[r] /\ count' = [count EXCEPT ![r] = @ + 1]
Goto(p, l) == act' = [act EXCEPT ![p].at = l]
Serve(p, h) == act' = [act EXCEPT ![p].at = "serve", ![p].ver = h]

(* ensureInitialized(): the first event of a worker starts initialize(). *)
Await(p, a) ==
  act' = [act EXCEPT ![p] = a, ![Boot].at = IF @ = "none" THEN "read" ELSE @]

(* idle.trigger(): starts a timer unless nothing is queued. *)
Trigger == timer' = (timer \/ queue' # <<>>)

(* versionFailed(): a broken latest version stops new clients. *)
VersionFailed(h) ==
  ready' = IF h \in versions /\ h = latestHash THEN "EXISTING_CLIENTS_ONLY" ELSE ready

(* clientVersionMap.set(c, latestHash), and the call of sync(). *)
Pin(p, c) ==
  /\ clientVersionMap' = [clientVersionMap EXCEPT ![c] = latestHash]
  /\ Goto(p, "sync")

-----------------------------------------------------------------------------
(* sync(): the snapshot is taken one await after the call, then the three
   tables are written independently.  Writes of one table land in order, so
   syncs complete in order; until then any prefix of the writes of each table
   may have landed, which only a stop of the worker reveals. *)

Landable(k) == {disk[k]} \cup {syncs[i].snap[k] : i \in DOMAIN syncs}
Landed == [manifests : Landable("manifests"), assignments : Landable("assignments"),
           latest : Landable("latest")]

TakeSnapshot(p) ==
  /\ act[p].at = "sync"
  /\ syncs' = Append(syncs,
       [by |-> p, snap |-> [manifests |-> versions, assignments |-> clientVersionMap,
                            latest |-> latestHash]])
  /\ Goto(p, "writing")
  /\ UNCHANGED <<driver, idle, disk, remapped, world>>

WritesLand ==
  /\ syncs # <<>>
  /\ disk' = Head(syncs).snap
  /\ syncs' = Tail(syncs)
  /\ Goto(Head(syncs).by, "written")
  /\ UNCHANGED <<driver, idle, remapped, world>>

(* A failed write rejects the Promise.all; the other tables are written. *)
WritesFail ==
  /\ syncs # <<>> /\ Happens("fault")
  /\ \E k \in Keys : \E d \in [Keys -> BOOLEAN] :
       /\ ~d[k]
       /\ disk' = [x \in Keys |-> IF d[x] THEN Head(syncs).snap[x] ELSE disk[x]]
  /\ syncs' = Tail(syncs)
  /\ Goto(Head(syncs).by, "rejected")
  /\ UNCHANGED <<driver, idle, remapped, server, clients, document>>

Synced(p) == act[p].at = "written"

-----------------------------------------------------------------------------
(* initialize() *)

Hydrate(d) ==
  /\ versions' = d.manifests
  /\ clientVersionMap' = Recovered(d)
  /\ latestHash' = d.latest

ScheduleAfter(tasks, hs) ==
  /\ queue' = queue \o tasks \o <<<<"cleanup", None>>>>
                \o SetToSeq({<<"initialize", h>> : h \in hs})
  /\ Trigger

BootLoad ==
  /\ act[Boot].at = "read" /\ Valid(disk)
  /\ Hydrate(disk)
  /\ ScheduleAfter(<<<<"check", None>>>>, disk.manifests)
  /\ Goto(Boot, "done")
  /\ remapped' =
       remapped \cup {c \in Clients : Recovered(disk)[c] # disk.assignments[c]}
  /\ UNCHANGED <<ready, scheduledNavUpdateCheck, syncs, disk, world>>

(* Mutant: only missing tables count as unusable, not inconsistent ones. *)
BootStartOverIfMissing ==
  /\ act[Boot].at = "read" /\ disk.latest = None
  /\ Goto(Boot, "manifest")
  /\ UNCHANGED <<driver, idle, store, world>>

(* The tables are missing, inconsistent or unreadable: start afresh. *)
BootStartOver ==
  /\ act[Boot].at = "read"
  /\ IF Valid(disk) THEN Happens("fault") ELSE count' = count
  /\ Goto(Boot, "manifest")
  /\ UNCHANGED <<driver, idle, store, server, clients, document>>

Fresh(h) == [manifests |-> {h}, assignments |-> NoMap, latest |-> h]

BootManifest ==
  /\ act[Boot].at = "manifest"
  /\ act' = [act EXCEPT ![Boot].ver = server, ![Boot].at = "writing"]
  /\ syncs' = Append(syncs, [by |-> Boot, snap |-> Fresh(server)])
  /\ UNCHANGED <<driver, idle, disk, remapped, world>>

BootWritten ==
  /\ Synced(Boot)
  /\ Hydrate(Fresh(act[Boot].ver))
  /\ ScheduleAfter(<<>>, {act[Boot].ver})
  /\ Goto(Boot, "done")
  /\ UNCHANGED <<ready, scheduledNavUpdateCheck, store, world>>

(* No manifest (offline included), or the fresh tables cannot be written. *)
BootFails ==
  /\ act[Boot].at \in {"manifest", "rejected"}
  /\ ready' = "SAFE_MODE"
  /\ Goto(Boot, "failed")
  /\ UNCHANGED <<known, idle, store, world>>

-----------------------------------------------------------------------------
(* onFetch() and handleFetch() for client c; n: a navigation request *)

FetchEvent(c, n) ==
  /\ ready # "SAFE_MODE" /\ act[c].at = "none"
  /\ Happens("request")
  /\ clients[c] \in IF n THEN {"new", "loading", "open"} ELSE {"open"}
  /\ clients' = [clients EXCEPT ![c] = IF @ = "new" THEN "loading" ELSE @]
  /\ Await(c, [Rest EXCEPT !.at = "init", !.nav = n])
  /\ UNCHANGED <<driver, idle, store, server, document>>

(* The response makes a client of the page that asked for it. *)
Opens(c) == clients' = [clients EXCEPT ![c] = IF @ = "closed" THEN @ ELSE "open"]

(* In safe mode the browser loads the page as if there were no worker. *)
FetchIgnored(c) ==
  /\ ready = "SAFE_MODE" /\ clients[c] = "new"
  /\ Opens(c)
  /\ queue' = queue /\ Trigger
  /\ UNCHANGED <<driver, scheduledNavUpdateCheck, act, store, server, document, count>>

(* Not initialised: the request goes to the network. *)
FetchUninitialized(c) ==
  /\ act[c].at = "init" /\ act[Boot].at = "failed"
  /\ act' = [act EXCEPT ![c] = Rest]
  /\ Opens(c)
  /\ UNCHANGED <<driver, idle, store, server, document, count>>

(* Mutant: the request does not wait for the pin to be written. *)
AssignWithoutSync(c) ==
  /\ clientVersionMap' =
       [clientVersionMap EXCEPT ![c] = IF @ = None THEN latestHash ELSE @]
  /\ Serve(c, clientVersionMap'[c])

(* assignVersion() up to its first await. *)
AssignVersion(c) ==
  LET hash == clientVersionMap[c]
      move == ready = "NORMAL" /\ hash # latestHash /\ act[c].nav
  IN \/ hash # None /\ move /\ Goto(c, "getClient") /\ UNCHANGED clientVersionMap
     \/ hash # None /\ ~move /\ Serve(c, hash) /\ UNCHANGED clientVersionMap
     \/ hash = None /\ ready # "NORMAL" /\ Serve(c, None) /\ UNCHANGED clientVersionMap
     \/ hash = None /\ ready = "NORMAL" /\ Pin(c, c)

FetchInitialized(c) ==
  /\ act[c].at = "init" /\ act[Boot].at = "done"
  /\ scheduledNavUpdateCheck' = (scheduledNavUpdateCheck \/ act[c].nav)
  /\ queue' = IF act[c].nav /\ ~scheduledNavUpdateCheck
              THEN Append(queue, <<"navcheck", None>>) ELSE queue
  /\ AssignVersion(c)
  /\ UNCHANGED <<ready, latestHash, versions, timer, store, world>>

(* The client may be gone when clients.get() answers; then it is not moved. *)
FetchClient(c) ==
  /\ act[c].at = "getClient"
  /\ IF clients[c] = "open" /\ clientVersionMap[c] # latestHash
     THEN Pin(c, c)
     ELSE Serve(c, latestHash) /\ UNCHANGED clientVersionMap
  /\ UNCHANGED <<ready, latestHash, versions, idle, store, world>>

(* The version is looked up again after the await: the latest one by now. *)
FetchAssigned(c) ==
  /\ Synced(c)
  /\ Serve(c, latestHash)
  /\ UNCHANGED <<driver, idle, store, world>>

(* assignVersion() is outside the try block: no idle.trigger(). *)
FetchRejected(c) ==
  /\ act[c].at = "rejected"
  /\ act' = [act EXCEPT ![c] = Rest]
  /\ UNCHANGED <<driver, idle, store, world>>

(* Mutant: no idle.trigger() after the request. *)
FetchServeNoTrigger(c) ==
  /\ act[c].at = "serve"
  /\ document' = [document EXCEPT ![c] = IF act[c].nav THEN act[c].ver ELSE @]
  /\ act' = [act EXCEPT ![c] = Rest]
  /\ Opens(c)
  /\ UNCHANGED <<driver, idle, store, server, count>>

(* The version answers the request, or the network does, after a critical
   error of the version (reported unless it was replaced) or without one. *)
FetchServe(c) ==
  /\ act[c].at = "serve"
  /\ \E from \in {act[c].ver, None} :
       /\ document' = IF act[c].nav THEN [document EXCEPT ![c] = from] ELSE document
       /\ ready' = ready \/ (from = None /\ VersionFailed(act[c].ver))
  /\ queue' = queue /\ Trigger
  /\ act' = [act EXCEPT ![c] = Rest]
  /\ Opens(c)
  /\ UNCHANGED <<known, scheduledNavUpdateCheck, store, server, count>>

-----------------------------------------------------------------------------
(* Idle tasks and messages *)

(* onMessage(): CHECK_FOR_UPDATES, or ACTIVATE_UPDATE of an open client. *)
MessageEvent(t, task) ==
  /\ ready # "SAFE_MODE" /\ act[t].at = "none"
  /\ Happens("message")
  /\ task[1] = "activate" => clients[task[2]] = "open"
  /\ Await(t, [Rest EXCEPT !.at = "init", !.todo = <<task>>])
  /\ UNCHANGED <<driver, idle, store, server, clients, document>>

MessageInitialized(t) ==
  /\ act[t].at = "init"
  /\ \/ act[Boot].at = "done" /\ Goto(t, "next")
     \/ act[Boot].at = "failed" /\ act' = [act EXCEPT ![t] = Rest]
  /\ UNCHANGED <<driver, idle, store, world>>

(* execute() takes the whole queue. *)
TakeQueue(t) ==
  /\ act' = [act EXCEPT ![t].at = "next", ![t].todo = queue]
  /\ queue' = <<>>

(* The timer of the last trigger() fires. *)
Execute(t) ==
  /\ t \in Drains /\ timer /\ act[t].at = "none"
  /\ timer' = FALSE
  /\ TakeQueue(t)
  /\ UNCHANGED <<driver, scheduledNavUpdateCheck, store, world>>

(* A drain goes on with what was queued while it ran. *)
Drained(t) ==
  /\ act[t].at = "next" /\ act[t].todo = <<>>
  /\ IF t \in Drains /\ queue # <<>>
     THEN TakeQueue(t)
     ELSE act' = [act EXCEPT ![t] = Rest] /\ UNCHANGED queue
  /\ UNCHANGED <<driver, scheduledNavUpdateCheck, timer, store, world>>

Current(t) == Head(act[t].todo)
Begin(t, op) == act[t].at = "next" /\ act[t].todo # <<>> /\ Current(t)[1] = op
Finish(t) ==
  act' = [act EXCEPT ![t] = [Rest EXCEPT !.at = "next", !.todo = Tail(act[t].todo)]]

BeginCheck(t) ==
  /\ Begin(t, "check") \/ Begin(t, "navcheck")
  /\ scheduledNavUpdateCheck' = (scheduledNavUpdateCheck /\ Current(t)[1] = "check")
  /\ Goto(t, "manifest")
  /\ UNCHANGED <<driver, queue, timer, store, world>>

BeginOther(t) ==
  /\ \/ Begin(t, "cleanup") /\ Goto(t, "matchAll")
     \/ Begin(t, "initialize") /\ Goto(t, "initFully")
  /\ UNCHANGED <<driver, idle, store, world>>

(* updateClient() for ACTIVATE_UPDATE; the page reloads itself afterwards. *)
Activate(t) ==
  /\ Begin(t, "activate")
  /\ LET c == Current(t)[2] IN
     /\ document' = [document EXCEPT ![c] = None]
     /\ IF clientVersionMap[c] = latestHash
        THEN Finish(t) /\ UNCHANGED clientVersionMap
        ELSE Pin(t, c)
  /\ UNCHANGED <<ready, latestHash, versions, idle, store, server, clients, count>>

(* Mutant: the hash of the manifest is not kept over the await. *)
CheckForgetsHash(t) ==
  /\ act[t].at = "manifest" /\ server \notin versions
  /\ Goto(t, "install")
  /\ UNCHANGED <<driver, idle, store, world>>

(* checkForUpdate(): the manifest is known, or cannot be had because client or
   server is offline, which changes nothing; or fetching it is an error. *)
CheckDone(t) ==
  /\ act[t].at = "manifest"
  /\ ready' \in {ready, "EXISTING_CLIENTS_ONLY"}
  /\ Finish(t)
  /\ UNCHANGED <<known, idle, store, world>>

CheckFindsNew(t) ==
  /\ act[t].at = "manifest" /\ server \notin versions
  /\ act' = [act EXCEPT ![t].at = "install", ![t].ver = server]
  /\ UNCHANGED <<driver, idle, store, world>>

(* setupUpdate() once initializeFully() has succeeded. *)
Install(t) ==
  /\ act[t].at = "install"
  /\ versions' = versions \cup {act[t].ver}
  /\ latestHash' = act[t].ver
  /\ ready' = IF ready = "EXISTING_CLIENTS_ONLY" THEN "NORMAL" ELSE ready
  /\ Goto(t, "sync")
  /\ UNCHANGED <<clientVersionMap, idle, store, world>>

InstallFails(t) ==
  /\ act[t].at = "install"
  /\ ready' = "EXISTING_CLIENTS_ONLY"
  /\ Finish(t)
  /\ UNCHANGED <<known, idle, store, world>>

(* scheduleInitialization(): the version is, or cannot be, fully downloaded. *)
InitializeFully(t) ==
  /\ act[t].at = "initFully"
  /\ VersionFailed(Current(t)[2]) \/ ready' = ready
  /\ Finish(t)
  /\ UNCHANGED <<known, idle, store, world>>

(* Mutant: the cleaned maps are not committed. *)
CleanWithoutSync(t) ==
  /\ act[t].at = "clean"
  /\ clientVersionMap' =
       [c \in Clients |-> IF c \in act[t].active THEN clientVersionMap[c] ELSE None]
  /\ versions' = versions \cap ({clientVersionMap'[c] : c \in Clients} \cup {latestHash})
  /\ Finish(t)
  /\ UNCHANGED <<ready, latestHash, idle, store, world>>

(* cleanupCaches() *)
MatchAll(t) ==
  /\ act[t].at = "matchAll"
  /\ act' = [act EXCEPT ![t].at = "clean",
                        ![t].active = {c \in Clients : clients[c] = "open"}]
  /\ UNCHANGED <<driver, idle, store, world>>

Clean(t) ==
  /\ act[t].at = "clean"
  /\ clientVersionMap' =
       [c \in Clients |-> IF c \in act[t].active THEN clientVersionMap[c] ELSE None]
  /\ versions' = versions \cap ({clientVersionMap'[c] : c \in Clients} \cup {latestHash})
  /\ act' = [act EXCEPT ![t].at = "sync", ![t].active = {}]
  /\ UNCHANGED <<ready, latestHash, idle, store, world>>

TaskSynced(t) ==
  /\ Synced(t)
  /\ Finish(t)
  /\ UNCHANGED <<driver, idle, store, world>>

(* Only checkForUpdate() reacts to a failed sync(). *)
TaskRejected(t) ==
  /\ act[t].at = "rejected"
  /\ ready' = IF Current(t)[1] \in {"check", "navcheck"}
              THEN "EXISTING_CLIENTS_ONLY" ELSE ready
  /\ Finish(t)
  /\ UNCHANGED <<known, idle, store, world>>

-----------------------------------------------------------------------------
(* The browser and the server *)

Deploy(h) ==
  /\ h # server /\ Happens("deploy")
  /\ server' = h
  /\ UNCHANGED <<driver, idle, act, store, clients, document>>

ClientCloses(c) ==
  /\ clients[c] \in {"loading", "open"}
  /\ clients' = [clients EXCEPT ![c] = "closed"]
  /\ UNCHANGED <<driver, idle, act, store, server, document, count>>

(* The worker is stopped; the next event starts a new one. *)
Terminate ==
  /\ act[Boot].at # "none" /\ Happens("stop")
  /\ ready' = "NORMAL"
  /\ latestHash' = None /\ versions' = {} /\ clientVersionMap' = NoMap
  /\ scheduledNavUpdateCheck' = FALSE /\ queue' = <<>> /\ timer' = FALSE
  /\ act' = [p \in Procs |-> Rest]
  /\ disk' \in Landed /\ syncs' = <<>>
  /\ UNCHANGED <<remapped, server, clients, document>>

-----------------------------------------------------------------------------
BootStep == BootLoad \/ BootStartOver \/ BootManifest \/ BootWritten \/ BootFails

FetchStep(c) ==
  \/ FetchUninitialized(c) \/ FetchInitialized(c) \/ FetchClient(c)
  \/ FetchAssigned(c) \/ FetchRejected(c) \/ FetchServe(c) \/ TakeSnapshot(c)

TaskStep(t) ==
  \/ MessageInitialized(t) \/ Execute(t) \/ Drained(t) \/ BeginCheck(t)
  \/ BeginOther(t) \/ Activate(t) \/ CheckDone(t) \/ CheckFindsNew(t)
  \/ Install(t) \/ InstallFails(t) \/ InitializeFully(t) \/ MatchAll(t)
  \/ Clean(t) \/ TaskSynced(t) \/ TaskRejected(t) \/ TakeSnapshot(t)

(* JavaScript runs all the continuations that are due before the next event of
   the browser: those of awaits that only yield, and of settled promises. *)
Runnable(p) ==
  \/ act[p].at \in {"sync", "next", "written", "rejected"}
  \/ act[p].at = "init" /\ act[Boot].at \in {"done", "failed"}
Busy == \E p \in Procs : Runnable(p)
Turn(p) == Runnable(p) \/ ~Busy

Environment ==
  \/ \E c \in Clients : \/ \E n \in BOOLEAN : FetchEvent(c, n)
                        \/ FetchIgnored(c)
                        \/ ClientCloses(c)
  \/ \E t \in Messages : \/ MessageEvent(t, <<"check", None>>)
                         \/ \E c \in Clients : MessageEvent(t, <<"activate", c>>)
  \/ WritesFail
  \/ \E h \in Hashes : Deploy(h)
  \/ Terminate

Next == \/ Turn(Boot) /\ BootStep
        \/ \E c \in Clients : Turn(c) /\ FetchStep(c)
        \/ \E t \in Tasks : Turn(t) /\ TaskStep(t)
        \/ ~Busy /\ WritesLand
        \/ ~Busy /\ Environment

(* A promise of the browser settles and a timer fires, unless the worker is
   stopped first; nothing obliges users, servers or failures. *)
Fairness == /\ WF_vars(Turn(Boot) /\ BootStep)
            /\ \A c \in Clients : WF_vars(Turn(c) /\ FetchStep(c))
            /\ \A t \in Tasks : WF_vars(Turn(t) /\ TaskStep(t))
            /\ WF_vars(~Busy /\ WritesLand)

Spec == Init /\ [][Next]_vars
FairSpec == Spec /\ Fairness

-----------------------------------------------------------------------------
(* driver.ts:97, "If a ManifestHash appears here, it is also present in the
   versions map": no interleaving of assignments, updates, cleanups and
   restarts from half-written tables makes a version lookup fail, neither for
   a client nor for the latest hash. *)
VersionsKnown ==
  act[Boot].at = "done" => 
    /\ latestHash \in versions
    /\ \A c \in Clients : clientVersionMap[c] \in versions \cup {None}

(* While no handler is about to write, the tables hold what the driver holds,
   so that a restart changes nothing: every change of the two maps is followed
   by a sync() of its own, and overlapping syncs leave the newest snapshot. *)
DiskMatchesMemory ==
  (/\ act[Boot].at = "done" /\ count["fault"] = 0
   /\ \A p \in Procs : act[p].at \notin {"sync", "writing"})
     => /\ disk.manifests = versions /\ disk.latest = latestHash
        /\ Recovered(disk) = clientVersionMap

(* c is being pinned: by its own request or by an activation. *)
Pinning(c) ==
  \/ act[c].at \in {"sync", "writing"}
  \/ \E t \in Messages : /\ act[t].at \in {"sync", "writing"}
                         /\ Current(t) = <<"activate", c>>

(* A page that was answered with the version it is pinned to would get the
   same version after a crash at this very moment, however the writes of other
   activities have landed, unless the tables are unusable and everything starts
   over, or the pin itself is the substitute a restart chose for a hash it did
   not know, which is not written back. *)
PinsRecoverable ==
  (act[Boot].at = "done" /\ count["fault"] = 0) =>
    \A d \in {x \in Landed : Valid(x)} : \A c \in Clients \ remapped :
      (document[c] # None /\ document[c] = clientVersionMap[c] /\ ~Pinning(c))
        => Recovered(d)[c] = clientVersionMap[c]

(* Every request the worker takes on is answered, or lost with the worker. *)
FetchAnswered == \A c \in Clients : act[c].at # "none" ~> act[c].at = "none"

(* The update check that a navigation scheduled is made: until it is, no other
   navigation schedules one.  A failed write may leave it to the next request. *)
NavCheckRuns ==
  scheduledNavUpdateCheck ~> (~scheduledNavUpdateCheck \/ count["fault"] > 0)
=============================================================================
