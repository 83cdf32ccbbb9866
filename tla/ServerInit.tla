------------------------------ MODULE ServerInit ------------------------------
(***************************************************************************)
(* How the server starts: ClusterManagerInitHelper brings up the static    *)
(* primary clusters, waits for RTDS, brings up the static secondary ones,  *)
(* asks CDS for the dynamic ones and waits for those; then RunHelper       *)
(* initializes the server's init manager (module InitManager), and when    *)
(* that is done the workers start.  CDS goes on adding, updating and       *)
(* removing clusters, before and after.                                    *)
(*                                                                         *)
(* Everything runs on the main thread, but nearly every call may complete  *)
(* at once and call back: a STATIC cluster finishes inside initialize(), a *)
(* file based CDS answers inside its start().  `stack' holds the functions *)
(* that are in progress, the innermost first; an event of the main loop is *)
(* taken when it is empty, and one step runs the innermost function up to  *)
(* its next call.                                                          *)
(***************************************************************************)
EXTENDS InitManager

CONSTANTS StaticPrimary, StaticSecondary,     \* names of bootstrap clusters
          DynamicPrimary, DynamicSecondary,   \* names that CDS sends
          PhaseMayChange,   \* may an update change a cluster's phase?
          MaxUpdates,       \* bound: CDS responses, while the server starts
          MaxLateUpdates,   \* bound: CDS responses before one that comes later
          MaxVersions       \* bound: configurations per dynamic cluster

Static == StaticPrimary \cup StaticSecondary
Dynamic == DynamicPrimary \cup DynamicSecondary
Names == Static \cup Dynamic

\* CDS cannot change a static cluster (blockUpdate, removeCluster).
ASSUME InitAssumption ==
    /\ IsFiniteSet(Names) /\ Static \cap Dynamic = {} /\ PhaseMayChange \in BOOLEAN
    /\ MaxUpdates \in Nat /\ MaxLateUpdates \in Nat /\ MaxVersions \in Nat

VARIABLES helper,    \* ClusterManagerInitHelper
          clusters,  \* the maps of the cluster manager and its Cluster objects
          server,    \* RunHelper, RTDS, CDS subscription
          stack

vars == <<helper, clusters, server, stack, managerVars>>

-----------------------------------------------------------------------------
(* A Cluster object; a name has a new object for every configuration.      *)

Cluster(n, version, phase) == [name |-> n, version |-> version, phase |-> phase]
NoCluster == [name |-> "none", version |-> 0, phase |-> "none"]

PhaseOf(n) == IF n \in StaticPrimary \cup DynamicPrimary THEN "Primary" ELSE "Secondary"
Other(phase) == IF phase = "Primary" THEN "Secondary" ELSE "Primary"

\* Clusters that exist: everything else has been destroyed.
Alive == ({clusters.active[n] : n \in Names} \cup {clusters.warming[n] : n \in Names})
           \ {NoCluster}

Frame(op, names, c) == [op |-> op, names |-> names, cluster |-> c]
Call(op) == Frame(op, {}, NoCluster)
Over(op, names) == Frame(op, names, NoCluster)
On(op, c) == Frame(op, {}, c)

top == Head(stack)
Runs(op) == stack # <<>> /\ top.op = op /\ ManagerReturned
\* The innermost function ends by calling, one after the other, fs.
Calls(fs) == stack' = fs \o Tail(stack)
Returns == Calls(<<>>)
MainLoop == stack = <<>> /\ ManagerReturned

\* The constructor of the cluster manager loads the static clusters into the
\* active map; the helper is told of them, then the server and RunHelper
\* register their callbacks, all before the main loop runs.
Init ==
    /\ ManagerInit
    /\ helper = [state |-> "Loading", started |-> FALSE,
                 primary |-> [n \in Names |-> NoCluster],
                 secondary |-> [n \in Names |-> NoCluster]]
    /\ clusters = [active |-> [n \in Names |-> IF n \in Static
                                               THEN Cluster(n, 0, PhaseOf(n)) ELSE NoCluster],
                   warming |-> [n \in Names |-> NoCluster],
                   version |-> [n \in Names |-> 0],
                   initializing |-> {}, initialized |-> {}]
    /\ \E cds \in {"none", "idle"} :
         server = [primaryCb |-> FALSE, initializedCb |-> FALSE, rtds |-> "idle",
                   cds |-> cds, updates |-> 0, shutdown |-> FALSE, workers |-> 0]
    /\ stack = <<Over("addStatic", Static), Call("onStaticLoadComplete"),
                 Call("setPrimaryClustersInitializedCb"), Call("setInitializedCb")>>

Waiting(map) == {n \in Names : map[n] # NoCluster}

-----------------------------------------------------------------------------
(* Cluster::initialize.  Host discovery, the cluster's own init manager    *)
(* and the first health checks are one step, now or later; then the        *)
(* completion callback runs, which is the helper's or, for a cluster that  *)
(* warms up by itself, the cluster manager's.                              *)

clusterInitialize ==
    /\ Runs("helperInitialize") \/ Runs("warmingInitialize")
    /\ LET done == On(IF top.op = "helperInitialize" THEN "helper::onClusterInit"
                      ELSE "warmed", top.cluster)
       IN \/ /\ clusters' = [clusters EXCEPT !.initialized = @ \cup {top.cluster}]
             /\ Calls(<<done>>)
          \/ /\ clusters' = [clusters EXCEPT !.initializing = @ \cup {done}]
             /\ Returns
    /\ UNCHANGED <<helper, server, managerVars>>

finishInitialization(n) ==
    /\ MainLoop
    /\ \E f \in clusters.initializing :
         /\ f.cluster.name = n /\ f.cluster \in Alive
         /\ clusters' = [clusters EXCEPT !.initializing = @ \ {f},
                                         !.initialized = @ \cup {f.cluster}]
         /\ stack' = <<f>>
    /\ UNCHANGED <<helper, server, managerVars>>

-----------------------------------------------------------------------------
(* ClusterManagerInitHelper.                                               *)

addStatic ==
    /\ Runs("addStatic") /\ UNCHANGED <<helper, clusters, server, managerVars>>
    /\ IF top.names = {} THEN Returns
       ELSE \E n \in top.names :
              Calls(<<On("helper::addCluster", clusters.active[n]),
                      Over("addStatic", top.names \ {n})>>)

addCluster ==
    /\ Runs("helper::addCluster") /\ UNCHANGED <<clusters, server, managerVars>>
    /\ LET c == top.cluster
       IN IF c.phase = "Primary"
          THEN /\ helper' = [helper EXCEPT !.primary[c.name] = c]
               /\ Calls(<<On("helperInitialize", c)>>)
          ELSE /\ helper' = [helper EXCEPT !.secondary[c.name] = c]
               /\ Calls(IF helper.started THEN <<On("helperInitialize", c)>> ELSE <<>>)

\* ClusterManagerImpl::onClusterInit finds the cluster by its name.
Activate(c) ==
    IF clusters.warming[c.name] = NoCluster THEN clusters
    ELSE [clusters EXCEPT !.active[c.name] = clusters.warming[c.name],
                          !.warming[c.name] = NoCluster]

helperOnClusterInit ==
    /\ Runs("helper::onClusterInit")
    /\ clusters' = Activate(top.cluster)
    /\ Calls(<<On("helper::removeCluster", top.cluster)>>)
    /\ UNCHANGED <<helper, server, managerVars>>

\* Mutant of Without: whatever the map holds under the name is erased.
WithoutName(map, c) == [map EXCEPT ![c.name] = NoCluster]

\* Only this object's entry is erased.
Without(map, c) == IF map[c.name] = c THEN [map EXCEPT ![c.name] = NoCluster] ELSE map

helperRemoveCluster ==
    /\ Runs("helper::removeCluster") /\ UNCHANGED <<clusters, server, managerVars>>
    /\ IF helper.state = "AllClustersInitialized"
       THEN Returns /\ UNCHANGED helper
       ELSE /\ helper' = IF top.cluster.phase = "Primary"
                         THEN [helper EXCEPT !.primary = Without(@, top.cluster)]
                         ELSE [helper EXCEPT !.secondary = Without(@, top.cluster)]
            /\ Calls(<<Call("maybeFinishInitialize")>>)

MustWait == \/ helper.state \in {"Loading", "WaitingToStartCdsInitialization"}
            \/ Waiting(helper.primary) # {}

\* Mutant of SecondariesToStart: none is started when CDS has answered.
StartedOnce ==
    ~helper.started /\ helper.state = "WaitingToStartSecondaryInitialization"

SecondariesToStart == ~helper.started

maybeFinishInitialize ==
    /\ Runs("maybeFinishInitialize") /\ UNCHANGED <<clusters, managerVars>>
    /\ \/ MustWait /\ Returns /\ UNCHANGED <<helper, server>>
       \/ /\ ~MustWait /\ helper.state = "WaitingForPrimaryInitializationToComplete"
          /\ helper' = [helper EXCEPT !.state = "WaitingToStartSecondaryInitialization"]
          /\ Calls(IF server.primaryCb THEN <<Call("startRtdsSubscriptions")>> ELSE <<>>)
          /\ UNCHANGED server
       \/ /\ ~MustWait /\ helper.state # "WaitingForPrimaryInitializationToComplete"
          /\ \/ /\ Waiting(helper.secondary) # {}
                /\ helper' = [helper EXCEPT !.started = TRUE]
                /\ Calls(IF SecondariesToStart
                         THEN <<Over("initializeSecondary", Waiting(helper.secondary))>>
                         ELSE <<>>)
                /\ UNCHANGED server
             \/ /\ Waiting(helper.secondary) = {}
                /\ IF helper.state = "WaitingToStartSecondaryInitialization"
                      /\ server.cds # "none"
                   THEN /\ helper' = [helper EXCEPT !.started = FALSE,
                                        !.state = "WaitingToStartCdsInitialization"]
                        /\ server' = [server EXCEPT !.cds = "started"]
                        /\ Calls(<<Call("cdsStart")>>)
                   ELSE /\ helper' = [helper EXCEPT !.started = FALSE,
                                        !.state = "AllClustersInitialized"]
                        /\ UNCHANGED server
                        /\ Calls(IF server.initializedCb
                                 THEN <<Call("initializedCallback")>> ELSE <<>>)

\* Mutant of the loop: the iterator moves on after initialize().
initializeSecondaryAdvanceLate ==
    /\ Runs("initializeSecondary") /\ UNCHANGED <<helper, clusters, server, managerVars>>
    /\ IF top.names = {} THEN Returns
       ELSE \E n \in top.names :
              Calls(<<On("helperInitialize", helper.secondary[n]),
                      Over("initializeSecondary", top.names)>>)

\* The loop over secondary_init_clusters_: the iterator has moved on when
\* initialize() is called.
initializeSecondaryClusters ==
    /\ Runs("initializeSecondary") /\ UNCHANGED <<helper, clusters, server, managerVars>>
    /\ IF top.names = {} THEN Returns
       ELSE \E n \in top.names :
              Calls(<<On("helperInitialize", helper.secondary[n]),
                      Over("initializeSecondary", top.names \ {n})>>)

onStaticLoadComplete ==
    /\ Runs("onStaticLoadComplete")
    /\ helper' = [helper EXCEPT !.state = "WaitingForPrimaryInitializationToComplete"]
    /\ Calls(<<Call("maybeFinishInitialize")>>)
    /\ UNCHANGED <<clusters, server, managerVars>>

\* Called by the server once its static listeners and LDS are set up.
setPrimaryClustersInitializedCb ==
    /\ Runs("setPrimaryClustersInitializedCb")
    /\ server' = [server EXCEPT !.primaryCb = TRUE]
    /\ Calls(IF helper.state = "WaitingToStartSecondaryInitialization"
             THEN <<Call("startRtdsSubscriptions")>> ELSE <<>>)
    /\ UNCHANGED <<helper, clusters, managerVars>>

\* Before that it registers their targets.
registerTarget(t) ==
    /\ Runs("setPrimaryClustersInitializedCb") /\ add(t)
    /\ UNCHANGED <<helper, clusters, server, stack>>

setInitializedCb ==
    /\ Runs("setInitializedCb")
    /\ server' = [server EXCEPT !.initializedCb = TRUE]
    /\ Calls(IF helper.state = "AllClustersInitialized"
             THEN <<Call("initializedCallback")>> ELSE <<>>)
    /\ UNCHANGED <<helper, clusters, managerVars>>

-----------------------------------------------------------------------------
(* The server.                                                             *)

\* Mutant of RtdsPending: the answer is not waited for.
RtdsNotWaitedFor == <<Call("onRuntimeReady")>>

RtdsPending == <<>>

\* Without RTDS layers, or with file based ones, it is ready at once.
startRtdsSubscriptions ==
    /\ Runs("startRtdsSubscriptions")
    /\ \/ Calls(<<Call("onRuntimeReady")>>) /\ server' = [server EXCEPT !.rtds = "ready"]
       \/ Calls(RtdsPending) /\ server' = [server EXCEPT !.rtds = "started"]
    /\ UNCHANGED <<helper, clusters, managerVars>>

rtdsReady ==
    /\ MainLoop /\ server.rtds = "started"
    /\ server' = [server EXCEPT !.rtds = "ready"]
    /\ stack' = <<Call("onRuntimeReady")>>
    /\ UNCHANGED <<helper, clusters, managerVars>>

onRuntimeReady ==
    /\ Runs("onRuntimeReady") /\ Calls(<<Call("maybeFinishInitialize")>>)
    /\ UNCHANGED <<helper, clusters, server, managerVars>>

\* Mutant of StartWorkersIfReported: looks at the manager's state.
StartWorkersIfInitialized ==
    server' = IF manager'.state = "Initialized" /\ ~server.shutdown
              THEN [server EXCEPT !.workers = @ + 1] ELSE server

\* Mutant of StartWorkersIfReported: the shutdown is not looked at.
StartWorkersAlways ==
    server' = IF manager'.notified # manager.notified
              THEN [server EXCEPT !.workers = @ + 1] ELSE server

\* RunHelper's watcher: the workers start when the manager reports.
StartWorkersIfReported ==
    server' = IF manager'.notified # manager.notified /\ ~server.shutdown
              THEN [server EXCEPT !.workers = @ + 1] ELSE server

initializedCallback ==
    /\ Runs("initializedCallback") /\ Returns
    /\ IF server.shutdown THEN UNCHANGED <<server, managerVars>>
       ELSE initialize /\ StartWorkersIfReported
    /\ UNCHANGED <<helper, clusters>>

managerStep ==
    /\ stack = <<>> \/ ~ManagerReturned
    /\ ManagerStep /\ StartWorkersIfReported
    /\ UNCHANGED <<helper, clusters, stack>>

\* A listener that LDS adds before the workers have started, in the main loop
\* or inside the initialize function of the LDS target.
addListener(t) ==
    /\ manager.state = "Initializing" /\ (MainLoop \/ running # <<>>)
    /\ add(t)
    /\ UNCHANGED <<helper, clusters, server, stack>>

shutdown ==
    /\ MainLoop /\ ~server.shutdown
    /\ server' = [server EXCEPT !.shutdown = TRUE]
    /\ UNCHANGED <<helper, clusters, stack, managerVars>>

-----------------------------------------------------------------------------
(* CDS and the cluster manager.                                            *)

\* CdsApiHelper::onConfigUpdate adds and updates, then removes; then
\* runInitializeCallbackIfAny.
Update(added, removed) ==
    <<Over("addOrUpdateClusters", added), Over("removeClusters", removed),
      Call("cdsInitializedCb")>>

\* Clusters that did not change are skipped and names that do not exist are
\* not removed: an update lists neither.
Updates ==
    {Update(u[1], u[2]) :
       u \in {v \in (SUBSET {n \in Dynamic : clusters.version[n] < MaxVersions})
                       \X SUBSET ({c.name : c \in Alive} \cap Dynamic) :
                v[1] \cap v[2] = {}}}

Answer == /\ server.updates < IF helper.state = "AllClustersInitialized"
                              THEN MaxLateUpdates ELSE MaxUpdates
          /\ server' = [server EXCEPT !.updates = @ + 1]

\* The subscription starts; a file based one answers inside start().
cdsStart ==
    /\ Runs("cdsStart")
    /\ \/ Returns /\ UNCHANGED server
       \/ Answer /\ \E u \in Updates : Calls(u)
    /\ UNCHANGED <<helper, clusters, managerVars>>

cdsResponse ==
    /\ MainLoop /\ server.cds \in {"started", "answered"}
    /\ Answer /\ \E u \in Updates \ {Update({}, {})} : stack' = u
    /\ UNCHANGED <<helper, clusters, managerVars>>

\* The first fetch fails or times out, or its answer is empty.
cdsFetchTimeout ==
    /\ MainLoop /\ server.cds = "started"
    /\ stack' = <<Call("cdsInitializedCb")>>
    /\ UNCHANGED <<helper, clusters, server, managerVars>>

cdsInitializedCb ==
    /\ Runs("cdsInitializedCb") /\ UNCHANGED <<clusters, managerVars>>
    /\ IF server.cds = "started"
       THEN /\ server' = [server EXCEPT !.cds = "answered"]
            /\ helper' = [helper EXCEPT !.state = "CdsInitialized"]
            /\ Calls(<<Call("maybeFinishInitialize")>>)
       ELSE Returns /\ UNCHANGED <<helper, server>>

EachOf(loop, body) ==
    /\ Runs(loop) /\ UNCHANGED <<helper, clusters, server, managerVars>>
    /\ IF top.names = {} THEN Returns
       ELSE \E n \in top.names :
              Calls(<<Over(body, {n}), Over(loop, top.names \ {n})>>)

addOrUpdateCluster ==
    /\ Runs("addOrUpdateCluster") /\ UNCHANGED <<helper, clusters, server, managerVars>>
    /\ \E n \in top.names :
         LET load == Over("loadCluster", {n})
         IN Calls(IF clusters.active[n] = NoCluster THEN <<load>>
                  ELSE <<On("helper::removeCluster", clusters.active[n]), load>>)

\* Mutant of loadCluster: after the start an update does not warm up.
loadIntoActive ==
    /\ Runs("loadCluster") /\ UNCHANGED <<helper, server, managerVars>>
    /\ \E n \in top.names :
         LET c == Cluster(n, clusters.version[n] + 1, PhaseOf(n))
         IN IF helper.state = "AllClustersInitialized"
            THEN /\ clusters' = [clusters EXCEPT !.active[n] = c, !.version[n] = @ + 1]
                 /\ Calls(<<On("warmingInitialize", c)>>)
            ELSE /\ clusters' = [clusters EXCEPT !.warming[n] = c, !.version[n] = @ + 1]
                 /\ Calls(<<On("helper::addCluster", c)>>)

\* The new object takes the name's place in the warming map; the one it
\* replaces is destroyed when addOrUpdateCluster returns.
loadCluster ==
    /\ Runs("loadCluster") /\ UNCHANGED <<helper, server, managerVars>>
    /\ \E n \in top.names, phase \in {"Primary", "Secondary"} :
         /\ phase # PhaseOf(n) => PhaseMayChange
         /\ LET c == Cluster(n, clusters.version[n] + 1, phase)
            IN /\ clusters' = [clusters EXCEPT !.warming[n] = c, !.version[n] = @ + 1]
               /\ Calls(<<On(IF helper.state = "AllClustersInitialized"
                             THEN "warmingInitialize" ELSE "helper::addCluster", c)>>)

\* Mutant of warmed: the cluster stays where it is.
staysWarming ==
    /\ Runs("warmed") /\ Returns
    /\ UNCHANGED <<helper, clusters, server, managerVars>>

\* The callback of a cluster that warms up by itself looks its name up, too.
warmed ==
    /\ Runs("warmed") /\ clusters' = Activate(clusters.warming[top.cluster.name])
    /\ Returns
    /\ UNCHANGED <<helper, server, managerVars>>

removeCluster ==
    /\ Runs("removeCluster") /\ UNCHANGED <<helper, clusters, server, managerVars>>
    /\ \E n \in top.names :
         LET rest == Over("removeWarming", {n})
         IN Calls(IF clusters.active[n] = NoCluster THEN <<rest>>
                  ELSE <<On("helper::removeCluster", clusters.active[n]),
                         Over("eraseActive", {n}), rest>>)

\* Mutant of removeWarming: the helper is not told.
removeWarmingSilently ==
    /\ Runs("removeWarming") /\ UNCHANGED <<helper, clusters, server, managerVars>>
    /\ \E n \in top.names :
         Calls(IF clusters.warming[n] = NoCluster THEN <<>> ELSE <<Over("eraseWarming", {n})>>)

\* Mutant of removeWarming: erased first.
eraseWarmingFirst ==
    /\ Runs("removeWarming") /\ UNCHANGED <<helper, clusters, server, managerVars>>
    /\ \E n \in top.names :
         Calls(IF clusters.warming[n] = NoCluster THEN <<>>
               ELSE <<Over("eraseWarming", {n}),
                      On("helper::removeCluster", clusters.warming[n])>>)

removeWarming ==
    /\ Runs("removeWarming") /\ UNCHANGED <<helper, clusters, server, managerVars>>
    /\ \E n \in top.names :
         Calls(IF clusters.warming[n] = NoCluster THEN <<>>
               ELSE <<On("helper::removeCluster", clusters.warming[n]),
                      Over("eraseWarming", {n})>>)

erase ==
    /\ \/ /\ Runs("eraseActive")
          /\ \E n \in top.names : clusters' = [clusters EXCEPT !.active[n] = NoCluster]
       \/ /\ Runs("eraseWarming")
          /\ \E n \in top.names : clusters' = [clusters EXCEPT !.warming[n] = NoCluster]
    /\ Returns /\ UNCHANGED <<helper, server, managerVars>>

-----------------------------------------------------------------------------
\* The function in progress goes on.
Step == \/ clusterInitialize \/ addStatic \/ addCluster \/ helperOnClusterInit
        \/ helperRemoveCluster \/ maybeFinishInitialize \/ initializeSecondaryClusters
        \/ onStaticLoadComplete \/ setPrimaryClustersInitializedCb \/ setInitializedCb
        \/ startRtdsSubscriptions \/ onRuntimeReady \/ initializedCallback
        \/ cdsStart \/ cdsInitializedCb
        \/ EachOf("addOrUpdateClusters", "addOrUpdateCluster")
        \/ EachOf("removeClusters", "removeCluster")
        \/ addOrUpdateCluster \/ loadCluster \/ warmed
        \/ removeCluster \/ removeWarming \/ erase

Next == \/ Step \/ managerStep \/ rtdsReady \/ cdsResponse \/ cdsFetchTimeout \/ shutdown
        \/ \E n \in Names : finishInitialization(n)
        \/ \E t \in Targets : registerTarget(t) \/ addListener(t)

\* What the server waits for comes: a function goes on, a cluster finishes (its
\* discovery and health checks have timeouts), RTDS and CDS answer or their
\* first fetch times out, and so do the subscriptions behind the targets.
Fairness ==
    /\ WF_vars(Step) /\ WF_vars(rtdsReady) /\ WF_vars(cdsFetchTimeout)
    /\ \A n \in Names : WF_vars(finishInitialization(n))
    /\ WF_vars((initializeNext \/ fnReturns) /\ managerStep)
    /\ \A t \in Targets : WF_vars(targetReady(t) /\ managerStep)

Spec == Init /\ [][Next]_vars /\ Fairness

-----------------------------------------------------------------------------
(* Properties.                                                             *)

TypeOK ==
    /\ ManagerTypeOK
    /\ helper.state \in {"Loading", "WaitingForPrimaryInitializationToComplete",
                         "WaitingToStartSecondaryInitialization",
                         "WaitingToStartCdsInitialization", "CdsInitialized",
                         "AllClustersInitialized"}
    /\ \A n \in Names : \A c \in {helper.primary[n], helper.secondary[n],
                                  clusters.active[n], clusters.warming[n]} \ {NoCluster} :
         c.name = n /\ c.phase \in {"Primary", "Secondary"}
    /\ server.workers \in {0, 1}

InitEntries == {helper.primary[n] : n \in Names} \cup {helper.secondary[n] : n \in Names}

\* A cluster that the helper waits for exists: the maps hold plain pointers.
\* (Comment in addCluster: the previous cluster is removed before its object is
\* destroyed.)
InitEntriesAlive == MainLoop => InitEntries \subseteq Alive \cup {NoCluster}

\* The helper waits for exactly the clusters that are not initialized: no
\* other when the main loop runs, so that neither an update of a cluster that
\* is still warming up nor its removal lets the start finish early or hang.
WaitsForUninitialized ==
    MainLoop /\ helper.state # "AllClustersInitialized"
      => InitEntries \ {NoCluster} = Alive \ clusters.initialized

\* The object that becomes active is the one that finished: the callbacks look
\* it up by name, while updates replace what the name stands for.
ActiveIsInitialized ==
    \A n \in Dynamic : clusters.active[n] # NoCluster
                         => clusters.active[n] \in clusters.initialized

\* The helper and the tables agree with what has really been initialized.
InitializationTracked == WaitsForUninitialized /\ ActiveIsInitialized

\* The iterator that initializeSecondaryClusters keeps across initialize()
\* stays valid: the calls made inside remove no other entry.
IteratorValid ==
    \A i \in DOMAIN stack : stack[i].op = "initializeSecondary"
      => stack[i].names \subseteq Waiting(helper.secondary)

\* No function in progress holds a cluster that has been destroyed.
FramesAlive ==
    \A i \in DOMAIN stack : stack[i].cluster # NoCluster => stack[i].cluster \in Alive

\* All references are good: the tables are well formed, and the pointers and
\* the iterator held by functions in progress have not been invalidated.
ReferencesValid == TypeOK /\ IteratorValid /\ FramesAlive

\* No secondary cluster is initialized before RTDS has been applied.
SecondaryAfterRuntime ==
    server.rtds # "ready"
      => \A c \in clusters.initialized \cup {f.cluster : f \in clusters.initializing} :
           c.phase = "Primary"

\* When the helper declares all clusters initialized, every cluster is, except
\* one that is just being removed.
AllInitializedAtFinish ==
    helper'.state # helper.state /\ helper'.state = "AllClustersInitialized"
      => \A c \in Alive \ clusters.initialized :
           \E i \in DOMAIN stack : stack[i] = Over("eraseWarming", {c.name})

\* Workers start once, when clusters and targets are done and no shutdown has
\* begun.
WorkersStartLast ==
    server'.workers # server.workers
      => /\ server.workers = 0 /\ ~server.shutdown
         /\ helper.state = "AllClustersInitialized" /\ manager'.count = 0

\* The phases of the start follow each other, whatever completes inside what:
\* runtime, secondary clusters, all clusters, workers.
StartupOrder ==
    [][SecondaryAfterRuntime' /\ AllInitializedAtFinish /\ WorkersStartLast]_vars

\* The start does not hang: the workers start, unless the server is shut down
\* or a target was destroyed that had to report.
StartupFinishes == <>(server.workers = 1 \/ server.shutdown \/ Orphans # {})

\* A warming cluster becomes active, or is removed or replaced.
WarmingEnds ==
    \A n \in Dynamic : clusters.warming[n] # NoCluster ~> clusters.warming[n] = NoCluster

=============================================================================
