--------------------------- MODULE ServerInitProofs ---------------------------
(***************************************************************************)
(* Proofs about the starting server, for any targets, listeners and        *)
(* clusters.  First the init manager: the count of the targets is exact,   *)
(* the watcher is told once and after all of them.  Then the clusters: the *)
(* pointers in the helper's tables and on the stack stay good, and so does *)
(* the iterator over the secondary clusters, the helper waits for exactly  *)
(* the clusters that are not initialized, and the phases of the start      *)
(* follow each other up to the workers, which start once.                  *)
(***************************************************************************)
EXTENDS ServerInit, FiniteSetTheorems, TLAPS

Registered == {t \in Targets : target[t] \in {"added", "initializing"}}

ManagerRecord ==
    [state : {"Uninitialized", "Initializing", "Initialized"}, count : Nat,
     handles : Seq(Targets), next : Nat, notified : Nat]

\* The handles that the loop of initialize() has still to visit stand for
\* different targets, none of which has been called.
HandlesWait ==
    /\ manager.next # 0 => manager.state # "Uninitialized"
    /\ \A i, j \in DOMAIN manager.handles :
         manager.handles[i] = manager.handles[j] => i = j
    /\ \A i \in DOMAIN manager.handles :
         manager.state = "Uninitialized" \/ (manager.next # 0 /\ manager.next <= i)
           => target[manager.handles[i]] = "added"

ManagerInv ==
    /\ manager \in ManagerRecord
    /\ target \in [Targets -> {"new", "added", "initializing", "done"}]
    /\ TargetCountExact
    /\ NotifiedOnceAllReady
    /\ HandlesWait

ServerRecord ==
    [primaryCb : BOOLEAN, initializedCb : BOOLEAN, rtds : {"idle", "started", "ready"},
     cds : {"none", "idle", "started", "answered"}, updates : Nat,
     shutdown : BOOLEAN, workers : {0, 1}]

\* The workers start once, and only after the init manager has reported: when
\* every target that was registered is ready.
WorkersAfterTargets ==
    /\ server.workers \in {0, 1}
    /\ server.workers = 1 => \A t \in Targets : target[t] \in {"new", "done"}

ServerInv ==
    /\ server \in ServerRecord
    /\ server.workers = 1 => manager.state = "Initialized"

-----------------------------------------------------------------------------
(* Counting.                                                               *)

\* The registered targets are finitely many.
LEMMA RegisteredFinite == IsFiniteSet(Registered)
  BY TargetsAssumption, FS_Subset DEF Registered

\* add() counts a target that was not registered.
LEMMA OneMore ==
  ASSUME NEW t \in Targets,
         target \in [Targets -> {"new", "added", "initializing", "done"}],
         target[t] = "new", NEW s \in {"added", "initializing"},
         target' = [target EXCEPT ![t] = s]
  PROVE  Cardinality(Registered') = Cardinality(Registered) + 1
  <1>1. Registered' = Registered \cup {t} BY DEF Registered
  <1>2. t \notin Registered BY DEF Registered
  <1> QED BY <1>1, <1>2, RegisteredFinite, FS_AddElement

\* A registered target that becomes ready is counted off.
LEMMA OneLess ==
  ASSUME NEW t \in Registered,
         target \in [Targets -> {"new", "added", "initializing", "done"}],
         target' = [target EXCEPT ![t] = "done"]
  PROVE  /\ Cardinality(Registered') = Cardinality(Registered) - 1
         /\ Cardinality(Registered) \in Nat \ {0}
         /\ Cardinality(Registered') \in Nat
         /\ Cardinality(Registered') = 0 => \A u \in Targets : target'[u] \in {"new", "done"}
  <1>1. Registered' = Registered \ {t} BY DEF Registered
  <1>2. IsFiniteSet(Registered') BY <1>1, RegisteredFinite, FS_RemoveElement
  <1>3. Cardinality(Registered') = Cardinality(Registered) - 1
    BY <1>1, RegisteredFinite, FS_RemoveElement
  <1>4. Cardinality(Registered) \in Nat /\ Cardinality(Registered') \in Nat
    BY <1>2, RegisteredFinite, FS_CardinalityType
  <1>5. Cardinality(Registered) # 0 BY RegisteredFinite, FS_EmptySet
  <1>6. ASSUME Cardinality(Registered') = 0, NEW u \in Targets
        PROVE  target'[u] \in {"new", "done"}
    <2>1. Registered' = {} BY <1>2, <1>6, FS_EmptySet
    <2> QED BY <2>1 DEF Registered
  <1> QED BY <1>3, <1>4, <1>5, <1>6

-----------------------------------------------------------------------------
(* The manager's operations.                                               *)

\* add() keeps the invariant, before initialize() and during it.
LEMMA AddKeeps ==
  ASSUME ManagerInv, NEW t \in Targets, add(t)
  PROVE  ManagerInv'
  <1> USE DEF ManagerInv, ManagerRecord
  <1>1. CASE manager.state = "Uninitialized"
    <2>1. /\ manager' = [state |-> manager.state, count |-> manager.count + 1,
                         handles |-> Append(manager.handles, t), next |-> manager.next,
                         notified |-> manager.notified]
          /\ target' = [target EXCEPT ![t] = "added"]
          /\ target[t] = "new"
      BY <1>1 DEF add, Counted
    <2>2. /\ manager' \in ManagerRecord
          /\ target' \in [Targets -> {"new", "added", "initializing", "done"}]
      BY <2>1
    <2>3. TargetCountExact'
      BY <2>1, OneMore DEF TargetCountExact, Registered
    <2>4. NotifiedOnceAllReady' BY <1>1, <2>1 DEF NotifiedOnceAllReady
    <2>5. HandlesWait'
      <3> DEFINE h == manager.handles
      <3>1. /\ DOMAIN manager'.handles = 1 .. (Len(h) + 1)
            /\ \A i \in 1 .. Len(h) : manager'.handles[i] = h[i] /\ h[i] \in Targets
            /\ manager'.handles[Len(h) + 1] = t
            /\ DOMAIN h = 1 .. Len(h) /\ Len(h) \in Nat
        BY <2>1
      <3>2. \A i \in DOMAIN h : target[h[i]] = "added" BY <1>1 DEF HandlesWait
      <3>3. \A i \in DOMAIN h : h[i] # t BY <2>1, <3>2
      <3>4. \A i \in DOMAIN manager'.handles : target'[manager'.handles[i]] = "added"
        BY <2>1, <3>1, <3>2, <3>3
      <3>5. \A i, j \in DOMAIN manager'.handles :
              manager'.handles[i] = manager'.handles[j] => i = j
        BY <3>1, <3>3 DEF HandlesWait
      <3>6. manager'.next = 0 BY <1>1, <2>1 DEF HandlesWait
      <3> QED BY <3>4, <3>5, <3>6 DEF HandlesWait
    <2> QED BY <2>2, <2>3, <2>4, <2>5
  <1>2. CASE manager.state = "Initializing"
    <2>1. /\ manager' = [manager EXCEPT !.count = @ + 1]
          /\ target' = [target EXCEPT ![t] = "initializing"]
          /\ target[t] = "new"
      BY <1>2 DEF add, Counted
    <2>2. /\ manager' \in ManagerRecord
          /\ target' \in [Targets -> {"new", "added", "initializing", "done"}]
      BY <2>1
    <2>3. TargetCountExact'
      BY <2>1, OneMore DEF TargetCountExact, Registered
    <2>4. NotifiedOnceAllReady' BY <1>2, <2>1 DEF NotifiedOnceAllReady
    <2>5. HandlesWait'
      <3>1. \A i \in DOMAIN manager.handles : manager.handles[i] \in Targets OBVIOUS
      <3> QED BY <1>2, <2>1, <3>1 DEF HandlesWait
    <2> QED BY <2>2, <2>3, <2>4, <2>5
  <1> QED BY <1>1, <1>2 DEF add

\* initialize() with no targets reports at once.
LEMMA InitializeKeeps ==
  ASSUME ManagerInv, initialize
  PROVE  ManagerInv'
  <1> USE DEF ManagerInv, ManagerRecord, initialize
  <1>1. CASE manager.count = 0
    <2>1. manager' = [state |-> "Initialized", count |-> manager.count,
                      handles |-> manager.handles, next |-> manager.next,
                      notified |-> manager.notified + 1]
      BY <1>1 DEF ready
    <2>2. Registered = {}
      BY <1>1, RegisteredFinite, FS_EmptySet DEF TargetCountExact, Registered
    <2>3. manager' \in ManagerRecord BY <2>1
    <2>4. TargetCountExact' BY <2>1 DEF TargetCountExact
    <2>5. \A t \in Targets : target[t] \in {"new", "done"} BY <2>2 DEF Registered
    <2>6. NotifiedOnceAllReady' BY <2>1, <2>5 DEF NotifiedOnceAllReady
    <2>7. HandlesWait'
      <3>1. \A i \in DOMAIN manager.handles : manager.handles[i] \in Targets OBVIOUS
      <3> QED BY <2>1, <2>5, <3>1 DEF HandlesWait
    <2> QED BY <2>3, <2>4, <2>6, <2>7
  <1>2. CASE manager.count # 0
    <2>1. manager' = [state |-> "Initializing", count |-> manager.count,
                      handles |-> manager.handles, next |-> 1,
                      notified |-> manager.notified]
      BY <1>2
    <2>2. manager' \in ManagerRecord BY <2>1
    <2>3. TargetCountExact' BY <2>1 DEF TargetCountExact
    <2>4. NotifiedOnceAllReady' BY <2>1 DEF NotifiedOnceAllReady
    <2>5. HandlesWait'
      <3>1. \A i \in DOMAIN manager.handles : target[manager.handles[i]] = "added"
        BY DEF HandlesWait
      <3> QED BY <2>1, <3>1 DEF HandlesWait
    <2> QED BY <2>2, <2>3, <2>4, <2>5
  <1> QED BY <1>1, <1>2

\* onTargetReady, for any of its three callers: m is the manager they left.
LEMMA ReportKeeps ==
  ASSUME ManagerInv, NEW t \in Registered, NEW m \in ManagerRecord,
         m.count = manager.count, m.state = manager.state, m.notified = manager.notified,
         target' = [target EXCEPT ![t] = "done"], manager' = onTargetReady(m)
  PROVE  /\ manager' \in ManagerRecord
         /\ target' \in [Targets -> {"new", "added", "initializing", "done"}]
         /\ TargetCountExact' /\ NotifiedOnceAllReady'
         /\ manager'.handles = m.handles /\ manager'.next = m.next
         /\ manager'.state \in {m.state, "Initialized"}
  <1> USE DEF ManagerInv, ManagerRecord
  <1>1. /\ m.count \in Nat \ {0} /\ Cardinality(Registered') = m.count - 1
        /\ m.count - 1 = 0 => \A u \in Targets : target'[u] \in {"new", "done"}
    BY OneLess DEF TargetCountExact, Registered
  <1>2. m.state # "Initialized" /\ m.notified = 0
    BY DEF NotifiedOnceAllReady, Registered
  <1>3. manager' = [state |-> IF m.count = 1 THEN "Initialized" ELSE m.state,
                    count |-> m.count - 1, handles |-> m.handles, next |-> m.next,
                    notified |-> IF m.count = 1 THEN 1 ELSE 0]
    <2> DEFINE n == [m EXCEPT !.count = @ - 1]
    <2>1. n = [state |-> m.state, count |-> m.count - 1, handles |-> m.handles,
               next |-> m.next, notified |-> 0]
      BY <1>2
    <2>2. manager' = IF n.count = 0 THEN ready(n) ELSE n BY DEF onTargetReady
    <2>3. n.count = m.count - 1 BY <2>1
    <2> HIDE DEF n
    <2>4. CASE m.count = 1
      <3>1. manager' = ready(n) BY <2>2, <2>3, <2>4
      <3>2. n \in ManagerRecord BY <1>1, <2>1
      <3>3. manager' = [state |-> "Initialized", count |-> n.count, handles |-> n.handles,
                        next |-> n.next, notified |-> n.notified + 1]
        BY <3>1, <3>2 DEF ready
      <3>4. /\ n.handles = m.handles /\ n.next = m.next /\ n.notified + 1 = 1
        BY <2>1
      <3> QED BY <2>3, <2>4, <3>3, <3>4
    <2>5. CASE m.count # 1
      <3>1. manager' = n BY <1>1, <2>2, <2>3, <2>5
      <3> QED BY <2>1, <2>5, <3>1
    <2> QED BY <2>4, <2>5
  <1>4. manager' \in ManagerRecord BY <1>1, <1>3
  <1>5. target' \in [Targets -> {"new", "added", "initializing", "done"}] OBVIOUS
  <1>6. TargetCountExact' BY <1>1, <1>3 DEF TargetCountExact, Registered
  <1>7. NotifiedOnceAllReady' BY <1>1, <1>2, <1>3 DEF NotifiedOnceAllReady
  <1> QED BY <1>1, <1>3, <1>4, <1>5, <1>6, <1>7

\* A target that has been called reports: the handles are not concerned.
LEMMA CalledReportKeeps ==
  ASSUME ManagerInv, NEW t \in Targets, target[t] = "initializing",
         target' = [target EXCEPT ![t] = "done"], manager' = onTargetReady(manager)
  PROVE  ManagerInv'
  <1>1. t \in Registered BY DEF Registered
  <1>2. /\ manager' \in ManagerRecord
        /\ target' \in [Targets -> {"new", "added", "initializing", "done"}]
        /\ TargetCountExact' /\ NotifiedOnceAllReady'
        /\ manager'.handles = manager.handles /\ manager'.next = manager.next
        /\ manager'.state \in {manager.state, "Initialized"}
    BY <1>1, ReportKeeps DEF ManagerInv
  <1>3. \A i \in DOMAIN manager.handles : manager.handles[i] \in Targets
    BY DEF ManagerInv, ManagerRecord
  <1>4. HandlesWait' BY <1>2, <1>3 DEF HandlesWait, ManagerInv
  <1> QED BY <1>2, <1>4 DEF ManagerInv

\* The loop of initialize() calls a waiting target, or counts off a dead one.
LEMMA LoopKeeps ==
  ASSUME ManagerInv, initializeNext
  PROVE  ManagerInv'
  <1>1. CASE manager.next > Len(manager.handles)
    <2>1. manager' = [manager EXCEPT !.next = 0] /\ UNCHANGED target
      BY <1>1 DEF initializeNext
    <2> QED BY <2>1 DEF ManagerInv, ManagerRecord, TargetCountExact, NotifiedOnceAllReady,
                        HandlesWait
  <1>2. CASE ~(manager.next > Len(manager.handles))
    <2> DEFINE t == manager.handles[manager.next]
               m == [manager EXCEPT !.next = @ + 1]
    <2>1. /\ manager.next \in DOMAIN manager.handles /\ manager.next # 0
          /\ \A i \in DOMAIN manager.handles : manager.handles[i] \in Targets /\ i \in Nat
          /\ m \in ManagerRecord /\ manager.next \in Nat
          /\ m.count = manager.count /\ m.state = manager.state
          /\ m.notified = manager.notified /\ m.handles = manager.handles
          /\ m.next = manager.next + 1
      BY <1>2 DEF initializeNext, ManagerInv, ManagerRecord
    <2>2. target[t] = "added" /\ t \in Registered
      BY <2>1 DEF ManagerInv, HandlesWait, Registered
    <2>3. \A i \in DOMAIN manager.handles : m.next <= i =>
            manager.handles[i] # t /\ target[manager.handles[i]] = "added"
      BY <2>1 DEF ManagerInv, HandlesWait
    <2>4. manager.state # "Initialized"
      BY <2>1, <2>2 DEF ManagerInv, NotifiedOnceAllReady
    <2>5. CASE t \in dead
      <3>1. manager' = onTargetReady(m) /\ target' = [target EXCEPT ![t] = "done"]
        BY <1>2, <2>5 DEF initializeNext, Unavailable
      <3>2. /\ manager' \in ManagerRecord
            /\ target' \in [Targets -> {"new", "added", "initializing", "done"}]
            /\ TargetCountExact' /\ NotifiedOnceAllReady'
            /\ manager'.handles = m.handles /\ manager'.next = m.next
            /\ manager'.state \in {m.state, "Initialized"}
        BY <2>1, <2>2, <3>1, ReportKeeps
      <3>3. HandlesWait' BY <2>1, <2>3, <2>4, <3>1, <3>2 DEF HandlesWait, ManagerInv
      <3> QED BY <3>2, <3>3 DEF ManagerInv
    <2>6. CASE t \notin dead
      <3>1. manager' = m /\ target' = [target EXCEPT ![t] = "initializing"]
        BY <1>2, <2>6 DEF initializeNext
      <3>2. target' \in [Targets -> {"new", "added", "initializing", "done"}]
        BY <3>1 DEF ManagerInv
      <3>3. Registered' = Registered BY <2>2, <3>1 DEF Registered, ManagerInv
      <3>4. TargetCountExact' BY <2>1, <3>1, <3>3 DEF TargetCountExact, ManagerInv, Registered
      <3>5. NotifiedOnceAllReady' BY <2>1, <2>4, <3>1 DEF NotifiedOnceAllReady, ManagerInv
      <3>6. HandlesWait' BY <2>1, <2>3, <2>4, <3>1 DEF HandlesWait, ManagerInv
      <3> QED BY <2>1, <3>1, <3>2, <3>4, <3>5, <3>6 DEF ManagerInv
    <2> QED BY <2>5, <2>6
  <1> QED BY <1>1, <1>2

\* Whatever the manager does by itself keeps its invariant.
LEMMA ManagerStepKeeps ==
  ASSUME ManagerInv, ManagerStep
  PROVE  ManagerInv'
  <1>1. CASE initializeNext BY <1>1, LoopKeeps
  <1>2. CASE fnReturns
    BY <1>2 DEF fnReturns, ManagerInv, TargetCountExact, NotifiedOnceAllReady, HandlesWait
  <1>3. ASSUME NEW t \in Targets, targetReady(t) PROVE ManagerInv'
    BY <1>3, CalledReportKeeps DEF targetReady
  <1>4. ASSUME NEW t \in Targets, destroyTarget(t) PROVE ManagerInv'
    <2>1. CASE ReportsWhenDestroyed(t)
      BY <1>4, <2>1, CalledReportKeeps DEF destroyTarget, ReportsWhenDestroyed
    <2>2. CASE ~ReportsWhenDestroyed(t)
      BY <1>4, <2>2
      DEF destroyTarget, ManagerInv, TargetCountExact, NotifiedOnceAllReady, HandlesWait
    <2> QED BY <2>1, <2>2
  <1> QED BY <1>1, <1>2, <1>3, <1>4 DEF ManagerStep

\* A step that leaves the manager alone keeps its invariant.
LEMMA UntouchedKeeps ==
  ASSUME ManagerInv, UNCHANGED managerVars
  PROVE  ManagerInv'
  BY DEF ManagerInv, managerVars, TargetCountExact, NotifiedOnceAllReady, HandlesWait

-----------------------------------------------------------------------------
(* The server around the manager.                                          *)

\* Which steps concern the manager: three kinds of them, all others leave it
\* alone.
LEMMA WhoTouchesTheManager ==
  ASSUME [Next]_vars
  PROVE  \/ UNCHANGED managerVars
         \/ initializedCallback /\ initialize
         \/ ManagerStep
         \/ \E t \in Targets : add(t)
  <1>1. CASE UNCHANGED vars BY <1>1 DEF vars
  <1>2. CASE Step
    <2>1. CASE initializedCallback BY <2>1 DEF initializedCallback
    <2>2. CASE ~initializedCallback
      BY <1>2, <2>2
      DEF Step, clusterInitialize, addStatic, addCluster, helperOnClusterInit,
          helperRemoveCluster, maybeFinishInitialize, initializeSecondaryClusters,
          onStaticLoadComplete, setPrimaryClustersInitializedCb, setInitializedCb,
          startRtdsSubscriptions, onRuntimeReady, cdsStart, cdsInitializedCb, EachOf,
          addOrUpdateCluster, loadCluster, warmed, removeCluster, removeWarming, erase
    <2> QED BY <2>1, <2>2
  <1>3. CASE managerStep BY <1>3 DEF managerStep
  <1>4. CASE rtdsReady \/ cdsResponse \/ cdsFetchTimeout \/ shutdown
    BY <1>4 DEF rtdsReady, cdsResponse, cdsFetchTimeout, shutdown
  <1>5. ASSUME NEW n \in Names, finishInitialization(n) PROVE UNCHANGED managerVars
    BY <1>5 DEF finishInitialization
  <1>6. ASSUME NEW t \in Targets, registerTarget(t) \/ addListener(t) PROVE add(t)
    BY <1>6 DEF registerTarget, addListener
  <1> QED BY <1>1, <1>2, <1>3, <1>4, <1>5, <1>6 DEF Next

\* The manager's invariant holds in all states of the starting server.
THEOREM ManagerInvariant == Spec => []ManagerInv
  <1>1. Init => ManagerInv
    <2> SUFFICES ASSUME Init PROVE ManagerInv OBVIOUS
    <2>1. manager = [state |-> "Uninitialized", count |-> 0, handles |-> <<>>,
                     next |-> 0, notified |-> 0]
          /\ target = [t \in Targets |-> "new"]
      BY DEF Init, ManagerInit
    <2>2. Registered = {} BY <2>1 DEF Registered
    <2>3. TargetCountExact BY <2>1, <2>2, FS_EmptySet DEF TargetCountExact, Registered
    <2>4. manager \in ManagerRecord BY <2>1 DEF ManagerRecord
    <2> QED BY <2>1, <2>3, <2>4 DEF ManagerInv, NotifiedOnceAllReady, HandlesWait
  <1>2. ManagerInv /\ [Next]_vars => ManagerInv'
    BY WhoTouchesTheManager, UntouchedKeeps, InitializeKeeps, ManagerStepKeeps, AddKeeps
  <1> QED BY <1>1, <1>2, PTL DEF Spec

\* count_ is the number of registered targets that are not ready, for any
\* targets and whatever they do inside each other's callbacks.
THEOREM CountIsExact == Spec => []TargetCountExact
  BY ManagerInvariant, PTL DEF ManagerInv

\* The watcher of the init manager is told once, when all targets are ready.
THEOREM WatcherToldOnce == Spec => []NotifiedOnceAllReady
  BY ManagerInvariant, PTL DEF ManagerInv

-----------------------------------------------------------------------------
(* The workers.                                                            *)

\* A manager that has reported stays as it is.
LEMMA ReportsOnce ==
  ASSUME ManagerInv, manager.state = "Initialized", initialize \/ ManagerStep
  PROVE  manager'.state = "Initialized"
  <1>1. \A t \in Targets : target[t] \in {"new", "done"}
    BY DEF ManagerInv, NotifiedOnceAllReady
  <1>2. ~initialize BY DEF initialize
  <1>3. CASE initializeNext
    <2>1. manager.next > Len(manager.handles)
      <3>1. manager.next # 0 /\ manager.next \in Nat
        BY <1>3 DEF initializeNext, ManagerInv, ManagerRecord
      <3>2. /\ DOMAIN manager.handles = 1 .. Len(manager.handles)
            /\ Len(manager.handles) \in Nat
            /\ \A i \in DOMAIN manager.handles : manager.handles[i] \in Targets
        BY DEF ManagerInv, ManagerRecord
      <3>3. \A i \in DOMAIN manager.handles :
              ~(manager.next <= i) \/ target[manager.handles[i]] = "added"
        BY <3>1 DEF ManagerInv, HandlesWait
      <3>4. \A i \in DOMAIN manager.handles : ~(manager.next <= i)
        BY <1>1, <3>2, <3>3
      <3>5. manager.next \notin DOMAIN manager.handles BY <3>1, <3>4
      <3> QED BY <3>1, <3>2, <3>5
    <2>2. manager' = [manager EXCEPT !.next = 0] BY <1>3, <2>1 DEF initializeNext
    <2> QED BY <2>2 DEF ManagerInv, ManagerRecord
  <1>4. CASE fnReturns BY <1>4 DEF fnReturns
  <1>5. ASSUME NEW t \in Targets PROVE ~targetReady(t) /\ ~destroyTarget(t)
    BY <1>1 DEF targetReady, destroyTarget
  <1> QED BY <1>2, <1>3, <1>4, <1>5 DEF ManagerStep

\* The watcher starts the workers when the manager reports, and only then.
LEMMA StartKeeps ==
  ASSUME ManagerInv, ManagerInv', ServerInv, StartWorkersIfReported,
         initialize \/ ManagerStep
  PROVE  ServerInv'
  <1>1. manager.state = "Initialized" => manager'.state = "Initialized"
    BY ReportsOnce
  <1>2. CASE server' = server BY <1>1, <1>2 DEF ServerInv
  <1>3. CASE server' # server
    <2>1. /\ manager'.notified # manager.notified
          /\ server' = [server EXCEPT !.workers = @ + 1]
      BY <1>3 DEF StartWorkersIfReported
    <2>2. manager.state # "Initialized" /\ manager'.state = "Initialized"
      BY <1>1, <2>1 DEF ManagerInv, NotifiedOnceAllReady
    <2>3. server.workers = 0 BY <2>2 DEF ServerInv, ServerRecord
    <2> QED BY <2>1, <2>2, <2>3 DEF ServerInv, ServerRecord
  <1> QED BY <1>2, <1>3

\* All other steps leave the workers alone.
LEMMA OthersKeep ==
  ASSUME ServerInv, [Next]_vars, ~initializedCallback, ~managerStep
  PROVE  ServerInv' /\ server'.workers = server.workers
  <1> USE DEF ServerInv, ServerRecord
  <1>1. CASE UNCHANGED vars BY <1>1 DEF vars, managerVars
  <1>2. CASE UNCHANGED <<server, managerVars>> BY <1>2 DEF managerVars
  <1>3. ASSUME NEW t \in Targets, registerTarget(t) \/ addListener(t)
        PROVE  ServerInv' /\ server'.workers = server.workers
    BY <1>3 DEF registerTarget, addListener, add, Counted
  <1>4. CASE maybeFinishInitialize
    <2>1. server' \in {server, [server EXCEPT !.cds = "started"]} /\ UNCHANGED manager
      BY <1>4 DEF maybeFinishInitialize, managerVars
    <2> QED BY <2>1
  <1>5. CASE setPrimaryClustersInitializedCb
    BY <1>5 DEF setPrimaryClustersInitializedCb, managerVars
  <1>6. CASE setInitializedCb BY <1>6 DEF setInitializedCb, managerVars
  <1>7. CASE startRtdsSubscriptions
    <2>1. /\ server' \in {[server EXCEPT !.rtds = "ready"], [server EXCEPT !.rtds = "started"]}
          /\ UNCHANGED manager
      BY <1>7 DEF startRtdsSubscriptions, managerVars
    <2> QED BY <2>1
  <1>8. CASE rtdsReady BY <1>8 DEF rtdsReady, managerVars
  <1>9. CASE shutdown BY <1>9 DEF shutdown, managerVars
  <1>10. CASE cdsStart \/ cdsResponse
    <2>1. server' \in {server, [server EXCEPT !.updates = @ + 1]} /\ UNCHANGED manager
      BY <1>10 DEF cdsStart, cdsResponse, Answer, managerVars
    <2> QED BY <2>1
  <1>11. CASE cdsInitializedCb
    <2>1. server' \in {server, [server EXCEPT !.cds = "answered"]} /\ UNCHANGED manager
      BY <1>11 DEF cdsInitializedCb, managerVars
    <2> QED BY <2>1
  <1>12. CASE \/ clusterInitialize \/ addStatic \/ addCluster \/ helperOnClusterInit
             \/ helperRemoveCluster \/ initializeSecondaryClusters \/ onStaticLoadComplete
             \/ onRuntimeReady \/ addOrUpdateCluster \/ loadCluster \/ warmed
             \/ EachOf("addOrUpdateClusters", "addOrUpdateCluster")
             \/ EachOf("removeClusters", "removeCluster")
             \/ removeCluster \/ removeWarming \/ erase \/ cdsFetchTimeout
             \/ \E n \in Names : finishInitialization(n)
    BY <1>2, <1>12
    DEF clusterInitialize, addStatic, addCluster, helperOnClusterInit, helperRemoveCluster,
        initializeSecondaryClusters, onStaticLoadComplete, onRuntimeReady,
        addOrUpdateCluster, loadCluster, warmed, EachOf, removeCluster, removeWarming,
        erase, cdsFetchTimeout, finishInitialization
  <1> QED
    BY <1>1, <1>3, <1>4, <1>5, <1>6, <1>7, <1>8, <1>9, <1>10, <1>11, <1>12 DEF Next, Step

\* The workers have started only when the manager is done.
THEOREM ServerInvariant == Spec => []ServerInv
  <1>1. Init => ServerInv
    BY DEF Init, ServerInv, ServerRecord
  <1>2. ManagerInv /\ ManagerInv' /\ ServerInv /\ [Next]_vars => ServerInv'
    <2> SUFFICES ASSUME ManagerInv, ManagerInv', ServerInv, [Next]_vars PROVE ServerInv'
      OBVIOUS
    <2>1. CASE initializedCallback
      <3>1. CASE server.shutdown
        BY <2>1, <3>1 DEF initializedCallback, ServerInv, managerVars
      <3>2. CASE ~server.shutdown BY <2>1, <3>2, StartKeeps DEF initializedCallback
      <3> QED BY <3>1, <3>2
    <2>2. CASE managerStep BY <2>2, StartKeeps DEF managerStep
    <2> QED BY <2>1, <2>2, OthersKeep
  <1> QED BY <1>1, <1>2, ManagerInvariant, PTL DEF Spec

\* The workers start once, after every target that was registered with the
\* init manager is ready, in any order of completions and shutdown.
THEOREM WorkersWaitForTargets == Spec => []WorkersAfterTargets
  <1>1. ManagerInv /\ ServerInv => WorkersAfterTargets
    BY DEF ManagerInv, ServerInv, ServerRecord, NotifiedOnceAllReady, WorkersAfterTargets
  <1> QED BY <1>1, ManagerInvariant, ServerInvariant, PTL

-----------------------------------------------------------------------------
(* The clusters.                                                           *)

States == {"Loading", "WaitingForPrimaryInitializationToComplete",
           "WaitingToStartSecondaryInitialization", "WaitingToStartCdsInitialization",
           "CdsInitialized", "AllClustersInitialized"}

\* Functions that add clusters, that CDS runs, and that are on the stack while
\* others run.
LoadOps == {"addStatic", "cdsStart", "addOrUpdateClusters", "addOrUpdateCluster",
            "loadCluster", "helper::addCluster"}
CdsOps == {"cdsStart", "addOrUpdateClusters", "addOrUpdateCluster", "loadCluster",
           "removeClusters", "removeCluster", "eraseActive", "removeWarming",
           "eraseWarming", "cdsInitializedCb"}
StartOps == {"addStatic", "onStaticLoadComplete", "setPrimaryClustersInitializedCb",
             "setInitializedCb"}
WaitingOps == (CdsOps \ {"cdsStart", "addOrUpdateCluster", "removeCluster"})
                \cup StartOps \cup {"initializeSecondary"}
ClusterOps == {"helper::addCluster", "helperInitialize", "warmingInitialize",
               "helper::onClusterInit", "warmed", "helper::removeCluster"}
Ops == CdsOps \cup StartOps \cup ClusterOps
         \cup {"initializeSecondary", "maybeFinishInitialize", "startRtdsSubscriptions",
               "onRuntimeReady", "initializedCallback"}

ClusterType == [name : Names, version : Nat, phase : {"Primary", "Secondary"}]
Tables == [Names -> ClusterType \cup {NoCluster}]
FrameType == [op : Ops, names : SUBSET Names, cluster : ClusterType \cup {NoCluster}]

HelperType == [state : States, started : BOOLEAN, primary : Tables, secondary : Tables]
ClustersType ==
    [active : Tables, warming : Tables, version : [Names -> Nat],
     initializing : SUBSET FrameType, initialized : SUBSET ClusterType]

ClusterTypes ==
    helper \in HelperType /\ clusters \in ClustersType /\ stack \in Seq(FrameType)

\* In the following h is the helper, cl the clusters, sv the server, st the stack.

\* The cluster of a name that is being brought up.
Current(n, cl) == IF n \in Static THEN cl.active[n] ELSE cl.warming[n]

\* initialize() has been called on it.
Begun(c, cl) == c \in cl.initialized \/ \E f \in cl.initializing : f.cluster = c

\* The tables hold clusters under their names, and dynamic ones become active
\* when they are initialized.
Named(c, n, cl) ==
    c # NoCluster => c.name = n /\ c.phase = PhaseOf(n) /\ c.version <= cl.version[n]

TableInv(h, cl) ==
    /\ \A n \in Names :
         /\ Named(cl.active[n], n, cl) /\ Named(cl.warming[n], n, cl)
         /\ Named(h.primary[n], n, cl) /\ Named(h.secondary[n], n, cl)
         /\ PhaseOf(n) = "Primary" => h.secondary[n] = NoCluster
         /\ PhaseOf(n) = "Secondary" => h.primary[n] = NoCluster
         /\ n \in Static => cl.active[n] # NoCluster /\ cl.warming[n] = NoCluster
         /\ n \notin Static /\ cl.active[n] # NoCluster =>
              cl.active[n] \in cl.initialized
    /\ \A c \in cl.initialized : c.version <= cl.version[c.name]
    /\ \A f \in cl.initializing :
         /\ f.op \in {"helper::onClusterInit", "warmed"} /\ f.cluster # NoCluster
         /\ f.cluster \notin cl.initialized
         /\ f.cluster.version <= cl.version[f.cluster.name]
         /\ f.op = "warmed" =>
              f.cluster.name \notin Static /\ h.state = "AllClustersInitialized"
    /\ \A f, g \in cl.initializing : f.cluster = g.cluster => f = g

\* What a frame of the stack looks like.
Shape(f) ==
    /\ f.op \in ClusterOps <=> f.cluster # NoCluster
    /\ f.op \in {"warmingInitialize", "warmed"} => f.cluster.name \notin Static
    /\ f.op = "addStatic" => f.names \subseteq Static
    /\ f.op \in CdsOps => f.names \cap Static = {}
    /\ f.op = "eraseWarming" => \E n \in Names : f.names = {n}

\* What f may run above of: not above a loop that is going to visit the cluster
\* that f starts or takes off, nor above one that f could invalidate.
MayRunAbove(f, g) ==
    /\ f.op \in LoadOps => g.op # "eraseWarming"
    /\ f.op \in LoadOps \cup CdsOps \cup {"initializeSecondary"} =>
         (g.op = "initializeSecondary" => g.names = {})
    /\ f.op \in {"addStatic", "onStaticLoadComplete"} => g.op # "addStatic"
    /\ f.op = "onStaticLoadComplete" => g.op # "onStaticLoadComplete"
    /\ f.op = "setPrimaryClustersInitializedCb" => g.op # "setPrimaryClustersInitializedCb"
    /\ f.op \in {"helperInitialize", "helper::onClusterInit", "helper::removeCluster"}
         /\ g.op = "initializeSecondary" => f.cluster.name \notin g.names
    /\ f.op \in {"helper::addCluster", "helperInitialize"}
         /\ g.op = "addStatic" => f.cluster.name \notin g.names

\* What the states of the helper and of RTDS say of it.
FitsState(f, h, sv) ==
    /\ f.op \in CdsOps =>
         h.state \in {"WaitingToStartCdsInitialization", "CdsInitialized",
                      "AllClustersInitialized"}
    /\ f.op \in {"addStatic", "onStaticLoadComplete"} => h.state = "Loading"
    /\ f.op = "initializeSecondary" =>
         /\ h.state \notin {"Loading", "WaitingForPrimaryInitializationToComplete"}
         /\ sv.rtds = "ready"
    /\ f.op = "helper::addCluster" =>
         h.state \in {"Loading", "WaitingToStartCdsInitialization", "CdsInitialized"}
    /\ f.op \in {"warmingInitialize", "warmed", "initializedCallback"} =>
         h.state = "AllClustersInitialized"
    /\ f.op = "onRuntimeReady" => sv.rtds = "ready"
    /\ f.op = "setPrimaryClustersInitializedCb" => ~sv.primaryCb
    /\ f.op = "startRtdsSubscriptions" =>
         /\ sv.rtds = "idle" /\ sv.primaryCb
         /\ h.state = "WaitingToStartSecondaryInitialization"
    /\ f.op \in {"maybeFinishInitialize", "helper::removeCluster",
                 "helper::onClusterInit", "helperInitialize"}
         /\ h.state = "WaitingToStartSecondaryInitialization" => sv.rtds = "ready"

\* The loops go over clusters that have not been started, and the entries that
\* the iterator visits exist.
FitsLoop(f, h, cl) ==
    /\ f.op = "initializeSecondary" =>
         /\ f.names # {} => h.started
         /\ \A n \in f.names :
              h.secondary[n] # NoCluster /\ ~Begun(h.secondary[n], cl)
    /\ f.op = "addStatic" => \A n \in f.names : ~Begun(cl.active[n], cl)

\* Before a cluster is erased the helper has been told, or is just being told.
Told(e, st) ==
    e = NoCluster \/ (st # <<>> /\ st[1].op = "helper::removeCluster" /\ st[1].cluster = e)

FitsErase(f, h, st) ==
    f.op = "eraseWarming" =>
      \A n \in f.names : Told(h.primary[n], st) /\ Told(h.secondary[n], st)

Fits(f, h, cl, sv, st) == FitsState(f, h, sv) /\ FitsLoop(f, h, cl) /\ FitsErase(f, h, st)

\* The function that runs holds a cluster that exists.
Holds(f, h, cl) ==
    LET c == f.cluster
    IN /\ c # NoCluster => c \in {cl.active[c.name], cl.warming[c.name]}
       /\ f.op \in {"helper::addCluster", "helperInitialize", "warmingInitialize"} =>
            c = Current(c.name, cl) /\ ~Begun(c, cl)
       /\ f.op \in {"helper::onClusterInit", "warmed"} =>
            c = Current(c.name, cl) /\ c \in cl.initialized
       /\ f.op = "helperInitialize" /\ c.phase = "Secondary" => h.started

\* A cluster that is taken off has finished, or is being removed.
InProgress(op, n, st) == \E k \in 1 .. Len(st) : st[k].op = op /\ n \in st[k].names

Accounted(f, cl, st) ==
    f.op = "helper::removeCluster" =>
      f.cluster \in cl.initialized \/ InProgress("eraseWarming", f.cluster.name, st)

StackInv(h, cl, sv, st) ==
    /\ \A k \in 1 .. Len(st) : Shape(st[k]) /\ Fits(st[k], h, cl, sv, st)
    /\ \A k \in 2 .. Len(st) : st[k].op \in WaitingOps
    /\ \A j, k \in 1 .. Len(st) : j < k => MayRunAbove(st[j], st[k])
    /\ st # <<>> => Holds(st[1], h, cl) /\ Accounted(st[1], cl, st)

\* The states of the helper, of CDS and of RTDS.  No secondary cluster is
\* started before RTDS is ready, and all are started together.
StateInv(h, cl, sv) ==
    /\ h.state = "WaitingToStartCdsInitialization" <=> sv.cds = "started"
    /\ sv.cds = "answered" => h.state \in {"CdsInitialized", "AllClustersInitialized"}
    /\ h.state = "CdsInitialized" => sv.cds = "answered"
    /\ h.state = "AllClustersInitialized" =>
         \A n \in Names : h.primary[n] = NoCluster /\ h.secondary[n] = NoCluster
    /\ h.state = "WaitingToStartSecondaryInitialization" =>
         \A n \in Names : h.primary[n] = NoCluster
    /\ ~h.started => \A n \in Names :
         h.secondary[n] # NoCluster => ~Begun(h.secondary[n], cl)
    /\ h.state \in {"Loading", "WaitingForPrimaryInitializationToComplete"}
         \/ ~sv.primaryCb => sv.rtds = "idle"
    /\ sv.rtds # "ready" =>
         /\ h.state \in {"Loading", "WaitingForPrimaryInitializationToComplete",
                         "WaitingToStartSecondaryInitialization"}
         /\ ~h.started
         /\ \A c \in ClusterType : Begun(c, cl) => c.phase = "Primary"

\* What the helper waits for is being brought up and has not finished, unless
\* it is just being taken off or replaced.
Leaving(e, st) ==
    /\ st # <<>> /\ st[1].op \in {"helper::onClusterInit", "helper::removeCluster"}
    /\ st[1].cluster = e

Replaced(n, st) == st # <<>> /\ st[1].op = "helper::addCluster" /\ st[1].cluster.name = n

Expected(e, n, cl, st) ==
    e # NoCluster =>
      (e = Current(n, cl) /\ e \notin cl.initialized) \/ Leaving(e, st) \/ Replaced(n, st)

\* The other way round: it waits for every cluster that is being brought up, but
\* for those it has not been told of, and those that are being removed.
Tracked(n, h, cl, st) ==
    h.state # "AllClustersInitialized" /\ Current(n, cl) # NoCluster
        /\ Current(n, cl) \notin cl.initialized
      => \/ Current(n, cl) \in {h.primary[n], h.secondary[n]}
         \/ InProgress("addStatic", n, st) \/ InProgress("eraseWarming", n, st)
         \/ st # <<>> /\ st[1].op = "helper::addCluster" /\ st[1].cluster = Current(n, cl)

EntryInv(h, cl, st) ==
    \A n \in Names :
      /\ Expected(h.primary[n], n, cl, st) /\ Expected(h.secondary[n], n, cl, st)
      /\ Tracked(n, h, cl, st)

ClusterInv ==
    /\ ClusterTypes /\ TableInv(helper, clusters) /\ StateInv(helper, clusters, server)
    /\ StackInv(helper, clusters, server, stack) /\ EntryInv(helper, clusters, stack)

\* The init manager starts when all clusters are initialized.
ManagerLast ==
    /\ manager.state # "Uninitialized" => helper.state = "AllClustersInitialized"
    /\ manager.state = "Uninitialized" =>
         \A t \in Targets : target[t] \in {"new", "added"}
-----------------------------------------------------------------------------
(* The stack.                                                              *)

\* A frame has the fields it is made of.
LEMMA FrameMade ==
  ASSUME NEW op \in Ops, NEW names \in SUBSET Names, NEW c \in ClusterType \cup {NoCluster}
  PROVE  /\ Frame(op, names, c) \in FrameType
         /\ Frame(op, names, c).op = op /\ Frame(op, names, c).names = names
         /\ Frame(op, names, c).cluster = c
  BY DEF Frame, FrameType

\* The elements of a concatenation.
LEMMA Concatenated ==
  ASSUME NEW S, NEW a \in Seq(S), NEW b \in Seq(S)
  PROVE  /\ a \o b \in Seq(S)
         /\ Len(a \o b) = Len(a) + Len(b) /\ Len(a) \in Nat /\ Len(b) \in Nat
         /\ \A k \in 1 .. Len(a) : (a \o b)[k] = a[k]
         /\ \A k \in 1 .. (Len(a) + Len(b)) : k > Len(a) => (a \o b)[k] = b[k - Len(a)]
  OBVIOUS

\* The innermost function is replaced by those it calls, in a stack of frames.
LEMMA CalledFrames ==
  ASSUME NEW st \in Seq(FrameType), st # <<>>, NEW fs \in Seq(FrameType)
  PROVE  LET new == fs \o Tail(st)
         IN  /\ new \in Seq(FrameType)
             /\ Len(new) = Len(fs) + Len(st) - 1 /\ Len(fs) \in Nat /\ Len(st) \in Nat
             /\ \A k \in 1 .. Len(fs) : new[k] = fs[k]
             /\ \A k \in 1 .. Len(new) :
                  k > Len(fs) => /\ k - Len(fs) + 1 \in 2 .. Len(st)
                                 /\ new[k] = st[k - Len(fs) + 1]
  <1> DEFINE tl == Tail(st)
  <1>1. tl \in Seq(FrameType) /\ Len(tl) = Len(st) - 1 /\ Len(st) \in Nat
    OBVIOUS
  <1>2. \A k \in 1 .. Len(tl) : tl[k] = st[k + 1]
    OBVIOUS
  <1> HIDE DEF tl
  <1>3. /\ fs \o tl \in Seq(FrameType)
        /\ Len(fs \o tl) = Len(fs) + Len(tl) /\ Len(fs) \in Nat /\ Len(tl) \in Nat
        /\ \A k \in 1 .. Len(fs) : (fs \o tl)[k] = fs[k]
        /\ \A k \in 1 .. (Len(fs) + Len(tl)) : k > Len(fs) => (fs \o tl)[k] = tl[k - Len(fs)]
    <2>1. tl \in Seq(FrameType) BY <1>1
    <2> QED BY <2>1, Concatenated
  <1>4. ASSUME NEW k \in 1 .. Len(fs \o tl), k > Len(fs)
        PROVE  /\ k - Len(fs) + 1 \in 2 .. Len(st)
               /\ (fs \o tl)[k] = st[k - Len(fs) + 1]
    <2> DEFINE j == k - Len(fs)
    <2>1. /\ k \in 1 .. (Len(fs) + Len(tl)) /\ j \in 1 .. Len(tl) /\ j + 1 \in 2 .. Len(st)
      <3>1. Len(fs \o tl) = Len(fs) + Len(tl) /\ Len(fs) \in Nat /\ Len(tl) \in Nat BY <1>3
      <3> QED BY <1>1, <1>4, <3>1
    <2>2. (fs \o tl)[k] = tl[j] BY <1>3, <1>4, <2>1
    <2> HIDE DEF j
    <2>3. tl[j] = st[j + 1] BY <1>2, <2>1
    <2> QED BY <2>1, <2>2, <2>3 DEF j
  <1>5. Len(fs \o tl) = Len(fs) + Len(st) - 1 BY <1>1, <1>3
  <1> QED BY <1>1, <1>3, <1>4, <1>5 DEF tl

\* The function that runs, and the invariant of it.
LEMMA TopFacts ==
  ASSUME ClusterInv, stack # <<>>
  PROVE  /\ top = stack[1] /\ top \in FrameType /\ stack \in Seq(FrameType)
         /\ 1 \in 1 .. Len(stack)
         /\ Shape(top) /\ FitsState(top, helper, server) /\ FitsLoop(top, helper, clusters)
         /\ FitsErase(top, helper, stack) /\ Holds(top, helper, clusters)
         /\ Accounted(top, clusters, stack)
         /\ ClusterTypes /\ TableInv(helper, clusters) /\ StateInv(helper, clusters, server)
         /\ StackInv(helper, clusters, server, stack) /\ EntryInv(helper, clusters, stack)
  <1>1. stack \in Seq(FrameType) /\ top = stack[1] /\ top \in FrameType /\ 1 \in 1 .. Len(stack)
    BY DEF ClusterInv, ClusterTypes, top
  <1> QED BY <1>1 DEF ClusterInv, StackInv, Fits

\* A frame below the function that runs, before and after a step.
Stays(g, h, cl, sv, new) ==
    g.op \in WaitingOps /\ Shape(g) /\ MayRunAbove(top, g)
      /\ Fits(g, helper, clusters, server, stack) => Fits(g, h, cl, sv, new)

\* A new frame above it.
Fine(f) ==
    \A g \in FrameType :
      g.op \in WaitingOps /\ Shape(g) /\ MayRunAbove(top, g)
        /\ Fits(g, helper, clusters, server, stack) => MayRunAbove(f, g)

\* A step of the innermost function keeps the invariant of the stack when the
\* frames below still fit, and the new ones do.
LEMMA StackStep ==
  ASSUME ClusterInv, stack # <<>>, NEW h, NEW cl, NEW sv, NEW new,
         NEW fs \in Seq(FrameType), new = fs \o Tail(stack),
         \A k \in 1 .. Len(fs) : Shape(fs[k]) /\ Fits(fs[k], h, cl, sv, new) /\ Fine(fs[k]),
         \A k \in 2 .. Len(fs) : fs[k].op \in WaitingOps,
         \A j, k \in 1 .. Len(fs) : j < k => MayRunAbove(fs[j], fs[k]),
         \A g \in FrameType : Stays(g, h, cl, sv, new),
         Len(fs) > 0 => Holds(fs[1], h, cl) /\ Accounted(fs[1], cl, new)
  PROVE  StackInv(h, cl, sv, new) /\ new \in Seq(FrameType)
  <1>1. /\ top = stack[1] /\ stack \in Seq(FrameType) /\ 1 \in 1 .. Len(stack)
        /\ StackInv(helper, clusters, server, stack)
    BY TopFacts
  <1>2. /\ new \in Seq(FrameType)
        /\ Len(new) = Len(fs) + Len(stack) - 1 /\ Len(fs) \in Nat /\ Len(stack) \in Nat
        /\ \A k \in 1 .. Len(fs) : new[k] = fs[k]
        /\ \A k \in 1 .. Len(new) :
             k > Len(fs) => /\ k - Len(fs) + 1 \in 2 .. Len(stack)
                            /\ new[k] = stack[k - Len(fs) + 1]
    BY <1>1, CalledFrames
  <1>3. ASSUME NEW k \in 2 .. Len(stack)
        PROVE  /\ k \in 1 .. Len(stack) /\ 1 < k /\ stack[k] \in FrameType
               /\ stack[k].op \in WaitingOps /\ Shape(stack[k])
               /\ Fits(stack[k], helper, clusters, server, stack)
               /\ MayRunAbove(top, stack[k])
    <2>1. k \in 1 .. Len(stack) /\ 1 < k BY <1>2
    <2> QED BY <1>1, <2>1 DEF StackInv
  <1>4. ASSUME NEW k \in 1 .. Len(new), k > Len(fs)
        PROVE  \E i \in 2 .. Len(stack) : i = k - Len(fs) + 1 /\ new[k] = stack[i]
    BY <1>2, <1>4
  <1>5. ASSUME NEW k \in 1 .. Len(new) PROVE Shape(new[k]) /\ Fits(new[k], h, cl, sv, new)
    <2>1. CASE k > Len(fs)
      <3>1. PICK i \in 2 .. Len(stack) : new[k] = stack[i] BY <1>4, <2>1
      <3> QED BY <1>3, <3>1 DEF Stays
    <2>2. CASE ~(k > Len(fs))
      <3>1. k \in 1 .. Len(fs) BY <1>2, <2>2
      <3> QED BY <1>2, <3>1
    <2> QED BY <2>1, <2>2
  <1>6. ASSUME NEW k \in 2 .. Len(new) PROVE new[k].op \in WaitingOps
    <2>1. CASE k > Len(fs)
      <3>1. k \in 1 .. Len(new) BY <1>2
      <3>2. PICK i \in 2 .. Len(stack) : new[k] = stack[i] BY <1>4, <2>1, <3>1
      <3> QED BY <1>3, <3>2
    <2>2. CASE ~(k > Len(fs))
      <3>1. k \in 2 .. Len(fs) /\ k \in 1 .. Len(fs) BY <1>2, <2>2
      <3> QED BY <1>2, <3>1
    <2> QED BY <2>1, <2>2
  <1>7. ASSUME NEW j \in 1 .. Len(new), NEW k \in 1 .. Len(new), j < k
        PROVE  MayRunAbove(new[j], new[k])
    <2>1. CASE k > Len(fs) /\ j > Len(fs)
      <3>1. PICK i \in 2 .. Len(stack) : i = k - Len(fs) + 1 /\ new[k] = stack[i]
        BY <1>4, <2>1
      <3>2. PICK l \in 2 .. Len(stack) : l = j - Len(fs) + 1 /\ new[j] = stack[l]
        BY <1>4, <2>1
      <3>3. l < i /\ l \in 1 .. Len(stack) /\ i \in 1 .. Len(stack)
        <4>1. Len(fs) \in Nat /\ Len(stack) \in Nat BY <1>2
        <4> QED BY <1>7, <3>1, <3>2, <4>1
      <3> QED BY <1>1, <3>1, <3>2, <3>3 DEF StackInv
    <2>2. CASE k > Len(fs) /\ ~(j > Len(fs))
      <3>1. PICK i \in 2 .. Len(stack) : new[k] = stack[i] BY <1>4, <2>2
      <3>2. j \in 1 .. Len(fs) BY <1>2, <2>2
      <3> QED BY <1>2, <1>3, <3>1, <3>2 DEF Fine
    <2>3. CASE ~(k > Len(fs))
      <3>1. j \in 1 .. Len(fs) /\ k \in 1 .. Len(fs) BY <1>2, <1>7, <2>3
      <3> QED BY <1>2, <1>7, <3>1
    <2> QED BY <2>1, <2>2, <2>3
  <1>8. ASSUME new # <<>> PROVE Holds(new[1], h, cl) /\ Accounted(new[1], cl, new)
    <2>1. 1 \in 1 .. Len(new) BY <1>2, <1>8
    <2>2. CASE Len(fs) > 0
      <3>1. 1 \in 1 .. Len(fs) BY <1>2, <2>2
      <3> QED BY <1>2, <2>2, <3>1
    <2>3. CASE ~(Len(fs) > 0)
      <3>1. 1 > Len(fs) BY <1>2, <2>3
      <3>2. PICK i \in 2 .. Len(stack) : new[1] = stack[i] BY <1>4, <2>1, <3>1
      <3>3. new[1].op \in WaitingOps /\ Shape(new[1]) BY <1>3, <3>2
      <3>4. new[1].op \notin ClusterOps BY <3>3 DEF WaitingOps, ClusterOps, CdsOps, StartOps
      <3> QED BY <3>3, <3>4 DEF Shape, Holds, ClusterOps, Accounted
    <2> QED BY <2>2, <2>3
  <1> QED BY <1>2, <1>5, <1>6, <1>7, <1>8 DEF StackInv

\* A frame stays in progress, or comes, or was the one that ran.
LEMMA ProgressStep ==
  ASSUME ClusterInv, stack # <<>>, NEW new,
         NEW fs \in Seq(FrameType), new = fs \o Tail(stack), NEW op, NEW n
  PROVE  /\ InProgress(op, n, stack) =>
              InProgress(op, n, new) \/ (top.op = op /\ n \in top.names)
         /\ \A k \in 1 .. Len(fs) : fs[k].op = op /\ n \in fs[k].names => InProgress(op, n, new)
         /\ Len(fs) > 0 => new # <<>> /\ new[1] = fs[1]
  <1>1. top = stack[1] /\ stack \in Seq(FrameType) /\ 1 \in 1 .. Len(stack)
    BY TopFacts
  <1>2. /\ new \in Seq(FrameType)
        /\ Len(new) = Len(fs) + Len(stack) - 1 /\ Len(fs) \in Nat /\ Len(stack) \in Nat
        /\ \A k \in 1 .. Len(fs) : new[k] = fs[k]
        /\ \A k \in 1 .. Len(new) :
             k > Len(fs) => /\ k - Len(fs) + 1 \in 2 .. Len(stack)
                            /\ new[k] = stack[k - Len(fs) + 1]
    BY <1>1, CalledFrames
  <1>3. ASSUME NEW k \in 2 .. Len(stack)
        PROVE  \E i \in 1 .. Len(new) : new[i] = stack[k]
    <2> DEFINE i == k + Len(fs) - 1
    <2>1. i \in 1 .. Len(new) /\ i > Len(fs) /\ i - Len(fs) + 1 = k BY <1>2
    <2> HIDE DEF i
    <2>2. new[i] = stack[k] BY <1>2, <2>1
    <2> QED BY <2>1, <2>2
  <1>4. ASSUME InProgress(op, n, stack)
        PROVE  InProgress(op, n, new) \/ (top.op = op /\ n \in top.names)
    <2>1. PICK k \in 1 .. Len(stack) : stack[k].op = op /\ n \in stack[k].names
      BY <1>4 DEF InProgress
    <2>2. CASE k = 1 BY <1>1, <2>1, <2>2
    <2>3. CASE k # 1
      <3>1. k \in 2 .. Len(stack) BY <1>2, <2>3
      <3> QED BY <1>3, <2>1, <3>1 DEF InProgress
    <2> QED BY <2>2, <2>3
  <1>5. ASSUME NEW k \in 1 .. Len(fs) PROVE k \in 1 .. Len(new) /\ new[k] = fs[k]
    <2>1. Len(stack) >= 1 BY <1>1
    <2> QED BY <1>2, <2>1
  <1>6. ASSUME Len(fs) > 0 PROVE new # <<>> /\ new[1] = fs[1]
    <2>1. 1 \in 1 .. Len(fs) BY <1>2, <1>6
    <2>2. 1 \in 1 .. Len(new) /\ new[1] = fs[1] BY <1>5, <2>1
    <2> QED BY <2>2
  <1> QED BY <1>4, <1>5, <1>6 DEF InProgress

\* What was in progress still is, but for the function that ran.
Kept(new) ==
    \A n \in Names :
      /\ InProgress("addStatic", n, stack) =>
           InProgress("addStatic", n, new) \/ (top.op = "addStatic" /\ n \in top.names)
      /\ InProgress("eraseWarming", n, stack) =>
           InProgress("eraseWarming", n, new) \/ (top.op = "eraseWarming" /\ n \in top.names)

\* The innermost function returns.
LEMMA ReturnStep ==
  ASSUME ClusterInv, stack # <<>>, Returns,
         \A g \in FrameType : Stays(g, helper', clusters', server', stack')
  PROVE  /\ StackInv(helper', clusters', server', stack') /\ stack' \in Seq(FrameType)
         /\ Kept(stack')
  <1> DEFINE fs == <<>>
  <1>1. fs \in Seq(FrameType) /\ Len(fs) = 0 OBVIOUS
  <1>2. stack' = fs \o Tail(stack) BY DEF Returns, Calls
  <1>3. \A k \in 1 .. Len(fs) : FALSE BY <1>1
  <1>4. \A k \in 2 .. Len(fs) : FALSE BY <1>1
  <1>5. ~(Len(fs) > 0) BY <1>1
  <1> HIDE DEF fs
  <1>6. StackInv(helper', clusters', server', stack') /\ stack' \in Seq(FrameType)
    BY <1>1, <1>2, <1>3, <1>4, <1>5, StackStep
  <1>7. Kept(stack') BY <1>1, <1>2, ProgressStep DEF Kept
  <1> QED BY <1>6, <1>7

\* It calls a function.
LEMMA CallStep ==
  ASSUME ClusterInv, stack # <<>>, NEW f \in FrameType, Calls(<<f>>),
         Shape(f), Fits(f, helper', clusters', server', stack'), Fine(f),
         Holds(f, helper', clusters'),
         f.op = "helper::removeCluster" => f.cluster \in clusters'.initialized,
         \A g \in FrameType : Stays(g, helper', clusters', server', stack')
  PROVE  /\ StackInv(helper', clusters', server', stack') /\ stack' \in Seq(FrameType)
         /\ Kept(stack') /\ stack' # <<>> /\ stack'[1] = f
         /\ \A n \in f.names : InProgress(f.op, n, stack')
  <1> DEFINE fs == <<f>>
  <1>1. fs \in Seq(FrameType) /\ Len(fs) = 1 /\ fs[1] = f OBVIOUS
  <1>2. stack' = fs \o Tail(stack) BY DEF Calls
  <1> HIDE DEF fs
  <1>3. \A k \in 1 .. Len(fs) : k = 1 /\ fs[k] = f BY <1>1
  <1>4. \A k \in 2 .. Len(fs) : FALSE BY <1>1
  <1>5. Len(fs) > 0 /\ 1 \in 1 .. Len(fs) BY <1>1
  <1>6. \A j, k \in 1 .. Len(fs) : ~(j < k) BY <1>1
  <1>7. StackInv(helper', clusters', server', stack') /\ stack' \in Seq(FrameType)
    BY <1>1, <1>2, <1>3, <1>4, <1>5, <1>6, StackStep DEF Accounted
  <1>8. Kept(stack') BY <1>1, <1>2, ProgressStep DEF Kept
  <1>9. stack' # <<>> /\ stack'[1] = f BY <1>1, <1>2, <1>5, ProgressStep
  <1>10. ASSUME NEW n \in f.names PROVE InProgress(f.op, n, stack')
    <2>1. \A k \in 1 .. Len(fs) : fs[k].op = f.op /\ n \in fs[k].names
                                  => InProgress(f.op, n, stack')
      BY <1>1, <1>2, ProgressStep
    <2> QED BY <1>1, <1>5, <2>1
  <1> QED BY <1>7, <1>8, <1>9, <1>10

\* It calls two, one after the other.
LEMMA CallTwoStep ==
  ASSUME ClusterInv, stack # <<>>, NEW f \in FrameType, NEW e \in FrameType, Calls(<<f, e>>),
         Shape(f), Fits(f, helper', clusters', server', stack'), Fine(f),
         Shape(e), Fits(e, helper', clusters', server', stack'), Fine(e),
         e.op \in WaitingOps, MayRunAbove(f, e), Holds(f, helper', clusters'),
         f.op = "helper::removeCluster" =>
           \/ f.cluster \in clusters'.initialized
           \/ e.op = "eraseWarming" /\ f.cluster.name \in e.names,
         \A g \in FrameType : Stays(g, helper', clusters', server', stack')
  PROVE  /\ StackInv(helper', clusters', server', stack') /\ stack' \in Seq(FrameType)
         /\ Kept(stack') /\ stack' # <<>> /\ stack'[1] = f
         /\ \A n \in e.names : InProgress(e.op, n, stack')
  <1> DEFINE fs == <<f, e>>
  <1>1. fs \in Seq(FrameType) /\ Len(fs) = 2 /\ fs[1] = f /\ fs[2] = e OBVIOUS
  <1>2. stack' = fs \o Tail(stack) BY DEF Calls
  <1> HIDE DEF fs
  <1>3. \A k \in 1 .. Len(fs) : k \in {1, 2} /\ fs[k] \in {f, e} BY <1>1
  <1>4. \A k \in 2 .. Len(fs) : fs[k] = e BY <1>1
  <1>5. Len(fs) > 0 /\ 2 \in 1 .. Len(fs) BY <1>1
  <1>6. \A j, k \in 1 .. Len(fs) : j < k => j = 1 /\ k = 2 BY <1>1
  <1>7. \A k \in 1 .. Len(fs) : /\ Shape(fs[k]) /\ Fine(fs[k])
                                /\ Fits(fs[k], helper', clusters', server', stack')
    BY <1>3
  <1>8. \A j, k \in 1 .. Len(fs) : j < k => MayRunAbove(fs[j], fs[k]) BY <1>1, <1>6
  <1>10. Kept(stack') BY <1>1, <1>2, ProgressStep DEF Kept
  <1>11. stack' # <<>> /\ stack'[1] = f BY <1>1, <1>2, <1>5, ProgressStep
  <1>12. ASSUME NEW n \in e.names PROVE InProgress(e.op, n, stack')
    <2>1. \A k \in 1 .. Len(fs) :
            fs[k].op = e.op /\ n \in fs[k].names => InProgress(e.op, n, stack')
      BY <1>1, <1>2, ProgressStep
    <2> QED BY <1>1, <1>5, <2>1
  <1>13. Accounted(fs[1], clusters', stack') BY <1>1, <1>12 DEF Accounted
  <1>14. StackInv(helper', clusters', server', stack') /\ stack' \in Seq(FrameType)
    BY <1>1, <1>2, <1>4, <1>5, <1>7, <1>8, <1>13, StackStep
  <1> QED BY <1>10, <1>11, <1>12, <1>14

\* It calls three.
LEMMA CallThreeStep ==
  ASSUME ClusterInv, stack # <<>>,
         NEW f \in FrameType, NEW e \in FrameType, NEW d \in FrameType, Calls(<<f, e, d>>),
         Shape(f), Fits(f, helper', clusters', server', stack'), Fine(f),
         Shape(e), Fits(e, helper', clusters', server', stack'), Fine(e),
         Shape(d), Fits(d, helper', clusters', server', stack'), Fine(d),
         e.op \in WaitingOps, d.op \in WaitingOps,
         MayRunAbove(f, e), MayRunAbove(f, d), MayRunAbove(e, d), Holds(f, helper', clusters'),
         f.op = "helper::removeCluster" => f.cluster \in clusters'.initialized,
         \A g \in FrameType : Stays(g, helper', clusters', server', stack')
  PROVE  /\ StackInv(helper', clusters', server', stack') /\ stack' \in Seq(FrameType)
         /\ Kept(stack') /\ stack' # <<>> /\ stack'[1] = f
  <1> DEFINE fs == <<f, e, d>>
  <1>1. fs \in Seq(FrameType) /\ Len(fs) = 3 /\ fs[1] = f /\ fs[2] = e /\ fs[3] = d OBVIOUS
  <1>2. stack' = fs \o Tail(stack) BY DEF Calls
  <1> HIDE DEF fs
  <1>3. \A k \in 1 .. Len(fs) : k \in {1, 2, 3} /\ fs[k] \in {f, e, d} BY <1>1
  <1>4. \A k \in 2 .. Len(fs) : k \in {2, 3} /\ fs[k].op \in WaitingOps BY <1>1
  <1>5. Len(fs) > 0 BY <1>1
  <1>6. \A j, k \in 1 .. Len(fs) : j < k =>
          (j = 1 /\ k = 2) \/ (j = 1 /\ k = 3) \/ (j = 2 /\ k = 3)
    BY <1>1
  <1>7. \A k \in 1 .. Len(fs) : /\ Shape(fs[k]) /\ Fine(fs[k])
                                /\ Fits(fs[k], helper', clusters', server', stack')
    BY <1>3
  <1>8. \A j, k \in 1 .. Len(fs) : j < k => MayRunAbove(fs[j], fs[k]) BY <1>1, <1>6
  <1>9. StackInv(helper', clusters', server', stack') /\ stack' \in Seq(FrameType)
    BY <1>1, <1>2, <1>4, <1>5, <1>7, <1>8, StackStep DEF Accounted
  <1>10. Kept(stack') BY <1>1, <1>2, ProgressStep DEF Kept
  <1>11. stack' # <<>> /\ stack'[1] = f BY <1>1, <1>2, <1>5, ProgressStep
  <1> QED BY <1>9, <1>10, <1>11

\* What a waiting frame needs is not touched.
LEMMA StaysSame ==
  ASSUME UNCHANGED <<helper, clusters>>, server'.rtds = server.rtds,
         server'.primaryCb = server.primaryCb, top = stack[1],
         top.op # "helper::removeCluster", NEW g
  PROVE  Stays(g, helper', clusters', server', stack')
  BY DEF Stays, Fits, FitsState, FitsLoop, FitsErase, Told

\* The entries and the tables are not touched, nor is a cluster in hand.
LEMMA EntrySame ==
  ASSUME ClusterInv, stack # <<>>, UNCHANGED clusters, Kept(stack'),
         helper'.primary = helper.primary, helper'.secondary = helper.secondary,
         top.op \notin {"helper::addCluster", "helper::onClusterInit",
                        "helper::removeCluster", "addStatic", "eraseWarming"},
         helper.state = "AllClustersInitialized" => helper'.state = "AllClustersInitialized"
  PROVE  EntryInv(helper', clusters', stack')
  <1>1. top = stack[1] /\ EntryInv(helper, clusters, stack) BY TopFacts
  <1>2. ASSUME NEW n \in Names, NEW e, Expected(e, n, clusters, stack)
        PROVE  Expected(e, n, clusters', stack')
    BY <1>1, <1>2 DEF Expected, Leaving, Replaced
  <1>3. ASSUME NEW n \in Names PROVE Tracked(n, helper', clusters', stack')
    BY <1>1 DEF EntryInv, Tracked, Kept
  <1> QED BY <1>1, <1>2, <1>3 DEF EntryInv

\* A step that touches nothing but the stack.
LEMMA SameKept ==
  ASSUME ClusterInv, UNCHANGED <<helper, clusters>>, server'.rtds = server.rtds,
         server'.primaryCb = server.primaryCb, server'.cds = server.cds
  PROVE  TableInv(helper', clusters') /\ StateInv(helper', clusters', server')
  BY DEF ClusterInv, StateInv

-----------------------------------------------------------------------------
(* Steps that leave the helper and the clusters alone.                     *)

\* A function that is called without a cluster.
LEMMA OverFrame ==
  ASSUME NEW op \in Ops \ ClusterOps, NEW names \in SUBSET Names,
         op = "addStatic" => names \subseteq Static,
         op \in CdsOps => names \cap Static = {},
         op = "eraseWarming" => \E n \in Names : names = {n}
  PROVE  /\ Over(op, names) \in FrameType /\ Over(op, names).op = op
         /\ Over(op, names).names = names /\ Over(op, names).cluster = NoCluster
         /\ Shape(Over(op, names))
  <1>1. /\ Over(op, names) \in FrameType /\ Over(op, names).op = op
        /\ Over(op, names).names = names /\ Over(op, names).cluster = NoCluster
    BY FrameMade DEF Over
  <1> QED BY <1>1 DEF Shape, ClusterOps

LEMMA CallFrame ==
  ASSUME NEW op \in Ops \ ClusterOps, op # "eraseWarming"
  PROVE  /\ Call(op) \in FrameType /\ Call(op).op = op
         /\ Call(op).names = {} /\ Call(op).cluster = NoCluster /\ Shape(Call(op))
  <1>1. /\ Call(op) \in FrameType /\ Call(op).op = op
        /\ Call(op).names = {} /\ Call(op).cluster = NoCluster
    BY FrameMade DEF Call
  <1> QED BY <1>1 DEF Shape, ClusterOps

\* A function that is called with a cluster, which is an object.
LEMMA IsCluster == NoCluster \notin ClusterType
  BY DEF NoCluster, ClusterType

LEMMA OnFrame ==
  ASSUME NEW op \in ClusterOps, NEW c \in ClusterType,
         op \in {"warmingInitialize", "warmed"} => c.name \notin Static
  PROVE  /\ On(op, c) \in FrameType /\ On(op, c).op = op
         /\ On(op, c).names = {} /\ On(op, c).cluster = c /\ Shape(On(op, c))
  <1>1. op \in Ops BY DEF Ops
  <1>2. /\ On(op, c) \in FrameType /\ On(op, c).op = op
        /\ On(op, c).names = {} /\ On(op, c).cluster = c
    BY <1>1, FrameMade DEF On
  <1>3. op \notin CdsOps /\ op # "addStatic" BY DEF ClusterOps, CdsOps
  <1>4. op # "eraseWarming" BY DEF ClusterOps
  <1> QED BY <1>2, <1>3, <1>4, IsCluster DEF Shape

\* The functions that change what the helper waits for.
EntryOps == {"helper::addCluster", "helper::onClusterInit", "helper::removeCluster",
             "addStatic", "eraseWarming"}

\* The helper, the clusters and what matters of the server do not change.
Untouched ==
    /\ UNCHANGED <<helper, clusters>> /\ server'.rtds = server.rtds
    /\ server'.primaryCb = server.primaryCb /\ server'.cds = server.cds

LEMMA UntouchedStack ==
  ASSUME ClusterInv, Untouched, stack' \in Seq(FrameType),
         StackInv(helper', clusters', server', stack'), EntryInv(helper', clusters', stack')
  PROVE  ClusterInv'
  <1>1. TableInv(helper', clusters') /\ StateInv(helper', clusters', server')
    BY SameKept DEF Untouched
  <1>2. ClusterTypes' BY DEF Untouched, ClusterInv, ClusterTypes
  <1> QED BY <1>1, <1>2 DEF ClusterInv

\* The function returns.
LEMMA QuietReturn ==
  ASSUME ClusterInv, stack # <<>>, Returns, Untouched, top.op \notin EntryOps
  PROVE  ClusterInv'
  <1>1. top = stack[1] BY TopFacts
  <1>2. \A g \in FrameType : Stays(g, helper', clusters', server', stack')
    BY <1>1, StaysSame DEF Untouched, EntryOps
  <1>3. /\ StackInv(helper', clusters', server', stack') /\ stack' \in Seq(FrameType)
        /\ Kept(stack')
    BY <1>2, ReturnStep
  <1>4. EntryInv(helper', clusters', stack') BY <1>3, EntrySame DEF Untouched, EntryOps
  <1> QED BY <1>3, <1>4, UntouchedStack

\* It goes on with another.
LEMMA QuietCall ==
  ASSUME ClusterInv, stack # <<>>, Untouched, top.op \notin EntryOps,
         NEW f \in FrameType, Calls(<<f>>), Shape(f), Fine(f), f.op # "eraseWarming",
         FitsState(f, helper, server), FitsLoop(f, helper, clusters),
         Holds(f, helper, clusters), f.op # "helper::removeCluster"
  PROVE  ClusterInv'
  <1>1. top = stack[1] BY TopFacts
  <1>2. \A g \in FrameType : Stays(g, helper', clusters', server', stack')
    BY <1>1, StaysSame DEF Untouched, EntryOps
  <1>3. FitsState(f, helper', server') BY DEF FitsState, Untouched
  <1>4. Fits(f, helper', clusters', server', stack') /\ Holds(f, helper', clusters')
    BY <1>3 DEF Fits, FitsErase, Untouched
  <1>5. /\ StackInv(helper', clusters', server', stack') /\ stack' \in Seq(FrameType)
        /\ Kept(stack')
    BY <1>2, <1>4, CallStep
  <1>6. EntryInv(helper', clusters', stack') BY <1>5, EntrySame DEF Untouched, EntryOps
  <1> QED BY <1>5, <1>6, UntouchedStack

\* Or with two, the second of which may erase what the first takes off.
LEMMA QuietCalls ==
  ASSUME ClusterInv, stack # <<>>, Untouched, top.op \notin EntryOps,
         NEW f \in FrameType, NEW e \in FrameType, Calls(<<f, e>>),
         Shape(f), Fine(f), f.op # "eraseWarming",
         FitsState(f, helper, server), FitsLoop(f, helper, clusters),
         Holds(f, helper, clusters),
         Shape(e), Fine(e), e.op \in WaitingOps, MayRunAbove(f, e),
         FitsState(e, helper, server), FitsLoop(e, helper, clusters),
         e.op = "eraseWarming" =>
           /\ f.op = "helper::removeCluster"
           /\ \A n \in e.names : /\ helper.primary[n] \in {NoCluster, f.cluster}
                                 /\ helper.secondary[n] \in {NoCluster, f.cluster},
         f.op = "helper::removeCluster" =>
           \/ f.cluster \in clusters.initialized
           \/ e.op = "eraseWarming" /\ f.cluster.name \in e.names
  PROVE  ClusterInv'
  <1>1. top = stack[1] BY TopFacts
  <1>2. \A g \in FrameType : Stays(g, helper', clusters', server', stack')
    BY <1>1, StaysSame DEF Untouched, EntryOps
  <1>3. FitsState(f, helper', server') /\ FitsState(e, helper', server')
    BY DEF FitsState, Untouched
  <1>4. Fits(f, helper', clusters', server', stack') /\ Holds(f, helper', clusters')
    BY <1>3 DEF Fits, FitsErase, Untouched
  <1>5. stack' # <<>> /\ stack'[1] = f
    <2> DEFINE fs == <<f, e>>
    <2>1. fs \in Seq(FrameType) /\ Len(fs) > 0 /\ fs[1] = f OBVIOUS
    <2>2. stack' = fs \o Tail(stack) BY DEF Calls
    <2> HIDE DEF fs
    <2> QED BY <2>1, <2>2, ProgressStep
  <1>6. FitsErase(e, helper', stack') BY <1>5 DEF FitsErase, Told, Untouched
  <1>7. Fits(e, helper', clusters', server', stack') BY <1>3, <1>6 DEF Fits, Untouched
  <1>8. /\ StackInv(helper', clusters', server', stack') /\ stack' \in Seq(FrameType)
        /\ Kept(stack')
    BY <1>2, <1>4, <1>7, CallTwoStep DEF Untouched
  <1>9. EntryInv(helper', clusters', stack') BY <1>8, EntrySame DEF Untouched, EntryOps
  <1> QED BY <1>8, <1>9, UntouchedStack

LEMMA QuietThree ==
  ASSUME ClusterInv, stack # <<>>, Untouched, top.op \notin EntryOps,
         NEW f \in FrameType, NEW e \in FrameType, NEW d \in FrameType, Calls(<<f, e, d>>),
         Shape(f), Fine(f), Shape(e), Fine(e), Shape(d), Fine(d),
         "eraseWarming" \notin {f.op, e.op, d.op},
         e.op \in WaitingOps, d.op \in WaitingOps,
         MayRunAbove(f, e), MayRunAbove(f, d), MayRunAbove(e, d),
         FitsState(f, helper, server), FitsLoop(f, helper, clusters),
         FitsState(e, helper, server), FitsLoop(e, helper, clusters),
         FitsState(d, helper, server), FitsLoop(d, helper, clusters),
         Holds(f, helper, clusters),
         f.op = "helper::removeCluster" => f.cluster \in clusters.initialized
  PROVE  ClusterInv'
  <1>1. top = stack[1] BY TopFacts
  <1>2. \A g \in FrameType : Stays(g, helper', clusters', server', stack')
    BY <1>1, StaysSame DEF Untouched, EntryOps
  <1>3. /\ FitsState(f, helper', server') /\ FitsState(e, helper', server')
        /\ FitsState(d, helper', server')
    BY DEF FitsState, Untouched
  <1>4. /\ Fits(f, helper', clusters', server', stack')
        /\ Fits(e, helper', clusters', server', stack')
        /\ Fits(d, helper', clusters', server', stack')
    BY <1>3 DEF Fits, FitsErase, Untouched
  <1>5. /\ Holds(f, helper', clusters')
        /\ f.op = "helper::removeCluster" => f.cluster \in clusters'.initialized
    BY DEF Untouched
  <1>6. /\ StackInv(helper', clusters', server', stack') /\ stack' \in Seq(FrameType)
        /\ Kept(stack')
    BY <1>2, <1>4, <1>5, CallThreeStep
  <1>7. EntryInv(helper', clusters', stack') BY <1>6, EntrySame DEF Untouched, EntryOps
  <1> QED BY <1>6, <1>7, UntouchedStack

\* The function that runs, by its name.
LEMMA RunsTop ==
  ASSUME ClusterInv, NEW op, Runs(op)
  PROVE  /\ stack # <<>> /\ top.op = op /\ top = stack[1] /\ top \in FrameType
         /\ Shape(top) /\ FitsState(top, helper, server) /\ FitsLoop(top, helper, clusters)
         /\ FitsErase(top, helper, stack) /\ Holds(top, helper, clusters)
         /\ Accounted(top, clusters, stack)
  BY TopFacts DEF Runs

LEMMA RuntimeReadyKeeps ==
  ASSUME ClusterInv, onRuntimeReady
  PROVE  ClusterInv'
  <1> DEFINE f == Call("maybeFinishInitialize")
  <1>1. Runs("onRuntimeReady") /\ Calls(<<f>>) /\ Untouched
    BY DEF onRuntimeReady, Untouched
  <1>2. /\ f \in FrameType /\ f.op = "maybeFinishInitialize" /\ f.cluster = NoCluster
        /\ Shape(f)
    BY CallFrame DEF Ops, ClusterOps
  <1> HIDE DEF f
  <1>3. stack # <<>> /\ top.op = "onRuntimeReady" /\ FitsState(top, helper, server)
    BY <1>1, RunsTop
  <1>4. FitsState(f, helper, server)
    BY <1>2, <1>3 DEF FitsState, CdsOps
  <1>5. FitsLoop(f, helper, clusters) /\ Holds(f, helper, clusters)
    BY <1>2 DEF FitsLoop, Holds
  <1>6. Fine(f) BY <1>2 DEF Fine, MayRunAbove, LoadOps, CdsOps
  <1> QED BY <1>1, <1>2, <1>3, <1>4, <1>5, <1>6, QuietCall DEF EntryOps

LEMMA SetInitializedKeeps ==
  ASSUME ClusterInv, server \in ServerRecord, setInitializedCb
  PROVE  ClusterInv'
  <1> DEFINE f == Call("initializedCallback")
  <1>1. /\ Runs("setInitializedCb")
        /\ Calls(IF helper.state = "AllClustersInitialized" THEN <<f>> ELSE <<>>)
        /\ Untouched
    BY DEF setInitializedCb, Untouched, ServerRecord
  <1>2. /\ f \in FrameType /\ f.op = "initializedCallback" /\ f.cluster = NoCluster
        /\ Shape(f)
    BY CallFrame DEF Ops, ClusterOps
  <1> HIDE DEF f
  <1>3. stack # <<>> /\ top.op = "setInitializedCb" BY <1>1, RunsTop
  <1>4. CASE helper.state = "AllClustersInitialized"
    <2>1. FitsState(f, helper, server) BY <1>2, <1>4 DEF FitsState, CdsOps
    <2>2. FitsLoop(f, helper, clusters) /\ Holds(f, helper, clusters)
      BY <1>2 DEF FitsLoop, Holds
    <2>3. Fine(f) BY <1>2 DEF Fine, MayRunAbove, LoadOps, CdsOps
    <2> QED BY <1>1, <1>2, <1>3, <1>4, <2>1, <2>2, <2>3, QuietCall DEF EntryOps
  <1>5. CASE helper.state # "AllClustersInitialized"
    <2>1. Returns BY <1>1, <1>5 DEF Returns
    <2> QED BY <1>1, <1>3, <2>1, QuietReturn DEF EntryOps
  <1> QED BY <1>4, <1>5

\* RunHelper's watcher changes nothing but the workers.
LEMMA WorkersOnly ==
  ASSUME server \in ServerRecord, StartWorkersIfReported
  PROVE  /\ server'.rtds = server.rtds /\ server'.primaryCb = server.primaryCb
         /\ server'.cds = server.cds
  BY DEF StartWorkersIfReported, ServerRecord

LEMMA CallbackKeeps ==
  ASSUME ClusterInv, server \in ServerRecord, initializedCallback
  PROVE  ClusterInv'
  <1>1. Untouched BY WorkersOnly DEF initializedCallback, Untouched
  <1>2. Returns /\ Runs("initializedCallback") BY DEF initializedCallback
  <1>3. stack # <<>> /\ top.op = "initializedCallback" BY <1>2, RunsTop
  <1> QED BY <1>1, <1>2, <1>3, QuietReturn DEF EntryOps

\* Nothing the clusters are concerned with changes.
LEMMA NothingKeeps ==
  ASSUME ClusterInv, Untouched, UNCHANGED stack
  PROVE  ClusterInv'
  <1>1. /\ ClusterTypes /\ StackInv(helper, clusters, server, stack)
        /\ EntryInv(helper, clusters, stack)
    BY DEF ClusterInv
  <1>2. stack' \in Seq(FrameType) BY <1>1 DEF ClusterTypes
  <1>3. EntryInv(helper', clusters', stack') BY <1>1 DEF Untouched
  <1>4. StackInv(helper', clusters', server', stack')
    <2>1. \A f : Fits(f, helper, clusters, server, stack)
                   => Fits(f, helper', clusters', server', stack')
      BY DEF Fits, FitsState, Untouched
    <2> QED BY <1>1, <2>1 DEF StackInv, Untouched
  <1> QED BY <1>2, <1>3, <1>4, UntouchedStack

\* A loop of CDS over the clusters that it adds or removes.
LEMMA EachOfKeeps ==
  ASSUME ClusterInv,
         NEW loop, NEW body,
         \/ loop = "addOrUpdateClusters" /\ body = "addOrUpdateCluster"
         \/ loop = "removeClusters" /\ body = "removeCluster",
         EachOf(loop, body)
  PROVE  ClusterInv'
  <1>1. Runs(loop) /\ Untouched BY DEF EachOf, Untouched
  <1>2. /\ stack # <<>> /\ top.op = loop /\ top \in FrameType /\ Shape(top)
        /\ FitsState(top, helper, server)
    BY <1>1, RunsTop
  <1>3. loop \in CdsOps /\ body \in CdsOps /\ loop \in WaitingOps /\ loop \notin EntryOps
    BY DEF CdsOps, WaitingOps, EntryOps
  <1>4. top.names \subseteq Names /\ top.names \cap Static = {}
    BY <1>2, <1>3 DEF FrameType, Shape
  <1>5. CASE top.names = {}
    <2>1. Returns BY <1>5 DEF EachOf
    <2> QED BY <1>1, <1>2, <1>3, <2>1, QuietReturn
  <1>6. CASE top.names # {}
    <2>1. PICK n \in top.names : Calls(<<Over(body, {n}), Over(loop, top.names \ {n})>>)
      BY <1>6 DEF EachOf
    <2> DEFINE f == Over(body, {n})  e == Over(loop, top.names \ {n})
    <2>2. f \in FrameType /\ f.op = body /\ f.cluster = NoCluster /\ Shape(f)
      BY <1>4, OverFrame DEF Ops, ClusterOps, CdsOps
    <2>3. e \in FrameType /\ e.op = loop /\ e.cluster = NoCluster /\ Shape(e)
      BY <1>4, OverFrame DEF Ops, ClusterOps, CdsOps
    <2>4. Calls(<<f, e>>) BY <2>1
    <2> HIDE DEF f, e
    <2>5. FitsState(f, helper, server) /\ FitsState(e, helper, server)
      BY <1>2, <1>3, <2>2, <2>3 DEF FitsState, CdsOps
    <2>6. /\ FitsLoop(f, helper, clusters) /\ Holds(f, helper, clusters)
          /\ FitsLoop(e, helper, clusters) /\ MayRunAbove(f, e)
      BY <2>2, <2>3 DEF FitsLoop, Holds, MayRunAbove
    <2>7. Fine(f) /\ Fine(e)
      BY <1>2, <2>2, <2>3 DEF Fine, MayRunAbove, LoadOps, CdsOps
    <2>8. f.op # "eraseWarming" /\ e.op # "eraseWarming" BY <2>2, <2>3
    <2> QED BY <1>1, <1>2, <1>3, <2>2, <2>3, <2>4, <2>5, <2>6, <2>7, <2>8, QuietCalls
  <1> QED BY <1>5, <1>6

\* What the tables hold under a name.
LEMMA TableFacts ==
  ASSUME ClusterInv, NEW n \in Names
  PROVE  /\ clusters.active[n] # NoCluster =>
              clusters.active[n] \in ClusterType /\ clusters.active[n].name = n
                /\ clusters.active[n].phase = PhaseOf(n)
         /\ clusters.warming[n] # NoCluster =>
              clusters.warming[n] \in ClusterType /\ clusters.warming[n].name = n
                /\ clusters.warming[n].phase = PhaseOf(n)
         /\ helper.primary[n] # NoCluster =>
              helper.primary[n] \in ClusterType /\ helper.primary[n].name = n
                /\ PhaseOf(n) = "Primary" /\ helper.primary[n].phase = PhaseOf(n)
         /\ helper.secondary[n] # NoCluster =>
              helper.secondary[n] \in ClusterType /\ helper.secondary[n].name = n
                /\ PhaseOf(n) = "Secondary" /\ helper.secondary[n].phase = PhaseOf(n)
         /\ n \in Static => clusters.active[n] # NoCluster /\ clusters.warming[n] = NoCluster
         /\ n \notin Static /\ clusters.active[n] # NoCluster =>
              clusters.active[n] \in clusters.initialized
  <1>1. ClusterTypes /\ TableInv(helper, clusters) BY DEF ClusterInv
  <1>2. /\ Named(clusters.active[n], n, clusters) /\ Named(clusters.warming[n], n, clusters)
        /\ Named(helper.primary[n], n, clusters) /\ Named(helper.secondary[n], n, clusters)
        /\ PhaseOf(n) = "Primary" => helper.secondary[n] = NoCluster
        /\ PhaseOf(n) = "Secondary" => helper.primary[n] = NoCluster
        /\ n \in Static => clusters.active[n] # NoCluster /\ clusters.warming[n] = NoCluster
        /\ n \notin Static /\ clusters.active[n] # NoCluster =>
             clusters.active[n] \in clusters.initialized
    BY <1>1 DEF TableInv
  <1>3. /\ clusters.active[n] \in ClusterType \cup {NoCluster}
        /\ clusters.warming[n] \in ClusterType \cup {NoCluster}
        /\ helper.primary[n] \in ClusterType \cup {NoCluster}
        /\ helper.secondary[n] \in ClusterType \cup {NoCluster}
    BY <1>1 DEF ClusterTypes, HelperType, ClustersType, Tables
  <1>4. PhaseOf(n) \in {"Primary", "Secondary"} BY DEF PhaseOf
  <1> QED BY <1>2, <1>3, <1>4 DEF Named

\* What the helper waits for, when no function is about to change it.
LEMMA EntryFacts ==
  ASSUME ClusterInv, NEW n \in Names, stack = <<>> \/ top.op \notin EntryOps
  PROVE  /\ helper.primary[n] # NoCluster =>
              /\ helper.primary[n] = Current(n, clusters)
              /\ helper.primary[n] \notin clusters.initialized
         /\ helper.secondary[n] # NoCluster =>
              /\ helper.secondary[n] = Current(n, clusters)
              /\ helper.secondary[n] \notin clusters.initialized
  <1>1. EntryInv(helper, clusters, stack) BY DEF ClusterInv
  <1>2. stack # <<>> => top = stack[1] BY TopFacts
  <1> QED BY <1>1, <1>2 DEF EntryInv, Expected, Leaving, Replaced, EntryOps

\* The functions that an answer of CDS runs.
LEMMA UpdateFrames ==
  ASSUME NEW u \in Updates
  PROVE  \E f, e, d \in FrameType :
           /\ u = <<f, e, d>> /\ Shape(f) /\ Shape(e) /\ Shape(d)
           /\ f.op = "addOrUpdateClusters" /\ f.cluster = NoCluster
           /\ e.op = "removeClusters" /\ d.op = "cdsInitializedCb"
  <1> DEFINE A == SUBSET {n \in Dynamic : clusters.version[n] < MaxVersions}
             R == SUBSET ({c.name : c \in Alive} \cap Dynamic)
  <1>1. PICK v \in A \X R : u = Update(v[1], v[2])
    <2> HIDE DEF A, R
    <2>1. u \in {Update(x[1], x[2]) : x \in {y \in A \X R : y[1] \cap y[2] = {}}}
      BY DEF Updates, A, R
    <2> QED BY <2>1
  <1> DEFINE a == v[1]  r == v[2]
             f == Over("addOrUpdateClusters", a)  e == Over("removeClusters", r)
             d == Call("cdsInitializedCb")
  <1>2. a \in SUBSET Dynamic /\ r \in SUBSET Dynamic
    <2>1. A \subseteq SUBSET Dynamic /\ R \subseteq SUBSET Dynamic OBVIOUS
    <2> HIDE DEF A, R
    <2>2. a \in A /\ r \in R OBVIOUS
    <2> QED BY <2>1, <2>2
  <1> HIDE DEF a, r
  <1>3. /\ a \in SUBSET Names /\ a \cap Static = {}
        /\ r \in SUBSET Names /\ r \cap Static = {}
    BY <1>2, InitAssumption DEF Names
  <1>4. f \in FrameType /\ f.op = "addOrUpdateClusters" /\ f.cluster = NoCluster /\ Shape(f)
    BY <1>3, OverFrame DEF Ops, ClusterOps, CdsOps
  <1>5. e \in FrameType /\ e.op = "removeClusters" /\ Shape(e)
    BY <1>3, OverFrame DEF Ops, ClusterOps, CdsOps
  <1>6. d \in FrameType /\ d.op = "cdsInitializedCb" /\ Shape(d)
    BY CallFrame DEF Ops, ClusterOps, CdsOps
  <1>7. u = <<f, e, d>> BY <1>1 DEF Update, a, r
  <1> HIDE DEF f, e, d
  <1> QED BY <1>4, <1>5, <1>6, <1>7

LEMMA CdsStartKeeps ==
  ASSUME ClusterInv, server \in ServerRecord, cdsStart
  PROVE  ClusterInv'
  <1>1. Runs("cdsStart") /\ UNCHANGED <<helper, clusters>> BY DEF cdsStart
  <1>2. stack # <<>> /\ top.op = "cdsStart" /\ FitsState(top, helper, server)
    BY <1>1, RunsTop
  <1>3. CASE Returns /\ UNCHANGED server
    <2>1. Untouched BY <1>1, <1>3 DEF Untouched
    <2> QED BY <1>2, <1>3, <2>1, QuietReturn DEF EntryOps
  <1>4. CASE Answer /\ \E u \in Updates : Calls(u)
    <2>1. Untouched BY <1>1, <1>4 DEF Untouched, Answer, ServerRecord
    <2>2. PICK u \in Updates : Calls(u) BY <1>4
    <2>3. PICK f \in FrameType, e \in FrameType, d \in FrameType :
             /\ u = <<f, e, d>> /\ Shape(f) /\ Shape(e) /\ Shape(d)
             /\ f.op = "addOrUpdateClusters" /\ f.cluster = NoCluster
             /\ e.op = "removeClusters" /\ d.op = "cdsInitializedCb"
      BY UpdateFrames
    <2>4. Calls(<<f, e, d>>) BY <2>2, <2>3
    <2>5. /\ FitsState(f, helper, server) /\ FitsState(e, helper, server)
          /\ FitsState(d, helper, server)
      BY <1>2, <2>3 DEF FitsState, CdsOps
    <2>6. /\ FitsLoop(f, helper, clusters) /\ FitsLoop(e, helper, clusters)
          /\ FitsLoop(d, helper, clusters) /\ Holds(f, helper, clusters)
      BY <2>3 DEF FitsLoop, Holds
    <2>7. MayRunAbove(f, e) /\ MayRunAbove(f, d) /\ MayRunAbove(e, d)
      BY <2>3 DEF MayRunAbove
    <2>8. Fine(f) /\ Fine(e) /\ Fine(d)
      BY <1>2, <2>3 DEF Fine, MayRunAbove, LoadOps, CdsOps
    <2>9. e.op \in WaitingOps /\ d.op \in WaitingOps BY <2>3 DEF WaitingOps, CdsOps
    <2>10. "eraseWarming" \notin {f.op, e.op, d.op} /\ top.op \notin EntryOps
      BY <1>2, <2>3 DEF EntryOps
    <2> QED BY <1>2, <2>1, <2>3, <2>4, <2>5, <2>6, <2>7, <2>8, <2>9, <2>10, QuietThree
  <1> QED BY <1>3, <1>4 DEF cdsStart

\* The helper is told of the cluster that a new configuration replaces.
LEMMA AddOrUpdateKeeps ==
  ASSUME ClusterInv, addOrUpdateCluster
  PROVE  ClusterInv'
  <1>1. Runs("addOrUpdateCluster") /\ Untouched BY DEF addOrUpdateCluster, Untouched
  <1>2. /\ stack # <<>> /\ top.op = "addOrUpdateCluster" /\ top \in FrameType /\ Shape(top)
        /\ FitsState(top, helper, server)
    BY <1>1, RunsTop
  <1>3. PICK n \in top.names :
          Calls(IF clusters.active[n] = NoCluster THEN <<Over("loadCluster", {n})>>
                ELSE <<On("helper::removeCluster", clusters.active[n]),
                       Over("loadCluster", {n})>>)
    BY DEF addOrUpdateCluster
  <1>4. n \in Names /\ n \notin Static /\ top.op \notin EntryOps
    BY <1>2 DEF FrameType, Shape, CdsOps, EntryOps
  <1> DEFINE e == Over("loadCluster", {n})
             f == On("helper::removeCluster", clusters.active[n])
  <1>5. e \in FrameType /\ e.op = "loadCluster" /\ e.cluster = NoCluster /\ Shape(e)
    BY <1>4, OverFrame DEF Ops, ClusterOps, CdsOps
  <1>6. /\ FitsState(e, helper, server) /\ FitsLoop(e, helper, clusters)
        /\ Holds(e, helper, clusters)
    <2> HIDE DEF e
    <2> QED BY <1>2, <1>5 DEF FitsState, FitsLoop, Holds, CdsOps
  <1>7. Fine(e)
    <2> HIDE DEF e
    <2> QED BY <1>2, <1>5 DEF Fine, MayRunAbove, LoadOps, CdsOps
  <1>8. CASE clusters.active[n] = NoCluster
    <2>1. Calls(<<e>>) BY <1>3, <1>8
    <2> HIDE DEF e
    <2> QED BY <1>1, <1>2, <1>4, <1>5, <1>6, <1>7, <2>1, QuietCall
  <1>9. CASE clusters.active[n] # NoCluster
    <2>1. /\ clusters.active[n] \in ClusterType /\ clusters.active[n].name = n
          /\ clusters.active[n] \in clusters.initialized
      BY <1>4, <1>9, TableFacts
    <2>2. /\ f \in FrameType /\ f.op = "helper::removeCluster"
          /\ f.cluster = clusters.active[n] /\ Shape(f)
      BY <2>1, OnFrame DEF ClusterOps
    <2>3. Calls(<<f, e>>) BY <1>3, <1>9
    <2> HIDE DEF f, e
    <2>4. FitsState(f, helper, server) BY <1>2, <2>2 DEF FitsState, CdsOps
    <2>5. FitsLoop(f, helper, clusters) /\ Holds(f, helper, clusters)
      BY <2>1, <2>2 DEF FitsLoop, Holds
    <2>6. Fine(f) BY <1>2, <2>2 DEF Fine, MayRunAbove, LoadOps, CdsOps
    <2>7. MayRunAbove(f, e) BY <1>5, <2>2 DEF MayRunAbove, LoadOps, CdsOps
    <2>8. e.op \in WaitingOps BY <1>5 DEF WaitingOps, CdsOps
    <2>9. f.cluster \in clusters.initialized BY <2>1, <2>2
    <2> QED BY <1>1, <1>2, <1>4, <1>5, <1>6, <1>7, <2>2, <2>3, <2>4, <2>5, <2>6, <2>7, <2>8,
               <2>9, QuietCalls
  <1> QED BY <1>8, <1>9

\* And of the one that is to be removed.
LEMMA RemoveKeeps ==
  ASSUME ClusterInv, removeCluster
  PROVE  ClusterInv'
  <1>1. Runs("removeCluster") /\ Untouched BY DEF removeCluster, Untouched
  <1>2. /\ stack # <<>> /\ top.op = "removeCluster" /\ top \in FrameType /\ Shape(top)
        /\ FitsState(top, helper, server)
    BY <1>1, RunsTop
  <1>3. PICK n \in top.names :
          Calls(IF clusters.active[n] = NoCluster THEN <<Over("removeWarming", {n})>>
                ELSE <<On("helper::removeCluster", clusters.active[n]),
                       Over("eraseActive", {n}), Over("removeWarming", {n})>>)
    BY DEF removeCluster
  <1>4. n \in Names /\ n \notin Static /\ top.op \notin EntryOps
    BY <1>2 DEF FrameType, Shape, CdsOps, EntryOps
  <1> DEFINE d == Over("removeWarming", {n})
             e == Over("eraseActive", {n})
             f == On("helper::removeCluster", clusters.active[n])
  <1>5. d \in FrameType /\ d.op = "removeWarming" /\ d.cluster = NoCluster /\ Shape(d)
    BY <1>4, OverFrame DEF Ops, ClusterOps, CdsOps
  <1>6. /\ FitsState(d, helper, server) /\ FitsLoop(d, helper, clusters)
        /\ Holds(d, helper, clusters)
    <2> HIDE DEF d
    <2> QED BY <1>2, <1>5 DEF FitsState, FitsLoop, Holds, CdsOps
  <1>7. Fine(d)
    <2> HIDE DEF d
    <2> QED BY <1>2, <1>5 DEF Fine, MayRunAbove, LoadOps, CdsOps
  <1>8. CASE clusters.active[n] = NoCluster
    <2>1. Calls(<<d>>) BY <1>3, <1>8
    <2> HIDE DEF d
    <2> QED BY <1>1, <1>2, <1>4, <1>5, <1>6, <1>7, <2>1, QuietCall
  <1>9. CASE clusters.active[n] # NoCluster
    <2>1. /\ clusters.active[n] \in ClusterType /\ clusters.active[n].name = n
          /\ clusters.active[n] \in clusters.initialized
      BY <1>4, <1>9, TableFacts
    <2>2. /\ f \in FrameType /\ f.op = "helper::removeCluster"
          /\ f.cluster = clusters.active[n] /\ Shape(f)
      BY <2>1, OnFrame DEF ClusterOps
    <2>3. e \in FrameType /\ e.op = "eraseActive" /\ e.cluster = NoCluster /\ Shape(e)
      BY <1>4, OverFrame DEF Ops, ClusterOps, CdsOps
    <2>4. Calls(<<f, e, d>>) BY <1>3, <1>9
    <2> HIDE DEF f, e, d
    <2>5. FitsState(f, helper, server) /\ FitsState(e, helper, server)
      BY <1>2, <2>2, <2>3 DEF FitsState, CdsOps
    <2>6. /\ FitsLoop(f, helper, clusters) /\ Holds(f, helper, clusters)
          /\ FitsLoop(e, helper, clusters)
      BY <2>1, <2>2, <2>3 DEF FitsLoop, Holds
    <2>7. Fine(f) /\ Fine(e)
      BY <1>2, <2>2, <2>3 DEF Fine, MayRunAbove, LoadOps, CdsOps
    <2>8. MayRunAbove(f, e) /\ MayRunAbove(f, d) /\ MayRunAbove(e, d)
      BY <1>5, <2>2, <2>3 DEF MayRunAbove, LoadOps, CdsOps
    <2>9. /\ e.op \in WaitingOps /\ d.op \in WaitingOps
          /\ "eraseWarming" \notin {f.op, e.op, d.op}
      BY <1>5, <2>2, <2>3 DEF WaitingOps, CdsOps
    <2>10. f.cluster \in clusters.initialized BY <2>1, <2>2
    <2> QED BY <1>1, <1>2, <1>4, <1>5, <1>6, <1>7, <2>2, <2>3, <2>4, <2>5, <2>6, <2>7, <2>8,
               <2>9, <2>10, QuietThree
  <1> QED BY <1>8, <1>9

LEMMA RemoveWarmingKeeps ==
  ASSUME ClusterInv, removeWarming
  PROVE  ClusterInv'
  <1>1. Runs("removeWarming") /\ Untouched BY DEF removeWarming, Untouched
  <1>2. /\ stack # <<>> /\ top.op = "removeWarming" /\ top \in FrameType /\ Shape(top)
        /\ FitsState(top, helper, server)
    BY <1>1, RunsTop
  <1>3. PICK n \in top.names :
          Calls(IF clusters.warming[n] = NoCluster THEN <<>>
                ELSE <<On("helper::removeCluster", clusters.warming[n]),
                       Over("eraseWarming", {n})>>)
    BY DEF removeWarming
  <1>4. n \in Names /\ n \notin Static /\ top.op \notin EntryOps
    BY <1>2 DEF FrameType, Shape, CdsOps, EntryOps
  <1>5. CASE clusters.warming[n] = NoCluster
    <2>1. Returns BY <1>3, <1>5 DEF Returns
    <2> QED BY <1>1, <1>2, <1>4, <2>1, QuietReturn
  <1>6. CASE clusters.warming[n] # NoCluster
    <2> DEFINE f == On("helper::removeCluster", clusters.warming[n])
               e == Over("eraseWarming", {n})
    <2>1. clusters.warming[n] \in ClusterType /\ clusters.warming[n].name = n
      BY <1>4, <1>6, TableFacts
    <2>2. /\ f \in FrameType /\ f.op = "helper::removeCluster"
          /\ f.cluster = clusters.warming[n] /\ Shape(f)
      BY <2>1, OnFrame DEF ClusterOps
    <2>3. /\ e \in FrameType /\ e.op = "eraseWarming" /\ e.cluster = NoCluster /\ Shape(e)
          /\ e.names = {n}
      BY <1>4, OverFrame DEF Ops, ClusterOps, CdsOps
    <2>4. Calls(<<f, e>>) BY <1>3, <1>6
    <2> HIDE DEF f, e
    <2>5. FitsState(f, helper, server) /\ FitsState(e, helper, server)
      BY <1>2, <2>2, <2>3 DEF FitsState, CdsOps
    <2>6. /\ FitsLoop(f, helper, clusters) /\ Holds(f, helper, clusters)
          /\ FitsLoop(e, helper, clusters)
      BY <2>1, <2>2, <2>3 DEF FitsLoop, Holds
    <2>7. Fine(f) /\ Fine(e)
      BY <1>2, <2>2, <2>3 DEF Fine, MayRunAbove, LoadOps, CdsOps
    <2>8. MayRunAbove(f, e) /\ e.op \in WaitingOps /\ f.op # "eraseWarming"
      BY <2>2, <2>3 DEF MayRunAbove, LoadOps, CdsOps, WaitingOps
    <2>9. \A m \in e.names : /\ helper.primary[m] \in {NoCluster, f.cluster}
                             /\ helper.secondary[m] \in {NoCluster, f.cluster}
      BY <1>4, <2>2, <2>3, EntryFacts DEF Current
    <2>10. f.cluster.name \in e.names BY <2>1, <2>2, <2>3
    <2> QED BY <1>1, <1>2, <1>4, <2>2, <2>3, <2>4, <2>5, <2>6, <2>7, <2>8, <2>9, <2>10, QuietCalls
  <1> QED BY <1>5, <1>6

\* The loop starts a cluster that waits.
LEMMA SecondaryLoopKeeps ==
  ASSUME ClusterInv, initializeSecondaryClusters
  PROVE  ClusterInv'
  <1>1. Runs("initializeSecondary") /\ Untouched
    BY DEF initializeSecondaryClusters, Untouched
  <1>2. /\ stack # <<>> /\ top.op = "initializeSecondary" /\ top \in FrameType /\ Shape(top)
        /\ FitsState(top, helper, server) /\ FitsLoop(top, helper, clusters)
    BY <1>1, RunsTop
  <1>3. top.op \notin EntryOps BY <1>2 DEF EntryOps
  <1>4. CASE top.names = {}
    <2>1. Returns BY <1>4 DEF initializeSecondaryClusters
    <2> QED BY <1>1, <1>2, <1>3, <2>1, QuietReturn
  <1>5. CASE top.names # {}
    <2>1. PICK n \in top.names :
            Calls(<<On("helperInitialize", helper.secondary[n]),
                    Over("initializeSecondary", top.names \ {n})>>)
      BY <1>5 DEF initializeSecondaryClusters
    <2> DEFINE c == helper.secondary[n]
               f == On("helperInitialize", c)
               e == Over("initializeSecondary", top.names \ {n})
    <2>2. n \in Names /\ top.names \subseteq Names BY <1>2 DEF FrameType
    <2>3. /\ c # NoCluster /\ ~Begun(c, clusters) /\ helper.started
          /\ \A m \in top.names :
               helper.secondary[m] # NoCluster /\ ~Begun(helper.secondary[m], clusters)
      BY <1>2 DEF FitsLoop
    <2>4. c \in ClusterType /\ c.name = n /\ c = Current(n, clusters)
      BY <1>3, <2>2, <2>3, EntryFacts, TableFacts
    <2>5. f \in FrameType /\ f.op = "helperInitialize" /\ f.cluster = c /\ Shape(f)
      BY <2>4, OnFrame DEF ClusterOps
    <2>6. /\ e \in FrameType /\ e.op = "initializeSecondary" /\ e.names = top.names \ {n}
          /\ Shape(e)
      BY <2>2, OverFrame DEF Ops, ClusterOps, CdsOps
    <2>7. Calls(<<f, e>>) BY <2>1
    <2> HIDE DEF f, e, c
    <2>8. FitsState(f, helper, server) /\ FitsState(e, helper, server)
      BY <1>2, <2>5, <2>6 DEF FitsState, CdsOps
    <2>9. FitsLoop(f, helper, clusters) /\ FitsLoop(e, helper, clusters)
      BY <2>3, <2>5, <2>6 DEF FitsLoop
    <2>10. Holds(f, helper, clusters) BY <2>3, <2>4, <2>5 DEF Holds, Current
    <2>11. Fine(f) /\ Fine(e)
      BY <1>2, <2>5, <2>6 DEF Fine, MayRunAbove, LoadOps, CdsOps, Fits, FitsState
    <2>12. MayRunAbove(f, e) /\ e.op \in WaitingOps /\ f.op # "eraseWarming"
      BY <2>4, <2>5, <2>6 DEF MayRunAbove, LoadOps, CdsOps, WaitingOps
    <2> QED BY <1>1, <1>2, <1>3, <2>5, <2>6, <2>7, <2>8, <2>9, <2>10, <2>11, <2>12, QuietCalls
  <1> QED BY <1>4, <1>5

\* The helper is told of a static cluster.
LEMMA AddStaticKeeps ==
  ASSUME ClusterInv, addStatic
  PROVE  ClusterInv'
  <1>1. Runs("addStatic") /\ Untouched BY DEF addStatic, Untouched
  <1>2. /\ stack # <<>> /\ top.op = "addStatic" /\ top \in FrameType /\ Shape(top)
        /\ top = stack[1] /\ FitsState(top, helper, server) /\ FitsLoop(top, helper, clusters)
    BY <1>1, RunsTop
  <1>3. \A g \in FrameType : Stays(g, helper', clusters', server', stack')
    BY <1>1, <1>2, StaysSame DEF Untouched
  <1>4. EntryInv(helper, clusters, stack) BY DEF ClusterInv
  <1>5. ASSUME NEW n \in Names, NEW e, Expected(e, n, clusters, stack)
        PROVE  Expected(e, n, clusters', stack')
    BY <1>1, <1>2, <1>5 DEF Expected, Leaving, Replaced, Untouched
  <1>6. CASE top.names = {}
    <2>1. Returns BY <1>6 DEF addStatic
    <2>2. /\ StackInv(helper', clusters', server', stack') /\ stack' \in Seq(FrameType)
          /\ Kept(stack')
      BY <1>2, <1>3, <2>1, ReturnStep
    <2>3. ASSUME NEW n \in Names PROVE Tracked(n, helper', clusters', stack')
      BY <1>1, <1>2, <1>4, <1>6, <2>2 DEF EntryInv, Tracked, Kept, Untouched
    <2>4. EntryInv(helper', clusters', stack')
      BY <1>1, <1>4, <1>5, <2>3 DEF EntryInv, Untouched
    <2> QED BY <1>1, <2>2, <2>4, UntouchedStack
  <1>7. CASE top.names # {}
    <2>1. PICK n \in top.names :
            Calls(<<On("helper::addCluster", clusters.active[n]),
                    Over("addStatic", top.names \ {n})>>)
      BY <1>7 DEF addStatic
    <2> DEFINE c == clusters.active[n]
               f == On("helper::addCluster", c)
               e == Over("addStatic", top.names \ {n})
    <2>2. n \in Names /\ n \in Static /\ top.names \subseteq Names /\ top.names \subseteq Static
      BY <1>2 DEF FrameType, Shape
    <2>3. \A m \in top.names : ~Begun(clusters.active[m], clusters)
      BY <1>2 DEF FitsLoop
    <2>4. c \in ClusterType /\ c.name = n /\ c = Current(n, clusters) /\ ~Begun(c, clusters)
      BY <2>2, <2>3, TableFacts DEF Current
    <2>5. f \in FrameType /\ f.op = "helper::addCluster" /\ f.cluster = c /\ Shape(f)
      BY <2>4, OnFrame DEF ClusterOps
    <2>6. e \in FrameType /\ e.op = "addStatic" /\ e.names = top.names \ {n} /\ Shape(e)
      BY <2>2, OverFrame DEF Ops, ClusterOps, CdsOps, StartOps
    <2>7. Calls(<<f, e>>) BY <2>1
    <2> HIDE DEF f, e, c
    <2>8. FitsState(f, helper', server') /\ FitsState(e, helper', server')
      BY <1>1, <1>2, <2>5, <2>6 DEF FitsState, CdsOps, Untouched
    <2>9. FitsLoop(f, helper', clusters') /\ FitsLoop(e, helper', clusters')
      BY <1>1, <2>3, <2>5, <2>6 DEF FitsLoop, Untouched
    <2>10. Holds(f, helper', clusters')
      BY <1>1, <2>4, <2>5 DEF Holds, Current, Untouched
    <2>11. Fine(f) /\ Fine(e)
      BY <1>2, <2>5, <2>6 DEF Fine, MayRunAbove, LoadOps, CdsOps
    <2>12. MayRunAbove(f, e) /\ e.op \in WaitingOps
      BY <2>4, <2>5, <2>6 DEF MayRunAbove, LoadOps, CdsOps, WaitingOps, StartOps
    <2>13. /\ Fits(f, helper', clusters', server', stack')
           /\ Fits(e, helper', clusters', server', stack')
      BY <2>5, <2>6, <2>8, <2>9 DEF Fits, FitsErase
    <2>14. /\ StackInv(helper', clusters', server', stack') /\ stack' \in Seq(FrameType)
           /\ Kept(stack') /\ stack' # <<>> /\ stack'[1] = f
           /\ \A m \in e.names : InProgress(e.op, m, stack')
      BY <1>2, <1>3, <2>5, <2>6, <2>7, <2>10, <2>11, <2>12, <2>13, CallTwoStep
    <2>15. ASSUME NEW m \in Names PROVE Tracked(m, helper', clusters', stack')
      <3>1. CASE m = n
        BY <1>1, <2>4, <2>5, <2>14, <3>1 DEF Tracked, Untouched
      <3>2. CASE m # n
        <4>1. InProgress("addStatic", m, stack) => InProgress("addStatic", m, stack')
          BY <2>6, <2>14, <3>2 DEF Kept
        <4>2. InProgress("eraseWarming", m, stack) => InProgress("eraseWarming", m, stack')
          BY <1>2, <2>14 DEF Kept
        <4> QED BY <1>1, <1>2, <1>4, <4>1, <4>2 DEF EntryInv, Tracked, Untouched
      <3> QED BY <3>1, <3>2
    <2>16. EntryInv(helper', clusters', stack')
      BY <1>1, <1>4, <1>5, <2>15 DEF EntryInv, Untouched
    <2> QED BY <1>1, <2>14, <2>16, UntouchedStack
  <1> QED BY <1>6, <1>7

-----------------------------------------------------------------------------
(* Steps of the helper.                                                    *)

\* An entry of one of its tables is set.
LEMMA PrimarySet ==
  ASSUME helper \in HelperType, NEW n \in Names, NEW c \in ClusterType,
         helper' = [helper EXCEPT !.primary[n] = c]
  PROVE  /\ helper' \in HelperType /\ helper'.state = helper.state
         /\ helper'.started = helper.started
         /\ \A m \in Names : /\ helper'.primary[m] = IF m = n THEN c ELSE helper.primary[m]
                             /\ helper'.secondary[m] = helper.secondary[m]
  <1> DEFINE p == [helper.primary EXCEPT ![n] = c]
  <1>1. p \in Tables /\ \A m \in Names : p[m] = IF m = n THEN c ELSE helper.primary[m]
    BY DEF HelperType, Tables
  <1>2. helper' = [helper EXCEPT !.primary = p] BY DEF HelperType
  <1> HIDE DEF p
  <1> QED BY <1>1, <1>2 DEF HelperType

LEMMA SecondarySet ==
  ASSUME helper \in HelperType, NEW n \in Names, NEW c \in ClusterType,
         helper' = [helper EXCEPT !.secondary[n] = c]
  PROVE  /\ helper' \in HelperType /\ helper'.state = helper.state
         /\ helper'.started = helper.started
         /\ \A m \in Names : /\ helper'.secondary[m] = IF m = n THEN c ELSE helper.secondary[m]
                             /\ helper'.primary[m] = helper.primary[m]
  <1> DEFINE s == [helper.secondary EXCEPT ![n] = c]
  <1>1. s \in Tables /\ \A m \in Names : s[m] = IF m = n THEN c ELSE helper.secondary[m]
    BY DEF HelperType, Tables
  <1>2. helper' = [helper EXCEPT !.secondary = s] BY DEF HelperType
  <1> HIDE DEF s
  <1> QED BY <1>1, <1>2 DEF HelperType

\* The tables of the cluster manager do not change.
LEMMA SameTables ==
  ASSUME ClusterInv, NEW h,
         helper.state = "AllClustersInitialized" => h.state = "AllClustersInitialized",
         \A m \in Names :
           /\ Named(h.primary[m], m, clusters) /\ Named(h.secondary[m], m, clusters)
           /\ PhaseOf(m) = "Primary" => h.secondary[m] = NoCluster
           /\ PhaseOf(m) = "Secondary" => h.primary[m] = NoCluster
  PROVE  TableInv(h, clusters)
  BY DEF ClusterInv, TableInv

LEMMA AddClusterKeeps ==
  ASSUME ClusterInv, addCluster
  PROVE  ClusterInv'
  <1>1. Runs("helper::addCluster") /\ UNCHANGED <<clusters, server>> BY DEF addCluster
  <1>2. /\ stack # <<>> /\ top.op = "helper::addCluster" /\ top \in FrameType /\ Shape(top)
        /\ top = stack[1] /\ FitsState(top, helper, server) /\ Holds(top, helper, clusters)
    BY <1>1, RunsTop
  <1>3. /\ helper \in HelperType /\ StateInv(helper, clusters, server)
        /\ TableInv(helper, clusters) /\ EntryInv(helper, clusters, stack)
    BY DEF ClusterInv, ClusterTypes
  <1> DEFINE c == top.cluster  n == c.name  f == On("helperInitialize", c)
  <1>4. /\ c \in ClusterType /\ n \in Names /\ c = Current(n, clusters)
        /\ ~Begun(c, clusters) /\ c # NoCluster
    BY <1>2 DEF FrameType, Shape, ClusterOps, Holds, ClusterType
  <1>5. c.phase = PhaseOf(n) /\ PhaseOf(n) \in {"Primary", "Secondary"}
        /\ Named(c, n, clusters)
    BY <1>3, <1>4 DEF TableInv, Named, Current, PhaseOf
  <1>6. /\ f \in FrameType /\ f.op = "helperInitialize" /\ f.cluster = c /\ Shape(f)
    BY <1>4, OnFrame DEF ClusterOps
  <1>7. /\ helper' \in HelperType /\ helper'.state = helper.state
        /\ helper'.started = helper.started
        /\ \A m \in Names :
             /\ helper'.primary[m] = IF m = n /\ PhaseOf(n) = "Primary" THEN c
                                     ELSE helper.primary[m]
             /\ helper'.secondary[m] = IF m = n /\ PhaseOf(n) = "Secondary" THEN c
                                       ELSE helper.secondary[m]
    <2>1. CASE PhaseOf(n) = "Primary"
      <3>1. helper' = [helper EXCEPT !.primary[n] = c] BY <1>5, <2>1 DEF addCluster
      <3> HIDE DEF c, n
      <3>2. /\ helper' \in HelperType /\ helper'.state = helper.state
            /\ helper'.started = helper.started
            /\ \A m \in Names : /\ helper'.primary[m] = IF m = n THEN c ELSE helper.primary[m]
                                /\ helper'.secondary[m] = helper.secondary[m]
        BY <1>3, <1>4, <3>1, PrimarySet
      <3> QED BY <2>1, <3>2
    <2>2. CASE PhaseOf(n) = "Secondary"
      <3>1. helper' = [helper EXCEPT !.secondary[n] = c] BY <1>5, <2>2 DEF addCluster
      <3> HIDE DEF c, n
      <3>2. /\ helper' \in HelperType /\ helper'.state = helper.state
            /\ helper'.started = helper.started
            /\ \A m \in Names : /\ helper'.secondary[m] = IF m = n THEN c ELSE helper.secondary[m]
                                /\ helper'.primary[m] = helper.primary[m]
        BY <1>3, <1>4, <3>1, SecondarySet
      <3> QED BY <2>2, <3>2
    <2> QED BY <1>5, <2>1, <2>2
  <1>8. \/ Calls(<<f>>) /\ (PhaseOf(n) = "Secondary" => helper.started)
        \/ Returns
    BY <1>5 DEF addCluster, Returns
  <1> HIDE DEF c, n, f
  <1>9. TableInv(helper', clusters')
    <2>1. \A m \in Names :
            /\ Named(helper'.primary[m], m, clusters) /\ Named(helper'.secondary[m], m, clusters)
            /\ PhaseOf(m) = "Primary" => helper'.secondary[m] = NoCluster
            /\ PhaseOf(m) = "Secondary" => helper'.primary[m] = NoCluster
      BY <1>3, <1>5, <1>7 DEF TableInv
    <2> QED BY <1>1, <1>7, <2>1, SameTables
  <1>10. helper.state \in {"Loading", "WaitingToStartCdsInitialization", "CdsInitialized"}
    BY <1>2 DEF FitsState
  <1>11. StateInv(helper', clusters', server')
    <2>1. ~helper'.started => \A m \in Names :
            helper'.secondary[m] # NoCluster => ~Begun(helper'.secondary[m], clusters)
      BY <1>3, <1>4, <1>7 DEF StateInv
    <2> HIDE <1>4
    <2> QED BY <1>1, <1>3, <1>7, <1>10, <2>1 DEF StateInv
  <1>12. ASSUME NEW g \in FrameType PROVE Stays(g, helper', clusters', server', stack')
    BY <1>1, <1>2, <1>7 DEF Stays, Fits, FitsState, FitsLoop, FitsErase, MayRunAbove, LoadOps
  <1>13. ASSUME Kept(stack') PROVE EntryInv(helper', clusters', stack')
    <2>1. ASSUME NEW m \in Names PROVE Expected(helper'.primary[m], m, clusters', stack')
      <3>1. CASE m = n /\ PhaseOf(n) = "Primary"
        BY <1>1, <1>4, <1>7, <3>1 DEF Expected, Begun
      <3>2. CASE m = n /\ PhaseOf(n) = "Secondary"
        BY <1>3, <1>7, <3>2 DEF Expected, TableInv
      <3>3. CASE m # n
        BY <1>1, <1>2, <1>3, <1>7, <3>3
           DEF EntryInv, Expected, Leaving, Replaced, c, n
      <3> QED BY <1>5, <3>1, <3>2, <3>3
    <2>2. ASSUME NEW m \in Names PROVE Expected(helper'.secondary[m], m, clusters', stack')
      <3>1. CASE m = n /\ PhaseOf(n) = "Secondary"
        BY <1>1, <1>4, <1>7, <3>1 DEF Expected, Begun
      <3>2. CASE m = n /\ PhaseOf(n) = "Primary"
        BY <1>3, <1>7, <3>2 DEF Expected, TableInv
      <3>3. CASE m # n
        BY <1>1, <1>2, <1>3, <1>7, <3>3
           DEF EntryInv, Expected, Leaving, Replaced, c, n
      <3> QED BY <1>5, <3>1, <3>2, <3>3
    <2>3. ASSUME NEW m \in Names PROVE Tracked(m, helper', clusters', stack')
      <3>1. CASE m = n BY <1>1, <1>4, <1>5, <1>7, <3>1 DEF Tracked
      <3>2. CASE m # n
        <4>1. c # Current(m, clusters)
          <5>1. c = Current(m, clusters) => c.name = m BY <1>4, TableFacts DEF Current
          <5> QED BY <3>2, <5>1 DEF n
        <4>2. /\ InProgress("addStatic", m, stack) => InProgress("addStatic", m, stack')
              /\ InProgress("eraseWarming", m, stack) => InProgress("eraseWarming", m, stack')
          BY <1>2, <1>13 DEF Kept
        <4> QED BY <1>1, <1>2, <1>3, <1>7, <3>2, <4>1, <4>2 DEF EntryInv, Tracked, c
      <3> QED BY <3>1, <3>2
    <2> QED BY <2>1, <2>2, <2>3 DEF EntryInv
  <1>14. StackInv(helper', clusters', server', stack') /\ stack' \in Seq(FrameType)
           /\ Kept(stack')
    <2>1. CASE Returns BY <1>2, <1>12, <2>1, ReturnStep
    <2>2. CASE Calls(<<f>>) /\ (PhaseOf(n) = "Secondary" => helper.started)
      <3>1. FitsState(f, helper', server')
        BY <1>6, <1>7, <1>10 DEF FitsState, CdsOps
      <3>2. Fits(f, helper', clusters', server', stack')
        BY <1>6, <3>1 DEF Fits, FitsLoop, FitsErase
      <3>3. Holds(f, helper', clusters')
        <4>1. c.name = n BY DEF n
        <4> QED BY <1>1, <1>4, <1>5, <1>6, <1>7, <2>2, <4>1 DEF Holds, Current
      <3>4. Fine(f) BY <1>2, <1>6 DEF Fine, MayRunAbove, LoadOps, CdsOps, c
      <3> QED BY <1>2, <1>6, <1>12, <2>2, <3>2, <3>3, <3>4, CallStep
    <2> QED BY <1>8, <2>1, <2>2
  <1>15. ClusterTypes' BY <1>1, <1>7, <1>14 DEF ClusterInv, ClusterTypes
  <1> QED BY <1>9, <1>11, <1>13, <1>14, <1>15 DEF ClusterInv

\* The states of the helper and the server change, the tables do not.
LEMMA StateReturn ==
  ASSUME ClusterInv, stack # <<>>, Returns, UNCHANGED clusters, top.op \notin EntryOps,
         helper' \in HelperType, StateInv(helper', clusters', server'),
         helper'.primary = helper.primary, helper'.secondary = helper.secondary,
         helper.state = "AllClustersInitialized" => helper'.state = "AllClustersInitialized",
         \A g \in FrameType : Stays(g, helper', clusters', server', stack')
  PROVE  ClusterInv'
  <1>1. /\ StackInv(helper', clusters', server', stack') /\ stack' \in Seq(FrameType)
        /\ Kept(stack')
    BY ReturnStep
  <1>2. EntryInv(helper', clusters', stack') BY <1>1, EntrySame DEF EntryOps
  <1>3. TableInv(helper', clusters') BY DEF ClusterInv, TableInv
  <1>4. ClusterTypes' BY <1>1 DEF ClusterInv, ClusterTypes
  <1> QED BY <1>1, <1>2, <1>3, <1>4 DEF ClusterInv

LEMMA StateCall ==
  ASSUME ClusterInv, stack # <<>>, UNCHANGED clusters, top.op \notin EntryOps,
         helper' \in HelperType, StateInv(helper', clusters', server'),
         helper'.primary = helper.primary, helper'.secondary = helper.secondary,
         helper.state = "AllClustersInitialized" => helper'.state = "AllClustersInitialized",
         \A g \in FrameType : Stays(g, helper', clusters', server', stack'),
         NEW f \in FrameType, Calls(<<f>>), Shape(f), Fine(f), f.cluster = NoCluster,
         f.op # "eraseWarming", FitsState(f, helper', server'), FitsLoop(f, helper', clusters')
  PROVE  ClusterInv'
  <1>1. f.op \notin ClusterOps BY DEF Shape
  <1>2. Holds(f, helper', clusters') /\ f.op # "helper::removeCluster"
    BY <1>1 DEF Holds, ClusterOps
  <1>3. Fits(f, helper', clusters', server', stack') BY DEF Fits, FitsErase
  <1>4. /\ StackInv(helper', clusters', server', stack') /\ stack' \in Seq(FrameType)
        /\ Kept(stack')
    BY <1>2, <1>3, CallStep
  <1>5. EntryInv(helper', clusters', stack') BY <1>4, EntrySame DEF EntryOps
  <1>6. TableInv(helper', clusters') BY DEF ClusterInv, TableInv
  <1>7. ClusterTypes' BY <1>4 DEF ClusterInv, ClusterTypes
  <1> QED BY <1>4, <1>5, <1>6, <1>7 DEF ClusterInv

LEMMA StaticLoadKeeps ==
  ASSUME ClusterInv, onStaticLoadComplete
  PROVE  ClusterInv'
  <1> DEFINE f == Call("maybeFinishInitialize")
  <1>1. /\ Runs("onStaticLoadComplete") /\ UNCHANGED <<clusters, server>> /\ Calls(<<f>>)
        /\ helper' = [helper EXCEPT !.state = "WaitingForPrimaryInitializationToComplete"]
    BY DEF onStaticLoadComplete
  <1>2. /\ f \in FrameType /\ f.op = "maybeFinishInitialize" /\ f.cluster = NoCluster
        /\ Shape(f)
    BY CallFrame DEF Ops, ClusterOps
  <1> HIDE DEF f
  <1>3. /\ stack # <<>> /\ top.op = "onStaticLoadComplete" /\ FitsState(top, helper, server)
    BY <1>1, RunsTop
  <1>4. helper \in HelperType /\ StateInv(helper, clusters, server)
    BY DEF ClusterInv, ClusterTypes
  <1>5. /\ helper' \in HelperType /\ helper.state = "Loading"
        /\ helper'.state = "WaitingForPrimaryInitializationToComplete"
        /\ helper'.started = helper.started
        /\ helper'.primary = helper.primary /\ helper'.secondary = helper.secondary
    BY <1>1, <1>3, <1>4 DEF HelperType, States, FitsState
  <1>6. StateInv(helper', clusters', server') BY <1>1, <1>4, <1>5 DEF StateInv
  <1>7. ASSUME NEW g \in FrameType PROVE Stays(g, helper', clusters', server', stack')
    BY <1>1, <1>3, <1>5
       DEF Stays, Fits, FitsState, FitsLoop, FitsErase, MayRunAbove, WaitingOps, StartOps,
           CdsOps, Told
  <1>8. FitsState(f, helper', server') BY <1>2, <1>5 DEF FitsState, CdsOps
  <1>9. FitsLoop(f, helper', clusters') /\ Fine(f)
    BY <1>2 DEF FitsLoop, Fine, MayRunAbove, LoadOps, CdsOps
  <1>10. top.op \notin EntryOps BY <1>3 DEF EntryOps
  <1> QED BY <1>1, <1>2, <1>3, <1>5, <1>6, <1>7, <1>8, <1>9, <1>10, StateCall

LEMMA SetPrimaryKeeps ==
  ASSUME ClusterInv, server \in ServerRecord, setPrimaryClustersInitializedCb
  PROVE  ClusterInv'
  <1> DEFINE f == Call("startRtdsSubscriptions")
  <1>1. /\ Runs("setPrimaryClustersInitializedCb") /\ UNCHANGED <<helper, clusters>>
        /\ server' = [server EXCEPT !.primaryCb = TRUE]
        /\ \/ helper.state = "WaitingToStartSecondaryInitialization" /\ Calls(<<f>>)
           \/ Returns
    BY DEF setPrimaryClustersInitializedCb, Returns
  <1>2. /\ f \in FrameType /\ f.op = "startRtdsSubscriptions" /\ f.cluster = NoCluster
        /\ Shape(f)
    BY CallFrame DEF Ops, ClusterOps
  <1> HIDE DEF f
  <1>3. /\ stack # <<>> /\ top.op = "setPrimaryClustersInitializedCb"
        /\ top = stack[1] /\ FitsState(top, helper, server)
    BY <1>1, RunsTop
  <1>4. helper \in HelperType /\ StateInv(helper, clusters, server)
    BY DEF ClusterInv, ClusterTypes
  <1>5. /\ ~server.primaryCb /\ server.rtds = "idle" /\ server'.rtds = "idle"
        /\ server'.primaryCb /\ server'.cds = server.cds
    BY <1>1, <1>3, <1>4 DEF StateInv, FitsState, ServerRecord
  <1>6. StateInv(helper', clusters', server') BY <1>1, <1>4, <1>5 DEF StateInv
  <1>7. ASSUME NEW g \in FrameType PROVE Stays(g, helper', clusters', server', stack')
    BY <1>1, <1>3, <1>5
       DEF Stays, Fits, FitsState, FitsLoop, FitsErase, MayRunAbove, WaitingOps, StartOps,
           CdsOps, Told
  <1>8. top.op \notin EntryOps BY <1>3 DEF EntryOps
  <1>9. CASE helper.state = "WaitingToStartSecondaryInitialization" /\ Calls(<<f>>)
    <2>1. FitsState(f, helper', server') BY <1>1, <1>2, <1>5, <1>9 DEF FitsState, CdsOps
    <2>2. FitsLoop(f, helper', clusters') /\ Fine(f)
      BY <1>2 DEF FitsLoop, Fine, MayRunAbove, LoadOps, CdsOps
    <2> QED BY <1>1, <1>2, <1>3, <1>4, <1>6, <1>7, <1>8, <1>9, <2>1, <2>2, StateCall
  <1>10. CASE Returns BY <1>1, <1>3, <1>4, <1>6, <1>7, <1>8, <1>10, StateReturn
  <1> QED BY <1>1, <1>9, <1>10

LEMMA RtdsKeeps ==
  ASSUME ClusterInv, server \in ServerRecord, startRtdsSubscriptions
  PROVE  ClusterInv'
  <1> DEFINE f == Call("onRuntimeReady")
  <1>1. /\ Runs("startRtdsSubscriptions") /\ UNCHANGED <<helper, clusters>>
        /\ \/ Calls(<<f>>) /\ server' = [server EXCEPT !.rtds = "ready"]
           \/ Returns /\ server' = [server EXCEPT !.rtds = "started"]
    BY DEF startRtdsSubscriptions, Returns, RtdsPending
  <1>2. f \in FrameType /\ f.op = "onRuntimeReady" /\ f.cluster = NoCluster /\ Shape(f)
    BY CallFrame DEF Ops, ClusterOps
  <1> HIDE DEF f
  <1>3. /\ stack # <<>> /\ top.op = "startRtdsSubscriptions"
        /\ top = stack[1] /\ FitsState(top, helper, server)
    BY <1>1, RunsTop
  <1>4. helper \in HelperType /\ StateInv(helper, clusters, server)
    BY DEF ClusterInv, ClusterTypes
  <1>5. /\ server.primaryCb /\ server.rtds = "idle" /\ server'.rtds \in {"started", "ready"}
        /\ server'.primaryCb /\ server'.cds = server.cds
        /\ helper.state = "WaitingToStartSecondaryInitialization"
    BY <1>1, <1>3 DEF FitsState, ServerRecord
  <1>6. StateInv(helper', clusters', server') BY <1>1, <1>4, <1>5 DEF StateInv
  <1>7. ASSUME NEW g \in FrameType PROVE Stays(g, helper', clusters', server', stack')
    BY <1>1, <1>3, <1>5
       DEF Stays, Fits, FitsState, FitsLoop, FitsErase, MayRunAbove, WaitingOps, StartOps,
           CdsOps, Told
  <1>8. top.op \notin EntryOps BY <1>3 DEF EntryOps
  <1>9. CASE Calls(<<f>>) /\ server' = [server EXCEPT !.rtds = "ready"]
    <2>1. server'.rtds = "ready" BY <1>9 DEF ServerRecord
    <2>2. FitsState(f, helper', server') BY <1>2, <2>1 DEF FitsState, CdsOps
    <2>3. FitsLoop(f, helper', clusters') /\ Fine(f)
      BY <1>2 DEF FitsLoop, Fine, MayRunAbove, LoadOps, CdsOps
    <2> QED BY <1>1, <1>2, <1>3, <1>4, <1>6, <1>7, <1>8, <1>9, <2>2, <2>3, StateCall
  <1>10. CASE Returns BY <1>1, <1>3, <1>4, <1>6, <1>7, <1>8, <1>10, StateReturn
  <1> QED BY <1>1, <1>9, <1>10

LEMMA CdsCallbackKeeps ==
  ASSUME ClusterInv, server \in ServerRecord, cdsInitializedCb
  PROVE  ClusterInv'
  <1> DEFINE f == Call("maybeFinishInitialize")
  <1>1. Runs("cdsInitializedCb") /\ UNCHANGED clusters BY DEF cdsInitializedCb
  <1>2. /\ f \in FrameType /\ f.op = "maybeFinishInitialize" /\ f.cluster = NoCluster
        /\ Shape(f)
    BY CallFrame DEF Ops, ClusterOps
  <1>3. /\ stack # <<>> /\ top.op = "cdsInitializedCb"
        /\ top = stack[1] /\ FitsState(top, helper, server)
    BY <1>1, RunsTop
  <1>4. helper \in HelperType /\ StateInv(helper, clusters, server)
    BY DEF ClusterInv, ClusterTypes
  <1>5. top.op \notin EntryOps BY <1>3 DEF EntryOps
  <1>6. CASE server.cds = "started"
    <2>1. /\ server' = [server EXCEPT !.cds = "answered"] /\ Calls(<<f>>)
          /\ helper' = [helper EXCEPT !.state = "CdsInitialized"]
      BY <1>6 DEF cdsInitializedCb
    <2> HIDE DEF f
    <2>2. /\ server'.rtds = server.rtds /\ server'.primaryCb = server.primaryCb
          /\ server'.cds = "answered" /\ helper' \in HelperType
          /\ helper'.state = "CdsInitialized" /\ helper'.started = helper.started
          /\ helper'.primary = helper.primary /\ helper'.secondary = helper.secondary
      BY <1>4, <2>1 DEF ServerRecord, HelperType, States
    <2>3. helper.state = "WaitingToStartCdsInitialization" /\ server.rtds = "ready"
      BY <1>4, <1>6 DEF StateInv
    <2>4. StateInv(helper', clusters', server')
      BY <1>1, <1>4, <2>2, <2>3 DEF StateInv
    <2>5. ASSUME NEW g \in FrameType PROVE Stays(g, helper', clusters', server', stack')
      BY <1>1, <1>3, <2>2, <2>3
         DEF Stays, Fits, FitsState, FitsLoop, FitsErase, MayRunAbove, WaitingOps, StartOps,
             CdsOps, Told
    <2>6. FitsState(f, helper', server') BY <1>2, <2>2 DEF FitsState, CdsOps
    <2>7. FitsLoop(f, helper', clusters') /\ Fine(f)
      BY <1>2 DEF FitsLoop, Fine, MayRunAbove, LoadOps, CdsOps
    <2> QED BY <1>1, <1>2, <1>3, <1>5, <2>1, <2>2, <2>3, <2>4, <2>5, <2>6, <2>7, StateCall
  <1>7. CASE server.cds # "started"
    <2>1. Returns /\ Untouched BY <1>1, <1>7 DEF cdsInitializedCb, Untouched
    <2> QED BY <1>3, <1>5, <2>1, QuietReturn
  <1> QED BY <1>6, <1>7

\* The entry of a cluster is erased, unless the name stands for another one.
LEMMA EntryErased ==
  ASSUME ClusterInv, NEW c \in ClusterType, c.phase = PhaseOf(c.name),
         helper' = IF c.phase = "Primary"
                   THEN [helper EXCEPT !.primary = Without(@, c)]
                   ELSE [helper EXCEPT !.secondary = Without(@, c)]
  PROVE  /\ helper' \in HelperType /\ helper'.state = helper.state
         /\ helper'.started = helper.started
         /\ \A m \in Names :
              /\ helper'.primary[m] = IF helper.primary[m] = c THEN NoCluster
                                      ELSE helper.primary[m]
              /\ helper'.secondary[m] = IF helper.secondary[m] = c THEN NoCluster
                                        ELSE helper.secondary[m]
  <1>1. helper \in HelperType /\ c.name \in Names /\ c # NoCluster
    BY IsCluster DEF ClusterInv, ClusterTypes, ClusterType
  <1>2. ASSUME NEW map \in Tables, \A m \in Names : map[m] = c => m = c.name
        PROVE  /\ Without(map, c) \in Tables
               /\ \A m \in Names :
                    Without(map, c)[m] = IF map[m] = c THEN NoCluster ELSE map[m]
    BY <1>1, <1>2 DEF Without, Tables
  <1>3. /\ helper.primary \in Tables /\ helper.secondary \in Tables BY <1>1 DEF HelperType
  <1>4. ASSUME NEW m \in Names
        PROVE  /\ helper.primary[m] = c => m = c.name /\ c.phase = "Primary"
               /\ helper.secondary[m] = c => m = c.name /\ c.phase = "Secondary"
    BY <1>1, TableFacts
  <1>5. CASE c.phase = "Primary"
    <2> DEFINE t == Without(helper.primary, c)
    <2>1. /\ t \in Tables
          /\ \A m \in Names : t[m] = IF helper.primary[m] = c THEN NoCluster
                                     ELSE helper.primary[m]
      BY <1>2, <1>3, <1>4
    <2>2. helper' = [helper EXCEPT !.primary = t] BY <1>5
    <2> HIDE DEF t
    <2> QED BY <1>1, <1>4, <1>5, <2>1, <2>2 DEF HelperType
  <1>6. CASE c.phase # "Primary"
    <2> DEFINE t == Without(helper.secondary, c)
    <2>1. /\ t \in Tables
          /\ \A m \in Names : t[m] = IF helper.secondary[m] = c THEN NoCluster
                                     ELSE helper.secondary[m]
      BY <1>2, <1>3, <1>4
    <2>2. helper' = [helper EXCEPT !.secondary = t] BY <1>6
    <2> HIDE DEF t
    <2> QED BY <1>1, <1>4, <1>6, <2>1, <2>2 DEF HelperType
  <1> QED BY <1>5, <1>6

LEMMA HelperRemoveKeeps ==
  ASSUME ClusterInv, helperRemoveCluster
  PROVE  ClusterInv'
  <1>1. Runs("helper::removeCluster") /\ UNCHANGED <<clusters, server>>
    BY DEF helperRemoveCluster
  <1>2. /\ stack # <<>> /\ top.op = "helper::removeCluster" /\ top \in FrameType /\ Shape(top)
        /\ top = stack[1] /\ FitsState(top, helper, server) /\ Holds(top, helper, clusters)
        /\ Accounted(top, clusters, stack)
    BY <1>1, RunsTop
  <1>3. /\ helper \in HelperType /\ StateInv(helper, clusters, server)
        /\ TableInv(helper, clusters) /\ EntryInv(helper, clusters, stack)
    BY DEF ClusterInv, ClusterTypes
  <1> DEFINE c == top.cluster  n == c.name
  <1>4. /\ c \in ClusterType /\ n \in Names /\ c # NoCluster
        /\ c \in {clusters.active[n], clusters.warming[n]}
    BY <1>2 DEF FrameType, Shape, ClusterOps, Holds, ClusterType
  <1>5. c.phase = PhaseOf(n) BY <1>4, TableFacts
  <1>6. CASE helper.state = "AllClustersInitialized"
    <2>1. Returns /\ Untouched BY <1>1, <1>6 DEF helperRemoveCluster, Untouched
    <2>2. \A m \in Names : helper.primary[m] = NoCluster /\ helper.secondary[m] = NoCluster
      BY <1>3, <1>6 DEF StateInv
    <2>3. ASSUME NEW g \in FrameType PROVE Stays(g, helper', clusters', server', stack')
      <3>1. g.names \subseteq Names BY DEF FrameType
      <3>2. FitsErase(g, helper', stack')
        BY <2>1, <2>2, <3>1 DEF FitsErase, Told, Untouched
      <3> QED BY <2>1, <3>2 DEF Stays, Fits, FitsState, Untouched
    <2>4. /\ StackInv(helper', clusters', server', stack') /\ stack' \in Seq(FrameType)
      BY <1>2, <2>1, <2>3, ReturnStep
    <2>5. EntryInv(helper', clusters', stack')
      BY <1>6, <2>1, <2>2 DEF EntryInv, Expected, Tracked, Untouched
    <2> QED BY <2>1, <2>4, <2>5, UntouchedStack
  <1>7. CASE helper.state # "AllClustersInitialized"
    <2> DEFINE f == Call("maybeFinishInitialize")
    <2>1. /\ Calls(<<f>>)
          /\ helper' = IF c.phase = "Primary" THEN [helper EXCEPT !.primary = Without(@, c)]
                       ELSE [helper EXCEPT !.secondary = Without(@, c)]
      BY <1>7 DEF helperRemoveCluster
    <2>2. /\ f \in FrameType /\ f.op = "maybeFinishInitialize" /\ f.cluster = NoCluster
          /\ Shape(f)
      BY CallFrame DEF Ops, ClusterOps
    <2> HIDE DEF f, c
    <2>3. /\ helper' \in HelperType /\ helper'.state = helper.state
          /\ helper'.started = helper.started
          /\ \A m \in Names :
               /\ helper'.primary[m] = IF helper.primary[m] = c THEN NoCluster
                                       ELSE helper.primary[m]
               /\ helper'.secondary[m] = IF helper.secondary[m] = c THEN NoCluster
                                         ELSE helper.secondary[m]
      BY <1>4, <1>5, <2>1, EntryErased
    <2>4. TableInv(helper', clusters')
      <3>1. \A m \in Names :
              /\ Named(helper'.primary[m], m, clusters)
              /\ Named(helper'.secondary[m], m, clusters)
              /\ PhaseOf(m) = "Primary" => helper'.secondary[m] = NoCluster
              /\ PhaseOf(m) = "Secondary" => helper'.primary[m] = NoCluster
        BY <1>3, <2>3 DEF TableInv, Named
      <3> QED BY <1>1, <2>3, <3>1, SameTables
    <2>5. StateInv(helper', clusters', server')
      <3>1. ~helper'.started => \A m \in Names :
              helper'.secondary[m] # NoCluster => ~Begun(helper'.secondary[m], clusters)
        BY <1>3, <2>3 DEF StateInv
      <3>2. \A m \in Names : helper.primary[m] = NoCluster => helper'.primary[m] = NoCluster
        BY <2>3
      <3> QED BY <1>1, <1>3, <1>7, <2>3, <3>1, <3>2 DEF StateInv
    <2>6. ASSUME NEW g \in FrameType PROVE Stays(g, helper', clusters', server', stack')
      <3> SUFFICES ASSUME g.op \in WaitingOps, Shape(g), MayRunAbove(top, g),
                          Fits(g, helper, clusters, server, stack)
                   PROVE  Fits(g, helper', clusters', server', stack')
        BY DEF Stays
      <3>1. g.names \subseteq Names BY DEF FrameType
      <3>2. FitsState(g, helper', server') BY <1>1, <2>3 DEF Fits, FitsState
      <3>3. FitsErase(g, helper', stack')
        BY <1>2, <2>3, <3>1 DEF Fits, FitsErase, Told, c
      <3>4. FitsLoop(g, helper', clusters')
        <4>1. g.op = "initializeSecondary" => n \notin g.names
          BY <1>2 DEF MayRunAbove, c
        <4>2. ASSUME NEW m \in Names, m # n PROVE helper.secondary[m] # c
          BY <1>4, <4>2, TableFacts
        <4>3. g.op = "initializeSecondary" =>
                \A m \in g.names : helper'.secondary[m] = helper.secondary[m]
          BY <2>3, <3>1, <4>1, <4>2
        <4> QED BY <1>1, <2>3, <4>3 DEF Fits, FitsLoop
      <3> QED BY <3>2, <3>3, <3>4 DEF Fits
    <2>7. FitsState(f, helper', server')
      BY <1>1, <1>2, <2>2, <2>3 DEF FitsState, CdsOps
    <2>8. Fits(f, helper', clusters', server', stack') /\ Holds(f, helper', clusters')
      BY <2>2, <2>7 DEF Fits, FitsLoop, FitsErase, Holds
    <2>9. Fine(f) BY <2>2 DEF Fine, MayRunAbove, LoadOps, CdsOps
    <2>10. /\ StackInv(helper', clusters', server', stack') /\ stack' \in Seq(FrameType)
           /\ Kept(stack')
      BY <1>2, <2>1, <2>2, <2>6, <2>8, <2>9, CallStep
    <2>11. ASSUME NEW m \in Names
           PROVE  /\ Expected(helper'.primary[m], m, clusters', stack')
                  /\ Expected(helper'.secondary[m], m, clusters', stack')
      BY <1>1, <1>2, <1>3, <2>3 DEF EntryInv, Expected, Leaving, Replaced, c
    <2>12. ASSUME NEW m \in Names PROVE Tracked(m, helper', clusters', stack')
      <3>1. /\ InProgress("addStatic", m, stack) => InProgress("addStatic", m, stack')
            /\ InProgress("eraseWarming", m, stack) => InProgress("eraseWarming", m, stack')
        BY <1>2, <2>10 DEF Kept
      <3>2. CASE c = Current(m, clusters)
        <4>1. m = n BY <1>4, <3>2, TableFacts DEF Current
        <4>2. c \in clusters.initialized \/ InProgress("eraseWarming", n, stack)
          BY <1>2 DEF Accounted, c
        <4> QED BY <1>1, <3>1, <3>2, <4>1, <4>2 DEF Tracked
      <3>3. CASE c # Current(m, clusters)
        BY <1>1, <1>2, <1>3, <2>3, <3>1, <3>3 DEF EntryInv, Tracked
      <3> QED BY <3>2, <3>3
    <2>13. EntryInv(helper', clusters', stack') BY <2>11, <2>12 DEF EntryInv
    <2>14. ClusterTypes' BY <1>1, <2>3, <2>10 DEF ClusterInv, ClusterTypes
    <2> QED BY <2>4, <2>5, <2>10, <2>13, <2>14 DEF ClusterInv
  <1> QED BY <1>6, <1>7

\* maybeFinishInitialize goes from one phase to the next.
LEMMA MaybeFinishKeeps ==
  ASSUME ClusterInv, server \in ServerRecord, maybeFinishInitialize
  PROVE  ClusterInv'
  <1>1. Runs("maybeFinishInitialize") /\ UNCHANGED clusters BY DEF maybeFinishInitialize
  <1>2. /\ stack # <<>> /\ top.op = "maybeFinishInitialize"
        /\ top = stack[1] /\ FitsState(top, helper, server)
    BY <1>1, RunsTop
  <1>3. helper \in HelperType /\ StateInv(helper, clusters, server)
    BY DEF ClusterInv, ClusterTypes
  <1>4. top.op \notin EntryOps BY <1>2 DEF EntryOps
  <1>5. CASE MustWait /\ Returns /\ UNCHANGED <<helper, server>>
    <2>1. Untouched BY <1>1, <1>5 DEF Untouched
    <2> QED BY <1>2, <1>4, <1>5, <2>1, QuietReturn
  <1>6. ASSUME ~MustWait
        PROVE  /\ helper.state \notin {"Loading", "WaitingToStartCdsInitialization"}
               /\ \A m \in Names : helper.primary[m] = NoCluster
    BY <1>6 DEF MustWait, Waiting
  <1>7. CASE /\ ~MustWait /\ helper.state = "WaitingForPrimaryInitializationToComplete"
             /\ helper' = [helper EXCEPT !.state = "WaitingToStartSecondaryInitialization"]
             /\ Calls(IF server.primaryCb THEN <<Call("startRtdsSubscriptions")>> ELSE <<>>)
             /\ UNCHANGED server
    <2>1. /\ helper' \in HelperType
          /\ helper'.state = "WaitingToStartSecondaryInitialization"
          /\ helper'.started = helper.started
          /\ helper'.primary = helper.primary /\ helper'.secondary = helper.secondary
      BY <1>3, <1>7 DEF HelperType, States
    <2>2. server.rtds = "idle" /\ \A m \in Names : helper.primary[m] = NoCluster
      BY <1>3, <1>6, <1>7 DEF StateInv
    <2>3. StateInv(helper', clusters', server')
      BY <1>1, <1>3, <1>7, <2>1, <2>2 DEF StateInv
    <2>4. ASSUME NEW g \in FrameType PROVE Stays(g, helper', clusters', server', stack')
      BY <1>1, <1>2, <1>7, <2>1
         DEF Stays, Fits, FitsState, FitsLoop, FitsErase, WaitingOps, StartOps, CdsOps, Told
    <2>5. CASE server.primaryCb
      <3> DEFINE f == Call("startRtdsSubscriptions")
      <3>1. /\ f \in FrameType /\ f.op = "startRtdsSubscriptions" /\ f.cluster = NoCluster
            /\ Shape(f)
        BY CallFrame DEF Ops, ClusterOps
      <3>2. Calls(<<f>>) BY <1>7, <2>5
      <3> HIDE DEF f
      <3>3. FitsState(f, helper', server')
        BY <1>7, <2>1, <2>2, <2>5, <3>1 DEF FitsState, CdsOps
      <3>4. FitsLoop(f, helper', clusters') /\ Fine(f)
        BY <3>1 DEF FitsLoop, Fine, MayRunAbove, LoadOps, CdsOps
      <3>5. helper.state # "AllClustersInitialized" BY <1>7
      <3> QED BY <1>1, <1>2, <1>4, <2>1, <2>3, <2>4, <3>1, <3>2, <3>3, <3>4, <3>5, StateCall
    <2>6. CASE ~server.primaryCb
      <3>1. Returns BY <1>7, <2>6 DEF Returns
      <3>2. helper.state # "AllClustersInitialized" BY <1>7
      <3> QED BY <1>1, <1>2, <1>4, <2>1, <2>3, <2>4, <3>1, <3>2, StateReturn
    <2> QED BY <2>5, <2>6
  <1>8. ASSUME ~MustWait, helper.state # "WaitingForPrimaryInitializationToComplete"
        PROVE  /\ helper.state \in {"WaitingToStartSecondaryInitialization", "CdsInitialized",
                                    "AllClustersInitialized"}
               /\ server.rtds = "ready"
    <2>1. helper.state \in {"WaitingToStartSecondaryInitialization", "CdsInitialized",
                            "AllClustersInitialized"}
      BY <1>3, <1>6, <1>8 DEF HelperType, States
    <2> QED BY <1>2, <1>3, <2>1 DEF StateInv, FitsState
  <1>9. CASE /\ ~MustWait /\ helper.state # "WaitingForPrimaryInitializationToComplete"
             /\ Waiting(helper.secondary) # {}
             /\ helper' = [helper EXCEPT !.started = TRUE]
             /\ Calls(IF SecondariesToStart
                      THEN <<Over("initializeSecondary", Waiting(helper.secondary))>>
                      ELSE <<>>)
             /\ UNCHANGED server
    <2>1. /\ helper' \in HelperType /\ helper'.state = helper.state /\ helper'.started
          /\ helper'.primary = helper.primary /\ helper'.secondary = helper.secondary
      BY <1>3, <1>9 DEF HelperType
    <2>2. StateInv(helper', clusters', server')
      BY <1>1, <1>3, <1>8, <1>9, <2>1 DEF StateInv
    <2>3. ASSUME NEW g \in FrameType PROVE Stays(g, helper', clusters', server', stack')
      BY <1>1, <1>2, <1>9, <2>1
         DEF Stays, Fits, FitsState, FitsLoop, FitsErase, Told
    <2>4. CASE ~helper.started
      <3> DEFINE W == Waiting(helper.secondary)  f == Over("initializeSecondary", W)
      <3>1. W \in SUBSET Names /\ \A m \in W : helper.secondary[m] # NoCluster
        BY DEF Waiting
      <3>2. Calls(<<f>>) BY <1>9, <2>4 DEF SecondariesToStart
      <3> HIDE DEF W
      <3>3. /\ f \in FrameType /\ f.op = "initializeSecondary" /\ f.names = W
            /\ f.cluster = NoCluster /\ Shape(f)
        BY <3>1, OverFrame DEF Ops, ClusterOps, CdsOps
      <3> HIDE DEF f
      <3>4. FitsState(f, helper', server')
        BY <1>8, <1>9, <2>1, <3>3 DEF FitsState, CdsOps
      <3>5. FitsLoop(f, helper', clusters')
        BY <1>1, <1>3, <2>1, <2>4, <3>1, <3>3 DEF FitsLoop, StateInv
      <3>6. Fine(f)
        BY <1>8, <1>9, <2>4, <3>3
           DEF Fine, MayRunAbove, LoadOps, CdsOps, Fits, FitsLoop
      <3> QED BY <1>1, <1>2, <1>4, <2>1, <2>2, <2>3, <3>2, <3>3, <3>4, <3>5, <3>6, StateCall
    <2>5. CASE helper.started
      <3>1. Returns BY <1>9, <2>5 DEF Returns, SecondariesToStart
      <3> QED BY <1>1, <1>2, <1>4, <2>1, <2>2, <2>3, <3>1, StateReturn
    <2> QED BY <2>4, <2>5
  <1>10. ASSUME Waiting(helper.secondary) = {}
         PROVE  \A m \in Names : helper.secondary[m] = NoCluster
    BY <1>10 DEF Waiting
  <1>11. ASSUME Waiting(helper.secondary) = {}, NEW g \in FrameType,
                Fits(g, helper, clusters, server, stack), g.op = "initializeSecondary"
         PROVE  g.names = {}
    BY <1>10, <1>11 DEF Fits, FitsLoop, FrameType
  <1>12. CASE /\ ~MustWait /\ helper.state = "WaitingToStartSecondaryInitialization"
              /\ Waiting(helper.secondary) = {}
              /\ helper' = [helper EXCEPT !.started = FALSE,
                                          !.state = "WaitingToStartCdsInitialization"]
              /\ server' = [server EXCEPT !.cds = "started"]
              /\ Calls(<<Call("cdsStart")>>)
    <2> DEFINE f == Call("cdsStart")
    <2>1. /\ helper' \in HelperType /\ helper'.state = "WaitingToStartCdsInitialization"
          /\ helper'.started = FALSE /\ server'.cds = "started"
          /\ helper'.primary = helper.primary /\ helper'.secondary = helper.secondary
          /\ server'.rtds = server.rtds /\ server'.primaryCb = server.primaryCb
      BY <1>3, <1>12 DEF HelperType, States, ServerRecord
    <2>2. /\ f \in FrameType /\ f.op = "cdsStart" /\ f.cluster = NoCluster /\ Shape(f)
      BY CallFrame DEF Ops, ClusterOps, CdsOps
    <2>3. Calls(<<f>>) BY <1>12
    <2> HIDE DEF f
    <2>4. server.rtds = "ready" /\ \A m \in Names : helper.secondary[m] = NoCluster
      BY <1>8, <1>10, <1>12
    <2>5. StateInv(helper', clusters', server')
      BY <1>1, <1>3, <1>12, <2>1, <2>4 DEF StateInv
    <2>6. ASSUME NEW g \in FrameType PROVE Stays(g, helper', clusters', server', stack')
      <3>1. ASSUME g.op = "initializeSecondary", Fits(g, helper, clusters, server, stack)
            PROVE  g.names = {}
        BY <1>11, <1>12, <3>1
      <3> QED BY <1>1, <1>2, <1>12, <2>1, <3>1
            DEF Stays, Fits, FitsState, FitsLoop, FitsErase, WaitingOps, StartOps, CdsOps, Told
    <2>7. FitsState(f, helper', server') BY <2>1, <2>2 DEF FitsState, CdsOps
    <2>8. FitsLoop(f, helper', clusters') BY <2>2 DEF FitsLoop
    <2>9. Fine(f)
      <3> SUFFICES ASSUME NEW g \in FrameType, Fits(g, helper, clusters, server, stack)
                   PROVE  MayRunAbove(f, g)
        BY DEF Fine
      <3>1. g.op = "initializeSecondary" => g.names = {} BY <1>11, <1>12
      <3>2. g.op \notin CdsOps BY <1>12 DEF Fits, FitsState
      <3> QED BY <2>2, <3>1, <3>2 DEF MayRunAbove, CdsOps
    <2>10. helper.state # "AllClustersInitialized" BY <1>12
    <2> QED BY <1>1, <1>2, <1>4, <2>1, <2>2, <2>3, <2>5, <2>6, <2>7, <2>8, <2>9, <2>10, StateCall
  <1>13. CASE /\ ~MustWait /\ helper.state # "WaitingForPrimaryInitializationToComplete"
              /\ Waiting(helper.secondary) = {}
              /\ helper' = [helper EXCEPT !.started = FALSE,
                                          !.state = "AllClustersInitialized"]
              /\ UNCHANGED server
              /\ Calls(IF server.initializedCb THEN <<Call("initializedCallback")>> ELSE <<>>)
    <2>1. /\ helper' \in HelperType /\ helper'.state = "AllClustersInitialized"
          /\ helper'.started = FALSE
          /\ helper'.primary = helper.primary /\ helper'.secondary = helper.secondary
      BY <1>3, <1>13 DEF HelperType, States
    <2>2. /\ server.rtds = "ready"
          /\ helper.state \in {"WaitingToStartSecondaryInitialization", "CdsInitialized",
                               "AllClustersInitialized"}
          /\ \A m \in Names : helper.secondary[m] = NoCluster /\ helper.primary[m] = NoCluster
      BY <1>6, <1>8, <1>10, <1>13
    <2>3. StateInv(helper', clusters', server')
      BY <1>1, <1>3, <1>13, <2>1, <2>2 DEF StateInv
    <2>4. ASSUME NEW g \in FrameType PROVE Stays(g, helper', clusters', server', stack')
      <3>1. ASSUME g.op = "initializeSecondary", Fits(g, helper, clusters, server, stack)
            PROVE  g.names = {}
        BY <1>11, <1>13, <3>1
      <3> QED BY <1>1, <1>2, <1>13, <2>1, <2>2, <3>1
            DEF Stays, Fits, FitsState, FitsLoop, FitsErase, WaitingOps, StartOps, CdsOps, Told
    <2>5. CASE server.initializedCb
      <3> DEFINE f == Call("initializedCallback")
      <3>1. /\ f \in FrameType /\ f.op = "initializedCallback" /\ f.cluster = NoCluster
            /\ Shape(f)
        BY CallFrame DEF Ops, ClusterOps
      <3>2. Calls(<<f>>) BY <1>13, <2>5
      <3> HIDE DEF f
      <3>3. FitsState(f, helper', server') BY <2>1, <3>1 DEF FitsState, CdsOps
      <3>4. FitsLoop(f, helper', clusters') /\ Fine(f)
        BY <3>1 DEF FitsLoop, Fine, MayRunAbove, LoadOps, CdsOps
      <3> QED BY <1>1, <1>2, <1>4, <2>1, <2>3, <2>4, <3>1, <3>2, <3>3, <3>4, StateCall
    <2>6. CASE ~server.initializedCb
      <3>1. Returns BY <1>13, <2>6 DEF Returns
      <3> QED BY <1>1, <1>2, <1>4, <2>1, <2>3, <2>4, <3>1, StateReturn
    <2> QED BY <2>5, <2>6
  <1> QED BY <1>5, <1>7, <1>9, <1>12, <1>13 DEF maybeFinishInitialize

-----------------------------------------------------------------------------
(* Steps of the clusters and of the cluster manager.                       *)

\* A function that holds a cluster.
LEMMA InHand ==
  ASSUME ClusterInv, stack # <<>>, top.op \in ClusterOps
  PROVE  LET c == top.cluster
         IN  /\ c \in ClusterType /\ c.name \in Names /\ c # NoCluster
             /\ c \in {clusters.active[c.name], clusters.warming[c.name]}
             /\ c.phase = PhaseOf(c.name) /\ c.version <= clusters.version[c.name]
             /\ c.version \in Nat
  <1> DEFINE c == top.cluster
  <1>1. /\ top \in FrameType /\ Shape(top) /\ Holds(top, helper, clusters)
        /\ TableInv(helper, clusters)
    BY TopFacts
  <1>2. c # NoCluster /\ c \in ClusterType \cup {NoCluster} BY <1>1 DEF Shape, FrameType
  <1>3. c \in ClusterType /\ c.name \in Names /\ c.version \in Nat BY <1>2 DEF ClusterType
  <1>4. c \in {clusters.active[c.name], clusters.warming[c.name]}
    BY <1>1, <1>2 DEF Holds
  <1> HIDE DEF c
  <1>5. c.phase = PhaseOf(c.name) /\ c.version <= clusters.version[c.name]
    BY <1>1, <1>2, <1>3, <1>4 DEF TableInv, Named
  <1> QED BY <1>2, <1>3, <1>4, <1>5 DEF c

\* initialize() is called on a cluster for the first time, and finishes now or
\* later.
LEMMA ClusterInitializeKeeps ==
  ASSUME ClusterInv, clusterInitialize
  PROVE  ClusterInv'
  <1> DEFINE c == top.cluster  n == c.name
             op == IF top.op = "helperInitialize" THEN "helper::onClusterInit" ELSE "warmed"
             f == On(op, c)
  <1>1. /\ Runs("helperInitialize") \/ Runs("warmingInitialize")
        /\ UNCHANGED <<helper, server>>
        /\ \/ clusters' = [clusters EXCEPT !.initialized = @ \cup {c}] /\ Calls(<<f>>)
           \/ clusters' = [clusters EXCEPT !.initializing = @ \cup {f}] /\ Returns
    BY DEF clusterInitialize
  <1>2. /\ stack # <<>> /\ top.op \in {"helperInitialize", "warmingInitialize"}
        /\ top = stack[1] /\ top \in FrameType /\ Shape(top)
        /\ FitsState(top, helper, server) /\ Holds(top, helper, clusters)
    BY <1>1, RunsTop
  <1>3. /\ helper \in HelperType /\ clusters \in ClustersType
        /\ StateInv(helper, clusters, server)
        /\ TableInv(helper, clusters) /\ EntryInv(helper, clusters, stack)
    BY DEF ClusterInv, ClusterTypes
  <1>4. /\ c \in ClusterType /\ n \in Names /\ c # NoCluster
        /\ c.phase = PhaseOf(n) /\ c.version <= clusters.version[n]
        /\ c \in {clusters.active[n], clusters.warming[n]}
    BY <1>2, InHand DEF ClusterOps
  <1>5. /\ c = Current(n, clusters) /\ ~Begun(c, clusters)
        /\ top.op = "helperInitialize" /\ c.phase = "Secondary" => helper.started
    BY <1>2 DEF Holds
  <1>6. /\ top.op = "warmingInitialize" => n \notin Static
        /\ top.op = "warmingInitialize" => helper.state = "AllClustersInitialized"
    BY <1>2 DEF Shape, FitsState
  <1>7. /\ f \in FrameType /\ f.op = op /\ f.cluster = c /\ Shape(f)
        /\ top.op = "helperInitialize" => op = "helper::onClusterInit"
        /\ top.op # "helperInitialize" => op = "warmed"
        /\ op \in {"helper::onClusterInit", "warmed"}
    <2>1. /\ op \in ClusterOps
          /\ op \in {"warmingInitialize", "warmed"} => c.name \notin Static
      BY <1>2, <1>6 DEF ClusterOps
    <2> HIDE DEF op, c
    <2>2. f \in FrameType /\ f.op = op /\ f.cluster = c /\ Shape(f)
      BY <1>4, <2>1, OnFrame
    <2> QED BY <2>2 DEF op
  <1> HIDE DEF f, op, c, n
  <1>8. /\ clusters' \in ClustersType
        /\ clusters'.active = clusters.active /\ clusters'.warming = clusters.warming
        /\ clusters'.version = clusters.version
        /\ \/ /\ clusters'.initialized = clusters.initialized \cup {c}
              /\ clusters'.initializing = clusters.initializing /\ Calls(<<f>>)
           \/ /\ clusters'.initialized = clusters.initialized
              /\ clusters'.initializing = clusters.initializing \cup {f} /\ Returns
    BY <1>1, <1>3, <1>4, <1>7 DEF ClustersType
  <1>9. \A x : Begun(x, clusters') => Begun(x, clusters) \/ x = c
    BY <1>7, <1>8 DEF Begun
  <1>10. TableInv(helper', clusters')
    <2>1. \A m \in Names :
            /\ Named(clusters'.active[m], m, clusters')
            /\ Named(clusters'.warming[m], m, clusters')
            /\ Named(helper'.primary[m], m, clusters')
            /\ Named(helper'.secondary[m], m, clusters')
            /\ PhaseOf(m) = "Primary" => helper'.secondary[m] = NoCluster
            /\ PhaseOf(m) = "Secondary" => helper'.primary[m] = NoCluster
            /\ m \in Static =>
                 clusters'.active[m] # NoCluster /\ clusters'.warming[m] = NoCluster
            /\ m \notin Static /\ clusters'.active[m] # NoCluster =>
                 clusters'.active[m] \in clusters'.initialized
      BY <1>1, <1>3, <1>8 DEF TableInv, Named
    <2>2. \A x \in clusters'.initialized : x.version <= clusters'.version[x.name]
      BY <1>3, <1>4, <1>8 DEF TableInv, n
    <2>3. ASSUME NEW g \in clusters'.initializing
          PROVE  /\ g.op \in {"helper::onClusterInit", "warmed"} /\ g.cluster # NoCluster
                 /\ g.cluster \notin clusters'.initialized
                 /\ g.cluster.version <= clusters'.version[g.cluster.name]
                 /\ g.op = "warmed" =>
                      g.cluster.name \notin Static /\ helper'.state = "AllClustersInitialized"
      <3>1. CASE g \in clusters.initializing
        <4>1. g.cluster # c BY <1>5, <3>1 DEF Begun
        <4> QED BY <1>1, <1>3, <1>8, <3>1, <4>1 DEF TableInv
      <3>2. CASE g \notin clusters.initializing
        <4>1. g = f /\ clusters'.initialized = clusters.initialized BY <1>8, <3>2
        <4>2. c \notin clusters.initialized BY <1>5 DEF Begun
        <4>3. g.op = "warmed" => top.op = "warmingInitialize" BY <1>2, <1>7, <4>1
        <4> QED BY <1>1, <1>4, <1>6, <1>7, <1>8, <4>1, <4>2, <4>3 DEF n
      <3> QED BY <3>1, <3>2
    <2>4. \A g, k \in clusters'.initializing : g.cluster = k.cluster => g = k
      BY <1>3, <1>5, <1>7, <1>8 DEF TableInv, Begun
    <2> QED BY <2>1, <2>2, <2>3, <2>4 DEF TableInv
  <1>11. StateInv(helper', clusters', server')
    <2>1. ~helper.started => \A m \in Names :
            helper.secondary[m] # NoCluster => ~Begun(helper.secondary[m], clusters')
      <3>1. ASSUME ~helper.started, NEW m \in Names, helper.secondary[m] # NoCluster
            PROVE  helper.secondary[m] # c
        <4>1. helper.state # "AllClustersInitialized" BY <1>3, <3>1 DEF StateInv
        <4>2. helper.secondary[m] = c => c.phase = "Secondary" BY <3>1, TableFacts
        <4> QED BY <1>2, <1>5, <1>6, <3>1, <4>1, <4>2
      <3> QED BY <1>3, <1>9, <3>1 DEF StateInv
    <2>2. server.rtds # "ready" => c.phase = "Primary"
      <3>1. PhaseOf(n) \in {"Primary", "Secondary"} BY DEF PhaseOf
      <3> QED BY <1>2, <1>3, <1>4, <1>5, <1>6, <3>1 DEF StateInv
    <2>3. server.rtds # "ready" =>
            \A x \in ClusterType : Begun(x, clusters') => x.phase = "Primary"
      BY <1>3, <1>9, <2>2 DEF StateInv
    <2> QED BY <1>1, <1>3, <2>1, <2>3 DEF StateInv
  <1>12. ASSUME NEW g \in FrameType PROVE Stays(g, helper', clusters', server', stack')
    <2> SUFFICES ASSUME g.op \in WaitingOps, Shape(g), MayRunAbove(top, g),
                        Fits(g, helper, clusters, server, stack)
                 PROVE  Fits(g, helper', clusters', server', stack')
      BY DEF Stays
    <2>1. g.names \subseteq Names BY DEF FrameType
    <2>2. FitsState(g, helper', server') BY <1>1 DEF Fits, FitsState
    <2>3. FitsErase(g, helper', stack') BY <1>1, <1>2 DEF Fits, FitsErase, Told
    <2>4. ASSUME g.op = "initializeSecondary", NEW m \in g.names
          PROVE  helper.secondary[m] # NoCluster /\ ~Begun(helper.secondary[m], clusters')
      <3>1. helper.secondary[m] # NoCluster /\ ~Begun(helper.secondary[m], clusters)
        BY <2>4 DEF Fits, FitsLoop
      <3>2. helper.state # "AllClustersInitialized" BY <1>3, <2>1, <3>1 DEF StateInv
      <3>3. n \notin g.names BY <1>2, <1>6, <2>4, <3>2 DEF MayRunAbove, c, n
      <3>4. helper.secondary[m] # c BY <2>1, <3>1, <3>3, TableFacts DEF n
      <3> QED BY <1>9, <3>1, <3>4
    <2>5. ASSUME g.op = "addStatic", NEW m \in g.names
          PROVE  ~Begun(clusters'.active[m], clusters')
      <3>1. ~Begun(clusters.active[m], clusters) /\ helper.state = "Loading"
        BY <2>5 DEF Fits, FitsLoop, FitsState
      <3>2. n \notin g.names BY <1>2, <1>6, <2>5, <3>1 DEF MayRunAbove, c, n
      <3>3. clusters.active[m] # c BY <1>4, <2>1, <3>2, TableFacts DEF n
      <3> QED BY <1>8, <1>9, <3>1, <3>3
    <2>6. FitsLoop(g, helper', clusters')
      BY <1>1, <2>4, <2>5 DEF Fits, FitsLoop
    <2> QED BY <2>2, <2>3, <2>6 DEF Fits
  <1>13. ASSUME Kept(stack'),
                c \in clusters'.initialized => stack' # <<>> /\ stack'[1] = f
         PROVE  EntryInv(helper', clusters', stack')
    <2>1. \A m : Current(m, clusters') = Current(m, clusters) BY <1>8 DEF Current
    <2>2. ASSUME NEW m \in Names, NEW e \in {helper.primary[m], helper.secondary[m]}
          PROVE  Expected(e, m, clusters', stack')
      <3> SUFFICES ASSUME e # NoCluster
                   PROVE  (e = Current(m, clusters') /\ e \notin clusters'.initialized)
                            \/ Leaving(e, stack')
        BY DEF Expected
      <3>1. e = Current(m, clusters) /\ e \notin clusters.initialized
        BY <1>2, EntryFacts DEF EntryOps
      <3>2. CASE e = c /\ c \in clusters'.initialized
        <4>1. helper.state # "AllClustersInitialized" BY <1>3 DEF StateInv
        <4>2. f.op = "helper::onClusterInit" BY <1>2, <1>6, <1>7, <4>1
        <4> QED BY <1>7, <1>13, <3>2, <4>2 DEF Leaving
      <3>3. CASE ~(e = c /\ c \in clusters'.initialized)
        BY <1>8, <2>1, <3>1, <3>3
      <3> QED BY <3>2, <3>3
    <2>3. ASSUME NEW m \in Names PROVE Tracked(m, helper', clusters', stack')
      <3>1. /\ InProgress("addStatic", m, stack) => InProgress("addStatic", m, stack')
            /\ InProgress("eraseWarming", m, stack) => InProgress("eraseWarming", m, stack')
        BY <1>2, <1>13 DEF Kept
      <3>2. clusters.initialized \subseteq clusters'.initialized BY <1>8
      <3> QED BY <1>1, <1>2, <1>3, <2>1, <3>1, <3>2 DEF EntryInv, Tracked
    <2> QED BY <1>1, <2>2, <2>3 DEF EntryInv
  <1>14. /\ StackInv(helper', clusters', server', stack') /\ stack' \in Seq(FrameType)
         /\ Kept(stack')
         /\ c \in clusters'.initialized => stack' # <<>> /\ stack'[1] = f
    <2>1. CASE Returns /\ clusters'.initialized = clusters.initialized
      <3>1. c \notin clusters'.initialized BY <1>5, <2>1 DEF Begun
      <3> QED BY <1>2, <1>12, <2>1, <3>1, ReturnStep
    <2>2. CASE Calls(<<f>>) /\ clusters'.initialized = clusters.initialized \cup {c}
      <3>1. FitsState(f, helper', server')
        BY <1>1, <1>2, <1>6, <1>7 DEF FitsState, CdsOps
      <3>2. Fits(f, helper', clusters', server', stack')
        BY <1>7, <3>1 DEF Fits, FitsLoop, FitsErase
      <3>3. Holds(f, helper', clusters')
        <4>1. c.name = n BY DEF n
        <4> QED BY <1>4, <1>5, <1>7, <1>8, <2>2, <4>1 DEF Holds, Current
      <3>4. Fine(f) BY <1>2, <1>7 DEF Fine, MayRunAbove, LoadOps, CdsOps, c
      <3>5. f.op # "helper::removeCluster" BY <1>7
      <3> QED BY <1>2, <1>7, <1>12, <2>2, <3>2, <3>3, <3>4, <3>5, CallStep
    <2> QED BY <1>8, <2>1, <2>2
  <1>15. ClusterTypes' BY <1>1, <1>3, <1>8, <1>14 DEF ClusterTypes
  <1> QED BY <1>10, <1>11, <1>13, <1>14, <1>15 DEF ClusterInv

\* A finished cluster takes its place in the active map.
LEMMA Activated ==
  ASSUME ClusterInv, NEW c \in ClusterType, c = Current(c.name, clusters),
         c \in clusters.initialized, clusters' = Activate(c)
  PROVE  /\ clusters' \in ClustersType /\ clusters'.version = clusters.version
         /\ clusters'.initialized = clusters.initialized
         /\ clusters'.initializing = clusters.initializing
         /\ \A m \in Names :
              /\ clusters'.active[m] = IF m = c.name THEN c ELSE clusters.active[m]
              /\ clusters'.warming[m] = IF m = c.name THEN NoCluster ELSE clusters.warming[m]
         /\ TableInv(helper, clusters')
  <1> DEFINE n == c.name
  <1>1. clusters \in ClustersType /\ TableInv(helper, clusters) /\ n \in Names /\ c # NoCluster
    BY IsCluster DEF ClusterInv, ClusterTypes, ClusterType
  <1>2. /\ clusters' \in ClustersType /\ clusters'.version = clusters.version
        /\ clusters'.initialized = clusters.initialized
        /\ clusters'.initializing = clusters.initializing
        /\ \A m \in Names :
             /\ clusters'.active[m] = IF m = n THEN c ELSE clusters.active[m]
             /\ clusters'.warming[m] = IF m = n THEN NoCluster ELSE clusters.warming[m]
    <2>1. CASE clusters.warming[n] = NoCluster
      <3>1. clusters' = clusters BY <2>1 DEF Activate
      <3>2. clusters.active[n] = c BY <1>1, <2>1 DEF Current
      <3> QED BY <1>1, <2>1, <3>1, <3>2
    <2>2. CASE clusters.warming[n] # NoCluster
      <3> DEFINE a == [clusters.active EXCEPT ![n] = clusters.warming[n]]
                 w == [clusters.warming EXCEPT ![n] = NoCluster]
      <3>1. clusters.warming[n] = c
        <4>1. n \notin Static BY <1>1, <2>2, TableFacts
        <4> QED BY <4>1 DEF Current
      <3>2. clusters' = [clusters EXCEPT !.active = a, !.warming = w]
        BY <1>1, <2>2 DEF Activate, ClustersType
      <3>3. /\ a \in Tables /\ w \in Tables
            /\ \A m \in Names : /\ a[m] = IF m = n THEN c ELSE clusters.active[m]
                                /\ w[m] = IF m = n THEN NoCluster ELSE clusters.warming[m]
        BY <1>1, <3>1 DEF ClustersType, Tables
      <3> HIDE DEF a, w
      <3> QED BY <1>1, <3>2, <3>3 DEF ClustersType
    <2> QED BY <2>1, <2>2
  <1>3. ASSUME NEW m \in Names
        PROVE  /\ Named(clusters'.active[m], m, clusters')
               /\ Named(clusters'.warming[m], m, clusters')
               /\ Named(helper.primary[m], m, clusters')
               /\ Named(helper.secondary[m], m, clusters')
               /\ m \in Static =>
                    clusters'.active[m] # NoCluster /\ clusters'.warming[m] = NoCluster
               /\ m \notin Static /\ clusters'.active[m] # NoCluster =>
                    clusters'.active[m] \in clusters'.initialized
    <2>1. CASE m = n
      <3>1. Named(c, n, clusters) BY <1>1 DEF TableInv, Current
      <3> QED BY <1>1, <1>2, <2>1, <3>1 DEF TableInv, Named
    <2>2. CASE m # n BY <1>1, <1>2, <2>2 DEF TableInv, Named
    <2> QED BY <2>1, <2>2
  <1>4. TableInv(helper, clusters') BY <1>1, <1>2, <1>3 DEF TableInv
  <1> QED BY <1>2, <1>4

\* What the frames below and the states need of a cluster that is activated or
\* erased: nothing.
LEMMA DynamicOnly ==
  ASSUME ClusterInv, stack # <<>>, top.op # "helper::removeCluster",
         UNCHANGED <<helper, server>>,
         clusters'.initialized = clusters.initialized,
         clusters'.initializing = clusters.initializing,
         \A m \in Static : clusters'.active[m] = clusters.active[m]
  PROVE  /\ StateInv(helper', clusters', server')
         /\ \A g \in FrameType : Stays(g, helper', clusters', server', stack')
  <1>1. StateInv(helper, clusters, server) /\ top = stack[1] BY TopFacts
  <1>2. \A x : Begun(x, clusters') <=> Begun(x, clusters) BY DEF Begun
  <1>3. StateInv(helper', clusters', server') BY <1>1, <1>2 DEF StateInv
  <1>4. ASSUME NEW g \in FrameType PROVE Stays(g, helper', clusters', server', stack')
    <2> SUFFICES ASSUME Shape(g), Fits(g, helper, clusters, server, stack)
                 PROVE  Fits(g, helper', clusters', server', stack')
      BY DEF Stays
    <2>1. FitsState(g, helper', server') BY DEF Fits, FitsState
    <2>2. FitsErase(g, helper', stack') BY <1>1 DEF Fits, FitsErase, Told
    <2>3. FitsLoop(g, helper', clusters') BY <1>2 DEF Fits, FitsLoop, Shape
    <2> QED BY <2>1, <2>2, <2>3 DEF Fits
  <1> QED BY <1>3, <1>4

LEMMA OnClusterInitKeeps ==
  ASSUME ClusterInv, helperOnClusterInit
  PROVE  ClusterInv'
  <1> DEFINE c == top.cluster  n == c.name  f == On("helper::removeCluster", c)
  <1>1. /\ Runs("helper::onClusterInit") /\ UNCHANGED <<helper, server>>
        /\ clusters' = Activate(c) /\ Calls(<<f>>)
    BY DEF helperOnClusterInit
  <1>2. /\ stack # <<>> /\ top.op = "helper::onClusterInit" /\ top = stack[1]
        /\ FitsState(top, helper, server) /\ Holds(top, helper, clusters)
    BY <1>1, RunsTop
  <1>3. /\ helper \in HelperType /\ TableInv(helper, clusters)
        /\ EntryInv(helper, clusters, stack)
    BY DEF ClusterInv, ClusterTypes
  <1>4. /\ c \in ClusterType /\ n \in Names /\ c # NoCluster
        /\ c = Current(n, clusters) /\ c \in clusters.initialized
    BY <1>2, InHand DEF ClusterOps, Holds
  <1>5. /\ f \in FrameType /\ f.op = "helper::removeCluster" /\ f.cluster = c /\ Shape(f)
    BY <1>4, OnFrame DEF ClusterOps
  <1> HIDE DEF f, c
  <1>6. /\ clusters' \in ClustersType /\ clusters'.version = clusters.version
        /\ clusters'.initialized = clusters.initialized
        /\ clusters'.initializing = clusters.initializing
        /\ \A m \in Names :
             /\ clusters'.active[m] = IF m = n THEN c ELSE clusters.active[m]
             /\ clusters'.warming[m] = IF m = n THEN NoCluster ELSE clusters.warming[m]
        /\ TableInv(helper, clusters')
    BY <1>1, <1>4, Activated
  <1>7. \A m \in Static : clusters'.active[m] = clusters.active[m]
    BY <1>4, <1>6 DEF Current, Names
  <1>8. /\ StateInv(helper', clusters', server')
        /\ \A g \in FrameType : Stays(g, helper', clusters', server', stack')
    BY <1>1, <1>2, <1>6, <1>7, DynamicOnly
  <1>9. FitsState(f, helper', server') BY <1>1, <1>2, <1>5 DEF FitsState, CdsOps
  <1>10. Fits(f, helper', clusters', server', stack')
    BY <1>5, <1>9 DEF Fits, FitsLoop, FitsErase
  <1>11. Holds(f, helper', clusters') BY <1>4, <1>5, <1>6 DEF Holds
  <1>12. Fine(f) BY <1>2, <1>5 DEF Fine, MayRunAbove, LoadOps, CdsOps, c
  <1>13. f.cluster \in clusters'.initialized BY <1>4, <1>5, <1>6
  <1>14. /\ StackInv(helper', clusters', server', stack') /\ stack' \in Seq(FrameType)
         /\ Kept(stack') /\ stack' # <<>> /\ stack'[1] = f
    BY <1>1, <1>2, <1>5, <1>8, <1>10, <1>11, <1>12, <1>13, CallStep
  <1>15. ASSUME NEW m \in Names, m # n \/ n \in Static
         PROVE  Current(m, clusters') = Current(m, clusters)
    BY <1>6, <1>7, <1>15 DEF Current
  <1>16. ASSUME NEW m \in Names, NEW e, Expected(e, m, clusters, stack)
         PROVE  Expected(e, m, clusters', stack')
    <2>1. CASE e = c BY <1>5, <1>14, <2>1 DEF Expected, Leaving
    <2>2. CASE e # c
      <3>1. e # NoCluster => e = Current(m, clusters) /\ e \notin clusters.initialized
        BY <1>2, <1>16, <2>2 DEF Expected, Leaving, Replaced, c
      <3>2. e # NoCluster => m # n BY <1>4, <2>2, <3>1
      <3> QED BY <1>6, <1>15, <3>1, <3>2 DEF Expected
    <2> QED BY <2>1, <2>2
  <1>17. ASSUME NEW m \in Names PROVE Tracked(m, helper', clusters', stack')
    <2>1. CASE m = n /\ n \notin Static BY <1>6, <2>1 DEF Tracked, Current
    <2>2. CASE m # n \/ n \in Static
      <3>1. /\ InProgress("addStatic", m, stack) => InProgress("addStatic", m, stack')
            /\ InProgress("eraseWarming", m, stack) => InProgress("eraseWarming", m, stack')
        BY <1>2, <1>14 DEF Kept
      <3> QED BY <1>1, <1>2, <1>3, <1>6, <1>15, <2>2, <3>1 DEF EntryInv, Tracked
    <2> QED BY <2>1, <2>2
  <1>18. EntryInv(helper', clusters', stack') BY <1>1, <1>3, <1>16, <1>17 DEF EntryInv
  <1>19. ClusterTypes' BY <1>1, <1>3, <1>6, <1>14 DEF ClusterTypes
  <1> QED BY <1>1, <1>6, <1>8, <1>14, <1>18, <1>19 DEF ClusterInv

LEMMA WarmedKeeps ==
  ASSUME ClusterInv, warmed
  PROVE  ClusterInv'
  <1> DEFINE c == top.cluster  n == c.name
  <1>1. /\ Runs("warmed") /\ UNCHANGED <<helper, server>> /\ Returns
        /\ clusters' = Activate(clusters.warming[n])
    BY DEF warmed
  <1>2. /\ stack # <<>> /\ top.op = "warmed" /\ top = stack[1] /\ Shape(top)
        /\ FitsState(top, helper, server) /\ Holds(top, helper, clusters)
    BY <1>1, RunsTop
  <1>3. /\ helper \in HelperType /\ StateInv(helper, clusters, server)
    BY DEF ClusterInv, ClusterTypes
  <1>4. /\ c \in ClusterType /\ n \in Names /\ n \notin Static
        /\ c = Current(n, clusters) /\ c \in clusters.initialized
    BY <1>2, InHand DEF ClusterOps, Holds, Shape
  <1>5. clusters' = Activate(c) BY <1>1, <1>4 DEF Current
  <1> HIDE DEF c
  <1>6. /\ clusters' \in ClustersType
        /\ clusters'.initialized = clusters.initialized
        /\ clusters'.initializing = clusters.initializing
        /\ \A m \in Names :
             /\ clusters'.active[m] = IF m = n THEN c ELSE clusters.active[m]
             /\ clusters'.warming[m] = IF m = n THEN NoCluster ELSE clusters.warming[m]
        /\ TableInv(helper, clusters')
    BY <1>4, <1>5, Activated
  <1>7. \A m \in Static : clusters'.active[m] = clusters.active[m]
    BY <1>4, <1>6 DEF Names
  <1>8. /\ StateInv(helper', clusters', server')
        /\ \A g \in FrameType : Stays(g, helper', clusters', server', stack')
    BY <1>1, <1>2, <1>6, <1>7, DynamicOnly
  <1>9. StackInv(helper', clusters', server', stack') /\ stack' \in Seq(FrameType)
    BY <1>1, <1>2, <1>8, ReturnStep
  <1>10. helper.state = "AllClustersInitialized" BY <1>2 DEF FitsState
  <1>11. EntryInv(helper', clusters', stack')
    BY <1>1, <1>3, <1>10 DEF EntryInv, StateInv, Expected, Tracked
  <1>12. ClusterTypes' BY <1>1, <1>3, <1>6, <1>9 DEF ClusterTypes
  <1> QED BY <1>1, <1>6, <1>8, <1>9, <1>11, <1>12 DEF ClusterInv

\* A new object takes the place of a name in the warming map.
LEMMA LoadKeeps ==
  ASSUME ClusterInv, ~PhaseMayChange, loadCluster
  PROVE  ClusterInv'
  <1>1. Runs("loadCluster") /\ UNCHANGED <<helper, server>> BY DEF loadCluster
  <1>2. /\ stack # <<>> /\ top.op = "loadCluster" /\ top = stack[1] /\ Shape(top)
        /\ top \in FrameType /\ FitsState(top, helper, server)
    BY <1>1, RunsTop
  <1>3. /\ helper \in HelperType /\ clusters \in ClustersType
        /\ StateInv(helper, clusters, server)
        /\ TableInv(helper, clusters) /\ EntryInv(helper, clusters, stack)
    BY DEF ClusterInv, ClusterTypes
  <1>4. PICK n \in top.names, phase \in {"Primary", "Secondary"} :
          /\ phase # PhaseOf(n) => PhaseMayChange
          /\ clusters' = [clusters EXCEPT !.warming[n] = Cluster(n, clusters.version[n] + 1, phase),
                                          !.version[n] = @ + 1]
          /\ Calls(<<On(IF helper.state = "AllClustersInitialized"
                        THEN "warmingInitialize" ELSE "helper::addCluster",
                        Cluster(n, clusters.version[n] + 1, phase))>>)
    BY DEF loadCluster
  <1>5. n \in Names /\ n \notin Static /\ clusters.version[n] \in Nat /\ phase = PhaseOf(n)
    BY <1>2, <1>3, <1>4 DEF FrameType, Shape, CdsOps, ClustersType
  <1> DEFINE v == clusters.version[n]
             c == Cluster(n, v + 1, phase)
             op == IF helper.state = "AllClustersInitialized"
                   THEN "warmingInitialize" ELSE "helper::addCluster"
             f == On(op, c)
             w == [clusters.warming EXCEPT ![n] = c]
             vs == [clusters.version EXCEPT ![n] = @ + 1]
  <1>6. c \in ClusterType /\ c.name = n /\ c.version = v + 1 /\ c.phase = PhaseOf(n)
    BY <1>5 DEF Cluster, ClusterType
  <1>7. clusters' = [clusters EXCEPT !.warming = w, !.version = vs] /\ Calls(<<f>>)
    BY <1>3, <1>4 DEF ClustersType
  <1>8. op \in ClusterOps /\ op \in {"warmingInitialize", "helper::addCluster"}
        /\ (op = "warmingInitialize" <=> helper.state = "AllClustersInitialized")
    BY DEF ClusterOps
  <1> HIDE DEF c, op
  <1>9. f \in FrameType /\ f.op = op /\ f.cluster = c /\ Shape(f)
    BY <1>5, <1>6, <1>8, OnFrame
  <1> HIDE DEF f
  <1>10. /\ w \in Tables /\ vs \in [Names -> Nat]
         /\ \A m \in Names : /\ w[m] = IF m = n THEN c ELSE clusters.warming[m]
                             /\ vs[m] = IF m = n THEN v + 1 ELSE clusters.version[m]
                             /\ clusters.version[m] \in Nat /\ clusters.version[m] <= vs[m]
    BY <1>3, <1>5, <1>6 DEF ClustersType, Tables
  <1> HIDE DEF w, vs
  <1>11. /\ clusters' \in ClustersType
         /\ clusters'.active = clusters.active /\ clusters'.warming = w
         /\ clusters'.version = vs /\ clusters'.initialized = clusters.initialized
         /\ clusters'.initializing = clusters.initializing
    BY <1>3, <1>7, <1>10 DEF ClustersType
  <1> HIDE DEF v
  <1>12. ~Begun(c, clusters)
    <2>1. \A x : Begun(x, clusters) => x.version <= clusters.version[x.name]
      BY <1>3 DEF Begun, TableInv
    <2> QED BY <1>5, <1>6, <2>1 DEF v
  <1>13. TableInv(helper', clusters')
    <2>1. ASSUME NEW m \in Names, NEW x \in ClusterType \cup {NoCluster},
                 Named(x, m, clusters)
          PROVE  Named(x, m, clusters')
      <3>1. x # NoCluster => x.version \in Nat BY DEF ClusterType
      <3> QED BY <1>10, <1>11, <2>1, <3>1 DEF Named
    <2>2. Named(c, n, clusters') BY <1>5, <1>6, <1>10, <1>11 DEF Named, v
    <2>3. ASSUME NEW m \in Names
          PROVE  /\ clusters.active[m] \in ClusterType \cup {NoCluster}
                 /\ clusters.warming[m] \in ClusterType \cup {NoCluster}
                 /\ helper.primary[m] \in ClusterType \cup {NoCluster}
                 /\ helper.secondary[m] \in ClusterType \cup {NoCluster}
      BY <1>3 DEF HelperType, ClustersType, Tables
    <2>4. ASSUME NEW m \in Names
          PROVE  /\ Named(clusters'.active[m], m, clusters')
                 /\ Named(clusters'.warming[m], m, clusters')
                 /\ Named(helper.primary[m], m, clusters')
                 /\ Named(helper.secondary[m], m, clusters')
                 /\ m \in Static =>
                      clusters'.active[m] # NoCluster /\ clusters'.warming[m] = NoCluster
                 /\ m \notin Static /\ clusters'.active[m] # NoCluster =>
                      clusters'.active[m] \in clusters'.initialized
      <3>1. /\ Named(clusters.active[m], m, clusters) /\ Named(clusters.warming[m], m, clusters)
            /\ Named(helper.primary[m], m, clusters) /\ Named(helper.secondary[m], m, clusters)
            /\ m \in Static =>
                 clusters.active[m] # NoCluster /\ clusters.warming[m] = NoCluster
            /\ m \notin Static /\ clusters.active[m] # NoCluster =>
                 clusters.active[m] \in clusters.initialized
        BY <1>3 DEF TableInv
      <3>2. /\ Named(clusters.active[m], m, clusters')
            /\ Named(clusters.warming[m], m, clusters')
            /\ Named(helper.primary[m], m, clusters')
            /\ Named(helper.secondary[m], m, clusters')
        BY <2>1, <2>3, <3>1
      <3>3. clusters'.warming[m] = IF m = n THEN c ELSE clusters.warming[m] BY <1>10, <1>11
      <3> QED BY <1>5, <1>11, <2>2, <3>1, <3>2, <3>3
    <2>5. ASSUME NEW x \in ClusterType, x.version <= clusters.version[x.name]
          PROVE  x.version <= clusters'.version[x.name]
      BY <1>10, <1>11, <2>5 DEF ClusterType
    <2>6. clusters.initialized \subseteq ClusterType BY <1>3 DEF ClustersType
    <2>7. \A g \in clusters.initializing : g.cluster # NoCluster => g.cluster \in ClusterType
      BY <1>3 DEF ClustersType, FrameType
    <2>8. /\ \A x \in clusters'.initialized : x.version <= clusters'.version[x.name]
          /\ \A g \in clusters'.initializing :
               /\ g.op \in {"helper::onClusterInit", "warmed"} /\ g.cluster # NoCluster
               /\ g.cluster \notin clusters'.initialized
               /\ g.cluster.version <= clusters'.version[g.cluster.name]
               /\ g.op = "warmed" =>
                    g.cluster.name \notin Static /\ helper.state = "AllClustersInitialized"
          /\ \A g, k \in clusters'.initializing : g.cluster = k.cluster => g = k
      BY <1>3, <1>11, <2>5, <2>6, <2>7 DEF TableInv
    <2>9. \A m \in Names : /\ PhaseOf(m) = "Primary" => helper.secondary[m] = NoCluster
                           /\ PhaseOf(m) = "Secondary" => helper.primary[m] = NoCluster
      BY <1>3 DEF TableInv
    <2> QED BY <1>1, <2>4, <2>8, <2>9 DEF TableInv
  <1>14. /\ StateInv(helper', clusters', server')
         /\ \A g \in FrameType : Stays(g, helper', clusters', server', stack')
    <2>1. top.op # "helper::removeCluster" BY <1>2
    <2>2. \A m \in Static : clusters'.active[m] = clusters.active[m] BY <1>11
    <2> QED BY <1>1, <1>2, <1>11, <2>1, <2>2, DynamicOnly
  <1>15. FitsState(f, helper', server')
    <2>1. helper.state \in {"WaitingToStartCdsInitialization", "CdsInitialized",
                            "AllClustersInitialized"}
      BY <1>2 DEF FitsState, CdsOps
    <2> QED BY <1>1, <1>8, <1>9, <2>1 DEF FitsState, CdsOps
  <1>16. Fits(f, helper', clusters', server', stack')
    BY <1>8, <1>9, <1>15 DEF Fits, FitsLoop, FitsErase
  <1>17. clusters'.warming[n] = c BY <1>5, <1>10, <1>11
  <1>18. Holds(f, helper', clusters')
    <2>1. ~Begun(c, clusters') BY <1>11, <1>12 DEF Begun
    <2> QED BY <1>5, <1>6, <1>8, <1>9, <1>17, <2>1 DEF Holds, Current
  <1>19. Fine(f)
    <2> SUFFICES ASSUME NEW g \in FrameType, Shape(g), MayRunAbove(top, g)
                 PROVE  MayRunAbove(f, g)
      BY DEF Fine
    <2>1. g.op = "addStatic" => n \notin g.names BY <1>5 DEF Shape
    <2> QED BY <1>2, <1>6, <1>8, <1>9, <2>1 DEF MayRunAbove, LoadOps, CdsOps
  <1>20. f.op # "helper::removeCluster" BY <1>8, <1>9
  <1>21. /\ StackInv(helper', clusters', server', stack') /\ stack' \in Seq(FrameType)
         /\ Kept(stack') /\ stack' # <<>> /\ stack'[1] = f
    BY <1>2, <1>7, <1>9, <1>14, <1>16, <1>18, <1>19, <1>20, CallStep
  <1>22. EntryInv(helper', clusters', stack')
    <2>1. CASE helper.state = "AllClustersInitialized"
      BY <1>1, <1>3, <2>1 DEF EntryInv, StateInv, Expected, Tracked
    <2>2. CASE helper.state # "AllClustersInitialized"
      <3>1. f.op = "helper::addCluster" BY <1>8, <1>9, <2>2
      <3>2. ASSUME NEW m \in Names, m # n
            PROVE  Current(m, clusters') = Current(m, clusters)
        BY <1>10, <1>11, <3>2 DEF Current
      <3>3. ASSUME NEW m \in Names, NEW e, Expected(e, m, clusters, stack)
            PROVE  Expected(e, m, clusters', stack')
        <4>1. CASE m = n BY <1>6, <1>9, <1>21, <3>1, <4>1 DEF Expected, Replaced
        <4>2. CASE m # n
          BY <1>2, <1>11, <3>2, <3>3, <4>2 DEF Expected, Leaving, Replaced
        <4> QED BY <4>1, <4>2
      <3>4. ASSUME NEW m \in Names PROVE Tracked(m, helper', clusters', stack')
        <4>1. CASE m = n BY <1>5, <1>9, <1>17, <1>21, <3>1, <4>1 DEF Tracked, Current
        <4>2. CASE m # n
          <5>1. /\ InProgress("addStatic", m, stack) => InProgress("addStatic", m, stack')
                /\ InProgress("eraseWarming", m, stack) => InProgress("eraseWarming", m, stack')
            BY <1>2, <1>21 DEF Kept
          <5> QED BY <1>1, <1>2, <1>3, <1>11, <3>2, <4>2, <5>1 DEF EntryInv, Tracked
        <4> QED BY <4>1, <4>2
      <3> QED BY <1>1, <1>3, <3>3, <3>4 DEF EntryInv
    <2> QED BY <2>1, <2>2
  <1>23. ClusterTypes' BY <1>1, <1>3, <1>11, <1>21 DEF ClusterTypes
  <1> QED BY <1>13, <1>14, <1>21, <1>22, <1>23 DEF ClusterInv

\* A cluster that has been removed is destroyed.
LEMMA EraseKeeps ==
  ASSUME ClusterInv, erase
  PROVE  ClusterInv'
  <1>1. /\ Runs("eraseActive") \/ Runs("eraseWarming")
        /\ Returns /\ UNCHANGED <<helper, server>>
    BY DEF erase
  <1>2. /\ stack # <<>> /\ top.op \in {"eraseActive", "eraseWarming"} /\ top = stack[1]
        /\ Shape(top) /\ top \in FrameType /\ FitsErase(top, helper, stack)
    BY <1>1, RunsTop
  <1>3. /\ helper \in HelperType /\ clusters \in ClustersType
        /\ TableInv(helper, clusters) /\ EntryInv(helper, clusters, stack)
    BY DEF ClusterInv, ClusterTypes
  <1>4. top.names \subseteq Names /\ top.names \cap Static = {}
    BY <1>2 DEF FrameType, Shape, CdsOps
  <1>5. PICK n \in top.names :
          \/ top.op = "eraseActive" /\ clusters' = [clusters EXCEPT !.active[n] = NoCluster]
          \/ top.op = "eraseWarming" /\ clusters' = [clusters EXCEPT !.warming[n] = NoCluster]
    BY DEF erase, Runs
  <1>6. n \in Names /\ n \notin Static BY <1>4
  <1>7. /\ clusters' \in ClustersType /\ clusters'.version = clusters.version
        /\ clusters'.initialized = clusters.initialized
        /\ clusters'.initializing = clusters.initializing
        /\ \A m \in Names :
             /\ clusters'.active[m] = IF m = n /\ top.op = "eraseActive" THEN NoCluster
                                      ELSE clusters.active[m]
             /\ clusters'.warming[m] = IF m = n /\ top.op = "eraseWarming" THEN NoCluster
                                       ELSE clusters.warming[m]
    <2>1. CASE top.op = "eraseActive" /\ clusters' = [clusters EXCEPT !.active[n] = NoCluster]
      <3> DEFINE a == [clusters.active EXCEPT ![n] = NoCluster]
      <3>1. clusters' = [clusters EXCEPT !.active = a] BY <1>3, <2>1 DEF ClustersType
      <3>2. /\ a \in Tables
            /\ \A m \in Names : a[m] = IF m = n THEN NoCluster ELSE clusters.active[m]
        BY <1>3, <1>6 DEF ClustersType, Tables
      <3> HIDE DEF a
      <3> QED BY <1>3, <2>1, <3>1, <3>2 DEF ClustersType
    <2>2. CASE top.op = "eraseWarming" /\ clusters' = [clusters EXCEPT !.warming[n] = NoCluster]
      <3> DEFINE w == [clusters.warming EXCEPT ![n] = NoCluster]
      <3>1. clusters' = [clusters EXCEPT !.warming = w] BY <1>3, <2>2 DEF ClustersType
      <3>2. /\ w \in Tables
            /\ \A m \in Names : w[m] = IF m = n THEN NoCluster ELSE clusters.warming[m]
        BY <1>3, <1>6 DEF ClustersType, Tables
      <3> HIDE DEF w
      <3> QED BY <1>3, <2>2, <3>1, <3>2 DEF ClustersType
    <2> QED BY <1>5, <2>1, <2>2
  <1>8. TableInv(helper', clusters')
    <2>1. ASSUME NEW m \in Names
          PROVE  /\ Named(clusters'.active[m], m, clusters')
                 /\ Named(clusters'.warming[m], m, clusters')
                 /\ Named(helper.primary[m], m, clusters')
                 /\ Named(helper.secondary[m], m, clusters')
                 /\ m \in Static =>
                      clusters'.active[m] # NoCluster /\ clusters'.warming[m] = NoCluster
                 /\ m \notin Static /\ clusters'.active[m] # NoCluster =>
                      clusters'.active[m] \in clusters'.initialized
      BY <1>3, <1>6, <1>7 DEF TableInv, Named
    <2> QED BY <1>1, <1>3, <1>7, <2>1 DEF TableInv
  <1>9. \A m \in Static : clusters'.active[m] = clusters.active[m]
    BY <1>6, <1>7 DEF Names
  <1>10. /\ StateInv(helper', clusters', server')
         /\ \A g \in FrameType : Stays(g, helper', clusters', server', stack')
    <2>1. top.op # "helper::removeCluster" BY <1>2
    <2> QED BY <1>1, <1>2, <1>7, <1>9, <2>1, DynamicOnly
  <1>11. /\ StackInv(helper', clusters', server', stack') /\ stack' \in Seq(FrameType)
         /\ Kept(stack')
    BY <1>1, <1>2, <1>10, ReturnStep
  <1>12. \A m \in Names : Current(m, clusters') = IF m = n /\ top.op = "eraseWarming"
                                                  THEN NoCluster ELSE Current(m, clusters)
    BY <1>6, <1>7 DEF Current
  <1>13. top.op = "eraseWarming" =>
           /\ helper.primary[n] = NoCluster /\ helper.secondary[n] = NoCluster
           /\ top.names = {n}
    BY <1>2 DEF FitsErase, Told, Shape
  <1>14. ASSUME NEW m \in Names, NEW e \in {helper.primary[m], helper.secondary[m]}
         PROVE  Expected(e, m, clusters', stack')
    <2>1. Expected(e, m, clusters, stack) BY <1>3 DEF EntryInv
    <2> QED BY <1>2, <1>7, <1>12, <1>13, <2>1 DEF Expected, Leaving, Replaced
  <1>15. ASSUME NEW m \in Names PROVE Tracked(m, helper', clusters', stack')
    <2>1. CASE m = n /\ top.op = "eraseWarming" BY <1>12, <2>1 DEF Tracked
    <2>2. CASE ~(m = n /\ top.op = "eraseWarming")
      <3>1. /\ InProgress("addStatic", m, stack) => InProgress("addStatic", m, stack')
            /\ InProgress("eraseWarming", m, stack) => InProgress("eraseWarming", m, stack')
        BY <1>2, <1>11, <1>13, <2>2 DEF Kept
      <3> QED BY <1>1, <1>2, <1>3, <1>7, <1>12, <2>2, <3>1 DEF EntryInv, Tracked
    <2> QED BY <2>1, <2>2
  <1>16. EntryInv(helper', clusters', stack') BY <1>1, <1>14, <1>15 DEF EntryInv
  <1>17. ClusterTypes' BY <1>1, <1>3, <1>7, <1>11 DEF ClusterTypes
  <1> QED BY <1>8, <1>10, <1>11, <1>16, <1>17 DEF ClusterInv

-----------------------------------------------------------------------------
(* Steps of the main loop.                                                 *)

\* An event calls a function.
LEMMA LoopCall ==
  ASSUME NEW f \in FrameType, stack' = <<f>>, Shape(f), f.op # "eraseWarming",
         f.op # "helper::removeCluster",
         FitsState(f, helper', server'), FitsLoop(f, helper', clusters'),
         Holds(f, helper', clusters')
  PROVE  /\ StackInv(helper', clusters', server', stack') /\ stack' \in Seq(FrameType)
         /\ stack' # <<>> /\ stack'[1] = f
  <1>1. /\ stack' \in Seq(FrameType) /\ Len(stack') = 1 /\ stack'[1] = f /\ stack' # <<>>
    OBVIOUS
  <1>2. \A k \in 1 .. Len(stack') : k = 1 BY <1>1
  <1>3. \A k \in 2 .. Len(stack') : FALSE BY <1>1
  <1>4. Fits(f, helper', clusters', server', stack') BY DEF Fits, FitsErase
  <1>5. \A j, k \in 1 .. Len(stack') : ~(j < k) BY <1>1
  <1>6. Accounted(f, clusters', stack') BY DEF Accounted
  <1> QED BY <1>1, <1>2, <1>3, <1>4, <1>5, <1>6 DEF StackInv

LEMMA LoopThree ==
  ASSUME NEW f \in FrameType, NEW e \in FrameType, NEW d \in FrameType, stack' = <<f, e, d>>,
         Shape(f), Shape(e), Shape(d), "eraseWarming" \notin {f.op, e.op, d.op},
         f.op # "helper::removeCluster", e.op \in WaitingOps, d.op \in WaitingOps,
         MayRunAbove(f, e), MayRunAbove(f, d), MayRunAbove(e, d),
         FitsState(f, helper', server'), FitsLoop(f, helper', clusters'),
         FitsState(e, helper', server'), FitsLoop(e, helper', clusters'),
         FitsState(d, helper', server'), FitsLoop(d, helper', clusters'),
         Holds(f, helper', clusters')
  PROVE  StackInv(helper', clusters', server', stack') /\ stack' \in Seq(FrameType)
  <1>1. /\ stack' \in Seq(FrameType) /\ Len(stack') = 3 /\ stack' # <<>>
        /\ stack'[1] = f /\ stack'[2] = e /\ stack'[3] = d
    OBVIOUS
  <1>2. \A k \in 1 .. Len(stack') : k \in {1, 2, 3} /\ stack'[k] \in {f, e, d} BY <1>1
  <1>3. \A k \in 2 .. Len(stack') : k \in {2, 3} /\ stack'[k].op \in WaitingOps BY <1>1
  <1>4. /\ Fits(f, helper', clusters', server', stack')
        /\ Fits(e, helper', clusters', server', stack')
        /\ Fits(d, helper', clusters', server', stack')
    BY DEF Fits, FitsErase
  <1>5. \A j, k \in 1 .. Len(stack') : j < k =>
          (j = 1 /\ k = 2) \/ (j = 1 /\ k = 3) \/ (j = 2 /\ k = 3)
    BY <1>1
  <1>6. Accounted(f, clusters', stack') BY DEF Accounted
  <1>7. \A k \in 1 .. Len(stack') :
          Shape(stack'[k]) /\ Fits(stack'[k], helper', clusters', server', stack')
    BY <1>2, <1>4
  <1>8. \A j, k \in 1 .. Len(stack') : j < k => MayRunAbove(stack'[j], stack'[k])
    BY <1>1, <1>5
  <1>9. Holds(stack'[1], helper', clusters') /\ Accounted(stack'[1], clusters', stack')
    BY <1>1, <1>6
  <1> QED BY <1>1, <1>3, <1>7, <1>8, <1>9 DEF StackInv

\* With the stack empty the entries say what they say without exceptions.
LEMMA LoopEntries ==
  ASSUME ClusterInv, stack = <<>>, UNCHANGED <<helper, clusters>>
  PROVE  EntryInv(helper', clusters', stack')
  <1>1. EntryInv(helper, clusters, stack) BY DEF ClusterInv
  <1>2. \A op, n : ~InProgress(op, n, stack) BY DEF InProgress
  <1> QED BY <1>1, <1>2 DEF EntryInv, Expected, Leaving, Replaced, Tracked

LEMMA RtdsReadyKeeps ==
  ASSUME ClusterInv, server \in ServerRecord, rtdsReady
  PROVE  ClusterInv'
  <1> DEFINE f == Call("onRuntimeReady")
  <1>1. /\ stack = <<>> /\ UNCHANGED <<helper, clusters>> /\ stack' = <<f>>
        /\ server.rtds = "started" /\ server' = [server EXCEPT !.rtds = "ready"]
    BY DEF rtdsReady, MainLoop
  <1>2. f \in FrameType /\ f.op = "onRuntimeReady" /\ f.cluster = NoCluster /\ Shape(f)
    BY CallFrame DEF Ops, ClusterOps
  <1> HIDE DEF f
  <1>3. /\ server'.rtds = "ready" /\ server'.primaryCb = server.primaryCb
        /\ server'.cds = server.cds
    BY <1>1 DEF ServerRecord
  <1>4. StateInv(helper', clusters', server') BY <1>1, <1>3 DEF ClusterInv, StateInv
  <1>5. FitsState(f, helper', server') BY <1>2, <1>3 DEF FitsState, CdsOps
  <1>6. FitsLoop(f, helper', clusters') /\ Holds(f, helper', clusters')
    BY <1>2 DEF FitsLoop, Holds
  <1>7. StackInv(helper', clusters', server', stack') /\ stack' \in Seq(FrameType)
    BY <1>1, <1>2, <1>5, <1>6, LoopCall
  <1>8. EntryInv(helper', clusters', stack') BY <1>1, LoopEntries
  <1>9. ClusterTypes' /\ TableInv(helper', clusters')
    BY <1>1, <1>7 DEF ClusterInv, ClusterTypes
  <1> QED BY <1>4, <1>7, <1>8, <1>9 DEF ClusterInv

LEMMA CdsResponseKeeps ==
  ASSUME ClusterInv, server \in ServerRecord, cdsResponse
  PROVE  ClusterInv'
  <1>1. /\ stack = <<>> /\ UNCHANGED <<helper, clusters>>
        /\ server.cds \in {"started", "answered"} /\ Untouched
    BY DEF cdsResponse, MainLoop, Answer, Untouched, ServerRecord
  <1>2. PICK u \in Updates : stack' = u BY DEF cdsResponse
  <1>3. PICK f \in FrameType, e \in FrameType, d \in FrameType :
             /\ u = <<f, e, d>> /\ Shape(f) /\ Shape(e) /\ Shape(d)
             /\ f.op = "addOrUpdateClusters" /\ f.cluster = NoCluster
             /\ e.op = "removeClusters" /\ d.op = "cdsInitializedCb"
    BY UpdateFrames
  <1>4. StateInv(helper, clusters, server) BY DEF ClusterInv
  <1>5. helper'.state \in {"WaitingToStartCdsInitialization", "CdsInitialized",
                           "AllClustersInitialized"}
    BY <1>1, <1>4 DEF StateInv
  <1>6. /\ FitsState(f, helper', server') /\ FitsState(e, helper', server')
        /\ FitsState(d, helper', server')
    BY <1>3, <1>5 DEF FitsState, CdsOps
  <1>7. /\ FitsLoop(f, helper', clusters') /\ FitsLoop(e, helper', clusters')
        /\ FitsLoop(d, helper', clusters') /\ Holds(f, helper', clusters')
    BY <1>3 DEF FitsLoop, Holds
  <1>8. MayRunAbove(f, e) /\ MayRunAbove(f, d) /\ MayRunAbove(e, d)
    BY <1>3 DEF MayRunAbove
  <1>9. /\ e.op \in WaitingOps /\ d.op \in WaitingOps
        /\ "eraseWarming" \notin {f.op, e.op, d.op} /\ f.op # "helper::removeCluster"
    BY <1>3 DEF WaitingOps, CdsOps
  <1>10. stack' = <<f, e, d>> BY <1>2, <1>3
  <1>11. StackInv(helper', clusters', server', stack') /\ stack' \in Seq(FrameType)
    BY <1>3, <1>6, <1>7, <1>8, <1>9, <1>10, LoopThree
  <1>12. EntryInv(helper', clusters', stack') BY <1>1, LoopEntries
  <1> QED BY <1>1, <1>11, <1>12, UntouchedStack

LEMMA FetchTimeoutKeeps ==
  ASSUME ClusterInv, cdsFetchTimeout
  PROVE  ClusterInv'
  <1> DEFINE f == Call("cdsInitializedCb")
  <1>1. /\ stack = <<>> /\ UNCHANGED <<helper, clusters>> /\ stack' = <<f>>
        /\ server.cds = "started" /\ Untouched
    BY DEF cdsFetchTimeout, MainLoop, Untouched
  <1>2. f \in FrameType /\ f.op = "cdsInitializedCb" /\ f.cluster = NoCluster /\ Shape(f)
    BY CallFrame DEF Ops, ClusterOps, CdsOps
  <1> HIDE DEF f
  <1>3. helper'.state = "WaitingToStartCdsInitialization"
    BY <1>1 DEF ClusterInv, StateInv
  <1>4. FitsState(f, helper', server') BY <1>2, <1>3 DEF FitsState, CdsOps
  <1>5. FitsLoop(f, helper', clusters') /\ Holds(f, helper', clusters')
    BY <1>2 DEF FitsLoop, Holds
  <1>6. StackInv(helper', clusters', server', stack') /\ stack' \in Seq(FrameType)
    BY <1>1, <1>2, <1>4, <1>5, LoopCall
  <1>7. EntryInv(helper', clusters', stack') BY <1>1, LoopEntries
  <1> QED BY <1>1, <1>6, <1>7, UntouchedStack

\* A cluster finishes and calls back: it is the one its name stands for.
LEMMA FinishKeeps ==
  ASSUME ClusterInv, NEW name \in Names, finishInitialization(name)
  PROVE  ClusterInv'
  <1>1. PICK f \in clusters.initializing :
          /\ f.cluster \in Alive /\ stack' = <<f>>
          /\ clusters' = [clusters EXCEPT !.initializing = @ \ {f},
                                          !.initialized = @ \cup {f.cluster}]
    BY DEF finishInitialization
  <1>2. stack = <<>> /\ UNCHANGED <<helper, server>>
    BY DEF finishInitialization, MainLoop
  <1>3. /\ helper \in HelperType /\ clusters \in ClustersType
        /\ StateInv(helper, clusters, server)
        /\ TableInv(helper, clusters) /\ EntryInv(helper, clusters, stack)
    BY DEF ClusterInv, ClusterTypes
  <1> DEFINE c == f.cluster  n == c.name
  <1>4. /\ f \in FrameType /\ c \in ClusterType /\ n \in Names /\ c # NoCluster
        /\ f.op \in {"helper::onClusterInit", "warmed"}
        /\ c \notin clusters.initialized /\ c.version <= clusters.version[n]
        /\ f.op = "warmed" => n \notin Static /\ helper.state = "AllClustersInitialized"
    <2>1. f \in FrameType BY <1>3 DEF ClustersType
    <2>2. /\ c # NoCluster /\ f.op \in {"helper::onClusterInit", "warmed"}
          /\ c \notin clusters.initialized /\ c.version <= clusters.version[n]
          /\ f.op = "warmed" => n \notin Static /\ helper.state = "AllClustersInitialized"
      BY <1>3 DEF TableInv
    <2>3. c \in ClusterType BY <2>1, <2>2 DEF FrameType
    <2> QED BY <2>1, <2>2, <2>3 DEF ClusterType
  <1>5. Shape(f) BY <1>4 DEF Shape, ClusterOps, CdsOps
  <1>6. /\ clusters' \in ClustersType
        /\ clusters'.active = clusters.active /\ clusters'.warming = clusters.warming
        /\ clusters'.version = clusters.version
        /\ clusters'.initialized = clusters.initialized \cup {c}
        /\ clusters'.initializing = clusters.initializing \ {f}
    <2> HIDE DEF c
    <2>1. clusters' = [clusters EXCEPT !.initializing = @ \ {f}, !.initialized = @ \cup {c}]
      BY <1>1 DEF c
    <2> QED BY <1>3, <1>4, <2>1 DEF ClustersType
  <1>7. c = Current(n, clusters) /\ c.phase = PhaseOf(n)
        /\ c \in {clusters.active[n], clusters.warming[n]}
    <2>1. PICK m \in Names : c \in {clusters.active[m], clusters.warming[m]}
      BY <1>1 DEF Alive
    <2>2. m = n BY <1>4, <2>1, TableFacts
    <2> QED BY <1>4, <2>1, <2>2, TableFacts DEF Current
  <1>8. Begun(c, clusters) BY DEF Begun
  <1> HIDE DEF c, n
  <1>9. \A x : Begun(x, clusters') => Begun(x, clusters) BY <1>6, <1>8 DEF Begun
  <1>10. TableInv(helper', clusters')
    <2>1. \A m \in Names :
            /\ Named(clusters'.active[m], m, clusters')
            /\ Named(clusters'.warming[m], m, clusters')
            /\ Named(helper'.primary[m], m, clusters')
            /\ Named(helper'.secondary[m], m, clusters')
            /\ PhaseOf(m) = "Primary" => helper'.secondary[m] = NoCluster
            /\ PhaseOf(m) = "Secondary" => helper'.primary[m] = NoCluster
            /\ m \in Static =>
                 clusters'.active[m] # NoCluster /\ clusters'.warming[m] = NoCluster
            /\ m \notin Static /\ clusters'.active[m] # NoCluster =>
                 clusters'.active[m] \in clusters'.initialized
      BY <1>2, <1>3, <1>6 DEF TableInv, Named
    <2>2. \A x \in clusters'.initialized : x.version <= clusters'.version[x.name]
      BY <1>3, <1>4, <1>6 DEF TableInv, n
    <2>3. \A g \in clusters'.initializing : g \in clusters.initializing /\ g.cluster # c
      BY <1>3, <1>6 DEF TableInv, c
    <2>4. \A g \in clusters'.initializing :
            /\ g.op \in {"helper::onClusterInit", "warmed"} /\ g.cluster # NoCluster
            /\ g.cluster \notin clusters'.initialized
            /\ g.cluster.version <= clusters'.version[g.cluster.name]
            /\ g.op = "warmed" =>
                 g.cluster.name \notin Static /\ helper'.state = "AllClustersInitialized"
      BY <1>2, <1>3, <1>6, <2>3 DEF TableInv
    <2>5. \A g, k \in clusters'.initializing : g.cluster = k.cluster => g = k
      BY <1>3, <2>3 DEF TableInv
    <2> QED BY <2>1, <2>2, <2>4, <2>5 DEF TableInv
  <1>11. StateInv(helper', clusters', server') BY <1>2, <1>3, <1>9 DEF StateInv
  <1>12. ~InProgress("addStatic", n, stack) /\ ~InProgress("eraseWarming", n, stack)
    BY <1>2 DEF InProgress
  <1>13. helper.state # "AllClustersInitialized" => c \in {helper.primary[n], helper.secondary[n]}
    BY <1>2, <1>3, <1>4, <1>7, <1>12 DEF EntryInv, Tracked
  <1>14. helper.state = "WaitingToStartSecondaryInitialization" => server.rtds = "ready"
    <2>1. ASSUME helper.state = "WaitingToStartSecondaryInitialization",
                 server.rtds # "ready"
          PROVE  FALSE
      <3>1. c.phase = "Primary" BY <1>3, <1>4, <1>8, <2>1 DEF StateInv
      <3>2. helper.primary[n] = NoCluster BY <1>3, <1>4, <2>1 DEF StateInv
      <3>3. c = helper.secondary[n] BY <1>4, <1>13, <2>1, <3>2
      <3> QED BY <1>4, <3>1, <3>3, TableFacts
    <2> QED BY <2>1
  <1>15. FitsState(f, helper', server') BY <1>2, <1>4, <1>14 DEF FitsState, CdsOps
  <1>16. FitsLoop(f, helper', clusters') BY <1>4 DEF FitsLoop
  <1>17. Holds(f, helper', clusters') BY <1>4, <1>6, <1>7 DEF Holds, Current, c, n
  <1>18. /\ StackInv(helper', clusters', server', stack') /\ stack' \in Seq(FrameType)
         /\ stack' # <<>> /\ stack'[1] = f
    BY <1>1, <1>4, <1>5, <1>15, <1>16, <1>17, LoopCall
  <1>19. \A m : Current(m, clusters') = Current(m, clusters) BY <1>6 DEF Current
  <1>20. ASSUME NEW m \in Names, NEW e \in {helper.primary[m], helper.secondary[m]}
         PROVE  Expected(e, m, clusters', stack')
    <2> SUFFICES ASSUME e # NoCluster
                 PROVE  (e = Current(m, clusters') /\ e \notin clusters'.initialized)
                          \/ Leaving(e, stack')
      BY DEF Expected
    <2>1. e = Current(m, clusters) /\ e \notin clusters.initialized BY <1>2, EntryFacts
    <2>2. CASE e = c
      <3>1. helper.state # "AllClustersInitialized" BY <1>3 DEF StateInv
      <3>2. f.op = "helper::onClusterInit" BY <1>4, <3>1
      <3> QED BY <1>18, <2>2, <3>2 DEF Leaving, c
    <2>3. CASE e # c BY <1>6, <1>19, <2>1, <2>3
    <2> QED BY <2>2, <2>3
  <1>21. ASSUME NEW m \in Names PROVE Tracked(m, helper', clusters', stack')
    <2>1. ~InProgress("addStatic", m, stack) /\ ~InProgress("eraseWarming", m, stack)
      BY <1>2 DEF InProgress
    <2>2. clusters.initialized \subseteq clusters'.initialized BY <1>6
    <2> QED BY <1>2, <1>3, <1>19, <2>1, <2>2 DEF EntryInv, Tracked
  <1>22. EntryInv(helper', clusters', stack') BY <1>2, <1>20, <1>21 DEF EntryInv
  <1>23. ClusterTypes' BY <1>2, <1>3, <1>6, <1>18 DEF ClusterTypes
  <1> QED BY <1>10, <1>11, <1>18, <1>22, <1>23 DEF ClusterInv

-----------------------------------------------------------------------------
(* The clusters, while the server runs.                                    *)

\* The static clusters have been loaded, the helper has been told of none.
LEMMA ClustersAtStart ==
  ASSUME Init
  PROVE  ClusterInv
  <1> DEFINE none == [n \in Names |-> NoCluster]
             loaded == [n \in Names |-> IF n \in Static THEN Cluster(n, 0, PhaseOf(n))
                                        ELSE NoCluster]
             zero == [n \in Names |-> 0]
  <1>1. /\ helper = [state |-> "Loading", started |-> FALSE, primary |-> none,
                     secondary |-> none]
        /\ clusters = [active |-> loaded, warming |-> none, version |-> zero,
                       initializing |-> {}, initialized |-> {}]
        /\ stack = <<Over("addStatic", Static), Call("onStaticLoadComplete"),
                     Call("setPrimaryClustersInitializedCb"), Call("setInitializedCb")>>
    BY DEF Init
  <1>2. /\ server.primaryCb = FALSE /\ server.rtds = "idle" /\ server.cds \in {"none", "idle"}
    BY DEF Init
  <1>3. ASSUME NEW n \in Names
        PROVE  /\ Cluster(n, 0, PhaseOf(n)) \in ClusterType
               /\ Cluster(n, 0, PhaseOf(n)).name = n
               /\ Cluster(n, 0, PhaseOf(n)).phase = PhaseOf(n)
               /\ Cluster(n, 0, PhaseOf(n)).version = 0
               /\ Cluster(n, 0, PhaseOf(n)) # NoCluster
    <2>1. /\ Cluster(n, 0, PhaseOf(n)) \in ClusterType
          /\ Cluster(n, 0, PhaseOf(n)).name = n
          /\ Cluster(n, 0, PhaseOf(n)).phase = PhaseOf(n)
          /\ Cluster(n, 0, PhaseOf(n)).version = 0
      BY DEF Cluster, ClusterType, PhaseOf
    <2> QED BY <2>1, IsCluster
  <1>4. none \in Tables /\ loaded \in Tables /\ zero \in [Names -> Nat]
    BY <1>3 DEF Tables
  <1>5. \A n \in Names : /\ none[n] = NoCluster /\ zero[n] = 0
                         /\ n \in Static => /\ loaded[n] # NoCluster /\ loaded[n].name = n
                                            /\ loaded[n].phase = PhaseOf(n)
                                            /\ loaded[n].version = 0
                         /\ n \notin Static => loaded[n] = NoCluster
    BY <1>3
  <1> HIDE DEF none, loaded, zero
  <1>6. helper \in HelperType /\ clusters \in ClustersType
    BY <1>1, <1>4 DEF HelperType, ClustersType, States
  <1>7. TableInv(helper, clusters) BY <1>1, <1>5 DEF TableInv, Named
  <1>8. \A x : ~Begun(x, clusters) BY <1>1 DEF Begun
  <1>9. StateInv(helper, clusters, server) BY <1>1, <1>2, <1>8 DEF StateInv
  <1> DEFINE a == Over("addStatic", Static)  b == Call("onStaticLoadComplete")
             p == Call("setPrimaryClustersInitializedCb")  q == Call("setInitializedCb")
  <1>10. a \in FrameType /\ a.op = "addStatic" /\ a.names = Static /\ Shape(a)
           /\ a.cluster = NoCluster
    BY OverFrame DEF Ops, ClusterOps, CdsOps, StartOps, Names
  <1>11. b \in FrameType /\ b.op = "onStaticLoadComplete" /\ Shape(b)
    BY CallFrame DEF Ops, ClusterOps, CdsOps, StartOps
  <1>12. p \in FrameType /\ p.op = "setPrimaryClustersInitializedCb" /\ Shape(p)
    BY CallFrame DEF Ops, ClusterOps, CdsOps, StartOps
  <1>13. q \in FrameType /\ q.op = "setInitializedCb" /\ Shape(q)
    BY CallFrame DEF Ops, ClusterOps, CdsOps, StartOps
  <1>14. stack = <<a, b, p, q>> BY <1>1
  <1> HIDE DEF a, b, p, q
  <1>15. /\ stack \in Seq(FrameType) /\ Len(stack) = 4 /\ stack # <<>>
         /\ stack[1] = a /\ stack[2] = b /\ stack[3] = p /\ stack[4] = q
    BY <1>10, <1>11, <1>12, <1>13, <1>14
  <1>16. ASSUME NEW f \in {a, b, p, q}
         PROVE  Shape(f) /\ Fits(f, helper, clusters, server, stack)
    <2>1. f.op \in StartOps /\ Shape(f) BY <1>10, <1>11, <1>12, <1>13 DEF StartOps
    <2>3. FitsState(f, helper, server) BY <1>1, <1>2, <2>1 DEF FitsState, StartOps, CdsOps
    <2>4. FitsLoop(f, helper, clusters) BY <1>8, <2>1 DEF FitsLoop, StartOps
    <2> QED BY <2>1, <2>3, <2>4 DEF Fits, FitsErase, StartOps
  <1>17. \A k \in 1 .. Len(stack) : k \in {1, 2, 3, 4} /\ stack[k] \in {a, b, p, q}
    BY <1>15
  <1>18. \A k \in 2 .. Len(stack) : stack[k].op \in WaitingOps
    BY <1>11, <1>12, <1>13, <1>15 DEF WaitingOps, StartOps
  <1>19. ASSUME NEW j \in 1 .. Len(stack), NEW k \in 1 .. Len(stack), j < k
         PROVE  MayRunAbove(stack[j], stack[k])
    <2>1. \/ stack[j] = a /\ stack[k] \in {b, p, q}
          \/ stack[j] = b /\ stack[k] \in {p, q}
          \/ stack[j] = p /\ stack[k] = q
      BY <1>15, <1>19
    <2> QED BY <1>10, <1>11, <1>12, <1>13, <2>1 DEF MayRunAbove, LoadOps, CdsOps
  <1>20. Holds(a, helper, clusters) /\ Accounted(a, clusters, stack)
    BY <1>10 DEF Holds, Accounted
  <1>21. StackInv(helper, clusters, server, stack)
    <2>1. \A k \in 1 .. Len(stack) :
            Shape(stack[k]) /\ Fits(stack[k], helper, clusters, server, stack)
      BY <1>16, <1>17
    <2> QED BY <1>15, <1>18, <1>19, <1>20, <2>1 DEF StackInv
  <1>22. EntryInv(helper, clusters, stack)
    <2>1. ASSUME NEW n \in Names PROVE Tracked(n, helper, clusters, stack)
      <3>1. CASE n \in Static
        <4>1. 1 \in 1 .. Len(stack) /\ stack[1].op = "addStatic" /\ n \in stack[1].names
          BY <1>10, <1>15, <3>1
        <4> QED BY <4>1 DEF Tracked, InProgress
      <3>2. CASE n \notin Static BY <1>1, <1>5, <3>2 DEF Tracked, Current
      <3> QED BY <3>1, <3>2
    <2>2. \A n \in Names : helper.primary[n] = NoCluster /\ helper.secondary[n] = NoCluster
      BY <1>1, <1>5
    <2> QED BY <2>1, <2>2 DEF EntryInv, Expected
  <1> QED BY <1>6, <1>7, <1>9, <1>15, <1>21, <1>22 DEF ClusterInv, ClusterTypes

\* Every step keeps the invariant, as long as no update changes the phase that
\* a cluster initializes in.
LEMMA ClusterStep ==
  ASSUME ~PhaseMayChange, ClusterInv, ServerInv, [Next]_vars
  PROVE  ClusterInv'
  <1>1. server \in ServerRecord BY DEF ServerInv
  <1>2. CASE UNCHANGED vars
    <2>1. Untouched /\ UNCHANGED stack BY <1>2 DEF vars, Untouched
    <2> QED BY <2>1, NothingKeeps
  <1>3. CASE Step
    <2>1. CASE \/ EachOf("addOrUpdateClusters", "addOrUpdateCluster")
               \/ EachOf("removeClusters", "removeCluster")
      BY <2>1, EachOfKeeps
    <2>2. CASE \/ clusterInitialize \/ addStatic \/ addCluster \/ helperOnClusterInit
               \/ helperRemoveCluster \/ maybeFinishInitialize \/ initializeSecondaryClusters
               \/ onStaticLoadComplete
      BY <1>1, <2>2, ClusterInitializeKeeps, AddStaticKeeps, AddClusterKeeps,
         OnClusterInitKeeps, HelperRemoveKeeps, MaybeFinishKeeps, SecondaryLoopKeeps,
         StaticLoadKeeps
    <2>3. CASE \/ setPrimaryClustersInitializedCb \/ setInitializedCb
               \/ startRtdsSubscriptions \/ onRuntimeReady \/ initializedCallback
               \/ cdsStart \/ cdsInitializedCb
      BY <1>1, <2>3, SetPrimaryKeeps, SetInitializedKeeps, RtdsKeeps, RuntimeReadyKeeps,
         CallbackKeeps, CdsStartKeeps, CdsCallbackKeeps
    <2>4. CASE \/ addOrUpdateCluster \/ loadCluster \/ warmed
               \/ removeCluster \/ removeWarming \/ erase
      BY <2>4, AddOrUpdateKeeps, LoadKeeps, WarmedKeeps, RemoveKeeps, RemoveWarmingKeeps,
         EraseKeeps
    <2> QED BY <1>3, <2>1, <2>2, <2>3, <2>4 DEF Step
  <1>4. CASE managerStep
    <2>1. Untouched /\ UNCHANGED stack BY <1>1, <1>4, WorkersOnly DEF managerStep, Untouched
    <2> QED BY <2>1, NothingKeeps
  <1>5. CASE rtdsReady \/ cdsResponse \/ cdsFetchTimeout
    BY <1>1, <1>5, RtdsReadyKeeps, CdsResponseKeeps, FetchTimeoutKeeps
  <1>6. CASE shutdown
    <2>1. Untouched /\ UNCHANGED stack BY <1>1, <1>6 DEF shutdown, Untouched, ServerRecord
    <2> QED BY <2>1, NothingKeeps
  <1>7. ASSUME NEW n \in Names, finishInitialization(n) PROVE ClusterInv'
    BY <1>7, FinishKeeps
  <1>8. ASSUME NEW t \in Targets, registerTarget(t) \/ addListener(t) PROVE ClusterInv'
    <2>1. Untouched /\ UNCHANGED stack BY <1>8 DEF registerTarget, addListener, Untouched
    <2> QED BY <2>1, NothingKeeps
  <1> QED BY <1>2, <1>3, <1>4, <1>5, <1>6, <1>7, <1>8 DEF Next

\* The helper's tables, the maps of the cluster manager and the functions in
\* progress stay consistent, for any clusters and any updates.
THEOREM ClusterInvariant ==
  ASSUME ~PhaseMayChange
  PROVE  Spec => []ClusterInv
  <1>1. Init => ClusterInv BY ClustersAtStart
  <1>2. ClusterInv /\ ServerInv /\ [Next]_vars => ClusterInv' BY ClusterStep
  <1> QED BY <1>1, <1>2, ServerInvariant, PTL DEF Spec

-----------------------------------------------------------------------------
(* What follows from it.                                                   *)

\* The functions of targets in progress are those of targets.
RunningInv == running \in Seq(Targets) /\ dead \subseteq Targets

LEMMA RunningStep ==
  ASSUME ManagerInv, RunningInv, [Next]_vars
  PROVE  RunningInv'
  <1>1. CASE UNCHANGED managerVars BY <1>1 DEF managerVars, RunningInv
  <1>2. CASE initialize BY <1>2 DEF initialize, RunningInv
  <1>3. CASE initializeNext
    <2>1. dead' = dead BY <1>3 DEF initializeNext
    <2>2. CASE UNCHANGED running BY <2>1, <2>2 DEF RunningInv
    <2>3. CASE running' # running
      <3> DEFINE t == manager.handles[manager.next]
      <3>1. /\ running' = <<t>> /\ manager.next # 0
            /\ ~(manager.next > Len(manager.handles))
        BY <1>3, <2>3 DEF initializeNext
      <3>2. t \in Targets BY <3>1 DEF ManagerInv, ManagerRecord
      <3> QED BY <2>1, <3>1, <3>2 DEF RunningInv
    <2> QED BY <2>2, <2>3
  <1>4. CASE fnReturns BY <1>4 DEF fnReturns, RunningInv
  <1>5. ASSUME NEW t \in Targets, targetReady(t) \/ destroyTarget(t) PROVE RunningInv'
    BY <1>5 DEF targetReady, destroyTarget, RunningInv
  <1>6. ASSUME NEW t \in Targets, add(t) PROVE RunningInv'
    <2>1. running' \in {running, <<t>> \o running} /\ dead' = dead BY <1>6 DEF add
    <2> QED BY <2>1, SMTT(30) DEF RunningInv
  <1> QED BY <1>1, <1>2, <1>3, <1>4, <1>5, <1>6, WhoTouchesTheManager DEF ManagerStep

\* A cluster that exists, by its name; and one that is not initialized is the
\* one its name is waiting for.
LEMMA AliveFacts ==
  ASSUME ClusterInv, NEW c \in Alive
  PROVE  /\ c \in ClusterType /\ c.name \in Names /\ c # NoCluster
         /\ c \notin clusters.initialized => c = Current(c.name, clusters)
  <1>1. PICK n \in Names : c \in {clusters.active[n], clusters.warming[n]} /\ c # NoCluster
    BY DEF Alive
  <1> QED BY <1>1, TableFacts DEF Current

\* In the main loop the helper waits for clusters that exist and have not
\* finished.
LEMMA WaitsForLiving ==
  ASSUME ClusterInv, stack = <<>>, NEW e \in InitEntries \ {NoCluster}
  PROVE  e \in Alive \ clusters.initialized
  <1>1. PICK n \in Names : e \in {helper.primary[n], helper.secondary[n]}
    BY DEF InitEntries
  <1>2. e = Current(n, clusters) /\ e \notin clusters.initialized
    BY <1>1, EntryFacts
  <1> QED BY <1>1, <1>2 DEF Alive, Current

\* All pointers and iterators are good: the functions in progress and the
\* helper's tables hold clusters that exist, and the loop over the secondary
\* clusters visits entries that have not been erased.
THEOREM ReferencesStayValid ==
  ASSUME ~PhaseMayChange
  PROVE  Spec => []ReferencesValid
  <1>1. Init => RunningInv BY DEF Init, ManagerInit, RunningInv
  <1>2. ManagerInv /\ RunningInv /\ [Next]_vars => RunningInv' BY RunningStep
  <1>3. ClusterInv /\ ManagerInv /\ RunningInv /\ ServerInv => ReferencesValid
    <2> SUFFICES ASSUME ClusterInv, ManagerInv, RunningInv, ServerInv PROVE ReferencesValid
      OBVIOUS
    <2>1. /\ helper \in HelperType /\ stack \in Seq(FrameType)
          /\ StackInv(helper, clusters, server, stack)
      BY DEF ClusterInv, ClusterTypes
    <2>2. ManagerTypeOK BY DEF ManagerTypeOK, ManagerInv, ManagerRecord, RunningInv
    <2>3. TypeOK
      <3>1. ASSUME NEW n \in Names,
                   NEW c \in {helper.primary[n], helper.secondary[n],
                              clusters.active[n], clusters.warming[n]} \ {NoCluster}
            PROVE  c.name = n /\ c.phase \in {"Primary", "Secondary"}
        <4>1. c \in ClusterType /\ c.name = n BY TableFacts
        <4> QED BY <4>1 DEF ClusterType
      <3> QED BY <2>1, <2>2, <3>1 DEF TypeOK, HelperType, States, ServerInv, ServerRecord
    <2>4. IteratorValid
      <3>1. ASSUME NEW i \in DOMAIN stack, stack[i].op = "initializeSecondary"
            PROVE  stack[i].names \subseteq Waiting(helper.secondary)
        <4>1. i \in 1 .. Len(stack) /\ stack[i] \in FrameType BY <2>1
        <4>2. FitsLoop(stack[i], helper, clusters) BY <2>1, <4>1 DEF StackInv, Fits
        <4> QED BY <3>1, <4>1, <4>2 DEF FitsLoop, FrameType, Waiting
      <3> QED BY <3>1 DEF IteratorValid
    <2>5. FramesAlive
      <3>1. ASSUME NEW i \in DOMAIN stack, stack[i].cluster # NoCluster
            PROVE  stack[i].cluster \in Alive
        <4>1. i \in 1 .. Len(stack) /\ stack[i] \in FrameType /\ stack # <<>> BY <2>1
        <4>2. stack[i].op \in ClusterOps BY <2>1, <3>1, <4>1 DEF StackInv, Shape
        <4>3. i = 1
          <5>1. i \notin 2 .. Len(stack)
            BY <2>1, <4>2 DEF StackInv, WaitingOps, ClusterOps, CdsOps, StartOps
          <5>2. Len(stack) \in Nat BY <2>1
          <5> QED BY <4>1, <5>1, <5>2
        <4>4. top = stack[1] BY <4>1, TopFacts
        <4> DEFINE c == stack[i].cluster
        <4>5. /\ c.name \in Names /\ c # NoCluster
              /\ c \in {clusters.active[c.name], clusters.warming[c.name]}
          BY <4>1, <4>2, <4>3, <4>4, InHand
        <4> HIDE DEF c
        <4>6. c \in Alive BY <4>5 DEF Alive
        <4> QED BY <4>6 DEF c
      <3> QED BY <3>1 DEF FramesAlive
    <2> QED BY <2>3, <2>4, <2>5 DEF ReferencesValid
  <1> QED BY <1>1, <1>2, <1>3, ClusterInvariant, ManagerInvariant, ServerInvariant, PTL DEF Spec

\* In the main loop the helper waits for exactly the clusters that are not
\* initialized, and what the active map holds has been initialized: no update
\* or removal lets the start finish early or hang on a cluster that is gone.
THEOREM InitializationIsTracked ==
  ASSUME ~PhaseMayChange
  PROVE  Spec => []InitializationTracked
  <1>1. ClusterInv => InitializationTracked
    <2> SUFFICES ASSUME ClusterInv PROVE InitializationTracked OBVIOUS
    <2>1. ActiveIsInitialized
      <3>1. ASSUME NEW n \in Dynamic PROVE n \in Names /\ n \notin Static
        BY InitAssumption DEF Names
      <3> QED BY <3>1, TableFacts DEF ActiveIsInitialized
    <2>2. ASSUME MainLoop, helper.state # "AllClustersInitialized"
          PROVE  InitEntries \ {NoCluster} = Alive \ clusters.initialized
      <3>1. stack = <<>> BY <2>2 DEF MainLoop
      <3>2. ASSUME NEW e \in InitEntries \ {NoCluster} PROVE e \in Alive \ clusters.initialized
        BY <3>1, WaitsForLiving
      <3>3. ASSUME NEW c \in Alive \ clusters.initialized PROVE c \in InitEntries \ {NoCluster}
        <4>1. c.name \in Names /\ c # NoCluster /\ c = Current(c.name, clusters)
          BY AliveFacts
        <4>2. Tracked(c.name, helper, clusters, stack) BY <4>1 DEF ClusterInv, EntryInv
        <4>3. \A op : ~InProgress(op, c.name, stack) BY <3>1 DEF InProgress
        <4>4. c \in {helper.primary[c.name], helper.secondary[c.name]}
          BY <2>2, <3>1, <4>1, <4>2, <4>3 DEF Tracked
        <4> QED BY <4>1, <4>4 DEF InitEntries
      <3> QED BY <3>2, <3>3
    <2> QED BY <2>1, <2>2 DEF InitializationTracked, WaitsForUninitialized
  <1> QED BY <1>1, ClusterInvariant, PTL

\* A cluster that an update replaces is removed from the helper before it is
\* destroyed, as the comment in addCluster says, as long as the update does not
\* change the phase: the run serverinit_phase shows what happens when it does.
THEOREM ReplacedClustersAreForgotten ==
  ASSUME ~PhaseMayChange
  PROVE  Spec => []InitEntriesAlive
  <1>1. ClusterInv => InitEntriesAlive
    BY WaitsForLiving DEF InitEntriesAlive, MainLoop
  <1> QED BY <1>1, ClusterInvariant, PTL

-----------------------------------------------------------------------------
(* The order of the start.                                                 *)

\* The helper's state changes in three functions.
LEMMA WhoChangesTheState ==
  ASSUME helper \in HelperType, [Next]_vars
  PROVE  \/ helper'.state = helper.state
         \/ maybeFinishInitialize \/ onStaticLoadComplete \/ cdsInitializedCb
  <1>1. CASE UNCHANGED helper BY <1>1
  <1>2. CASE helperRemoveCluster \/ addCluster
    <2>1. \/ UNCHANGED helper
          \/ \E m : helper' \in {[helper EXCEPT !.primary = m], [helper EXCEPT !.secondary = m]}
      BY <1>2 DEF helperRemoveCluster, addCluster
    <2> QED BY <2>1 DEF HelperType
  <1>3. CASE \/ clusterInitialize \/ addStatic \/ helperOnClusterInit
             \/ initializeSecondaryClusters \/ setPrimaryClustersInitializedCb
             \/ setInitializedCb \/ startRtdsSubscriptions \/ onRuntimeReady
             \/ initializedCallback \/ cdsStart
             \/ EachOf("addOrUpdateClusters", "addOrUpdateCluster")
             \/ EachOf("removeClusters", "removeCluster")
             \/ addOrUpdateCluster \/ loadCluster \/ warmed
             \/ removeCluster \/ removeWarming \/ erase
    BY <1>1, <1>3
    DEF clusterInitialize, addStatic, helperOnClusterInit, initializeSecondaryClusters,
        setPrimaryClustersInitializedCb, setInitializedCb, startRtdsSubscriptions,
        onRuntimeReady, initializedCallback, cdsStart, EachOf, addOrUpdateCluster,
        loadCluster, warmed, removeCluster, removeWarming, erase
  <1>4. CASE managerStep \/ rtdsReady \/ cdsResponse \/ cdsFetchTimeout \/ shutdown
    BY <1>1, <1>4 DEF managerStep, rtdsReady, cdsResponse, cdsFetchTimeout, shutdown
  <1>5. ASSUME NEW n \in Names, finishInitialization(n) PROVE UNCHANGED helper
    BY <1>5 DEF finishInitialization
  <1>6. ASSUME NEW t \in Targets, registerTarget(t) \/ addListener(t) PROVE UNCHANGED helper
    BY <1>6 DEF registerTarget, addListener
  <1>7. CASE UNCHANGED vars BY <1>7 DEF vars
  <1> QED BY <1>1, <1>2, <1>3, <1>4, <1>5, <1>6, <1>7 DEF Next, Step

\* The last state is final, and only maybeFinishInitialize goes there, with
\* nothing to wait for.
LEMMA WhoFinishes ==
  ASSUME ClusterInv, [Next]_vars
  PROVE  /\ helper.state = "AllClustersInitialized" =>
              helper'.state = "AllClustersInitialized"
         /\ helper'.state # helper.state /\ helper'.state = "AllClustersInitialized" =>
              maybeFinishInitialize /\ ~MustWait /\ Waiting(helper.secondary) = {}
  <1> USE DEF ClusterInv, ClusterTypes, HelperType
  <1>1. CASE helper'.state = helper.state BY <1>1
  <1>2. CASE maybeFinishInitialize
    <2>1. CASE MustWait BY <1>2, <2>1 DEF maybeFinishInitialize
    <2>2. CASE ~MustWait /\ helper.state = "WaitingForPrimaryInitializationToComplete"
      BY <1>2, <2>2 DEF maybeFinishInitialize
    <2>3. CASE ~MustWait /\ helper.state # "WaitingForPrimaryInitializationToComplete"
      <3>1. CASE Waiting(helper.secondary) # {}
        BY <1>2, <2>3, <3>1 DEF maybeFinishInitialize
      <3>2. CASE Waiting(helper.secondary) = {}
        BY <1>2, <2>3, <3>2 DEF maybeFinishInitialize
      <3> QED BY <3>1, <3>2
    <2> QED BY <2>1, <2>2, <2>3
  <1>3. CASE onStaticLoadComplete
    <2>1. FitsState(top, helper, server) /\ top.op = "onStaticLoadComplete"
      BY <1>3, RunsTop DEF onStaticLoadComplete
    <2> QED BY <1>3, <2>1 DEF onStaticLoadComplete, FitsState
  <1>4. CASE cdsInitializedCb
    <2>1. server.cds = "started" => helper.state = "WaitingToStartCdsInitialization"
      BY DEF StateInv
    <2> QED BY <1>4, <2>1 DEF cdsInitializedCb
  <1> QED BY <1>1, <1>2, <1>3, <1>4, WhoChangesTheState

\* Before initialize() no target can report.
LEMMA NotStartedYet ==
  ASSUME ManagerInv, ManagerLast, manager.state = "Uninitialized", ManagerStep
  PROVE  UNCHANGED <<manager, target>>
  <1>1. manager.next = 0 BY DEF ManagerInv, HandlesWait
  <1>2. \A t \in Targets : target[t] # "initializing" BY DEF ManagerLast
  <1> QED
    BY <1>1, <1>2
    DEF ManagerStep, initializeNext, fnReturns, targetReady, destroyTarget,
        ReportsWhenDestroyed

\* The init manager starts after the clusters.
LEMMA ManagerLastStep ==
  ASSUME ClusterInv, ManagerInv, ManagerLast, [Next]_vars
  PROVE  ManagerLast'
  <1>1. helper.state = "AllClustersInitialized" => helper'.state = "AllClustersInitialized"
    BY WhoFinishes
  <1>2. CASE UNCHANGED managerVars BY <1>1, <1>2 DEF managerVars, ManagerLast
  <1>3. CASE initializedCallback /\ initialize
    <2>1. FitsState(top, helper, server) /\ top.op = "initializedCallback"
      BY <1>3, RunsTop DEF initializedCallback
    <2>2. manager'.state # "Uninitialized"
      BY <1>3 DEF initialize, ready, ManagerInv, ManagerRecord
    <2> QED BY <1>1, <2>1, <2>2 DEF FitsState, ManagerLast
  <1>4. CASE manager.state # "Uninitialized"
    <2>1. helper'.state = "AllClustersInitialized" BY <1>1, <1>4 DEF ManagerLast
    <2>3. ~initialize BY <1>4 DEF initialize
    <2>4. manager'.state # "Uninitialized"
      <3>1. CASE UNCHANGED managerVars BY <1>4, <3>1 DEF managerVars
      <3>2. CASE ManagerStep
        <4>1. \E m \in ManagerRecord : /\ m.state = manager.state
                                       /\ manager' \in {m, onTargetReady(m)}
          <5>1. manager \in ManagerRecord BY DEF ManagerInv
          <5>2. \A k \in Nat : /\ [manager EXCEPT !.next = k] \in ManagerRecord
                               /\ [manager EXCEPT !.next = k].state = manager.state
            BY <5>1 DEF ManagerRecord
          <5>3. manager.next + 1 \in Nat BY <5>1 DEF ManagerRecord
          <5>4. CASE initializeNext
            <6>1. manager' \in {[manager EXCEPT !.next = 0],
                                [manager EXCEPT !.next = manager.next + 1],
                                onTargetReady([manager EXCEPT !.next = manager.next + 1])}
              BY <5>4 DEF initializeNext, Unavailable
            <6> QED BY <5>2, <5>3, <6>1
          <5>5. CASE ~initializeNext
            <6>1. manager' \in {manager, onTargetReady(manager)}
              BY <3>2, <5>5 DEF ManagerStep, fnReturns, targetReady, destroyTarget
            <6> QED BY <5>1, <6>1
          <5> QED BY <5>4, <5>5
        <4> QED BY <1>4, <4>1 DEF onTargetReady, ready, ManagerRecord
      <3>3. ASSUME NEW t \in Targets, add(t) PROVE manager'.state # "Uninitialized"
        <4>1. manager' = Counted(manager) BY <1>4, <3>3 DEF add
        <4> QED BY <1>4, <4>1 DEF Counted, ManagerInv, ManagerRecord
      <3> QED BY <2>3, <3>1, <3>2, <3>3, WhoTouchesTheManager
    <2> QED BY <2>1, <2>4 DEF ManagerLast
  <1>5. CASE manager.state = "Uninitialized" /\ ManagerStep
    <2>1. UNCHANGED <<manager, target>> BY <1>5, NotStartedYet
    <2> QED BY <1>5, <2>1 DEF ManagerLast
  <1>6. ASSUME manager.state = "Uninitialized", NEW t \in Targets, add(t) PROVE ManagerLast'
    <2>1. /\ manager' = [Counted(manager) EXCEPT !.handles = Append(@, t)]
          /\ target' = [target EXCEPT ![t] = "added"]
      BY <1>6 DEF add
    <2>2. manager'.state = "Uninitialized"
      BY <1>6, <2>1 DEF Counted, ManagerInv, ManagerRecord
    <2>3. target \in [Targets -> {"new", "added", "initializing", "done"}] BY DEF ManagerInv
    <2> QED BY <1>6, <2>1, <2>2, <2>3 DEF ManagerLast
  <1> QED BY <1>2, <1>3, <1>4, <1>5, <1>6, WhoTouchesTheManager

\* When the helper declares all clusters initialized, only those that are being
\* removed are not.
LEMMA FinishStep ==
  ASSUME ClusterInv, [Next]_vars
  PROVE  AllInitializedAtFinish
  <1> SUFFICES ASSUME helper'.state # helper.state,
                      helper'.state = "AllClustersInitialized",
                      NEW c \in Alive \ clusters.initialized
               PROVE  \E i \in DOMAIN stack : stack[i] = Over("eraseWarming", {c.name})
    BY DEF AllInitializedAtFinish
  <1>1. maybeFinishInitialize /\ ~MustWait /\ Waiting(helper.secondary) = {}
        /\ helper.state # "AllClustersInitialized"
    BY WhoFinishes
  <1>2. top.op = "maybeFinishInitialize" /\ top = stack[1] /\ stack # <<>>
    BY <1>1, RunsTop DEF maybeFinishInitialize
  <1>3. /\ stack \in Seq(FrameType) /\ StackInv(helper, clusters, server, stack)
        /\ EntryInv(helper, clusters, stack)
    BY <1>2, TopFacts
  <1>4. c.name \in Names /\ c # NoCluster /\ c = Current(c.name, clusters)
    BY AliveFacts
  <1>5. helper.primary[c.name] = NoCluster /\ helper.secondary[c.name] = NoCluster
    BY <1>1, <1>4 DEF MustWait, Waiting
  <1>6. ~InProgress("addStatic", c.name, stack)
    <2>1. ASSUME NEW k \in 1 .. Len(stack), stack[k].op = "addStatic" PROVE FALSE
      BY <1>1, <1>3, <2>1 DEF MustWait, StackInv, Fits, FitsState
    <2> QED BY <2>1 DEF InProgress
  <1>7. InProgress("eraseWarming", c.name, stack)
    <2>1. Tracked(c.name, helper, clusters, stack) BY <1>3, <1>4 DEF EntryInv
    <2> QED BY <1>1, <1>2, <1>4, <1>5, <1>6, <2>1 DEF Tracked
  <1>8. PICK k \in 1 .. Len(stack) : stack[k].op = "eraseWarming" /\ c.name \in stack[k].names
    BY <1>7 DEF InProgress
  <1> DEFINE f == stack[k]
  <1>9. f \in FrameType /\ Shape(f) /\ k \in DOMAIN stack BY <1>3, <1>8 DEF StackInv
  <1> HIDE DEF f
  <1>10. /\ f.op = "eraseWarming" /\ f.names = {c.name} /\ f.cluster = NoCluster
    BY <1>8, <1>9 DEF Shape, ClusterOps, f
  <1>11. f = Over("eraseWarming", {c.name}) BY <1>9, <1>10 DEF FrameType, Over, Frame
  <1> QED BY <1>9, <1>11 DEF f

\* The workers start once, when the clusters and the targets are done.
LEMMA WorkersStep ==
  ASSUME ClusterInv, ManagerInv, ManagerInv', ServerInv, ManagerLast, [Next]_vars
  PROVE  WorkersStartLast
  <1> SUFFICES ASSUME server'.workers # server.workers
               PROVE  /\ server.workers = 0 /\ ~server.shutdown
                      /\ helper.state = "AllClustersInitialized" /\ manager'.count = 0
    BY DEF WorkersStartLast
  <1>1. initializedCallback \/ managerStep BY OthersKeep
  <1>2. StartWorkersIfReported /\ (initialize \/ ManagerStep)
    BY <1>1 DEF initializedCallback, managerStep
  <1>3. manager'.notified # manager.notified /\ ~server.shutdown
    BY <1>2 DEF StartWorkersIfReported
  <1>4. manager'.state = "Initialized" /\ manager.state # "Initialized"
    BY <1>2, <1>3, ReportsOnce DEF ManagerInv, NotifiedOnceAllReady
  <1>5. server.workers = 0 BY <1>4 DEF ServerInv, ServerRecord
  <1>6. manager'.count = 0
    <2>1. {t \in Targets : target'[t] \in {"added", "initializing"}} = {}
      BY <1>4 DEF ManagerInv, NotifiedOnceAllReady
    <2> QED BY <2>1, FS_EmptySet DEF ManagerInv, TargetCountExact
  <1>7. helper.state = "AllClustersInitialized"
    <2>1. CASE initializedCallback
      <3>1. FitsState(top, helper, server) /\ top.op = "initializedCallback"
        BY <2>1, RunsTop DEF initializedCallback
      <3> QED BY <3>1 DEF FitsState
    <2>2. CASE managerStep
      <3>1. manager.state # "Uninitialized"
        <4>1. ASSUME manager.state = "Uninitialized" PROVE UNCHANGED manager
          BY <2>2, <4>1, NotStartedYet DEF managerStep
        <4> QED BY <1>3, <4>1
      <3> QED BY <3>1 DEF ManagerLast
    <2> QED BY <1>1, <2>1, <2>2
  <1> QED BY <1>3, <1>5, <1>6, <1>7

\* The phases of the start follow each other, whatever completes inside what:
\* no secondary cluster is initialized before the runtime is, all clusters are
\* when the helper says so, and the workers start once and last.
THEOREM StartIsOrdered ==
  ASSUME ~PhaseMayChange
  PROVE  Spec => StartupOrder
  <1>1. Init => ManagerLast BY DEF Init, ManagerInit, ManagerLast
  <1>2. ClusterInv /\ ManagerInv /\ ManagerLast /\ [Next]_vars => ManagerLast'
    BY ManagerLastStep
  <1>3. ClusterInv => SecondaryAfterRuntime
    <2> SUFFICES ASSUME ClusterInv, server.rtds # "ready",
                        NEW c \in clusters.initialized
                                    \cup {f.cluster : f \in clusters.initializing}
                 PROVE  c.phase = "Primary"
      BY DEF SecondaryAfterRuntime
    <2>1. clusters \in ClustersType /\ TableInv(helper, clusters) BY DEF ClusterInv, ClusterTypes
    <2>2. Begun(c, clusters) BY DEF Begun
    <2>3. c \in ClusterType
      BY <2>1 DEF ClustersType, FrameType, TableInv
    <2> QED BY <2>2, <2>3 DEF ClusterInv, StateInv
  <1>4. /\ ClusterInv /\ ClusterInv' /\ ManagerInv /\ ManagerInv' /\ ServerInv /\ ManagerLast
        /\ [Next]_vars
        => SecondaryAfterRuntime' /\ AllInitializedAtFinish /\ WorkersStartLast
    <2> SUFFICES ASSUME ClusterInv, ClusterInv', ManagerInv, ManagerInv', ServerInv,
                        ManagerLast, [Next]_vars
                 PROVE  SecondaryAfterRuntime' /\ AllInitializedAtFinish /\ WorkersStartLast
      OBVIOUS
    <2>1. AllInitializedAtFinish /\ WorkersStartLast BY FinishStep, WorkersStep
    <2>2. (ClusterInv => SecondaryAfterRuntime)' BY <1>3, PTL
    <2> QED BY <2>1, <2>2
  <1> QED BY <1>1, <1>2, <1>4, ClusterInvariant, ManagerInvariant, ServerInvariant, PTL
      DEF Spec, StartupOrder
=============================================================================
