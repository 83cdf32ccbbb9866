----------------------------- MODULE InitManager -----------------------------
(***************************************************************************)
(* Init::ManagerImpl with its targets (TargetImpl) and the one watcher     *)
(* that is told when all of them are ready; in this repository the         *)
(* server's init manager, whose targets are subscriptions (LDS) and        *)
(* listeners.                                                              *)
(*                                                                         *)
(* All calls are made on the main thread.  A target's initialize function  *)
(* runs inside the manager's loop, or inside add(), and may itself report  *)
(* ready, add targets and destroy others before it returns: `running' is   *)
(* the stack of those functions and `next' the position of the loop.       *)
(***************************************************************************)
EXTENDS Naturals, Sequences, FiniteSets, SequencesExt

CONSTANTS Targets,     \* the targets that may be registered
          Listeners    \* those that report ready when they are destroyed

ASSUME TargetsAssumption == IsFiniteSet(Targets) /\ Listeners \subseteq Targets

VARIABLES manager,   \* [state, count, handles, next, notified]
          running,   \* targets whose initialize function is on the stack
          target,    \* the life of every target
          dead       \* targets that have been destroyed

managerVars == <<manager, running, target, dead>>

ManagerInit ==
    /\ manager = [state |-> "Uninitialized", count |-> 0, handles |-> <<>>,
                  next |-> 0, notified |-> 0]
    /\ running = <<>>
    /\ target = [t \in Targets |-> "new"]
    /\ dead = {}

\* No function of the manager is on the stack.
ManagerReturned == running = <<>> /\ manager.next = 0

-----------------------------------------------------------------------------
\* The watcher handle is told that everything is ready.
ready(m) == [m EXCEPT !.state = "Initialized", !.notified = @ + 1]

\* Mutant of onTargetReady: one target too early.
onTargetReadyTooEarly(m) ==
    LET n == [m EXCEPT !.count = @ - 1]
    IN IF n.count <= 1 THEN ready(n) ELSE n

onTargetReady(m) ==
    LET n == [m EXCEPT !.count = @ - 1]
    IN IF n.count = 0 THEN ready(n) ELSE n

\* Mutant of Counted: a target that is initialized at once is not counted.
CountedIfSaved(m) ==
    IF m.state = "Uninitialized" THEN [m EXCEPT !.count = @ + 1] ELSE m

Counted(m) == [m EXCEPT !.count = @ + 1]

\* A target is added: before initialize() its handle is kept, during it the
\* target is initialized at once.
add(t) ==
    /\ target[t] = "new" /\ manager.state # "Initialized"
    /\ \/ /\ manager.state = "Uninitialized"
          /\ manager' = [Counted(manager) EXCEPT !.handles = Append(@, t)]
          /\ target' = [target EXCEPT ![t] = "added"]
          /\ UNCHANGED running
       \/ /\ manager.state = "Initializing"
          /\ manager' = Counted(manager)
          /\ target' = [target EXCEPT ![t] = "initializing"]
          /\ running' = <<t>> \o running
    /\ UNCHANGED dead

initialize ==
    /\ manager.state = "Uninitialized"
    /\ manager' = IF manager.count = 0 THEN ready(manager)
                  ELSE [manager EXCEPT !.state = "Initializing", !.next = 1]
    /\ UNCHANGED <<running, target, dead>>

\* A target that is gone counts as ready.
Unavailable(m) == onTargetReady(m)

\* One iteration of the loop in initialize(), up to the target's function.
initializeNext ==
    /\ manager.next # 0 /\ running = <<>> /\ UNCHANGED dead
    /\ IF manager.next > Len(manager.handles)
       THEN manager' = [manager EXCEPT !.next = 0] /\ UNCHANGED <<running, target>>
       ELSE LET t == manager.handles[manager.next]
                m == [manager EXCEPT !.next = @ + 1]
            IN IF t \in dead
               THEN /\ manager' = Unavailable(m)
                    /\ target' = [target EXCEPT ![t] = "done"]
                    /\ UNCHANGED running
               ELSE /\ manager' = m
                    /\ target' = [target EXCEPT ![t] = "initializing"]
                    /\ running' = <<t>>

fnReturns ==
    /\ running # <<>> /\ running' = Tail(running)
    /\ UNCHANGED <<manager, target, dead>>

\* TargetImpl::ready, called in the main loop or inside a target's function, its
\* own or another's: only the first call finds a watcher handle.
targetReady(t) ==
    /\ target[t] = "initializing" /\ t \notin dead
    /\ ManagerReturned \/ running # <<>>
    /\ manager' = onTargetReady(manager)
    /\ target' = [target EXCEPT ![t] = "done"]
    /\ UNCHANGED <<running, dead>>

\* Mutant of ReportsWhenDestroyed: a listener just goes away.
NeverReports(t) == FALSE

\* ~ListenerImpl calls ready() on its target, which does something only if the
\* target was initialized and is not ready yet.
ReportsWhenDestroyed(t) == t \in Listeners /\ target[t] = "initializing"

\* The owner of a target goes away, in the main loop or inside the function
\* of another target (an LDS update that removes a listener).
destroyTarget(t) ==
    /\ target[t] \in {"added", "initializing"} /\ t \notin dead
    /\ running = <<>> => manager.next = 0
    /\ t \notin ToSet(running)
    /\ dead' = dead \cup {t}
    /\ IF ReportsWhenDestroyed(t)
       THEN /\ manager' = onTargetReady(manager)
            /\ target' = [target EXCEPT ![t] = "done"]
       ELSE UNCHANGED <<manager, target>>
    /\ UNCHANGED running

\* Everything but add() and initialize(), which others call.
ManagerStep ==
    \/ initializeNext \/ fnReturns
    \/ \E t \in Targets : targetReady(t) \/ destroyTarget(t)

-----------------------------------------------------------------------------
\* Targets other than listeners that will never report: they were destroyed
\* after their function was called.
Orphans == {t \in dead \ Listeners : target[t] = "initializing"}

ManagerTypeOK ==
    /\ manager.state \in {"Uninitialized", "Initializing", "Initialized"}
    /\ manager.count \in Nat /\ manager.notified \in Nat
    /\ manager.handles \in Seq(Targets) /\ manager.next \in Nat
    /\ running \in Seq(Targets) /\ dead \subseteq Targets
    /\ target \in [Targets -> {"new", "added", "initializing", "done"}]

\* count_ is the number of registered targets that are not ready, whichever
\* way they came and went: added before or during initialize(), ready inside
\* their own function or later, destroyed before or after they were called.
TargetCountExact ==
    manager.count = Cardinality({t \in Targets : target[t] \in {"added", "initializing"}})

\* The watcher is told once, and only when no registered target is left: also
\* when the last target becomes ready inside the loop of initialize().
NotifiedOnceAllReady ==
    /\ manager.notified = IF manager.state = "Initialized" THEN 1 ELSE 0
    /\ manager.state = "Initialized"
         => \A t \in Targets : target[t] \in {"new", "done"}

=============================================================================
