--------------------------- MODULE ConnectionLimit ---------------------------
(***************************************************************************)
(* The connection limit network filter                                     *)
(* (envoy/source/extensions/filters/network/connection_limit): the filters *)
(* of the connections of one filter chain share the atomic counter         *)
(* Config::connections_.  Each connection may be on a worker thread of its *)
(* own, so between two accesses to the counter any other connection may    *)
(* access it.                                                              *)
(***************************************************************************)
EXTENDS Integers, FiniteSets

CONSTANTS
    Conns,              \* the connections accepted by the listener
    MaxConnections,     \* max_connections
    WordSize,           \* number of values of connections_, 2^64 in the code
    HasDelay            \* delay is set: rejected connections stay for a while

ASSUME ConnectionLimitAssumption ==
    /\ IsFiniteSet(Conns)
    /\ MaxConnections \in Nat \ {0}
    /\ WordSize \in Nat
    /\ Cardinality(Conns) < WordSize
    /\ HasDelay \in BOOLEAN

VARIABLES
    connections,    \* Config::connections_
    active,         \* the gauge active_connections
    enabled,        \* Config::enabled_
    pc,             \* where the filter of a connection is
    seen            \* conns, the value a filter has loaded

vars == <<connections, active, enabled, pc, seen>>

\* accepted: the filter has registered its connection callbacks;
\* load, cas, reject: inside onNewConnection; passed: let through while the
\* filter was disabled; delayed: the delay timer runs; closing: in onEvent;
\* stray and gone: closing and closed without ever having been counted.
Phases ==
    {"accepted", "load", "cas", "reject", "passed", "admitted", "delayed",
     "closing", "closed", "stray", "gone"}

Init ==
    /\ connections = 0
    /\ active = 0
    /\ enabled = TRUE
    /\ pc = [c \in Conns |-> "accepted"]
    /\ seen = [c \in Conns |-> 0]

Goto(c, phase) == pc' = [pc EXCEPT ![c] = phase]

\* Unsigned arithmetic wraps.
Increment(n) == IF n = WordSize - 1 THEN 0 ELSE n + 1
Decrement(n) == IF n = 0 THEN WordSize - 1 ELSE n - 1

-------------------------------------------------------------------------------

\* The runtime layer changes the feature flag.
SetRuntime ==
    /\ enabled' = ~enabled
    /\ UNCHANGED <<connections, active, pc, seen>>

\* onNewConnection up to the call of incrementConnectionWithinLimit.
OnNewConnection(c) ==
    /\ pc[c] = "accepted"
    /\ IF enabled
       THEN Goto(c, "load") /\ active' = Increment(active)
       ELSE Goto(c, "passed") /\ UNCHANGED active
    /\ UNCHANGED <<connections, enabled, seen>>

\* Mutant of Within: the limit is off by one.
WithinOrAt(n) == n <= MaxConnections

\* The condition of the loop in incrementConnectionWithinLimit.
Within(n) == n < MaxConnections

LoopAt(c, n) ==
    /\ seen' = [seen EXCEPT ![c] = n]
    /\ Goto(c, IF Within(n) THEN "cas" ELSE "reject")

Load(c) ==
    /\ pc[c] = "load"
    /\ LoopAt(c, connections)
    /\ UNCHANGED <<connections, active, enabled>>

\* Mutant of CompareExchange: a plain store.
Store(c) ==
    /\ pc[c] = "cas"
    /\ connections' = Increment(seen[c])
    /\ Goto(c, "admitted")
    /\ UNCHANGED <<active, enabled, seen>>

\* compare_exchange_weak: it may fail though the value is the expected one.
CompareExchange(c) ==
    /\ pc[c] = "cas"
    /\ \/ /\ connections = seen[c]
          /\ connections' = Increment(connections)
          /\ Goto(c, "admitted")
          /\ UNCHANGED seen
       \/ /\ LoopAt(c, connections)
          /\ UNCHANGED connections
    /\ UNCHANGED <<active, enabled>>

\* A connection over the limit is counted, too, as its close event will
\* decrement the counter; it is closed now or when the delay is over.
Reject(c) ==
    /\ pc[c] = "reject"
    /\ connections' = Increment(connections)
    /\ Goto(c, IF HasDelay THEN "delayed" ELSE "closing")
    /\ UNCHANGED <<active, enabled, seen>>

\* Mutant of DelayTimer: the timer is reset and the connection left alone.
DelayTimerOnlyResets(c) ==
    /\ pc[c] = "delayed"
    /\ Goto(c, "admitted")
    /\ UNCHANGED <<connections, active, enabled, seen>>

\* The delay timer's callback calls close(NoFlush), which raises LocalClose.
DelayTimer(c) ==
    /\ pc[c] = "delayed"
    /\ Goto(c, "closing")
    /\ UNCHANGED <<connections, active, enabled, seen>>

\* The peer, a filter or the listener closes the connection, perhaps a filter
\* before this one that has not let the connection come to this one yet; a
\* delay timer is reset by onEvent.
ConnectionCloses(c) ==
    /\ \/ pc[c] \in {"admitted", "delayed"} /\ Goto(c, "closing")
       \/ pc[c] \in {"accepted", "passed"} /\ Goto(c, "stray")
    /\ UNCHANGED <<connections, active, enabled, seen>>

\* onEvent of a close event, whatever onNewConnection did.  For a connection
\* that was not counted, decrementConnection's ASSERT(connections_ > 0) may
\* fail; it is not in a release build, where the counter and the gauge wrap.
OnEvent(c) ==
    /\ \/ pc[c] = "closing" /\ Goto(c, "closed")
       \/ pc[c] = "stray" /\ Goto(c, "gone")
    /\ connections' = Decrement(connections)
    /\ active' = Decrement(active)
    /\ UNCHANGED <<enabled, seen>>

Step(c) ==
    \/ OnNewConnection(c) \/ Load(c) \/ CompareExchange(c) \/ Reject(c)
    \/ DelayTimer(c) \/ ConnectionCloses(c) \/ OnEvent(c)

Next == SetRuntime \/ \E c \in Conns : Step(c)

Spec == Init /\ [][Next]_vars

\* Handlers run, timers fire, and a compare_exchange_weak that goes on being
\* able to succeed does in the end.  Nobody has to close a connection.
Fairness ==
    \A c \in Conns :
        /\ WF_vars(OnNewConnection(c)) /\ WF_vars(Load(c)) /\ WF_vars(Reject(c))
        /\ WF_vars(DelayTimer(c)) /\ WF_vars(OnEvent(c))
        /\ WF_vars(connections = seen[c] /\ CompareExchange(c) /\ pc'[c] = "admitted")
        /\ WF_vars(CompareExchange(c))

FairSpec == Spec /\ Fairness

-------------------------------------------------------------------------------
(* Properties.                                                             *)

TypeOK ==
    /\ connections \in 0 .. (WordSize - 1)
    /\ active \in 0 .. (WordSize - 1)
    /\ enabled \in BOOLEAN
    /\ pc \in [Conns -> Phases]
    /\ seen \in [Conns -> 0 .. (WordSize - 1)]

\* Connections counted in connections_, and in the gauge.
Counted == {c \in Conns : pc[c] \in {"admitted", "delayed", "closing"}}
Known == Counted \cup {c \in Conns : pc[c] \in {"load", "cas", "reject"}}

\* Connections that were subtracted though they had not been added.
Missed == {c \in Conns : pc[c] = "gone"}

Admitted == {c \in Conns : pc[c] = "admitted"}

\* No increment and no decrement of connections_ or of the gauge is lost or
\* made twice, in any interleaving of the CAS loops of onNewConnection with
\* rejections and close events, as long as every connection that closed had
\* been counted: ASSERT(connections_ > 0) holds for all of these closes.
CountExact ==
    Missed = {} =>
        /\ connections = Cardinality(Counted)
        /\ active = Cardinality(Known)

\* However many workers race for the last place, no more than max_connections_
\* connections are admitted, as long as every connection that closed had been
\* counted.
LimitHolds == Missed = {} => Cardinality(Admitted) <= MaxConnections

\* connection_limit_filter.rst: "if the number of active connections reaches
\* the max connections limit, the connection will be closed": there are never
\* more admitted connections than max_connections.
LimitAsDocumented == Cardinality(Admitted) <= MaxConnections

\* No filter is stuck in onNewConnection, and a connection that is rejected is
\* closed in the end though the peer does nothing.
DecisionsEnd ==
    \A c \in Conns :
        /\ pc[c] \in {"load", "cas"} ~> pc[c] \in {"reject", "admitted"}
        /\ pc[c] \in {"reject", "delayed"} ~> pc[c] = "closed"

===============================================================================
