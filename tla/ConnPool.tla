------------------------------ MODULE ConnPool ------------------------------
(***************************************************************************)
(* The upstream connection pool of one host: ConnPoolImplBase with the     *)
(* multiplexed (HTTP/2) clients of http/conn_pool_base.cc, the codec       *)
(* client that resets a dead connection's streams, and the idle callback   *)
(* through which the cluster manager deletes the pool.                     *)
(*                                                                         *)
(* Everything runs on one dispatcher thread.  A handler is one step unless *)
(* it calls user code that may call the pool again: the stream resets and  *)
(* the onPoolFailure calls made while a connection goes down.  `closing'   *)
(* is that handler's frame; between two of its steps only the user's       *)
(* operations are taken, and only inside a callback.  Users are assumed    *)
(* not to call the pool from onPoolReady or from an overflow failure.  The *)
(* preconnect ratio is its default, 1.                                     *)
(***************************************************************************)
EXTENDS Integers, FiniteSets, Sequences, SequencesExt, FiniteSetsExt

CONSTANTS Clients,          \* slots for ActiveClient objects
          Streams,          \* the requests users submit
          NoOne,            \* no client, no stream
          LifetimeLimit,    \* max_requests_per_connection
          ConcurrentLimit,  \* max_concurrent_streams of the cluster
          SettingsLimits,   \* the values peers send in SETTINGS
          MaxLowered,       \* bound: how often peers lower their limit, but not to 0
          MaxConnections, MaxPendingRequests, MaxRequests  \* circuit breakers

ASSUME PoolAssumption ==
    /\ LifetimeLimit \in Nat \ {0} /\ ConcurrentLimit \in Nat \ {0}
    /\ SettingsLimits \subseteq Nat
    /\ IsFiniteSet(Streams) /\ IsFiniteSet(Clients)
    /\ MaxConnections \in 1..Cardinality(Clients)
    /\ MaxLowered \in Nat /\ MaxPendingRequests \in Nat /\ MaxRequests \in Nat
    /\ NoOne \notin Clients \cup Streams

VARIABLES pool,     \* the pool, its clients and the counters it keeps
          closing,  \* the frame of a connection that is going down
          lowered   \* history: how often a peer has lowered its limit, but not to 0

vars == <<pool, closing, lowered>>

-----------------------------------------------------------------------------
(* ActiveClient: one upstream connection.  `active' are its requests.      *)

NoClient == [state |-> "NONE", remaining |-> 0, limit |-> 0, negative |-> 0,
             active |-> {}]

NewClient == [state |-> "CONNECTING", remaining |-> LifetimeLimit,
              limit |-> ConcurrentLimit, negative |-> 0, active |-> {}]

Smaller(a, b) == IF a < b THEN a ELSE b

effectiveConcurrentStreamLimit(k) == Smaller(k.remaining, k.limit)

numActiveStreams(k) == Cardinality(k.active)

\* Negative once SETTINGS lowers the limit below the requests in flight.
currentUnusedCapacity(k) == Smaller(k.remaining, k.limit - numActiveStreams(k))

(* The pool.  Lists are sequences with the newest entry first; busy_clients_ *)
(* is the set of clients in state BUSY or DRAINING.                        *)

\* clusterCapacity and clusterPending are ClusterConnectivityState's and `full' is
\* the circuit breaker that other pools have filled, all shared by the pools of
\* the cluster.  `lost' records the streams destroyed without an answer.
EmptyPool == [client |-> [c \in Clients |-> NoClient],
              ready |-> <<>>, connecting |-> <<>>,
              pending |-> <<>>, purge |-> <<>>,
              connectingCapacity |-> 0, numActive |-> 0, draining |-> FALSE,
              deleted |-> TRUE, clusterCapacity |-> 0, clusterPending |-> 0,
              full |-> "none", lost |-> {}]

Init == /\ pool = EmptyPool
        /\ closing = [client |-> NoOne, phase |-> "none", stream |-> NoOne]
        /\ lowered = 0

\* What a set of clients can serve.
ConnectingCapacity(p, S) ==
    SumFunctionOnSet([c \in Clients |-> effectiveConcurrentStreamLimit(p.client[c])], S)
UnusedCapacity(p, S) ==
    SumFunctionOnSet([c \in Clients |-> currentUnusedCapacity(p.client[c])], S)

Live(p) == {c \in Clients : p.client[c].state # "NONE"}
InState(p, st) == {c \in Clients : p.client[c].state = st}
Dying == {closing.client} \cap Clients
ActiveStreams(p) == UNION {p.client[c].active : c \in Clients}

\* Mutant of isIdle: pending streams are not looked at.
isIdleWithoutClients(p) == Live(p) = {}

isIdle(p) == p.pending = <<>> /\ Live(p) = {}

\* A list without the entries of S, in its order.
Without(list, S) ==
    LET kept[n \in 0 .. Len(list)] ==
          IF n = 0 THEN <<>>
          ELSE IF list[n] \in S THEN kept[n - 1] ELSE Append(kept[n - 1], list[n])
    IN kept[Len(list)]

\* What drain() takes away.
drained(k) == IF currentUnusedCapacity(k) > 0 THEN currentUnusedCapacity(k) ELSE 0

\* setState() with drain().
setState(k, new) ==
    [k EXCEPT !.state = new,
              !.remaining = IF new = "DRAINING" /\ drained(k) > 0 THEN 0 ELSE @]

\* Mutant of transitionActiveClientState: draining a connecting client leaves
\* the pool's own capacity alone.
transitionKeepsConnectingCapacity(p, c, new) ==
    LET k == p.client[c]
    IN [p EXCEPT
          !.client[c] = setState(k, new),
          !.clusterCapacity = @ - (IF new = "DRAINING" THEN drained(k) ELSE 0),
          !.connecting = Without(@, {c}),
          !.ready = IF new = "READY" THEN <<c>> \o @ ELSE Without(@, {c})]

\* The state changes, and the client moves to the front of the new list.
transitionActiveClientState(p, c, new) ==
    LET k == p.client[c]
        less == IF new = "DRAINING" THEN drained(k) ELSE 0
    IN [p EXCEPT
          !.client[c] = setState(k, new),
          !.clusterCapacity = @ - less,
          !.connectingCapacity = IF k.state = "CONNECTING" THEN @ - less ELSE @,
          !.connecting = Without(@, {c}),
          !.ready = IF new = "READY" THEN <<c>> \o @ ELSE Without(@, {c})]

\* shouldConnect() with preconnect ratio 1.
shouldCreateNewConnection(p, anticipated) ==
    Len(p.pending) + anticipated > p.connectingCapacity

\* Connections of other pools may have filled the breaker; a pool without a
\* connection creates one nevertheless.
tryCreateNewConnection(p, anticipated) ==
    IF /\ shouldCreateNewConnection(p, anticipated)
       /\ \/ p.full # "connections" /\ Cardinality(Live(p)) < MaxConnections
          \/ Live(p) = {}
    THEN LET c == CHOOSE free \in Clients : free \notin Live(p)
             capacity == effectiveConcurrentStreamLimit(NewClient)
         IN [p EXCEPT !.client[c] = NewClient, !.connecting = <<c>> \o @,
                      !.connectingCapacity = @ + capacity,
                      !.clusterCapacity = @ + capacity]
    ELSE p

\* At most three; an attempt that creates nothing is followed by no other.
tryCreateNewConnections(p) ==
    tryCreateNewConnection(tryCreateNewConnection(tryCreateNewConnection(p, 0), 0), 0)

\* Above the request breaker the stream gets an overflow failure instead.
attachStreamToClient(p, c, s) ==
    IF p.numActive >= MaxRequests THEN p
    ELSE LET q == [p EXCEPT !.client[c].remaining = @ - 1]
             k == q.client[c]
             r == IF k.remaining = 0
                  THEN transitionActiveClientState(q, c, "DRAINING")
                  ELSE IF numActiveStreams(k) + 1 >= k.limit
                       THEN transitionActiveClientState(q, c, "BUSY") ELSE q
         IN [r EXCEPT !.clusterCapacity = @ - 1, !.numActive = @ + 1,
                      !.client[c].active = @ \cup {s}]

\* Mutant of attachOldest: the newest pending stream.
attachNewest(p) ==
    IF p.pending = <<>> \/ p.ready = <<>> THEN p
    ELSE [attachStreamToClient(p, Head(p.ready), Head(p.pending)) EXCEPT
            !.pending = Tail(@), !.clusterPending = @ - 1]

\* The oldest pending stream is given to the first ready client.
attachOldest(p) ==
    IF p.pending = <<>> \/ p.ready = <<>> THEN p
    ELSE [attachStreamToClient(p, Head(p.ready), Last(p.pending)) EXCEPT
            !.pending = Front(@), !.clusterPending = @ - 1]

\* Mutant of onUpstreamReady: one stream only.
onUpstreamReadyOnce(p) == attachOldest(p)

\* The loop ends when no stream is pending or no client is ready.
onUpstreamReady(p) ==
    LET after[n \in 0 .. Len(p.pending)] ==
          IF n = 0 THEN p ELSE attachOldest(after[n - 1])
    IN after[Len(p.pending)]

-----------------------------------------------------------------------------
(* Closing clients that carry no stream.  Nothing calls back then, so it   *)
(* happens inside the step that calls close().                             *)

idleClients(p) ==
    {c \in InState(p, "READY") : p.client[c].active = {}}
      \cup (IF p.pending = <<>> THEN InState(p, "CONNECTING") ELSE {})

\* The counters and lists as onConnectionEvent leaves them for every client
\* of S; one that was connecting also moves the (empty) pending list over
\* pending_streams_to_purge_, whatever is in it.
closeClients(p, S) ==
    LET connecting == S \cap InState(p, "CONNECTING")
        overwrites == connecting # {}
    IN [p EXCEPT
          !.connectingCapacity = @ - ConnectingCapacity(p, connecting),
          !.clusterCapacity = @ - UnusedCapacity(p, S),
          !.client = [c \in Clients |-> IF c \in S THEN NoClient ELSE @[c]],
          !.ready = Without(@, S), !.connecting = Without(@, S),
          !.purge = IF overwrites THEN <<>> ELSE @,
          !.lost = IF overwrites THEN @ \cup ToSet(p.purge) ELSE @]

\* Mutant of connectForPending: nothing replaces the lost connection.
connectForNobody(p) == p

connectForPending(p) == IF p.pending = <<>> THEN p ELSE tryCreateNewConnections(p)

\* close() on the client whose connection is already going down does nothing.
closeIdleConnectionsForDrainingPool(p) ==
    LET S == idleClients(p) \ Dying
    IN IF S = {} THEN p ELSE connectForPending(closeClients(p, S))

\* The idle callback makes the cluster manager erase the pool.
invokeIdleCallbacks(p) ==
    IF isIdle(p) THEN [p EXCEPT !.deleted = TRUE, !.draining = FALSE] ELSE p

\* Mutant of the check: idle connections are closed in every pool.
checkForIdleAndCloseIdleConns(p) ==
    invokeIdleCallbacks(closeIdleConnectionsForDrainingPool(p))

\* Mutant of the check: a draining pool does not close its connections.
checkForIdle(p) == invokeIdleCallbacks(p)

checkForIdleAndCloseIdleConnsIfDraining(p) ==
    invokeIdleCallbacks(
        IF p.draining THEN closeIdleConnectionsForDrainingPool(p) ELSE p)

\* client.close() for a client without streams that is no longer connecting.
closeClient(p, c) ==
    IF c \in Dying THEN p
    ELSE connectForPending(
           checkForIdleAndCloseIdleConnsIfDraining(closeClients(p, {c})))

\* Mutant of limitedByConcurrency: every closed stream gives capacity back.
alwaysLimitedByConcurrency(k) == TRUE

\* remaining_streams_ > concurrent_stream_limit_ - numActiveStreams() - 1 in
\* uint32_t: with more requests in flight than the limit the right side wraps
\* and the comparison is false.
limitedByConcurrency(k) ==
    LET room == k.limit - numActiveStreams(k) - 1
    IN room >= 0 /\ k.remaining > room

\* The codec has already removed s from its requests.
onStreamClosed(p, c, s) ==
    LET k == [p.client[c] EXCEPT !.active = @ \ {s}]
        grows == limitedByConcurrency(k) \/ k.negative > 0
        j == [k EXCEPT !.negative = IF @ > 0 THEN @ - 1 ELSE 0]
        q == [p EXCEPT
                !.numActive = @ - 1,
                !.clusterCapacity = IF grows THEN @ + 1 ELSE @,
                !.client[c] = j]
    IN IF k.state = "DRAINING" /\ k.active = {} THEN closeClient(q, c)
       ELSE IF k.state = "BUSY"
            THEN onUpstreamReady(transitionActiveClientState(q, c, "READY"))
            ELSE q

-----------------------------------------------------------------------------
(* The users' operations.                                                  *)

InHandler == closing.client # NoOne
UserMayCall == InHandler => closing.stream # NoOne

\* The stream whose onPoolFailure is running is alive until it returns.
PendingRequests(p) ==
    Len(p.pending) + Len(p.purge)
      + (IF closing.phase = "purge" /\ closing.stream # NoOne THEN 1 ELSE 0)

Unused(s) == s \notin ActiveStreams(pool) \cup ToSet(pool.pending)
                        \cup ToSet(pool.purge) \cup pool.lost

newPendingStream(p, s) ==
    [p EXCEPT !.pending = <<s>> \o @, !.clusterPending = @ + 1]

\* A pool that was erased is created anew for the stream.
newStream(s) ==
    /\ UserMayCall /\ ~pool.draining /\ Unused(s)
    /\ LET p == [pool EXCEPT !.deleted = FALSE]
       IN pool' = IF p.ready # <<>>
                  THEN tryCreateNewConnections(
                         attachStreamToClient(p, Head(p.ready), s))
                  ELSE IF p.full = "pending" \/ PendingRequests(p) >= MaxPendingRequests
                       THEN p
                  ELSE tryCreateNewConnections(newPendingStream(p, s))
    /\ UNCHANGED <<closing, lowered>>

\* Called, like newStream, for a host that the load balancer has chosen; only
\* the pools of hosts that were removed from it drain for deletion.
maybePreconnect ==
    /\ ~InHandler /\ ~pool.draining /\ ~pool.deleted
    /\ pool' = tryCreateNewConnection(pool, 1)
    /\ UNCHANGED <<closing, lowered>>

connectingConnectionIsExcess(p) ==
    Len(p.pending)
      <= p.connectingCapacity
           - effectiveConcurrentStreamLimit(p.client[Head(p.connecting)])

\* Mutant of removePending: the pending counter is decremented either way.
removePendingDecrements(p, s) ==
    IF p.purge # <<>>
    THEN [p EXCEPT !.purge = Without(@, {s}), !.clusterPending = @ - 1]
    ELSE [p EXCEPT !.pending = Without(@, {s}), !.clusterPending = @ - 1]

removePending(p, s) ==
    IF p.purge # <<>>
    THEN [p EXCEPT !.purge = Without(@, {s})]
    ELSE [p EXCEPT !.pending = Without(@, {s}), !.clusterPending = @ - 1]

\* While streams are being purged the code looks for s among those: a stream
\* submitted since then must not be cancelled before the purge ends.
onPendingStreamCancel(s, closeExcess) ==
    /\ UserMayCall
    /\ s \in ToSet(IF pool.purge # <<>> THEN pool.purge ELSE pool.pending)
    /\ LET p == removePending(pool, s)
           f == Head(p.connecting)
       IN pool' = checkForIdleAndCloseIdleConnsIfDraining(
                    IF /\ closeExcess /\ p.connecting # <<>>
                       /\ connectingConnectionIsExcess(p)
                    THEN closeClient(transitionActiveClientState(p, f, "DRAINING"), f)
                    ELSE p)
    /\ UNCHANGED <<closing, lowered>>

\* A response completes, or either side resets the stream.  A client whose
\* streams are reset by its disconnect leaves the check to the end of that.
onStreamDestroy(s) ==
    /\ UserMayCall
    /\ \E c \in Clients :
         /\ s \in pool.client[c].active
         /\ LET p == onStreamClosed(pool, c, s)
            IN pool' = IF c \in Dying THEN p
                       ELSE checkForIdleAndCloseIdleConnsIfDraining(p)
    /\ UNCHANGED <<closing, lowered>>

drainAndDelete ==
    /\ ~InHandler /\ ~pool.deleted /\ ~pool.draining
    /\ pool' = checkForIdleAndCloseIdleConnsIfDraining([pool EXCEPT !.draining = TRUE])
    /\ UNCHANGED <<closing, lowered>>

\* transitionActiveClientState to DRAINING, for clients that are connected.
drainClients(p, S) ==
    [p EXCEPT
       !.client = [c \in Clients |-> IF c \in S THEN setState(@[c], "DRAINING") ELSE @[c]],
       !.clusterCapacity =
           @ - SumFunctionOnSet([c \in Clients |-> drained(p.client[c])], S),
       !.ready = Without(@, S)]

drainExistingConnections ==
    /\ ~InHandler /\ ~pool.deleted
    /\ LET p == closeIdleConnectionsForDrainingPool(pool)
           q == IF p = pool THEN p ELSE checkForIdleAndCloseIdleConnsIfDraining(p)
       IN pool' = drainClients(q, Live(q) \ InState(q, "CONNECTING"))
    /\ UNCHANGED <<closing, lowered>>

-----------------------------------------------------------------------------
(* What the connection and the codec report.                               *)

connected(c) ==
    /\ ~InHandler /\ pool.client[c].state = "CONNECTING"
    /\ LET p == [pool EXCEPT !.connectingCapacity =
                               @ - effectiveConcurrentStreamLimit(pool.client[c])]
       IN pool' = checkForIdleAndCloseIdleConnsIfDraining(
                    onUpstreamReady(transitionActiveClientState(p, c, "READY")))
    /\ UNCHANGED <<closing, lowered>>

onGoAway(c) ==
    /\ ~InHandler /\ pool.client[c].state \in {"READY", "BUSY"}
    /\ pool' = IF pool.client[c].active = {} THEN closeClient(pool, c)
               ELSE transitionActiveClientState(pool, c, "DRAINING")
    /\ UNCHANGED <<closing, lowered>>

\* A limit of 0 drains the client, which stays open also without streams.
onSettings(c, n) ==
    /\ ~InHandler /\ pool.client[c].state \in {"READY", "BUSY", "DRAINING"}
    /\ n < pool.client[c].limit
    /\ LET k == [pool.client[c] EXCEPT !.limit = n]
           delta == currentUnusedCapacity(pool.client[c]) - currentUnusedCapacity(k)
           j == [k EXCEPT !.negative = @ + delta]
           p == [pool EXCEPT !.clusterCapacity = @ - delta, !.client[c] = j]
       IN pool' = IF n = 0 THEN transitionActiveClientState(p, c, "DRAINING") ELSE p
    /\ lowered' = IF n = 0 THEN lowered ELSE lowered + 1
    /\ lowered' <= MaxLowered
    /\ UNCHANGED closing

\* The connection goes down: remotely, by the connect timeout or by the idle
\* timeout of a client without requests.  The codec sees the event first.
startClosing(c) ==
    /\ closing' = [client |-> c, phase |-> "reset", stream |-> NoOne]
    /\ UNCHANGED <<pool, lowered>>

remoteClose(c) == ~InHandler /\ c \in Live(pool) /\ startClosing(c)

onConnectTimeout(c) ==
    ~InHandler /\ pool.client[c].state = "CONNECTING" /\ startClosing(c)

onIdleTimeout(c) ==
    /\ ~InHandler /\ c \in Live(pool) /\ pool.client[c].active = {}
    /\ startClosing(c)

\* CodecClient::onEvent resets the requests, in any order here.  A busy client
\* becomes ready by it and takes pending streams, which are reset as well.
resetActiveRequest ==
    /\ closing.phase = "reset"
    /\ \E s \in pool.client[closing.client].active :
         /\ pool' = onStreamClosed(pool, closing.client, s)
         /\ closing' = [closing EXCEPT !.stream = s]
    /\ UNCHANGED lowered

\* The end of onConnectionEvent: the client releases its resources and leaves
\* its list, and pending streams get another connection.
finishClose(p, c) ==
    connectForPending(checkForIdleAndCloseIdleConnsIfDraining(
        [p EXCEPT !.client[c] = NoClient, !.ready = Without(@, {c}),
                  !.connecting = Without(@, {c})]))

noFrame == [client |-> NoOne, phase |-> "none", stream |-> NoOne]

\* onConnectionEvent of the pool, up to the purge if it was connecting.
closeEvent ==
    /\ closing.phase = "reset" /\ pool.client[closing.client].active = {}
    /\ LET c == closing.client
           k == pool.client[c]
           p == [pool EXCEPT !.clusterCapacity = @ - currentUnusedCapacity(k),
                             !.client[c] = [k EXCEPT !.remaining = 0]]
       IN IF k.state = "CONNECTING"
          THEN /\ pool' = [p EXCEPT
                    !.connectingCapacity = @ - effectiveConcurrentStreamLimit(k),
                    !.clusterPending = @ - Len(p.pending),
                    !.purge = p.pending, !.pending = <<>>]
               /\ closing' = [closing EXCEPT !.phase = "purge", !.stream = NoOne]
          ELSE pool' = finishClose(p, c) /\ closing' = noFrame
    /\ UNCHANGED lowered

\* onPoolFailure for the next stream; its user may call the pool.
purgePendingStream ==
    /\ closing.phase = "purge" /\ pool.purge # <<>>
    /\ pool' = [pool EXCEPT !.purge = Tail(@)]
    /\ closing' = [closing EXCEPT !.stream = Head(pool.purge)]
    /\ UNCHANGED lowered

purgeDone ==
    /\ closing.phase = "purge" /\ pool.purge = <<>>
    /\ pool' = finishClose(tryCreateNewConnections(pool), closing.client)
    /\ closing' = noFrame
    /\ UNCHANGED lowered

\* Other pools of the cluster fill a circuit breaker, or leave it.
otherPools ==
    /\ ~InHandler
    /\ \E b \in {"none", "connections", "pending"} \ {pool.full} :
         pool' = [pool EXCEPT !.full = b]
    /\ UNCHANGED <<closing, lowered>>

-----------------------------------------------------------------------------
Handler == resetActiveRequest \/ closeEvent \/ purgePendingStream \/ purgeDone

Next == \/ \E s \in Streams : \/ newStream(s)
                              \/ \E x \in BOOLEAN : onPendingStreamCancel(s, x)
                              \/ onStreamDestroy(s)
        \/ maybePreconnect \/ drainAndDelete \/ drainExistingConnections
        \/ \E c \in Clients : \/ connected(c) \/ onGoAway(c)
                              \/ \E n \in SettingsLimits : onSettings(c, n)
                              \/ remoteClose(c) \/ onConnectTimeout(c)
                              \/ onIdleTimeout(c)
        \/ Handler \/ otherPools

\* What the program brings about by itself or by a timer: the handler in
\* progress continues, a connection attempt ends (at the latest by the connect
\* timeout), a request ends (by its response or the route's timeout), and a
\* draining client without requests ends by the idle timeout.
Progress ==
    \/ Handler
    \/ \E c \in Clients : \/ connected(c) \/ onConnectTimeout(c)
                          \/ pool.client[c].state = "DRAINING" /\ onIdleTimeout(c)
    \/ \E s \in Streams : ~InHandler /\ onStreamDestroy(s)

\* ENABLED <<Progress>>_vars, spelled out: TLC evaluates it much faster.
CanProgress ==
    \/ InHandler
    \/ \E c \in Clients : \/ pool.client[c].state \in {"CONNECTING", "DRAINING"}
                          \/ pool.client[c].active # {}

\* Weak fairness of Progress.
Fairness == []<>(~CanProgress) \/ []<><<Progress>>_vars

Spec == Init /\ [][Next]_vars /\ Fairness

-----------------------------------------------------------------------------
(* Properties.                                                             *)

\* The counters are unsigned in the code (except the cluster's capacity): none
\* goes below zero, and a client is in the list of its state.
TypeOK ==
    /\ pool.connectingCapacity \in Nat /\ pool.numActive \in Nat
    /\ pool.clusterPending \in Nat /\ pool.clusterCapacity \in Int
    /\ ToSet(pool.ready) = InState(pool, "READY")
    /\ ToSet(pool.connecting) = InState(pool, "CONNECTING")
    /\ ToSet(pool.pending) \cup ToSet(pool.purge) \cup pool.lost \subseteq Streams
    /\ closing.client \in Clients \cup {NoOne}
    /\ closing.stream \in Streams \cup {NoOne}

\* connecting_stream_capacity_ is the sum of what the connecting clients can
\* serve, at every moment a callback could call the pool: the pool decides by
\* it how many connections to open (asserted at the top of newStreamImpl).
ConnectingCapacityExact ==
    pool.connectingCapacity = ConnectingCapacity(pool, InState(pool, "CONNECTING"))

\* The cluster wide state is what the pools' clients and streams amount to.
\* It decides about preconnecting and must be zero when all are gone
\* (~ClusterConnectivityState asserts it).  The capacity is that as long as no
\* peer has lowered its limit but to 0: a READY client without room is then
\* given another stream and the sum is off.
ClusterStateExact ==
    /\ lowered = 0 => pool.clusterCapacity = UnusedCapacity(pool, Live(pool))
    /\ pool.clusterPending = Len(pool.pending)
    /\ pool.numActive = Cardinality(ActiveStreams(pool))

\* The members are well formed and the counters are neither above nor below
\* what they count, in the middle of a handler as well.
CountersExact == TypeOK /\ ConnectingCapacityExact /\ ClusterStateExact

\* No stream waits while a client could take it.
NoPendingWhileReady ==
    ~InHandler => pool.pending = <<>> \/ pool.ready = <<>>

\* After the idle callbacks no handler that is still on the stack gives the
\* pool, which is in the deferred delete list, anything to do
\* (asserted in deleteIsPendingImpl and in the destructor).
DeletedPoolIsIdle ==
    pool.deleted => /\ isIdle(pool) /\ pool.purge = <<>>
                    /\ pool.connectingCapacity = 0 /\ pool.numActive = 0

\* A pending stream is destroyed without an answer to its user only in a pool
\* that drains for deletion: there, cancelling a stream from onPoolFailure
\* closes other connecting clients, and their purge overwrites the list.
LostOnlyWhileDraining == pool'.lost # pool.lost => pool.draining

\* Streams are attached in the order of their arrival.
AttachedInOrder ==
    \A i, j \in DOMAIN pool.pending :
      i < j /\ pool.pending[i] \in ActiveStreams(pool')
        => pool.pending[j] \notin ToSet(pool'.pending)

\* What a step may not do to a pending stream: drop it unanswered in a pool
\* that is in use, or let a later one overtake it.
PendingStreamsKept == [][LostOnlyWhileDraining /\ AttachedInOrder]_vars

\* A stream does not stay pending: it is attached, failed or cancelled.
PendingAnswered ==
    \A s \in Streams : s \in ToSet(pool.pending) ~> s \notin ToSet(pool.pending)

\* A pool that drains for deletion becomes idle and is deleted.
DrainedPoolDeleted == pool.draining ~> pool.deleted

=============================================================================
