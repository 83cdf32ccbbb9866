------------------------ MODULE ConnectionLimitProofs ------------------------
(***************************************************************************)
(* Proofs about ConnectionLimit, for any number of connections, any limit  *)
(* and any word size above the number of connections.                      *)
(***************************************************************************)
EXTENDS ConnectionLimit, FiniteSetTheorems, TLAPS

\* What the counter and the gauge are in general: the sizes of the sets they
\* stand for less the closes that had not been counted, which may wrap them.
CountOffByMissed ==
    /\ connections + Cardinality(Missed)
           \in {Cardinality(Counted), Cardinality(Counted) + WordSize}
    /\ active + Cardinality(Missed)
           \in {Cardinality(Known), Cardinality(Known) + WordSize}

\* Every such close makes room for one more connection.
LimitOffByMissed == Cardinality(Admitted) <= MaxConnections + Cardinality(Missed)

\* The inductive invariant.  A filter about to compare and exchange has seen a
\* value below the limit.
IInv ==
    /\ TypeOK
    /\ \A c \in Conns : pc[c] = "cas" => Within(seen[c])
    /\ CountOffByMissed
    /\ LimitOffByMissed

\* The phases of the sets.
CountedPhases == {"admitted", "delayed", "closing"}
KnownPhases == {"load", "cas", "reject", "admitted", "delayed", "closing"}

LEMMA ConstantTypes ==
    /\ WordSize \in Nat /\ WordSize > 0 /\ MaxConnections \in Nat
    /\ IsFiniteSet(Conns)
<1>1. Cardinality(Conns) \in Nat
  BY ConnectionLimitAssumption, FS_CardinalityType
<1> QED BY <1>1, ConnectionLimitAssumption

\* A subset of Conns gains or loses at most the one connection that moves.
LEMMA MoveOne ==
    ASSUME NEW S \in SUBSET Conns, NEW c \in Conns
    PROVE  /\ IsFiniteSet(S)
           /\ Cardinality(S) \in Nat
           /\ Cardinality(S) < WordSize
           /\ c \notin S => Cardinality(S \cup {c}) = Cardinality(S) + 1
           /\ c \in S => Cardinality(S \ {c}) = Cardinality(S) - 1 /\ Cardinality(S) > 0
<1>1. IsFiniteSet(Conns) /\ Cardinality(Conns) < WordSize /\ WordSize \in Nat
  BY ConnectionLimitAssumption
<1>2. IsFiniteSet(S) /\ Cardinality(S) <= Cardinality(Conns)
  BY <1>1, FS_Subset
<1>3. Cardinality(S) \in Nat /\ Cardinality(Conns) \in Nat
  BY <1>1, <1>2, FS_CardinalityType
<1>4. c \notin S => Cardinality(S \cup {c}) = Cardinality(S) + 1
  BY <1>2, FS_AddElement
<1>5. c \in S => Cardinality(S \ {c}) = Cardinality(S) - 1
  BY <1>2, FS_RemoveElement
<1>6. c \in S => Cardinality(S) > 0
  BY <1>2, <1>3, FS_EmptySet
<1> QED BY <1>1, <1>2, <1>3, <1>4, <1>5, <1>6

\* How the sets change when c moves to another phase.
LEMMA MoveSets ==
    ASSUME NEW c \in Conns, NEW phase \in Phases, pc \in [Conns -> Phases], Goto(c, phase)
    PROVE  /\ pc' \in [Conns -> Phases]
           /\ pc'[c] = phase
           /\ \A d \in Conns : d # c => pc'[d] = pc[d]
           /\ Counted' = IF phase \in CountedPhases THEN Counted \cup {c} ELSE Counted \ {c}
           /\ Known' = IF phase \in KnownPhases THEN Known \cup {c} ELSE Known \ {c}
           /\ Missed' = IF phase = "gone" THEN Missed \cup {c} ELSE Missed \ {c}
           /\ Admitted' = IF phase = "admitted" THEN Admitted \cup {c} ELSE Admitted \ {c}
<1>1. /\ pc' \in [Conns -> Phases] /\ pc'[c] = phase
      /\ \A d \in Conns : d # c => pc'[d] = pc[d]
  BY DEF Goto
<1>2. Counted' = IF phase \in CountedPhases THEN Counted \cup {c} ELSE Counted \ {c}
  BY <1>1 DEF Counted, CountedPhases
<1>3. Known' = IF phase \in KnownPhases THEN Known \cup {c} ELSE Known \ {c}
  BY <1>1 DEF Known, Counted, KnownPhases
<1>4. Missed' = IF phase = "gone" THEN Missed \cup {c} ELSE Missed \ {c}
  BY <1>1 DEF Missed
<1>5. Admitted' = IF phase = "admitted" THEN Admitted \cup {c} ELSE Admitted \ {c}
  BY <1>1 DEF Admitted
<1> QED BY <1>1, <1>2, <1>3, <1>4, <1>5

LEMMA SetsAreSubsets ==
    /\ Counted \in SUBSET Conns /\ Known \in SUBSET Conns
    /\ Missed \in SUBSET Conns /\ Admitted \in SUBSET Conns
    /\ Counted' \in SUBSET Conns /\ Known' \in SUBSET Conns
    /\ Missed' \in SUBSET Conns /\ Admitted' \in SUBSET Conns
    /\ Admitted \subseteq Counted /\ Admitted' \subseteq Counted'
BY DEF Counted, Known, Missed, Admitted

-------------------------------------------------------------------------------

LEMMA InitIInv == Init => IInv
<1> SUFFICES ASSUME Init PROVE IInv
  OBVIOUS
<1>1. TypeOK
  BY ConstantTypes DEF Init, TypeOK, Phases
<1>2. Counted = {} /\ Known = {} /\ Missed = {} /\ Admitted = {}
  BY DEF Init, Counted, Known, Missed, Admitted
<1>3. Cardinality({}) = 0
  BY FS_EmptySet
<1> QED BY <1>1, <1>2, <1>3, ConstantTypes DEF Init, IInv, CountOffByMissed, LimitOffByMissed

\* A step that moves c between phases of the same kind changes no counted set.
LEMMA MoveWithin ==
    ASSUME IInv, NEW c \in Conns, NEW phase \in Phases, Goto(c, phase),
           seen' \in [Conns -> 0 .. (WordSize - 1)],
           \A d \in Conns : d # c => seen'[d] = seen[d],
           phase = "cas" => Within(seen'[c]),
           phase # "admitted", phase # "gone", pc[c] # "gone",
           pc[c] \in CountedPhases <=> phase \in CountedPhases,
           pc[c] \in KnownPhases <=> phase \in KnownPhases,
           UNCHANGED <<connections, active, enabled>>
    PROVE  IInv'
<1>1. /\ pc' \in [Conns -> Phases] /\ pc'[c] = phase
      /\ \A d \in Conns : d # c => pc'[d] = pc[d]
      /\ Counted' = IF phase \in CountedPhases THEN Counted \cup {c} ELSE Counted \ {c}
      /\ Known' = IF phase \in KnownPhases THEN Known \cup {c} ELSE Known \ {c}
      /\ Missed' = IF phase = "gone" THEN Missed \cup {c} ELSE Missed \ {c}
      /\ Admitted' = IF phase = "admitted" THEN Admitted \cup {c} ELSE Admitted \ {c}
  BY MoveSets DEF IInv, TypeOK
<1>2. /\ c \in Counted <=> phase \in CountedPhases
      /\ c \in Known <=> phase \in KnownPhases
      /\ c \notin Missed
  BY DEF Counted, Known, Missed, CountedPhases, KnownPhases
<1>3. Counted' = Counted /\ Known' = Known /\ Missed' = Missed /\ Admitted' \subseteq Admitted
  BY <1>1, <1>2
<1>4. TypeOK'
  BY <1>1 DEF IInv, TypeOK
<1>5. CountOffByMissed'
  BY <1>3 DEF IInv, CountOffByMissed
<1>6. LimitOffByMissed'
  <2>1. /\ IsFiniteSet(Admitted) /\ Cardinality(Admitted) \in Nat
        /\ Cardinality(Admitted') \in Nat /\ Cardinality(Missed) \in Nat
    BY SetsAreSubsets, MoveOne
  <2>2. Cardinality(Admitted') <= Cardinality(Admitted)
    BY <1>3, <2>1, FS_Subset
  <2> QED BY <1>3, <2>1, <2>2, ConstantTypes DEF IInv, LimitOffByMissed
<1>7. \A d \in Conns : pc'[d] = "cas" => Within(seen'[d])
  BY <1>1 DEF IInv
<1> QED BY <1>4, <1>5, <1>6, <1>7 DEF IInv, Within

LEMMA LoopAtInv ==
    ASSUME IInv, NEW c \in Conns, pc[c] \in {"load", "cas"}, LoopAt(c, connections),
           UNCHANGED <<connections, active, enabled>>
    PROVE  IInv'
<1> DEFINE phase == IF Within(connections) THEN "cas" ELSE "reject"
<1>1. seen' = [seen EXCEPT ![c] = connections] /\ Goto(c, phase)
  BY DEF LoopAt
<1>2. phase \in Phases /\ phase \in {"cas", "reject"}
  BY DEF Phases
<1>3. phase = "cas" => Within(connections)
  OBVIOUS
<1>4. /\ seen' \in [Conns -> 0 .. (WordSize - 1)] /\ seen'[c] = connections
      /\ \A d \in Conns : d # c => seen'[d] = seen[d]
  BY <1>1 DEF IInv, TypeOK
<1>5. /\ pc[c] \in KnownPhases /\ phase \in KnownPhases
      /\ pc[c] \notin CountedPhases /\ phase \notin CountedPhases
      /\ phase # "admitted" /\ phase # "gone" /\ pc[c] # "gone"
  BY <1>2 DEF KnownPhases, CountedPhases
<1> HIDE DEF phase
<1> QED BY <1>1, <1>2, <1>3, <1>4, <1>5, MoveWithin

\* An increment or decrement, wrapping or not, keeps a counter n that is k - m
\* exact, up to one wrap, when the set of k changes by as much.
LEMMA CounterSteps ==
    ASSUME NEW n \in 0 .. (WordSize - 1), NEW k \in Nat, NEW m \in Nat,
           k < WordSize, m < WordSize, n + m \in {k, k + WordSize}
    PROVE  /\ Increment(n) \in 0 .. (WordSize - 1)
           /\ Decrement(n) \in 0 .. (WordSize - 1)
           /\ k + 1 < WordSize => Increment(n) + m \in {k + 1, (k + 1) + WordSize}
           /\ k > 0 => Decrement(n) + m \in {k - 1, (k - 1) + WordSize}
           /\ m + 1 < WordSize => Decrement(n) + (m + 1) \in {k, k + WordSize}
BY ConstantTypes DEF Increment, Decrement

LEMMA StepIInv ==
    ASSUME IInv, NEW c \in Conns, Step(c)
    PROVE  IInv'
<1> DEFINE counted == Cardinality(Counted)
           known == Cardinality(Known)
           missed == Cardinality(Missed)
           admitted == Cardinality(Admitted)
<1>1. /\ pc \in [Conns -> Phases] /\ seen \in [Conns -> 0 .. (WordSize - 1)]
      /\ connections \in 0 .. (WordSize - 1) /\ active \in 0 .. (WordSize - 1)
      /\ enabled \in BOOLEAN
      /\ connections + missed \in {counted, counted + WordSize}
      /\ active + missed \in {known, known + WordSize}
      /\ admitted <= MaxConnections + missed
      /\ \A d \in Conns : pc[d] = "cas" => Within(seen[d])
  BY DEF IInv, TypeOK, CountOffByMissed, LimitOffByMissed
<1>2. \A S \in SUBSET Conns :
         /\ Cardinality(S) \in Nat /\ Cardinality(S) < WordSize
         /\ c \notin S => Cardinality(S \cup {c}) = Cardinality(S) + 1
         /\ c \in S => Cardinality(S \ {c}) = Cardinality(S) - 1 /\ Cardinality(S) > 0
  BY MoveOne
<1>3. /\ counted \in Nat /\ counted < WordSize /\ known \in Nat /\ known < WordSize
      /\ missed \in Nat /\ missed < WordSize /\ admitted \in Nat
      /\ Cardinality(Counted') < WordSize /\ Cardinality(Known') < WordSize
      /\ Cardinality(Missed') < WordSize
      /\ c \notin Counted => Cardinality(Counted \cup {c}) = counted + 1
      /\ c \in Counted => Cardinality(Counted \ {c}) = counted - 1 /\ counted > 0
      /\ c \notin Known => Cardinality(Known \cup {c}) = known + 1
      /\ c \in Known => Cardinality(Known \ {c}) = known - 1 /\ known > 0
      /\ c \notin Missed => Cardinality(Missed \cup {c}) = missed + 1
      /\ c \notin Admitted => Cardinality(Admitted \cup {c}) = admitted + 1
  BY <1>2, SetsAreSubsets
<1>4. /\ c \in Counted <=> pc[c] \in CountedPhases
      /\ c \in Known <=> pc[c] \in KnownPhases
      /\ c \in Missed <=> pc[c] = "gone"
      /\ c \in Admitted <=> pc[c] = "admitted"
  BY DEF Counted, Known, Missed, Admitted, CountedPhases, KnownPhases
<1>5. /\ Increment(connections) \in 0 .. (WordSize - 1)
      /\ Decrement(connections) \in 0 .. (WordSize - 1)
      /\ Increment(active) \in 0 .. (WordSize - 1)
      /\ Decrement(active) \in 0 .. (WordSize - 1)
      /\ counted + 1 < WordSize =>
             Increment(connections) + missed \in {counted + 1, (counted + 1) + WordSize}
      /\ counted > 0 =>
             Decrement(connections) + missed \in {counted - 1, (counted - 1) + WordSize}
      /\ known + 1 < WordSize =>
             Increment(active) + missed \in {known + 1, (known + 1) + WordSize}
      /\ known > 0 => Decrement(active) + missed \in {known - 1, (known - 1) + WordSize}
      /\ missed + 1 < WordSize =>
             /\ Decrement(connections) + (missed + 1) \in {counted, counted + WordSize}
             /\ Decrement(active) + (missed + 1) \in {known, known + WordSize}
  BY <1>1, <1>3, CounterSteps
<1>6. ASSUME NEW phase \in Phases, Goto(c, phase)
      PROVE  /\ pc' \in [Conns -> Phases]
             /\ pc'[c] = phase
             /\ \A d \in Conns : d # c => pc'[d] = pc[d]
             /\ Counted' = IF phase \in CountedPhases THEN Counted \cup {c} ELSE Counted \ {c}
             /\ Known' = IF phase \in KnownPhases THEN Known \cup {c} ELSE Known \ {c}
             /\ Missed' = IF phase = "gone" THEN Missed \cup {c} ELSE Missed \ {c}
             /\ Admitted' = IF phase = "admitted" THEN Admitted \cup {c} ELSE Admitted \ {c}
  BY <1>1, <1>6, MoveSets
<1> HIDE DEF counted, known, missed, admitted
\* What is left to show of a step that changes the counters.
<1>7. ASSUME NEW phase \in Phases, Goto(c, phase), phase # "cas",
             seen' = seen, enabled' = enabled,
             connections' \in 0 .. (WordSize - 1), active' \in 0 .. (WordSize - 1),
             CountOffByMissed', LimitOffByMissed'
      PROVE  IInv'
  <2>1. TypeOK'
    BY <1>1, <1>6, <1>7 DEF TypeOK
  <2>2. \A d \in Conns : pc'[d] = "cas" => Within(seen'[d])
    BY <1>1, <1>6, <1>7
  <2> QED BY <1>7, <2>1, <2>2 DEF IInv, Within
<1>8. CASE OnNewConnection(c)
  <2>1. CASE enabled
    <3>1. /\ pc[c] = "accepted" /\ Goto(c, "load") /\ active' = Increment(active)
          /\ UNCHANGED <<connections, enabled, seen>>
      BY <1>8, <2>1 DEF OnNewConnection
    <3>2. c \notin Counted /\ c \notin Known /\ c \notin Missed /\ c \notin Admitted
      BY <1>4, <3>1 DEF CountedPhases, KnownPhases
    <3>3. /\ Counted' = Counted /\ Known' = Known \cup {c}
          /\ Missed' = Missed /\ Admitted' = Admitted
      BY <1>6, <3>1, <3>2 DEF Phases, CountedPhases, KnownPhases
    <3>4. Cardinality(Known') = known + 1 /\ known + 1 < WordSize
      BY <1>3, <3>2, <3>3
    <3>5. CountOffByMissed'
      BY <1>1, <1>5, <3>1, <3>3, <3>4 DEF CountOffByMissed, counted, missed
    <3>6. LimitOffByMissed'
      BY <1>1, <3>3 DEF LimitOffByMissed, admitted, missed
    <3> QED BY <1>1, <1>5, <1>7, <3>1, <3>5, <3>6 DEF Phases
  <2>2. CASE ~enabled
    <3>1. /\ pc[c] = "accepted" /\ Goto(c, "passed")
          /\ UNCHANGED <<connections, active, enabled, seen>>
      BY <1>8, <2>2 DEF OnNewConnection
    <3> QED BY <1>1, <3>1, MoveWithin DEF Phases, CountedPhases, KnownPhases
  <2> QED BY <2>1, <2>2
<1>9. CASE Load(c)
  BY <1>9, LoopAtInv DEF Load
<1>10. CASE CompareExchange(c)
  <2>1. CASE LoopAt(c, connections) /\ UNCHANGED connections
    BY <1>10, <2>1, LoopAtInv DEF CompareExchange
  <2>2. CASE /\ connections = seen[c]
             /\ connections' = Increment(connections)
             /\ Goto(c, "admitted")
             /\ UNCHANGED seen
    <3>1. pc[c] = "cas" /\ UNCHANGED <<active, enabled>>
      BY <1>10 DEF CompareExchange
    <3>2. c \notin Counted /\ c \in Known /\ c \notin Missed
      BY <1>4, <3>1 DEF CountedPhases, KnownPhases
    <3>3. /\ Counted' = Counted \cup {c} /\ Known' = Known /\ Missed' = Missed
      BY <1>6, <2>2, <3>2 DEF Phases, CountedPhases, KnownPhases
    <3>4. Cardinality(Counted') = counted + 1 /\ counted + 1 < WordSize
      BY <1>3, <3>2, <3>3
    <3>5. CountOffByMissed'
      BY <1>1, <1>5, <2>2, <3>1, <3>3, <3>4 DEF CountOffByMissed, known, missed
    <3>6. LimitOffByMissed'
      <4>1. connections < MaxConnections
        BY <1>1, <2>2, <3>1 DEF Within
      <4>2. counted + 1 <= MaxConnections + missed
        BY <1>1, <1>3, <4>1, ConstantTypes
      <4>3. Cardinality(Admitted') <= Cardinality(Counted') /\ Cardinality(Admitted') \in Nat
        BY SetsAreSubsets, MoveOne, FS_Subset
      <4> QED BY <1>3, <3>3, <3>4, <4>2, <4>3, ConstantTypes DEF LimitOffByMissed, missed
    <3> QED BY <1>1, <1>5, <1>7, <2>2, <3>1, <3>5, <3>6 DEF Phases
  <2> QED BY <1>10, <2>1, <2>2 DEF CompareExchange
<1>11. CASE Reject(c)
  <2> DEFINE phase == IF HasDelay THEN "delayed" ELSE "closing"
  <2>1. /\ pc[c] = "reject" /\ Goto(c, phase) /\ connections' = Increment(connections)
        /\ UNCHANGED <<active, enabled, seen>>
    BY <1>11 DEF Reject
  <2>2. phase \in Phases /\ phase \in {"delayed", "closing"}
    BY DEF Phases
  <2> HIDE DEF phase
  <2>3. c \notin Counted /\ c \in Known /\ c \notin Missed /\ c \notin Admitted
    BY <1>4, <2>1 DEF CountedPhases, KnownPhases
  <2>4. /\ Counted' = Counted \cup {c} /\ Known' = Known
        /\ Missed' = Missed /\ Admitted' = Admitted
    BY <1>6, <2>1, <2>2, <2>3 DEF CountedPhases, KnownPhases
  <2>5. Cardinality(Counted') = counted + 1 /\ counted + 1 < WordSize
    BY <1>3, <2>3, <2>4
  <2>6. CountOffByMissed'
    BY <1>1, <1>5, <2>1, <2>4, <2>5 DEF CountOffByMissed, known, missed
  <2>7. LimitOffByMissed'
    BY <1>1, <2>4 DEF LimitOffByMissed, admitted, missed
  <2> QED BY <1>1, <1>5, <1>7, <2>1, <2>2, <2>6, <2>7
<1>12. CASE DelayTimer(c) \/ ConnectionCloses(c)
  <2>1. /\ \/ pc[c] \in {"admitted", "delayed"} /\ Goto(c, "closing")
           \/ pc[c] \in {"accepted", "passed"} /\ Goto(c, "stray")
        /\ UNCHANGED <<connections, active, enabled, seen>>
    BY <1>12 DEF DelayTimer, ConnectionCloses
  <2>2. CASE pc[c] \in {"admitted", "delayed"} /\ Goto(c, "closing")
    BY <1>1, <2>1, <2>2, MoveWithin DEF Phases, CountedPhases, KnownPhases
  <2>3. CASE pc[c] \in {"accepted", "passed"} /\ Goto(c, "stray")
    BY <1>1, <2>1, <2>3, MoveWithin DEF Phases, CountedPhases, KnownPhases
  <2> QED BY <2>1, <2>2, <2>3
<1>13. CASE OnEvent(c)
  <2>1. /\ connections' = Decrement(connections) /\ active' = Decrement(active)
        /\ UNCHANGED <<enabled, seen>>
    BY <1>13 DEF OnEvent
  <2>2. CASE pc[c] = "closing" /\ Goto(c, "closed")
    <3>1. c \in Counted /\ c \in Known /\ c \notin Missed /\ c \notin Admitted
      BY <1>4, <2>2 DEF CountedPhases, KnownPhases
    <3>2. /\ Counted' = Counted \ {c} /\ Known' = Known \ {c}
          /\ Missed' = Missed /\ Admitted' = Admitted
      BY <1>6, <2>2, <3>1 DEF Phases, CountedPhases, KnownPhases
    <3>3. /\ Cardinality(Counted') = counted - 1 /\ counted > 0
          /\ Cardinality(Known') = known - 1 /\ known > 0
      BY <1>3, <3>1, <3>2
    <3>4. CountOffByMissed'
      BY <1>5, <2>1, <3>2, <3>3 DEF CountOffByMissed, missed
    <3>5. LimitOffByMissed'
      BY <1>1, <3>2 DEF LimitOffByMissed, admitted, missed
    <3> QED BY <1>5, <1>7, <2>1, <2>2, <3>4, <3>5 DEF Phases
  <2>3. CASE pc[c] = "stray" /\ Goto(c, "gone")
    <3>1. c \notin Counted /\ c \notin Known /\ c \notin Missed /\ c \notin Admitted
      BY <1>4, <2>3 DEF CountedPhases, KnownPhases
    <3>2. /\ Counted' = Counted /\ Known' = Known
          /\ Missed' = Missed \cup {c} /\ Admitted' = Admitted
      BY <1>6, <2>3, <3>1 DEF Phases, CountedPhases, KnownPhases
    <3>3. Cardinality(Missed') = missed + 1 /\ missed + 1 < WordSize
      BY <1>3, <3>1, <3>2
    <3>4. CountOffByMissed'
      BY <1>5, <2>1, <3>2, <3>3 DEF CountOffByMissed, counted, known
    <3>5. LimitOffByMissed'
      BY <1>1, <1>3, <3>2, <3>3, ConstantTypes DEF LimitOffByMissed, admitted
    <3> QED BY <1>5, <1>7, <2>1, <2>3, <3>4, <3>5 DEF Phases
  <2> QED BY <1>13, <2>2, <2>3 DEF OnEvent
<1> QED BY <1>8, <1>9, <1>10, <1>11, <1>12, <1>13 DEF Step

\* The inductive invariant: the counter and the gauge are the sizes of the sets
\* they stand for, but for stray close events, and a filter about to compare
\* and exchange has seen a value below the limit.
THEOREM Invariance == Spec => []IInv
<1>1. Init => IInv
  BY InitIInv
<1>2. IInv /\ [Next]_vars => IInv'
  <2> SUFFICES ASSUME IInv, [Next]_vars PROVE IInv'
    OBVIOUS
  <2> USE DEF IInv, TypeOK, CountOffByMissed, LimitOffByMissed, Counted, Known, Missed, Admitted,
              Within
  <2>1. CASE SetRuntime
    BY <2>1 DEF SetRuntime
  <2>2. ASSUME NEW c \in Conns, Step(c) PROVE IInv'
    BY <2>2, StepIInv
  <2>3. CASE UNCHANGED vars
    BY <2>3 DEF vars
  <2> QED BY <2>1, <2>2, <2>3 DEF Next
<1> QED BY <1>1, <1>2, PTL DEF Spec

\* connections_ and the gauge are exact in every interleaving, as long as
\* every connection that closed had been counted by onNewConnection.
THEOREM CountsAreExact == Spec => []CountExact
<1>1. IInv => CountExact
  <2> SUFFICES ASSUME IInv, Missed = {}
               PROVE  connections = Cardinality(Counted) /\ active = Cardinality(Known)
    BY DEF CountExact
  <2>1. Cardinality(Missed) = 0
    BY FS_EmptySet
  <2>2. connections \in 0 .. (WordSize - 1) /\ active \in 0 .. (WordSize - 1)
    BY DEF IInv, TypeOK
  <2>3. Cardinality(Counted) \in Nat /\ Cardinality(Known) \in Nat
    BY SetsAreSubsets, ConstantTypes, FS_Subset, FS_CardinalityType
  <2> QED BY <2>1, <2>2, <2>3, ConstantTypes DEF IInv, CountOffByMissed
<1> QED BY <1>1, Invariance, PTL

\* However many workers race for the last place, at most max_connections
\* connections are admitted, as long as every connection that closed had been
\* counted.
THEOREM LimitIsKept == Spec => []LimitHolds
<1>1. IInv => LimitHolds
  BY FS_EmptySet, ConstantTypes DEF IInv, LimitHolds, LimitOffByMissed
<1> QED BY <1>1, Invariance, PTL

\* What the closes of connections that were never counted do to the counters
\* and to the limit in a release build: each takes one from connections_ and
\* from the gauge, modulo their size, and lets one more connection in.
THEOREM DriftIsOnePerMissedClose == Spec => [](CountOffByMissed /\ LimitOffByMissed)
<1>1. IInv => CountOffByMissed /\ LimitOffByMissed
  BY DEF IInv
<1> QED BY <1>1, Invariance, PTL

===============================================================================
