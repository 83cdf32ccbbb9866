--------------------------- MODULE ConnPoolProofs ---------------------------
(***************************************************************************)
(* Proofs about ConnPool, for any number of clients and streams and any    *)
(* limits.  The counters are sums over the clients, and the loop of        *)
(* onUpstreamReady and the removal from a list are recursive functions:    *)
(* what they compute is shown by induction, which follows from the least   *)
(* element of a set of numbers.  Then every part of a handler is shown to  *)
(* keep the pool `Good', and every step to keep PoolInv.                   *)
(***************************************************************************)
EXTENDS ConnPool, FiniteSetTheorems, SequenceTheorems, WellFoundedInduction, TLAPS

-----------------------------------------------------------------------------
(* The inductive invariant.                                                *)

ClientType == [state : {"NONE", "CONNECTING", "READY", "BUSY", "DRAINING"},
               remaining : Nat, limit : Nat, negative : Nat, active : SUBSET Streams]

PoolType ==
    [client : [Clients -> ClientType], ready : Seq(Clients), connecting : Seq(Clients),
     pending : Seq(Streams), purge : Seq(Streams), connectingCapacity : Int,
     numActive : Int, draining : BOOLEAN, deleted : BOOLEAN, clusterCapacity : Int,
     clusterPending : Int, full : {"none", "connections", "pending"},
     lost : SUBSET Streams]

FrameType == [client : Clients \cup {NoOne}, phase : {"none", "reset", "purge"},
              stream : Streams \cup {NoOne}]

\* So far peers have only sent SETTINGS that close the connection to new streams.
\* A lower limit that is not 0 makes the cluster's capacity drift in the code.
OnlyDrains == lowered = 0

\* A place without a client is empty, a connecting client has no stream, and a
\* client that serves may take one more stream in its life.
ClientOK(k) ==
    /\ k.state = "NONE" => k = NoClient
    /\ k.state = "CONNECTING" => k.active = {}
    /\ k.state \in {"READY", "BUSY"} => k.remaining > 0

\* A client keeps to its limit, or its limit is 0 and its negative capacity
\* covers its streams.
LimitOK(k) ==
    k.state # "NONE" =>
      /\ \/ k.limit = ConcurrentLimit /\ k.negative = 0 /\ numActiveStreams(k) <= k.limit
         \/ k.limit = 0 /\ k.state = "DRAINING" /\ k.negative >= numActiveStreams(k)
      /\ k.state = "READY" => numActiveStreams(k) < k.limit

\* All clients are well formed, and a stream has one client.
ClientsOK(m) ==
    /\ m \in [Clients -> ClientType]
    /\ \A c \in Clients : ClientOK(m[c]) /\ (OnlyDrains => LimitOK(m[c]))
    /\ \A c, d \in Clients : c # d => m[c].active \cap m[d].active = {}

\* What the clients amount to.
Waiting(k) == IF k.state = "CONNECTING" THEN effectiveConcurrentStreamLimit(k) ELSE 0

TotalConnecting(m) == SumFunctionOnSet([c \in Clients |-> Waiting(m[c])], Clients)

TotalUnused(m) == SumFunctionOnSet([c \in Clients |-> currentUnusedCapacity(m[c])], Clients)

Work(m) == UNION {m[c].active : c \in Clients}

\* The lists hold the clients of their state, and a stream waits once.
Listed(p) ==
    /\ ToSet(p.ready) = InState(p, "READY")
    /\ ToSet(p.connecting) = InState(p, "CONNECTING")
    /\ IsInjective(p.pending)

\* The counters are what they count.
Counted(p) ==
    /\ p.connectingCapacity = TotalConnecting(p.client)
    /\ p.clusterPending = Len(p.pending)
    /\ p.numActive = Cardinality(Work(p.client))
    /\ OnlyDrains => p.clusterCapacity = TotalUnused(p.client)

Core(p) == p \in PoolType /\ ClientsOK(p.client) /\ Listed(p) /\ Counted(p)

\* A stream waits or has a client, none waits while a client is ready, and a
\* deleted pool is idle.
Apart(p) == Work(p.client) \cap ToSet(p.pending) = {}
Served(p) == p.pending = <<>> \/ p.ready = <<>>
Rests(p) == p.deleted => isIdle(p) /\ p.purge = <<>>

Good(p) == Core(p) /\ Apart(p) /\ Served(p) /\ Rests(p)

\* Streams are purged while the client that goes down is in the pool.
Attended(p) == p.purge # <<>> => Dying \cap Live(p) # {}

\* The frame of the client that goes down: it stays in the pool until the frame
\* ends, and while streams are purged it serves none and takes none.
Held(p) ==
    /\ closing \in FrameType
    /\ closing.client = NoOne <=> closing.phase = "none"
    /\ closing.phase = "none" => closing.stream = NoOne
    /\ Dying \subseteq Live(p)
    /\ p.purge # <<>> => closing.phase = "purge"
    /\ closing.phase = "purge" =>
         \A d \in Dying : p.client[d].remaining = 0 /\ p.client[d].active = {}
    /\ \A c \in InState(p, "CONNECTING") \ Dying : p.client[c].remaining > 0

PoolInv == Good(pool) /\ Held(pool)

\* What a part of a handler keeps from the pool p to the pool q: the purge goes
\* on or is over, only streams being purged are lost, draining is not turned on,
\* the client that goes down stays and remains spent, and connecting clients
\* are new or as they were.
Keeps(p, q) ==
    /\ q.purge = p.purge \/ q.purge = <<>>
    /\ q.lost # p.lost => p.purge # <<>>
    /\ q.draining => p.draining
    /\ \A d \in Dying \cap Live(p) :
         /\ d \in Live(q)
         /\ p.client[d].remaining = 0 /\ p.client[d].active = {}
              => q.client[d].remaining = 0 /\ q.client[d].active = {}
    /\ \A c \in InState(q, "CONNECTING") : q.client[c] \in {p.client[c], NewClient}

\* Only a pool that drains loses streams.
Answers(p, q) == q.lost # p.lost => p.draining

\* No stream comes, goes or is attached.
Still(p, q) == q.pending = p.pending /\ Work(q.client) \subseteq Work(p.client)

\* The oldest waiting streams, which are the last of the list, have been taken
\* out, and no other stream has got a client.
OldestTaken(p, q) ==
    /\ Len(q.pending) <= Len(p.pending)
    /\ \A i \in 1 .. Len(q.pending) : q.pending[i] = p.pending[i]
    /\ Work(q.client) \subseteq Work(p.client)
         \cup {p.pending[i] : i \in Len(q.pending) + 1 .. Len(p.pending)}

-----------------------------------------------------------------------------
(* Induction.  The well-founded order of the numbers gives a least element, *)
(* and that gives induction over a set of numbers and over the subsets of a *)
(* finite set; the loops and the sums of the model are reasoned about so.  *)

LEMMA LeastNumber ==
    ASSUME NEW T \in SUBSET Nat, T # {}
    PROVE  \E n \in T : \A m \in T : n <= m
<1>1. PICK n \in T : \A m \in T : ~(<<m, n>> \in OpToRel(<, Nat))
  BY NatLessThanWellFounded, WFMin
<1>2. \A m \in T : ~(m < n)
  BY <1>1 DEF OpToRel
<1> QED BY <1>2

LEMMA Induction ==
    ASSUME NEW T \in SUBSET Nat, 0 \in T, \A n \in T : n + 1 \in T
    PROVE  T = Nat
<1> SUFFICES ASSUME Nat \ T # {} PROVE FALSE
  OBVIOUS
<1>1. PICK n \in Nat \ T : \A m \in Nat \ T : n <= m
  BY LeastNumber
<1>2. n # 0
  BY <1>1
<1>3. n - 1 \in T
  BY <1>1, <1>2
<1>4. (n - 1) + 1 = n
  OBVIOUS
<1> QED BY <1>3, <1>4

LEMMA SubsetInduction ==
    ASSUME NEW S, IsFiniteSet(S), NEW F, {} \in F,
           \A T \in SUBSET S : \A x \in S \ T : T \in F => T \cup {x} \in F
    PROVE  S \in F
<1> DEFINE N == {n \in Nat : \A T \in SUBSET S : Cardinality(T) = n => T \in F}
<1>1. 0 \in N
  <2> SUFFICES ASSUME NEW T \in SUBSET S, Cardinality(T) = 0 PROVE T \in F
    OBVIOUS
  <2>1. T = {}
    BY FS_Subset, FS_EmptySet
  <2> QED BY <2>1
<1>2. ASSUME NEW n \in N PROVE n + 1 \in N
  <2> SUFFICES ASSUME NEW T \in SUBSET S, Cardinality(T) = n + 1 PROVE T \in F
    OBVIOUS
  <2>0. n \in Nat /\ (n + 1) - 1 = n /\ n + 1 # 0
    OBVIOUS
  <2>1. IsFiniteSet(T)
    BY FS_Subset
  <2>2. T # {}
    BY <2>0, FS_EmptySet
  <2>3. PICK x \in T : TRUE
    BY <2>2
  <2>4. Cardinality(T \ {x}) = n
    BY <2>0, <2>1, <2>3, FS_RemoveElement
  <2>5. T \ {x} \in F
    BY <1>2, <2>4
  <2>6. T = (T \ {x}) \cup {x}
    BY <2>3
  <2> QED BY <2>3, <2>5, <2>6
<1> HIDE DEF N
<1>3. N = Nat
  <2>1. N \in SUBSET Nat
    BY DEF N
  <2> QED BY <1>1, <1>2, <2>1, Induction
<1> QED BY <1>3, FS_CardinalityType DEF N

-----------------------------------------------------------------------------
(* Sums over finite sets.                                                  *)

\* g is the function that SumFunctionOnSet defines by recursion on the sets of D.
Sums(g, f, D) ==
    g = [s \in D |-> IF s = {} THEN 0
                     ELSE f[CHOOSE x \in s : TRUE] + g[s \ {CHOOSE x \in s : TRUE}]]

LEMMA SumsExist ==
    ASSUME NEW f, NEW S, IsFiniteSet(S)
    PROVE  \E g : Sums(g, f, SUBSET S)
<1> DEFINE Small(n) == {s \in SUBSET S : Cardinality(s) <= n}
           N == {n \in Nat : \E g : Sums(g, f, Small(n))}
<1>0. \A s \in SUBSET S : IsFiniteSet(s) /\ Cardinality(s) \in Nat
                          /\ (Cardinality(s) = 0 <=> s = {})
  BY FS_Subset, FS_CardinalityType, FS_EmptySet
<1>1. 0 \in N
  <2> DEFINE g == [s \in Small(0) |-> 0]
  <2>1. \A s \in Small(0) : s = {}
    BY <1>0
  <2>2. Sums(g, f, Small(0))
    BY <2>1 DEF Sums
  <2> QED BY <2>2
<1>2. ASSUME NEW n \in N PROVE n + 1 \in N
  <2>1. PICK g : Sums(g, f, Small(n))
    OBVIOUS
  <2> DEFINE h == [s \in Small(n + 1) |->
                     IF s = {} THEN 0
                     ELSE f[CHOOSE x \in s : TRUE] + g[s \ {CHOOSE x \in s : TRUE}]]
  <2>2. \A t \in Small(n) : t \in Small(n + 1) /\ g[t] = h[t]
    <3> TAKE t \in Small(n)
    <3>1. t \in Small(n + 1)
      BY <1>0
    <3> QED BY <2>1, <3>1 DEF Sums
  <2>3. \A s \in Small(n + 1) : s # {} => s \ {CHOOSE x \in s : TRUE} \in Small(n)
    <3> TAKE s \in Small(n + 1)
    <3> HAVE s # {}
    <3>1. (CHOOSE x \in s : TRUE) \in s
      OBVIOUS
    <3>2. Cardinality(s \ {CHOOSE x \in s : TRUE}) = Cardinality(s) - 1
      BY <1>0, <3>1, FS_RemoveElement
    <3> QED BY <1>0, <3>2
  <2>4. h = [s \in Small(n + 1) |->
                     IF s = {} THEN 0
                     ELSE f[CHOOSE x \in s : TRUE] + h[s \ {CHOOSE x \in s : TRUE}]]
    <3> DEFINE D == Small(n + 1)
               c(s) == CHOOSE x \in s : TRUE
               B(s) == IF s = {} THEN 0 ELSE f[c(s)] + g[s \ {c(s)}]
               C(s) == IF s = {} THEN 0 ELSE f[c(s)] + h[s \ {c(s)}]
    <3>1. \A s \in D : s # {} => s \ {c(s)} \in Small(n)
      BY <2>3
    <3>2. \A s \in D : s # {} => g[s \ {c(s)}] = h[s \ {c(s)}]
      <4> HIDE DEF h, Small, D, c
      <4> QED BY <2>2, <3>1
    <3>3. \A s \in D : B(s) = C(s)
      <4> HIDE DEF h, Small, D, c
      <4> QED BY <3>2
    <3>4. [s \in D |-> B(s)] = [s \in D |-> C(s)]
      <4> HIDE DEF B, C, D
      <4> QED BY <3>3
    <3> QED BY <3>4
  <2>5. Sums(h, f, Small(n + 1))
    <3> HIDE DEF h, Small
    <3> QED BY <2>4 DEF Sums
  <2>6. n + 1 \in Nat
    OBVIOUS
  <2> HIDE DEF h, Small
  <2> QED BY <2>5, <2>6, Zenon
<1>3. Cardinality(S) \in N
  <2>1. N \in SUBSET Nat
    OBVIOUS
  <2> HIDE DEF N
  <2>2. N = Nat
    BY <1>1, <1>2, <2>1, Induction
  <2> QED BY <2>2, FS_CardinalityType
<1>4. Small(Cardinality(S)) = SUBSET S
  BY FS_Subset
<1> QED BY <1>3, <1>4

LEMMA SumsUnique ==
    ASSUME NEW f, NEW S, NEW T, NEW g, NEW h, IsFiniteSet(S), S \subseteq T,
           Sums(g, f, SUBSET S), Sums(h, f, SUBSET T)
    PROVE  g[S] = h[S]
<1> DEFINE N == {n \in Nat : \A s \in SUBSET S : Cardinality(s) = n => g[s] = h[s]}
<1>0. \A s \in SUBSET S : IsFiniteSet(s) /\ Cardinality(s) \in Nat
                          /\ (Cardinality(s) = 0 <=> s = {})
  BY FS_Subset, FS_CardinalityType, FS_EmptySet
<1>1. 0 \in N
  <2> SUFFICES ASSUME NEW s \in SUBSET S, Cardinality(s) = 0 PROVE g[s] = h[s]
    OBVIOUS
  <2>1. s = {}
    BY <1>0
  <2> QED BY <2>1 DEF Sums
<1>2. ASSUME NEW n \in N PROVE n + 1 \in N
  <2> SUFFICES ASSUME NEW s \in SUBSET S, Cardinality(s) = n + 1 PROVE g[s] = h[s]
    OBVIOUS
  <2> DEFINE c == CHOOSE x \in s : TRUE
  <2>1. s # {}
    BY <1>0
  <2>2. c \in s
    BY <2>1
  <2>0. n \in Nat /\ (n + 1) - 1 = n
    OBVIOUS
  <2>3. Cardinality(s \ {c}) = n
    BY <1>0, <2>0, <2>2, FS_RemoveElement
  <2>4. g[s \ {c}] = h[s \ {c}]
    BY <1>2, <2>3
  <2>5. g[s] = f[c] + g[s \ {c}]
    BY <2>1 DEF Sums
  <2>6. h[s] = f[c] + h[s \ {c}]
    BY <2>1 DEF Sums
  <2> QED BY <2>4, <2>5, <2>6
<1> HIDE DEF N
<1>3. N = Nat
  <2>1. N \in SUBSET Nat
    BY DEF N
  <2> QED BY <1>1, <1>2, <2>1, Induction
<1> QED BY <1>0, <1>3 DEF N

LEMMA SumIs ==
    ASSUME NEW f, NEW S, IsFiniteSet(S), NEW g, Sums(g, f, SUBSET S)
    PROVE  SumFunctionOnSet(f, S) = g[S]
<1> DEFINE h == CHOOSE h : Sums(h, f, SUBSET S)
<1>1. SumFunctionOnSet(f, S) = h[S]
  BY DEF Sums, SumFunctionOnSet, FoldFunctionOnSet, MapThenFoldSet
<1>2. Sums(h, f, SUBSET S)
  OBVIOUS
<1> HIDE DEF h
<1> QED BY <1>1, <1>2, SumsUnique

LEMMA SumOfNone == \A f : SumFunctionOnSet(f, {}) = 0
<1> TAKE f
<1>1. IsFiniteSet({})
  BY FS_EmptySet
<1>2. PICK g : Sums(g, f, SUBSET {})
  BY <1>1, SumsExist
<1>3. g[{}] = 0
  BY <1>2 DEF Sums
<1> QED BY <1>1, <1>2, <1>3, SumIs

LEMMA SumRecursive ==
    ASSUME NEW f, NEW S, IsFiniteSet(S), S # {}
    PROVE  \E c \in S : SumFunctionOnSet(f, S) = f[c] + SumFunctionOnSet(f, S \ {c})
<1> DEFINE c == CHOOSE x \in S : TRUE
<1>1. c \in S
  OBVIOUS
<1>2. PICK g : Sums(g, f, SUBSET S)
  BY SumsExist
<1>3. IsFiniteSet(S \ {c})
  BY FS_Subset
<1>4. PICK h : Sums(h, f, SUBSET (S \ {c}))
  BY <1>3, SumsExist
<1>5. g[S] = f[c] + g[S \ {c}]
  BY <1>2 DEF Sums
<1>6. h[S \ {c}] = g[S \ {c}]
  <2> DEFINE R == S \ {c}
  <2>1. R \subseteq S
    OBVIOUS
  <2>2. IsFiniteSet(R) /\ Sums(h, f, SUBSET R)
    BY <1>3, <1>4
  <2> HIDE DEF R
  <2>3. h[R] = g[R]
    BY <1>2, <2>1, <2>2, SumsUnique
  <2> QED BY <2>3 DEF R
<1>7. SumFunctionOnSet(f, S) = g[S]
  BY <1>2, SumIs
<1>8. SumFunctionOnSet(f, S \ {c}) = h[S \ {c}]
  BY <1>3, <1>4, SumIs
<1> QED BY <1>1, <1>5, <1>6, <1>7, <1>8

LEMMA SumType ==
    ASSUME NEW S, IsFiniteSet(S), NEW f, \A x \in S : f[x] \in Int
    PROVE  SumFunctionOnSet(f, S) \in Int
<1> DEFINE Sum(s) == SumFunctionOnSet(f, s)
           N == {n \in Nat : \A s \in SUBSET S : Cardinality(s) = n => Sum(s) \in Int}
<1>0. \A s \in SUBSET S : IsFiniteSet(s) /\ Cardinality(s) \in Nat
                          /\ (Cardinality(s) = 0 <=> s = {})
  BY FS_Subset, FS_CardinalityType, FS_EmptySet
<1>1. 0 \in N
  <2> SUFFICES ASSUME NEW s \in SUBSET S, Cardinality(s) = 0 PROVE Sum(s) \in Int
    OBVIOUS
  <2>1. Sum(s) = 0
    BY <1>0, SumOfNone
  <2> HIDE DEF Sum
  <2> QED BY <2>1
<1>2. ASSUME NEW n \in N PROVE n + 1 \in N
  <2> SUFFICES ASSUME NEW s \in SUBSET S, Cardinality(s) = n + 1 PROVE Sum(s) \in Int
    OBVIOUS
  <2>0. n \in Nat /\ (n + 1) - 1 = n /\ n + 1 # 0
    OBVIOUS
  <2>1. s # {}
    BY <1>0, <2>0
  <2>2. PICK c \in s : Sum(s) = f[c] + Sum(s \ {c})
    BY <1>0, <2>1, SumRecursive
  <2>3. Cardinality(s \ {c}) = n
    BY <1>0, <2>0, FS_RemoveElement
  <2> HIDE DEF Sum
  <2>4. Sum(s \ {c}) \in Int
    BY <1>2, <2>3
  <2> QED BY <2>2, <2>4
<1> HIDE DEF N
<1>3. N = Nat
  <2>1. N \in SUBSET Nat
    BY DEF N
  <2> QED BY <1>1, <1>2, <2>1, Induction
<1> QED BY <1>0, <1>3 DEF N

\* Any element may be taken out first.
LEMMA SumTakeOne ==
    ASSUME NEW S, IsFiniteSet(S), NEW f, \A x \in S : f[x] \in Int
    PROVE  /\ SumFunctionOnSet(f, S) \in Int
           /\ \A x \in S : SumFunctionOnSet(f, S) = f[x] + SumFunctionOnSet(f, S \ {x})
<1> DEFINE Sum(s) == SumFunctionOnSet(f, s)
           OK(s) == Sum(s) \in Int /\ \A x \in s : Sum(s) = f[x] + Sum(s \ {x})
           N == {n \in Nat : \A s \in SUBSET S : Cardinality(s) = n => OK(s)}
<1>0. \A s \in SUBSET S : IsFiniteSet(s) /\ Cardinality(s) \in Nat
                          /\ (Cardinality(s) = 0 <=> s = {})
  BY FS_Subset, FS_CardinalityType, FS_EmptySet
<1>1. 0 \in N
  <2> SUFFICES ASSUME NEW s \in SUBSET S, Cardinality(s) = 0 PROVE OK(s)
    OBVIOUS
  <2>1. s = {}
    BY <1>0
  <2>2. Sum(s) = 0
    BY <2>1, SumOfNone
  <2> HIDE DEF Sum
  <2> QED BY <2>1, <2>2
<1>2. ASSUME NEW n \in N PROVE n + 1 \in N
  <2> SUFFICES ASSUME NEW s \in SUBSET S, Cardinality(s) = n + 1 PROVE OK(s)
    OBVIOUS
  <2>1. s # {}
    BY <1>0
  <2>2. PICK c \in s : Sum(s) = f[c] + Sum(s \ {c})
    BY <1>0, <2>1, SumRecursive
  <2>0. n \in Nat /\ (n + 1) - 1 = n
    OBVIOUS
  <2>3. \A x \in s : Cardinality(s \ {x}) = n
    BY <1>0, <2>0, FS_RemoveElement
  <2> HIDE DEF Sum
  <2>4. \A x \in s : OK(s \ {x})
    <3> HIDE DEF OK
    <3> QED BY <1>2, <2>3
  <2>5. Sum(s) \in Int
    BY <2>2, <2>4
  <2>6. ASSUME NEW x \in s PROVE Sum(s) = f[x] + Sum(s \ {x})
    <3>1. CASE x = c
      BY <3>1, <2>2
    <3>2. CASE x # c
      <4>1. Sum(s \ {c}) = f[x] + Sum((s \ {c}) \ {x})
        BY <2>4, <3>2
      <4>2. Sum(s \ {x}) = f[c] + Sum((s \ {x}) \ {c})
        BY <2>4, <3>2
      <4>3. (s \ {c}) \ {x} = (s \ {x}) \ {c}
        OBVIOUS
      <4>4. f[c] \in Int /\ f[x] \in Int /\ Sum(s \ {c}) \in Int /\ Sum(s \ {x}) \in Int
        BY <2>4
      <4> DEFINE r == Sum((s \ {c}) \ {x})
      <4>5. r \in Int
        <5> DEFINE R == (s \ {c}) \ {x}
        <5>1. IsFiniteSet(R) /\ \A y \in R : f[y] \in Int
          BY FS_Subset
        <5>2. SumFunctionOnSet(f, R) \in Int
          BY <5>1, SumType
        <5> QED BY <5>2 DEF Sum
      <4>6. Sum(s) = f[c] + (f[x] + r) /\ Sum(s \ {x}) = f[c] + r
        BY <2>2, <4>1, <4>2, <4>3
      <4> HIDE DEF r
      <4> QED BY <4>4, <4>5, <4>6
    <3> QED BY <3>1, <3>2
  <2> QED BY <2>5, <2>6
<1> HIDE DEF N, OK
<1>3. N = Nat
  <2>1. N \in SUBSET Nat
    BY DEF N
  <2> QED BY <1>1, <1>2, <2>1, Induction
<1>4. OK(S)
  BY <1>0, <1>3 DEF N
<1> QED BY <1>4 DEF OK

LEMMA SumAdd ==
    ASSUME NEW S, IsFiniteSet(S), NEW x, x \notin S, NEW f,
           \A y \in S \cup {x} : f[y] \in Int
    PROVE  SumFunctionOnSet(f, S \cup {x}) = f[x] + SumFunctionOnSet(f, S)
<1> DEFINE T == S \cup {x}
<1>1. IsFiniteSet(T)
  BY FS_AddElement
<1>2. T \ {x} = S /\ x \in T
  OBVIOUS
<1> HIDE DEF T
<1>3. SumFunctionOnSet(f, T) = f[x] + SumFunctionOnSet(f, T \ {x})
  <2>1. \A y \in T : f[y] \in Int
    BY DEF T
  <2> QED BY <1>1, <1>2, <2>1, SumTakeOne
<1> QED BY <1>2, <1>3 DEF T

\* The sum depends on the summands only, is the difference of two sums when they
\* are differences, and is a natural number when they are.
LEMMA SumMinus ==
    ASSUME NEW S, IsFiniteSet(S), NEW f, NEW g, NEW h,
           \A x \in S : f[x] \in Int /\ g[x] \in Int /\ h[x] = f[x] - g[x]
    PROVE  SumFunctionOnSet(h, S) = SumFunctionOnSet(f, S) - SumFunctionOnSet(g, S)
<1> DEFINE F == {T \in SUBSET S :
                   SumFunctionOnSet(h, T) = SumFunctionOnSet(f, T) - SumFunctionOnSet(g, T)}
<1>1. {} \in F
  <2>1. /\ SumFunctionOnSet(h, {}) = 0 /\ SumFunctionOnSet(f, {}) = 0
        /\ SumFunctionOnSet(g, {}) = 0
    BY SumOfNone
  <2> QED BY <2>1
<1>2. ASSUME NEW T \in SUBSET S, NEW x \in S \ T, T \in F PROVE T \cup {x} \in F
  <2>1. IsFiniteSet(T) /\ x \notin T
    BY FS_Subset
  <2>2. \A y \in T \cup {x} : f[y] \in Int /\ g[y] \in Int /\ h[y] \in Int
    OBVIOUS
  <2>3. SumFunctionOnSet(h, T \cup {x}) = h[x] + SumFunctionOnSet(h, T)
    BY <2>1, <2>2, SumAdd
  <2>4. SumFunctionOnSet(f, T \cup {x}) = f[x] + SumFunctionOnSet(f, T)
    BY <2>1, <2>2, SumAdd
  <2>5. SumFunctionOnSet(g, T \cup {x}) = g[x] + SumFunctionOnSet(g, T)
    BY <2>1, <2>2, SumAdd
  <2>6. /\ SumFunctionOnSet(f, T) \in Int /\ SumFunctionOnSet(g, T) \in Int
        /\ SumFunctionOnSet(h, T) = SumFunctionOnSet(f, T) - SumFunctionOnSet(g, T)
        /\ f[x] \in Int /\ g[x] \in Int /\ h[x] = f[x] - g[x]
    BY <1>2, <2>1, SumType
  <2>7. SumFunctionOnSet(h, T \cup {x})
          = SumFunctionOnSet(f, T \cup {x}) - SumFunctionOnSet(g, T \cup {x})
    BY <2>3, <2>4, <2>5, <2>6
  <2> QED BY <2>7
<1> HIDE DEF F
<1>3. S \in F
  BY <1>1, <1>2, SubsetInduction
<1> QED BY <1>3 DEF F

LEMMA SumSame ==
    ASSUME NEW S, IsFiniteSet(S), NEW f, NEW g,
           \A x \in S : f[x] \in Int /\ g[x] = f[x]
    PROVE  SumFunctionOnSet(g, S) = SumFunctionOnSet(f, S)
<1> DEFINE z == [x \in S |-> 0]
<1>1. SumFunctionOnSet(z, S) = SumFunctionOnSet(f, S) - SumFunctionOnSet(f, S)
  <2>1. \A x \in S : z[x] = f[x] - f[x]
    OBVIOUS
  <2> HIDE DEF z
  <2> QED BY <2>1, SumMinus
<1>2. SumFunctionOnSet(g, S) = SumFunctionOnSet(f, S) - SumFunctionOnSet(z, S)
  <2>1. \A x \in S : z[x] \in Int /\ g[x] = f[x] - z[x]
    OBVIOUS
  <2> HIDE DEF z
  <2> QED BY <2>1, SumMinus
<1>3. SumFunctionOnSet(f, S) \in Int
  BY SumType
<1> QED BY <1>1, <1>2, <1>3

LEMMA SumNat ==
    ASSUME NEW S, IsFiniteSet(S), NEW f, \A x \in S : f[x] \in Nat
    PROVE  SumFunctionOnSet(f, S) \in Nat
<1> DEFINE F == {T \in SUBSET S : SumFunctionOnSet(f, T) \in Nat}
<1>1. {} \in F
  <2>1. SumFunctionOnSet(f, {}) = 0
    BY SumOfNone
  <2> QED BY <2>1
<1>2. ASSUME NEW T \in SUBSET S, NEW x \in S \ T, T \in F PROVE T \cup {x} \in F
  <2>1. IsFiniteSet(T) /\ x \notin T
    BY FS_Subset
  <2>2. \A y \in T \cup {x} : f[y] \in Int
    OBVIOUS
  <2>3. SumFunctionOnSet(f, T \cup {x}) = f[x] + SumFunctionOnSet(f, T)
    BY <2>1, <2>2, SumAdd
  <2>4. f[x] \in Nat /\ SumFunctionOnSet(f, T) \in Nat
    BY <1>2
  <2>5. SumFunctionOnSet(f, T \cup {x}) \in Nat
    BY <2>3, <2>4
  <2> QED BY <2>5
<1> HIDE DEF F
<1>3. S \in F
  BY <1>1, <1>2, SubsetInduction
<1> QED BY <1>3 DEF F

\* A sum may be split, or summed over a larger set with zeros.
LEMMA SumSplit ==
    ASSUME NEW S, IsFiniteSet(S), NEW A \in SUBSET S, NEW f, \A x \in S : f[x] \in Int
    PROVE  SumFunctionOnSet(f, S) = SumFunctionOnSet(f, A) + SumFunctionOnSet(f, S \ A)
<1> DEFINE F == {T \in SUBSET A :
                   SumFunctionOnSet(f, S)
                     = SumFunctionOnSet(f, T) + SumFunctionOnSet(f, S \ T)}
<1>1. {} \in F
  <2>1. SumFunctionOnSet(f, {}) = 0
    BY SumOfNone
  <2>2. SumFunctionOnSet(f, S) \in Int /\ S \ {} = S
    BY SumType
  <2> QED BY <2>1, <2>2
<1>2. ASSUME NEW T \in SUBSET A, NEW x \in A \ T, T \in F PROVE T \cup {x} \in F
  <2> DEFINE R == S \ T
  <2>1. IsFiniteSet(T) /\ x \notin T /\ IsFiniteSet(R) /\ x \in R
    BY FS_Subset
  <2>2. \A y \in S : f[y] \in Int
    OBVIOUS
  <2>3. SumFunctionOnSet(f, T \cup {x}) = f[x] + SumFunctionOnSet(f, T)
    BY <2>1, <2>2, SumAdd
  <2>4. SumFunctionOnSet(f, R) = f[x] + SumFunctionOnSet(f, R \ {x})
    <3>1. \A y \in R : f[y] \in Int
      OBVIOUS
    <3> HIDE DEF R
    <3> QED BY <2>1, <3>1, SumTakeOne
  <2>5. R \ {x} = S \ (T \cup {x}) /\ IsFiniteSet(R \ {x})
    BY FS_Subset
  <2>6. SumFunctionOnSet(f, S) = SumFunctionOnSet(f, T) + SumFunctionOnSet(f, R)
    BY <1>2
  <2>7. /\ SumFunctionOnSet(f, T) \in Int /\ f[x] \in Int
        /\ SumFunctionOnSet(f, R \ {x}) \in Int
    BY <2>1, <2>2, <2>5, SumType
  <2>8. SumFunctionOnSet(f, S)
          = SumFunctionOnSet(f, T \cup {x}) + SumFunctionOnSet(f, R \ {x})
    <3> HIDE DEF R
    <3> QED BY <2>3, <2>4, <2>6, <2>7
  <2> QED BY <2>5, <2>8
<1> HIDE DEF F
<1>3. A \in F
  <2>1. IsFiniteSet(A)
    BY FS_Subset
  <2> QED BY <1>1, <1>2, <2>1, SubsetInduction
<1> QED BY <1>3 DEF F

LEMMA SumWithZeros ==
    ASSUME NEW S, IsFiniteSet(S), NEW A \in SUBSET S, NEW f,
           \A x \in S : f[x] \in Int, \A x \in S \ A : f[x] = 0
    PROVE  SumFunctionOnSet(f, S) = SumFunctionOnSet(f, A)
<1> DEFINE R == S \ A
<1>1. IsFiniteSet(A) /\ IsFiniteSet(R)
  BY FS_Subset
<1>2. SumFunctionOnSet(f, R) = SumFunctionOnSet(f, R) - SumFunctionOnSet(f, R)
  <2>1. \A x \in R : f[x] \in Int /\ f[x] = f[x] - f[x]
    OBVIOUS
  <2> HIDE DEF R
  <2> QED BY <1>1, <2>1, SumMinus
<1>3. SumFunctionOnSet(f, R) \in Int /\ SumFunctionOnSet(f, A) \in Int
  BY <1>1, SumType
<1>4. SumFunctionOnSet(f, S) = SumFunctionOnSet(f, A) + SumFunctionOnSet(f, R)
  BY SumSplit
<1> HIDE DEF R
<1> QED BY <1>2, <1>3, <1>4

\* One summand changes.
LEMMA SumChangeOne ==
    ASSUME NEW S, IsFiniteSet(S), NEW c \in S, NEW f, NEW g,
           \A x \in S : f[x] \in Int /\ g[x] \in Int, \A x \in S \ {c} : g[x] = f[x]
    PROVE  SumFunctionOnSet(g, S) = SumFunctionOnSet(f, S) + (g[c] - f[c])
<1> DEFINE R == S \ {c}
<1>1. IsFiniteSet(R) /\ \A x \in R : f[x] \in Int /\ g[x] = f[x]
  BY FS_Subset
<1>2. SumFunctionOnSet(g, R) = SumFunctionOnSet(f, R) /\ SumFunctionOnSet(f, R) \in Int
  <2> HIDE DEF R
  <2> QED BY <1>1, SumSame, SumType
<1>3. /\ SumFunctionOnSet(f, S) = f[c] + SumFunctionOnSet(f, R)
      /\ SumFunctionOnSet(g, S) = g[c] + SumFunctionOnSet(g, R)
  BY SumTakeOne
<1> HIDE DEF R
<1> QED BY <1>2, <1>3

-----------------------------------------------------------------------------
(* Lists.                                                                  *)

\* kept is the function that Without defines by recursion.
Kept(kept, list, S, N) ==
    kept = [n \in 0 .. N |->
              IF n = 0 THEN <<>>
              ELSE IF list[n] \in S THEN kept[n - 1] ELSE Append(kept[n - 1], list[n])]

LEMMA KeptExists ==
    ASSUME NEW list, NEW S, NEW N \in Nat
    PROVE  \E kept : Kept(kept, list, S, N)
<1> DEFINE T == {n \in Nat : \E kept : Kept(kept, list, S, n)}
<1>1. 0 \in T
  <2> DEFINE k == [n \in 0 .. 0 |-> <<>>]
  <2>1. \A n \in 0 .. 0 : n = 0
    OBVIOUS
  <2>2. Kept(k, list, S, 0)
    BY <2>1 DEF Kept
  <2> HIDE DEF k
  <2> QED BY <2>2, Zenon
<1>2. ASSUME NEW n \in T PROVE n + 1 \in T
  <2>1. n \in Nat /\ n + 1 \in Nat
    OBVIOUS
  <2>2. PICK g : Kept(g, list, S, n)
    OBVIOUS
  <2> DEFINE D == 0 .. (n + 1)
             B(k, i) == IF i = 0 THEN <<>>
                        ELSE IF list[i] \in S THEN k[i - 1] ELSE Append(k[i - 1], list[i])
             h == [i \in D |-> B(g, i)]
  <2>3. \A i \in 0 .. n : i \in D /\ g[i] = h[i]
    <3>1. \A i \in 0 .. n : g[i] = B(g, i)
      BY <2>2, Zenon DEF Kept
    <3> HIDE DEF B
    <3> QED BY <2>1, <3>1
  <2>4. \A i \in D : i # 0 => i - 1 \in 0 .. n
    BY <2>1
  <2>5. \A i \in D : B(g, i) = B(h, i)
    <3> HIDE DEF h, D
    <3> QED BY <2>3, <2>4
  <2>6. h = [i \in D |-> B(h, i)]
    <3>1. [i \in D |-> B(g, i)] = [i \in D |-> B(h, i)]
      <4> HIDE DEF B, D, h
      <4> QED BY <2>5
    <3> QED BY <3>1
  <2>7. Kept(h, list, S, n + 1)
    <3> HIDE DEF h
    <3> QED BY <2>6 DEF Kept
  <2> HIDE DEF h
  <2> QED BY <2>1, <2>7, Zenon
<1>3. T \in SUBSET Nat
  OBVIOUS
<1> HIDE DEF T
<1>4. T = Nat
  BY <1>1, <1>2, <1>3, Induction
<1> QED BY <1>4 DEF T

LEMMA WithoutProperties ==
    ASSUME NEW A, NEW list \in Seq(A), NEW S
    PROVE  /\ Without(list, S) \in Seq(A)
           /\ ToSet(Without(list, S)) = ToSet(list) \ S
           /\ IsInjective(list) => IsInjective(Without(list, S))
           /\ \A s \in ToSet(list) : IsInjective(list) /\ S = {s} =>
                Len(Without(list, S)) = Len(list) - 1
<1> DEFINE N == Len(list)
           k == CHOOSE kept : Kept(kept, list, S, N)
<1>0. N \in Nat /\ DOMAIN list = 1 .. N /\ \A i \in 1 .. N : list[i] \in A
  OBVIOUS
<1>1. Without(list, S) = k[N]
  BY DEF Without, Kept
<1>2. Kept(k, list, S, N)
  BY <1>0, KeptExists
<1> HIDE DEF k
<1>3. /\ k[0] = <<>>
      /\ \A n \in 1 .. N : k[n] = IF list[n] \in S THEN k[n - 1]
                                  ELSE Append(k[n - 1], list[n])
  <2>1. \A n \in 0 .. N :
          k[n] = IF n = 0 THEN <<>>
                 ELSE IF list[n] \in S THEN k[n - 1] ELSE Append(k[n - 1], list[n])
    BY <1>2, Zenon DEF Kept
  <2> QED BY <1>0, <2>1
<1> DEFINE Part(n) == {list[i] : i \in 1 .. n}
           OK(n) == /\ k[n] \in Seq(A) /\ ToSet(k[n]) = Part(n) \ S
                    /\ IsInjective(list) => IsInjective(k[n])
                    /\ \A s \in ToSet(list) : IsInjective(list) /\ S = {s} =>
                         Len(k[n]) = IF s \in Part(n) THEN n - 1 ELSE n
           T == {n \in Nat : n <= N => OK(n)}
<1>4. 0 \in T
  <2>1. Part(0) = {} /\ ToSet(k[0]) = {}
    BY <1>3 DEF ToSet
  <2>2. k[0] \in Seq(A) /\ Len(k[0]) = 0 /\ IsInjective(k[0])
    BY <1>3 DEF IsInjective
  <2> HIDE DEF Part
  <2> QED BY <2>1, <2>2
<1>5. ASSUME NEW n \in T PROVE n + 1 \in T
  <2> SUFFICES ASSUME n + 1 <= N PROVE OK(n + 1)
    OBVIOUS
  <2> DEFINE x == list[n + 1]
  <2>1. n \in Nat /\ n <= N /\ n + 1 \in 1 .. N /\ (n + 1) - 1 = n /\ x \in A
    BY <1>0
  <2>2. OK(n)
    BY <2>1
  <2>3. Part(n + 1) = Part(n) \cup {x}
    <3>1. 1 .. (n + 1) = (1 .. n) \cup {n + 1}
      BY <2>1
    <3> QED BY <3>1
  <2>4. k[n + 1] = IF x \in S THEN k[n] ELSE Append(k[n], x)
    BY <1>3, <2>1
  <2>5. IsInjective(list) => x \notin Part(n)
    <3> SUFFICES ASSUME IsInjective(list), NEW i \in 1 .. n, list[i] = x PROVE FALSE
      OBVIOUS
    <3>1. i \in DOMAIN list /\ n + 1 \in DOMAIN list /\ i # n + 1
      BY <1>0, <2>1
    <3> QED BY <3>1 DEF IsInjective
  <2>6. x \in ToSet(list)
    BY <1>0, <2>1 DEF ToSet
  <2> HIDE DEF Part, x
  <2>7. CASE x \in S
    BY <2>1, <2>2, <2>3, <2>4, <2>5, <2>7
  <2>8. CASE x \notin S
    <3> DEFINE t == k[n]
    <3>1. t \in Seq(A) /\ ToSet(t) = Part(n) \ S
      BY <2>2
    <3>2. k[n + 1] = Append(t, x) /\ k[n + 1] \in Seq(A) /\ Len(k[n + 1]) = Len(t) + 1
      BY <2>1, <2>4, <2>8, <3>1
    <3>3. ToSet(Append(t, x)) = ToSet(t) \cup {x}
      <4>1. /\ DOMAIN t = 1 .. Len(t) /\ DOMAIN Append(t, x) = 1 .. (Len(t) + 1)
            /\ Append(t, x)[Len(t) + 1] = x
            /\ \A i \in 1 .. Len(t) : Append(t, x)[i] = t[i]
        BY <2>1, <3>1
      <4>2. 1 .. (Len(t) + 1) = (1 .. Len(t)) \cup {Len(t) + 1}
        BY <3>1
      <4> HIDE DEF t
      <4> QED BY <4>1, <4>2 DEF ToSet
    <3>4. IsInjective(list) => IsInjective(Append(t, x))
      <4> SUFFICES ASSUME IsInjective(list) PROVE IsInjective(Append(t, x))
        OBVIOUS
      <4>1. IsInjective(t) /\ x \notin ToSet(t)
        BY <2>2, <2>5, <3>1
      <4> HIDE DEF t
      <4> QED BY <2>1, <3>1, <4>1 DEF IsInjective, ToSet
    <3>5. \A s \in ToSet(list) : IsInjective(list) /\ S = {s} =>
             Len(k[n + 1]) = IF s \in Part(n + 1) THEN n ELSE n + 1
      BY <2>1, <2>2, <2>3, <2>8, <3>1, <3>2
    <3> HIDE DEF t
    <3> QED BY <2>1, <2>3, <2>8, <3>1, <3>2, <3>3, <3>4, <3>5
  <2> QED BY <2>7, <2>8
<1>6. OK(N)
  <2>1. T \in SUBSET Nat
    OBVIOUS
  <2> HIDE DEF T
  <2>2. T = Nat
    BY <1>4, <1>5, <2>1, Induction
  <2>3. N \in T /\ N <= N
    BY <1>0, <2>2
  <2> HIDE DEF OK
  <2> QED BY <2>3 DEF T
<1>7. Part(N) = ToSet(list)
  BY <1>0 DEF ToSet
<1> HIDE DEF Part
<1> QED BY <1>1, <1>6, <1>7

LEMMA ListBasics ==
    ASSUME NEW A, NEW list \in Seq(A)
    PROVE  /\ Len(list) \in Nat /\ (Len(list) = 0 <=> list = <<>>)
           /\ ToSet(list) = {} <=> list = <<>>
           /\ ToSet(list) \subseteq A
           /\ list # <<>> => /\ Head(list) \in ToSet(list) /\ Tail(list) \in Seq(A)
                             /\ ToSet(Tail(list)) \subseteq ToSet(list)
<1>1. Len(list) \in Nat /\ DOMAIN list = 1 .. Len(list) /\ (Len(list) = 0 <=> list = <<>>)
  OBVIOUS
<1>2. \A i \in 1 .. Len(list) : list[i] \in A
  OBVIOUS
<1>3. ToSet(list) \subseteq A
  BY <1>1, <1>2 DEF ToSet
<1>4. CASE list = <<>>
  <2>1. ToSet(list) = {}
    BY <1>1, <1>4 DEF ToSet
  <2> QED BY <1>1, <1>4, <2>1
<1>5. CASE list # <<>>
  <2>1. 1 \in DOMAIN list /\ Head(list) = list[1]
    BY <1>1, <1>5
  <2>2. Head(list) \in ToSet(list)
    BY <2>1 DEF ToSet
  <2>3. /\ Tail(list) \in Seq(A) /\ Len(Tail(list)) = Len(list) - 1
        /\ \A i \in 1 .. Len(Tail(list)) : Tail(list)[i] = list[i + 1]
    BY <1>5, HeadTailProperties
  <2>4. \A i \in DOMAIN Tail(list) : i + 1 \in DOMAIN list /\ Tail(list)[i] = list[i + 1]
    BY <1>1, <2>3
  <2>5. ToSet(Tail(list)) \subseteq ToSet(list)
    BY <2>4 DEF ToSet
  <2> QED BY <1>1, <1>3, <1>5, <2>2, <2>3, <2>5
<1> QED BY <1>4, <1>5

LEMMA FirstAdded ==
    ASSUME NEW A, NEW list \in Seq(A), NEW x \in A
    PROVE  /\ <<x>> \o list \in Seq(A) /\ Len(<<x>> \o list) = Len(list) + 1
           /\ ToSet(<<x>> \o list) = ToSet(list) \cup {x}
           /\ IsInjective(list) /\ x \notin ToSet(list) => IsInjective(<<x>> \o list)
<1> DEFINE l == <<x>> \o list
           N == Len(list)
<1>1. /\ l \in Seq(A) /\ Len(l) = N + 1 /\ N \in Nat /\ DOMAIN l = 1 .. (N + 1)
      /\ DOMAIN list = 1 .. N
      /\ l[1] = x /\ \A i \in 1 .. N : l[i + 1] = list[i]
  OBVIOUS
<1> HIDE DEF l, N
<1>2. \A i \in 1 .. (N + 1) : i # 1 => (i - 1) \in 1 .. N /\ l[i] = list[i - 1]
  BY <1>1
<1>3. ToSet(l) = ToSet(list) \cup {x}
  <2>1. ToSet(l) \subseteq ToSet(list) \cup {x}
    <3> SUFFICES ASSUME NEW i \in 1 .. (N + 1) PROVE l[i] \in ToSet(list) \cup {x}
      BY <1>1 DEF ToSet
    <3>1. i # 1 => list[i - 1] \in ToSet(list)
      BY <1>1, <1>2 DEF ToSet
    <3> QED BY <1>1, <1>2, <3>1
  <2>2. x \in ToSet(l)
    <3>1. 1 \in 1 .. (N + 1)
      BY <1>1
    <3> QED BY <1>1, <3>1 DEF ToSet
  <2>3. ASSUME NEW i \in 1 .. N PROVE list[i] \in ToSet(l)
    <3>1. i + 1 \in 1 .. (N + 1) /\ l[i + 1] = list[i]
      BY <1>1
    <3> QED BY <1>1, <3>1 DEF ToSet
  <2>4. ToSet(list) \subseteq ToSet(l)
    BY <1>1, <2>3 DEF ToSet
  <2> QED BY <2>1, <2>2, <2>4
<1>4. ASSUME IsInjective(list), x \notin ToSet(list) PROVE IsInjective(l)
  <2>1. \A i \in 1 .. N : list[i] # x
    BY <1>1, <1>4 DEF ToSet
  <2> SUFFICES ASSUME NEW i \in 1 .. (N + 1), NEW j \in 1 .. (N + 1), l[i] = l[j] PROVE i = j
    BY <1>1 DEF IsInjective
  <2>2. CASE i = 1 \/ j = 1
    BY <1>1, <1>2, <2>1, <2>2
  <2>3. CASE i # 1 /\ j # 1
    <3>1. (i - 1) = (j - 1)
      <4>1. /\ (i - 1) \in DOMAIN list /\ (j - 1) \in DOMAIN list
            /\ list[i - 1] = list[j - 1]
        BY <1>1, <1>2, <2>3
      <4> QED BY <1>4, <4>1, Zenon DEF IsInjective
    <3> QED BY <1>1, <3>1
  <2> QED BY <2>2, <2>3
<1> QED BY <1>1, <1>3, <1>4 DEF l, N

LEMMA LastTaken ==
    ASSUME NEW A, NEW list \in Seq(A), list # <<>>, IsInjective(list)
    PROVE  /\ Front(list) \in Seq(A) /\ Len(Front(list)) = Len(list) - 1
           /\ IsInjective(Front(list))
           /\ \A i \in 1 .. Len(Front(list)) : Front(list)[i] = list[i]
           /\ Last(list) = list[Len(list)] /\ Last(list) \in A
           /\ Last(list) \in ToSet(list)
           /\ ToSet(Front(list)) = ToSet(list) \ {Last(list)}
<1> DEFINE N == Len(list)
           f == Front(list)
<1>1. N \in Nat /\ N > 0 /\ DOMAIN list = 1 .. N /\ \A i \in 1 .. N : list[i] \in A
  OBVIOUS
<1>2. f \in Seq(A) /\ Len(f) = N - 1 /\ \A i \in 1 .. (N - 1) : f[i] = list[i]
  <2>1. f = SubSeq(list, 1, N - 1)
    BY DEF Front
  <2>2. \A i \in 1 .. (N - 1) : list[i] \in A
    BY <1>1
  <2>3. /\ SubSeq(list, 1, N - 1) \in Seq(A)
        /\ Len(SubSeq(list, 1, N - 1)) = IF 1 <= N - 1 THEN (N - 1) - 1 + 1 ELSE 0
        /\ \A i \in 1 .. (N - 1) - 1 + 1 : SubSeq(list, 1, N - 1)[i] = list[1 + i - 1]
    <3>1. 1 \in Int /\ N - 1 \in Int
      BY <1>1
    <3> HIDE DEF N
    <3> QED BY <2>2, <3>1, SubSeqProperties
  <2> HIDE DEF f
  <2> QED BY <1>1, <2>1, <2>3
<1>3. DOMAIN f = 1 .. (N - 1)
  BY <1>2
<1> HIDE DEF f, N
<1>4. N \in 1 .. N /\ \A i \in 1 .. (N - 1) : i \in 1 .. N /\ i # N
  BY <1>1
<1>5. \A i \in 1 .. N : i # N => i \in 1 .. (N - 1)
  BY <1>1
<1>6. Last(list) = list[N] /\ list[N] \in ToSet(list)
  BY <1>1, <1>4 DEF Last, ToSet, N
<1>7. IsInjective(f)
  BY <1>1, <1>2, <1>3, <1>4 DEF IsInjective
<1>8. ToSet(f) = ToSet(list) \ {list[N]}
  <2>1. ASSUME NEW i \in 1 .. (N - 1) PROVE f[i] \in ToSet(list) \ {list[N]}
    BY <1>1, <1>2, <1>4 DEF ToSet, IsInjective
  <2>2. ASSUME NEW i \in 1 .. N, list[i] # list[N] PROVE list[i] \in ToSet(f)
    <3>1. i \in 1 .. (N - 1)
      BY <1>5, <2>2
    <3> QED BY <1>2, <1>3, <3>1 DEF ToSet
  <2>3. ToSet(f) \subseteq ToSet(list) \ {list[N]}
    BY <1>3, <2>1 DEF ToSet
  <2>4. ToSet(list) \ {list[N]} \subseteq ToSet(f)
    BY <1>1, <2>2 DEF ToSet
  <2> QED BY <2>3, <2>4
<1> QED BY <1>1, <1>2, <1>4, <1>6, <1>7, <1>8 DEF f, N

-----------------------------------------------------------------------------
(* The clients.                                                            *)

LEMMA ClientCapacity ==
    ASSUME NEW k \in ClientType
    PROVE  /\ IsFiniteSet(k.active) /\ numActiveStreams(k) \in Nat
           /\ effectiveConcurrentStreamLimit(k) \in Nat /\ Waiting(k) \in Nat
           /\ currentUnusedCapacity(k) \in Int /\ drained(k) \in Nat
           /\ k.active = {} => /\ numActiveStreams(k) = 0
                               /\ currentUnusedCapacity(k) = effectiveConcurrentStreamLimit(k)
                               /\ drained(k) = effectiveConcurrentStreamLimit(k)
<1>1. IsFiniteSet(k.active)
  BY PoolAssumption, FS_Subset DEF ClientType
<1>2. numActiveStreams(k) \in Nat
  BY <1>1, FS_CardinalityType DEF numActiveStreams
<1>3. k.active = {} => numActiveStreams(k) = 0
  BY FS_EmptySet DEF numActiveStreams
<1>4. k.remaining \in Nat /\ k.limit \in Nat
  BY DEF ClientType
<1>5. effectiveConcurrentStreamLimit(k) \in Nat
  BY <1>4 DEF effectiveConcurrentStreamLimit, Smaller
<1>6. currentUnusedCapacity(k) \in Int
  BY <1>2, <1>4 DEF currentUnusedCapacity, Smaller
<1>7. k.active = {} => currentUnusedCapacity(k) = effectiveConcurrentStreamLimit(k)
  BY <1>3, <1>4 DEF currentUnusedCapacity, Smaller, effectiveConcurrentStreamLimit
<1> QED BY <1>1, <1>2, <1>3, <1>5, <1>6, <1>7 DEF drained, Waiting

LEMMA EmptyClient ==
    /\ NoClient \in ClientType /\ ClientOK(NoClient) /\ LimitOK(NoClient)
    /\ Waiting(NoClient) = 0 /\ currentUnusedCapacity(NoClient) = 0
    /\ NewClient \in ClientType /\ ClientOK(NewClient) /\ LimitOK(NewClient)
    /\ Waiting(NewClient) = effectiveConcurrentStreamLimit(NewClient)
    /\ currentUnusedCapacity(NewClient) = effectiveConcurrentStreamLimit(NewClient)
    /\ NewClient.remaining > 0
<1>1. NoClient \in ClientType /\ NewClient \in ClientType
  BY PoolAssumption DEF NoClient, NewClient, ClientType
<1>2. NoClient.active = {} /\ NewClient.active = {}
  BY DEF NoClient, NewClient
<1>3. ClientOK(NoClient) /\ ClientOK(NewClient)
  BY DEF NoClient, NewClient, ClientOK
<1>4. numActiveStreams(NewClient) = 0
  BY <1>1, <1>2, ClientCapacity
<1>5. LimitOK(NoClient) /\ LimitOK(NewClient)
  BY <1>4, PoolAssumption DEF NoClient, NewClient, LimitOK
<1>6. effectiveConcurrentStreamLimit(NoClient) = 0 /\ Waiting(NoClient) = 0
  BY DEF effectiveConcurrentStreamLimit, Smaller, NoClient, Waiting
<1>7. Waiting(NewClient) = effectiveConcurrentStreamLimit(NewClient)
  BY DEF NewClient, Waiting
<1>8. NewClient.remaining > 0
  BY PoolAssumption DEF NewClient
<1> QED BY <1>1, <1>2, <1>3, <1>5, <1>6, <1>7, <1>8, ClientCapacity

LEMMA TotalTypes ==
    ASSUME NEW m \in [Clients -> ClientType]
    PROVE  TotalConnecting(m) \in Nat /\ TotalUnused(m) \in Int /\ Work(m) \in SUBSET Streams
<1>1. \A c \in Clients : Waiting(m[c]) \in Nat /\ currentUnusedCapacity(m[c]) \in Int
  BY ClientCapacity
<1>2. TotalConnecting(m) \in Nat
  <2> DEFINE f == [c \in Clients |-> Waiting(m[c])]
  <2>1. \A c \in Clients : f[c] \in Nat
    BY <1>1
  <2> HIDE DEF f
  <2>2. SumFunctionOnSet(f, Clients) \in Nat
    BY <2>1, PoolAssumption, SumNat
  <2> QED BY <2>2 DEF f, TotalConnecting
<1>3. TotalUnused(m) \in Int
  <2> DEFINE f == [c \in Clients |-> currentUnusedCapacity(m[c])]
  <2>1. \A c \in Clients : f[c] \in Int
    BY <1>1
  <2> HIDE DEF f
  <2>2. SumFunctionOnSet(f, Clients) \in Int
    BY <2>1, PoolAssumption, SumType
  <2> QED BY <2>2 DEF f, TotalUnused
<1>4. Work(m) \in SUBSET Streams
  BY DEF Work, ClientType
<1> QED BY <1>2, <1>3, <1>4

\* One client changes.
LEMMA OneChanges ==
    ASSUME NEW m \in [Clients -> ClientType], NEW c \in Clients, NEW k \in ClientType
    PROVE  LET n == [m EXCEPT ![c] = k]
           IN  /\ n \in [Clients -> ClientType]
               /\ n[c] = k /\ \A d \in Clients \ {c} : n[d] = m[d]
               /\ TotalConnecting(n) = TotalConnecting(m) + (Waiting(k) - Waiting(m[c]))
               /\ TotalUnused(n) = TotalUnused(m)
                    + (currentUnusedCapacity(k) - currentUnusedCapacity(m[c]))
<1> DEFINE n == [m EXCEPT ![c] = k]
<1>1. n \in [Clients -> ClientType] /\ n[c] = k /\ \A d \in Clients \ {c} : n[d] = m[d]
  OBVIOUS
<1> HIDE DEF n
<1>2. \A d \in Clients : /\ Waiting(m[d]) \in Int /\ currentUnusedCapacity(m[d]) \in Int
                         /\ Waiting(n[d]) \in Int /\ currentUnusedCapacity(n[d]) \in Int
  BY <1>1, ClientCapacity
<1>3. TotalConnecting(n) = TotalConnecting(m) + (Waiting(k) - Waiting(m[c]))
  <2> DEFINE f == [d \in Clients |-> Waiting(m[d])]
             g == [d \in Clients |-> Waiting(n[d])]
  <2>1. \A d \in Clients : f[d] \in Int /\ g[d] \in Int
    BY <1>2
  <2>2. \A d \in Clients \ {c} : g[d] = f[d]
    BY <1>1
  <2>3. f[c] = Waiting(m[c]) /\ g[c] = Waiting(k)
    BY <1>1
  <2> HIDE DEF f, g
  <2>4. SumFunctionOnSet(g, Clients) = SumFunctionOnSet(f, Clients) + (g[c] - f[c])
    BY <2>1, <2>2, PoolAssumption, SumChangeOne
  <2> QED BY <2>3, <2>4 DEF f, g, TotalConnecting
<1>4. TotalUnused(n) = TotalUnused(m)
                    + (currentUnusedCapacity(k) - currentUnusedCapacity(m[c]))
  <2> DEFINE f == [d \in Clients |-> currentUnusedCapacity(m[d])]
             g == [d \in Clients |-> currentUnusedCapacity(n[d])]
  <2>1. \A d \in Clients : f[d] \in Int /\ g[d] \in Int
    BY <1>2
  <2>2. \A d \in Clients \ {c} : g[d] = f[d]
    BY <1>1
  <2>3. f[c] = currentUnusedCapacity(m[c]) /\ g[c] = currentUnusedCapacity(k)
    BY <1>1
  <2> HIDE DEF f, g
  <2>4. SumFunctionOnSet(g, Clients) = SumFunctionOnSet(f, Clients) + (g[c] - f[c])
    BY <2>1, <2>2, PoolAssumption, SumChangeOne
  <2> QED BY <2>3, <2>4 DEF f, g, TotalUnused
<1> QED BY <1>1, <1>3, <1>4 DEF n

LEMMA OneChangesOK ==
    ASSUME NEW m, ClientsOK(m), NEW c \in Clients, NEW k \in ClientType, ClientOK(k),
           OnlyDrains => LimitOK(k),
           \A d \in Clients \ {c} : m[d].active \cap k.active = {}
    PROVE  /\ ClientsOK([m EXCEPT ![c] = k])
           /\ Work([m EXCEPT ![c] = k]) = (Work(m) \ m[c].active) \cup k.active
<1> DEFINE n == [m EXCEPT ![c] = k]
<1>0. m \in [Clients -> ClientType]
  BY DEF ClientsOK
<1>1. n \in [Clients -> ClientType] /\ n[c] = k /\ \A d \in Clients \ {c} : n[d] = m[d]
  BY <1>0
<1> HIDE DEF n
<1>2. \A d, e \in Clients : d # e => m[d].active \cap m[e].active = {}
  BY DEF ClientsOK
<1>3. \A d, e \in Clients : d # e => n[d].active \cap n[e].active = {}
  BY <1>1, <1>2
<1>4. \A d \in Clients : ClientOK(n[d]) /\ (OnlyDrains => LimitOK(n[d]))
  BY <1>1 DEF ClientsOK
<1>5. Work(n) = (Work(m) \ m[c].active) \cup k.active
  BY <1>1, <1>2 DEF Work
<1> QED BY <1>1, <1>3, <1>4, <1>5 DEF ClientsOK, n

\* Several clients without streams are closed.
LEMMA SomeClosed ==
    ASSUME NEW m, ClientsOK(m), NEW S \in SUBSET Clients, \A c \in S : m[c].active = {}
    PROVE  LET n == [c \in Clients |-> IF c \in S THEN NoClient ELSE m[c]]
               X == S \cap {c \in Clients : m[c].state = "CONNECTING"}
           IN  /\ ClientsOK(n) /\ Work(n) = Work(m)
               /\ TotalConnecting(n) = TotalConnecting(m) -
                    SumFunctionOnSet(
                      [c \in Clients |-> effectiveConcurrentStreamLimit(m[c])], X)
               /\ TotalUnused(n) = TotalUnused(m) -
                    SumFunctionOnSet([c \in Clients |-> currentUnusedCapacity(m[c])], S)
<1> DEFINE n == [c \in Clients |-> IF c \in S THEN NoClient ELSE m[c]]
           X == S \cap {c \in Clients : m[c].state = "CONNECTING"}
<1>0. m \in [Clients -> ClientType]
  BY DEF ClientsOK
<1>1. /\ n \in [Clients -> ClientType]
      /\ \A c \in Clients : n[c] = IF c \in S THEN NoClient ELSE m[c]
  BY <1>0, EmptyClient
<1>2. X \in SUBSET Clients /\ \A c \in Clients : c \in X <=> c \in S /\ m[c].state = "CONNECTING"
  OBVIOUS
<1> HIDE DEF n, X
<1>3. NoClient.active = {}
  BY DEF NoClient
<1>4. ClientsOK(n)
  <2>1. \A c \in Clients : ClientOK(n[c]) /\ (OnlyDrains => LimitOK(n[c]))
    BY <1>1, EmptyClient DEF ClientsOK
  <2>2. \A c, d \in Clients : c # d => n[c].active \cap n[d].active = {}
    BY <1>1, <1>3 DEF ClientsOK
  <2> QED BY <1>1, <2>1, <2>2 DEF ClientsOK
<1>5. Work(n) = Work(m)
  <2>1. \A c \in Clients : n[c].active = m[c].active
    BY <1>1, <1>3
  <2> QED BY <2>1 DEF Work
<1>6. \A c \in Clients :
        /\ Waiting(m[c]) \in Int /\ currentUnusedCapacity(m[c]) \in Int
        /\ effectiveConcurrentStreamLimit(m[c]) \in Int
  BY <1>0, ClientCapacity
<1>7. IsFiniteSet(Clients) /\ IsFiniteSet(S) /\ IsFiniteSet(X)
  BY <1>2, PoolAssumption, FS_Subset
<1>8. TotalConnecting(n) = TotalConnecting(m) -
        SumFunctionOnSet([c \in Clients |-> effectiveConcurrentStreamLimit(m[c])], X)
  <2> DEFINE f == [c \in Clients |-> Waiting(m[c])]
             h == [c \in Clients |-> Waiting(n[c])]
             g == [c \in Clients |-> IF c \in S THEN Waiting(m[c]) ELSE 0]
             e == [c \in Clients |-> effectiveConcurrentStreamLimit(m[c])]
  <2>1. \A c \in Clients : f[c] \in Int /\ g[c] \in Int /\ h[c] = f[c] - g[c]
    BY <1>1, <1>6, EmptyClient
  <2>2. \A c \in X : e[c] \in Int /\ g[c] = e[c]
    BY <1>2, <1>6 DEF Waiting
  <2>3. \A c \in Clients \ X : g[c] = 0
    BY <1>2 DEF Waiting
  <2>4. TotalConnecting(m) = SumFunctionOnSet(f, Clients)
        /\ TotalConnecting(n) = SumFunctionOnSet(h, Clients)
    BY DEF TotalConnecting
  <2> HIDE DEF f, g, h, e
  <2>5. SumFunctionOnSet(h, Clients) = SumFunctionOnSet(f, Clients) - SumFunctionOnSet(g, Clients)
    BY <1>7, <2>1, SumMinus
  <2>6. SumFunctionOnSet(g, Clients) = SumFunctionOnSet(g, X)
    BY <1>2, <1>7, <2>1, <2>3, SumWithZeros
  <2>7. SumFunctionOnSet(g, X) = SumFunctionOnSet(e, X)
    BY <1>7, <2>2, SumSame
  <2> QED BY <2>4, <2>5, <2>6, <2>7 DEF e
<1>9. TotalUnused(n) = TotalUnused(m) -
        SumFunctionOnSet([c \in Clients |-> currentUnusedCapacity(m[c])], S)
  <2> DEFINE f == [c \in Clients |-> currentUnusedCapacity(m[c])]
             h == [c \in Clients |-> currentUnusedCapacity(n[c])]
             g == [c \in Clients |-> IF c \in S THEN currentUnusedCapacity(m[c]) ELSE 0]
  <2>1. \A c \in Clients : f[c] \in Int /\ g[c] \in Int /\ h[c] = f[c] - g[c]
    BY <1>1, <1>6, EmptyClient
  <2>2. \A c \in S : f[c] \in Int /\ g[c] = f[c]
    BY <1>6
  <2>3. \A c \in Clients \ S : g[c] = 0
    OBVIOUS
  <2>4. TotalUnused(m) = SumFunctionOnSet(f, Clients)
        /\ TotalUnused(n) = SumFunctionOnSet(h, Clients)
    BY DEF TotalUnused
  <2> HIDE DEF f, g, h
  <2>5. SumFunctionOnSet(h, Clients) = SumFunctionOnSet(f, Clients) - SumFunctionOnSet(g, Clients)
    BY <1>7, <2>1, SumMinus
  <2>6. SumFunctionOnSet(g, Clients) = SumFunctionOnSet(g, S)
    BY <1>7, <2>1, <2>3, SumWithZeros
  <2>7. SumFunctionOnSet(g, S) = SumFunctionOnSet(f, S)
    BY <1>7, <2>2, SumSame
  <2> QED BY <2>4, <2>5, <2>6, <2>7 DEF f
<1> QED BY <1>4, <1>5, <1>8, <1>9 DEF n, X

\* The state of one client is set.
LEMMA StateSet ==
    ASSUME NEW k \in ClientType, k.state # "NONE", NEW new \in {"READY", "BUSY", "DRAINING"}
    PROVE  LET j == setState(k, new)
           IN  /\ j \in ClientType /\ j.state = new /\ j.active = k.active
               /\ j.limit = k.limit /\ j.negative = k.negative
               /\ j.remaining = IF new = "DRAINING" /\ drained(k) > 0 THEN 0 ELSE k.remaining
               /\ Waiting(j) = 0
<1>1. setState(k, new) \in ClientType
  BY DEF setState, ClientType
<1> QED BY <1>1 DEF setState, ClientType, Waiting

LEMMA DrainingSet ==
    ASSUME NEW k \in ClientType, k.state # "NONE"
    PROVE  LET j == setState(k, "DRAINING")
           IN  /\ j \in ClientType /\ j.state = "DRAINING" /\ j.active = k.active
               /\ ClientOK(j) /\ (LimitOK(k) => LimitOK(j)) /\ Waiting(j) = 0
               /\ currentUnusedCapacity(j) = currentUnusedCapacity(k) - drained(k)
               /\ k.remaining = 0 => j.remaining = 0
<1> DEFINE j == setState(k, "DRAINING")
<1>1. /\ j \in ClientType /\ j.state = "DRAINING" /\ j.active = k.active
      /\ j.limit = k.limit /\ j.negative = k.negative /\ Waiting(j) = 0
      /\ j.remaining = IF drained(k) > 0 THEN 0 ELSE k.remaining
  BY StateSet
<1> HIDE DEF j
<1>2. numActiveStreams(j) = numActiveStreams(k) /\ numActiveStreams(k) \in Nat
  BY <1>1, ClientCapacity DEF numActiveStreams
<1>3. k.remaining \in Nat /\ k.limit \in Nat
  BY DEF ClientType
<1>4. currentUnusedCapacity(j) = currentUnusedCapacity(k) - drained(k)
  BY <1>1, <1>2, <1>3 DEF currentUnusedCapacity, drained, Smaller
<1>5. ClientOK(j)
  BY <1>1 DEF ClientOK
<1>6. LimitOK(k) => LimitOK(j)
  BY <1>1, <1>2 DEF LimitOK
<1> QED BY <1>1, <1>4, <1>5, <1>6 DEF j

\* Several clients start to drain.
LEMMA SomeDrained ==
    ASSUME NEW m, ClientsOK(m), NEW S \in SUBSET Clients,
           \A c \in S : m[c].state \notin {"NONE", "CONNECTING"}
    PROVE  LET n == [c \in Clients |-> IF c \in S THEN setState(m[c], "DRAINING") ELSE m[c]]
           IN  /\ ClientsOK(n) /\ Work(n) = Work(m)
               /\ TotalConnecting(n) = TotalConnecting(m)
               /\ TotalUnused(n) = TotalUnused(m) -
                    SumFunctionOnSet([c \in Clients |-> drained(m[c])], S)
<1> DEFINE n == [c \in Clients |-> IF c \in S THEN setState(m[c], "DRAINING") ELSE m[c]]
<1>0. m \in [Clients -> ClientType]
  BY DEF ClientsOK
<1>1. /\ n \in [Clients -> ClientType]
      /\ \A c \in Clients : n[c] = IF c \in S THEN setState(m[c], "DRAINING") ELSE m[c]
  BY <1>0, DrainingSet
<1> HIDE DEF n
<1>2. \A c \in Clients :
        /\ Waiting(m[c]) \in Int /\ currentUnusedCapacity(m[c]) \in Int /\ drained(m[c]) \in Int
  BY <1>0, ClientCapacity
<1>3. \A c \in Clients :
        /\ n[c].active = m[c].active /\ Waiting(n[c]) = Waiting(m[c])
        /\ ClientOK(n[c]) /\ (OnlyDrains => LimitOK(n[c]))
        /\ currentUnusedCapacity(n[c])
             = currentUnusedCapacity(m[c]) - (IF c \in S THEN drained(m[c]) ELSE 0)
  <2> TAKE c \in Clients
  <2>1. ClientOK(m[c]) /\ (OnlyDrains => LimitOK(m[c]))
    BY DEF ClientsOK
  <2>2. CASE c \in S
    <3>1. Waiting(m[c]) = 0
      BY <2>2 DEF Waiting
    <3> QED BY <1>0, <1>1, <2>1, <2>2, <3>1, DrainingSet
  <2>3. CASE c \notin S
    BY <1>1, <1>2, <2>1, <2>3
  <2> QED BY <2>2, <2>3
<1>4. ClientsOK(n)
  BY <1>1, <1>3 DEF ClientsOK
<1>5. Work(n) = Work(m)
  BY <1>3 DEF Work
<1>6. IsFiniteSet(Clients) /\ IsFiniteSet(S)
  BY PoolAssumption, FS_Subset
<1>7. TotalConnecting(n) = TotalConnecting(m)
  <2> DEFINE f == [c \in Clients |-> Waiting(m[c])]
             h == [c \in Clients |-> Waiting(n[c])]
  <2>1. \A c \in Clients : f[c] \in Int /\ h[c] = f[c]
    BY <1>2, <1>3
  <2>2. TotalConnecting(m) = SumFunctionOnSet(f, Clients)
        /\ TotalConnecting(n) = SumFunctionOnSet(h, Clients)
    BY DEF TotalConnecting
  <2> HIDE DEF f, h
  <2> QED BY <1>6, <2>1, <2>2, SumSame
<1>8. TotalUnused(n) = TotalUnused(m) -
        SumFunctionOnSet([c \in Clients |-> drained(m[c])], S)
  <2> DEFINE f == [c \in Clients |-> currentUnusedCapacity(m[c])]
             h == [c \in Clients |-> currentUnusedCapacity(n[c])]
             g == [c \in Clients |-> IF c \in S THEN drained(m[c]) ELSE 0]
             e == [c \in Clients |-> drained(m[c])]
  <2>1. \A c \in Clients : f[c] \in Int /\ g[c] \in Int /\ h[c] = f[c] - g[c]
    BY <1>2, <1>3
  <2>2. \A c \in S : e[c] \in Int /\ g[c] = e[c]
    BY <1>2
  <2>3. \A c \in Clients \ S : g[c] = 0
    OBVIOUS
  <2>4. TotalUnused(m) = SumFunctionOnSet(f, Clients)
        /\ TotalUnused(n) = SumFunctionOnSet(h, Clients)
    BY DEF TotalUnused
  <2> HIDE DEF f, g, h, e
  <2>5. SumFunctionOnSet(h, Clients) = SumFunctionOnSet(f, Clients) - SumFunctionOnSet(g, Clients)
    BY <1>6, <2>1, SumMinus
  <2>6. SumFunctionOnSet(g, Clients) = SumFunctionOnSet(g, S)
    BY <1>6, <2>1, <2>3, SumWithZeros
  <2>7. SumFunctionOnSet(g, S) = SumFunctionOnSet(e, S)
    BY <1>6, <2>2, SumSame
  <2> QED BY <2>4, <2>5, <2>6, <2>7 DEF e
<1> QED BY <1>4, <1>5, <1>7, <1>8 DEF n

-----------------------------------------------------------------------------
(* The parts of the handlers.                                              *)

\* From p to q the client c becomes k, and the lists and counters follow.
OneChange(p, q, c, k) ==
    /\ q \in PoolType /\ c \in Clients /\ k \in ClientType
    /\ q.client = [p.client EXCEPT ![c] = k]
    /\ ClientOK(k) /\ (OnlyDrains => LimitOK(k))
    /\ \A d \in Clients \ {c} : p.client[d].active \cap k.active = {}
    /\ ToSet(q.ready) = IF k.state = "READY" THEN ToSet(p.ready) \cup {c}
                        ELSE ToSet(p.ready) \ {c}
    /\ ToSet(q.connecting) = IF k.state = "CONNECTING" THEN ToSet(p.connecting) \cup {c}
                             ELSE ToSet(p.connecting) \ {c}
    /\ IsInjective(q.pending) /\ q.clusterPending = Len(q.pending)
    /\ q.connectingCapacity = p.connectingCapacity + (Waiting(k) - Waiting(p.client[c]))
    /\ q.numActive = Cardinality((Work(p.client) \ p.client[c].active) \cup k.active)
    /\ OnlyDrains => q.clusterCapacity = p.clusterCapacity
                       + (currentUnusedCapacity(k) - currentUnusedCapacity(p.client[c]))

LEMMA CoreOneChanges ==
    ASSUME NEW p, Core(p), NEW q, NEW c, NEW k, OneChange(p, q, c, k)
    PROVE  /\ Core(q) /\ q.client[c] = k /\ \A d \in Clients \ {c} : q.client[d] = p.client[d]
           /\ Work(q.client) = (Work(p.client) \ p.client[c].active) \cup k.active
           /\ Live(q) = IF k.state = "NONE" THEN Live(p) \ {c} ELSE Live(p) \cup {c}
<1> USE DEF OneChange
<1>0. p.client \in [Clients -> ClientType] /\ ClientsOK(p.client)
  BY DEF Core, ClientsOK
<1>1. /\ ClientsOK(q.client)
      /\ Work(q.client) = (Work(p.client) \ p.client[c].active) \cup k.active
  BY <1>0, OneChangesOK
<1>2. /\ q.client[c] = k /\ \A d \in Clients \ {c} : q.client[d] = p.client[d]
      /\ TotalConnecting(q.client)
           = TotalConnecting(p.client) + (Waiting(k) - Waiting(p.client[c]))
      /\ TotalUnused(q.client) = TotalUnused(p.client)
           + (currentUnusedCapacity(k) - currentUnusedCapacity(p.client[c]))
  BY <1>0, OneChanges
<1>3. \A st : InState(q, st) = IF k.state = st THEN InState(p, st) \cup {c}
                               ELSE InState(p, st) \ {c}
  BY <1>2 DEF InState
<1>4. Listed(q)
  BY <1>3 DEF Listed, Core
<1>5. Counted(q)
  BY <1>1, <1>2 DEF Counted, Core
<1>6. Live(q) = IF k.state = "NONE" THEN Live(p) \ {c} ELSE Live(p) \cup {c}
  BY <1>2 DEF Live
<1> QED BY <1>1, <1>2, <1>4, <1>5, <1>6 DEF Core

LEMMA KeepsSame == \A p : Keeps(p, p) /\ Answers(p, p) /\ Still(p, p)
BY DEF Keeps, Answers, Still

LEMMA KeepsTransitive ==
    ASSUME NEW p, NEW r, NEW q, Keeps(p, r), Keeps(r, q)
    PROVE  /\ Keeps(p, q)
           /\ Answers(p, r) /\ Answers(r, q) => Answers(p, q)
           /\ Still(p, r) /\ Still(r, q) => Still(p, q)
<1>1. \A d \in Dying \cap Live(p) :
         /\ d \in Live(q)
         /\ p.client[d].remaining = 0 /\ p.client[d].active = {}
              => q.client[d].remaining = 0 /\ q.client[d].active = {}
  BY DEF Keeps
<1>2. \A c \in InState(q, "CONNECTING") : q.client[c] \in {p.client[c], NewClient}
  BY DEF Keeps, InState
<1>3. /\ q.purge = p.purge \/ q.purge = <<>>
      /\ q.lost # p.lost => p.purge # <<>>
      /\ q.draining => p.draining
  BY DEF Keeps
<1>4. Answers(p, r) /\ Answers(r, q) => Answers(p, q)
  BY DEF Keeps, Answers
<1>5. Still(p, r) /\ Still(r, q) => Still(p, q)
  BY DEF Still
<1> QED BY <1>1, <1>2, <1>3, <1>4, <1>5 DEF Keeps

LEMMA AttendedKept ==
    ASSUME NEW p, NEW q, Attended(p), Keeps(p, q)
    PROVE  Attended(q)
BY DEF Attended, Keeps

LEMMA FreeClient ==
    ASSUME NEW p, Live(p) = {} \/ Cardinality(Live(p)) < MaxConnections
    PROVE  \E c \in Clients : c \notin Live(p)
<1> SUFFICES ASSUME Live(p) = Clients PROVE FALSE
  BY DEF Live
<1>1. Cardinality(Clients) \in Nat
  BY PoolAssumption, FS_CardinalityType
<1>2. Clients # {}
  BY <1>1, PoolAssumption, FS_EmptySet
<1> QED BY <1>1, <1>2, PoolAssumption

LEMMA TryCreate ==
    ASSUME NEW p, Core(p), NEW a
    PROVE  LET q == tryCreateNewConnection(p, a)
           IN  /\ Core(q) /\ Keeps(p, q) /\ Answers(p, q) /\ Still(p, q)
               /\ Live(p) \subseteq Live(q)
               /\ q.ready = p.ready /\ q.purge = p.purge /\ q.deleted = p.deleted
               /\ q.lost = p.lost /\ q.draining = p.draining
<1> DEFINE q == tryCreateNewConnection(p, a)
           c == CHOOSE free \in Clients : free \notin Live(p)
           e == effectiveConcurrentStreamLimit(NewClient)
           r == [p EXCEPT !.client[c] = NewClient, !.connecting = <<c>> \o @,
                          !.connectingCapacity = @ + e, !.clusterCapacity = @ + e]
<1>1. CASE q = p
  BY <1>1, KeepsSame
<1>2. CASE q # p
  <2>1. q = r /\ (Live(p) = {} \/ Cardinality(Live(p)) < MaxConnections)
    BY <1>2 DEF tryCreateNewConnection
  <2>2. c \in Clients /\ c \notin Live(p)
    BY <2>1, FreeClient
  <2> HIDE DEF c, e, q
  <2>3. p \in PoolType /\ p.client \in [Clients -> ClientType] /\ p.connecting \in Seq(Clients)
    BY DEF Core, PoolType
  <2>4. e \in Nat /\ NewClient \in ClientType
    BY EmptyClient, ClientCapacity DEF e
  <2>5. p.client[c] = NoClient
    BY <2>2, <2>3 DEF Core, ClientsOK, ClientOK, Live
  <2>6. /\ r.client = [p.client EXCEPT ![c] = NewClient] /\ r.connecting = <<c>> \o p.connecting
        /\ r.connectingCapacity = p.connectingCapacity + e
        /\ r.clusterCapacity = p.clusterCapacity + e
        /\ r.ready = p.ready /\ r.pending = p.pending /\ r.purge = p.purge
        /\ r.numActive = p.numActive /\ r.draining = p.draining /\ r.deleted = p.deleted
        /\ r.clusterPending = p.clusterPending /\ r.lost = p.lost
    BY <2>3 DEF PoolType
  <2>7. /\ <<c>> \o p.connecting \in Seq(Clients)
        /\ ToSet(<<c>> \o p.connecting) = ToSet(p.connecting) \cup {c}
    BY <2>2, <2>3, FirstAdded
  <2>8. r \in PoolType
    <3> DEFINE m == [p.client EXCEPT ![c] = NewClient]
               l == <<c>> \o p.connecting
               x == p.connectingCapacity + e
               y == p.clusterCapacity + e
    <3>1. r = [p EXCEPT !.client = m, !.connecting = l, !.connectingCapacity = x,
                        !.clusterCapacity = y]
      OBVIOUS
    <3>2. m \in [Clients -> ClientType] /\ l \in Seq(Clients) /\ x \in Int /\ y \in Int
      BY <2>2, <2>3, <2>4, <2>7 DEF PoolType
    <3> HIDE DEF m, l, x, y, r
    <3> QED BY <2>3, <3>1, <3>2 DEF PoolType
  <2> HIDE DEF r
  <2>9. c \notin ToSet(p.ready)
    BY <2>2 DEF Core, Listed, InState, Live
  <2>10. NewClient.state = "CONNECTING" /\ NewClient.active = {} /\ NoClient.active = {}
    BY DEF NewClient, NoClient
  <2>11. p.connectingCapacity \in Int /\ p.clusterCapacity \in Int
    BY <2>3 DEF PoolType
  <2>12. /\ Core(r) /\ r.client[c] = NewClient
         /\ \A d \in Clients \ {c} : r.client[d] = p.client[d]
         /\ Work(r.client) = (Work(p.client) \ p.client[c].active) \cup NewClient.active
         /\ Live(r) = Live(p) \cup {c}
    <3>1. r.connectingCapacity = p.connectingCapacity + (Waiting(NewClient) - Waiting(p.client[c]))
      BY <2>4, <2>5, <2>6, <2>11, EmptyClient DEF e
    <3>2. r.clusterCapacity = p.clusterCapacity
             + (currentUnusedCapacity(NewClient) - currentUnusedCapacity(p.client[c]))
      BY <2>4, <2>5, <2>6, <2>11, EmptyClient DEF e
    <3>3. r.numActive = Cardinality((Work(p.client) \ p.client[c].active) \cup NewClient.active)
      <4>1. (Work(p.client) \ p.client[c].active) \cup NewClient.active = Work(p.client)
        BY <2>5, <2>10
      <4> QED BY <2>6, <4>1 DEF Core, Counted
    <3>4. IsInjective(r.pending) /\ r.clusterPending = Len(r.pending)
      BY <2>6 DEF Core, Listed, Counted
    <3>5. ClientOK(NewClient) /\ LimitOK(NewClient)
      BY EmptyClient
    <3>6. \A d \in Clients \ {c} : p.client[d].active \cap NewClient.active = {}
      BY <2>10
    <3>7. /\ ToSet(r.ready) = IF NewClient.state = "READY" THEN ToSet(p.ready) \cup {c}
                              ELSE ToSet(p.ready) \ {c}
          /\ ToSet(r.connecting)
               = IF NewClient.state = "CONNECTING" THEN ToSet(p.connecting) \cup {c}
                 ELSE ToSet(p.connecting) \ {c}
      BY <2>6, <2>7, <2>9, <2>10
    <3>8. NewClient.state # "NONE"
      BY <2>10
    <3>9. r.client = [p.client EXCEPT ![c] = NewClient]
      BY <2>6
    <3>10. OneChange(p, r, c, NewClient)
      BY <2>2, <2>4, <2>8, <3>1, <3>2, <3>3, <3>4, <3>5, <3>6, <3>7, <3>9 DEF OneChange
    <3> QED BY <3>8, <3>10, CoreOneChanges
  <2>13. Work(r.client) = Work(p.client)
    BY <2>5, <2>10, <2>12
  <2>14. Keeps(p, r)
    BY <2>2, <2>6, <2>12 DEF Keeps, InState
  <2> QED BY <2>1, <2>6, <2>12, <2>13, <2>14 DEF Answers, Still, q
<1> QED BY <1>1, <1>2

LEMMA TryCreates ==
    ASSUME NEW p, Core(p)
    PROVE  LET q == tryCreateNewConnections(p)
           IN  /\ Core(q) /\ Keeps(p, q) /\ Answers(p, q) /\ Still(p, q)
               /\ Live(p) \subseteq Live(q)
               /\ q.ready = p.ready /\ q.purge = p.purge /\ q.deleted = p.deleted
               /\ q.lost = p.lost /\ q.draining = p.draining
<1> DEFINE q1 == tryCreateNewConnection(p, 0)
           q2 == tryCreateNewConnection(q1, 0)
           q3 == tryCreateNewConnection(q2, 0)
           Like(r, q) == /\ Core(q) /\ Keeps(r, q) /\ Answers(r, q) /\ Still(r, q)
                         /\ Live(r) \subseteq Live(q)
                         /\ q.ready = r.ready /\ q.purge = r.purge /\ q.deleted = r.deleted
                         /\ q.lost = r.lost /\ q.draining = r.draining
<1>1. Like(p, q1)
  BY TryCreate
<1>2. Like(q1, q2)
  <2> HIDE DEF q1
  <2>1. Core(q1)
    BY <1>1
  <2> QED BY <2>1, TryCreate
<1>3. Like(q2, q3)
  <2> HIDE DEF q2
  <2>1. Core(q2)
    BY <1>2
  <2> QED BY <2>1, TryCreate
<1> HIDE DEF q1, q2, q3
<1>4. Like(p, q2)
  BY <1>1, <1>2, KeepsTransitive
<1>5. Like(p, q3)
  BY <1>3, <1>4, KeepsTransitive
<1> QED BY <1>5 DEF tryCreateNewConnections, q1, q2, q3

LEMMA CloseClients ==
    ASSUME NEW p, Core(p), NEW S \in SUBSET Clients, \A c \in S : p.client[c].active = {}
    PROVE  LET q == closeClients(p, S)
           IN  /\ Core(q) /\ Live(q) = Live(p) \ S
               /\ \A c \in Clients : q.client[c] = IF c \in S THEN NoClient ELSE p.client[c]
               /\ Work(q.client) = Work(p.client) /\ q.pending = p.pending
               /\ p.ready = <<>> => q.ready = <<>>
               /\ q.deleted = p.deleted /\ q.draining = p.draining
               /\ q.purge = p.purge \/ q.purge = <<>>
               /\ q.lost # p.lost => p.purge # <<>>
               /\ S \cap InState(p, "CONNECTING") = {} => q.purge = p.purge /\ q.lost = p.lost
<1> DEFINE q == closeClients(p, S)
           X == S \cap InState(p, "CONNECTING")
           m == [c \in Clients |-> IF c \in S THEN NoClient ELSE p.client[c]]
           rd == Without(p.ready, S)
           cn == Without(p.connecting, S)
           x == p.connectingCapacity - ConnectingCapacity(p, X)
           y == p.clusterCapacity - UnusedCapacity(p, S)
           pu == IF X # {} THEN <<>> ELSE p.purge
           lo == IF X # {} THEN p.lost \cup ToSet(p.purge) ELSE p.lost
<1>0. /\ p \in PoolType /\ ClientsOK(p.client) /\ p.client \in [Clients -> ClientType]
      /\ p.ready \in Seq(Clients) /\ p.connecting \in Seq(Clients) /\ p.purge \in Seq(Streams)
      /\ p.lost \in SUBSET Streams /\ p.connectingCapacity \in Int /\ p.clusterCapacity \in Int
  BY DEF Core, PoolType
<1>1. q = [p EXCEPT !.connectingCapacity = x, !.clusterCapacity = y, !.client = m,
                    !.ready = rd, !.connecting = cn, !.purge = pu, !.lost = lo]
  BY DEF closeClients
<1>2. /\ rd \in Seq(Clients) /\ ToSet(rd) = ToSet(p.ready) \ S
      /\ cn \in Seq(Clients) /\ ToSet(cn) = ToSet(p.connecting) \ S
  BY <1>0, WithoutProperties
<1>3. /\ ClientsOK(m) /\ Work(m) = Work(p.client)
      /\ TotalConnecting(m) = TotalConnecting(p.client) - ConnectingCapacity(p, X)
      /\ TotalUnused(m) = TotalUnused(p.client) - UnusedCapacity(p, S)
  BY <1>0, SomeClosed DEF ConnectingCapacity, UnusedCapacity, InState
<1>4. \A c \in Clients : m[c] = IF c \in S THEN NoClient ELSE p.client[c]
  OBVIOUS
<1>5. x \in Int /\ y \in Int
  <2> DEFINE f == [c \in Clients |-> effectiveConcurrentStreamLimit(p.client[c])]
             g == [c \in Clients |-> currentUnusedCapacity(p.client[c])]
  <2>1. \A c \in Clients : f[c] \in Int /\ g[c] \in Int
    BY <1>0, ClientCapacity
  <2>2. IsFiniteSet(S) /\ IsFiniteSet(X) /\ X \subseteq Clients
    BY PoolAssumption, FS_Subset
  <2>3. ConnectingCapacity(p, X) = SumFunctionOnSet(f, X)
        /\ UnusedCapacity(p, S) = SumFunctionOnSet(g, S)
    BY DEF ConnectingCapacity, UnusedCapacity
  <2> HIDE DEF f, g, X
  <2>4. SumFunctionOnSet(f, X) \in Int /\ SumFunctionOnSet(g, S) \in Int
    BY <2>1, <2>2, SumType
  <2> QED BY <1>0, <2>3, <2>4
<1>6. pu \in Seq(Streams) /\ lo \in SUBSET Streams
  <2>1. ToSet(p.purge) \subseteq Streams
    BY <1>0, ListBasics
  <2> QED BY <1>0, <2>1
<1>7. m \in [Clients -> ClientType]
  BY <1>3 DEF ClientsOK
<1>8. (X = {} => pu = p.purge /\ lo = p.lost) /\ (pu = p.purge \/ pu = <<>>)
      /\ (lo # p.lost => p.purge # <<>>)
  <2>1. p.purge = <<>> => ToSet(p.purge) = {}
    BY <1>0, ListBasics
  <2> HIDE DEF X
  <2> QED BY <2>1
<1> HIDE DEF q, X, m, rd, cn, x, y, pu, lo
<1>9. q \in PoolType
  BY <1>0, <1>1, <1>2, <1>5, <1>6, <1>7 DEF PoolType
<1>10. /\ q.connectingCapacity = x /\ q.clusterCapacity = y /\ q.client = m
       /\ q.ready = rd /\ q.connecting = cn /\ q.purge = pu /\ q.lost = lo
       /\ q.pending = p.pending /\ q.numActive = p.numActive /\ q.draining = p.draining
       /\ q.deleted = p.deleted /\ q.clusterPending = p.clusterPending
  BY <1>0, <1>1 DEF PoolType
<1>11. NoClient.state = "NONE"
  BY DEF NoClient
<1>12. /\ InState(q, "READY") = InState(p, "READY") \ S
       /\ InState(q, "CONNECTING") = InState(p, "CONNECTING") \ S
       /\ Live(q) = Live(p) \ S
  BY <1>4, <1>10, <1>11 DEF InState, Live
<1>13. Listed(q)
  BY <1>2, <1>10, <1>12 DEF Core, Listed
<1>14. Counted(q)
  BY <1>3, <1>10 DEF Core, Counted, x, y
<1>15. p.ready = <<>> => rd = <<>>
  <2>1. ToSet(p.ready) = {} <=> p.ready = <<>>
    BY <1>0, ListBasics
  <2>2. ToSet(rd) = {} <=> rd = <<>>
    BY <1>2, ListBasics
  <2> QED BY <1>2, <2>1, <2>2
<1>16. Core(q)
  BY <1>3, <1>9, <1>10, <1>13, <1>14 DEF Core
<1> QED BY <1>3, <1>4, <1>8, <1>10, <1>12, <1>15, <1>16 DEF q, X

LEMMA CloseSpareClients ==
    ASSUME NEW p, Good(p), NEW S \in SUBSET Clients, \A c \in S : p.client[c].active = {},
           S \cap Dying = {}
    PROVE  LET q == closeClients(p, S)
           IN  Good(q) /\ Keeps(p, q) /\ Still(p, q) /\ q.draining = p.draining
<1> DEFINE q == closeClients(p, S)
<1>1. /\ Core(q) /\ Live(q) = Live(p) \ S
      /\ \A c \in Clients : q.client[c] = IF c \in S THEN NoClient ELSE p.client[c]
      /\ Work(q.client) = Work(p.client) /\ q.pending = p.pending
      /\ p.ready = <<>> => q.ready = <<>>
      /\ q.deleted = p.deleted /\ q.draining = p.draining
      /\ q.purge = p.purge \/ q.purge = <<>>
      /\ q.lost # p.lost => p.purge # <<>>
  BY CloseClients DEF Good
<1> HIDE DEF q
<1>2. Apart(q) /\ Served(q)
  BY <1>1 DEF Good, Apart, Served
<1>3. Rests(q)
  BY <1>1 DEF Good, Rests, isIdle
<1>4. \A d \in Dying \cap Live(p) : d \in Live(q) /\ q.client[d] = p.client[d]
  BY <1>1 DEF Dying
<1>5. \A c \in InState(q, "CONNECTING") : q.client[c] = p.client[c]
  <2>1. NoClient.state # "CONNECTING"
    BY DEF NoClient
  <2> QED BY <1>1, <2>1 DEF InState
<1>6. Keeps(p, q)
  BY <1>1, <1>4, <1>5 DEF Keeps
<1> QED BY <1>1, <1>2, <1>3, <1>6 DEF Good, Still, q

LEMMA ConnectForPending ==
    ASSUME NEW p, Good(p)
    PROVE  LET q == connectForPending(p)
           IN  /\ Good(q) /\ Keeps(p, q) /\ Answers(p, q) /\ Still(p, q)
               /\ q.draining = p.draining /\ q.lost = p.lost
<1> DEFINE q == connectForPending(p)
<1>1. CASE p.pending = <<>>
  BY <1>1, KeepsSame DEF connectForPending
<1>2. CASE p.pending # <<>>
  <2>1. /\ Core(q) /\ Keeps(p, q) /\ Answers(p, q) /\ Still(p, q)
        /\ q.ready = p.ready /\ q.purge = p.purge /\ q.deleted = p.deleted
        /\ q.lost = p.lost /\ q.draining = p.draining
    BY <1>2, TryCreates DEF connectForPending, Good
  <2> HIDE DEF q
  <2>2. ~p.deleted
    BY <1>2 DEF Good, Rests, isIdle
  <2>3. Apart(q) /\ Served(q) /\ Rests(q)
    BY <2>1, <2>2 DEF Good, Apart, Served, Rests, Still
  <2> QED BY <2>1, <2>3 DEF Good, q
<1> QED BY <1>1, <1>2

LEMMA CloseIdleConnections ==
    ASSUME NEW p, Good(p)
    PROVE  LET q == closeIdleConnectionsForDrainingPool(p)
           IN  Good(q) /\ Keeps(p, q) /\ Still(p, q) /\ q.draining = p.draining
<1> DEFINE S == idleClients(p) \ Dying
           r == closeClients(p, S)
<1>1. CASE S = {}
  BY <1>1, KeepsSame DEF closeIdleConnectionsForDrainingPool
<1>2. CASE S # {}
  <2>1. S \in SUBSET Clients /\ S \cap Dying = {}
    BY DEF idleClients, InState
  <2>2. \A c \in S : p.client[c].active = {}
    BY DEF idleClients, InState, Good, Core, ClientsOK, ClientOK
  <2>3. closeIdleConnectionsForDrainingPool(p) = connectForPending(r)
    BY <1>2 DEF closeIdleConnectionsForDrainingPool
  <2> HIDE DEF S
  <2>4. Good(r) /\ Keeps(p, r) /\ Still(p, r) /\ r.draining = p.draining
    BY <2>1, <2>2, CloseSpareClients
  <2> HIDE DEF r
  <2>5. LET q == connectForPending(r)
        IN  Good(q) /\ Keeps(r, q) /\ Still(r, q) /\ q.draining = r.draining
    BY <2>4, ConnectForPending
  <2> QED BY <2>3, <2>4, <2>5, KeepsTransitive
<1> QED BY <1>1, <1>2

LEMMA InvokeIdle ==
    ASSUME NEW p, Good(p), Attended(p)
    PROVE  LET q == invokeIdleCallbacks(p)
           IN  Good(q) /\ Keeps(p, q) /\ Answers(p, q) /\ Still(p, q)
<1> DEFINE q == [p EXCEPT !.deleted = TRUE, !.draining = FALSE]
<1>1. CASE ~isIdle(p)
  BY <1>1, KeepsSame DEF invokeIdleCallbacks
<1>2. CASE isIdle(p)
  <2>1. invokeIdleCallbacks(p) = q
    BY <1>2 DEF invokeIdleCallbacks
  <2>2. p \in PoolType
    BY DEF Good, Core
  <2>3. q \in PoolType
    BY <2>2 DEF PoolType
  <2>4. /\ q.connectingCapacity = p.connectingCapacity /\ q.clusterCapacity = p.clusterCapacity
        /\ q.client = p.client /\ q.ready = p.ready /\ q.connecting = p.connecting
        /\ q.purge = p.purge /\ q.lost = p.lost /\ q.pending = p.pending
        /\ q.numActive = p.numActive /\ q.draining = FALSE /\ q.deleted = TRUE
        /\ q.clusterPending = p.clusterPending
    BY <2>2 DEF PoolType
  <2> HIDE DEF q
  <2>5. Live(q) = Live(p) /\ InState(q, "READY") = InState(p, "READY")
        /\ InState(q, "CONNECTING") = InState(p, "CONNECTING")
    BY <2>4 DEF Live, InState
  <2>6. p.purge = <<>>
    BY <1>2 DEF isIdle, Attended
  <2>7. Core(q)
    BY <2>3, <2>4, <2>5 DEF Good, Core, Listed, Counted
  <2>8. Rests(q)
    BY <1>2, <2>4, <2>5, <2>6 DEF Rests, isIdle
  <2>9. Apart(q) /\ Served(q) /\ Answers(p, q) /\ Still(p, q)
    BY <2>4 DEF Good, Apart, Served, Answers, Still
  <2>10. Keeps(p, q)
    BY <2>4, <2>5 DEF Keeps, InState
  <2> QED BY <2>1, <2>7, <2>8, <2>9, <2>10 DEF Good
<1> QED BY <1>1, <1>2

LEMMA CheckForIdle ==
    ASSUME NEW p, Good(p), Attended(p)
    PROVE  LET q == checkForIdleAndCloseIdleConnsIfDraining(p)
           IN  Good(q) /\ Keeps(p, q) /\ Answers(p, q) /\ Still(p, q)
<1> DEFINE r == IF p.draining THEN closeIdleConnectionsForDrainingPool(p) ELSE p
           q == invokeIdleCallbacks(r)
<1>1. Good(r) /\ Keeps(p, r) /\ Still(p, r) /\ Answers(p, r)
  BY CloseIdleConnections, KeepsSame DEF Answers
<1>2. checkForIdleAndCloseIdleConnsIfDraining(p) = q
  BY DEF checkForIdleAndCloseIdleConnsIfDraining
<1> HIDE DEF r
<1>3. Attended(r)
  BY <1>1, AttendedKept
<1>4. Good(q) /\ Keeps(r, q) /\ Answers(r, q) /\ Still(r, q)
  BY <1>1, <1>3, InvokeIdle
<1> HIDE DEF q
<1> QED BY <1>1, <1>2, <1>4, KeepsTransitive

LEMMA CloseClient ==
    ASSUME NEW p, Good(p), Attended(p), NEW c \in Clients, p.client[c].active = {},
           p.client[c].state # "CONNECTING"
    PROVE  LET q == closeClient(p, c)
           IN  Good(q) /\ Keeps(p, q) /\ Answers(p, q) /\ Still(p, q)
<1> DEFINE r == closeClients(p, {c})
           t == checkForIdleAndCloseIdleConnsIfDraining(r)
           q == connectForPending(t)
<1>1. CASE c \in Dying
  BY <1>1, KeepsSame DEF closeClient
<1>2. CASE c \notin Dying
  <2>1. closeClient(p, c) = q
    BY <1>2 DEF closeClient
  <2>2. Good(r) /\ Keeps(p, r) /\ Still(p, r)
    BY <1>2, CloseSpareClients
  <2>3. Answers(p, r)
    <3>1. {c} \cap InState(p, "CONNECTING") = {}
      BY DEF InState
    <3>2. r.lost = p.lost
      BY <3>1, CloseClients DEF Good
    <3> QED BY <3>2 DEF Answers
  <2> HIDE DEF r
  <2>4. Attended(r)
    BY <2>2, AttendedKept
  <2>5. Good(t) /\ Keeps(r, t) /\ Answers(r, t) /\ Still(r, t)
    BY <2>2, <2>4, CheckForIdle
  <2> HIDE DEF t
  <2>6. Good(q) /\ Keeps(t, q) /\ Answers(t, q) /\ Still(t, q)
    BY <2>5, ConnectForPending
  <2> HIDE DEF q
  <2>7. Keeps(p, t) /\ Answers(p, t) /\ Still(p, t)
    BY <2>2, <2>3, <2>5, KeepsTransitive
  <2> QED BY <2>1, <2>6, <2>7, KeepsTransitive
<1> QED BY <1>1, <1>2

\* What transitionActiveClientState makes of p.
Moved(p, q, c, new) ==
    LET k == p.client[c]
        less == IF new = "DRAINING" THEN drained(k) ELSE 0
    IN  /\ q \in PoolType
        /\ q.client = [p.client EXCEPT ![c] = setState(k, new)]
        /\ q.clusterCapacity = p.clusterCapacity - less
        /\ q.connectingCapacity = IF k.state = "CONNECTING" THEN p.connectingCapacity - less
                                  ELSE p.connectingCapacity
        /\ ToSet(q.ready) = IF new = "READY" THEN ToSet(p.ready) \cup {c}
                            ELSE ToSet(p.ready) \ {c}
        /\ ToSet(q.connecting) = ToSet(p.connecting) \ {c}
        /\ q.pending = p.pending /\ q.purge = p.purge /\ q.numActive = p.numActive
        /\ q.draining = p.draining /\ q.deleted = p.deleted
        /\ q.clusterPending = p.clusterPending /\ q.lost = p.lost

LEMMA TransitionFields ==
    ASSUME NEW p \in PoolType, NEW c \in Clients, p.client[c].state # "NONE",
           NEW new \in {"READY", "BUSY", "DRAINING"}
    PROVE  Moved(p, transitionActiveClientState(p, c, new), c, new)
<1> DEFINE q == transitionActiveClientState(p, c, new)
           k == p.client[c]
           less == IF new = "DRAINING" THEN drained(k) ELSE 0
           m == [p.client EXCEPT ![c] = setState(k, new)]
           y == p.clusterCapacity - less
           x == IF k.state = "CONNECTING" THEN p.connectingCapacity - less
                ELSE p.connectingCapacity
           cn == Without(p.connecting, {c})
           rd == IF new = "READY" THEN <<c>> \o p.ready ELSE Without(p.ready, {c})
<1>0. /\ p.client \in [Clients -> ClientType] /\ k \in ClientType
      /\ p.ready \in Seq(Clients) /\ p.connecting \in Seq(Clients)
      /\ p.connectingCapacity \in Int /\ p.clusterCapacity \in Int
  BY DEF PoolType
<1>1. q = [p EXCEPT !.client = m, !.clusterCapacity = y, !.connectingCapacity = x,
                    !.connecting = cn, !.ready = rd]
  BY DEF transitionActiveClientState
<1>2. m \in [Clients -> ClientType]
  <2>1. setState(k, new) \in ClientType
    BY <1>0, StateSet
  <2> QED BY <1>0, <2>1
<1>3. x \in Int /\ y \in Int
  <2>1. drained(k) \in Int
    BY <1>0, ClientCapacity
  <2> QED BY <1>0, <2>1
<1>4. cn \in Seq(Clients) /\ ToSet(cn) = ToSet(p.connecting) \ {c}
  BY <1>0, WithoutProperties
<1>5. rd \in Seq(Clients) /\ ToSet(rd) = IF new = "READY" THEN ToSet(p.ready) \cup {c}
                                         ELSE ToSet(p.ready) \ {c}
  <2>1. CASE new = "READY"
    BY <1>0, <2>1, FirstAdded
  <2>2. CASE new # "READY"
    BY <1>0, <2>2, WithoutProperties
  <2> QED BY <2>1, <2>2
<1> HIDE DEF q, m, x, y, cn, rd
<1>6. q \in PoolType
  BY <1>1, <1>2, <1>3, <1>4, <1>5 DEF PoolType
<1>7. /\ q.client = m /\ q.clusterCapacity = y /\ q.connectingCapacity = x
      /\ q.connecting = cn /\ q.ready = rd
      /\ q.pending = p.pending /\ q.purge = p.purge /\ q.numActive = p.numActive
      /\ q.draining = p.draining /\ q.deleted = p.deleted
      /\ q.clusterPending = p.clusterPending /\ q.lost = p.lost
  BY <1>1 DEF PoolType
<1> QED BY <1>4, <1>5, <1>6, <1>7 DEF q, m, x, y, Moved

\* Lists that become empty.
LEMMA SmallerList ==
    ASSUME NEW A, NEW l \in Seq(A), NEW k \in Seq(A), ToSet(k) \subseteq ToSet(l), l = <<>>
    PROVE  k = <<>>
<1>1. ToSet(l) = {}
  BY ListBasics
<1>2. ToSet(k) = {} <=> k = <<>>
  BY ListBasics
<1> QED BY <1>1, <1>2

LEMMA ToDraining ==
    ASSUME NEW p, Good(p), NEW c \in Live(p)
    PROVE  LET q == transitionActiveClientState(p, c, "DRAINING")
           IN  /\ Good(q) /\ Keeps(p, q) /\ Answers(p, q) /\ Still(p, q)
               /\ q.client[c].state = "DRAINING" /\ q.client[c].active = p.client[c].active
<1> DEFINE q == transitionActiveClientState(p, c, "DRAINING")
           k == p.client[c]
           j == setState(k, "DRAINING")
<1>0. /\ Core(p) /\ p \in PoolType /\ ClientsOK(p.client) /\ c \in Clients /\ k.state # "NONE"
      /\ k \in ClientType /\ ClientOK(k) /\ (OnlyDrains => LimitOK(k))
      /\ p.connectingCapacity \in Int /\ p.clusterCapacity \in Int
      /\ p.ready \in Seq(Clients)
  BY DEF Good, Core, ClientsOK, Live, PoolType
<1>1. /\ q \in PoolType /\ q.client = [p.client EXCEPT ![c] = j]
      /\ q.clusterCapacity = p.clusterCapacity - drained(k)
      /\ q.connectingCapacity = IF k.state = "CONNECTING"
                                THEN p.connectingCapacity - drained(k)
                                ELSE p.connectingCapacity
      /\ ToSet(q.ready) = ToSet(p.ready) \ {c}
      /\ ToSet(q.connecting) = ToSet(p.connecting) \ {c}
      /\ q.pending = p.pending /\ q.purge = p.purge /\ q.numActive = p.numActive
      /\ q.draining = p.draining /\ q.deleted = p.deleted
      /\ q.clusterPending = p.clusterPending /\ q.lost = p.lost
  <2>1. Moved(p, q, c, "DRAINING")
    BY <1>0, TransitionFields
  <2> HIDE DEF q
  <2> QED BY <2>1 DEF Moved
<1>2. /\ j \in ClientType /\ j.state = "DRAINING" /\ j.active = k.active
      /\ ClientOK(j) /\ (LimitOK(k) => LimitOK(j)) /\ Waiting(j) = 0
      /\ currentUnusedCapacity(j) = currentUnusedCapacity(k) - drained(k)
      /\ k.remaining = 0 => j.remaining = 0
  BY <1>0, DrainingSet
<1>3. drained(k) \in Int /\ currentUnusedCapacity(k) \in Int
  BY <1>0, ClientCapacity
<1> HIDE DEF q, j
<1>4. q.connectingCapacity = p.connectingCapacity + (Waiting(j) - Waiting(k))
  <2>1. CASE k.state = "CONNECTING"
    <3>1. Waiting(k) = drained(k)
      BY <1>0, <2>1, ClientCapacity DEF ClientOK, Waiting
    <3> QED BY <1>0, <1>1, <1>2, <1>3, <2>1, <3>1
  <2>2. CASE k.state # "CONNECTING"
    <3>1. Waiting(k) = 0
      BY <2>2 DEF Waiting
    <3> QED BY <1>0, <1>1, <1>2, <2>2, <3>1
  <2> QED BY <2>1, <2>2
<1>5. q.clusterCapacity
        = p.clusterCapacity + (currentUnusedCapacity(j) - currentUnusedCapacity(k))
  BY <1>0, <1>1, <1>2, <1>3
<1>6. (Work(p.client) \ k.active) \cup j.active = Work(p.client)
  BY <1>0, <1>2 DEF Work
<1>7. OneChange(p, q, c, j)
  <2>1. \A d \in Clients \ {c} : p.client[d].active \cap j.active = {}
    BY <1>0, <1>2 DEF ClientsOK
  <2>2. IsInjective(q.pending) /\ q.clusterPending = Len(q.pending)
        /\ q.numActive = Cardinality(Work(p.client))
    BY <1>0, <1>1 DEF Core, Listed, Counted
  <2> QED BY <1>0, <1>1, <1>2, <1>4, <1>5, <1>6, <2>1, <2>2 DEF OneChange
<1>8. /\ Core(q) /\ q.client[c] = j /\ \A d \in Clients \ {c} : q.client[d] = p.client[d]
      /\ Work(q.client) = Work(p.client) /\ Live(q) = Live(p)
  <2>1. /\ Core(q) /\ q.client[c] = j /\ \A d \in Clients \ {c} : q.client[d] = p.client[d]
        /\ Work(q.client) = (Work(p.client) \ k.active) \cup j.active
        /\ Live(q) = IF j.state = "NONE" THEN Live(p) \ {c} ELSE Live(p) \cup {c}
    BY <1>0, <1>7, CoreOneChanges
  <2>2. Live(p) \cup {c} = Live(p) /\ j.state # "NONE"
    BY <1>2
  <2> QED BY <1>6, <2>1, <2>2
<1>9. Keeps(p, q)
  BY <1>1, <1>2, <1>8 DEF Keeps, InState
<1>10. Served(q)
  <2>1. q.ready \in Seq(Clients)
    BY <1>1 DEF PoolType
  <2>2. p.ready = <<>> => q.ready = <<>>
    BY <1>0, <1>1, <2>1, SmallerList
  <2> QED BY <1>1, <2>2 DEF Good, Served
<1>11. Apart(q) /\ Rests(q)
  BY <1>1, <1>8 DEF Good, Apart, Rests, isIdle
<1> QED BY <1>1, <1>2, <1>8, <1>9, <1>10, <1>11 DEF Good, Answers, Still, q

\* Used by connected and by the end of a stream of a busy client.
LEMMA ToReady ==
    ASSUME NEW p, Core(p), NEW c \in Live(p), p.client[c].remaining > 0,
           OnlyDrains => /\ p.client[c].state # "DRAINING"
                         /\ numActiveStreams(p.client[c]) < p.client[c].limit,
           NEW o, o = [p EXCEPT !.connectingCapacity = @ - Waiting(p.client[c])]
    PROVE  LET q == transitionActiveClientState(o, c, "READY")
           IN  /\ Core(q) /\ Keeps(p, q) /\ Still(p, q) /\ Work(q.client) = Work(p.client)
               /\ c \in InState(q, "READY") /\ q.client[c].active = p.client[c].active
               /\ q.purge = p.purge /\ q.lost = p.lost
               /\ q.draining = p.draining /\ q.deleted = p.deleted
<1> DEFINE q == transitionActiveClientState(o, c, "READY")
           k == p.client[c]
           j == setState(k, "READY")
<1>0. /\ p \in PoolType /\ ClientsOK(p.client) /\ c \in Clients /\ k.state # "NONE"
      /\ k \in ClientType /\ ClientOK(k) /\ (OnlyDrains => LimitOK(k))
      /\ p.connectingCapacity \in Int /\ p.clusterCapacity \in Int /\ Waiting(k) \in Nat
      /\ k.remaining \in Nat
  BY ClientCapacity DEF Core, ClientsOK, Live, PoolType, ClientType
<1>1. /\ o \in PoolType /\ o.client = p.client /\ o.ready = p.ready
      /\ o.connecting = p.connecting /\ o.pending = p.pending /\ o.purge = p.purge
      /\ o.connectingCapacity = p.connectingCapacity - Waiting(k)
      /\ o.numActive = p.numActive /\ o.draining = p.draining /\ o.deleted = p.deleted
      /\ o.clusterCapacity = p.clusterCapacity /\ o.clusterPending = p.clusterPending
      /\ o.lost = p.lost
  <2> DEFINE x == p.connectingCapacity - Waiting(k)
  <2>1. x \in Int /\ o = [p EXCEPT !.connectingCapacity = x]
    BY <1>0
  <2> HIDE DEF x
  <2>2. /\ o \in PoolType /\ o.client = p.client /\ o.ready = p.ready
        /\ o.connecting = p.connecting /\ o.pending = p.pending /\ o.purge = p.purge
        /\ o.connectingCapacity = x
        /\ o.numActive = p.numActive /\ o.draining = p.draining /\ o.deleted = p.deleted
        /\ o.clusterCapacity = p.clusterCapacity /\ o.clusterPending = p.clusterPending
        /\ o.lost = p.lost
    BY <1>0, <2>1 DEF PoolType
  <2> QED BY <2>2 DEF x
<1>2. /\ q \in PoolType /\ q.client = [p.client EXCEPT ![c] = j]
      /\ q.clusterCapacity = p.clusterCapacity
      /\ q.connectingCapacity = p.connectingCapacity - Waiting(k)
      /\ ToSet(q.ready) = ToSet(p.ready) \cup {c}
      /\ ToSet(q.connecting) = ToSet(p.connecting) \ {c}
      /\ q.pending = p.pending /\ q.purge = p.purge /\ q.numActive = p.numActive
      /\ q.draining = p.draining /\ q.deleted = p.deleted
      /\ q.clusterPending = p.clusterPending /\ q.lost = p.lost
  <2>1. Moved(o, q, c, "READY")
    BY <1>0, <1>1, TransitionFields
  <2> HIDE DEF q
  <2>2. Waiting(k) = 0 \/ k.state = "CONNECTING"
    BY DEF Waiting
  <2>3. o.clusterCapacity - 0 = p.clusterCapacity
        /\ o.connectingCapacity - 0 = p.connectingCapacity - Waiting(k)
    BY <1>0, <1>1
  <2> QED BY <1>0, <1>1, <2>1, <2>2, <2>3 DEF Moved
<1>3. /\ j \in ClientType /\ j.state = "READY" /\ j.active = k.active
      /\ j.limit = k.limit /\ j.negative = k.negative
      /\ j.remaining = k.remaining /\ Waiting(j) = 0
  BY <1>0, StateSet
<1> HIDE DEF q, j
<1>4. numActiveStreams(j) = numActiveStreams(k) /\ currentUnusedCapacity(j) = currentUnusedCapacity(k)
      /\ currentUnusedCapacity(k) \in Int
  BY <1>0, <1>3, ClientCapacity DEF numActiveStreams, currentUnusedCapacity
<1>5. ClientOK(j) /\ (OnlyDrains => LimitOK(j))
  BY <1>0, <1>3, <1>4 DEF ClientOK, LimitOK
<1>6. (Work(p.client) \ k.active) \cup j.active = Work(p.client)
  BY <1>0, <1>3 DEF Work
<1>7. OneChange(p, q, c, j)
  <2>1. \A d \in Clients \ {c} : p.client[d].active \cap j.active = {}
    BY <1>0, <1>3 DEF ClientsOK
  <2>2. IsInjective(q.pending) /\ q.clusterPending = Len(q.pending)
        /\ q.numActive = Cardinality(Work(p.client))
    BY <1>2 DEF Core, Listed, Counted
  <2>3. q.connectingCapacity = p.connectingCapacity + (Waiting(j) - Waiting(k))
    BY <1>0, <1>2, <1>3
  <2>4. q.clusterCapacity
          = p.clusterCapacity + (currentUnusedCapacity(j) - currentUnusedCapacity(k))
    BY <1>0, <1>2, <1>4
  <2> QED BY <1>0, <1>2, <1>3, <1>5, <1>6, <2>1, <2>2, <2>3, <2>4 DEF OneChange
<1>8. /\ Core(q) /\ q.client[c] = j /\ \A d \in Clients \ {c} : q.client[d] = p.client[d]
      /\ Work(q.client) = Work(p.client) /\ Live(q) = Live(p)
  <2>1. /\ Core(q) /\ q.client[c] = j /\ \A d \in Clients \ {c} : q.client[d] = p.client[d]
        /\ Work(q.client) = (Work(p.client) \ k.active) \cup j.active
        /\ Live(q) = IF j.state = "NONE" THEN Live(p) \ {c} ELSE Live(p) \cup {c}
    BY <1>7, CoreOneChanges
  <2>2. Live(p) \cup {c} = Live(p) /\ j.state # "NONE"
    BY <1>3
  <2> QED BY <1>6, <2>1, <2>2
<1>9. Keeps(p, q)
  BY <1>2, <1>3, <1>8 DEF Keeps, InState
<1> QED BY <1>0, <1>2, <1>3, <1>8, <1>9 DEF Still, q, InState

\* The client that takes the stream s.
Taker(k, j, s) ==
    /\ j \in ClientType /\ j.state \in {"READY", "BUSY", "DRAINING"}
    /\ j.remaining = k.remaining - 1 /\ j.limit = k.limit /\ j.negative = k.negative
    /\ j.active = k.active \cup {s}
    /\ j.remaining = 0 => j.state = "DRAINING"
    /\ j.state = "READY" => numActiveStreams(k) + 1 < k.limit

\* From p to q the client c, which becomes j, has got the stream s.
Attached(p, q, c, s, j) ==
    /\ Taker(p.client[c], j, s) /\ q \in PoolType
    /\ q.client = [p.client EXCEPT ![c] = j]
    /\ q.clusterCapacity = p.clusterCapacity - 1
    /\ q.numActive = p.numActive + 1
    /\ q.connectingCapacity = p.connectingCapacity
    /\ ToSet(q.ready) = IF j.state = "READY" THEN ToSet(p.ready) \cup {c}
                        ELSE ToSet(p.ready) \ {c}
    /\ ToSet(q.connecting) = ToSet(p.connecting) \ {c}
    /\ q.pending = p.pending /\ q.purge = p.purge /\ q.lost = p.lost
    /\ q.draining = p.draining /\ q.deleted = p.deleted
    /\ q.clusterPending = p.clusterPending

LEMMA AttachFields ==
    ASSUME NEW p \in PoolType, NEW c \in Clients, p.client[c].state = "READY",
           p.client[c].remaining > 0, NEW s \in Streams, c \notin ToSet(p.connecting),
           c \in ToSet(p.ready), p.numActive < MaxRequests
    PROVE  \E j : Attached(p, attachStreamToClient(p, c, s), c, s, j)
<1> DEFINE k == p.client[c]
           k1 == [k EXCEPT !.remaining = @ - 1]
           p1 == [p EXCEPT !.client[c].remaining = @ - 1]
           r == IF p1.client[c].remaining = 0
                THEN transitionActiveClientState(p1, c, "DRAINING")
                ELSE IF numActiveStreams(p1.client[c]) + 1 >= p1.client[c].limit
                     THEN transitionActiveClientState(p1, c, "BUSY") ELSE p1
           q == [r EXCEPT !.clusterCapacity = @ - 1, !.numActive = @ + 1,
                          !.client[c].active = @ \cup {s}]
<1>0. /\ p.client \in [Clients -> ClientType] /\ k \in ClientType /\ k.remaining \in Nat
      /\ k.limit \in Nat /\ numActiveStreams(k) \in Nat /\ p.numActive \in Int
      /\ p.clusterCapacity \in Int /\ p.connectingCapacity \in Int
  BY ClientCapacity DEF PoolType, ClientType
<1>1. /\ k1 \in ClientType /\ k1.state = "READY" /\ k1.remaining = k.remaining - 1
      /\ k1.limit = k.limit /\ k1.negative = k.negative /\ k1.active = k.active
  BY <1>0 DEF ClientType
<1>2. p1 = [p EXCEPT !.client = [p.client EXCEPT ![c] = k1]]
  OBVIOUS
<1>3. attachStreamToClient(p, c, s) = q
  <2>1. ~(p.numActive >= MaxRequests)
    BY <1>0, PoolAssumption
  <2> QED BY <2>1, Zenon DEF attachStreamToClient
<1> HIDE DEF k1, p1, q
<1>4. /\ p1 \in PoolType /\ p1.client = [p.client EXCEPT ![c] = k1]
      /\ p1.clusterCapacity = p.clusterCapacity /\ p1.numActive = p.numActive
      /\ p1.connectingCapacity = p.connectingCapacity /\ p1.ready = p.ready
      /\ p1.connecting = p.connecting
      /\ p1.pending = p.pending /\ p1.purge = p.purge /\ p1.lost = p.lost
      /\ p1.draining = p.draining /\ p1.deleted = p.deleted
      /\ p1.clusterPending = p.clusterPending /\ p1.client[c] = k1
  <2> DEFINE m == [p.client EXCEPT ![c] = k1]
  <2>1. m \in [Clients -> ClientType]
    BY <1>0, <1>1
  <2>2. p1 = [p EXCEPT !.client = m]
    BY <1>2
  <2> HIDE DEF m
  <2>3. /\ p1 \in PoolType /\ p1.client = m
        /\ p1.clusterCapacity = p.clusterCapacity /\ p1.numActive = p.numActive
        /\ p1.connectingCapacity = p.connectingCapacity /\ p1.ready = p.ready
        /\ p1.connecting = p.connecting
        /\ p1.pending = p.pending /\ p1.purge = p.purge /\ p1.lost = p.lost
        /\ p1.draining = p.draining /\ p1.deleted = p.deleted
        /\ p1.clusterPending = p.clusterPending
    BY <2>1, <2>2 DEF PoolType
  <2>4. m[c] = k1
    BY <1>0 DEF m
  <2> QED BY <2>3, <2>4 DEF m
<1>5. numActiveStreams(k1) = numActiveStreams(k)
  BY <1>1 DEF numActiveStreams
<1>6. k1.remaining = 0 => drained(k1) = 0
  BY <1>0, <1>1, <1>5 DEF drained, currentUnusedCapacity, Smaller
<1> DEFINE st == IF k1.remaining = 0 THEN "DRAINING"
                 ELSE IF numActiveStreams(k1) + 1 >= k1.limit THEN "BUSY" ELSE "READY"
           k2 == IF st = "READY" THEN k1 ELSE setState(k1, st)
<1>7. /\ r \in PoolType /\ r.client = [p.client EXCEPT ![c] = k2]
      /\ r.clusterCapacity = p.clusterCapacity /\ r.numActive = p.numActive
      /\ r.connectingCapacity = p.connectingCapacity
      /\ ToSet(r.ready) = IF st = "READY" THEN ToSet(p.ready) \cup {c}
                          ELSE ToSet(p.ready) \ {c}
      /\ ToSet(r.connecting) = ToSet(p.connecting) \ {c}
      /\ r.pending = p.pending /\ r.purge = p.purge /\ r.lost = p.lost
      /\ r.draining = p.draining /\ r.deleted = p.deleted
      /\ r.clusterPending = p.clusterPending
  <2>1. CASE st = "READY"
    <3>1. r = p1 /\ k2 = k1
      BY <1>4, <2>1
    <3>2. ToSet(p.ready) \cup {c} = ToSet(p.ready) /\ ToSet(p.connecting) \ {c} = ToSet(p.connecting)
      OBVIOUS
    <3> HIDE DEF r, k2, st
    <3> QED BY <1>4, <2>1, <3>1, <3>2
  <2>2. CASE st # "READY"
    <3>1. r = transitionActiveClientState(p1, c, st) /\ st \in {"BUSY", "DRAINING"}
          /\ k2 = setState(k1, st) /\ (st = "DRAINING" => drained(k1) = 0)
      BY <1>4, <1>6, <2>2
    <3> HIDE DEF r, k2, st
    <3>2. Moved(p1, r, c, st)
      BY <1>1, <1>2, <1>4, <3>1, TransitionFields
    <3>3. [p1.client EXCEPT ![c] = k2] = [p.client EXCEPT ![c] = k2]
      BY <1>4
    <3>4. p.clusterCapacity - 0 = p.clusterCapacity /\ p.connectingCapacity - 0 = p.connectingCapacity
      BY <1>0
    <3> QED BY <1>1, <1>2, <1>4, <2>2, <3>1, <3>2, <3>3, <3>4 DEF Moved
  <2> QED BY <2>1, <2>2
<1>8. /\ k2 \in ClientType /\ k2.state = st /\ k2.remaining = k.remaining - 1
      /\ k2.limit = k.limit /\ k2.negative = k.negative /\ k2.active = k.active
  <2>1. CASE st = "READY"
    BY <1>1, <2>1
  <2>2. CASE st # "READY"
    <3>1. st \in {"READY", "BUSY", "DRAINING"} /\ k2 = setState(k1, st) /\ k1.state # "NONE"
          /\ (st = "DRAINING" => drained(k1) = 0)
      BY <1>1, <1>6, <2>2
    <3> HIDE DEF st, k2
    <3> QED BY <1>1, <3>1, StateSet
  <2> QED BY <2>1, <2>2
<1> DEFINE j == [k2 EXCEPT !.active = @ \cup {s}]
<1>9. Taker(k, j, s)
  <2>1. st \in {"READY", "BUSY", "DRAINING"} /\ (k.remaining - 1 = 0 => st = "DRAINING")
        /\ (st = "READY" => numActiveStreams(k) + 1 < k.limit)
    BY <1>0, <1>1, <1>5
  <2> HIDE DEF st, k2
  <2>2. /\ j \in ClientType /\ j.state = st /\ j.remaining = k.remaining - 1
        /\ j.limit = k.limit /\ j.negative = k.negative /\ j.active = k.active \cup {s}
    BY <1>8 DEF ClientType
  <2> HIDE DEF j
  <2> QED BY <2>1, <2>2 DEF Taker
<1> HIDE DEF r, k2, st
<1>10. r.client[c] = k2
  BY <1>0, <1>7
<1>11. /\ q \in PoolType /\ q.client = [p.client EXCEPT ![c] = j]
       /\ q.clusterCapacity = p.clusterCapacity - 1 /\ q.numActive = p.numActive + 1
       /\ q.ready = r.ready /\ q.connecting = r.connecting
       /\ q.connectingCapacity = r.connectingCapacity
       /\ q.pending = r.pending /\ q.purge = r.purge /\ q.lost = r.lost
       /\ q.draining = r.draining /\ q.deleted = r.deleted
       /\ q.clusterPending = r.clusterPending
  <2> DEFINE m == [p.client EXCEPT ![c] = j]
             y == p.clusterCapacity - 1
             z == p.numActive + 1
  <2>1. m \in [Clients -> ClientType] /\ y \in Int /\ z \in Int
    <3> HIDE DEF j
    <3> QED BY <1>0, <1>9 DEF Taker
  <2>2. [r.client EXCEPT ![c] = j] = m
    <3> HIDE DEF j
    <3> QED BY <1>0, <1>7
  <2>3. q = [r EXCEPT !.clusterCapacity = y, !.numActive = z, !.client = m]
    <3>1. q = [r EXCEPT !.clusterCapacity = r.clusterCapacity - 1,
                        !.numActive = r.numActive + 1,
                        !.client[c].active = r.client[c].active \cup {s}]
      BY Zenon DEF q
    <3>2. q = [r EXCEPT !.clusterCapacity = y, !.numActive = z, !.client[c] = j]
      BY <1>7, <1>10, <3>1
    <3>3. q = [r EXCEPT !.clusterCapacity = y, !.numActive = z,
                        !.client = [r.client EXCEPT ![c] = j]]
      <4> HIDE DEF j, y, z
      <4> QED BY <3>2
    <3> HIDE DEF j, y, z, m
    <3> QED BY <2>2, <3>3
  <2> HIDE DEF m, y, z, j
  <2>4. /\ q \in PoolType /\ q.client = m /\ q.clusterCapacity = y /\ q.numActive = z
        /\ q.ready = r.ready /\ q.connecting = r.connecting
        /\ q.connectingCapacity = r.connectingCapacity
        /\ q.pending = r.pending /\ q.purge = r.purge /\ q.lost = r.lost
        /\ q.draining = r.draining /\ q.deleted = r.deleted
        /\ q.clusterPending = r.clusterPending
    BY <1>7, <2>1, <2>3 DEF PoolType
  <2> QED BY <2>4 DEF m, y, z
<1>12. j.state = st
  BY <1>8 DEF ClientType
<1> HIDE DEF j
<1>13. Attached(p, q, c, s, j)
  BY <1>7, <1>9, <1>11, <1>12 DEF Attached
<1> QED BY <1>3, <1>13

LEMMA Attach ==
    ASSUME NEW p, Core(p), NEW c \in InState(p, "READY"), NEW s \in Streams,
           s \notin Work(p.client)
    PROVE  LET q == attachStreamToClient(p, c, s)
           IN  /\ Core(q) /\ Keeps(p, q) /\ Work(q.client) \subseteq Work(p.client) \cup {s}
               /\ q.pending = p.pending /\ q.clusterPending = p.clusterPending
               /\ q.purge = p.purge /\ q.lost = p.lost
               /\ q.draining = p.draining /\ q.deleted = p.deleted /\ Live(q) = Live(p)
<1> DEFINE q == attachStreamToClient(p, c, s)
           k == p.client[c]
<1>0. /\ p \in PoolType /\ ClientsOK(p.client) /\ c \in Clients /\ k.state = "READY"
      /\ k \in ClientType /\ k.remaining \in Nat /\ k.remaining > 0 /\ k.limit \in Nat
      /\ IsFiniteSet(k.active)
      /\ (OnlyDrains => LimitOK(k)) /\ p.numActive \in Int /\ p.clusterCapacity \in Int
      /\ p.connectingCapacity \in Int
      /\ c \in ToSet(p.ready) /\ c \notin ToSet(p.connecting)
  BY ClientCapacity DEF Core, ClientsOK, ClientOK, InState, PoolType, ClientType, Listed
<1>1. CASE p.numActive >= MaxRequests
  BY <1>1, KeepsSame DEF attachStreamToClient
<1>2. CASE p.numActive < MaxRequests
  <2>0. PICK j : Attached(p, q, c, s, j)
    BY <1>0, <1>2, AttachFields
  <2> HIDE DEF q
  <2>1. /\ Taker(k, j, s) /\ q \in PoolType /\ q.client = [p.client EXCEPT ![c] = j]
        /\ q.clusterCapacity = p.clusterCapacity - 1 /\ q.numActive = p.numActive + 1
        /\ q.connectingCapacity = p.connectingCapacity
        /\ ToSet(q.ready) = IF j.state = "READY" THEN ToSet(p.ready) \cup {c}
                            ELSE ToSet(p.ready) \ {c}
        /\ ToSet(q.connecting) = ToSet(p.connecting) \ {c}
        /\ q.pending = p.pending /\ q.purge = p.purge /\ q.lost = p.lost
        /\ q.draining = p.draining /\ q.deleted = p.deleted
        /\ q.clusterPending = p.clusterPending
    BY <2>0 DEF Attached
  <2>2. s \notin k.active
    BY <1>0 DEF Work
  <2>3. numActiveStreams(j) = numActiveStreams(k) + 1 /\ numActiveStreams(k) \in Nat
    <3>1. j.active = k.active \cup {s}
      BY <2>1 DEF Taker
    <3>2. Cardinality(k.active \cup {s}) = Cardinality(k.active) + 1
      BY <1>0, <2>2, FS_AddElement
    <3>3. numActiveStreams(k) \in Nat
      BY <1>0, ClientCapacity
    <3> QED BY <3>1, <3>2, <3>3 DEF numActiveStreams
  <2>4. currentUnusedCapacity(j) = currentUnusedCapacity(k) - 1 /\ currentUnusedCapacity(k) \in Int
    BY <1>0, <2>1, <2>3 DEF Taker, currentUnusedCapacity, Smaller
  <2>5. Waiting(j) = 0 /\ Waiting(k) = 0
    BY <1>0, <2>1 DEF Waiting, Taker
  <2>6. ClientOK(j) /\ (OnlyDrains => LimitOK(j))
    BY <1>0, <2>1, <2>3 DEF ClientOK, LimitOK, Taker
  <2>7. (Work(p.client) \ k.active) \cup j.active = Work(p.client) \cup {s}
    BY <1>0, <2>1 DEF Work, Taker
  <2>8. OneChange(p, q, c, j)
    <3>1. \A d \in Clients \ {c} : p.client[d].active \cap j.active = {}
      BY <1>0, <2>1 DEF ClientsOK, Taker, Work
    <3>2. q.numActive = Cardinality(Work(p.client) \cup {s})
      <4>1. Work(p.client) \in SUBSET Streams
        BY <1>0, TotalTypes DEF ClientsOK
      <4>2. IsFiniteSet(Work(p.client))
        BY <4>1, PoolAssumption, FS_Subset
      <4>3. Cardinality(Work(p.client) \cup {s}) = Cardinality(Work(p.client)) + 1
        BY <4>2, FS_AddElement
      <4> QED BY <2>1, <4>3 DEF Core, Counted
    <3>3. IsInjective(q.pending) /\ q.clusterPending = Len(q.pending)
      BY <2>1 DEF Core, Listed, Counted
    <3>4. q.connectingCapacity = p.connectingCapacity + (Waiting(j) - Waiting(k))
      BY <1>0, <2>1, <2>5
    <3>5. q.clusterCapacity
            = p.clusterCapacity + (currentUnusedCapacity(j) - currentUnusedCapacity(k))
      BY <1>0, <2>1, <2>4
    <3>6. j \in ClientType /\ j.state # "CONNECTING"
      BY <2>1 DEF Taker
    <3> QED BY <1>0, <2>1, <2>6, <2>7, <3>1, <3>2, <3>3, <3>4, <3>5, <3>6 DEF OneChange
  <2>9. /\ Core(q) /\ q.client[c] = j /\ \A d \in Clients \ {c} : q.client[d] = p.client[d]
        /\ Work(q.client) = (Work(p.client) \ k.active) \cup j.active
        /\ Live(q) = IF j.state = "NONE" THEN Live(p) \ {c} ELSE Live(p) \cup {c}
    BY <2>8, CoreOneChanges
  <2>10. Live(q) = Live(p) /\ j.state # "CONNECTING"
    BY <1>0, <2>1, <2>9 DEF Live, Taker
  <2>11. Keeps(p, q)
    BY <1>0, <2>1, <2>9, <2>10 DEF Keeps, InState
  <2> QED BY <2>1, <2>7, <2>9, <2>10, <2>11 DEF q
<1>3. MaxRequests \in Nat
  BY PoolAssumption
<1> QED BY <1>0, <1>1, <1>2, <1>3

LEMMA OldestTakenBasics ==
    ASSUME NEW p, NEW r, NEW q, Core(p), Core(r), Core(q)
    PROVE  /\ Still(p, q) => OldestTaken(p, q)
           /\ OldestTaken(p, r) /\ OldestTaken(r, q) => OldestTaken(p, q)
<1>0. \A o : Core(o) => Len(o.pending) \in Nat
  BY DEF Core, PoolType
<1>1. Len(p.pending) \in Nat /\ Len(r.pending) \in Nat /\ Len(q.pending) \in Nat
  BY <1>0
<1>2. Still(p, q) => OldestTaken(p, q)
  BY <1>1 DEF Still, OldestTaken
<1>3. ASSUME OldestTaken(p, r), OldestTaken(r, q) PROVE OldestTaken(p, q)
  <2> DEFINE a == Len(p.pending)
             b == Len(r.pending)
             d == Len(q.pending)
  <2>1. d <= a /\ d <= b /\ b <= a
    BY <1>1, <1>3 DEF OldestTaken
  <2>2. \A i \in 1 .. d : q.pending[i] = p.pending[i]
    BY <1>1, <1>3, <2>1 DEF OldestTaken
  <2>3. ASSUME NEW s \in Work(q.client), s \notin Work(p.client)
        PROVE  \E i \in d + 1 .. a : s = p.pending[i]
    <3>1. CASE s \in Work(r.client)
      <4>1. PICK i \in b + 1 .. a : s = p.pending[i]
        BY <1>3, <2>3, <3>1 DEF OldestTaken
      <4>2. i \in d + 1 .. a
        BY <1>1, <2>1
      <4> QED BY <4>1, <4>2
    <3>2. CASE s \notin Work(r.client)
      <4>1. PICK i \in d + 1 .. b : s = r.pending[i]
        BY <1>3, <2>3, <3>2 DEF OldestTaken
      <4>2. i \in 1 .. b /\ i \in d + 1 .. a
        BY <1>1, <2>1
      <4>3. r.pending[i] = p.pending[i]
        BY <1>3, <4>2 DEF OldestTaken
      <4> QED BY <4>1, <4>2, <4>3
    <3> QED BY <3>1, <3>2
  <2>4. Work(q.client) \subseteq Work(p.client) \cup {p.pending[i] : i \in d + 1 .. a}
    BY <2>3
  <2> QED BY <2>1, <2>2, <2>4 DEF OldestTaken
<1> QED BY <1>2, <1>3

\* What the loop of onUpstreamReady does to the pool p.
Serving(p, q) ==
    /\ Core(q) /\ Apart(q) /\ Keeps(p, q) /\ OldestTaken(p, q)
    /\ q.purge = p.purge /\ q.lost = p.lost
    /\ q.draining = p.draining /\ q.deleted = p.deleted

LEMMA ServingBasics ==
    ASSUME NEW p, Core(p), Apart(p)
    PROVE  /\ Serving(p, p)
           /\ \A r, q : Serving(p, r) /\ Serving(r, q) => Serving(p, q)
<1>1. Serving(p, p)
  BY KeepsSame, OldestTakenBasics DEF Serving
<1>2. ASSUME NEW r, NEW q, Serving(p, r), Serving(r, q) PROVE Serving(p, q)
  <2>1. Keeps(p, q)
    BY <1>2, KeepsTransitive DEF Serving
  <2>2. OldestTaken(p, q)
    BY <1>2, OldestTakenBasics DEF Serving
  <2> QED BY <1>2, <2>1, <2>2 DEF Serving
<1> QED BY <1>1, <1>2

LEMMA AttachOldest ==
    ASSUME NEW p, Core(p), Apart(p)
    PROVE  LET q == attachOldest(p)
           IN  /\ Serving(p, q) /\ (Served(p) => q = p)
               /\ ~Served(p) => Len(q.pending) = Len(p.pending) - 1
<1> DEFINE q == attachOldest(p)
<1>1. CASE Served(p)
  BY <1>1, ServingBasics DEF attachOldest, Served
<1>2. CASE ~Served(p)
  <2> DEFINE c == Head(p.ready)
             s == Last(p.pending)
             f == Front(p.pending)
             N == Len(p.pending)
             a == attachStreamToClient(p, c, s)
  <2>1. /\ p \in PoolType /\ p.pending \in Seq(Streams) /\ p.ready \in Seq(Clients)
        /\ p.pending # <<>> /\ p.ready # <<>> /\ IsInjective(p.pending)
        /\ p.clusterPending = Len(p.pending) /\ p.clusterPending \in Int
    BY <1>2 DEF Core, PoolType, Served, Listed, Counted
  <2>2. c \in InState(p, "READY")
    BY <2>1, ListBasics DEF Core, Listed
  <2>3. /\ f \in Seq(Streams) /\ Len(f) = N - 1 /\ IsInjective(f)
        /\ \A i \in 1 .. Len(f) : f[i] = p.pending[i]
        /\ s = p.pending[N] /\ s \in Streams /\ s \in ToSet(p.pending)
        /\ ToSet(f) = ToSet(p.pending) \ {s}
    BY <2>1, LastTaken
  <2>4. s \notin Work(p.client)
    BY <2>3 DEF Apart
  <2>5. /\ Core(a) /\ Keeps(p, a) /\ Work(a.client) \subseteq Work(p.client) \cup {s}
        /\ a.pending = p.pending /\ a.clusterPending = p.clusterPending
        /\ a.purge = p.purge /\ a.lost = p.lost
        /\ a.draining = p.draining /\ a.deleted = p.deleted
    BY <2>2, <2>3, <2>4, Attach
  <2>6. q = [a EXCEPT !.pending = Front(a.pending), !.clusterPending = a.clusterPending - 1]
    BY <2>1 DEF attachOldest
  <2> HIDE DEF a, q
  <2>7. q = [a EXCEPT !.pending = f, !.clusterPending = N - 1]
    BY <2>1, <2>5, <2>6
  <2>8. N \in Nat /\ N > 0
    BY <2>1
  <2> HIDE DEF f, s, c, N
  <2>9. a \in PoolType /\ N - 1 \in Int
    BY <2>5, <2>8 DEF Core
  <2>10. q \in PoolType
    BY <2>3, <2>7, <2>9 DEF PoolType
  <2>11. /\ q.client = a.client /\ q.ready = a.ready /\ q.connecting = a.connecting
         /\ q.connectingCapacity = a.connectingCapacity /\ q.numActive = a.numActive
         /\ q.clusterCapacity = a.clusterCapacity /\ q.pending = f
         /\ q.clusterPending = N - 1 /\ q.purge = a.purge /\ q.lost = a.lost
         /\ q.draining = a.draining /\ q.deleted = a.deleted
    BY <2>7, <2>9 DEF PoolType
  <2>12. InState(q, "READY") = InState(a, "READY") /\ Live(q) = Live(a)
         /\ InState(q, "CONNECTING") = InState(a, "CONNECTING")
    BY <2>11 DEF InState, Live
  <2>13. Core(q)
    BY <2>3, <2>5, <2>10, <2>11, <2>12 DEF Core, Listed, Counted
  <2>14. Apart(q)
    BY <2>3, <2>5, <2>11 DEF Apart
  <2>15. Keeps(p, q)
    BY <2>5, <2>11, <2>12 DEF Keeps
  <2>16. OldestTaken(p, q)
    <3>1. N \in (N - 1) + 1 .. N
      BY <2>8
    <3>2. Len(p.pending) = N
      BY DEF N
    <3>3. s \in {p.pending[i] : i \in Len(q.pending) + 1 .. Len(p.pending)}
      BY <2>3, <2>11, <3>1, <3>2
    <3>4. Work(q.client) \subseteq Work(p.client)
            \cup {p.pending[i] : i \in Len(q.pending) + 1 .. Len(p.pending)}
      BY <2>5, <2>11, <3>3
    <3> QED BY <2>3, <2>8, <2>11, <3>2, <3>4 DEF OldestTaken
  <2> QED BY <1>2, <2>3, <2>5, <2>11, <2>13, <2>14, <2>15, <2>16 DEF Serving, N, q
<1> QED BY <1>1, <1>2

\* after is the function that onUpstreamReady defines by recursion.
Loop(after, p, N) ==
    after = [n \in 0 .. N |-> IF n = 0 THEN p ELSE attachOldest(after[n - 1])]

LEMMA LoopExists ==
    ASSUME NEW p, NEW N \in Nat
    PROVE  \E after : Loop(after, p, N)
<1> DEFINE T == {n \in Nat : \E after : Loop(after, p, n)}
<1>1. 0 \in T
  <2> DEFINE k == [n \in 0 .. 0 |-> p]
  <2>1. \A n \in 0 .. 0 : n = 0
    OBVIOUS
  <2>2. Loop(k, p, 0)
    BY <2>1 DEF Loop
  <2> HIDE DEF k
  <2> QED BY <2>2, Zenon
<1>2. ASSUME NEW n \in T PROVE n + 1 \in T
  <2>1. n \in Nat /\ n + 1 \in Nat
    OBVIOUS
  <2>2. PICK g : Loop(g, p, n)
    OBVIOUS
  <2> DEFINE D == 0 .. (n + 1)
             B(k, i) == IF i = 0 THEN p ELSE attachOldest(k[i - 1])
             h == [i \in D |-> B(g, i)]
  <2>3. \A i \in 0 .. n : i \in D /\ g[i] = h[i]
    <3>1. \A i \in 0 .. n : g[i] = B(g, i)
      BY <2>2, Zenon DEF Loop
    <3> HIDE DEF B
    <3> QED BY <2>1, <3>1
  <2>4. \A i \in D : i # 0 => i - 1 \in 0 .. n
    BY <2>1
  <2>5. \A i \in D : B(g, i) = B(h, i)
    <3> HIDE DEF h, D
    <3> QED BY <2>3, <2>4
  <2>6. h = [i \in D |-> B(h, i)]
    <3>1. [i \in D |-> B(g, i)] = [i \in D |-> B(h, i)]
      <4> HIDE DEF B, D, h
      <4> QED BY <2>5
    <3> QED BY <3>1
  <2>7. Loop(h, p, n + 1)
    <3> HIDE DEF h
    <3> QED BY <2>6 DEF Loop
  <2> HIDE DEF h
  <2> QED BY <2>1, <2>7, Zenon
<1>3. T \in SUBSET Nat
  OBVIOUS
<1> HIDE DEF T
<1>4. T = Nat
  BY <1>1, <1>2, <1>3, Induction
<1> QED BY <1>4 DEF T

\* The loop ends with no stream waiting or no client ready.
LEMMA OnUpstreamReady ==
    ASSUME NEW p, Core(p), Apart(p)
    PROVE  Serving(p, onUpstreamReady(p)) /\ Served(onUpstreamReady(p))
<1> DEFINE N == Len(p.pending)
           g == CHOOSE after : Loop(after, p, N)
<1>0. N \in Nat
  BY DEF Core, PoolType
<1>1. onUpstreamReady(p) = g[N]
  BY DEF onUpstreamReady, Loop
<1>2. Loop(g, p, N)
  BY <1>0, LoopExists
<1> HIDE DEF g
<1>3. g[0] = p /\ \A n \in 1 .. N : g[n] = attachOldest(g[n - 1])
  <2>1. \A n \in 0 .. N : g[n] = IF n = 0 THEN p ELSE attachOldest(g[n - 1])
    BY <1>2, Zenon DEF Loop
  <2>2. 0 \in 0 .. N /\ \A n \in 1 .. N : n \in 0 .. N /\ n # 0
    BY <1>0
  <2> QED BY <2>1, <2>2
<1> DEFINE OK(n) == Serving(p, g[n]) /\ (Served(g[n]) \/ Len(g[n].pending) = N - n)
           T == {n \in Nat : n <= N => OK(n)}
<1>4. 0 \in T
  <2>1. OK(0)
    BY <1>0, <1>3, ServingBasics
  <2> QED BY <2>1
<1>5. ASSUME NEW n \in T PROVE n + 1 \in T
  <2> SUFFICES ASSUME n + 1 <= N PROVE OK(n + 1)
    OBVIOUS
  <2>1. n \in Nat /\ n <= N /\ n + 1 \in 1 .. N /\ (n + 1) - 1 = n
    BY <1>0
  <2> DEFINE r == g[n]
             q == attachOldest(r)
  <2>2. Serving(p, r) /\ (Served(r) \/ Len(r.pending) = N - n)
    BY <2>1
  <2>3. g[n + 1] = q
    BY <1>3, <2>1
  <2> HIDE DEF r
  <2>4. Core(r) /\ Apart(r)
    BY <2>2 DEF Serving
  <2>5. /\ Serving(r, q) /\ (Served(r) => q = r)
        /\ (~Served(r) => Len(q.pending) = Len(r.pending) - 1)
    BY <2>4, AttachOldest
  <2> HIDE DEF q
  <2>6. Serving(p, q)
    BY <2>2, <2>5, ServingBasics
  <2>7. Served(q) \/ Len(q.pending) = N - (n + 1)
    BY <1>0, <2>1, <2>2, <2>5
  <2> QED BY <2>3, <2>6, <2>7
<1>6. OK(N)
  <2>1. T \in SUBSET Nat
    OBVIOUS
  <2> HIDE DEF T
  <2>2. T = Nat
    BY <1>4, <1>5, <2>1, Induction
  <2>3. N \in T /\ N <= N
    BY <1>0, <2>2
  <2> HIDE DEF OK
  <2> QED BY <2>3 DEF T
<1>7. Len(g[N].pending) = 0 /\ Core(g[N]) => g[N].pending = <<>>
  BY DEF Core, PoolType
<1>8. Served(g[N])
  BY <1>0, <1>6, <1>7 DEF Served, Serving
<1> QED BY <1>1, <1>6, <1>8

\* What a handler does to the pool when it attaches waiting streams, too.
Handled(p, q) ==
    /\ Good(q) /\ Attended(q) /\ Keeps(p, q) /\ Answers(p, q) /\ OldestTaken(p, q)

LEMMA HandledThen ==
    ASSUME NEW p, NEW r, NEW q, Core(p), Handled(p, r), Good(q), Keeps(r, q), Answers(r, q),
           Still(r, q)
    PROVE  Handled(p, q)
<1>1. Keeps(p, q) /\ Answers(p, q)
  BY KeepsTransitive DEF Handled
<1>2. OldestTaken(r, q)
  BY OldestTakenBasics DEF Handled, Good
<1>3. OldestTaken(p, q)
  BY <1>2, OldestTakenBasics DEF Handled, Good
<1>4. Attended(q)
  BY AttendedKept DEF Handled
<1> QED BY <1>1, <1>3, <1>4 DEF Handled

LEMMA StillHandled ==
    ASSUME NEW p, NEW q, Core(p), Attended(p), Good(q), Keeps(p, q), Answers(p, q), Still(p, q)
    PROVE  Handled(p, q)
<1>1. OldestTaken(p, q)
  BY OldestTakenBasics DEF Good
<1>2. Attended(q)
  BY AttendedKept
<1> QED BY <1>1, <1>2 DEF Handled

\* A client becomes ready and takes waiting streams.
LEMMA ReadyAndServed ==
    ASSUME NEW p, Good(p), Attended(p), NEW c \in Live(p), p.client[c].remaining > 0,
           OnlyDrains => /\ p.client[c].state # "DRAINING"
                         /\ numActiveStreams(p.client[c]) < p.client[c].limit,
           NEW o, o = [p EXCEPT !.connectingCapacity = @ - Waiting(p.client[c])]
    PROVE  Handled(p, onUpstreamReady(transitionActiveClientState(o, c, "READY")))
<1> DEFINE r == transitionActiveClientState(o, c, "READY")
           q == onUpstreamReady(r)
<1>1. /\ Core(r) /\ Keeps(p, r) /\ Still(p, r) /\ Work(r.client) = Work(p.client)
      /\ r.purge = p.purge /\ r.lost = p.lost
      /\ r.draining = p.draining /\ r.deleted = p.deleted
  BY ToReady DEF Good
<1> HIDE DEF r
<1>2. Apart(r)
  BY <1>1 DEF Good, Apart, Still
<1>3. Serving(r, q) /\ Served(q)
  BY <1>1, <1>2, OnUpstreamReady
<1> HIDE DEF q
<1>4. ~p.deleted
  BY DEF Good, Rests, isIdle
<1>5. Keeps(p, q)
  BY <1>1, <1>3, KeepsTransitive DEF Serving
<1>6. OldestTaken(p, q)
  <2>1. OldestTaken(p, r)
    BY <1>1, OldestTakenBasics DEF Good
  <2> QED BY <1>1, <1>3, <2>1, OldestTakenBasics DEF Serving, Good
<1>7. Good(q)
  BY <1>1, <1>3, <1>4 DEF Good, Serving, Rests
<1>8. Attended(q) /\ Answers(p, q)
  BY <1>1, <1>3, <1>5, AttendedKept DEF Serving, Answers
<1> QED BY <1>5, <1>6, <1>7, <1>8 DEF Handled, q, r

\* A client loses a stream.
LEMMA StreamTakenOff ==
    ASSUME NEW p, Good(p), NEW c \in Clients, NEW s \in p.client[c].active
    PROVE  LET k == [p.client[c] EXCEPT !.active = @ \ {s}]
               grows == limitedByConcurrency(k) \/ k.negative > 0
               j == [k EXCEPT !.negative = IF @ > 0 THEN @ - 1 ELSE 0]
               q == [p EXCEPT !.numActive = @ - 1,
                              !.clusterCapacity = IF grows THEN @ + 1 ELSE @,
                              !.client[c] = j]
           IN  /\ Good(q) /\ Keeps(p, q) /\ Answers(p, q) /\ Still(p, q)
               /\ q.client[c] = j /\ Live(q) = Live(p) /\ c \in Live(p)
               /\ j.state = p.client[c].state /\ j.state \notin {"NONE", "CONNECTING"}
               /\ j.active = p.client[c].active \ {s} /\ j.remaining = p.client[c].remaining
               /\ OnlyDrains /\ j.state = "BUSY" => numActiveStreams(j) < j.limit
<1> DEFINE o == p.client[c]
           k == [o EXCEPT !.active = @ \ {s}]
           grows == limitedByConcurrency(k) \/ k.negative > 0
           j == [k EXCEPT !.negative = IF @ > 0 THEN @ - 1 ELSE 0]
           q == [p EXCEPT !.numActive = @ - 1,
                          !.clusterCapacity = IF grows THEN @ + 1 ELSE @,
                          !.client[c] = j]
<1>0. /\ Core(p) /\ p \in PoolType /\ ClientsOK(p.client) /\ o \in ClientType
      /\ p.client \in [Clients -> ClientType]
      /\ ClientOK(o) /\ (OnlyDrains => LimitOK(o)) /\ IsFiniteSet(o.active)
      /\ o.remaining \in Nat /\ o.limit \in Nat /\ o.negative \in Nat
      /\ numActiveStreams(o) \in Nat /\ p.numActive \in Int /\ p.clusterCapacity \in Int
      /\ p.connectingCapacity \in Int
  BY ClientCapacity DEF Good, Core, ClientsOK, PoolType, ClientType
<1>1. o.state \notin {"NONE", "CONNECTING"}
  <2>1. NoClient.active = {}
    BY DEF NoClient
  <2> QED BY <1>0, <2>1 DEF ClientOK
<1>2. /\ k \in ClientType /\ k.state = o.state /\ k.remaining = o.remaining
      /\ k.limit = o.limit /\ k.negative = o.negative /\ k.active = o.active \ {s}
  BY <1>0 DEF ClientType
<1>3. /\ j \in ClientType /\ j.state = o.state /\ j.remaining = o.remaining
      /\ j.limit = o.limit /\ j.active = o.active \ {s}
      /\ j.negative = IF o.negative > 0 THEN o.negative - 1 ELSE 0
  <2> HIDE DEF k
  <2> QED BY <1>0, <1>2 DEF ClientType
<1>4. /\ numActiveStreams(k) = numActiveStreams(o) - 1 /\ numActiveStreams(j) = numActiveStreams(o) - 1
      /\ numActiveStreams(o) > 0
  <2>1. Cardinality(o.active \ {s}) = Cardinality(o.active) - 1
    BY <1>0, FS_RemoveElement
  <2>2. Cardinality(o.active) # 0
    BY <1>0, FS_EmptySet
  <2> HIDE DEF k, j
  <2> QED BY <1>0, <1>2, <1>3, <2>1, <2>2 DEF numActiveStreams
<1> DEFINE m == [p.client EXCEPT ![c] = j]
           y == IF grows THEN p.clusterCapacity + 1 ELSE p.clusterCapacity
           z == p.numActive - 1
<1>5. q = [p EXCEPT !.numActive = z, !.clusterCapacity = y, !.client = m]
  <2> HIDE DEF j, grows
  <2> QED OBVIOUS
<1>6. m \in [Clients -> ClientType] /\ y \in Int /\ z \in Int
  <2> HIDE DEF j, grows
  <2> QED BY <1>0, <1>3
<1>7. OnlyDrains => y = p.clusterCapacity + (currentUnusedCapacity(j) - currentUnusedCapacity(o))
  <2> HAVE OnlyDrains
  <2>1. \/ o.limit = ConcurrentLimit /\ o.negative = 0 /\ numActiveStreams(o) <= o.limit
        \/ o.limit = 0 /\ o.negative >= numActiveStreams(o)
    BY <1>0, <1>1 DEF LimitOK
  <2> DEFINE a == numActiveStreams(o)
  <2>2. grows <=> (o.limit - (a - 1) - 1 >= 0 /\ o.remaining > o.limit - (a - 1) - 1)
                  \/ o.negative > 0
    <3> HIDE DEF k
    <3> QED BY <1>2, <1>4 DEF limitedByConcurrency
  <2>3. currentUnusedCapacity(j) = Smaller(o.remaining, o.limit - (a - 1))
        /\ currentUnusedCapacity(o) = Smaller(o.remaining, o.limit - a)
    <3> HIDE DEF j
    <3> QED BY <1>3, <1>4 DEF currentUnusedCapacity
  <2>4. a \in Nat /\ a > 0
    BY <1>0, <1>4
  <2> HIDE DEF a, j, grows
  <2>5. CASE o.limit = ConcurrentLimit /\ o.negative = 0 /\ a <= o.limit
    BY <1>0, <2>2, <2>3, <2>4, <2>5 DEF Smaller
  <2>6. CASE o.limit = 0 /\ o.negative >= a
    BY <1>0, <2>2, <2>3, <2>4, <2>6 DEF Smaller
  <2> QED BY <2>1, <2>5, <2>6 DEF a
<1> HIDE DEF q, m, y, z, j, k, grows
<1>8. q \in PoolType
  BY <1>0, <1>5, <1>6 DEF PoolType
<1>9. /\ q.numActive = z /\ q.clusterCapacity = y /\ q.client = m
      /\ q.ready = p.ready /\ q.connecting = p.connecting /\ q.pending = p.pending
      /\ q.purge = p.purge /\ q.connectingCapacity = p.connectingCapacity
      /\ q.draining = p.draining /\ q.deleted = p.deleted
      /\ q.clusterPending = p.clusterPending /\ q.lost = p.lost
  BY <1>0, <1>5 DEF PoolType
<1>10. ClientOK(j) /\ (OnlyDrains => LimitOK(j))
  <2>1. ClientOK(j)
    BY <1>0, <1>1, <1>3 DEF ClientOK
  <2>2. OnlyDrains => LimitOK(j)
    BY <1>0, <1>1, <1>3, <1>4 DEF LimitOK
  <2> QED BY <2>1, <2>2
<1>11. Waiting(j) = 0 /\ Waiting(o) = 0
  BY <1>1, <1>3 DEF Waiting
<1>12. (Work(p.client) \ o.active) \cup j.active = Work(p.client) \ {s}
  BY <1>0, <1>3 DEF Work, ClientsOK
<1>13. OneChange(p, q, c, j)
  <2>1. \A d \in Clients \ {c} : p.client[d].active \cap j.active = {}
    BY <1>0, <1>3 DEF ClientsOK
  <2>2. q.numActive = Cardinality(Work(p.client) \ {s})
    <3>1. Work(p.client) \in SUBSET Streams /\ s \in Work(p.client)
      BY <1>0, TotalTypes DEF Work
    <3>2. IsFiniteSet(Work(p.client))
      BY <3>1, PoolAssumption, FS_Subset
    <3>3. Cardinality(Work(p.client) \ {s}) = Cardinality(Work(p.client)) - 1
      BY <3>1, <3>2, FS_RemoveElement
    <3> QED BY <1>0, <1>9, <3>3 DEF Core, Counted, z
  <2>3. IsInjective(q.pending) /\ q.clusterPending = Len(q.pending)
    BY <1>0, <1>9 DEF Core, Listed, Counted
  <2>4. q.connectingCapacity = p.connectingCapacity + (Waiting(j) - Waiting(o))
    BY <1>0, <1>9, <1>11
  <2>5. /\ ToSet(q.ready) = IF j.state = "READY" THEN ToSet(p.ready) \cup {c}
                            ELSE ToSet(p.ready) \ {c}
        /\ ToSet(q.connecting) = IF j.state = "CONNECTING" THEN ToSet(p.connecting) \cup {c}
                                 ELSE ToSet(p.connecting) \ {c}
    <3>1. j.state = o.state /\ o.state # "CONNECTING"
      BY <1>1, <1>3
    <3>2. c \in ToSet(p.ready) <=> o.state = "READY"
      BY <1>0 DEF Core, Listed, InState
    <3>3. c \notin ToSet(p.connecting)
      BY <1>0, <3>1 DEF Core, Listed, InState
    <3>4. ToSet(q.ready) = ToSet(p.ready) /\ ToSet(q.connecting) = ToSet(p.connecting)
      BY <1>9
    <3> HIDE DEF q, j
    <3> QED BY <3>1, <3>2, <3>3, <3>4
  <2>6. q.client = [p.client EXCEPT ![c] = j]
    BY <1>9 DEF m
  <2>7. OnlyDrains => q.clusterCapacity
            = p.clusterCapacity + (currentUnusedCapacity(j) - currentUnusedCapacity(o))
    BY <1>7, <1>9
  <2> QED BY <1>3, <1>8, <1>10, <1>12, <2>1, <2>2, <2>3, <2>4, <2>5, <2>6, <2>7 DEF OneChange
<1>14. /\ Core(q) /\ q.client[c] = j /\ \A d \in Clients \ {c} : q.client[d] = p.client[d]
       /\ Work(q.client) = (Work(p.client) \ o.active) \cup j.active
       /\ Live(q) = IF j.state = "NONE" THEN Live(p) \ {c} ELSE Live(p) \cup {c}
  BY <1>0, <1>13, CoreOneChanges
<1>15. c \in Live(p) /\ Live(q) = Live(p) /\ Work(q.client) \subseteq Work(p.client)
  BY <1>1, <1>3, <1>12, <1>14 DEF Live
<1>16. Keeps(p, q)
  <2>1. \A d \in Clients : d = c \/ q.client[d] = p.client[d]
    BY <1>14
  <2>2. \A d \in Dying \cap Live(p) :
          p.client[d].active = {} => q.client[d] = p.client[d] /\ d \in Live(q)
    BY <1>15, <2>1 DEF Dying
  <2>3. \A d \in InState(q, "CONNECTING") : q.client[d] = p.client[d]
    BY <1>1, <1>3, <1>14, <2>1 DEF InState
  <2> QED BY <1>9, <1>15, <2>2, <2>3 DEF Keeps
<1>17. Apart(q) /\ Served(q) /\ Rests(q)
  BY <1>9, <1>15 DEF Good, Apart, Served, Rests, isIdle
<1>18. OnlyDrains /\ j.state = "BUSY" => numActiveStreams(j) < j.limit
  BY <1>0, <1>1, <1>3, <1>4 DEF LimitOK
<1> QED
  BY <1>1, <1>3, <1>9, <1>14, <1>15, <1>16, <1>17, <1>18
  DEF Good, Answers, Still, q, j, k, grows

\* onStreamClosed, from the pool before the codec removed the stream.
LEMMA OnStreamClosed ==
    ASSUME NEW p, Good(p), Attended(p), NEW c \in Clients, NEW s \in p.client[c].active
    PROVE  Handled(p, onStreamClosed(p, c, s))
<1> DEFINE k == [p.client[c] EXCEPT !.active = @ \ {s}]
           grows == limitedByConcurrency(k) \/ k.negative > 0
           j == [k EXCEPT !.negative = IF @ > 0 THEN @ - 1 ELSE 0]
           q == [p EXCEPT !.numActive = @ - 1,
                          !.clusterCapacity = IF grows THEN @ + 1 ELSE @,
                          !.client[c] = j]
           t == transitionActiveClientState(q, c, "READY")
<1>0. p.client[c] \in ClientType /\ Core(p)
  BY DEF Good, Core, PoolType
<1>1. k.state = p.client[c].state /\ k.active = p.client[c].active \ {s}
  BY <1>0 DEF ClientType
<1>2. onStreamClosed(p, c, s)
        = IF k.state = "DRAINING" /\ k.active = {} THEN closeClient(q, c)
          ELSE IF k.state = "BUSY" THEN onUpstreamReady(t) ELSE q
  BY Zenon DEF onStreamClosed
<1>3. /\ Good(q) /\ Keeps(p, q) /\ Answers(p, q) /\ Still(p, q)
      /\ q.client[c] = j /\ Live(q) = Live(p) /\ c \in Live(p)
      /\ j.state = p.client[c].state /\ j.state \notin {"NONE", "CONNECTING"}
      /\ j.active = p.client[c].active \ {s} /\ j.remaining = p.client[c].remaining
      /\ OnlyDrains /\ j.state = "BUSY" => numActiveStreams(j) < j.limit
  BY StreamTakenOff
<1> HIDE DEF q, j, k
<1>4. Attended(q) /\ Handled(p, q)
  BY <1>0, <1>3, AttendedKept, StillHandled
<1>5. CASE k.state = "DRAINING" /\ k.active = {}
  <2> DEFINE u == closeClient(q, c)
  <2>1. Good(u) /\ Keeps(q, u) /\ Answers(q, u) /\ Still(q, u)
    BY <1>1, <1>3, <1>4, <1>5, CloseClient
  <2> HIDE DEF u
  <2>2. Handled(p, u)
    BY <1>0, <1>4, <2>1, HandledThen
  <2> QED BY <1>2, <1>5, <2>2 DEF u
<1>6. CASE k.state = "BUSY"
  <2>1. q.client[c].remaining > 0 /\ q.client[c].state = "BUSY" /\ Waiting(q.client[c]) = 0
    BY <1>1, <1>3, <1>6 DEF Good, Core, ClientsOK, ClientOK, Waiting
  <2>2. q = [q EXCEPT !.connectingCapacity = @ - Waiting(q.client[c])]
    <3>1. q \in PoolType
      BY <1>3 DEF Good, Core
    <3>2. q.connectingCapacity \in Int
      BY <3>1 DEF PoolType
    <3>3. q.connectingCapacity - Waiting(q.client[c]) = q.connectingCapacity
      BY <2>1, <3>2
    <3>4. q = [q EXCEPT !.connectingCapacity = q.connectingCapacity]
      BY <3>1 DEF PoolType
    <3> QED BY <3>3, <3>4
  <2>3. OnlyDrains => /\ q.client[c].state # "DRAINING"
                      /\ numActiveStreams(q.client[c]) < q.client[c].limit
    BY <1>3, <2>1
  <2>4. c \in Live(q)
    BY <1>3
  <2>5. Handled(q, onUpstreamReady(t))
    BY <1>3, <1>4, <2>1, <2>2, <2>3, <2>4, ReadyAndServed
  <2> DEFINE u == onUpstreamReady(t)
  <2> HIDE DEF u
  <2>6. Handled(p, u)
    <3>1. Handled(q, u)
      BY <2>5 DEF u
    <3>2. Keeps(p, u) /\ Answers(p, u)
      BY <1>3, <3>1, KeepsTransitive DEF Handled
    <3>3. OldestTaken(p, u)
      BY <1>0, <1>4, <3>1, OldestTakenBasics DEF Handled, Good
    <3> QED BY <3>1, <3>2, <3>3 DEF Handled
  <2> QED BY <1>2, <1>6, <2>6 DEF u
<1>7. CASE ~(k.state = "DRAINING" /\ k.active = {}) /\ k.state # "BUSY"
  BY <1>2, <1>4, <1>7
<1> QED BY <1>5, <1>6, <1>7

\* Every client that is not connecting drains.
LEMMA DrainClients ==
    ASSUME NEW p, Good(p)
    PROVE  LET q == drainClients(p, Live(p) \ InState(p, "CONNECTING"))
           IN  Good(q) /\ Keeps(p, q) /\ Answers(p, q) /\ Still(p, q)
<1> DEFINE S == Live(p) \ InState(p, "CONNECTING")
           q == drainClients(p, S)
           m == [c \in Clients |-> IF c \in S THEN setState(p.client[c], "DRAINING")
                                   ELSE p.client[c]]
           less == SumFunctionOnSet([c \in Clients |-> drained(p.client[c])], S)
           y == p.clusterCapacity - less
           rd == Without(p.ready, S)
<1>0. /\ p \in PoolType /\ ClientsOK(p.client) /\ p.client \in [Clients -> ClientType]
      /\ p.ready \in Seq(Clients) /\ p.clusterCapacity \in Int /\ Core(p)
  BY DEF Good, Core, PoolType
<1>1. S \in SUBSET Clients /\ \A c \in S : p.client[c].state \notin {"NONE", "CONNECTING"}
  BY DEF Live, InState
<1>2. q = [p EXCEPT !.client = m, !.clusterCapacity = y, !.ready = rd]
  BY DEF drainClients
<1> HIDE DEF S
<1>3. /\ ClientsOK(m) /\ Work(m) = Work(p.client)
      /\ TotalConnecting(m) = TotalConnecting(p.client)
      /\ TotalUnused(m) = TotalUnused(p.client) - less
  BY <1>0, <1>1, SomeDrained
<1>4. \A c \in Clients : m[c] = IF c \in S THEN setState(p.client[c], "DRAINING")
                                ELSE p.client[c]
  OBVIOUS
<1>5. y \in Int
  <2> DEFINE f == [c \in Clients |-> drained(p.client[c])]
  <2>1. \A c \in Clients : f[c] \in Int
    BY <1>0, ClientCapacity
  <2>2. IsFiniteSet(S)
    BY <1>1, PoolAssumption, FS_Subset
  <2> HIDE DEF f
  <2>3. SumFunctionOnSet(f, S) \in Int
    BY <1>1, <2>1, <2>2, SumType
  <2> QED BY <1>0, <2>3 DEF f
<1>6. rd \in Seq(Clients) /\ ToSet(rd) = ToSet(p.ready) \ S
  BY <1>0, WithoutProperties
<1>7. m \in [Clients -> ClientType]
  BY <1>3 DEF ClientsOK
<1> HIDE DEF q, m, y, rd, less
<1>8. q \in PoolType
  BY <1>0, <1>2, <1>5, <1>6, <1>7 DEF PoolType
<1>9. /\ q.client = m /\ q.clusterCapacity = y /\ q.ready = rd
      /\ q.connecting = p.connecting /\ q.pending = p.pending /\ q.purge = p.purge
      /\ q.connectingCapacity = p.connectingCapacity /\ q.numActive = p.numActive
      /\ q.draining = p.draining /\ q.deleted = p.deleted
      /\ q.clusterPending = p.clusterPending /\ q.lost = p.lost
  BY <1>0, <1>2 DEF PoolType
<1>10. \A c \in S : /\ m[c].state = "DRAINING" /\ m[c].active = p.client[c].active
                    /\ p.client[c].remaining = 0 => m[c].remaining = 0
  <2> TAKE c \in S
  <2>1. p.client[c] \in ClientType /\ p.client[c].state # "NONE"
        /\ m[c] = setState(p.client[c], "DRAINING")
    BY <1>0, <1>1, <1>4
  <2> QED BY <2>1, DrainingSet
<1>11. /\ InState(q, "READY") = InState(p, "READY") \ S
       /\ InState(q, "CONNECTING") = InState(p, "CONNECTING")
       /\ Live(q) = Live(p)
  BY <1>1, <1>4, <1>9, <1>10 DEF InState, Live
<1>12. Listed(q)
  BY <1>0, <1>6, <1>9, <1>11 DEF Core, Listed
<1>13. Counted(q)
  BY <1>0, <1>3, <1>9 DEF Core, Counted, y
<1>14. Core(q)
  BY <1>3, <1>8, <1>9, <1>12, <1>13 DEF Core
<1>15. p.ready = <<>> => rd = <<>>
  BY <1>0, <1>6, SmallerList
<1>16. Apart(q) /\ Served(q) /\ Rests(q)
  BY <1>3, <1>9, <1>11, <1>15 DEF Good, Apart, Served, Rests, isIdle
<1>17. Keeps(p, q)
  <2>1. \A d \in Clients : m[d] = p.client[d]
                           \/ (d \in S /\ m[d].state = "DRAINING" /\ m[d].active = p.client[d].active
                               /\ (p.client[d].remaining = 0 => m[d].remaining = 0))
    BY <1>4, <1>10
  <2>2. \A d \in InState(q, "CONNECTING") : q.client[d] = p.client[d]
    BY <1>9, <2>1 DEF InState
  <2>3. \A d \in Dying \cap Live(p) :
          /\ d \in Live(q)
          /\ p.client[d].remaining = 0 /\ p.client[d].active = {}
               => q.client[d].remaining = 0 /\ q.client[d].active = {}
    BY <1>9, <1>11, <2>1 DEF Dying
  <2> QED BY <1>9, <2>2, <2>3 DEF Keeps
<1> QED BY <1>3, <1>9, <1>14, <1>16, <1>17 DEF Good, Answers, Still, q, S

\* The end of onConnectionEvent.  r is the pool without the client c.
LEMMA FinishClose ==
    ASSUME NEW r, Good(r), r.purge = <<>>
    PROVE  LET t == checkForIdleAndCloseIdleConnsIfDraining(r)
               q == connectForPending(t)
           IN  Good(q) /\ Keeps(r, q) /\ Still(r, q) /\ q.lost = r.lost /\ q.purge = <<>>
<1> DEFINE t == checkForIdleAndCloseIdleConnsIfDraining(r)
           q == connectForPending(t)
<1>1. Attended(r)
  BY DEF Attended
<1>2. Good(t) /\ Keeps(r, t) /\ Still(r, t)
  BY <1>1, CheckForIdle
<1> HIDE DEF t
<1>3. Good(q) /\ Keeps(t, q) /\ Still(t, q)
  BY <1>2, ConnectForPending
<1> HIDE DEF q
<1>4. Keeps(r, q) /\ Still(r, q)
  BY <1>2, <1>3, KeepsTransitive
<1>5. q.lost = r.lost /\ q.purge = <<>>
  BY <1>4 DEF Keeps
<1> QED BY <1>3, <1>4, <1>5 DEF t, q

-----------------------------------------------------------------------------
(* The steps.                                                              *)

\* No client goes down and none that goes down is finished.
SameFrame ==
    /\ UNCHANGED lowered
    /\ \/ UNCHANGED closing
       \/ InHandler /\ \E s \in Streams : closing' = [closing EXCEPT !.stream = s]

LEMMA OperationKeeps ==
    ASSUME NEW p, Held(p), SameFrame, Good(pool'), Keeps(p, pool')
    PROVE  PoolInv'
<1> DEFINE q == pool'
<1>0. /\ closing' \in FrameType /\ closing'.client = closing.client
      /\ closing'.phase = closing.phase
      /\ closing.client = NoOne => closing'.stream = closing.stream
  BY DEF Held, SameFrame, FrameType, InHandler
<1>1. Held(p) /\ Dying' = Dying
  BY <1>0 DEF Dying
<1>2. Dying \subseteq Live(q)
  BY <1>1 DEF Held, Keeps
<1>3. q.purge # <<>> => closing.phase = "purge"
  BY <1>1 DEF Held, Keeps
<1>4. closing.phase = "purge" =>
         \A d \in Dying : q.client[d].remaining = 0 /\ q.client[d].active = {}
  BY <1>1 DEF Held, Keeps
<1>5. \A c \in InState(q, "CONNECTING") \ Dying : q.client[c].remaining > 0
  <2> TAKE c \in InState(q, "CONNECTING") \ Dying
  <2>1. CASE q.client[c] = NewClient
    BY <2>1, EmptyClient
  <2>2. CASE q.client[c] = p.client[c]
    BY <1>1, <2>2 DEF Held, InState
  <2> QED BY <2>1, <2>2 DEF Keeps
<1>6. Held(pool)'
  BY <1>0, <1>1, <1>2, <1>3, <1>4, <1>5 DEF Held, Live, InState
<1> QED
  BY <1>6
  DEF PoolInv, Good, Core, Apart, Served, Rests, ClientsOK, Listed, Counted, isIdle,
      OnlyDrains, SameFrame

\* What PendingStreamsKept asks of a step.
LEMMA OrderKept ==
    ASSUME NEW p, NEW q, Good(p), Core(q), OldestTaken(p, q)
    PROVE  \A i, j \in DOMAIN p.pending :
             i < j /\ p.pending[i] \in Work(q.client) => p.pending[j] \notin ToSet(q.pending)
<1> DEFINE N == Len(p.pending)
           M == Len(q.pending)
<1>1. /\ DOMAIN p.pending = 1 .. N /\ N \in Nat /\ DOMAIN q.pending = 1 .. M /\ M \in Nat
      /\ M <= N
  BY DEF Good, Core, PoolType, OldestTaken
<1> SUFFICES ASSUME NEW i \in 1 .. N, NEW j \in 1 .. N, i < j,
                    p.pending[i] \in Work(q.client), p.pending[j] \in ToSet(q.pending)
             PROVE  FALSE
  BY <1>1
<1>2. IsInjective(p.pending) /\ p.pending[i] \notin Work(p.client)
  BY <1>1 DEF Good, Core, Listed, Apart, ToSet
<1>3. PICK a \in M + 1 .. N : p.pending[i] = p.pending[a]
  BY <1>2 DEF OldestTaken
<1>4. a \in 1 .. N /\ a > M
  BY <1>1
<1>5. i = a
  BY <1>1, <1>2, <1>3, <1>4 DEF IsInjective
<1>6. PICK b \in 1 .. M : p.pending[j] = q.pending[b]
  BY <1>1 DEF ToSet
<1>7. b \in 1 .. N /\ p.pending[j] = p.pending[b]
  BY <1>1, <1>6 DEF OldestTaken
<1>8. j = b
  BY <1>1, <1>2, <1>7 DEF IsInjective
<1> QED BY <1>1, <1>4, <1>5, <1>8

LEMMA NothingAttached ==
    ASSUME NEW p, NEW q, p.pending \in Seq(Streams), Work(q.client) \cap ToSet(p.pending) = {}
    PROVE  \A i, j \in DOMAIN p.pending :
             i < j /\ p.pending[i] \in Work(q.client) => p.pending[j] \notin ToSet(q.pending)
BY DEF ToSet

StreamsKept == LostOnlyWhileDraining /\ AttachedInOrder

LEMMA HandledStep ==
    ASSUME PoolInv, SameFrame, Handled(pool, pool')
    PROVE  PoolInv' /\ StreamsKept
<1>1. Good(pool) /\ Good(pool') /\ Keeps(pool, pool') /\ Answers(pool, pool')
      /\ OldestTaken(pool, pool')
  BY DEF Handled, PoolInv
<1>2. PoolInv'
  BY <1>1, OperationKeeps DEF PoolInv
<1>3. LostOnlyWhileDraining
  BY <1>1 DEF LostOnlyWhileDraining, Answers
<1>4. AttachedInOrder
  BY <1>1, OrderKept DEF AttachedInOrder, ActiveStreams, Work, Good
<1> QED BY <1>2, <1>3, <1>4 DEF StreamsKept

LEMMA PoolAttended == PoolInv => Good(pool) /\ Held(pool) /\ Attended(pool)
<1> SUFFICES ASSUME PoolInv PROVE Good(pool) /\ Held(pool) /\ Attended(pool)
  OBVIOUS
<1>1. Good(pool) /\ Held(pool)
  BY DEF PoolInv
<1>2. Attended(pool)
  <2> SUFFICES ASSUME pool.purge # <<>> PROVE Dying \cap Live(pool) # {}
    BY DEF Attended
  <2>1. closing.phase = "purge" /\ closing.client # NoOne
        /\ closing.client \in Clients \cup {NoOne}
    BY <1>1 DEF Held, FrameType
  <2>2. closing.client \in Dying
    BY <2>1 DEF Dying
  <2> QED BY <1>1, <2>2 DEF Held
<1> QED BY <1>1, <1>2

\* The lists and counters of q are those of p.
SameCore(p, q) ==
    /\ q \in PoolType /\ q.client = p.client /\ q.ready = p.ready
    /\ q.connecting = p.connecting /\ q.pending = p.pending
    /\ q.connectingCapacity = p.connectingCapacity /\ q.numActive = p.numActive
    /\ q.clusterCapacity = p.clusterCapacity /\ q.clusterPending = p.clusterPending

LEMMA CoreSame ==
    ASSUME NEW p, Core(p), NEW q, SameCore(p, q)
    PROVE  /\ Core(q) /\ (Apart(p) => Apart(q)) /\ (Served(p) => Served(q))
           /\ Live(q) = Live(p) /\ Still(p, q) /\ Work(q.client) = Work(p.client)
           /\ \A st : InState(q, st) = InState(p, st)
<1>1. Live(q) = Live(p) /\ (\A st : InState(q, st) = InState(p, st)) /\ Still(p, q)
      /\ Work(q.client) = Work(p.client)
  BY DEF SameCore, Live, InState, Still
<1>2. Core(q)
  BY <1>1 DEF SameCore, Core, ClientsOK, Listed, Counted
<1>3. (Apart(p) => Apart(q)) /\ (Served(p) => Served(q))
  BY DEF SameCore, Apart, Served
<1> QED BY <1>1, <1>2, <1>3

\* An operation after which no stream that waited has a client.
LEMMA OperationStep ==
    ASSUME PoolInv, NEW p, Held(p), SameFrame, Good(pool'), Keeps(p, pool'),
           pool'.lost # pool.lost => pool.draining,
           Work(pool'.client) \cap ToSet(pool.pending) = {}
    PROVE  PoolInv' /\ StreamsKept
<1>1. PoolInv'
  BY OperationKeeps
<1>2. pool.pending \in Seq(Streams)
  BY DEF PoolInv, Good, Core, PoolType
<1>3. AttachedInOrder
  BY <1>2, NothingAttached DEF AttachedInOrder, ActiveStreams, Work
<1> QED BY <1>1, <1>3 DEF StreamsKept, LostOnlyWhileDraining

LEMMA OtherPoolsStep ==
    ASSUME PoolInv, otherPools
    PROVE  PoolInv' /\ StreamsKept
<1>1. PICK b \in {"none", "connections", "pending"} : pool' = [pool EXCEPT !.full = b]
  BY DEF otherPools
<1>2. Good(pool) /\ Attended(pool) /\ Core(pool) /\ pool \in PoolType
  BY PoolAttended DEF Good, Core
<1>3. /\ SameCore(pool, pool') /\ pool'.purge = pool.purge /\ pool'.lost = pool.lost
      /\ pool'.draining = pool.draining /\ pool'.deleted = pool.deleted
  BY <1>1, <1>2 DEF PoolType, SameCore
<1> DEFINE q == pool'
<1>4. /\ Core(q) /\ Apart(q) /\ Served(q) /\ Live(q) = Live(pool) /\ Still(pool, q)
      /\ InState(q, "CONNECTING") = InState(pool, "CONNECTING")
  BY <1>2, <1>3, CoreSame DEF Good
<1>5. Rests(q)
  BY <1>2, <1>3, <1>4 DEF Good, Rests, isIdle, SameCore
<1>6. Keeps(pool, q) /\ Answers(pool, q)
  BY <1>3, <1>4 DEF Keeps, Answers, SameCore
<1>7. Handled(pool, q)
  BY <1>2, <1>4, <1>5, <1>6, StillHandled DEF Good
<1> QED BY <1>7, HandledStep DEF otherPools, SameFrame

LEMMA MaybePreconnectStep ==
    ASSUME PoolInv, maybePreconnect
    PROVE  PoolInv' /\ StreamsKept
<1> DEFINE q == tryCreateNewConnection(pool, 1)
<1>1. Good(pool) /\ Attended(pool) /\ Core(pool)
  BY PoolAttended DEF Good
<1>2. /\ Core(q) /\ Keeps(pool, q) /\ Answers(pool, q) /\ Still(pool, q)
      /\ q.ready = pool.ready /\ q.deleted = pool.deleted
  BY <1>1, TryCreate
<1>3. pool' = q /\ ~pool.deleted /\ UNCHANGED <<closing, lowered>>
  BY DEF maybePreconnect
<1> HIDE DEF q
<1>4. Good(q)
  BY <1>1, <1>2, <1>3 DEF Good, Apart, Served, Rests, Still
<1>5. Handled(pool, q)
  BY <1>1, <1>2, <1>4, StillHandled
<1> QED BY <1>3, <1>5, HandledStep DEF SameFrame

LEMMA OnStreamDestroyStep ==
    ASSUME PoolInv, NEW s, onStreamDestroy(s)
    PROVE  PoolInv' /\ StreamsKept
<1>1. Good(pool) /\ Attended(pool) /\ Core(pool)
  BY PoolAttended DEF Good
<1>2. PICK c \in Clients :
        /\ s \in pool.client[c].active
        /\ pool' = IF c \in Dying THEN onStreamClosed(pool, c, s)
                   ELSE checkForIdleAndCloseIdleConnsIfDraining(onStreamClosed(pool, c, s))
  BY DEF onStreamDestroy
<1> DEFINE r == onStreamClosed(pool, c, s)
           q == checkForIdleAndCloseIdleConnsIfDraining(r)
<1>3. Handled(pool, r)
  BY <1>1, <1>2, OnStreamClosed
<1>d. CASE c \in Dying
  BY <1>2, <1>3, <1>d, HandledStep DEF onStreamDestroy, SameFrame
<1>n. CASE c \notin Dying
  <2> HIDE DEF r
  <2>4. Good(q) /\ Keeps(r, q) /\ Answers(r, q) /\ Still(r, q)
    BY <1>3, CheckForIdle DEF Handled
  <2>5. pool' = q
    BY <1>2, <1>n DEF r
  <2> HIDE DEF q
  <2>6. Handled(pool, q)
    BY <1>1, <1>3, <2>4, HandledThen
  <2> QED BY <2>5, <2>6, HandledStep DEF onStreamDestroy, SameFrame
<1> QED BY <1>d, <1>n

LEMMA ConnectedStep ==
    ASSUME PoolInv, NEW c \in Clients, connected(c)
    PROVE  PoolInv' /\ StreamsKept
<1> DEFINE o == [pool EXCEPT !.connectingCapacity =
                               @ - effectiveConcurrentStreamLimit(pool.client[c])]
           r == onUpstreamReady(transitionActiveClientState(o, c, "READY"))
           q == checkForIdleAndCloseIdleConnsIfDraining(r)
<1>1. Good(pool) /\ Attended(pool) /\ Core(pool) /\ Held(pool) /\ ClientsOK(pool.client)
      /\ pool.client \in [Clients -> ClientType]
  BY PoolAttended DEF Good, Core, ClientsOK
<1>2. /\ ~InHandler /\ pool.client[c].state = "CONNECTING" /\ UNCHANGED <<closing, lowered>>
      /\ pool' = q
  BY Zenon DEF connected
<1>3. c \in Live(pool) /\ c \in InState(pool, "CONNECTING") \ Dying
  BY <1>2, PoolAssumption DEF InHandler, Live, InState, Dying
<1>4. pool.client[c].remaining > 0
  BY <1>1, <1>3 DEF Held
<1>5. /\ Waiting(pool.client[c]) = effectiveConcurrentStreamLimit(pool.client[c])
      /\ pool.client[c].active = {} /\ pool.client[c] \in ClientType
  BY <1>1, <1>2 DEF Waiting, ClientsOK, ClientOK
<1>6. numActiveStreams(pool.client[c]) = 0
  BY <1>5, ClientCapacity
<1>7. OnlyDrains => /\ pool.client[c].state # "DRAINING"
                    /\ numActiveStreams(pool.client[c]) < pool.client[c].limit
  BY <1>1, <1>2, <1>6, PoolAssumption DEF ClientsOK, LimitOK
<1>8. o = [pool EXCEPT !.connectingCapacity = @ - Waiting(pool.client[c])]
  BY <1>5
<1> HIDE DEF o
<1>9. Handled(pool, r)
  BY <1>1, <1>3, <1>4, <1>7, <1>8, ReadyAndServed
<1> HIDE DEF r
<1>10. Good(q) /\ Keeps(r, q) /\ Answers(r, q) /\ Still(r, q)
  BY <1>9, CheckForIdle DEF Handled
<1> HIDE DEF q
<1>11. Handled(pool, q)
  BY <1>1, <1>9, <1>10, HandledThen
<1> QED BY <1>2, <1>11, HandledStep DEF SameFrame

LEMMA OnGoAwayStep ==
    ASSUME PoolInv, NEW c \in Clients, onGoAway(c)
    PROVE  PoolInv' /\ StreamsKept
<1>1. Good(pool) /\ Attended(pool) /\ Core(pool)
  BY PoolAttended DEF Good
<1>2. /\ pool.client[c].state \in {"READY", "BUSY"} /\ UNCHANGED <<closing, lowered>>
      /\ pool' = IF pool.client[c].active = {} THEN closeClient(pool, c)
                 ELSE transitionActiveClientState(pool, c, "DRAINING")
  BY DEF onGoAway
<1>3. c \in Live(pool)
  BY <1>2 DEF Live
<1>4. Good(pool') /\ Keeps(pool, pool') /\ Answers(pool, pool') /\ Still(pool, pool')
  <2>1. CASE pool.client[c].active = {}
    BY <1>1, <1>2, <2>1, CloseClient
  <2>2. CASE pool.client[c].active # {}
    BY <1>1, <1>2, <1>3, <2>2, ToDraining
  <2> QED BY <2>1, <2>2
<1>5. Handled(pool, pool')
  BY <1>1, <1>4, StillHandled
<1> QED BY <1>2, <1>5, HandledStep DEF SameFrame

\* The invariant after a step, and a step that gives no stream a client.
LEMMA InvariantAfter ==
    ASSUME Good(pool'), Held(pool)', UNCHANGED lowered
    PROVE  PoolInv'
BY DEF PoolInv, Good, Core, Apart, Served, Rests, ClientsOK, Listed, Counted, isIdle, OnlyDrains

LEMMA QuietStep ==
    ASSUME PoolInv, pool'.lost = pool.lost, Work(pool'.client) \subseteq Work(pool.client)
    PROVE  StreamsKept
<1>1. pool.pending \in Seq(Streams) /\ Apart(pool)
  BY DEF PoolInv, Good, Core, PoolType
<1>2. Work(pool'.client) \cap ToSet(pool.pending) = {}
  BY <1>1 DEF Apart
<1>3. AttachedInOrder
  BY <1>1, <1>2, NothingAttached DEF AttachedInOrder, ActiveStreams, Work
<1> QED BY <1>3 DEF StreamsKept, LostOnlyWhileDraining

LEMMA NoFrame ==
    ASSUME PoolInv, ~InHandler
    PROVE  closing.phase = "none" /\ pool.purge = <<>> /\ Dying = {}
BY PoolAssumption DEF PoolInv, Held, InHandler, Dying

LEMMA StartClosingStep ==
    ASSUME PoolInv, ~InHandler, NEW c \in Live(pool), startClosing(c)
    PROVE  PoolInv' /\ StreamsKept
<1>1. /\ pool' = pool /\ closing' = [client |-> c, phase |-> "reset", stream |-> NoOne]
      /\ UNCHANGED lowered /\ c \in Clients /\ c # NoOne
  BY PoolAssumption DEF startClosing, Live
<1>2. closing.phase = "none" /\ pool.purge = <<>> /\ Dying = {}
  BY NoFrame
<1>3. Dying' = {c} /\ closing' \in FrameType
  BY <1>1 DEF Dying, FrameType
<1>4. Held(pool)'
  BY <1>1, <1>2, <1>3 DEF PoolInv, Held, Live, InState
<1>5. Good(pool') /\ pool'.lost = pool.lost /\ pool'.client = pool.client
  BY <1>1 DEF PoolInv
<1>6. StreamsKept
  BY <1>5, QuietStep
<1> QED BY <1>1, <1>4, <1>5, <1>6, InvariantAfter

LEMMA PurgePendingStreamStep ==
    ASSUME PoolInv, purgePendingStream
    PROVE  PoolInv' /\ StreamsKept
<1>1. Good(pool) /\ Held(pool) /\ Core(pool) /\ pool \in PoolType
  BY DEF PoolInv, Good, Core
<1>2. /\ closing.phase = "purge" /\ pool.purge # <<>> /\ pool' = [pool EXCEPT !.purge = Tail(@)]
      /\ closing' = [closing EXCEPT !.stream = Head(pool.purge)] /\ UNCHANGED lowered
  BY DEF purgePendingStream
<1>3. pool.purge \in Seq(Streams)
  BY <1>1 DEF PoolType
<1>4. Tail(pool.purge) \in Seq(Streams) /\ Head(pool.purge) \in Streams
  BY <1>2, <1>3, ListBasics
<1>5. /\ SameCore(pool, pool') /\ pool'.lost = pool.lost /\ pool'.deleted = pool.deleted
  BY <1>1, <1>2, <1>4 DEF PoolType, SameCore
<1> DEFINE q == pool'
<1>6. /\ Core(q) /\ Apart(q) /\ Served(q) /\ Live(q) = Live(pool)
      /\ InState(q, "CONNECTING") = InState(pool, "CONNECTING")
  BY <1>1, <1>5, CoreSame DEF Good
<1>7. Good(q)
  BY <1>1, <1>2, <1>5, <1>6 DEF Good, Rests
<1>8. /\ closing' \in FrameType /\ closing'.client = closing.client
      /\ closing'.phase = closing.phase /\ Dying' = Dying
  BY <1>1, <1>2, <1>4 DEF Held, FrameType, Dying
<1>9. q.client = pool.client
  BY <1>5 DEF SameCore
<1>10. Held(pool)'
  BY <1>1, <1>2, <1>6, <1>8, <1>9 DEF Held, Live, InState
<1>11. StreamsKept
  BY <1>5, <1>9, QuietStep
<1> QED BY <1>2, <1>7, <1>10, <1>11, InvariantAfter

LEMMA ResetActiveRequestStep ==
    ASSUME PoolInv, resetActiveRequest
    PROVE  PoolInv' /\ StreamsKept
<1> DEFINE c == closing.client
<1>1. Good(pool) /\ Attended(pool) /\ Held(pool)
  BY PoolAttended
<1>2. PICK s \in pool.client[c].active : /\ pool' = onStreamClosed(pool, c, s)
                                         /\ closing' = [closing EXCEPT !.stream = s]
                                         /\ UNCHANGED lowered
  BY DEF resetActiveRequest
<1>3. closing.phase = "reset" /\ c \in Clients \cup {NoOne} /\ InHandler
  BY <1>1 DEF resetActiveRequest, Held, FrameType, InHandler
<1>4. c \in Clients
  BY <1>3 DEF InHandler
<1>5. s \in Streams
  BY <1>1, <1>2, <1>4 DEF Good, Core, PoolType, ClientType
<1>6. Handled(pool, pool')
  BY <1>1, <1>2, <1>4, OnStreamClosed
<1>7. SameFrame
  BY <1>2, <1>3, <1>5 DEF SameFrame
<1> QED BY <1>6, <1>7, HandledStep

LEMMA DrainAndDeleteStep ==
    ASSUME PoolInv, drainAndDelete
    PROVE  PoolInv' /\ StreamsKept
<1> DEFINE p == [pool EXCEPT !.draining = TRUE]
           q == checkForIdleAndCloseIdleConnsIfDraining(p)
<1>1. Good(pool) /\ Held(pool) /\ Core(pool) /\ pool \in PoolType
  BY DEF PoolInv, Good, Core
<1>2. ~InHandler /\ ~pool.deleted /\ pool' = q /\ UNCHANGED <<closing, lowered>>
  BY DEF drainAndDelete
<1>3. pool.purge = <<>>
  BY <1>2, NoFrame
<1>4. /\ SameCore(pool, p) /\ p.lost = pool.lost /\ p.deleted = pool.deleted
      /\ p.purge = pool.purge
  BY <1>1 DEF PoolType, SameCore
<1> HIDE DEF p
<1>5. /\ Core(p) /\ Apart(p) /\ Served(p) /\ Live(p) = Live(pool) /\ p.client = pool.client
      /\ InState(p, "CONNECTING") = InState(pool, "CONNECTING")
      /\ Work(p.client) = Work(pool.client)
  BY <1>1, <1>4, CoreSame DEF Good, SameCore
<1>6. Good(p) /\ Attended(p)
  BY <1>2, <1>3, <1>4, <1>5 DEF Good, Rests, Attended
<1>7. Held(p)
  BY <1>1, <1>3, <1>4, <1>5 DEF Held
<1>8. Good(q) /\ Keeps(p, q) /\ Still(p, q)
  BY <1>6, CheckForIdle
<1> HIDE DEF q
<1>9. q.lost = pool.lost
  BY <1>3, <1>4, <1>8 DEF Keeps
<1>10. Work(q.client) \cap ToSet(pool.pending) = {}
  BY <1>1, <1>5, <1>8 DEF Good, Apart, Still
<1> QED BY <1>2, <1>7, <1>8, <1>9, <1>10, OperationStep DEF SameFrame

LEMMA DrainExistingConnectionsStep ==
    ASSUME PoolInv, drainExistingConnections
    PROVE  PoolInv' /\ StreamsKept
<1> DEFINE p == closeIdleConnectionsForDrainingPool(pool)
           r == IF p = pool THEN p ELSE checkForIdleAndCloseIdleConnsIfDraining(p)
           q == drainClients(r, Live(r) \ InState(r, "CONNECTING"))
<1>1. Good(pool) /\ Held(pool) /\ Core(pool)
  BY DEF PoolInv, Good
<1>2. ~InHandler /\ pool' = q /\ UNCHANGED <<closing, lowered>>
  BY Zenon DEF drainExistingConnections
<1>3. pool.purge = <<>>
  BY <1>2, NoFrame
<1>4. Good(p) /\ Keeps(pool, p) /\ Still(pool, p)
  BY <1>1, CloseIdleConnections
<1> HIDE DEF p
<1>5. Attended(p)
  BY <1>3, <1>4 DEF Keeps, Attended
<1>6. Good(r) /\ Keeps(p, r) /\ Still(p, r)
  BY <1>4, <1>5, CheckForIdle, KeepsSame
<1> HIDE DEF r
<1>7. Good(q) /\ Keeps(r, q) /\ Still(r, q)
  BY <1>6, DrainClients
<1> HIDE DEF q
<1>8. Keeps(pool, q) /\ Still(pool, q)
  BY <1>4, <1>6, <1>7, KeepsTransitive
<1>9. q.lost = pool.lost
  BY <1>3, <1>8 DEF Keeps
<1>10. Work(q.client) \cap ToSet(pool.pending) = {}
  BY <1>1, <1>8 DEF Good, Apart, Still
<1> QED BY <1>1, <1>2, <1>7, <1>8, <1>9, <1>10, OperationStep DEF SameFrame

LEMMA NewStreamStep ==
    ASSUME PoolInv, NEW s \in Streams, newStream(s)
    PROVE  PoolInv' /\ StreamsKept
<1> DEFINE p == [pool EXCEPT !.deleted = FALSE]
           a == attachStreamToClient(p, Head(p.ready), s)
           b == newPendingStream(p, s)
<1>1. Good(pool) /\ Held(pool) /\ Core(pool) /\ pool \in PoolType
  BY DEF PoolInv, Good, Core
<1>2. /\ Unused(s) /\ UNCHANGED <<closing, lowered>>
      /\ pool' = IF p.ready # <<>> THEN tryCreateNewConnections(a)
                 ELSE IF p.full = "pending" \/ PendingRequests(p) >= MaxPendingRequests
                      THEN p
                 ELSE tryCreateNewConnections(b)
  BY Zenon DEF newStream
<1>3. s \notin Work(pool.client) /\ s \notin ToSet(pool.pending)
  BY <1>2 DEF Unused, ActiveStreams, Work
<1>4. /\ SameCore(pool, p) /\ p.lost = pool.lost /\ p.deleted = FALSE
      /\ p.purge = pool.purge /\ p.draining = pool.draining
  BY <1>1 DEF PoolType, SameCore
<1>5. /\ p \in PoolType /\ p.ready \in Seq(Clients) /\ p.pending \in Seq(Streams)
      /\ p.clusterPending \in Int
  BY <1>4 DEF SameCore, PoolType
<1>6. b = [p EXCEPT !.pending = <<s>> \o p.pending, !.clusterPending = p.clusterPending + 1]
  BY DEF newPendingStream
<1> HIDE DEF p
<1>7. /\ Core(p) /\ Apart(p) /\ Served(p) /\ Live(p) = Live(pool) /\ p.client = pool.client
      /\ InState(p, "CONNECTING") = InState(pool, "CONNECTING")
      /\ Work(p.client) = Work(pool.client) /\ p.pending = pool.pending
  BY <1>1, <1>4, CoreSame DEF Good, SameCore
<1>8. Good(p) /\ Held(p)
  BY <1>1, <1>4, <1>7 DEF Good, Rests, Held
<1>9. CASE p.ready # <<>>
  <2> DEFINE q == tryCreateNewConnections(a)
  <2>1. p.pending = <<>>
    BY <1>7, <1>9 DEF Served
  <2>2. Head(p.ready) \in InState(p, "READY")
    BY <1>5, <1>7, <1>9, ListBasics DEF Core, Listed
  <2>3. /\ Core(a) /\ Keeps(p, a) /\ a.pending = p.pending /\ a.lost = p.lost
        /\ a.deleted = p.deleted
    BY <1>3, <1>7, <2>2, Attach
  <2> HIDE DEF a
  <2>4. /\ Core(q) /\ Keeps(a, q) /\ Still(a, q) /\ q.lost = a.lost /\ q.deleted = a.deleted
    BY <2>3, TryCreates
  <2>5. pool' = q
    BY <1>2, <1>9
  <2> HIDE DEF q
  <2>6. q.pending = <<>> /\ ToSet(pool.pending) = {} /\ ToSet(q.pending) = {}
    BY <1>7, <2>1, <2>3, <2>4 DEF Still, ToSet
  <2>7. Good(q)
    BY <1>4, <2>3, <2>4, <2>6 DEF Good, Apart, Served, Rests
  <2>8. Keeps(p, q)
    BY <2>3, <2>4, KeepsTransitive
  <2> QED BY <1>2, <1>4, <1>8, <2>3, <2>4, <2>5, <2>6, <2>7, <2>8, OperationStep DEF SameFrame
<1>10. CASE p.ready = <<>> /\ (p.full = "pending" \/ PendingRequests(p) >= MaxPendingRequests)
  <2>1. pool' = p
    BY <1>2, <1>10
  <2>2. Keeps(p, p)
    BY KeepsSame
  <2>3. Work(p.client) \cap ToSet(pool.pending) = {}
    BY <1>7 DEF Apart
  <2> QED BY <1>2, <1>4, <1>8, <2>1, <2>2, <2>3, OperationStep DEF SameFrame
<1>11. CASE p.ready = <<>> /\ ~(p.full = "pending" \/ PendingRequests(p) >= MaxPendingRequests)
  <2> DEFINE q == tryCreateNewConnections(b)
             l == <<s>> \o p.pending
             n == p.clusterPending + 1
  <2>1. /\ l \in Seq(Streams) /\ Len(l) = Len(p.pending) + 1
        /\ ToSet(l) = ToSet(p.pending) \cup {s} /\ IsInjective(l)
    BY <1>3, <1>5, <1>7, FirstAdded DEF Core, Listed
  <2>2. n \in Int /\ n = Len(l)
    BY <1>5, <1>7, <2>1 DEF Core, Counted
  <2>3. pool' = q
    BY <1>2, <1>11
  <2> HIDE DEF l, n
  <2>4. b = [p EXCEPT !.pending = l, !.clusterPending = n]
    BY <1>6 DEF l, n
  <2> HIDE DEF b
  <2>5. /\ b \in PoolType /\ b.client = p.client /\ b.ready = p.ready
        /\ b.connecting = p.connecting /\ b.pending = l /\ b.purge = p.purge
        /\ b.connectingCapacity = p.connectingCapacity /\ b.numActive = p.numActive
        /\ b.clusterCapacity = p.clusterCapacity /\ b.clusterPending = n
        /\ b.lost = p.lost /\ b.draining = p.draining /\ b.deleted = p.deleted
    BY <1>5, <2>1, <2>2, <2>4 DEF PoolType
  <2>6. Live(b) = Live(p) /\ \A st : InState(b, st) = InState(p, st)
    BY <2>5 DEF Live, InState
  <2>7. Core(b)
    BY <1>7, <2>1, <2>2, <2>5, <2>6 DEF Core, Listed, Counted
  <2>8. Keeps(p, b)
    BY <2>5, <2>6 DEF Keeps
  <2>9. Apart(b)
    BY <1>3, <1>7, <2>1, <2>5 DEF Apart
  <2>10. /\ Core(q) /\ Keeps(b, q) /\ Still(b, q) /\ q.lost = b.lost /\ q.deleted = b.deleted
         /\ q.ready = b.ready
    BY <2>7, TryCreates
  <2> HIDE DEF q
  <2>11. Good(q)
    BY <1>4, <1>11, <2>5, <2>9, <2>10 DEF Good, Apart, Served, Rests, Still
  <2>12. Keeps(p, q)
    BY <2>8, <2>10, KeepsTransitive
  <2>13. Work(q.client) \cap ToSet(pool.pending) = {}
    BY <1>7, <2>5, <2>10 DEF Apart, Still
  <2> QED
    BY <1>2, <1>4, <1>8, <2>3, <2>5, <2>10, <2>11, <2>12, <2>13, OperationStep DEF SameFrame
<1> QED BY <1>9, <1>10, <1>11

LEMMA RemovePending ==
    ASSUME PoolInv, NEW s,
           s \in ToSet(IF pool.purge # <<>> THEN pool.purge ELSE pool.pending)
    PROVE  LET p == removePending(pool, s)
           IN  /\ Good(p) /\ Held(p) /\ Attended(p) /\ p.client = pool.client
               /\ p.lost = pool.lost /\ p.draining = pool.draining
<1> DEFINE p == removePending(pool, s)
<1>1. Good(pool) /\ Held(pool) /\ Attended(pool) /\ Core(pool) /\ pool \in PoolType
  BY PoolAttended DEF Good, Core
<1>2. pool.purge \in Seq(Streams) /\ pool.pending \in Seq(Streams) /\ pool.clusterPending \in Int
  BY <1>1 DEF PoolType
<1>3. CASE pool.purge # <<>>
  <2> DEFINE l == Without(pool.purge, {s})
  <2>1. l \in Seq(Streams)
    BY <1>2, WithoutProperties
  <2>2. p = [pool EXCEPT !.purge = l]
    BY <1>3 DEF removePending
  <2> HIDE DEF p, l
  <2>3. /\ SameCore(pool, p) /\ p.lost = pool.lost /\ p.draining = pool.draining
        /\ p.deleted = pool.deleted
    BY <1>1, <2>1, <2>2 DEF PoolType, SameCore
  <2>4. /\ Core(p) /\ Apart(p) /\ Served(p) /\ Live(p) = Live(pool) /\ p.client = pool.client
        /\ InState(p, "CONNECTING") = InState(pool, "CONNECTING")
    BY <1>1, <2>3, CoreSame DEF Good, SameCore
  <2>5. Good(p) /\ Attended(p)
    BY <1>1, <1>3, <2>3, <2>4 DEF Good, Rests, Attended
  <2>6. Held(p)
    BY <1>1, <1>3, <2>4 DEF Held
  <2> QED BY <2>3, <2>4, <2>5, <2>6 DEF p
<1>4. CASE pool.purge = <<>>
  <2> DEFINE l == Without(pool.pending, {s})
             n == pool.clusterPending - 1
  <2>1. /\ l \in Seq(Streams) /\ ToSet(l) = ToSet(pool.pending) \ {s} /\ IsInjective(l)
        /\ Len(l) = Len(pool.pending) - 1
    BY <1>1, <1>2, <1>4, WithoutProperties DEF Core, Listed
  <2>2. n \in Int /\ n = Len(l)
    BY <1>1, <1>2, <2>1 DEF Core, Counted
  <2>3. p = [pool EXCEPT !.pending = l, !.clusterPending = n]
    BY <1>4 DEF removePending
  <2> HIDE DEF p, l, n
  <2>4. /\ p \in PoolType /\ p.client = pool.client /\ p.ready = pool.ready
        /\ p.connecting = pool.connecting /\ p.pending = l /\ p.purge = pool.purge
        /\ p.connectingCapacity = pool.connectingCapacity /\ p.numActive = pool.numActive
        /\ p.clusterCapacity = pool.clusterCapacity /\ p.clusterPending = n
        /\ p.lost = pool.lost /\ p.draining = pool.draining /\ p.deleted = pool.deleted
    BY <1>1, <2>1, <2>2, <2>3 DEF PoolType
  <2>5. Live(p) = Live(pool) /\ \A st : InState(p, st) = InState(pool, st)
    BY <2>4 DEF Live, InState
  <2>6. Core(p)
    BY <1>1, <2>1, <2>2, <2>4, <2>5 DEF Core, Listed, Counted
  <2>7. pool.pending # <<>>
    BY <1>2, <1>4, ListBasics
  <2>8. Apart(p) /\ Served(p) /\ Rests(p)
    BY <1>1, <2>1, <2>4, <2>7 DEF Good, Apart, Served, Rests, isIdle
  <2>9. Held(p) /\ Attended(p)
    BY <1>1, <1>4, <2>4, <2>5 DEF Held, Attended
  <2> QED BY <2>4, <2>6, <2>8, <2>9 DEF Good, p
<1> QED BY <1>3, <1>4

LEMMA OnPendingStreamCancelStep ==
    ASSUME PoolInv, NEW s, NEW x, onPendingStreamCancel(s, x)
    PROVE  PoolInv' /\ StreamsKept
<1> DEFINE p == removePending(pool, s)
           f == Head(p.connecting)
           t == transitionActiveClientState(p, f, "DRAINING")
           excess == x /\ p.connecting # <<>> /\ connectingConnectionIsExcess(p)
           u == IF excess THEN closeClient(t, f) ELSE p
           q == checkForIdleAndCloseIdleConnsIfDraining(u)
<1>1. /\ s \in ToSet(IF pool.purge # <<>> THEN pool.purge ELSE pool.pending)
      /\ pool' = q /\ UNCHANGED <<closing, lowered>>
  BY Zenon DEF onPendingStreamCancel
<1>2. /\ Good(p) /\ Held(p) /\ Attended(p) /\ p.client = pool.client
      /\ p.lost = pool.lost /\ p.draining = pool.draining
  BY <1>1, RemovePending
<1> HIDE DEF p
<1>3. Good(u) /\ Attended(u) /\ Keeps(p, u) /\ Answers(p, u) /\ Still(p, u)
  <2>1. CASE ~excess
    BY <1>2, <2>1, KeepsSame
  <2>2. CASE excess
    <3>1. p.connecting \in Seq(Clients) /\ p.connecting # <<>> /\ Core(p) /\ ClientsOK(p.client)
      BY <1>2, <2>2 DEF Good, Core, PoolType
    <3>2. f \in InState(p, "CONNECTING")
      BY <3>1, ListBasics DEF Core, Listed
    <3>3. f \in Live(p) /\ f \in Clients /\ p.client[f].active = {}
      BY <3>1, <3>2 DEF InState, Live, ClientsOK, ClientOK
    <3> HIDE DEF f
    <3>4. /\ Good(t) /\ Keeps(p, t) /\ Answers(p, t) /\ Still(p, t)
          /\ t.client[f].state = "DRAINING" /\ t.client[f].active = p.client[f].active
      BY <1>2, <3>3, ToDraining
    <3> HIDE DEF t
    <3>5. Attended(t)
      BY <1>2, <3>4, AttendedKept
    <3> DEFINE v == closeClient(t, f)
    <3>6. Good(v) /\ Keeps(t, v) /\ Answers(t, v) /\ Still(t, v)
      BY <3>3, <3>4, <3>5, CloseClient
    <3>7. u = v
      BY <2>2
    <3> HIDE DEF u, v
    <3>8. Keeps(p, v) /\ Answers(p, v) /\ Still(p, v)
      BY <3>4, <3>6, KeepsTransitive
    <3> QED BY <1>2, <3>6, <3>7, <3>8, AttendedKept
  <2> QED BY <2>1, <2>2
<1> HIDE DEF u
<1>4. Good(q) /\ Keeps(u, q) /\ Answers(u, q) /\ Still(u, q)
  BY <1>3, CheckForIdle
<1> HIDE DEF q
<1>5. Keeps(p, q) /\ Answers(p, q) /\ Still(p, q)
  BY <1>3, <1>4, KeepsTransitive
<1>6. q.lost # pool.lost => pool.draining
  BY <1>2, <1>5 DEF Answers
<1>7. Work(q.client) \cap ToSet(pool.pending) = {}
  BY <1>2, <1>5 DEF PoolInv, Good, Apart, Still
<1> QED BY <1>1, <1>2, <1>4, <1>5, <1>6, <1>7, OperationStep DEF SameFrame

\* SETTINGS with a lower limit: the client, and the client drained by a limit of 0.
LEMMA LimitLowered ==
    ASSUME NEW o \in ClientType, o.state \in {"READY", "BUSY", "DRAINING"}, ClientOK(o),
           NEW n \in Nat, n < o.limit
    PROVE  LET k == [o EXCEPT !.limit = n]
               delta == currentUnusedCapacity(o) - currentUnusedCapacity(k)
               j == [k EXCEPT !.negative = @ + delta]
           IN  /\ j \in ClientType /\ ClientOK(j) /\ delta \in Nat
               /\ j.state = o.state /\ j.active = o.active
               /\ currentUnusedCapacity(j) = currentUnusedCapacity(o) - delta
               /\ n = 0 => /\ drained(j) = 0
                           /\ LimitOK(o) => LimitOK(setState(j, "DRAINING"))
                           /\ currentUnusedCapacity(setState(j, "DRAINING"))
                                = currentUnusedCapacity(j)
<1> DEFINE k == [o EXCEPT !.limit = n]
           delta == currentUnusedCapacity(o) - currentUnusedCapacity(k)
           j == [k EXCEPT !.negative = @ + delta]
           i == setState(j, "DRAINING")
<1>0. /\ o.remaining \in Nat /\ o.limit \in Nat /\ o.negative \in Nat
      /\ numActiveStreams(o) \in Nat
  BY ClientCapacity DEF ClientType
<1>1. /\ k \in ClientType /\ k.state = o.state /\ k.remaining = o.remaining /\ k.limit = n
      /\ k.negative = o.negative /\ k.active = o.active
  BY DEF ClientType
<1>2. numActiveStreams(k) = numActiveStreams(o)
  BY <1>1 DEF numActiveStreams
<1>3. delta \in Nat
  BY <1>0, <1>1, <1>2 DEF currentUnusedCapacity, Smaller
<1>4. currentUnusedCapacity(k) \in Int /\ currentUnusedCapacity(o) \in Int
  BY <1>1, ClientCapacity
<1>5. currentUnusedCapacity(k) = currentUnusedCapacity(o) - delta
  BY <1>4
<1>6. n = 0 => currentUnusedCapacity(k) = 0 - numActiveStreams(o)
  BY <1>0, <1>1, <1>2 DEF currentUnusedCapacity, Smaller
<1>7. numActiveStreams(o) <= o.limit => currentUnusedCapacity(o) >= 0
  BY <1>0 DEF currentUnusedCapacity, Smaller
<1>8. n = 0 /\ numActiveStreams(o) <= o.limit => delta >= numActiveStreams(o)
  BY <1>0, <1>4, <1>6, <1>7
<1> HIDE DEF delta, k
<1>9. /\ j \in ClientType /\ j.state = o.state /\ j.remaining = o.remaining /\ j.limit = n
      /\ j.negative = o.negative + delta /\ j.active = o.active
  BY <1>0, <1>1, <1>3 DEF ClientType
<1> HIDE DEF j
<1>10. numActiveStreams(j) = numActiveStreams(o)
  BY <1>9 DEF numActiveStreams
<1>11. currentUnusedCapacity(j) = currentUnusedCapacity(k)
  BY <1>1, <1>2, <1>9, <1>10 DEF currentUnusedCapacity
<1>12. ClientOK(j)
  BY <1>9 DEF ClientOK
<1>13. ASSUME n = 0
       PROVE  /\ drained(j) = 0 /\ (LimitOK(o) => LimitOK(i))
              /\ currentUnusedCapacity(i) = currentUnusedCapacity(j)
  <2>1. drained(j) = 0
    BY <1>0, <1>6, <1>11, <1>13 DEF drained
  <2>2. /\ i \in ClientType /\ i.state = "DRAINING" /\ i.active = j.active
        /\ i.limit = j.limit /\ i.negative = j.negative /\ i.remaining = j.remaining
    BY <1>9, <2>1, StateSet
  <2> HIDE DEF i
  <2>3. numActiveStreams(i) = numActiveStreams(j)
    BY <2>2 DEF numActiveStreams
  <2>4. currentUnusedCapacity(i) = currentUnusedCapacity(j)
    BY <2>2, <2>3 DEF currentUnusedCapacity
  <2>5. LimitOK(o) => numActiveStreams(o) <= o.limit /\ o.negative = 0
    BY <1>13 DEF LimitOK
  <2>6. LimitOK(o) => LimitOK(i)
    BY <1>0, <1>3, <1>8, <1>9, <1>10, <1>13, <2>2, <2>3, <2>5 DEF LimitOK
  <2> QED BY <2>1, <2>4, <2>6 DEF i
<1> QED BY <1>3, <1>5, <1>9, <1>11, <1>12, <1>13 DEF i, j, k, delta

LEMMA LimitBecomesZero ==
    ASSUME PoolInv, NEW c \in Clients, NEW n \in SettingsLimits, onSettings(c, n), n = 0
    PROVE  PoolInv' /\ StreamsKept
<1> DEFINE o == pool.client[c]
           k == [o EXCEPT !.limit = n]
           delta == currentUnusedCapacity(o) - currentUnusedCapacity(k)
           j == [k EXCEPT !.negative = @ + delta]
           p == [pool EXCEPT !.clusterCapacity = @ - delta, !.client[c] = j]
           q == pool'
           z == IF n = 0 THEN setState(j, "DRAINING") ELSE j
<1>1. Good(pool) /\ Attended(pool) /\ Core(pool) /\ pool \in PoolType /\ ClientsOK(pool.client)
      /\ pool.client \in [Clients -> ClientType] /\ pool.clusterCapacity \in Int
      /\ pool.connectingCapacity \in Int
  BY PoolAttended DEF Good, Core, PoolType
<1>2. /\ ~InHandler /\ o.state \in {"READY", "BUSY", "DRAINING"} /\ n < o.limit
      /\ UNCHANGED <<closing, lowered>>
      /\ q = IF n = 0 THEN transitionActiveClientState(p, c, "DRAINING") ELSE p
  BY Zenon DEF onSettings
<1>3. /\ o \in ClientType /\ ClientOK(o) /\ (OnlyDrains => LimitOK(o))
      /\ n \in Nat /\ c \in Live(pool) /\ Dying = {}
  BY <1>1, <1>2, NoFrame, PoolAssumption DEF ClientsOK, OnlyDrains, Live
<1>4. /\ j \in ClientType /\ ClientOK(j) /\ delta \in Nat
      /\ j.state = o.state /\ j.active = o.active
      /\ currentUnusedCapacity(j) = currentUnusedCapacity(o) - delta
      /\ n = 0 => /\ drained(j) = 0
                  /\ LimitOK(o) => LimitOK(setState(j, "DRAINING"))
                  /\ currentUnusedCapacity(setState(j, "DRAINING")) = currentUnusedCapacity(j)
  BY <1>2, <1>3, LimitLowered
<1>5. currentUnusedCapacity(o) \in Int
  BY <1>3, ClientCapacity
<1> HIDE DEF j, delta
<1>6. p = [pool EXCEPT !.clusterCapacity = pool.clusterCapacity - delta,
                       !.client = [pool.client EXCEPT ![c] = j]]
  OBVIOUS
<1>7. /\ p \in PoolType /\ p.client = [pool.client EXCEPT ![c] = j]
      /\ p.clusterCapacity = pool.clusterCapacity - delta
      /\ p.ready = pool.ready /\ p.connecting = pool.connecting /\ p.pending = pool.pending
      /\ p.purge = pool.purge /\ p.connectingCapacity = pool.connectingCapacity
      /\ p.numActive = pool.numActive /\ p.draining = pool.draining
      /\ p.deleted = pool.deleted /\ p.clusterPending = pool.clusterPending
      /\ p.lost = pool.lost /\ p.client[c] = j
  <2> DEFINE m == [pool.client EXCEPT ![c] = j]
             y == pool.clusterCapacity - delta
  <2>1. m \in [Clients -> ClientType] /\ y \in Int /\ m[c] = j
    BY <1>1, <1>4
  <2>2. p = [pool EXCEPT !.clusterCapacity = y, !.client = m]
    BY <1>6
  <2> HIDE DEF p, m, y
  <2>3. /\ p \in PoolType /\ p.client = m /\ p.clusterCapacity = y
        /\ p.ready = pool.ready /\ p.connecting = pool.connecting /\ p.pending = pool.pending
        /\ p.purge = pool.purge /\ p.connectingCapacity = pool.connectingCapacity
        /\ p.numActive = pool.numActive /\ p.draining = pool.draining
        /\ p.deleted = pool.deleted /\ p.clusterPending = pool.clusterPending
        /\ p.lost = pool.lost
    BY <1>1, <2>1, <2>2 DEF PoolType
  <2> QED BY <2>1, <2>3 DEF m, y
<1> HIDE DEF p
<1>8. /\ z \in ClientType /\ ClientOK(z) /\ z.active = o.active /\ Waiting(z) = 0
      /\ z.state = IF n = 0 THEN "DRAINING" ELSE o.state
      /\ currentUnusedCapacity(z) = currentUnusedCapacity(o) - delta
      /\ OnlyDrains => LimitOK(z)
  <2>1. CASE n = 0
    BY <1>2, <1>3, <1>4, <2>1, DrainingSet
  <2>2. CASE n # 0
    BY <1>2, <1>3, <1>4, <2>2 DEF Waiting
  <2> QED BY <2>1, <2>2
<1>9. /\ q \in PoolType /\ q.client = [pool.client EXCEPT ![c] = z]
      /\ q.clusterCapacity = pool.clusterCapacity - delta
      /\ ToSet(q.ready) = IF n = 0 THEN ToSet(pool.ready) \ {c} ELSE ToSet(pool.ready)
      /\ ToSet(q.connecting) = IF n = 0 THEN ToSet(pool.connecting) \ {c}
                               ELSE ToSet(pool.connecting)
      /\ q.pending = pool.pending
      /\ q.purge = pool.purge /\ q.connectingCapacity = pool.connectingCapacity
      /\ q.numActive = pool.numActive /\ q.draining = pool.draining
      /\ q.deleted = pool.deleted /\ q.clusterPending = pool.clusterPending
      /\ q.lost = pool.lost
  <2>1. CASE n = 0
    <3>1. q = transitionActiveClientState(p, c, "DRAINING") /\ z = setState(j, "DRAINING")
      BY <1>2, <2>1
    <3>2. p.client[c].state # "NONE"
      BY <1>2, <1>4, <1>7
    <3>3. Moved(p, q, c, "DRAINING")
      BY <1>7, <3>1, <3>2, TransitionFields
    <3>4. p.clusterCapacity - 0 = p.clusterCapacity /\ p.connectingCapacity - 0 = p.connectingCapacity
      BY <1>1, <1>4, <1>7
    <3>5. [p.client EXCEPT ![c] = z] = [pool.client EXCEPT ![c] = z]
      BY <1>7
    <3> HIDE DEF z
    <3> QED BY <1>4, <1>7, <2>1, <3>1, <3>3, <3>4, <3>5 DEF Moved
  <2>2. CASE n # 0
    BY <1>2, <1>7, <2>2
  <2> QED BY <2>1, <2>2
<1> HIDE DEF z, q
<1>10. OneChange(pool, q, c, z)
  <2>1. \A d \in Clients \ {c} : pool.client[d].active \cap z.active = {}
    BY <1>1, <1>8 DEF ClientsOK
  <2>2. Waiting(o) = 0
    BY <1>2 DEF Waiting
  <2>3. q.connectingCapacity = pool.connectingCapacity + (Waiting(z) - Waiting(o))
    BY <1>1, <1>8, <1>9, <2>2
  <2>4. (Work(pool.client) \ o.active) \cup z.active = Work(pool.client)
    BY <1>8 DEF Work
  <2>5. q.numActive = Cardinality((Work(pool.client) \ o.active) \cup z.active)
    BY <1>1, <1>9, <2>4 DEF Core, Counted
  <2>6. q.clusterCapacity
          = pool.clusterCapacity + (currentUnusedCapacity(z) - currentUnusedCapacity(o))
    BY <1>1, <1>4, <1>5, <1>8, <1>9
  <2>7. /\ ToSet(q.ready) = IF z.state = "READY" THEN ToSet(pool.ready) \cup {c}
                            ELSE ToSet(pool.ready) \ {c}
        /\ ToSet(q.connecting) = IF z.state = "CONNECTING" THEN ToSet(pool.connecting) \cup {c}
                                 ELSE ToSet(pool.connecting) \ {c}
    <3>1. c \in ToSet(pool.ready) <=> o.state = "READY"
      BY <1>1 DEF Core, Listed, InState
    <3>2. c \notin ToSet(pool.connecting)
      BY <1>1, <1>2 DEF Core, Listed, InState
    <3>3. z.state # "CONNECTING" /\ (z.state = "READY" <=> n # 0 /\ o.state = "READY")
      BY <1>2, <1>8
    <3>4. ToSet(q.connecting) = ToSet(pool.connecting) \ {c}
      BY <1>9, <3>2
    <3>5. CASE n = 0
      BY <1>9, <3>3, <3>4, <3>5
    <3>6. CASE n # 0
      BY <1>9, <3>1, <3>3, <3>4, <3>6
    <3> QED BY <3>5, <3>6
  <2>8. IsInjective(q.pending) /\ q.clusterPending = Len(q.pending)
    BY <1>1, <1>9 DEF Core, Listed, Counted
  <2> QED BY <1>8, <1>9, <2>1, <2>3, <2>5, <2>6, <2>7, <2>8 DEF OneChange
<1>11. /\ Core(q) /\ q.client[c] = z /\ \A d \in Clients \ {c} : q.client[d] = pool.client[d]
       /\ Work(q.client) = (Work(pool.client) \ o.active) \cup z.active
  BY <1>1, <1>10, CoreOneChanges
<1>12. Work(q.client) \subseteq Work(pool.client)
  BY <1>8, <1>11 DEF Work
<1>13. Keeps(pool, q)
  <2>1. \A d \in InState(q, "CONNECTING") : q.client[d] = pool.client[d]
    BY <1>2, <1>8, <1>11 DEF InState
  <2> QED BY <1>3, <1>9, <2>1 DEF Keeps
<1>14. pool.ready = <<>> => q.ready = <<>>
  <2>1. pool.ready \in Seq(Clients) /\ q.ready \in Seq(Clients)
    BY <1>1, <1>9 DEF PoolType
  <2>2. ToSet(q.ready) \subseteq ToSet(pool.ready)
    BY <1>9
  <2> QED BY <2>1, <2>2, SmallerList
<1>15. Good(q)
  BY <1>1, <1>3, <1>9, <1>11, <1>12, <1>14 DEF Good, Apart, Served, Rests, isIdle
<1>16. Handled(pool, q)
  BY <1>1, <1>9, <1>12, <1>13, <1>15, StillHandled DEF Answers, Still
<1> QED BY <1>2, <1>16, HandledStep DEF SameFrame, q

\* A lower limit that is not 0 changes one client and the cluster's capacity.
LEMMA LimitIsLowered ==
    ASSUME PoolInv, lowered \in Nat,
           NEW c \in Clients, NEW n \in SettingsLimits, onSettings(c, n), n # 0
    PROVE  PoolInv' /\ StreamsKept
<1> DEFINE o == pool.client[c]
           k == [o EXCEPT !.limit = n]
           delta == currentUnusedCapacity(o) - currentUnusedCapacity(k)
           j == [k EXCEPT !.negative = @ + delta]
           m == [pool.client EXCEPT ![c] = j]
           y == pool.clusterCapacity - delta
<1>1. /\ Good(pool) /\ Core(pool) /\ Held(pool) /\ pool \in PoolType
      /\ ClientsOK(pool.client) /\ Listed(pool) /\ Counted(pool)
      /\ pool.client \in [Clients -> ClientType] /\ pool.clusterCapacity \in Int
  BY DEF PoolInv, Good, Core, PoolType
<1>2. /\ ~InHandler /\ o.state \in {"READY", "BUSY", "DRAINING"} /\ n < o.limit
      /\ closing' = closing /\ lowered' = lowered + 1
      /\ pool' = [pool EXCEPT !.clusterCapacity = @ - delta, !.client[c] = j]
  BY Zenon DEF onSettings
<1>3. o \in ClientType /\ ClientOK(o) /\ n \in Nat /\ Dying = {}
  BY <1>1, <1>2, NoFrame, PoolAssumption DEF ClientsOK
<1>4. /\ j \in ClientType /\ ClientOK(j) /\ delta \in Nat
      /\ j.state = o.state /\ j.active = o.active
  BY <1>2, <1>3, LimitLowered
<1>5. j.remaining = o.remaining
  BY <1>3 DEF ClientType
<1> HIDE DEF j, delta
<1>6. /\ m \in [Clients -> ClientType] /\ y \in Int
      /\ \A d \in Clients : /\ ClientOK(m[d]) /\ m[d].state = pool.client[d].state
                           /\ m[d].active = pool.client[d].active
                           /\ m[d].remaining = pool.client[d].remaining
                           /\ Waiting(m[d]) = Waiting(pool.client[d])
  <2>1. m \in [Clients -> ClientType] /\ y \in Int
    BY <1>1, <1>4
  <2>2. \A d \in Clients : d # c => m[d] = pool.client[d]
    OBVIOUS
  <2>3. m[c] = j
    BY <1>1
  <2>4. Waiting(j) = Waiting(o)
    BY <1>2, <1>4 DEF Waiting
  <2> QED BY <1>1, <1>4, <1>5, <2>1, <2>2, <2>3, <2>4 DEF ClientsOK
<1>7. pool' = [pool EXCEPT !.clusterCapacity = y, !.client = m]
  BY <1>2
<1> HIDE DEF m, y
<1>8. /\ pool' \in PoolType /\ pool'.client = m
      /\ pool'.ready = pool.ready /\ pool'.connecting = pool.connecting
      /\ pool'.pending = pool.pending /\ pool'.purge = pool.purge
      /\ pool'.connectingCapacity = pool.connectingCapacity
      /\ pool'.numActive = pool.numActive /\ pool'.draining = pool.draining
      /\ pool'.deleted = pool.deleted /\ pool'.clusterPending = pool.clusterPending
      /\ pool'.lost = pool.lost
  BY <1>1, <1>6, <1>7 DEF PoolType
<1>9. /\ Live(pool') = Live(pool) /\ Work(m) = Work(pool.client)
      /\ \A st : InState(pool', st) = InState(pool, st)
      /\ TotalConnecting(m) = TotalConnecting(pool.client)
  <2>1. [d \in Clients |-> Waiting(m[d])] = [d \in Clients |-> Waiting(pool.client[d])]
    BY <1>6
  <2>2. Live(pool') = Live(pool) /\ \A st : InState(pool', st) = InState(pool, st)
    BY <1>6, <1>8 DEF Live, InState
  <2>3. Work(m) = Work(pool.client)
    BY <1>6 DEF Work
  <2> QED BY <2>1, <2>2, <2>3 DEF TotalConnecting
<1>10. lowered' # 0
  BY <1>2
<1>11. Core(pool)'
  <2>1. ClientsOK(pool.client)'
    BY <1>1, <1>6, <1>8, <1>10 DEF ClientsOK, OnlyDrains
  <2>2. Listed(pool)'
    BY <1>1, <1>8, <1>9 DEF Listed
  <2>3. Counted(pool)'
    BY <1>1, <1>8, <1>9, <1>10 DEF Counted, OnlyDrains
  <2> QED BY <1>8, <2>1, <2>2, <2>3 DEF Core
<1>12. Good(pool)'
  BY <1>1, <1>8, <1>9, <1>11 DEF Good, Apart, Served, Rests, isIdle
<1>13. Held(pool)'
  BY <1>1, <1>2, <1>3, <1>6, <1>8, <1>9 DEF Held, Dying, InState
<1>14. StreamsKept
  BY <1>8, <1>9, QuietStep
<1> QED BY <1>12, <1>13, <1>14 DEF PoolInv

LEMMA OnSettingsStep ==
    ASSUME PoolInv, lowered \in Nat, NEW c \in Clients, NEW n \in SettingsLimits,
           onSettings(c, n)
    PROVE  PoolInv' /\ StreamsKept
BY LimitBecomesZero, LimitIsLowered

\* The client c, which has no stream and no connection under way, leaves t.
Leaves(t, r, c) ==
    r = [t EXCEPT !.clusterCapacity = t.clusterCapacity - currentUnusedCapacity(t.client[c]),
                  !.client = [t.client EXCEPT ![c] = NoClient],
                  !.ready = Without(t.ready, {c}), !.connecting = Without(t.connecting, {c})]

LEMMA ClientLeaves ==
    ASSUME NEW t, Good(t), NEW c \in Live(t), t.client[c].active = {},
           Waiting(t.client[c]) = 0, NEW r, Leaves(t, r, c)
    PROVE  /\ Good(r) /\ Still(t, r) /\ r.lost = t.lost /\ r.purge = t.purge
           /\ r.client[c] = NoClient /\ \A d \in Clients \ {c} : r.client[d] = t.client[d]
<1> DEFINE k == t.client[c]
           m == [t.client EXCEPT ![c] = NoClient]
           y == t.clusterCapacity - currentUnusedCapacity(k)
           rd == Without(t.ready, {c})
           cn == Without(t.connecting, {c})
<1>1. /\ Core(t) /\ t \in PoolType /\ ClientsOK(t.client) /\ c \in Clients
      /\ t.client \in [Clients -> ClientType] /\ k \in ClientType /\ t.clusterCapacity \in Int
      /\ t.connectingCapacity \in Int
      /\ t.ready \in Seq(Clients) /\ t.connecting \in Seq(Clients)
  BY DEF Good, Core, PoolType, Live
<1>2. currentUnusedCapacity(k) \in Int
  BY <1>1, ClientCapacity
<1>3. m \in [Clients -> ClientType] /\ y \in Int
  BY <1>1, <1>2, EmptyClient
<1>4. /\ rd \in Seq(Clients) /\ ToSet(rd) = ToSet(t.ready) \ {c}
      /\ cn \in Seq(Clients) /\ ToSet(cn) = ToSet(t.connecting) \ {c}
  BY <1>1, WithoutProperties
<1>5. r = [t EXCEPT !.clusterCapacity = y, !.client = m, !.ready = rd, !.connecting = cn]
  BY DEF Leaves
<1> HIDE DEF m, y, rd, cn
<1>6. /\ r \in PoolType /\ r.client = m /\ r.clusterCapacity = y /\ r.ready = rd
      /\ r.connecting = cn /\ r.pending = t.pending /\ r.purge = t.purge
      /\ r.connectingCapacity = t.connectingCapacity /\ r.numActive = t.numActive
      /\ r.draining = t.draining /\ r.deleted = t.deleted
      /\ r.clusterPending = t.clusterPending /\ r.lost = t.lost
  BY <1>1, <1>3, <1>4, <1>5 DEF PoolType
<1>7. NoClient.state = "NONE" /\ NoClient.active = {}
  BY DEF NoClient
<1>8. OneChange(t, r, c, NoClient)
  <2>1. r.connectingCapacity = t.connectingCapacity + (Waiting(NoClient) - Waiting(k))
    BY <1>1, <1>6, EmptyClient
  <2>2. r.clusterCapacity
          = t.clusterCapacity + (currentUnusedCapacity(NoClient) - currentUnusedCapacity(k))
    BY <1>1, <1>2, <1>6, EmptyClient DEF y
  <2>3. r.numActive = Cardinality((Work(t.client) \ k.active) \cup NoClient.active)
    <3>1. (Work(t.client) \ k.active) \cup NoClient.active = Work(t.client)
      BY <1>7
    <3> QED BY <1>1, <1>6, <3>1 DEF Core, Counted
  <2>4. IsInjective(r.pending) /\ r.clusterPending = Len(r.pending)
    BY <1>1, <1>6 DEF Core, Listed, Counted
  <2>5. \A d \in Clients \ {c} : t.client[d].active \cap NoClient.active = {}
    BY <1>7
  <2>6. ToSet(r.ready) = ToSet(t.ready) \ {c} /\ ToSet(r.connecting) = ToSet(t.connecting) \ {c}
    BY <1>4, <1>6
  <2>7. r.client = [t.client EXCEPT ![c] = NoClient]
    BY <1>6 DEF m
  <2> QED
    BY <1>1, <1>6, <1>7, <2>1, <2>2, <2>3, <2>4, <2>5, <2>6, <2>7, EmptyClient DEF OneChange
<1>9. /\ Core(r) /\ r.client[c] = NoClient
      /\ \A d \in Clients \ {c} : r.client[d] = t.client[d]
      /\ Work(r.client) = (Work(t.client) \ k.active) \cup NoClient.active
  BY <1>1, <1>8, CoreOneChanges
<1>10. Work(r.client) = Work(t.client)
  BY <1>7, <1>9
<1>11. t.ready = <<>> => r.ready = <<>>
  BY <1>1, <1>4, <1>6, SmallerList
<1>12. ~t.deleted
  BY DEF Good, Rests, isIdle
<1>13. Good(r)
  BY <1>6, <1>9, <1>10, <1>11, <1>12 DEF Good, Apart, Served, Rests
<1> QED BY <1>6, <1>9, <1>10, <1>13 DEF Still

\* The frame ends: the client that went down leaves t.
LEMMA FrameEnds ==
    ASSUME PoolInv, NEW t, Good(t), t.purge = <<>>, Still(pool, t), t.lost = pool.lost,
           NEW c \in Live(t), t.client[c].active = {}, Waiting(t.client[c]) = 0,
           \A d \in InState(t, "CONNECTING") \ {c} : t.client[d].remaining > 0,
           NEW r, Leaves(t, r, c),
           pool' = connectForPending(checkForIdleAndCloseIdleConnsIfDraining(r)),
           closing' = noFrame, UNCHANGED lowered
    PROVE  PoolInv' /\ StreamsKept
<1>1. /\ Good(r) /\ Still(t, r) /\ r.lost = t.lost /\ r.purge = t.purge
      /\ r.client[c] = NoClient /\ \A d \in Clients \ {c} : r.client[d] = t.client[d]
  BY ClientLeaves
<1> DEFINE q == connectForPending(checkForIdleAndCloseIdleConnsIfDraining(r))
<1>2. Good(q) /\ Keeps(r, q) /\ Still(r, q) /\ q.lost = r.lost /\ q.purge = <<>>
  BY <1>1, FinishClose
<1>3. pool' = q
  OBVIOUS
<1> HIDE DEF q
<1>4. \A d \in InState(q, "CONNECTING") : q.client[d].remaining > 0
  <2> TAKE d \in InState(q, "CONNECTING")
  <2>1. d \in Clients /\ q.client[d].state = "CONNECTING"
    BY DEF InState
  <2>2. CASE q.client[d] = NewClient
    BY <2>2, EmptyClient
  <2>3. CASE q.client[d] = r.client[d]
    <3>1. d # c
      BY <1>1, <2>1, <2>3 DEF NoClient
    <3>2. r.client[d] = t.client[d]
      BY <1>1, <2>1, <3>1
    <3> QED BY <2>1, <2>3, <3>1, <3>2 DEF InState
  <2> QED BY <1>2, <2>2, <2>3 DEF Keeps
<1>5. /\ closing' \in FrameType /\ closing'.client = NoOne /\ closing'.phase = "none"
      /\ closing'.stream = NoOne
  BY DEF noFrame, FrameType
<1>6. Dying' = {}
  BY <1>5, PoolAssumption DEF Dying
<1>7. Held(pool)'
  BY <1>2, <1>3, <1>4, <1>5, <1>6 DEF Held, InState, Live
<1>8. StreamsKept
  <2>1. Still(pool, q)
    BY <1>1, <1>2 DEF Still
  <2> QED BY <1>1, <1>2, <1>3, <2>1, QuietStep DEF Still
<1> QED BY <1>2, <1>3, <1>7, <1>8, InvariantAfter

LEMMA CloseEventStep ==
    ASSUME PoolInv, closeEvent
    PROVE  PoolInv' /\ StreamsKept
<1> DEFINE c == closing.client
           k == pool.client[c]
           k0 == [k EXCEPT !.remaining = 0]
           p == [pool EXCEPT !.clusterCapacity = @ - currentUnusedCapacity(k),
                             !.client[c] = [k EXCEPT !.remaining = 0]]
<1>1. Good(pool) /\ Held(pool) /\ Core(pool) /\ pool \in PoolType /\ ClientsOK(pool.client)
      /\ pool.client \in [Clients -> ClientType] /\ pool.clusterCapacity \in Int
      /\ pool.connectingCapacity \in Int /\ pool.clusterPending \in Int
      /\ pool.pending \in Seq(Streams)
  BY DEF PoolInv, Good, Core, PoolType
<1>2. /\ closing.phase = "reset" /\ k.active = {}
      /\ IF k.state = "CONNECTING"
         THEN /\ pool' = [p EXCEPT
                   !.connectingCapacity = @ - effectiveConcurrentStreamLimit(k),
                   !.clusterPending = @ - Len(p.pending),
                   !.purge = p.pending, !.pending = <<>>]
              /\ closing' = [closing EXCEPT !.phase = "purge", !.stream = NoOne]
         ELSE pool' = finishClose(p, c) /\ closing' = noFrame
      /\ UNCHANGED lowered
  BY Zenon DEF closeEvent
<1>3. c \in Clients /\ c # NoOne /\ Dying = {c} /\ closing \in FrameType
  BY <1>1, <1>2 DEF Held, FrameType, Dying
<1>4. c \in Live(pool) /\ pool.purge = <<>>
  BY <1>1, <1>2, <1>3 DEF Held
<1>5. k \in ClientType /\ ClientOK(k) /\ (OnlyDrains => LimitOK(k))
  BY <1>1, <1>3 DEF ClientsOK
<1>6. currentUnusedCapacity(k) \in Int
  BY <1>5, ClientCapacity
<1>7. /\ k0 \in ClientType /\ k0.state = k.state /\ k0.remaining = 0 /\ k0.limit = k.limit
      /\ k0.negative = k.negative /\ k0.active = {}
  BY <1>2, <1>5 DEF ClientType
<1>8. p = [pool EXCEPT !.clusterCapacity = pool.clusterCapacity - currentUnusedCapacity(k),
                       !.client = [pool.client EXCEPT ![c] = k0]]
  OBVIOUS
<1>9. CASE k.state = "CONNECTING"
  <2> DEFINE m == [pool.client EXCEPT ![c] = k0]
             y == pool.clusterCapacity - currentUnusedCapacity(k)
             w == pool.connectingCapacity - effectiveConcurrentStreamLimit(k)
             n == pool.clusterPending - Len(pool.pending)
             q == pool'
  <2>1. /\ effectiveConcurrentStreamLimit(k) \in Nat /\ Waiting(k) = effectiveConcurrentStreamLimit(k)
        /\ Len(pool.pending) \in Nat
    BY <1>1, <1>5, <1>9, ClientCapacity DEF Waiting
  <2>2. m \in [Clients -> ClientType] /\ y \in Int /\ w \in Int /\ n \in Int /\ n = 0
    <3>1. n = 0
      BY <1>1, <2>1 DEF Core, Counted
    <3> HIDE DEF k0
    <3>2. m \in [Clients -> ClientType]
      BY <1>1, <1>3, <1>7
    <3>3. y \in Int /\ w \in Int
      BY <1>1, <1>6, <2>1
    <3> HIDE DEF n
    <3> QED BY <3>1, <3>2, <3>3
  <2>3. p = [pool EXCEPT !.clusterCapacity = y, !.client = m]
    BY <1>8
  <2>4. /\ q = [p EXCEPT
                  !.connectingCapacity = p.connectingCapacity - effectiveConcurrentStreamLimit(k),
                  !.clusterPending = p.clusterPending - Len(p.pending),
                  !.purge = p.pending, !.pending = <<>>]
        /\ closing' = [closing EXCEPT !.phase = "purge", !.stream = NoOne]
    BY <1>2, <1>9
  <2> HIDE DEF p, m, y
  <2>5. /\ p \in PoolType /\ p.client = m /\ p.clusterCapacity = y
        /\ p.ready = pool.ready /\ p.connecting = pool.connecting /\ p.pending = pool.pending
        /\ p.purge = pool.purge /\ p.connectingCapacity = pool.connectingCapacity
        /\ p.numActive = pool.numActive /\ p.draining = pool.draining
        /\ p.deleted = pool.deleted /\ p.clusterPending = pool.clusterPending
        /\ p.lost = pool.lost
    BY <1>1, <2>2, <2>3 DEF PoolType
  <2>6. q = [p EXCEPT !.connectingCapacity = w, !.clusterPending = n,
                      !.purge = pool.pending, !.pending = <<>>]
    BY <2>4, <2>5
  <2> HIDE DEF w, n, q
  <2>7. /\ q \in PoolType /\ q.client = m /\ q.clusterCapacity = y
        /\ q.ready = pool.ready /\ q.connecting = pool.connecting /\ q.pending = <<>>
        /\ q.purge = pool.pending /\ q.connectingCapacity = w
        /\ q.numActive = pool.numActive /\ q.draining = pool.draining
        /\ q.deleted = pool.deleted /\ q.clusterPending = n
        /\ q.lost = pool.lost
    <3>1. <<>> \in Seq(Streams)
      OBVIOUS
    <3> QED BY <1>1, <2>2, <2>5, <2>6, <3>1 DEF PoolType
  <2> HIDE DEF k0
  <2>8. /\ ClientOK(k0) /\ (OnlyDrains => LimitOK(k0)) /\ Waiting(k0) = 0
        /\ currentUnusedCapacity(k0) = 0
    <3>1. ClientOK(k0)
      BY <1>7, <1>9 DEF ClientOK
    <3>2. OnlyDrains => LimitOK(k0)
      BY <1>2, <1>5, <1>7, <1>9 DEF LimitOK, numActiveStreams
    <3>3. k0.limit \in Nat
      BY <1>7 DEF ClientType
    <3>4. effectiveConcurrentStreamLimit(k0) = 0
      BY <1>7, <3>3 DEF effectiveConcurrentStreamLimit, Smaller
    <3>5. Waiting(k0) = 0
      BY <3>4 DEF Waiting
    <3>6. currentUnusedCapacity(k0) = 0
      BY <1>7, <3>4, ClientCapacity
    <3> QED BY <3>1, <3>2, <3>5, <3>6
  <2>9. OneChange(pool, q, c, k0)
    <3>1. q.connectingCapacity = pool.connectingCapacity + (Waiting(k0) - Waiting(k))
      BY <1>1, <2>1, <2>7, <2>8 DEF w
    <3>2. q.clusterCapacity
            = pool.clusterCapacity + (currentUnusedCapacity(k0) - currentUnusedCapacity(k))
      BY <1>1, <1>6, <2>7, <2>8 DEF y
    <3>3. q.numActive = Cardinality((Work(pool.client) \ k.active) \cup k0.active)
      <4>1. (Work(pool.client) \ k.active) \cup k0.active = Work(pool.client)
        BY <1>2, <1>7
      <4> QED BY <1>1, <2>7, <4>1 DEF Core, Counted
    <3>4. IsInjective(q.pending) /\ q.clusterPending = Len(q.pending)
      BY <2>2, <2>7 DEF IsInjective
    <3>5. \A d \in Clients \ {c} : pool.client[d].active \cap k0.active = {}
      BY <1>7
    <3>6. /\ ToSet(q.ready) = ToSet(pool.ready) \ {c}
          /\ ToSet(q.connecting) = ToSet(pool.connecting) \cup {c}
      BY <1>1, <1>3, <1>9, <2>7 DEF Core, Listed, InState
    <3>7. q.client = [pool.client EXCEPT ![c] = k0]
      BY <2>7 DEF m
    <3> QED
      BY <1>3, <1>7, <1>9, <2>7, <2>8, <3>1, <3>2, <3>3, <3>4, <3>5, <3>6, <3>7 DEF OneChange
  <2>10. /\ Core(q) /\ q.client[c] = k0
         /\ \A d \in Clients \ {c} : q.client[d] = pool.client[d]
         /\ Work(q.client) = (Work(pool.client) \ k.active) \cup k0.active
         /\ Live(q) = Live(pool) \cup {c}
    BY <1>1, <1>7, <1>9, <2>9, CoreOneChanges
  <2>11. Work(q.client) = Work(pool.client)
    BY <1>2, <1>7, <2>10
  <2>12. ~q.deleted
    BY <1>1, <1>4, <2>7 DEF Good, Rests, isIdle
  <2>13. Good(q)
    BY <2>7, <2>10, <2>12 DEF Good, Apart, Served, Rests, ToSet
  <2>14. /\ closing' \in FrameType /\ closing'.client = c /\ closing'.phase = "purge"
    BY <1>3, <2>4 DEF FrameType
  <2>15. Dying' = {c}
    BY <1>3, <2>14 DEF Dying
  <2>16. Held(pool)'
    <3>1. \A d \in InState(q, "CONNECTING") \ {c} : q.client[d].remaining > 0
      BY <1>1, <1>3, <2>10 DEF Held, InState
    <3> QED BY <1>3, <1>7, <2>10, <2>14, <2>15, <3>1 DEF Held, Live, InState, q
  <2>17. StreamsKept
    BY <2>7, <2>11, QuietStep DEF q
  <2> QED BY <1>2, <2>13, <2>16, <2>17, InvariantAfter DEF q
<1>10. CASE k.state # "CONNECTING"
  <2> DEFINE r == [p EXCEPT !.client[c] = NoClient, !.ready = Without(@, {c}),
                            !.connecting = Without(@, {c})]
  <2>1. Leaves(pool, r, c)
    <3>1. p.client = [pool.client EXCEPT ![c] = k0] /\ p.ready = pool.ready
          /\ p.connecting = pool.connecting
      BY <1>1, <1>8 DEF PoolType
    <3>2. r = [p EXCEPT !.client = [p.client EXCEPT ![c] = NoClient],
                        !.ready = Without(p.ready, {c}),
                        !.connecting = Without(p.connecting, {c})]
      <4> HIDE DEF p
      <4> QED OBVIOUS
    <3>3. [p.client EXCEPT ![c] = NoClient] = [pool.client EXCEPT ![c] = NoClient]
      <4> HIDE DEF k0, p
      <4> QED BY <3>1
    <3> DEFINE y == pool.clusterCapacity - currentUnusedCapacity(k)
               m == [pool.client EXCEPT ![c] = k0]
               m2 == [pool.client EXCEPT ![c] = NoClient]
               rd == Without(pool.ready, {c})
               cn == Without(pool.connecting, {c})
    <3>4. p = [pool EXCEPT !.clusterCapacity = y, !.client = m]
      BY <1>8
    <3>5. r = [p EXCEPT !.client = m2, !.ready = rd, !.connecting = cn]
      <4> HIDE DEF p, r
      <4> QED BY <3>1, <3>2, <3>3
    <3> HIDE DEF r, p, y, m, m2, rd, cn
    <3>6. r = [pool EXCEPT !.clusterCapacity = y, !.client = m2, !.ready = rd, !.connecting = cn]
      BY <1>1, <3>4, <3>5 DEF PoolType
    <3> QED BY <3>6 DEF Leaves, y, m2, rd, cn
  <2>2. pool' = connectForPending(checkForIdleAndCloseIdleConnsIfDraining(r))
        /\ closing' = noFrame
    BY <1>2, <1>10, Zenon DEF finishClose
  <2> HIDE DEF r
  <2>3. Waiting(k) = 0
    BY <1>10 DEF Waiting
  <2>4. \A d \in InState(pool, "CONNECTING") \ {c} : pool.client[d].remaining > 0
    BY <1>1, <1>3 DEF Held
  <2>5. Still(pool, pool)
    BY KeepsSame
  <2> QED BY <1>1, <1>2, <1>4, <2>1, <2>2, <2>3, <2>4, <2>5, FrameEnds
<1> QED BY <1>9, <1>10

LEMMA PurgeDoneStep ==
    ASSUME PoolInv, purgeDone
    PROVE  PoolInv' /\ StreamsKept
<1> DEFINE c == closing.client
           t == tryCreateNewConnections(pool)
           r == [t EXCEPT !.client[c] = NoClient, !.ready = Without(@, {c}),
                          !.connecting = Without(@, {c})]
<1>1. Good(pool) /\ Held(pool) /\ Core(pool)
  BY DEF PoolInv, Good
<1>2. /\ closing.phase = "purge" /\ pool.purge = <<>> /\ closing' = noFrame
      /\ UNCHANGED lowered
      /\ pool' = connectForPending(checkForIdleAndCloseIdleConnsIfDraining(r))
  BY Zenon DEF purgeDone, finishClose
<1>3. c \in Clients /\ c # NoOne /\ Dying = {c}
  BY <1>1, <1>2 DEF Held, FrameType, Dying
<1>4. c \in Live(pool) /\ pool.client[c].remaining = 0 /\ pool.client[c].active = {}
  BY <1>1, <1>2, <1>3 DEF Held
<1>5. /\ Core(t) /\ Keeps(pool, t) /\ Still(pool, t) /\ t.ready = pool.ready
      /\ t.purge = pool.purge /\ t.deleted = pool.deleted /\ t.lost = pool.lost
  BY <1>1, TryCreates
<1> HIDE DEF t
<1>6. ~pool.deleted
  BY <1>1, <1>4 DEF Good, Rests, isIdle
<1>7. Good(t)
  BY <1>1, <1>5, <1>6 DEF Good, Apart, Served, Rests, Still
<1>8. c \in Live(t) /\ t.client[c].remaining = 0 /\ t.client[c].active = {}
  BY <1>3, <1>4, <1>5 DEF Keeps
<1>9. t \in PoolType /\ t.client \in [Clients -> ClientType] /\ t.client[c] \in ClientType
      /\ t.client[c].limit \in Nat /\ t.clusterCapacity \in Int
  BY <1>3, <1>5 DEF Core, PoolType, ClientType
<1>10. effectiveConcurrentStreamLimit(t.client[c]) = 0
  BY <1>8, <1>9 DEF effectiveConcurrentStreamLimit, Smaller
<1>11. Waiting(t.client[c]) = 0 /\ currentUnusedCapacity(t.client[c]) = 0
  BY <1>8, <1>9, <1>10, ClientCapacity DEF Waiting
<1>12. \A d \in InState(t, "CONNECTING") \ {c} : t.client[d].remaining > 0
  <2> TAKE d \in InState(t, "CONNECTING") \ {c}
  <2>1. CASE t.client[d] = NewClient
    BY <2>1, EmptyClient
  <2>2. CASE t.client[d] = pool.client[d]
    BY <1>1, <1>3, <2>2 DEF Held, InState
  <2> QED BY <1>5, <2>1, <2>2 DEF Keeps
<1>13. Leaves(t, r, c)
  <2> DEFINE m == [t.client EXCEPT ![c] = NoClient]
             rd == Without(t.ready, {c})
             cn == Without(t.connecting, {c})
             y == t.clusterCapacity - currentUnusedCapacity(t.client[c])
  <2>1. y = t.clusterCapacity
    BY <1>9, <1>11
  <2>2. r = [t EXCEPT !.client = m, !.ready = rd, !.connecting = cn]
    OBVIOUS
  <2> HIDE DEF m, rd, cn, r, y
  <2>3. r = [t EXCEPT !.clusterCapacity = y, !.client = m, !.ready = rd, !.connecting = cn]
    BY <1>9, <2>1, <2>2 DEF PoolType
  <2> QED BY <2>3 DEF Leaves, m, rd, cn, y
<1> HIDE DEF r
<1>14. t.purge = <<>>
  BY <1>2, <1>5
<1> QED BY <1>2, <1>5, <1>7, <1>8, <1>11, <1>12, <1>13, <1>14, FrameEnds

-----------------------------------------------------------------------------
(* The theorems.                                                           *)

LEMMA PoolInitial == Init => PoolInv
<1> SUFFICES ASSUME Init PROVE PoolInv
  OBVIOUS
<1> DEFINE m == [c \in Clients |-> NoClient]
           f == [c \in Clients |-> Waiting(m[c])]
           g == [c \in Clients |-> currentUnusedCapacity(m[c])]
<1>1. /\ pool = EmptyPool /\ closing.client = NoOne /\ closing.phase = "none"
      /\ closing.stream = NoOne /\ closing \in FrameType
  BY DEF Init, FrameType
<1>2. NoClient.state = "NONE" /\ NoClient.active = {}
  BY DEF NoClient
<1>3. m \in [Clients -> ClientType] /\ \A c \in Clients : m[c] = NoClient
  BY EmptyClient
<1> HIDE DEF m
<1>4. <<>> \in Seq(Clients) /\ <<>> \in Seq(Streams) /\ Len(<<>>) = 0
      /\ ToSet(<<>>) = {} /\ IsInjective(<<>>)
  BY DEF ToSet, IsInjective
<1>5. /\ pool \in PoolType /\ pool.client = m /\ pool.ready = <<>> /\ pool.connecting = <<>>
      /\ pool.pending = <<>> /\ pool.purge = <<>> /\ pool.connectingCapacity = 0
      /\ pool.numActive = 0 /\ pool.clusterCapacity = 0 /\ pool.clusterPending = 0
  <2>1. /\ EmptyPool.client = m /\ EmptyPool.ready = <<>> /\ EmptyPool.connecting = <<>>
        /\ EmptyPool.pending = <<>> /\ EmptyPool.purge = <<>>
        /\ EmptyPool.connectingCapacity = 0
        /\ EmptyPool.numActive = 0 /\ EmptyPool.clusterCapacity = 0
        /\ EmptyPool.clusterPending = 0
    BY DEF EmptyPool, m
  <2>2. EmptyPool = [client |-> m, ready |-> <<>>, connecting |-> <<>>,
                     pending |-> <<>>, purge |-> <<>>,
                     connectingCapacity |-> 0, numActive |-> 0, draining |-> FALSE,
                     deleted |-> TRUE, clusterCapacity |-> 0, clusterPending |-> 0,
                     full |-> "none", lost |-> {}]
    BY DEF EmptyPool, m
  <2>3. EmptyPool \in PoolType
    BY <1>3, <1>4, <2>2 DEF PoolType
  <2> QED BY <1>1, <2>1, <2>3
<1>6. Live(pool) = {} /\ \A st \in {"READY", "CONNECTING"} : InState(pool, st) = {}
  BY <1>2, <1>3, <1>5 DEF Live, InState
<1>7. Work(m) = {} /\ Cardinality(Work(m)) = 0
  <2>1. Work(m) = {}
    BY <1>2, <1>3 DEF Work
  <2> QED BY <2>1, FS_EmptySet
<1>8. TotalConnecting(m) = 0
  <2>1. \A c \in Clients : f[c] = 0
    BY <1>3, EmptyClient
  <2> HIDE DEF f
  <2>2. SumFunctionOnSet(f, Clients) = SumFunctionOnSet(f, {})
    BY <2>1, PoolAssumption, SumWithZeros
  <2> QED BY <2>2, SumOfNone DEF TotalConnecting, f
<1>9. TotalUnused(m) = 0
  <2>1. \A c \in Clients : g[c] = 0
    BY <1>3, EmptyClient
  <2> HIDE DEF g
  <2>2. SumFunctionOnSet(g, Clients) = SumFunctionOnSet(g, {})
    BY <2>1, PoolAssumption, SumWithZeros
  <2> QED BY <2>2, SumOfNone DEF TotalUnused, g
<1>10. ClientsOK(m)
  BY <1>2, <1>3, EmptyClient DEF ClientsOK
<1>11. Listed(pool) /\ Counted(pool)
  BY <1>4, <1>5, <1>6, <1>7, <1>8, <1>9 DEF Listed, Counted
<1>12. Good(pool)
  BY <1>4, <1>5, <1>6, <1>7, <1>10, <1>11 DEF Good, Core, Apart, Served, Rests, isIdle
<1>13. Held(pool)
  BY <1>1, <1>5, <1>6, PoolAssumption DEF Held, Dying
<1> QED BY <1>12, <1>13 DEF PoolInv

\* Every step of Next keeps the invariant and the streams.
LEMMA PoolStep == PoolInv /\ lowered \in Nat /\ Next => PoolInv' /\ StreamsKept
<1> SUFFICES ASSUME PoolInv, lowered \in Nat, Next PROVE PoolInv' /\ StreamsKept
  OBVIOUS
<1>1. CASE \E s \in Streams : newStream(s)
  BY <1>1, NewStreamStep
<1>2. CASE \E s \in Streams : \E x \in BOOLEAN : onPendingStreamCancel(s, x)
  BY <1>2, OnPendingStreamCancelStep
<1>3. CASE \E s \in Streams : onStreamDestroy(s)
  BY <1>3, OnStreamDestroyStep
<1>4. CASE maybePreconnect
  BY <1>4, MaybePreconnectStep
<1>5. CASE drainAndDelete
  BY <1>5, DrainAndDeleteStep
<1>6. CASE drainExistingConnections
  BY <1>6, DrainExistingConnectionsStep
<1>7. CASE \E c \in Clients : connected(c)
  BY <1>7, ConnectedStep
<1>8. CASE \E c \in Clients : onGoAway(c)
  BY <1>8, OnGoAwayStep
<1>9. CASE \E c \in Clients : \E n \in SettingsLimits : onSettings(c, n)
  BY <1>9, OnSettingsStep
<1>10. CASE \E c \in Clients : remoteClose(c) \/ onConnectTimeout(c) \/ onIdleTimeout(c)
  <2>1. PICK c \in Clients : remoteClose(c) \/ onConnectTimeout(c) \/ onIdleTimeout(c)
    BY <1>10
  <2>2. ~InHandler /\ c \in Live(pool) /\ startClosing(c)
    BY <2>1 DEF remoteClose, onConnectTimeout, onIdleTimeout, Live
  <2> QED BY <2>2, StartClosingStep
<1>11. CASE resetActiveRequest
  BY <1>11, ResetActiveRequestStep
<1>12. CASE closeEvent
  BY <1>12, CloseEventStep
<1>13. CASE purgePendingStream
  BY <1>13, PurgePendingStreamStep
<1>14. CASE purgeDone
  BY <1>14, PurgeDoneStep
<1>15. CASE otherPools
  BY <1>15, OtherPoolsStep
<1> QED
  BY <1>1, <1>2, <1>3, <1>4, <1>5, <1>6, <1>7, <1>8, <1>9, <1>10, <1>11, <1>12, <1>13,
     <1>14, <1>15, Zenon DEF Next, Handler

LEMMA PoolStutter == PoolInv /\ UNCHANGED vars => PoolInv'
<1> SUFFICES ASSUME PoolInv, UNCHANGED vars PROVE PoolInv'
  OBVIOUS
<1>1. pool' = pool /\ closing' = closing /\ lowered' = lowered
  BY DEF vars
<1>2. Held(pool) /\ Good(pool') /\ Keeps(pool, pool') /\ SameFrame
  BY <1>1, KeepsSame DEF PoolInv, SameFrame
<1> QED BY <1>2, OperationKeeps

\* How often a limit was lowered is a number.
LoweredOK == lowered \in Nat

LEMMA LoweredIsCounted == Spec => []LoweredOK
<1>1. Init => LoweredOK
  BY DEF Init, LoweredOK
<1>2. LoweredOK /\ [Next]_vars => LoweredOK'
  <2> SUFFICES ASSUME lowered \in Nat, [Next]_vars PROVE lowered' \in Nat
    BY DEF LoweredOK
  <2>1. CASE \E c \in Clients, n \in SettingsLimits : onSettings(c, n)
    BY <2>1 DEF onSettings
  <2>2. CASE ~\E c \in Clients, n \in SettingsLimits : onSettings(c, n)
    <3>1. ASSUME NEW s \in Streams, newStream(s)
         PROVE  lowered' = lowered
      BY <3>1 DEF newStream
    <3>2. ASSUME NEW s \in Streams, NEW x \in BOOLEAN, onPendingStreamCancel(s, x)
         PROVE  lowered' = lowered
      BY <3>2 DEF onPendingStreamCancel
    <3>3. ASSUME NEW s \in Streams, onStreamDestroy(s)
         PROVE  lowered' = lowered
      BY <3>3 DEF onStreamDestroy
    <3>4. ASSUME maybePreconnect \/ drainAndDelete \/ drainExistingConnections \/ otherPools
         PROVE  lowered' = lowered
      BY <3>4 DEF maybePreconnect, drainAndDelete, drainExistingConnections, otherPools
    <3>5. ASSUME NEW c \in Clients,
                 \/ connected(c) \/ onGoAway(c) \/ remoteClose(c)
                 \/ onConnectTimeout(c) \/ onIdleTimeout(c)
         PROVE  lowered' = lowered
      BY <3>5 DEF connected, onGoAway, remoteClose, onConnectTimeout, onIdleTimeout, startClosing
    <3>6. ASSUME Handler
         PROVE  lowered' = lowered
      BY <3>6 DEF Handler, resetActiveRequest, closeEvent, purgePendingStream, purgeDone
    <3>7. lowered' = lowered
      BY <2>2, <3>1, <3>2, <3>3, <3>4, <3>5, <3>6, Zenon DEF Next, vars
    <3> QED BY <3>7
  <2> QED BY <2>1, <2>2
<1> QED BY <1>1, <1>2, PTL DEF Spec

\* In every reachable state the pool is well formed: clients are in the list of
\* their state, the counters are what they count, streams wait only while no
\* client is ready, a deleted pool is idle, and the client whose connection goes
\* down stays in the pool until its handler is done.
THEOREM PoolInvariant == Spec => []PoolInv
<1>1. Init => PoolInv
  BY PoolInitial
<1>2. PoolInv /\ LoweredOK /\ [Next]_vars => PoolInv'
  BY PoolStep, PoolStutter DEF LoweredOK
<1> QED BY <1>1, <1>2, LoweredIsCounted, PTL DEF Spec

\* The capacities, summed as the properties do.
LEMMA CapacitiesSummed ==
    ASSUME NEW p, Core(p)
    PROVE  /\ ConnectingCapacity(p, InState(p, "CONNECTING")) = TotalConnecting(p.client)
           /\ UnusedCapacity(p, Live(p)) = TotalUnused(p.client)
<1> DEFINE f == [c \in Clients |-> Waiting(p.client[c])]
           e == [c \in Clients |-> effectiveConcurrentStreamLimit(p.client[c])]
           g == [c \in Clients |-> currentUnusedCapacity(p.client[c])]
           C == InState(p, "CONNECTING")
           L == Live(p)
<1>1. /\ p.client \in [Clients -> ClientType] /\ ClientsOK(p.client)
      /\ IsFiniteSet(Clients) /\ C \in SUBSET Clients /\ L \in SUBSET Clients
  BY PoolAssumption DEF Core, PoolType, InState, Live
<1>2. IsFiniteSet(C)
  BY <1>1, FS_Subset
<1>3. /\ \A c \in Clients : f[c] \in Int /\ g[c] \in Int
      /\ \A c \in Clients \ C : f[c] = 0
      /\ \A c \in C : e[c] = f[c]
  BY <1>1, ClientCapacity DEF Waiting, InState
<1>4. \A c \in Clients \ L : g[c] = 0
  BY <1>1, EmptyClient DEF ClientsOK, ClientOK, Live
<1> HIDE DEF f, g, e, C, L
<1>5. SumFunctionOnSet(f, Clients) = SumFunctionOnSet(f, C)
  BY <1>1, <1>3, SumWithZeros
<1>6. SumFunctionOnSet(e, C) = SumFunctionOnSet(f, C)
  BY <1>1, <1>2, <1>3, SumSame
<1>7. SumFunctionOnSet(g, Clients) = SumFunctionOnSet(g, L)
  BY <1>1, <1>3, <1>4, SumWithZeros
<1> QED
  BY <1>5, <1>6, <1>7
  DEF ConnectingCapacity, UnusedCapacity, TotalConnecting, TotalUnused, f, g, e, C, L

\* What the counters show whatever limits peers send.
CountersButCapacity ==
    /\ TypeOK /\ ConnectingCapacityExact
    /\ pool.clusterPending = Len(pool.pending)
    /\ pool.numActive = Cardinality(ActiveStreams(pool))

LEMMA CountersFollow == PoolInv => CountersButCapacity
<1> SUFFICES ASSUME PoolInv PROVE CountersButCapacity
  OBVIOUS
<1>1. Core(pool) /\ Held(pool) /\ pool \in PoolType /\ pool.client \in [Clients -> ClientType]
      /\ Listed(pool) /\ Counted(pool)
  BY DEF PoolInv, Good, Core, PoolType
<1>2. /\ TotalConnecting(pool.client) \in Nat /\ Work(pool.client) \in SUBSET Streams
      /\ ActiveStreams(pool) = Work(pool.client)
  BY <1>1, TotalTypes DEF ActiveStreams, Work
<1>3. Cardinality(Work(pool.client)) \in Nat
  BY <1>2, PoolAssumption, FS_Subset, FS_CardinalityType
<1>4. /\ pool.pending \in Seq(Streams) /\ pool.purge \in Seq(Streams)
      /\ pool.lost \in SUBSET Streams /\ pool.clusterCapacity \in Int
  BY <1>1 DEF PoolType
<1>5. Len(pool.pending) \in Nat /\ ToSet(pool.pending) \subseteq Streams
      /\ ToSet(pool.purge) \subseteq Streams
  BY <1>4, ListBasics
<1>6. closing.client \in Clients \cup {NoOne} /\ closing.stream \in Streams \cup {NoOne}
  BY <1>1 DEF Held, FrameType
<1>7. TypeOK
  BY <1>1, <1>2, <1>3, <1>4, <1>5, <1>6 DEF TypeOK, Listed, Counted
<1>8. ConnectingCapacityExact
  BY <1>1, CapacitiesSummed DEF ConnectingCapacityExact, Counted
<1> QED BY <1>1, <1>2, <1>7, <1>8 DEF CountersButCapacity, Counted

\* Whatever limits peers send in SETTINGS: connecting_stream_capacity_ is the sum
\* of what the connecting clients can serve, the cluster's pending counter and the
\* active stream counter are exact, no unsigned counter goes below zero, and
\* every client is in the list of its state.
THEOREM PoolCountersExact == Spec => []CountersButCapacity
<1>1. PoolInv => CountersButCapacity
  BY CountersFollow
<1> QED BY <1>1, PoolInvariant, PTL

\* For any SETTINGS: the counters above are exact, and the cluster's capacity is
\* what the live clients can still take, in the middle of a handler too, until a
\* peer lowers its limit to a number other than 0.
THEOREM ClusterStateCorrect == Spec => []CountersExact
<1>1. PoolInv => CountersExact
  <2> SUFFICES ASSUME PoolInv PROVE CountersExact
    OBVIOUS
  <2>1. CountersButCapacity
    BY CountersFollow
  <2>2. Core(pool) /\ (lowered = 0 => pool.clusterCapacity = TotalUnused(pool.client))
    BY DEF PoolInv, Good, Core, Counted, OnlyDrains
  <2>3. lowered = 0 => pool.clusterCapacity = UnusedCapacity(pool, Live(pool))
    BY <2>2, CapacitiesSummed
  <2> QED BY <2>1, <2>3 DEF CountersButCapacity, CountersExact, ClusterStateExact
<1> QED BY <1>1, PoolInvariant, PTL

\* No stream stays pending while a client could take it: whatever makes a client
\* ready gives it the waiting streams before the handler returns.
THEOREM ReadyClientsServe == Spec => []NoPendingWhileReady
<1>1. PoolInv => NoPendingWhileReady
  BY DEF PoolInv, Good, Served, NoPendingWhileReady
<1> QED BY <1>1, PoolInvariant, PTL

\* A pool in the deferred delete list has no stream, no client, nothing to purge
\* and counters at zero, whichever handler is still on the stack.
THEOREM DeletedPoolsRest == Spec => []DeletedPoolIsIdle
<1>1. PoolInv => DeletedPoolIsIdle
  <2> SUFFICES ASSUME PoolInv, pool.deleted PROVE
        isIdle(pool) /\ pool.purge = <<>> /\ pool.connectingCapacity = 0 /\ pool.numActive = 0
    BY DEF DeletedPoolIsIdle
  <2>1. /\ isIdle(pool) /\ pool.purge = <<>> /\ Core(pool) /\ ClientsOK(pool.client)
        /\ Live(pool) = {}
    BY DEF PoolInv, Good, Rests, isIdle, Core
  <2>2. ConnectingCapacityExact /\ pool.numActive = Cardinality(ActiveStreams(pool))
    BY CountersFollow DEF CountersButCapacity
  <2>3. InState(pool, "CONNECTING") = {}
    BY <2>1 DEF InState, Live
  <2>4. pool.connectingCapacity = 0
    BY <2>2, <2>3, SumOfNone DEF ConnectingCapacityExact, ConnectingCapacity
  <2>5. \A c \in Clients : pool.client[c].active = {}
    BY <2>1 DEF Live, ClientsOK, ClientOK, NoClient
  <2>6. ActiveStreams(pool) = {}
    BY <2>5 DEF ActiveStreams
  <2>7. pool.numActive = 0
    BY <2>2, <2>6, FS_EmptySet
  <2> QED BY <2>1, <2>4, <2>7
<1> QED BY <1>1, PoolInvariant, PTL

\* A pending stream is destroyed without an answer only in a pool that drains for
\* deletion, and no later stream is attached before it.
THEOREM PendingStreams == Spec => PendingStreamsKept
<1>1. PoolInv /\ LoweredOK /\ [Next]_vars
        => [LostOnlyWhileDraining /\ AttachedInOrder]_vars
  BY PoolStep DEF StreamsKept, LoweredOK
<1> QED BY <1>1, PoolInvariant, LoweredIsCounted, PTL DEF Spec, PendingStreamsKept

=============================================================================
