-------------------------- MODULE ThreadLocalProofs --------------------------
(***************************************************************************)
(* Proofs about ThreadLocal, for any number of workers and slots, any      *)
(* number of calls, and any order of the workers' steps.                   *)
(***************************************************************************)
EXTENDS ThreadLocal, SequenceTheorems, TLAPS

Kinds == {"set", "update", "clear"}

ObjectType == [slot : Slots \cup {Null}, version : Nat]

CallbackType ==
    [kind : Kinds, slot : Slots, index : Nat \ {0}, version : Nat, done : Nat]

\* Types.
TypeOK ==
    /\ slots \in Seq(Slots \cup {Null})
    /\ free \in Seq(Nat \ {0})
    /\ index \in [Slots -> Nat]
    /\ alive \subseteq Slots
    /\ version \in [Slots -> Nat]
    /\ sets \in Nat
    /\ updates \in Nat
    /\ data \in [Threads -> Seq(ObjectType)]
    /\ queue \in [Workers -> Seq(CallbackType)]
    /\ checked \in [Workers -> BOOLEAN]
    /\ mainQueue \in Seq(Nat)
    /\ completed \subseteq Nat
    /\ shutdown \in BOOLEAN
    /\ exited \subseteq Threads

\* A thread leaves only after shutdown has begun, between two callbacks.
ExitInv ==
    /\ exited # {} => shutdown
    /\ \A w \in Workers : w \in exited => ~checked[w]

\* Live slots have their index to themselves; until shutdown the vector names
\* its owner, and the free list the indexes that have none.
IndexInv ==
    /\ \A s \in Slots : index[s] = 0 => s \notin alive /\ version[s] = 0
    /\ \A s, r \in alive : index[s] = index[r] => s = r
    /\ \A j \in 1 .. Len(free) : free[j] \in 1 .. Len(slots)
    /\ \A j, k \in 1 .. Len(free) : free[j] = free[k] => j = k
    /\ ~shutdown =>
        /\ \A s \in alive : index[s] \in 1 .. Len(slots) /\ slots[index[s]] = s
        /\ \A i \in 1 .. Len(slots) :
            /\ slots[i] # Null => slots[i] \in alive /\ index[slots[i]] = i
            /\ slots[i] = Null <=> \E j \in 1 .. Len(free) : free[j] = i

\* Objects lie at the index of their slot.
DataInv ==
    \A t \in Threads : \A i \in 1 .. Len(data[t]) :
        data[t][i].slot # Null => index[data[t][i].slot] = i

\* What is posted carries the index of its slot and an object it has had; a
\* live slot is not cleared.
PostedInv ==
    \A w \in Workers : \A k \in 1 .. Len(queue[w]) :
        LET cb == queue[w][k]
        IN  /\ cb.index = index[cb.slot]
            /\ cb.kind = "clear" => cb.slot \notin alive
            /\ cb.kind # "clear" => cb.version > 0 /\ cb.version <= version[cb.slot]

\* The guard was looked at for the callback at the head of the queue.
CheckedInv ==
    \A w \in Workers :
        checked[w] => queue[w] # <<>> /\ Head(queue[w]).kind # "clear"

-------------------------------------------------------------------------------

Touches(cb, i) == cb.index = i /\ cb.kind \in {"set", "clear"}

\* When the callbacks before position k of queue q have run on a thread with
\* data d, slot s at index i has its object of version v; 0 stands for none.
Latest(q, d, i, k, s, v) ==
    \/ \E j \in 1 .. k - 1 :
        /\ q[j].kind = "set" /\ q[j].slot = s /\ q[j].version = v
        /\ \A m \in j + 1 .. k - 1 : ~Touches(q[m], i)
    \/ /\ \A m \in 1 .. k - 1 : ~Touches(q[m], i)
       /\ i <= Len(d) /\ d[i] = Object(s, v)
    \/ /\ v = 0
       /\ \A m \in 1 .. k - 1 : ~(q[m].kind = "set" /\ q[m].slot = s)
       /\ i <= Len(d) => d[i].slot # s

\* A set() that is still queued finds the object of the one before, ...
SetsInv(w) ==
    \A k \in 1 .. Len(queue[w]) :
        LET cb == queue[w][k]
        IN  cb.kind = "set" /\ cb.slot \in alive =>
                Latest(queue[w], data[w], cb.index, k, cb.slot, cb.version - 1)

\* ... an update the object it was posted after, if it runs at all, ...
UpdatesInv(w) ==
    \A k \in 1 .. Len(queue[w]) :
        LET cb == queue[w][k]
        IN  cb.kind = "update" /\ (cb.slot \in alive \/ (k = 1 /\ checked[w])) =>
                Latest(queue[w], data[w], cb.index, k, cb.slot, cb.version)

\* ... and when all have run a live slot has the object of its last set().
CurrentInv(w) ==
    \A s \in alive :
        Latest(queue[w], data[w], index[s], Len(queue[w]) + 1, s, version[s])

\* Callbacks of the former owners of an index precede everything of its owner.
FormerInv(w) ==
    \A s \in alive : \A k \in 1 .. Len(queue[w]) :
        Touches(queue[w][k], index[s]) /\ queue[w][k].slot # s =>
            /\ index[s] <= Len(data[w]) => data[w][index[s]].slot # s
            /\ \A j \in 1 .. k - 1 : queue[w][j].slot # s

DeliveryInv ==
    \A w \in Workers \ exited :
        SetsInv(w) /\ UpdatesInv(w) /\ CurrentInv(w) /\ FormerInv(w)

\* A completion callback is held by queued updates, waiting or done: one of
\* them, and none that was not asked for.
DoneInv ==
    /\ \A w \in Workers : \A k \in 1 .. Len(queue[w]) : queue[w][k].done \in 0 .. updates
    /\ \A k \in 1 .. Len(mainQueue) : mainQueue[k] \in 1 .. updates
    /\ completed \subseteq 1 .. updates
    /\ CompletionIsLast

-------------------------------------------------------------------------------
(* Queues, data and what a callback does to them.                          *)

\* What running a callback makes of the thread's data.
Run(cb, d) ==
    CASE cb.kind = "set" -> SetThreadLocal(d, cb.index, Object(cb.slot, cb.version))
      [] cb.kind = "clear" -> Clear(d, cb.index)
      [] cb.kind = "update" -> d

\* Posting adds a callback at the end and leaves the others in place.
LEMMA AppendFacts ==
    ASSUME NEW T, NEW q \in Seq(T), NEW c \in T
    PROVE  /\ Append(q, c) \in Seq(T)
           /\ Len(q) \in Nat
           /\ Len(Append(q, c)) = Len(q) + 1
           /\ \A k \in 1 .. Len(q) : Append(q, c)[k] = q[k]
           /\ Append(q, c)[Len(q) + 1] = c
OBVIOUS

\* Running the first callback moves the others one place up.
LEMMA TailFacts ==
    ASSUME NEW T, NEW q \in Seq(T), q # <<>>
    PROVE  /\ Tail(q) \in Seq(T)
           /\ Len(q) \in Nat \ {0}
           /\ Len(Tail(q)) = Len(q) - 1
           /\ \A k \in 1 .. Len(Tail(q)) : k + 1 \in 1 .. Len(q) /\ Tail(q)[k] = q[k + 1]
           /\ Head(q) = q[1] /\ q[1] \in T
OBVIOUS

LEMMA NoObjectType == NoObject \in ObjectType /\ NoObject.slot = Null
BY DEF NoObject, Object, ObjectType

\* Vector e is d with object o at index i, extended with empty entries.
Stored(d, i, o, e) ==
    /\ e \in Seq(ObjectType)
    /\ Len(d) \in Nat /\ Len(d) <= Len(e)
    /\ i <= Len(e) /\ e[i] = o
    /\ \A j \in 1 .. Len(e) : j # i =>
          IF j <= Len(d) THEN e[j] = d[j] ELSE e[j] = NoObject

\* setThreadLocal stores the object at the index, grows the vector with empty
\* entries, and keeps everything else.
LEMMA SetThreadLocalFacts ==
    ASSUME NEW d \in Seq(ObjectType), NEW i \in Nat \ {0}, NEW o \in ObjectType
    PROVE  Stored(d, i, o, SetThreadLocal(d, i, o))
<1> DEFINE n == IF i > Len(d) THEN i ELSE Len(d)
           e == [j \in 1 .. n |->
                    IF j = i THEN o ELSE IF j <= Len(d) THEN d[j] ELSE NoObject]
<1>1. Len(d) \in Nat /\ n \in Nat /\ i <= n /\ Len(d) <= n
  OBVIOUS
<1>2. \A j \in 1 .. n :
        (IF j = i THEN o ELSE IF j <= Len(d) THEN d[j] ELSE NoObject) \in ObjectType
  BY <1>1, NoObjectType
<1>3. e \in [1 .. n -> ObjectType]
  BY <1>2
<1>4. e \in Seq(ObjectType)
  BY <1>1, <1>3, SeqDef
<1>5. Len(e) = n
  BY <1>1, <1>3, <1>4, LenProperties
<1>6. e = SetThreadLocal(d, i, o)
  BY DEF SetThreadLocal
<1> HIDE DEF n
<1>7. \A j \in 1 .. n : e[j] = IF j = i THEN o ELSE IF j <= Len(d) THEN d[j] ELSE NoObject
  OBVIOUS
<1> HIDE DEF e
<1> QED BY <1>1, <1>4, <1>5, <1>6, <1>7 DEF Stored

\* The callback of removeSlot empties the entry, if there is one.
LEMMA ClearFacts ==
    ASSUME NEW d \in Seq(ObjectType), NEW i \in Nat \ {0}
    PROVE  LET e == Clear(d, i)
           IN  /\ e \in Seq(ObjectType)
               /\ Len(d) \in Nat /\ Len(e) = Len(d)
               /\ i <= Len(e) => e[i] = NoObject
               /\ \A j \in 1 .. Len(e) : j # i => e[j] = d[j]
<1>1. CASE i <= Len(d)
  <2>1. i \in 1 .. Len(d) /\ NoObject \in ObjectType
    BY <1>1, NoObjectType
  <2> QED BY <1>1, <2>1, ExceptSeq DEF Clear
<1>2. CASE ~ (i <= Len(d))
  BY <1>2 DEF Clear
<1> QED BY <1>1, <1>2

\* Running cb changes the entry at its index only, to its own object or to
\* none; entries it adds are empty.
Ran(cb, d, e) ==
    /\ e \in Seq(ObjectType)
    /\ Len(d) \in Nat /\ Len(e) \in Nat /\ Len(d) <= Len(e)
    /\ \A j \in 1 .. Len(e) :
          IF Touches(cb, j)
          THEN e[j] = IF cb.kind = "set" THEN Object(cb.slot, cb.version) ELSE NoObject
          ELSE IF j <= Len(d) THEN e[j] = d[j] ELSE e[j] = NoObject
    /\ cb.kind = "set" => cb.index <= Len(e)

LEMMA RunFacts ==
    ASSUME NEW d \in Seq(ObjectType), NEW cb \in CallbackType
    PROVE  Ran(cb, d, Run(cb, d))
<1>1. cb.index \in Nat \ {0} /\ Object(cb.slot, cb.version) \in ObjectType
      /\ cb.kind \in {"set", "update", "clear"}
  BY DEF CallbackType, Object, ObjectType, Kinds
<1>2. CASE cb.kind = "set"
  <2> DEFINE i == cb.index
             o == Object(cb.slot, cb.version)
             e == SetThreadLocal(d, i, o)
  <2>1. Run(cb, d) = e /\ i \in Nat \ {0} /\ o \in ObjectType
    BY <1>1, <1>2 DEF Run
  <2>2. cb.index = i /\ Object(cb.slot, cb.version) = o
    OBVIOUS
  <2> HIDE DEF i, o
  <2>3. Stored(d, i, o, e)
    BY <2>1, SetThreadLocalFacts
  <2> HIDE DEF e
  <2>4. Len(e) \in Nat
    BY <2>3 DEF Stored
  <2> QED BY <1>2, <2>1, <2>2, <2>3, <2>4 DEF Touches, Stored, Ran
<1>3. CASE cb.kind = "clear"
  <2> DEFINE e == Clear(d, cb.index)
  <2>1. Run(cb, d) = e
    BY <1>3 DEF Run
  <2>2. /\ e \in Seq(ObjectType)
        /\ Len(d) \in Nat /\ Len(e) = Len(d)
        /\ cb.index <= Len(e) => e[cb.index] = NoObject
        /\ \A j \in 1 .. Len(e) : j # cb.index => e[j] = d[j]
    BY <1>1, ClearFacts
  <2> HIDE DEF e
  <2> QED BY <1>3, <2>1, <2>2 DEF Touches, Ran
<1>4. CASE cb.kind = "update"
  <2>1. Run(cb, d) = d
    BY <1>4 DEF Run
  <2> QED BY <1>4, <2>1 DEF Touches, Ran
<1> QED BY <1>1, <1>2, <1>3, <1>4

\* A callback that is posted later changes nothing before it.
LEMMA LatestPost ==
    ASSUME NEW q \in Seq(CallbackType), NEW d, NEW i, NEW s, NEW v,
           NEW c \in CallbackType, NEW k \in 1 .. Len(q) + 1,
           Latest(q, d, i, k, s, v)
    PROVE  Latest(Append(q, c), d, i, k, s, v)
<1>1. /\ Len(q) \in Nat
      /\ \A m \in 1 .. Len(q) : Append(q, c)[m] = q[m]
  BY AppendFacts
<1>2. \A m \in 1 .. k - 1 : Append(q, c)[m] = q[m]
  BY <1>1
<1>3. \A j \in 1 .. k - 1 : \A m \in j + 1 .. k - 1 : m \in 1 .. k - 1
  BY <1>1
<1> DEFINE p == Append(q, c)
<1> HIDE DEF p
<1>4. \A m \in 1 .. k - 1 : p[m] = q[m]
  BY <1>2 DEF p
<1>5. Latest(p, d, i, k, s, v)
  BY <1>3, <1>4 DEF Latest
<1> QED BY <1>5 DEF p

\* The slot's object after all callbacks stays the one it is when a callback
\* that does not touch its index is posted.
LEMMA LatestPostOther ==
    ASSUME NEW q \in Seq(CallbackType), NEW d, NEW i, NEW s, NEW v,
           NEW c \in CallbackType, ~ Touches(c, i),
           c.kind = "set" => c.slot # s,
           Latest(q, d, i, Len(q) + 1, s, v)
    PROVE  Latest(Append(q, c), d, i, Len(Append(q, c)) + 1, s, v)
<1> DEFINE p == Append(q, c)
           n == Len(q)
<1>1. /\ n \in Nat /\ Len(p) = n + 1 /\ p[n + 1] = c
      /\ \A m \in 1 .. n : p[m] = q[m]
  BY AppendFacts
<1>2. Latest(q, d, i, n + 1, s, v)
  OBVIOUS
<1> HIDE DEF p, n
<1>3. (n + 1) - 1 = n /\ ((n + 1) + 1) - 1 = n + 1
  BY <1>1
<1>4. \A j \in 1 .. n : j \in 1 .. n + 1
                        /\ \A m \in j + 1 .. n + 1 : m \in j + 1 .. n \/ m = n + 1
  BY <1>1
<1>5. \A m \in 1 .. n + 1 : m \in 1 .. n \/ m = n + 1
  BY <1>1
<1>6. \A j \in 1 .. n : \A m \in j + 1 .. n : m \in 1 .. n
  BY <1>1
<1>7. CASE \E j \in 1 .. n :
             /\ q[j].kind = "set" /\ q[j].slot = s /\ q[j].version = v
             /\ \A m \in j + 1 .. n : ~Touches(q[m], i)
  <2>1. PICK j \in 1 .. n :
             /\ q[j].kind = "set" /\ q[j].slot = s /\ q[j].version = v
             /\ \A m \in j + 1 .. n : ~Touches(q[m], i)
    BY <1>7
  <2>2. j \in 1 .. n + 1 /\ p[j].kind = "set" /\ p[j].slot = s /\ p[j].version = v
    BY <1>1, <1>4, <2>1
  <2>3. \A m \in j + 1 .. n + 1 : ~Touches(p[m], i)
    BY <1>1, <1>4, <1>6, <2>1
  <2> QED BY <1>1, <1>3, <2>2, <2>3 DEF Latest, p
<1>8. CASE /\ \A m \in 1 .. n : ~Touches(q[m], i)
           /\ i <= Len(d) /\ d[i] = Object(s, v)
  <2>1. \A m \in 1 .. n + 1 : ~Touches(p[m], i)
    BY <1>1, <1>5, <1>8
  <2> QED BY <1>1, <1>3, <1>8, <2>1 DEF Latest, p
<1>9. CASE /\ v = 0
           /\ \A m \in 1 .. n : ~(q[m].kind = "set" /\ q[m].slot = s)
           /\ i <= Len(d) => d[i].slot # s
  <2>1. \A m \in 1 .. n + 1 : ~(p[m].kind = "set" /\ p[m].slot = s)
    BY <1>1, <1>5, <1>9
  <2> QED BY <1>1, <1>3, <1>9, <2>1 DEF Latest, p
<1> QED BY <1>2, <1>3, <1>7, <1>8, <1>9 DEF Latest

\* A posted set() decides what the slot has in the end.
LEMMA LatestPostSet ==
    ASSUME NEW q \in Seq(CallbackType), NEW d, NEW i, NEW c \in CallbackType,
           c.kind = "set"
    PROVE  Latest(Append(q, c), d, i, Len(Append(q, c)) + 1, c.slot, c.version)
<1>1. /\ Len(q) \in Nat /\ Len(Append(q, c)) = Len(q) + 1
      /\ Append(q, c)[Len(q) + 1] = c
  BY AppendFacts
<1> DEFINE p == Append(q, c)
           n == Len(q) + 1
<1>2. n \in Nat /\ n \in 1 .. (n + 1) - 1 /\ p[n] = c /\ Len(p) = n
  BY <1>1
<1> HIDE DEF p, n
<1>3. \A m \in n + 1 .. (n + 1) - 1 : FALSE
  BY <1>2
<1>4. Latest(p, d, i, n + 1, c.slot, c.version)
  BY <1>2, <1>3 DEF Latest
<1> QED BY <1>2, <1>4 DEF p, n

\* The first callback is dropped: nothing is lost when it is no set() of s.
LEMMA LatestDrop ==
    ASSUME NEW q \in Seq(CallbackType), q # <<>>, NEW d, NEW i, NEW s, NEW v,
           NEW k \in 1 .. Len(Tail(q)) + 1,
           Latest(q, d, i, k + 1, s, v),
           q[1].kind = "set" => q[1].slot # s
    PROVE  Latest(Tail(q), d, i, k, s, v)
<1> DEFINE p == Tail(q)
           n == Len(p)
<1>1. /\ n \in Nat
      /\ \A m \in 1 .. n : p[m] = q[m + 1]
  BY TailFacts
<1>2. k \in 1 .. n + 1 /\ (k + 1) - 1 = k
  BY <1>1
<1> HIDE DEF p, n
<1>3. \A m \in 1 .. k - 1 : p[m] = q[m + 1] /\ m + 1 \in 1 .. k
  BY <1>1, <1>2
<1>4. CASE \E j \in 1 .. k :
             /\ q[j].kind = "set" /\ q[j].slot = s /\ q[j].version = v
             /\ \A m \in j + 1 .. k : ~Touches(q[m], i)
  <2>1. PICK j \in 1 .. k :
             /\ q[j].kind = "set" /\ q[j].slot = s /\ q[j].version = v
             /\ \A m \in j + 1 .. k : ~Touches(q[m], i)
    BY <1>4
  <2>2. j # 1
    BY <2>1
  <2>3. j - 1 \in 1 .. k - 1 /\ p[j - 1] = q[j]
    BY <1>1, <1>2, <1>3, <2>1, <2>2
  <2>4. \A m \in (j - 1) + 1 .. k - 1 : m + 1 \in j + 1 .. k /\ p[m] = q[m + 1]
    BY <1>2, <1>3, <2>1, <2>2
  <2>5. \A m \in (j - 1) + 1 .. k - 1 : ~Touches(p[m], i)
    BY <2>1, <2>4
  <2> QED BY <2>1, <2>3, <2>5 DEF Latest, p
<1>5. CASE /\ \A m \in 1 .. k : ~Touches(q[m], i)
           /\ i <= Len(d) /\ d[i] = Object(s, v)
  <2>1. \A m \in 1 .. k - 1 : ~Touches(p[m], i)
    BY <1>3, <1>5
  <2> QED BY <1>5, <2>1 DEF Latest, p
<1>6. CASE /\ v = 0
           /\ \A m \in 1 .. k : ~(q[m].kind = "set" /\ q[m].slot = s)
           /\ i <= Len(d) => d[i].slot # s
  <2>1. \A m \in 1 .. k - 1 : ~(p[m].kind = "set" /\ p[m].slot = s)
    BY <1>3, <1>6
  <2> QED BY <1>6, <2>1 DEF Latest, p
<1> QED BY <1>2, <1>4, <1>5, <1>6 DEF Latest

\* The first callback runs: what it stores is now in the data.
LEMMA LatestRun ==
    ASSUME NEW q \in Seq(CallbackType), q # <<>>, NEW d \in Seq(ObjectType),
           NEW i \in Nat \ {0}, NEW s \in Slots, NEW v,
           NEW k \in 1 .. Len(Tail(q)) + 1,
           Latest(q, d, i, k + 1, s, v),
           q[1].slot = s => q[1].index = i
    PROVE  Latest(Tail(q), Run(q[1], d), i, k, s, v)
<1> DEFINE p == Tail(q)
           n == Len(p)
           cb == q[1]
           e == Run(cb, d)
<1>0. cb \in CallbackType /\ s # Null
  BY TailFacts, ThreadLocalAssumption
<1>1. /\ n \in Nat
      /\ \A m \in 1 .. n : p[m] = q[m + 1]
  BY TailFacts
<1>2. k \in 1 .. n + 1 /\ (k + 1) - 1 = k
  BY <1>1
<1>r. /\ Len(d) \in Nat /\ Len(e) \in Nat /\ Len(d) <= Len(e)
      /\ \A j \in 1 .. Len(e) :
            IF Touches(cb, j)
            THEN e[j] = IF cb.kind = "set" THEN Object(cb.slot, cb.version)
                        ELSE NoObject
            ELSE IF j <= Len(d) THEN e[j] = d[j] ELSE e[j] = NoObject
      /\ cb.kind = "set" => cb.index <= Len(e)
  BY <1>0, RunFacts DEF Ran
<1>h. cb = q[1]
  OBVIOUS
<1> HIDE DEF p, n, e, cb
<1>3. \A m \in 1 .. k - 1 : p[m] = q[m + 1] /\ m + 1 \in 1 .. k
  BY <1>1, <1>2
<1>4. CASE \E j \in 1 .. k :
             /\ q[j].kind = "set" /\ q[j].slot = s /\ q[j].version = v
             /\ \A m \in j + 1 .. k : ~Touches(q[m], i)
  <2>1. PICK j \in 1 .. k :
             /\ q[j].kind = "set" /\ q[j].slot = s /\ q[j].version = v
             /\ \A m \in j + 1 .. k : ~Touches(q[m], i)
    BY <1>4
  <2>2. CASE j # 1
    <3>3. j - 1 \in 1 .. k - 1 /\ p[j - 1] = q[j]
      BY <1>1, <1>2, <1>3, <2>1, <2>2
    <3>4. \A m \in (j - 1) + 1 .. k - 1 : m + 1 \in j + 1 .. k /\ p[m] = q[m + 1]
      BY <1>2, <1>3, <2>1, <2>2
    <3>5. \A m \in (j - 1) + 1 .. k - 1 : ~Touches(p[m], i)
      BY <2>1, <3>4
    <3> QED BY <2>1, <3>3, <3>5 DEF Latest, p, e, cb
  <2>3. CASE j = 1
    <3>1. cb.kind = "set" /\ cb.slot = s /\ cb.version = v /\ cb.index = i
      BY <1>h, <2>1, <2>3
    <3>2. i <= Len(e) /\ e[i] = Object(s, v)
      <4>1. i \in 1 .. Len(e) /\ Touches(cb, i)
        BY <1>r, <3>1 DEF Touches
      <4> QED BY <1>r, <3>1, <4>1
    <3>3. \A m \in 1 .. k - 1 : m + 1 \in j + 1 .. k /\ p[m] = q[m + 1]
      BY <1>2, <1>3, <2>3
    <3>4. \A m \in 1 .. k - 1 : ~Touches(p[m], i)
      BY <2>1, <3>3
    <3> QED BY <3>2, <3>4 DEF Latest, p, e, cb
  <2> QED BY <2>2, <2>3
<1>5. CASE /\ \A m \in 1 .. k : ~Touches(q[m], i)
           /\ i <= Len(d) /\ d[i] = Object(s, v)
  <2>1. \A m \in 1 .. k - 1 : ~Touches(p[m], i)
    BY <1>3, <1>5
  <2>2. ~ Touches(cb, i)
    BY <1>2, <1>5, <1>h
  <2>3. i \in 1 .. Len(e) /\ e[i] = d[i]
    BY <1>r, <1>5, <2>2
  <2> QED BY <1>5, <2>1, <2>3 DEF Latest, p, e, cb
<1>6. CASE /\ v = 0
           /\ \A m \in 1 .. k : ~(q[m].kind = "set" /\ q[m].slot = s)
           /\ i <= Len(d) => d[i].slot # s
  <2>1. \A m \in 1 .. k - 1 : ~(p[m].kind = "set" /\ p[m].slot = s)
    BY <1>3, <1>6
  <2>2. ASSUME i <= Len(e) PROVE e[i].slot # s
    <3>1. i \in 1 .. Len(e)
      BY <1>r, <2>2
    <3>2. Object(cb.slot, cb.version).slot = cb.slot /\ NoObject.slot = Null
      BY DEF Object, NoObject
    <3>3. ~(cb.kind = "set" /\ cb.slot = s)
      BY <1>2, <1>6, <1>h
    <3> QED BY <1>0, <1>r, <1>6, <3>1, <3>2, <3>3
  <2> QED BY <1>6, <2>1, <2>2 DEF Latest, p, e, cb
<1> QED BY <1>2, <1>4, <1>5, <1>6 DEF Latest

-------------------------------------------------------------------------------
(* Types, and what each kind of step does to the queues.                   *)

\* The inductive invariant.
IInv ==
    /\ TypeOK
    /\ ExitInv
    /\ IndexInv
    /\ DataInv
    /\ PostedInv
    /\ CheckedInv
    /\ DeliveryInv
    /\ DoneInv

\* A callback that the main thread posts for a live slot is well formed.
LEMMA CallbackFacts ==
    ASSUME TypeOK, IndexInv, NEW s \in alive, NEW kind \in Kinds, NEW done \in Nat,
           version' \in [Slots -> Nat]
    PROVE  LET cb == Callback(kind, s, done)
           IN  /\ cb \in CallbackType
               /\ cb.kind = kind /\ cb.slot = s /\ cb.index = index[s]
               /\ cb.version = version'[s] /\ cb.done = done
<1>1. s \in Slots /\ index[s] \in Nat \ {0} /\ version'[s] \in Nat
  BY DEF TypeOK, IndexInv
<1> QED BY <1>1 DEF Callback, CallbackType

\* Posting reaches every worker.
LEMMA PostAllFacts ==
    ASSUME TypeOK, NEW cb \in CallbackType, PostAll(cb)
    PROVE  /\ queue' \in [Workers -> Seq(CallbackType)]
           /\ \A w \in Workers : queue'[w] = Append(queue[w], cb)
<1>1. \A w \in Workers : Append(queue[w], cb) \in Seq(CallbackType)
  BY AppendFacts DEF TypeOK
<1> QED BY <1>1 DEF PostAll

\* A worker that pops a callback leaves the other workers' queues alone.
LEMMA PopFacts ==
    ASSUME TypeOK, NEW w \in Workers, queue[w] # <<>>, Pop(w)
    PROVE  /\ queue' \in [Workers -> Seq(CallbackType)]
           /\ queue'[w] = Tail(queue[w])
           /\ \A u \in Workers : u # w => queue'[u] = queue[u]
           /\ checked' \in [Workers -> BOOLEAN]
           /\ ~ checked'[w]
           /\ \A u \in Workers : u # w => checked'[u] = checked[u]
           /\ mainQueue' \in Seq(Nat)
           /\ queue[w][1] \in CallbackType
<1>1. /\ queue \in [Workers -> Seq(CallbackType)] /\ mainQueue \in Seq(Nat)
      /\ checked \in [Workers -> BOOLEAN]
      /\ queue' = [queue EXCEPT ![w] = Tail(@)]
      /\ checked' = [checked EXCEPT ![w] = FALSE]
      /\ Released(queue[w][1].done)
  BY DEF TypeOK, Pop
<1>2. Tail(queue[w]) \in Seq(CallbackType) /\ queue[w][1] \in CallbackType
  BY <1>1, TailFacts
<1>3. mainQueue' \in Seq(Nat)
  <2>1. queue[w][1].done \in Nat
    BY <1>2 DEF CallbackType
  <2>2. Append(mainQueue, queue[w][1].done) \in Seq(Nat)
    BY <1>1, <2>1, AppendFacts
  <2> QED BY <1>1, <2>2 DEF Released
<1> QED BY <1>1, <1>2, <1>3

LEMMA InitIInv == Init => IInv
<1> SUFFICES ASSUME Init PROVE IInv
  OBVIOUS
<1> USE DEF Init
<1>1. \A T : <<>> \in Seq(T) /\ Len(<<>>) = 0
  BY EmptySeq
<1>2. \A T : \A k \in 1 .. 0 : FALSE
  OBVIOUS
<1>3. TypeOK
  BY <1>1 DEF TypeOK
<1>4. \A w \in Workers : queue[w] = <<>> /\ Len(queue[w]) = 0 /\ ~checked[w]
  BY <1>1
<1>5. \A t \in Threads : data[t] = <<>> /\ Len(data[t]) = 0
  BY <1>1
<1>6. ExitInv /\ CheckedInv
  BY <1>4 DEF ExitInv, CheckedInv
<1>7. IndexInv
  BY <1>1, <1>2 DEF IndexInv
<1>8. DataInv /\ PostedInv
  BY <1>2, <1>4, <1>5 DEF DataInv, PostedInv
<1>9. DeliveryInv
  BY <1>2, <1>4 DEF DeliveryInv, SetsInv, UpdatesInv, CurrentInv, FormerInv
<1>10. DoneInv
  <2>1. \A k \in 1 .. Len(mainQueue) : FALSE
    BY <1>1, <1>2
  <2>2. completed = {}
    OBVIOUS
  <2> QED BY <1>2, <1>4, <2>1, <2>2 DEF DoneInv, CompletionIsLast
<1> QED BY <1>3, <1>6, <1>7, <1>8, <1>9, <1>10 DEF IInv

LEMMA NextTypeOK == IInv /\ [Next]_vars => TypeOK'
<1> SUFFICES ASSUME TypeOK, IndexInv, [Next]_vars PROVE TypeOK'
  BY DEF IInv
<1>0. Main \in Threads /\ Workers \subseteq Threads
  BY DEF Threads
<1>t. /\ slots \in Seq(Slots \cup {Null}) /\ free \in Seq(Nat \ {0})
      /\ index \in [Slots -> Nat] /\ alive \subseteq Slots
      /\ version \in [Slots -> Nat] /\ sets \in Nat /\ updates \in Nat
      /\ data \in [Threads -> Seq(ObjectType)]
      /\ queue \in [Workers -> Seq(CallbackType)]
      /\ checked \in [Workers -> BOOLEAN]
      /\ mainQueue \in Seq(Nat) /\ completed \subseteq Nat
      /\ shutdown \in BOOLEAN /\ exited \subseteq Threads
  BY DEF TypeOK
<1>1. ASSUME NEW s \in Slots, AllocateSlot(s) PROVE TypeOK'
  <2> USE DEF AllocateSlot, Owns, calls, workers, ending
  <2>1. CASE free = <<>>
    <3>1. Append(slots, s) \in Seq(Slots \cup {Null}) /\ Len(slots) + 1 \in Nat
      BY <1>t, AppendFacts
    <3> QED BY <1>1, <1>t, <2>1, <3>1 DEF TypeOK
  <2>2. CASE free # <<>>
    <3>1. /\ Head(free) = free[1] /\ 1 \in 1 .. Len(free)
          /\ Tail(free) \in Seq(Nat \ {0}) /\ Head(free) \in Nat \ {0}
      BY <1>t, <2>2, TailFacts
    <3>2. Head(free) \in 1 .. Len(slots)
      BY <3>1 DEF IndexInv
    <3>3. [slots EXCEPT ![Head(free)] = s] \in Seq(Slots \cup {Null})
      BY <1>t, <3>2, ExceptSeq
    <3> QED BY <1>1, <1>t, <2>2, <3>1, <3>3 DEF TypeOK
  <2> QED BY <2>1, <2>2
<1>2. ASSUME NEW s \in Slots, Set(s) PROVE TypeOK'
  <2>1. /\ s \in alive /\ sets' = sets + 1
        /\ version' = [version EXCEPT ![s] = @ + 1]
        /\ PostAll(Callback("set", s, 0))
        /\ data' = [data EXCEPT ![Main] = SetThreadLocal(@, index[s], Object(s, version'[s]))]
        /\ UNCHANGED <<storage, updates, checked, mainQueue, completed, ending>>
    BY <1>2 DEF Set
  <2>2. version' \in [Slots -> Nat] /\ sets' \in Nat
    BY <1>t, <2>1
  <2>3. Callback("set", s, 0) \in CallbackType
    BY <2>1, <2>2, CallbackFacts DEF Kinds
  <2>4. queue' \in [Workers -> Seq(CallbackType)]
    BY <2>1, <2>3, PostAllFacts
  <2>5. index[s] \in Nat \ {0} /\ Object(s, version'[s]) \in ObjectType
    BY <1>t, <2>1, <2>2 DEF IndexInv, Object, ObjectType
  <2>6. SetThreadLocal(data[Main], index[s], Object(s, version'[s])) \in Seq(ObjectType)
    BY <1>0, <1>t, <2>5, SetThreadLocalFacts DEF Stored
  <2>7. data' \in [Threads -> Seq(ObjectType)]
    BY <1>t, <2>1, <2>6
  <2> QED BY <1>t, <2>1, <2>2, <2>4, <2>7 DEF TypeOK, storage, ending
<1>3. ASSUME NEW s \in Slots, RemoveSlot(s) PROVE TypeOK'
  <2>1. /\ s \in alive /\ alive' = alive \ {s} /\ UNCHANGED version
        /\ UNCHANGED <<index, sets, updates, checked, mainQueue, completed, ending>>
    BY <1>3 DEF RemoveSlot
  <2>2. CASE shutdown
    BY <1>3, <1>t, <2>1, <2>2 DEF RemoveSlot, TypeOK, ending
  <2>3. CASE ~ shutdown
    <3>1. /\ slots' = [slots EXCEPT ![index[s]] = Null]
          /\ free' = Append(free, index[s])
          /\ PostAll(Callback("clear", s, 0))
          /\ data' = [data EXCEPT ![Main] = Clear(@, index[s])]
      BY <1>3, <2>3 DEF RemoveSlot
    <3>2. index[s] \in 1 .. Len(slots) /\ index[s] \in Nat \ {0}
      BY <1>t, <2>1, <2>3 DEF IndexInv
    <3>3. slots' \in Seq(Slots \cup {Null})
      BY <1>t, <3>1, <3>2, ExceptSeq
    <3>4. free' \in Seq(Nat \ {0})
      BY <1>t, <3>1, <3>2, AppendFacts
    <3>5. Callback("clear", s, 0) \in CallbackType
      BY <1>t, <2>1, CallbackFacts DEF Kinds
    <3>6. queue' \in [Workers -> Seq(CallbackType)]
      BY <3>1, <3>5, PostAllFacts
    <3>7. Clear(data[Main], index[s]) \in Seq(ObjectType)
      BY <1>0, <1>t, <3>2, ClearFacts
    <3>8. data' \in [Threads -> Seq(ObjectType)]
      BY <1>t, <3>1, <3>7
    <3> QED BY <1>t, <2>1, <3>3, <3>4, <3>6, <3>8 DEF TypeOK, ending
  <2> QED BY <2>2, <2>3, <1>t
<1>4. ASSUME NEW s \in Slots, NEW completion \in BOOLEAN, RunOnAllThreads(s, completion)
      PROVE  TypeOK'
  <2> DEFINE done == IF completion THEN updates' ELSE 0
  <2>1. /\ s \in alive /\ updates' = updates + 1
        /\ UNCHANGED <<version, sets>>
        /\ PostAll(Callback("update", s, done)) /\ Released(done)
        /\ UNCHANGED <<storage, data, checked, completed, ending>>
    BY <1>4 DEF RunOnAllThreads
  <2>2. updates' \in Nat /\ done \in Nat /\ version' \in [Slots -> Nat]
    BY <1>t, <2>1
  <2> HIDE DEF done
  <2>3. Callback("update", s, done) \in CallbackType
    BY <2>1, <2>2, CallbackFacts DEF Kinds
  <2>4. queue' \in [Workers -> Seq(CallbackType)]
    BY <2>1, <2>3, PostAllFacts
  <2>5. mainQueue' \in Seq(Nat)
    BY <1>t, <2>1, <2>2, AppendFacts DEF Released
  <2> QED BY <1>t, <2>1, <2>2, <2>4, <2>5 DEF TypeOK, storage, ending
<1>5. ASSUME RunCompletion PROVE TypeOK'
  <2>1. Tail(mainQueue) \in Seq(Nat) /\ Head(mainQueue) \in Nat
    BY <1>5, <1>t, TailFacts DEF RunCompletion
  <2> QED BY <1>5, <1>t, <2>1 DEF RunCompletion, TypeOK, storage, calls, ending
<1>6. ASSUME ShutdownGlobalThreading PROVE TypeOK'
  BY <1>6, <1>t DEF ShutdownGlobalThreading, TypeOK, storage, calls, workers
<1>7. ASSUME NEW w \in Workers, StartCallback(w) PROVE TypeOK'
  <2>1. /\ queue[w] # <<>>
        /\ UNCHANGED <<storage, calls, data, completed, ending>>
        /\ \/ checked' = [checked EXCEPT ![w] = TRUE] /\ UNCHANGED <<queue, mainQueue>>
           \/ Pop(w)
    BY <1>7 DEF StartCallback
  <2>2. CASE Pop(w)
    <3>1. /\ queue' \in [Workers -> Seq(CallbackType)]
          /\ checked' \in [Workers -> BOOLEAN]
          /\ mainQueue' \in Seq(Nat)
      BY <2>1, <2>2, PopFacts
    <3> QED BY <1>t, <2>1, <3>1 DEF TypeOK, storage, calls, ending
  <2>3. CASE checked' = [checked EXCEPT ![w] = TRUE] /\ UNCHANGED <<queue, mainQueue>>
    BY <1>t, <2>1, <2>3 DEF TypeOK, storage, calls, ending
  <2> QED BY <2>1, <2>2, <2>3
<1>8. ASSUME NEW w \in Workers, RunCallback(w) PROVE TypeOK'
  <2>1. /\ queue[w] # <<>> /\ Pop(w)
        /\ UNCHANGED <<storage, calls, completed, ending>>
        /\ data' = [data EXCEPT ![w] = Run(Head(queue[w]), @)]
    BY <1>8 DEF RunCallback, Run
  <2>2. /\ queue' \in [Workers -> Seq(CallbackType)]
        /\ checked' \in [Workers -> BOOLEAN]
        /\ mainQueue' \in Seq(Nat)
    BY <2>1, PopFacts
  <2>3. Head(queue[w]) \in CallbackType
    BY <1>t, <2>1, TailFacts
  <2>4. Run(Head(queue[w]), data[w]) \in Seq(ObjectType)
    BY <1>0, <1>t, <2>3, RunFacts DEF Ran
  <2>5. data' \in [Threads -> Seq(ObjectType)]
    BY <1>0, <1>t, <2>1, <2>4
  <2> QED BY <1>t, <2>1, <2>2, <2>5 DEF TypeOK, storage, calls, ending
<1>9. ASSUME NEW t \in Threads, ShutdownThread(t) PROVE TypeOK'
  <2>1. <<>> \in Seq(ObjectType)
    BY EmptySeq
  <2> QED BY <1>9, <1>t, <2>1 DEF ShutdownThread, TypeOK, storage, calls, workers
<1>10. ASSUME UNCHANGED vars PROVE TypeOK'
  BY <1>10, <1>t DEF vars, storage, calls, workers, ending, TypeOK
<1> QED BY <1>1, <1>2, <1>3, <1>4, <1>5, <1>6, <1>7, <1>8, <1>9, <1>10 DEF Next

-------------------------------------------------------------------------------
(* Indexes.                                                                *)

LEMMA AllocateSlotIndexInv ==
    ASSUME TypeOK, IndexInv, NEW s \in Slots, AllocateSlot(s)
    PROVE  IndexInv'
<1>1. /\ ~shutdown /\ ~shutdown' /\ index[s] = 0 /\ s \notin alive /\ version[s] = 0
      /\ alive' = alive \cup {s} /\ version' = version
  BY DEF AllocateSlot, IndexInv, calls, ending
<1>2. /\ slots \in Seq(Slots \cup {Null}) /\ free \in Seq(Nat \ {0})
      /\ index \in [Slots -> Nat] /\ alive \subseteq Slots /\ s # Null
      /\ Len(slots) \in Nat /\ Len(free) \in Nat
  BY ThreadLocalAssumption DEF TypeOK
<1>3. /\ \A r \in alive : index[r] \in 1 .. Len(slots) /\ slots[index[r]] = r /\ r # Null
      /\ \A i \in 1 .. Len(slots) :
            /\ slots[i] # Null => slots[i] \in alive /\ index[slots[i]] = i
            /\ slots[i] = Null <=> \E j \in 1 .. Len(free) : free[j] = i
      /\ \A j \in 1 .. Len(free) : free[j] \in 1 .. Len(slots)
      /\ \A j, k \in 1 .. Len(free) : free[j] = free[k] => j = k
      /\ \A r \in Slots : index[r] = 0 => r \notin alive /\ version[r] = 0
  BY <1>1, <1>2, ThreadLocalAssumption DEF IndexInv
<1>4. CASE free = <<>>
  <2> DEFINE i == Len(slots) + 1
  <2>1. /\ slots' = Append(slots, s) /\ free' = free
        /\ index' = [index EXCEPT ![s] = i]
    BY <1>4 DEF AllocateSlot, Owns
  <2>2. /\ Len(slots') = i /\ slots'[i] = s
        /\ \A j \in 1 .. Len(slots) : slots'[j] = slots[j]
    BY <1>2, <2>1, AppendFacts
  <2>3. /\ i \in Nat \ {0} /\ i \notin 1 .. Len(slots)
        /\ \A j \in 1 .. Len(slots) : j \in 1 .. i
        /\ \A j \in 1 .. i : j \in 1 .. Len(slots) \/ j = i
    <3>1. Len(slots) \in Nat
      BY <1>2
    <3> DEFINE n == Len(slots)
    <3> HIDE DEF n
    <3>2. ASSUME n \in Nat
          PROVE  /\ n + 1 \in Nat \ {0} /\ n + 1 \notin 1 .. n
                 /\ \A j \in 1 .. n : j \in 1 .. n + 1
                 /\ \A j \in 1 .. n + 1 : j \in 1 .. n \/ j = n + 1
      BY <3>2
    <3> QED BY <3>1, <3>2 DEF n
  <2> HIDE DEF i
  <2>4. /\ index'[s] = i /\ \A r \in Slots : r # s => index'[r] = index[r]
    BY <1>2, <2>1
  <2>5. \A r \in Slots : index'[r] = 0 => r \notin alive' /\ version'[r] = 0
    BY <1>1, <1>3, <2>3, <2>4
  <2>6. \A r \in alive' : index'[r] \in 1 .. Len(slots') /\ slots'[index'[r]] = r
    BY <1>1, <1>2, <1>3, <2>2, <2>3, <2>4
  <2>7. \A r, u \in alive' : index'[r] = index'[u] => r = u
    BY <2>6
  <2>8. \A j \in 1 .. Len(slots') :
            slots'[j] # Null => slots'[j] \in alive' /\ index'[slots'[j]] = j
    <3> SUFFICES ASSUME NEW j \in 1 .. Len(slots'), slots'[j] # Null
                 PROVE  slots'[j] \in alive' /\ index'[slots'[j]] = j
      OBVIOUS
    <3>1. CASE j = i
      BY <1>1, <2>2, <2>4, <3>1
    <3>2. CASE j # i
      <4>1. j \in 1 .. Len(slots) /\ slots'[j] = slots[j]
        BY <2>2, <2>3, <3>2
      <4>2. slots[j] \in alive /\ index[slots[j]] = j /\ slots[j] # s
        BY <1>1, <1>3, <4>1
      <4> QED BY <1>1, <1>2, <2>4, <4>1, <4>2
    <3> QED BY <3>1, <3>2
  <2>9. \A j \in 1 .. Len(slots') :
            slots'[j] = Null <=> \E k \in 1 .. Len(free') : free'[k] = j
    BY <1>2, <1>3, <2>1, <2>2, <2>3
  <2>10. \A j \in 1 .. Len(free') : free'[j] \in 1 .. Len(slots')
    BY <1>3, <2>1, <2>2, <2>3
  <2> QED BY <1>1, <1>3, <2>1, <2>5, <2>6, <2>7, <2>8, <2>9, <2>10 DEF IndexInv
<1>5. CASE free # <<>>
  <2> DEFINE i == free[1]
  <2>1. /\ Head(free) = i /\ Len(free) \in Nat \ {0} /\ 1 \in 1 .. Len(free)
        /\ Len(Tail(free)) = Len(free) - 1
        /\ \A k \in 1 .. Len(Tail(free)) :
              k + 1 \in 1 .. Len(free) /\ Tail(free)[k] = free[k + 1]
    BY <1>2, <1>5, TailFacts
  <2>2. /\ slots' = [slots EXCEPT ![i] = s] /\ free' = Tail(free)
        /\ index' = [index EXCEPT ![s] = i]
    BY <1>5, <2>1 DEF AllocateSlot, Owns
  <2>3. i \in 1 .. Len(slots) /\ slots[i] = Null /\ i \in Nat \ {0}
    BY <1>2, <1>3, <2>1
  <2> HIDE DEF i
  <2>4. /\ Len(slots') = Len(slots) /\ slots'[i] = s
        /\ \A j \in 1 .. Len(slots) : j # i => slots'[j] = slots[j]
    BY <1>2, <2>2, <2>3, ExceptSeq
  <2>5. index'[s] = i /\ \A r \in Slots : r # s => index'[r] = index[r]
    BY <1>2, <2>2
  <2>6. \A k \in 1 .. Len(free') : free'[k] = free[k + 1] /\ k + 1 \in 1 .. Len(free) /\ k + 1 # 1
    BY <2>1, <2>2
  <2>7. \A k \in 1 .. Len(free') : free'[k] # i
    BY <1>3, <2>1, <2>6 DEF i
  <2>8. \A k \in 1 .. Len(free) : free[k] # i => k - 1 \in 1 .. Len(free') /\ free'[k - 1] = free[k]
    <3> SUFFICES ASSUME NEW k \in 1 .. Len(free), free[k] # i
                 PROVE  k - 1 \in 1 .. Len(free') /\ free'[k - 1] = free[k]
      OBVIOUS
    <3>1. k # 1
      BY DEF i
    <3>2. k - 1 \in 1 .. Len(free') /\ (k - 1) + 1 = k
      BY <2>1, <2>2, <3>1
    <3> QED BY <2>6, <3>2
  <2>9. \A r \in Slots : index'[r] = 0 => r \notin alive' /\ version'[r] = 0
    BY <1>1, <1>3, <2>3, <2>5
  <2>10. \A r \in alive' : index'[r] \in 1 .. Len(slots') /\ slots'[index'[r]] = r
    BY <1>1, <1>2, <1>3, <2>3, <2>4, <2>5
  <2>11. \A r, u \in alive' : index'[r] = index'[u] => r = u
    BY <2>10
  <2>12. \A j \in 1 .. Len(slots') :
            slots'[j] # Null => slots'[j] \in alive' /\ index'[slots'[j]] = j
    BY <1>1, <1>2, <1>3, <2>3, <2>4, <2>5
  <2>13. \A j \in 1 .. Len(slots') :
            slots'[j] = Null <=> \E k \in 1 .. Len(free') : free'[k] = j
    <3> SUFFICES ASSUME NEW j \in 1 .. Len(slots')
                 PROVE  slots'[j] = Null <=> \E k \in 1 .. Len(free') : free'[k] = j
      OBVIOUS
    <3>1. CASE j = i
      BY <1>2, <2>4, <2>7, <3>1
    <3>2. CASE j # i
      <4>1. j \in 1 .. Len(slots) /\ slots'[j] = slots[j]
        BY <2>4, <3>2
      <4>2. ASSUME slots'[j] = Null PROVE \E k \in 1 .. Len(free') : free'[k] = j
        <5>1. PICK k \in 1 .. Len(free) : free[k] = j
          BY <1>3, <4>1, <4>2
        <5>2. k - 1 \in 1 .. Len(free') /\ free'[k - 1] = j
          BY <2>8, <3>2, <5>1
        <5> QED BY <5>2
      <4>3. ASSUME NEW k \in 1 .. Len(free'), free'[k] = j PROVE slots'[j] = Null
        <5>1. k + 1 \in 1 .. Len(free) /\ free[k + 1] = j
          BY <2>6, <4>3
        <5> QED BY <1>3, <4>1, <5>1
      <4> QED BY <4>2, <4>3
    <3> QED BY <3>1, <3>2
  <2>14. \A j \in 1 .. Len(free') : free'[j] \in 1 .. Len(slots')
    BY <1>3, <2>4, <2>6
  <2>15. \A j, k \in 1 .. Len(free') : free'[j] = free'[k] => j = k
    <3> SUFFICES ASSUME NEW j \in 1 .. Len(free'), NEW k \in 1 .. Len(free'),
                        free'[j] = free'[k]
                 PROVE  j = k
      OBVIOUS
    <3>1. j + 1 = k + 1
      BY <1>3, <2>6
    <3> QED BY <3>1
  <2> QED BY <1>1, <2>9, <2>10, <2>11, <2>12, <2>13, <2>14, <2>15 DEF IndexInv
<1> QED BY <1>4, <1>5

LEMMA RemoveSlotIndexInv ==
    ASSUME TypeOK, IndexInv, NEW s \in Slots, RemoveSlot(s)
    PROVE  IndexInv'
<1>1. /\ s \in alive /\ alive' = alive \ {s} /\ version' = version
      /\ index' = index /\ shutdown' = shutdown
  BY DEF RemoveSlot, ending
<1>2. CASE shutdown
  <2>1. slots' = slots /\ free' = free
    BY <1>2 DEF RemoveSlot
  <2> QED BY <1>1, <1>2, <2>1 DEF IndexInv
<1>3. CASE ~shutdown
  <2> DEFINE i == index[s]
  <2>1. /\ slots' = [slots EXCEPT ![i] = Null] /\ free' = Append(free, i)
    BY <1>3 DEF RemoveSlot
  <2>2. /\ slots \in Seq(Slots \cup {Null}) /\ free \in Seq(Nat \ {0})
        /\ alive \subseteq Slots /\ s # Null
        /\ Len(slots) \in Nat /\ Len(free) \in Nat
    BY ThreadLocalAssumption DEF TypeOK
  <2>3. /\ \A r \in alive : index[r] \in 1 .. Len(slots) /\ slots[index[r]] = r
        /\ \A j \in 1 .. Len(slots) :
            /\ slots[j] # Null => slots[j] \in alive /\ index[slots[j]] = j
            /\ slots[j] = Null <=> \E k \in 1 .. Len(free) : free[k] = j
        /\ \A j \in 1 .. Len(free) : free[j] \in 1 .. Len(slots)
        /\ \A j, k \in 1 .. Len(free) : free[j] = free[k] => j = k
        /\ \A r, u \in alive : index[r] = index[u] => r = u
        /\ \A r \in Slots : index[r] = 0 => r \notin alive /\ version[r] = 0
    BY <1>3 DEF IndexInv
  <2>4. i \in 1 .. Len(slots) /\ slots[i] = s /\ i \in Nat \ {0}
    BY <1>1, <2>3
  <2>5. \A r \in alive' : index[r] # i
    BY <1>1, <2>3
  <2> HIDE DEF i
  <2>6. /\ Len(slots') = Len(slots) /\ slots'[i] = Null
        /\ \A j \in 1 .. Len(slots) : j # i => slots'[j] = slots[j]
    BY <2>1, <2>2, <2>4, ExceptSeq
  <2>7. /\ Len(free') = Len(free) + 1 /\ free'[Len(free) + 1] = i
        /\ \A j \in 1 .. Len(free) : free'[j] = free[j]
    BY <2>1, <2>2, <2>4, AppendFacts
  <2>8. \A j \in 1 .. Len(free) : free[j] # i
    BY <2>2, <2>3, <2>4
  <2>9. /\ \A j \in 1 .. Len(free') : j \in 1 .. Len(free) \/ j = Len(free) + 1
        /\ \A j \in 1 .. Len(free) : j \in 1 .. Len(free')
        /\ Len(free) + 1 \in 1 .. Len(free')
    BY <2>2, <2>7
  <2>10. \A r \in alive' : index'[r] \in 1 .. Len(slots') /\ slots'[index'[r]] = r
    BY <1>1, <2>3, <2>5, <2>6
  <2>11. \A j \in 1 .. Len(slots') :
            slots'[j] # Null => slots'[j] \in alive' /\ index'[slots'[j]] = j
    BY <1>1, <2>3, <2>4, <2>6 DEF i
  <2>12. \A j \in 1 .. Len(slots') :
            slots'[j] = Null <=> \E k \in 1 .. Len(free') : free'[k] = j
    <3> SUFFICES ASSUME NEW j \in 1 .. Len(slots')
                 PROVE  slots'[j] = Null <=> \E k \in 1 .. Len(free') : free'[k] = j
      OBVIOUS
    <3>1. CASE j = i
      BY <2>6, <2>7, <2>9, <3>1
    <3>2. CASE j # i
      BY <2>3, <2>6, <2>7, <2>9, <3>2
    <3> QED BY <3>1, <3>2
  <2>13. \A j \in 1 .. Len(free') : free'[j] \in 1 .. Len(slots')
    BY <2>3, <2>4, <2>6, <2>7, <2>9
  <2>14. \A j, k \in 1 .. Len(free') : free'[j] = free'[k] => j = k
    BY <2>3, <2>7, <2>8, <2>9
  <2>15. \A r, u \in alive' : index'[r] = index'[u] => r = u
    BY <1>1, <2>3
  <2>16. \A r \in Slots : index'[r] = 0 => r \notin alive' /\ version'[r] = 0
    BY <1>1, <2>3
  <2> QED BY <1>1, <1>3, <2>10, <2>11, <2>12, <2>13, <2>14, <2>15, <2>16 DEF IndexInv
<1> QED BY <1>2, <1>3

\* The vector of owners, the free list and the slots agree after every step.
LEMMA NextIndexInv == IInv /\ [Next]_vars => IndexInv'
<1> SUFFICES ASSUME TypeOK, IndexInv, [Next]_vars PROVE IndexInv'
  BY DEF IInv
<1>1. ASSUME NEW s \in Slots, Set(s) PROVE IndexInv'
  <2>1. /\ s \in alive /\ version' = [version EXCEPT ![s] = @ + 1]
        /\ UNCHANGED <<slots, free, index, alive, shutdown>>
    BY <1>1 DEF Set, storage, ending
  <2>2. \A r \in Slots : r # s => version'[r] = version[r]
    BY <2>1 DEF TypeOK
  <2>3. \A r \in Slots : index'[r] = 0 => r \notin alive' /\ version'[r] = 0
    BY <2>1, <2>2 DEF IndexInv
  <2> QED BY <2>1, <2>3 DEF IndexInv
<1>2. ASSUME UNCHANGED <<slots, free, index, alive, version>>, shutdown => shutdown'
      PROVE  IndexInv'
  BY <1>2 DEF IndexInv
<1>3. ASSUME \/ \E s \in Slots, completion \in BOOLEAN : RunOnAllThreads(s, completion)
             \/ RunCompletion \/ ShutdownGlobalThreading
             \/ \E w \in Workers : StartCallback(w) \/ RunCallback(w)
             \/ \E t \in Threads : ShutdownThread(t)
             \/ UNCHANGED vars
      PROVE  UNCHANGED <<slots, free, index, alive, version>> /\ (shutdown => shutdown')
  BY <1>3 DEF RunOnAllThreads, RunCompletion, ShutdownGlobalThreading, StartCallback,
              RunCallback, ShutdownThread, vars, storage, calls, ending
<1> QED BY <1>1, <1>2, <1>3, AllocateSlotIndexInv, RemoveSlotIndexInv DEF Next

LEMMA NextExitInv == IInv /\ [Next]_vars => ExitInv'
<1> SUFFICES ASSUME TypeOK, ExitInv, [Next]_vars PROVE ExitInv'
  BY DEF IInv
<1>1. ASSUME NEW t \in Threads, ShutdownThread(t) PROVE ExitInv'
  <2>1. /\ shutdown' /\ exited' = exited \cup {t} /\ checked' = checked
        /\ t = Main \/ ~checked[t]
    BY <1>1 DEF ShutdownThread, workers
  <2> QED BY <2>1, ThreadLocalAssumption DEF ExitInv
<1>2. ASSUME NEW w \in Workers, w \notin exited, exited' = exited, shutdown' = shutdown,
             checked' = [checked EXCEPT ![w] = TRUE] \/ checked' = [checked EXCEPT ![w] = FALSE]
      PROVE  ExitInv'
  BY <1>2 DEF ExitInv, TypeOK
<1>3. ASSUME NEW w \in Workers, StartCallback(w) \/ RunCallback(w) PROVE ExitInv'
  BY <1>2, <1>3 DEF StartCallback, RunCallback, Pop, ending
<1>4. ASSUME exited' = exited, shutdown => shutdown', checked' = checked PROVE ExitInv'
  BY <1>4 DEF ExitInv
<1>5. ASSUME \/ \E s \in Slots : \/ AllocateSlot(s) \/ Set(s) \/ RemoveSlot(s)
                                 \/ \E completion \in BOOLEAN : RunOnAllThreads(s, completion)
             \/ RunCompletion \/ ShutdownGlobalThreading \/ UNCHANGED vars
      PROVE  exited' = exited /\ (shutdown => shutdown') /\ checked' = checked
  BY <1>5 DEF AllocateSlot, Set, RemoveSlot, RunOnAllThreads, RunCompletion,
              ShutdownGlobalThreading, vars, workers, ending
<1> QED BY <1>1, <1>3, <1>4, <1>5 DEF Next

-------------------------------------------------------------------------------
(* Data and queues.                                                        *)

\* The step of a main thread operation that posts callback cb.
Posts(cb) ==
    /\ cb \in CallbackType
    /\ \A w \in Workers : queue'[w] = Append(queue[w], cb)
    /\ UNCHANGED <<index, checked, exited, shutdown>>
    /\ \A w \in Workers : data'[w] = data[w]

\* The three operations that post, and what they post.
LEMMA PostSteps ==
    ASSUME TypeOK, IndexInv, NEW s \in Slots,
           \/ Set(s)
           \/ RemoveSlot(s) /\ ~shutdown
           \/ \E completion \in BOOLEAN : RunOnAllThreads(s, completion)
    PROVE  /\ s \in alive /\ ~shutdown
           /\ \E cb \in CallbackType :
                /\ Posts(cb) /\ cb.slot = s /\ cb.index = index[s]
                /\ \/ /\ cb.kind = "set" /\ cb.version = version[s] + 1
                      /\ version' = [version EXCEPT ![s] = @ + 1] /\ alive' = alive
                   \/ /\ cb.kind = "clear" /\ version' = version /\ alive' = alive \ {s}
                   \/ /\ cb.kind = "update" /\ cb.version = version[s] /\ version[s] > 0
                      /\ version' = version /\ alive' = alive
<1>t. /\ version \in [Slots -> Nat] /\ data \in [Threads -> Seq(ObjectType)]
      /\ updates \in Nat
  BY DEF TypeOK
<1>m. \A w \in Workers : w # Main /\ w \in Threads
  BY ThreadLocalAssumption DEF Threads
<1>1. CASE Set(s)
  <2>1. /\ s \in alive /\ ~shutdown
        /\ version' = [version EXCEPT ![s] = @ + 1]
        /\ PostAll(Callback("set", s, 0))
        /\ data' = [data EXCEPT ![Main] = SetThreadLocal(@, index[s], Object(s, version'[s]))]
        /\ UNCHANGED <<index, alive, checked, exited, shutdown>>
    BY <1>1 DEF Set, storage, ending
  <2>2. version' \in [Slots -> Nat] /\ version'[s] = version[s] + 1
    BY <1>t, <2>1
  <2> DEFINE cb == Callback("set", s, 0)
  <2>3. /\ cb \in CallbackType /\ cb.kind = "set" /\ cb.slot = s /\ cb.index = index[s]
        /\ cb.version = version'[s]
    BY <2>1, <2>2, CallbackFacts DEF Kinds
  <2>4. \A w \in Workers : queue'[w] = Append(queue[w], cb)
    BY <2>1, <2>3, PostAllFacts
  <2>5. \A w \in Workers : data'[w] = data[w]
    BY <1>t, <1>m, <2>1
  <2> HIDE DEF cb
  <2>6. Posts(cb)
    BY <2>1, <2>3, <2>4, <2>5 DEF Posts
  <2> QED BY <2>1, <2>2, <2>3, <2>6
<1>2. CASE RemoveSlot(s) /\ ~shutdown
  <2>1. /\ s \in alive /\ version' = version /\ alive' = alive \ {s}
        /\ PostAll(Callback("clear", s, 0))
        /\ data' = [data EXCEPT ![Main] = Clear(@, index[s])]
        /\ UNCHANGED <<index, checked, exited, shutdown>>
    BY <1>2 DEF RemoveSlot, ending
  <2> DEFINE cb == Callback("clear", s, 0)
  <2>3. /\ cb \in CallbackType /\ cb.kind = "clear" /\ cb.slot = s /\ cb.index = index[s]
    BY <1>t, <2>1, CallbackFacts DEF Kinds
  <2>4. \A w \in Workers : queue'[w] = Append(queue[w], cb)
    BY <2>1, <2>3, PostAllFacts
  <2>5. \A w \in Workers : data'[w] = data[w]
    BY <1>t, <1>m, <2>1
  <2> HIDE DEF cb
  <2>6. Posts(cb)
    BY <2>1, <2>3, <2>4, <2>5 DEF Posts
  <2> QED BY <1>2, <2>1, <2>3, <2>6
<1>3. ASSUME NEW completion \in BOOLEAN, RunOnAllThreads(s, completion)
      PROVE  /\ s \in alive /\ ~shutdown
             /\ \E cb \in CallbackType :
                  /\ Posts(cb) /\ cb.slot = s /\ cb.index = index[s]
                  /\ cb.kind = "update" /\ cb.version = version[s] /\ version[s] > 0
                  /\ version' = version /\ alive' = alive
  <2> DEFINE done == IF completion THEN updates' ELSE 0
  <2>1. /\ s \in alive /\ ~shutdown /\ version[s] > 0 /\ updates' = updates + 1
        /\ PostAll(Callback("update", s, done))
        /\ version' = version /\ alive' = alive /\ data' = data
        /\ UNCHANGED <<index, checked, exited, shutdown>>
    BY <1>3 DEF RunOnAllThreads, storage, ending
  <2>2. done \in Nat
    BY <1>t, <2>1
  <2> HIDE DEF done
  <2> DEFINE cb == Callback("update", s, done)
  <2>3. /\ cb \in CallbackType /\ cb.kind = "update" /\ cb.slot = s /\ cb.index = index[s]
        /\ cb.version = version'[s]
    BY <1>t, <2>1, <2>2, CallbackFacts DEF Kinds
  <2>4. \A w \in Workers : queue'[w] = Append(queue[w], cb)
    BY <2>1, <2>3, PostAllFacts
  <2> HIDE DEF cb
  <2>6. Posts(cb)
    BY <2>1, <2>3, <2>4 DEF Posts
  <2> QED BY <2>1, <2>3, <2>6
<1> QED BY <1>1, <1>2, <1>3

\* A worker's step drops or runs its first callback, or finds its guard alive.
LEMMA WorkerSteps ==
    ASSUME TypeOK, NEW w \in Workers, StartCallback(w) \/ RunCallback(w)
    PROVE  /\ w \notin exited /\ queue[w] # <<>> /\ Head(queue[w]) = queue[w][1]
           /\ queue[w][1] \in CallbackType /\ data[w] \in Seq(ObjectType)
           /\ UNCHANGED <<index, alive, version, updates, exited, shutdown, completed>>
           /\ \A t \in Threads : t # w => data'[t] = data[t]
           /\ \A u \in Workers : u # w => queue'[u] = queue[u] /\ checked'[u] = checked[u]
           /\ \/ /\ queue'[w] = queue[w] /\ data'[w] = data[w] /\ checked'[w]
                 /\ queue[w][1].kind # "clear" /\ queue[w][1].slot \in alive
                 /\ queue' = queue /\ mainQueue' = mainQueue
              \/ /\ queue'[w] = Tail(queue[w]) /\ data'[w] = data[w] /\ ~checked'[w]
                 /\ ~checked[w] /\ queue[w][1].slot \notin alive
                 /\ Released(queue[w][1].done)
              \/ /\ queue'[w] = Tail(queue[w]) /\ data'[w] = Run(queue[w][1], data[w])
                 /\ ~checked'[w] /\ Released(queue[w][1].done)
                 /\ checked[w] \/ queue[w][1].kind = "clear"
<1>0. w \in Threads /\ data \in [Threads -> Seq(ObjectType)]
      /\ queue \in [Workers -> Seq(CallbackType)] /\ checked \in [Workers -> BOOLEAN]
  BY DEF TypeOK, Threads
<1>1. CASE StartCallback(w)
  <2>1. /\ w \notin exited /\ queue[w] # <<>> /\ ~checked[w]
        /\ Head(queue[w]).kind # "clear"
        /\ data' = data
        /\ UNCHANGED <<index, alive, version, updates, exited, shutdown, completed>>
        /\ IF Head(queue[w]).slot \in alive
           THEN checked' = [checked EXCEPT ![w] = TRUE] /\ UNCHANGED <<queue, mainQueue>>
           ELSE Pop(w)
    BY <1>1 DEF StartCallback, storage, calls, ending
  <2>2. Head(queue[w]) = queue[w][1] /\ queue[w][1] \in CallbackType
    BY <1>0, <2>1, TailFacts
  <2>3. CASE queue[w][1].slot \in alive
    BY <1>0, <2>1, <2>2, <2>3
  <2>4. CASE queue[w][1].slot \notin alive
    <3>1. Pop(w) /\ Released(queue[w][1].done)
      BY <2>1, <2>2, <2>4 DEF Pop
    <3>2. /\ queue'[w] = Tail(queue[w]) /\ ~checked'[w]
          /\ \A u \in Workers : u # w => queue'[u] = queue[u]
          /\ \A u \in Workers : u # w => checked'[u] = checked[u]
      BY <2>1, <3>1, PopFacts
    <3> QED BY <1>0, <2>1, <2>2, <2>4, <3>1, <3>2
  <2> QED BY <2>3, <2>4
<1>2. CASE RunCallback(w)
  <2>1. /\ w \notin exited /\ queue[w] # <<>> /\ Pop(w)
        /\ checked[w] \/ Head(queue[w]).kind = "clear"
        /\ UNCHANGED <<index, alive, version, updates, exited, shutdown, completed>>
        /\ data' = [data EXCEPT ![w] = Run(Head(queue[w]), @)]
    BY <1>2 DEF RunCallback, Run, storage, calls, ending
  <2>2. Head(queue[w]) = queue[w][1] /\ queue[w][1] \in CallbackType
    BY <1>0, <2>1, TailFacts
  <2>3. /\ queue'[w] = Tail(queue[w]) /\ ~checked'[w]
        /\ \A u \in Workers : u # w => queue'[u] = queue[u]
        /\ \A u \in Workers : u # w => checked'[u] = checked[u]
    BY <2>1, PopFacts
  <2>4. Released(queue[w][1].done)
    BY <2>1 DEF Pop
  <2>5. data'[w] = Run(queue[w][1], data[w]) /\ \A t \in Threads : t # w => data'[t] = data[t]
    BY <1>0, <2>1, <2>2
  <2> QED BY <1>0, <2>1, <2>2, <2>3, <2>4, <2>5
<1> QED BY <1>1, <1>2

\* setThreadLocal keeps objects at the index that f gives their slot.
LEMMA SetThreadLocalPlaced ==
    ASSUME NEW d \in Seq(ObjectType), NEW i \in Nat \ {0}, NEW o \in ObjectType,
           NEW f, f[o.slot] = i,
           \A j \in 1 .. Len(d) : d[j].slot # Null => f[d[j].slot] = j
    PROVE  LET e == SetThreadLocal(d, i, o)
           IN  \A j \in 1 .. Len(e) : e[j].slot # Null => f[e[j].slot] = j
<1> DEFINE e == SetThreadLocal(d, i, o)
<1>1. Stored(d, i, o, e)
  BY SetThreadLocalFacts
<1> HIDE DEF e
<1>2. ASSUME NEW j \in 1 .. Len(e), e[j].slot # Null PROVE f[e[j].slot] = j
  <2>1. CASE j = i
    BY <1>1, <2>1 DEF Stored
  <2>2. CASE j # i
    <3>1. j \in 1 .. Len(d) /\ e[j] = d[j]
      BY <1>1, <1>2, <2>2, NoObjectType DEF Stored
    <3> QED BY <1>2, <3>1
  <2> QED BY <2>1, <2>2
<1> QED BY <1>2 DEF e

\* Objects stay at the index of their slot.
LEMMA NextDataInv == IInv /\ [Next]_vars => DataInv'
<1> SUFFICES ASSUME TypeOK, IndexInv, DataInv, PostedInv, [Next]_vars PROVE DataInv'
  BY DEF IInv
<1>0. /\ Main \in Threads /\ data \in [Threads -> Seq(ObjectType)]
      /\ index \in [Slots -> Nat] /\ version \in [Slots -> Nat]
  BY DEF TypeOK, Threads
<1>n. \A v : NoObject.slot = Null /\ \A s : Object(s, v).slot = s
  BY DEF NoObject, Object
<1>1. ASSUME NEW s \in Slots, AllocateSlot(s) PROVE DataInv'
  <2>1. /\ data' = data /\ index[s] = 0
        /\ \A r \in Slots : r # s => index'[r] = index[r]
    BY <1>0, <1>1 DEF AllocateSlot, Owns
  <2>2. ASSUME NEW t \in Threads, NEW i \in 1 .. Len(data[t]), data[t][i].slot # Null
        PROVE  index'[data[t][i].slot] = i
    <3>1. data[t][i] \in ObjectType
      BY <1>0, ElementOfSeq
    <3>2. data[t][i].slot \in Slots /\ index[data[t][i].slot] = i
      BY <2>2, <3>1 DEF ObjectType, DataInv
    <3>3. i # 0
      BY <1>0
    <3> QED BY <2>1, <3>2, <3>3
  <2> QED BY <2>1, <2>2 DEF DataInv
<1>2. ASSUME NEW s \in Slots, Set(s) PROVE DataInv'
  <2> DEFINE i == index[s]
             d == data[Main]
             o == Object(s, version[s] + 1)
             e == SetThreadLocal(d, i, o)
  <2>1. data' = [data EXCEPT ![Main] = e] /\ index' = index /\ s \in alive
    <3>1. version'[s] = version[s] + 1
      BY <1>0, <1>2 DEF Set
    <3> QED BY <1>2, <3>1 DEF Set, storage
  <2>2. i \in Nat \ {0} /\ d \in Seq(ObjectType)
    BY <1>0, <2>1 DEF IndexInv
  <2>o. o \in ObjectType /\ o.slot = s
    <3>1. version[s] + 1 \in Nat
      BY <1>0
    <3> QED BY <3>1 DEF Object, ObjectType
  <2>3. /\ index[o.slot] = i
        /\ \A j \in 1 .. Len(d) : d[j].slot # Null => index[d[j].slot] = j
    BY <1>0, <2>o DEF DataInv
  <2>4. \A j \in 1 .. Len(e) : e[j].slot # Null => index[e[j].slot] = j
    BY <2>2, <2>o, <2>3, SetThreadLocalPlaced
  <2> HIDE DEF e
  <2> QED BY <1>0, <2>1, <2>4 DEF DataInv
<1>3. ASSUME NEW s \in Slots, RemoveSlot(s) PROVE DataInv'
  <2> DEFINE e == Clear(data[Main], index[s])
  <2>1. /\ data' = data \/ data' = [data EXCEPT ![Main] = e]
        /\ index' = index /\ s \in alive
    BY <1>3 DEF RemoveSlot
  <2>2. index[s] \in Nat \ {0} /\ data[Main] \in Seq(ObjectType)
    BY <1>0, <2>1 DEF IndexInv
  <2>3. /\ index[s] <= Len(e) => e[index[s]] = NoObject
        /\ \A j \in 1 .. Len(e) : j # index[s] => e[j] = data[Main][j]
        /\ Len(e) = Len(data[Main])
    BY <2>2, ClearFacts
  <2> HIDE DEF e
  <2>4. \A j \in 1 .. Len(e) : e[j].slot # Null => index[e[j].slot] = j
    <3> SUFFICES ASSUME NEW j \in 1 .. Len(e), e[j].slot # Null
                 PROVE  index[e[j].slot] = j
      OBVIOUS
    <3>1. j # index[s]
      BY <1>n, <2>2, <2>3
    <3> QED BY <1>0, <2>3, <3>1 DEF DataInv
  <2>5. \A t \in Threads : data'[t] = data[t] \/ (data'[t] = e /\ t = Main)
    BY <1>0, <2>1
  <2> QED BY <2>1, <2>4, <2>5 DEF DataInv
<1>4. ASSUME NEW w \in Workers, StartCallback(w) \/ RunCallback(w) PROVE DataInv'
  <2> DEFINE cb == queue[w][1]
             e == Run(cb, data[w])
  <2>1. /\ index' = index /\ \A t \in Threads : t # w => data'[t] = data[t]
        /\ data'[w] = data[w] \/ data'[w] = e
        /\ cb \in CallbackType /\ data[w] \in Seq(ObjectType) /\ queue[w] # <<>>
    BY <1>4, WorkerSteps
  <2>2. w \in Threads /\ cb.index = index[cb.slot]
    <3>1. 1 \in 1 .. Len(queue[w])
      BY <2>1, TailFacts DEF TypeOK
    <3> QED BY <3>1 DEF PostedInv, Threads
  <2>3. Ran(cb, data[w], e)
    BY <2>1, RunFacts
  <2> HIDE DEF e, cb
  <2>4. \A j \in 1 .. Len(e) : e[j].slot # Null => index[e[j].slot] = j
    <3> SUFFICES ASSUME NEW j \in 1 .. Len(e), e[j].slot # Null
                 PROVE  index[e[j].slot] = j
      OBVIOUS
    <3>1. CASE Touches(cb, j)
      <4>1. e[j] = (IF cb.kind = "set" THEN Object(cb.slot, cb.version) ELSE NoObject)
        BY <2>3, <3>1 DEF Ran
      <4>2. e[j].slot = cb.slot
        BY <1>n, <4>1
      <4> QED BY <2>2, <3>1, <4>2 DEF Touches
    <3>2. CASE ~ Touches(cb, j)
      <4>1. j \in 1 .. Len(data[w]) /\ e[j] = data[w][j]
        BY <1>n, <2>3, <3>2 DEF Ran
      <4> QED BY <2>2, <4>1 DEF DataInv
    <3> QED BY <3>1, <3>2
  <2> QED BY <2>1, <2>2, <2>4 DEF DataInv
<1>5. ASSUME NEW t \in Threads, ShutdownThread(t) PROVE DataInv'
  <2>1. data' = [data EXCEPT ![t] = <<>>] /\ index' = index
    BY <1>5 DEF ShutdownThread, storage
  <2>2. Len(<<>>) = 0 /\ \A j \in 1 .. 0 : FALSE
    OBVIOUS
  <2> QED BY <1>0, <2>1, <2>2 DEF DataInv
<1>6. ASSUME \/ \E s \in Slots, completion \in BOOLEAN : RunOnAllThreads(s, completion)
             \/ RunCompletion \/ ShutdownGlobalThreading \/ UNCHANGED vars
      PROVE  DataInv'
  <2>1. UNCHANGED <<data, index>>
    BY <1>6 DEF RunOnAllThreads, RunCompletion, ShutdownGlobalThreading, vars, storage
  <2> QED BY <2>1 DEF DataInv
<1> QED BY <1>1, <1>2, <1>3, <1>4, <1>5, <1>6 DEF Next

\* A queued callback keeps the index of its slot, and the slot that is cleared
\* stays dead.
LEMMA NextPostedInv == IInv /\ [Next]_vars => PostedInv'
<1> SUFFICES ASSUME TypeOK, IndexInv, PostedInv, [Next]_vars PROVE PostedInv'
  BY DEF IInv
<1>0. /\ queue \in [Workers -> Seq(CallbackType)] /\ index \in [Slots -> Nat]
      /\ version \in [Slots -> Nat]
  BY DEF TypeOK
<1>1. ASSUME NEW s \in Slots, AllocateSlot(s) PROVE PostedInv'
  <2>1. /\ queue' = queue /\ index[s] = 0 /\ alive' = alive \cup {s} /\ version' = version
        /\ \A r \in Slots : r # s => index'[r] = index[r]
    BY <1>0, <1>1 DEF AllocateSlot, Owns, workers, calls
  <2>2. ASSUME NEW w \in Workers, NEW k \in 1 .. Len(queue[w])
        PROVE  /\ queue[w][k].index = index'[queue[w][k].slot]
               /\ queue[w][k].kind = "clear" => queue[w][k].slot \notin alive'
               /\ queue[w][k].kind # "clear" =>
                      queue[w][k].version > 0 /\ queue[w][k].version <= version'[queue[w][k].slot]
    <3>1. queue[w][k] \in CallbackType
      BY <1>0, ElementOfSeq
    <3>2. queue[w][k].slot \in Slots /\ queue[w][k].index # 0
      BY <3>1 DEF CallbackType
    <3>3. /\ queue[w][k].index = index[queue[w][k].slot]
          /\ queue[w][k].kind = "clear" => queue[w][k].slot \notin alive
          /\ queue[w][k].kind # "clear" =>
                 queue[w][k].version > 0 /\ queue[w][k].version <= version[queue[w][k].slot]
      BY DEF PostedInv
    <3>4. queue[w][k].slot # s
      BY <2>1, <3>2, <3>3
    <3> QED BY <2>1, <3>2, <3>3, <3>4
  <2> QED BY <2>1, <2>2 DEF PostedInv
<1>2. ASSUME NEW s \in Slots, NEW cb \in CallbackType, Posts(cb),
             cb.slot = s, cb.index = index[s], alive' \subseteq alive,
             cb.kind = "clear" => s \notin alive',
             \A r \in Slots : version'[r] \in Nat /\ version[r] <= version'[r],
             cb.kind # "clear" => cb.version > 0 /\ cb.version <= version'[s]
      PROVE  PostedInv'
  <2>1. ASSUME NEW w \in Workers, NEW k \in 1 .. Len(queue'[w])
        PROVE  /\ queue'[w][k].index = index'[queue'[w][k].slot]
               /\ queue'[w][k].kind = "clear" => queue'[w][k].slot \notin alive'
               /\ queue'[w][k].kind # "clear" =>
                      queue'[w][k].version > 0 /\ queue'[w][k].version <= version'[queue'[w][k].slot]
    <3>1. /\ queue'[w] = Append(queue[w], cb) /\ index' = index
          /\ queue[w] \in Seq(CallbackType)
      BY <1>0, <1>2 DEF Posts
    <3>2. /\ Len(queue'[w]) = Len(queue[w]) + 1 /\ Len(queue[w]) \in Nat
          /\ queue'[w][Len(queue[w]) + 1] = cb
          /\ \A j \in 1 .. Len(queue[w]) : queue'[w][j] = queue[w][j]
      BY <1>2, <3>1, AppendFacts
    <3>3. CASE k \in 1 .. Len(queue[w])
      <4>1. queue'[w][k] = queue[w][k]
        BY <3>2, <3>3
      <4> DEFINE c == queue[w][k]
      <4>2. /\ c.index = index[c.slot]
            /\ c.kind = "clear" => c.slot \notin alive
            /\ c.kind # "clear" => c.version > 0 /\ c.version <= version[c.slot]
        BY <3>3 DEF PostedInv
      <4>3. c.slot \in Slots /\ c.version \in Nat
        <5>1. c \in CallbackType
          BY <3>1, <3>3, ElementOfSeq
        <5> QED BY <5>1 DEF CallbackType
      <4>4. c.version <= version[c.slot] => c.version <= version'[c.slot]
        BY <1>0, <1>2, <4>3
      <4> HIDE DEF c
      <4>5. queue'[w][k] = c
        BY <4>1 DEF c
      <4> QED BY <1>2, <3>1, <4>2, <4>4, <4>5
    <3>4. CASE k = Len(queue[w]) + 1
      BY <1>2, <3>1, <3>2, <3>4
    <3> QED BY <3>2, <3>3, <3>4
  <2> QED BY <2>1 DEF PostedInv
<1>3. ASSUME NEW s \in Slots,
             \/ Set(s)
             \/ RemoveSlot(s) /\ ~shutdown
             \/ \E completion \in BOOLEAN : RunOnAllThreads(s, completion)
      PROVE  PostedInv'
  <2>1. PICK cb \in CallbackType :
                /\ Posts(cb) /\ cb.slot = s /\ cb.index = index[s]
                /\ \/ /\ cb.kind = "set" /\ cb.version = version[s] + 1
                      /\ version' = [version EXCEPT ![s] = @ + 1] /\ alive' = alive
                   \/ /\ cb.kind = "clear" /\ version' = version /\ alive' = alive \ {s}
                   \/ /\ cb.kind = "update" /\ cb.version = version[s] /\ version[s] > 0
                      /\ version' = version /\ alive' = alive
    BY <1>3, PostSteps
  <2>2. \A r \in Slots : version'[r] \in Nat /\ version[r] <= version'[r]
    BY <1>0, <2>1
  <2>3. cb.kind # "clear" => cb.version > 0 /\ cb.version <= version'[s]
    BY <1>0, <2>1
  <2> QED BY <1>2, <2>1, <2>2, <2>3
<1>4. ASSUME NEW w \in Workers, StartCallback(w) \/ RunCallback(w) PROVE PostedInv'
  <2>1. /\ queue[w] # <<>> /\ index' = index /\ alive' = alive /\ version' = version
        /\ \A u \in Workers : u # w => queue'[u] = queue[u]
        /\ queue'[w] = queue[w] \/ queue'[w] = Tail(queue[w])
    BY <1>4, WorkerSteps
  <2>2. \A k \in 1 .. Len(Tail(queue[w])) :
            k + 1 \in 1 .. Len(queue[w]) /\ Tail(queue[w])[k] = queue[w][k + 1]
    BY <1>0, <2>1, TailFacts
  <2>3. ASSUME NEW u \in Workers, NEW k \in 1 .. Len(queue'[u])
        PROVE  \E j \in 1 .. Len(queue[u]) : queue'[u][k] = queue[u][j]
    BY <2>1, <2>2
  <2>4. ASSUME NEW u \in Workers, NEW k \in 1 .. Len(queue'[u])
        PROVE  /\ queue'[u][k].index = index'[queue'[u][k].slot]
               /\ queue'[u][k].kind = "clear" => queue'[u][k].slot \notin alive'
               /\ queue'[u][k].kind # "clear" =>
                      queue'[u][k].version > 0 /\ queue'[u][k].version <= version'[queue'[u][k].slot]
    <3>1. PICK j \in 1 .. Len(queue[u]) : queue'[u][k] = queue[u][j]
      BY <2>3
    <3>2. /\ queue[u][j].index = index[queue[u][j].slot]
          /\ queue[u][j].kind = "clear" => queue[u][j].slot \notin alive
          /\ queue[u][j].kind # "clear" =>
                 queue[u][j].version > 0 /\ queue[u][j].version <= version[queue[u][j].slot]
      BY DEF PostedInv
    <3> QED BY <2>1, <3>1, <3>2
  <2> QED BY <2>4 DEF PostedInv
<1>5. ASSUME UNCHANGED <<queue, index, version>>, alive' \subseteq alive PROVE PostedInv'
  BY <1>5 DEF PostedInv
<1>6. ASSUME \/ \E s \in Slots : RemoveSlot(s) /\ shutdown
             \/ RunCompletion \/ ShutdownGlobalThreading \/ UNCHANGED vars
             \/ \E t \in Threads : ShutdownThread(t)
      PROVE  UNCHANGED <<queue, index, version>> /\ alive' \subseteq alive
  BY <1>6 DEF RemoveSlot, RunCompletion, ShutdownGlobalThreading, ShutdownThread, vars,
              storage, calls, workers
<1> QED BY <1>1, <1>3, <1>4, <1>5, <1>6 DEF Next

LEMMA NextCheckedInv == IInv /\ [Next]_vars => CheckedInv'
<1> SUFFICES ASSUME TypeOK, IndexInv, CheckedInv, [Next]_vars PROVE CheckedInv'
  BY DEF IInv
<1>0. queue \in [Workers -> Seq(CallbackType)]
  BY DEF TypeOK
<1>1. ASSUME NEW s \in Slots,
             \/ Set(s)
             \/ RemoveSlot(s) /\ ~shutdown
             \/ \E completion \in BOOLEAN : RunOnAllThreads(s, completion)
      PROVE  CheckedInv'
  <2>1. PICK cb \in CallbackType : Posts(cb)
    BY <1>1, PostSteps
  <2>2. ASSUME NEW w \in Workers, checked'[w]
        PROVE  queue'[w] # <<>> /\ Head(queue'[w]).kind # "clear"
    <3> DEFINE q == queue[w]
               p == queue'[w]
    <3>1. q \in Seq(CallbackType) /\ q # <<>> /\ Head(q).kind # "clear" /\ p = Append(q, cb)
      BY <1>0, <2>1, <2>2 DEF Posts, CheckedInv
    <3> HIDE DEF p, q
    <3>2. p # <<>> /\ Head(p) = Head(q)
      BY <3>1
    <3> QED BY <3>1, <3>2 DEF p
  <2> QED BY <2>2 DEF CheckedInv
<1>2. ASSUME NEW w \in Workers, StartCallback(w) \/ RunCallback(w) PROVE CheckedInv'
  <2>1. /\ queue[w] # <<>> /\ Head(queue[w]) = queue[w][1]
        /\ \A u \in Workers : u # w => queue'[u] = queue[u] /\ checked'[u] = checked[u]
        /\ \/ queue'[w] = queue[w] /\ queue[w][1].kind # "clear"
           \/ ~checked'[w]
    BY <1>2, WorkerSteps
  <2> QED BY <2>1 DEF CheckedInv
<1>3. ASSUME \/ \E s \in Slots : AllocateSlot(s) \/ (RemoveSlot(s) /\ shutdown)
             \/ RunCompletion \/ ShutdownGlobalThreading \/ UNCHANGED vars
             \/ \E t \in Threads : ShutdownThread(t)
      PROVE  UNCHANGED <<queue, checked>>
  BY <1>3 DEF AllocateSlot, RemoveSlot, RunCompletion, ShutdownGlobalThreading,
              ShutdownThread, vars, workers
<1>4. ASSUME UNCHANGED <<queue, checked>> PROVE CheckedInv'
  BY <1>4 DEF CheckedInv
<1> QED BY <1>1, <1>2, <1>3, <1>4 DEF Next

-------------------------------------------------------------------------------
(* Completion callbacks.                                                   *)

\* A step that posts or pops keeps the completion callbacks apart when the
\* one whose guard it may have released was held, or is new.
LEMMA DoneKept ==
    ASSUME TypeOK, DoneInv, updates' \in Nat, updates <= updates',
           NEW done \in 0 .. updates',
           done = 0 \/ done > updates \/ Held(done, queue),
           \A w \in Workers : \A k \in 1 .. Len(queue'[w]) : queue'[w][k].done \in 0 .. updates',
           \A d \in 1 .. updates : Held(d, queue') => Held(d, queue),
           Released(done), completed' = completed
    PROVE  DoneInv'
<1>1. /\ mainQueue \in Seq(Nat) /\ updates \in Nat /\ Len(mainQueue) \in Nat
  BY DEF TypeOK
<1>2. /\ \A k \in 1 .. Len(mainQueue) : mainQueue[k] \in 1 .. updates
      /\ completed \subseteq 1 .. updates
      /\ \A k \in 1 .. Len(mainQueue) :
            /\ ~Held(mainQueue[k], queue) /\ mainQueue[k] \notin completed
            /\ \A j \in 1 .. Len(mainQueue) : mainQueue[j] = mainQueue[k] => j = k
      /\ \A d \in completed : ~Held(d, queue)
  BY DEF DoneInv, CompletionIsLast
<1>3. \A d \in 1 .. updates : d \in 1 .. updates'
  BY <1>1
<1>4. completed' \subseteq 1 .. updates' /\ \A d \in completed' : ~Held(d, queue')
  BY <1>2, <1>3
<1>5. \A k \in 1 .. Len(mainQueue) :
            ~Held(mainQueue[k], queue') /\ mainQueue[k] \in 1 .. updates'
  BY <1>2, <1>3
<1>6. CASE mainQueue' = mainQueue
  <2>1. CompletionIsLast'
    BY <1>2, <1>4, <1>5, <1>6 DEF CompletionIsLast
  <2> QED BY <1>4, <1>5, <1>6, <2>1 DEF DoneInv
<1>7. CASE mainQueue' # mainQueue
  <2>1. done # 0 /\ ~Held(done, queue') /\ mainQueue' = Append(mainQueue, done)
    BY <1>7 DEF Released
  <2> DEFINE n == Len(mainQueue)
             p == mainQueue'
  <2>2. /\ Len(p) = n + 1 /\ p[n + 1] = done
        /\ \A k \in 1 .. n : p[k] = mainQueue[k]
    BY <1>1, <2>1, AppendFacts
  <2>3. \A k \in 1 .. n : mainQueue[k] # done
    BY <1>1, <1>2, <2>1
  <2>4. done \notin completed
    BY <1>1, <1>2, <2>1
  <2>5. \A k \in 1 .. Len(p) : k \in 1 .. n \/ k = n + 1
    BY <1>1, <2>2
  <2>6. done \in 1 .. updates'
    BY <2>1
  <2> HIDE DEF n, p
  <2>7. \A k \in 1 .. Len(p) :
            ~Held(p[k], queue') /\ p[k] \notin completed /\ p[k] \in 1 .. updates'
    BY <1>2, <1>5, <2>1, <2>2, <2>4, <2>5, <2>6 DEF n
  <2>8. \A j, k \in 1 .. Len(p) : p[j] = p[k] => j = k
    BY <1>2, <2>2, <2>3, <2>5 DEF n
  <2>9. CompletionIsLast'
    BY <1>4, <2>7, <2>8 DEF CompletionIsLast, p
  <2> QED BY <1>4, <2>7, <2>9 DEF DoneInv, p
<1> QED BY <1>6, <1>7

LEMMA NextDoneInv == IInv /\ [Next]_vars => DoneInv'
<1> SUFFICES ASSUME TypeOK, IndexInv, DoneInv, [Next]_vars PROVE DoneInv'
  BY DEF IInv
<1>0. /\ queue \in [Workers -> Seq(CallbackType)] /\ updates \in Nat
      /\ version \in [Slots -> Nat] /\ mainQueue \in Seq(Nat)
      /\ \A w \in Workers : \A k \in 1 .. Len(queue[w]) : queue[w][k].done \in 0 .. updates
  BY DEF TypeOK, DoneInv
<1>1. ASSUME NEW cb \in CallbackType, PostAll(cb), updates' \in Nat, updates <= updates',
             cb.done = 0 \/ cb.done = updates', updates' = updates => cb.done = 0,
             Released(cb.done), completed' = completed
      PROVE  DoneInv'
  <2>1. \A w \in Workers : queue'[w] = Append(queue[w], cb)
    BY <1>1, PostAllFacts
  <2>2. ASSUME NEW w \in Workers, NEW k \in 1 .. Len(queue'[w])
        PROVE  queue'[w][k] = cb \/ \E j \in 1 .. Len(queue[w]) : queue'[w][k] = queue[w][j]
    <3>0. queue[w] \in Seq(CallbackType) /\ queue'[w] = Append(queue[w], cb)
      BY <1>0, <2>1
    <3>1. /\ Len(queue'[w]) = Len(queue[w]) + 1 /\ Len(queue[w]) \in Nat
          /\ queue'[w][Len(queue[w]) + 1] = cb
          /\ \A j \in 1 .. Len(queue[w]) : queue'[w][j] = queue[w][j]
      BY <3>0, AppendFacts
    <3>2. k \in 1 .. Len(queue[w]) \/ k = Len(queue[w]) + 1
      BY <3>1
    <3> QED BY <3>1, <3>2
  <2>3. cb.done \in 0 .. updates' /\ \A d \in 0 .. updates : d \in 0 .. updates'
    BY <1>0, <1>1
  <2>4. \A w \in Workers : \A k \in 1 .. Len(queue'[w]) : queue'[w][k].done \in 0 .. updates'
    BY <1>0, <2>2, <2>3
  <2>5. \A d \in 1 .. updates : d # cb.done
    BY <1>0, <1>1
  <2>6. \A d \in 1 .. updates : Held(d, queue') => Held(d, queue)
    BY <2>2, <2>5 DEF Held
  <2>7. cb.done = 0 \/ cb.done > updates
    BY <1>0, <1>1
  <2> QED BY <1>1, <2>3, <2>4, <2>6, <2>7, DoneKept
<1>2. ASSUME NEW s \in Slots, NEW kind \in Kinds, s \in alive, version' \in [Slots -> Nat],
             PostAll(Callback(kind, s, 0)),
             UNCHANGED <<updates, mainQueue, completed>>
      PROVE  DoneInv'
  <2>1. Callback(kind, s, 0) \in CallbackType /\ Callback(kind, s, 0).done = 0
    BY <1>2, CallbackFacts
  <2>2. Released(Callback(kind, s, 0).done)
    BY <1>2, <2>1 DEF Released
  <2> QED BY <1>0, <1>1, <1>2, <2>1, <2>2
<1>3. ASSUME NEW s \in Slots, Set(s) PROVE DoneInv'
  <2>1. s \in alive /\ PostAll(Callback("set", s, 0)) /\ UNCHANGED <<updates, mainQueue, completed>>
    BY <1>3 DEF Set
  <2>2. version' \in [Slots -> Nat] /\ "set" \in Kinds
    BY <1>0, <1>3 DEF Set, Kinds
  <2> QED BY <1>2, <2>1, <2>2
<1>4. ASSUME NEW s \in Slots, RemoveSlot(s), ~shutdown PROVE DoneInv'
  <2>1. s \in alive /\ PostAll(Callback("clear", s, 0)) /\ UNCHANGED <<updates, mainQueue, completed>>
    BY <1>4 DEF RemoveSlot
  <2>2. version' \in [Slots -> Nat] /\ "clear" \in Kinds
    BY <1>0, <1>4 DEF RemoveSlot, Kinds
  <2> QED BY <1>2, <2>1, <2>2
<1>5. ASSUME NEW s \in Slots, NEW completion \in BOOLEAN, RunOnAllThreads(s, completion)
      PROVE  DoneInv'
  <2> DEFINE done == IF completion THEN updates' ELSE 0
  <2>1. /\ s \in alive /\ updates' = updates + 1 /\ version' = version
        /\ PostAll(Callback("update", s, done)) /\ Released(done) /\ completed' = completed
    BY <1>5 DEF RunOnAllThreads
  <2>2. done \in Nat /\ (done = 0 \/ done = updates')
    BY <1>0, <2>1
  <2> HIDE DEF done
  <2>3. Callback("update", s, done) \in CallbackType /\ Callback("update", s, done).done = done
    BY <1>0, <2>1, <2>2, CallbackFacts DEF Kinds
  <2>4. updates' \in Nat /\ updates <= updates' /\ updates' # updates
    BY <1>0, <2>1
  <2> QED BY <1>1, <2>1, <2>2, <2>3, <2>4
<1>6. ASSUME NEW w \in Workers, StartCallback(w) \/ RunCallback(w) PROVE DoneInv'
  <2> DEFINE done == queue[w][1].done
  <2>1. /\ queue[w] # <<>> /\ updates' = updates /\ completed' = completed
        /\ \A u \in Workers : u # w => queue'[u] = queue[u]
        /\ \/ queue' = queue /\ mainQueue' = mainQueue
           \/ queue'[w] = Tail(queue[w]) /\ Released(done)
    BY <1>6, WorkerSteps
  <2>2. CASE queue' = queue /\ mainQueue' = mainQueue
    BY <2>1, <2>2 DEF DoneInv, CompletionIsLast, Held
  <2>3. CASE queue'[w] = Tail(queue[w]) /\ Released(done)
    <3>1. /\ \A k \in 1 .. Len(Tail(queue[w])) :
                k + 1 \in 1 .. Len(queue[w]) /\ Tail(queue[w])[k] = queue[w][k + 1]
          /\ 1 \in 1 .. Len(queue[w])
      BY <1>0, <2>1, TailFacts
    <3>2. \A u \in Workers : \A k \in 1 .. Len(queue'[u]) :
              \E j \in 1 .. Len(queue[u]) : queue'[u][k] = queue[u][j]
      BY <2>1, <2>3, <3>1
    <3>3. Held(done, queue) /\ done \in 0 .. updates'
      BY <1>0, <2>1, <3>1 DEF Held
    <3>4. \A d : Held(d, queue') => Held(d, queue)
      BY <3>2 DEF Held
    <3>5. \A u \in Workers : \A k \in 1 .. Len(queue'[u]) : queue'[u][k].done \in 0 .. updates'
      BY <1>0, <2>1, <3>2
    <3>6. updates' \in Nat /\ updates <= updates'
      BY <1>0, <2>1
    <3> HIDE DEF done
    <3> QED BY <2>1, <2>3, <3>3, <3>4, <3>5, <3>6, DoneKept
  <2> QED BY <2>1, <2>2, <2>3
<1>7. ASSUME RunCompletion PROVE DoneInv'
  <2> DEFINE h == mainQueue[1]
             p == mainQueue'
  <2>1. /\ mainQueue # <<>> /\ completed' = completed \cup {Head(mainQueue)}
        /\ p = Tail(mainQueue) /\ UNCHANGED <<queue, updates>>
    BY <1>7 DEF RunCompletion, calls
  <2>2. /\ Head(mainQueue) = h /\ 1 \in 1 .. Len(mainQueue)
        /\ \A k \in 1 .. Len(p) :
              k + 1 \in 1 .. Len(mainQueue) /\ p[k] = mainQueue[k + 1] /\ k + 1 # 1
    BY <1>0, <2>1, TailFacts
  <2>3. /\ \A k \in 1 .. Len(mainQueue) : mainQueue[k] \in 1 .. updates
        /\ completed \subseteq 1 .. updates
        /\ \A k \in 1 .. Len(mainQueue) :
              /\ ~Held(mainQueue[k], queue) /\ mainQueue[k] \notin completed
              /\ \A j \in 1 .. Len(mainQueue) : mainQueue[j] = mainQueue[k] => j = k
        /\ \A d \in completed : ~Held(d, queue)
    BY DEF DoneInv, CompletionIsLast
  <2>4. \A k \in 1 .. Len(p) : p[k] # h
    BY <2>2, <2>3
  <2> HIDE DEF h, p
  <2>5. h \in 1 .. updates /\ ~Held(h, queue)
    BY <2>2, <2>3 DEF h
  <2>6. \A k \in 1 .. Len(p) :
          /\ ~Held(p[k], queue) /\ p[k] \notin completed' /\ p[k] \in 1 .. updates
    BY <2>1, <2>2, <2>3, <2>4
  <2>7. ASSUME NEW k \in 1 .. Len(p), NEW j \in 1 .. Len(p), p[j] = p[k] PROVE j = k
    <3>1. j + 1 = k + 1
      BY <2>2, <2>3, <2>7
    <3> QED BY <3>1
  <2>8. \A d \in completed' : ~Held(d, queue) /\ d \in 1 .. updates
    BY <2>1, <2>2, <2>3, <2>5
  <2>9. CompletionIsLast'
    BY <2>1, <2>6, <2>7, <2>8 DEF CompletionIsLast, p
  <2> QED BY <1>0, <2>1, <2>6, <2>8, <2>9 DEF DoneInv, p
<1>8. ASSUME UNCHANGED <<queue, updates, mainQueue, completed>> PROVE DoneInv'
  BY <1>8 DEF DoneInv, CompletionIsLast, Held
<1>9. ASSUME \/ \E s \in Slots : AllocateSlot(s) \/ (RemoveSlot(s) /\ shutdown)
             \/ ShutdownGlobalThreading \/ UNCHANGED vars
             \/ \E t \in Threads : ShutdownThread(t)
      PROVE  UNCHANGED <<queue, updates, mainQueue, completed>>
  BY <1>9 DEF AllocateSlot, RemoveSlot, ShutdownGlobalThreading, ShutdownThread, vars,
              calls, workers
<1> QED BY <1>3, <1>4, <1>5, <1>6, <1>7, <1>8, <1>9 DEF Next

-------------------------------------------------------------------------------
(* Delivery.                                                               *)

\* What a worker's step, or one that does not concern the worker, leaves.
LEMMA DeliveryKept ==
    ASSUME NEW w \in Workers, SetsInv(w), UpdatesInv(w), CurrentInv(w), FormerInv(w),
           queue'[w] = queue[w], data'[w] = data[w], UNCHANGED <<index, version>>,
           alive' \subseteq alive,
           checked'[w] => checked[w] \/ queue[w][1].slot \in alive
    PROVE  SetsInv(w)' /\ UpdatesInv(w)' /\ CurrentInv(w)' /\ FormerInv(w)'
<1>1. SetsInv(w)'
  BY DEF SetsInv, Latest, Touches
<1>2. UpdatesInv(w)'
  BY DEF UpdatesInv, Latest, Touches
<1>3. CurrentInv(w)'
  BY DEF CurrentInv, Latest, Touches
<1>4. FormerInv(w)'
  BY DEF FormerInv, Touches
<1> QED BY <1>1, <1>2, <1>3, <1>4

\* A new owner of an index starts with nothing, on any thread.
LEMMA DeliveryAllocate ==
    ASSUME TypeOK, IndexInv, DataInv, PostedInv, NEW w \in Workers,
           SetsInv(w), UpdatesInv(w), CurrentInv(w), FormerInv(w),
           NEW s \in Slots, AllocateSlot(s), IndexInv', TypeOK'
    PROVE  SetsInv(w)' /\ UpdatesInv(w)' /\ CurrentInv(w)' /\ FormerInv(w)'
<1> DEFINE q == queue[w]
           d == data[w]
<1>1. /\ index[s] = 0 /\ version[s] = 0 /\ s \notin alive /\ alive' = alive \cup {s}
      /\ UNCHANGED <<queue, data, checked, version>>
      /\ \A r \in Slots : r # s => index'[r] = index[r]
  BY DEF AllocateSlot, Owns, calls, workers, IndexInv, TypeOK
<1>2. q \in Seq(CallbackType) /\ d \in Seq(ObjectType) /\ w \in Threads /\ Len(q) \in Nat
  BY DEF TypeOK, Threads
<1>3. ASSUME NEW k \in 1 .. Len(q) PROVE q[k].slot # s
  <2>1. q[k] \in CallbackType
    BY <1>2, ElementOfSeq
  <2> QED BY <1>1, <2>1 DEF PostedInv, CallbackType
<1>4. ASSUME NEW i \in Nat \ {0}, i <= Len(d) PROVE d[i].slot # s
  <2>1. i \in 1 .. Len(d)
    BY <1>2, <1>4
  <2>2. s # Null
    BY ThreadLocalAssumption
  <2> QED BY <1>1, <1>2, <2>1, <2>2 DEF DataInv
<1>5. \A r \in alive : r \in Slots /\ r # s /\ index'[r] = index[r]
  BY <1>1 DEF TypeOK
<1>6. index'[s] \in Nat \ {0}
  BY <1>1 DEF IndexInv, TypeOK
<1> HIDE DEF q, d
<1>7. queue'[w] = q /\ data'[w] = d /\ queue[w] = q /\ data[w] = d
  BY <1>1 DEF q, d
<1>8. SetsInv(w)'
  BY <1>1, <1>3, <1>7 DEF SetsInv, Latest, Touches
<1>9. UpdatesInv(w)'
  BY <1>1, <1>3, <1>7 DEF UpdatesInv, Latest, Touches
<1>10. CurrentInv(w)'
  <2>1. ASSUME NEW r \in alive'
        PROVE  Latest(q, d, index'[r], Len(q) + 1, r, version[r])
    <3>1. CASE r = s
      <4>1. (Len(q) + 1) - 1 = Len(q)
        BY <1>2
      <4> QED BY <1>1, <1>3, <1>4, <1>6, <3>1, <4>1 DEF Latest
    <3>2. CASE r # s
      BY <1>1, <1>5, <1>7, <3>2 DEF CurrentInv
    <3> QED BY <3>1, <3>2
  <2> QED BY <1>1, <1>7, <2>1 DEF CurrentInv, Latest, Touches
<1>11. FormerInv(w)'
  <2> SUFFICES ASSUME NEW r \in alive', NEW k \in 1 .. Len(q),
                      Touches(q[k], index'[r]), q[k].slot # r
               PROVE  /\ index'[r] <= Len(d) => d[index'[r]].slot # r
                      /\ \A j \in 1 .. k - 1 : q[j].slot # r
    BY <1>7 DEF FormerInv, Touches
  <2>1. CASE r = s
    <3>1. \A j \in 1 .. k - 1 : j \in 1 .. Len(q)
      BY <1>2
    <3> QED BY <1>3, <1>4, <1>6, <2>1, <3>1
  <2>2. CASE r # s
    BY <1>1, <1>5, <1>7, <2>2 DEF FormerInv, Touches
  <2> QED BY <2>1, <2>2
<1> QED BY <1>8, <1>9, <1>10, <1>11

\* Posting for a live slot: its own object follows the last one, the objects of
\* the other live slots stay what they are.
LEMMA DeliveryPost ==
    ASSUME TypeOK, IndexInv, CheckedInv, NEW w \in Workers,
           SetsInv(w), UpdatesInv(w), CurrentInv(w), FormerInv(w),
           NEW s \in alive, NEW cb \in CallbackType, Posts(cb),
           cb.slot = s, cb.index = index[s],
           \/ /\ cb.kind = "set" /\ cb.version = version[s] + 1
              /\ version' = [version EXCEPT ![s] = @ + 1] /\ alive' = alive
           \/ /\ cb.kind = "clear" /\ version' = version /\ alive' = alive \ {s}
           \/ /\ cb.kind = "update" /\ cb.version = version[s] /\ version[s] > 0
              /\ version' = version /\ alive' = alive
    PROVE  SetsInv(w)' /\ UpdatesInv(w)' /\ CurrentInv(w)' /\ FormerInv(w)'
<1> DEFINE q == queue[w]
           p == Append(q, cb)
           d == data[w]
<1>1. /\ queue'[w] = p /\ data'[w] = d /\ checked' = checked /\ index' = index
      /\ alive' \subseteq alive
  BY DEF Posts
<1>2. /\ q \in Seq(CallbackType) /\ Len(q) \in Nat /\ alive \subseteq Slots
      /\ version \in [Slots -> Nat] /\ index \in [Slots -> Nat]
  BY DEF TypeOK
<1>3. /\ p \in Seq(CallbackType) /\ Len(p) = Len(q) + 1 /\ p[Len(q) + 1] = cb
      /\ \A k \in 1 .. Len(q) : p[k] = q[k]
  BY <1>2, AppendFacts
<1>4. \A k \in 1 .. Len(p) : k \in 1 .. Len(q) \/ k = Len(q) + 1
  BY <1>2, <1>3
<1>5. \A k \in 1 .. Len(q) + 1 : \A i, r, v : Latest(q, d, i, k, r, v) => Latest(p, d, i, k, r, v)
  BY <1>2, LatestPost
<1>6. Latest(p, d, index[s], Len(q) + 1, s, version[s])
  <2>1. Latest(q, d, index[s], Len(q) + 1, s, version[s])
    BY DEF CurrentInv
  <2>2. Len(q) + 1 \in 1 .. Len(q) + 1
    BY <1>2
  <2> HIDE DEF p, q, d
  <2> QED BY <1>5, <2>1, <2>2
<1>7. \A k \in 1 .. Len(q) : k \in 1 .. Len(q) + 1
  BY <1>2
<1> HIDE DEF p, q, d
<1>q. queue[w] = q /\ data[w] = d
  BY DEF q, d
<1>8. SetsInv(w)'
  <2> SUFFICES ASSUME NEW k \in 1 .. Len(p), p[k].kind = "set", p[k].slot \in alive'
               PROVE  Latest(p, d, p[k].index, k, p[k].slot, p[k].version - 1)
    BY <1>1 DEF SetsInv, Latest, Touches
  <2>1. CASE k \in 1 .. Len(q)
    <3>1. Latest(q, d, q[k].index, k, q[k].slot, q[k].version - 1)
      BY <1>1, <1>3, <1>q, <2>1 DEF SetsInv
    <3> QED BY <1>3, <1>5, <1>7, <2>1, <3>1
  <2>2. CASE k = Len(q) + 1
    <3>1. p[k] = cb /\ cb.version - 1 = version[s]
      BY <1>2, <1>3, <2>2
    <3> QED BY <1>6, <2>2, <3>1
  <2> QED BY <1>4, <2>1, <2>2
<1>9. UpdatesInv(w)'
  <2> SUFFICES ASSUME NEW k \in 1 .. Len(p), p[k].kind = "update",
                      p[k].slot \in alive' \/ (k = 1 /\ checked[w])
               PROVE  Latest(p, d, p[k].index, k, p[k].slot, p[k].version)
    BY <1>1 DEF UpdatesInv, Latest, Touches
  <2>1. CASE k \in 1 .. Len(q)
    <3>1. Latest(q, d, q[k].index, k, q[k].slot, q[k].version)
      BY <1>1, <1>3, <1>q, <2>1 DEF UpdatesInv
    <3> QED BY <1>3, <1>5, <1>7, <2>1, <3>1
  <2>2. CASE k = Len(q) + 1
    <3>1. p[k] = cb /\ cb.version = version[s]
      BY <1>2, <1>3, <2>2
    <3> QED BY <1>6, <2>2, <3>1
  <2> QED BY <1>4, <2>1, <2>2
<1>10. CurrentInv(w)'
  <2> SUFFICES ASSUME NEW r \in alive'
               PROVE  Latest(p, d, index[r], Len(p) + 1, r, version'[r])
    BY <1>1 DEF CurrentInv, Latest, Touches
  <2>1. Latest(q, d, index[r], Len(q) + 1, r, version[r]) /\ r \in alive /\ r \in Slots
    BY <1>1, <1>2, <1>q DEF CurrentInv
  <2>2. CASE r # s
    <3>1. ~Touches(cb, index[r]) /\ version'[r] = version[r]
      BY <1>2, <2>1, <2>2 DEF Touches, IndexInv
    <3>2. Latest(p, d, index[r], Len(p) + 1, r, version[r])
      BY <1>2, <2>1, <2>2, <3>1, LatestPostOther DEF p
    <3> QED BY <3>1, <3>2
  <2>3. CASE r = s /\ cb.kind = "set"
    <3>1. version'[s] = cb.version
      BY <1>2, <2>1, <2>3
    <3>2. Latest(p, d, index[s], Len(p) + 1, cb.slot, cb.version)
      BY <1>2, <2>3, LatestPostSet DEF p
    <3> QED BY <2>3, <3>1, <3>2
  <2>4. CASE r = s /\ cb.kind = "update"
    <3>1. ~Touches(cb, index[r]) /\ version'[r] = version[r]
      BY <2>4 DEF Touches
    <3>2. Latest(p, d, index[r], Len(p) + 1, r, version[r])
      BY <1>2, <2>1, <2>4, <3>1, LatestPostOther DEF p
    <3> QED BY <3>1, <3>2
  <2> QED BY <2>2, <2>3, <2>4
<1>11. FormerInv(w)'
  <2> SUFFICES ASSUME NEW r \in alive', NEW k \in 1 .. Len(p),
                      Touches(p[k], index[r]), p[k].slot # r
               PROVE  /\ index[r] <= Len(d) => d[index[r]].slot # r
                      /\ \A j \in 1 .. k - 1 : p[j].slot # r
    BY <1>1 DEF FormerInv, Touches
  <2>1. CASE k \in 1 .. Len(q)
    <3>1. p[k] = q[k] /\ r \in alive
      BY <1>1, <1>3, <2>1
    <3>2. \A j \in 1 .. k - 1 : p[j] = q[j]
      BY <1>2, <1>3, <2>1
    <3>3. /\ index[r] <= Len(d) => d[index[r]].slot # r
          /\ \A j \in 1 .. k - 1 : q[j].slot # r
      BY <1>q, <2>1, <3>1 DEF FormerInv
    <3> QED BY <3>2, <3>3
  <2>2. CASE k = Len(q) + 1
    <3>1. index[s] = index[r] /\ s # r /\ r \in alive
      BY <1>1, <1>3, <2>2 DEF Touches
    <3> QED BY <3>1 DEF IndexInv
  <2> QED BY <1>4, <2>1, <2>2
<1> QED BY <1>8, <1>9, <1>10, <1>11

\* A worker drops the callback of a dead slot, or runs its first callback.
LEMMA DeliveryPop ==
    ASSUME TypeOK, IndexInv, PostedInv, NEW w \in Workers,
           SetsInv(w), UpdatesInv(w), CurrentInv(w), FormerInv(w),
           queue[w] # <<>>, queue'[w] = Tail(queue[w]), ~checked'[w],
           UNCHANGED <<index, alive, version>>,
           \/ data'[w] = data[w] /\ queue[w][1].slot \notin alive
           \/ data'[w] = Run(queue[w][1], data[w])
    PROVE  SetsInv(w)' /\ UpdatesInv(w)' /\ CurrentInv(w)' /\ FormerInv(w)'
<1> DEFINE q == queue[w]
           p == Tail(q)
           d == data[w]
           e == data'[w]
           cb == q[1]
<1>1. /\ q \in Seq(CallbackType) /\ d \in Seq(ObjectType) /\ q # <<>>
      /\ alive \subseteq Slots /\ index \in [Slots -> Nat]
  BY DEF TypeOK, Threads
<1>2. /\ Len(q) \in Nat \ {0} /\ Len(p) = Len(q) - 1 /\ Len(p) \in Nat
      /\ \A k \in 1 .. Len(p) : k + 1 \in 1 .. Len(q) /\ p[k] = q[k + 1]
      /\ cb \in CallbackType /\ 1 \in 1 .. Len(q)
  BY <1>1, TailFacts
<1>3. ASSUME NEW k \in 1 .. Len(p) + 1, NEW s \in alive, NEW v,
             Latest(q, d, index[s], k + 1, s, v)
      PROVE  Latest(p, e, index[s], k, s, v)
  <2>1. s \in Slots /\ index[s] \in Nat \ {0} /\ (cb.slot = s => cb.index = index[s])
    BY <1>1, <1>2 DEF IndexInv, PostedInv
  <2>2. CASE data'[w] = data[w] /\ queue[w][1].slot \notin alive
    <3>1. Latest(p, d, index[s], k, s, v)
      BY <1>1, <1>3, <2>2, LatestDrop
    <3> QED BY <2>2, <3>1
  <2>3. CASE data'[w] = Run(queue[w][1], data[w])
    <3>1. Latest(p, Run(cb, d), index[s], k, s, v)
      BY <1>1, <1>3, <2>1, LatestRun
    <3> QED BY <2>3, <3>1
  <2> QED BY <2>2, <2>3
<1>4. \A k \in 1 .. Len(p) : k \in 1 .. Len(p) + 1
  BY <1>2
<1>q. /\ queue[w] = q /\ data[w] = d /\ queue'[w] = p /\ data'[w] = e
      /\ queue[w][1] = cb
  OBVIOUS
<1>5. \A k \in 1 .. Len(q) : q[k].index = index[q[k].slot]
  BY DEF PostedInv
<1> HIDE DEF p, q, d, e, cb
<1>6. SetsInv(w)'
  <2> SUFFICES ASSUME NEW k \in 1 .. Len(p), p[k].kind = "set", p[k].slot \in alive
               PROVE  Latest(p, e, p[k].index, k, p[k].slot, p[k].version - 1)
    BY <1>q DEF SetsInv, Latest, Touches
  <2>1. p[k] = q[k + 1] /\ k + 1 \in 1 .. Len(q)
    BY <1>2
  <2>2. Latest(q, d, p[k].index, k + 1, p[k].slot, p[k].version - 1)
    BY <1>q, <2>1 DEF SetsInv
  <2>3. p[k].index = index[p[k].slot]
    BY <1>5, <2>1
  <2> QED BY <1>3, <1>4, <2>2, <2>3
<1>7. UpdatesInv(w)'
  <2> SUFFICES ASSUME NEW k \in 1 .. Len(p), p[k].kind = "update", p[k].slot \in alive
               PROVE  Latest(p, e, p[k].index, k, p[k].slot, p[k].version)
    BY <1>q DEF UpdatesInv, Latest, Touches
  <2>1. p[k] = q[k + 1] /\ k + 1 \in 1 .. Len(q)
    BY <1>2
  <2>2. Latest(q, d, p[k].index, k + 1, p[k].slot, p[k].version)
    BY <1>q, <2>1 DEF UpdatesInv
  <2>3. p[k].index = index[p[k].slot]
    BY <1>5, <2>1
  <2> QED BY <1>3, <1>4, <2>2, <2>3
<1>8. CurrentInv(w)'
  <2> SUFFICES ASSUME NEW s \in alive
               PROVE  Latest(p, e, index[s], Len(p) + 1, s, version[s])
    BY <1>q DEF CurrentInv, Latest, Touches
  <2>1. Latest(q, d, index[s], Len(q) + 1, s, version[s])
    BY <1>q DEF CurrentInv
  <2>2. Len(q) + 1 = (Len(p) + 1) + 1 /\ Len(p) + 1 \in 1 .. Len(p) + 1
    BY <1>2
  <2> QED BY <1>3, <2>1, <2>2
<1>9. FormerInv(w)'
  <2> SUFFICES ASSUME NEW s \in alive, NEW k \in 1 .. Len(p),
                      Touches(p[k], index[s]), p[k].slot # s
               PROVE  /\ index[s] <= Len(e) => e[index[s]].slot # s
                      /\ \A j \in 1 .. k - 1 : p[j].slot # s
    <3>1. /\ queue'[w] = p /\ data'[w] = e /\ alive' = alive /\ index' = index
      BY <1>q
    <3> QED BY <3>1 DEF FormerInv, Touches
  <2>1. p[k] = q[k + 1] /\ k + 1 \in 1 .. Len(q)
    BY <1>2
  <2>2. /\ index[s] <= Len(d) => d[index[s]].slot # s
        /\ \A j \in 1 .. (k + 1) - 1 : q[j].slot # s
    BY <1>q, <2>1 DEF FormerInv
  <2>3. \A j \in 1 .. k - 1 : p[j].slot # s
    <3>1. \A j \in 1 .. k - 1 : j \in 1 .. Len(p) /\ j + 1 \in 1 .. (k + 1) - 1
      BY <1>2
    <3> QED BY <1>2, <2>2, <3>1
  <2>4. cb.slot # s
    <3>1. 1 \in 1 .. (k + 1) - 1
      BY <1>2
    <3> QED BY <2>2, <3>1 DEF cb
  <2>5. ASSUME index[s] <= Len(e) PROVE e[index[s]].slot # s
    <3>1. CASE e = d
      BY <2>2, <2>5, <3>1
    <3>2. CASE e = Run(cb, d)
      <4> DEFINE i == index[s]
      <4>1. i \in Nat \ {0} /\ s # Null
        BY <1>1, ThreadLocalAssumption DEF IndexInv
      <4>2. Ran(cb, d, e)
        BY <1>1, <1>2, <3>2, RunFacts
      <4>3. i \in 1 .. Len(e)
        BY <2>5, <4>1, <4>2 DEF Ran
      <4>4. Object(cb.slot, cb.version).slot = cb.slot /\ NoObject.slot = Null
        BY DEF Object, NoObject
      <4>5. i <= Len(d) => d[i].slot # s
        BY <2>2
      <4> HIDE DEF i
      <4>6. e[i].slot # s
        BY <2>4, <4>1, <4>2, <4>3, <4>4, <4>5 DEF Ran
      <4> QED BY <4>6 DEF i
    <3> QED BY <1>q, <3>1, <3>2
  <2> QED BY <2>3, <2>5
<1> QED BY <1>6, <1>7, <1>8, <1>9

\* Every step delivers to each worker what was posted to it, in order.
LEMMA NextDeliveryInv == IInv /\ [Next]_vars => DeliveryInv'
<1> SUFFICES ASSUME IInv, [Next]_vars, NEW w \in Workers \ exited'
             PROVE  SetsInv(w)' /\ UpdatesInv(w)' /\ CurrentInv(w)' /\ FormerInv(w)'
  BY DEF DeliveryInv
<1> USE DEF IInv
<1>1. w \in Workers /\ exited \subseteq exited'
  BY DEF Next, AllocateSlot, Set, RemoveSlot, RunOnAllThreads, RunCompletion,
         ShutdownGlobalThreading, StartCallback, RunCallback, ShutdownThread, vars, ending
<1>2. SetsInv(w) /\ UpdatesInv(w) /\ CurrentInv(w) /\ FormerInv(w)
  BY <1>1 DEF DeliveryInv
<1>3. TypeOK' /\ IndexInv'
  BY NextTypeOK, NextIndexInv
<1>4. ASSUME NEW s \in Slots, AllocateSlot(s)
      PROVE  SetsInv(w)' /\ UpdatesInv(w)' /\ CurrentInv(w)' /\ FormerInv(w)'
  BY <1>1, <1>2, <1>3, <1>4, DeliveryAllocate
<1>5. ASSUME NEW s \in Slots,
             \/ Set(s)
             \/ RemoveSlot(s) /\ ~shutdown
             \/ \E completion \in BOOLEAN : RunOnAllThreads(s, completion)
      PROVE  SetsInv(w)' /\ UpdatesInv(w)' /\ CurrentInv(w)' /\ FormerInv(w)'
  <2>1. s \in alive
    BY <1>5, PostSteps
  <2>2. PICK cb \in CallbackType :
                /\ Posts(cb) /\ cb.slot = s /\ cb.index = index[s]
                /\ \/ /\ cb.kind = "set" /\ cb.version = version[s] + 1
                      /\ version' = [version EXCEPT ![s] = @ + 1] /\ alive' = alive
                   \/ /\ cb.kind = "clear" /\ version' = version /\ alive' = alive \ {s}
                   \/ /\ cb.kind = "update" /\ cb.version = version[s] /\ version[s] > 0
                      /\ version' = version /\ alive' = alive
    BY <1>5, PostSteps
  <2> QED BY <1>1, <1>2, <2>1, <2>2, DeliveryPost
<1>6. ASSUME NEW u \in Workers, StartCallback(u) \/ RunCallback(u)
      PROVE  SetsInv(w)' /\ UpdatesInv(w)' /\ CurrentInv(w)' /\ FormerInv(w)'
  <2>1. /\ queue[u] # <<>>
        /\ UNCHANGED <<index, alive, version>>
        /\ \A t \in Threads : t # u => data'[t] = data[t]
        /\ \A v \in Workers : v # u => queue'[v] = queue[v] /\ checked'[v] = checked[v]
        /\ \/ /\ queue'[u] = queue[u] /\ data'[u] = data[u]
              /\ queue[u][1].slot \in alive
           \/ /\ queue'[u] = Tail(queue[u]) /\ data'[u] = data[u] /\ ~checked'[u]
              /\ queue[u][1].slot \notin alive
           \/ /\ queue'[u] = Tail(queue[u]) /\ data'[u] = Run(queue[u][1], data[u])
              /\ ~checked'[u]
    BY <1>6, WorkerSteps
  <2>2. CASE u # w
    <3>1. queue'[w] = queue[w] /\ data'[w] = data[w] /\ checked'[w] = checked[w]
      BY <1>1, <2>1, <2>2 DEF Threads
    <3> QED BY <1>1, <1>2, <2>1, <3>1, DeliveryKept
  <2>3. CASE u = w
    <3>1. CASE /\ queue'[w] = queue[w] /\ data'[w] = data[w]
               /\ queue[w][1].slot \in alive
      BY <1>1, <1>2, <2>1, <3>1, DeliveryKept
    <3>2. CASE /\ queue'[w] = Tail(queue[w]) /\ ~checked'[w]
               /\ \/ data'[w] = data[w] /\ queue[w][1].slot \notin alive
                  \/ data'[w] = Run(queue[w][1], data[w])
      BY <1>1, <1>2, <2>1, <2>3, <3>2, DeliveryPop
    <3> QED BY <2>1, <2>3, <3>1, <3>2
  <2> QED BY <2>2, <2>3
<1>7. ASSUME \/ \E s \in Slots : RemoveSlot(s) /\ shutdown
             \/ RunCompletion \/ ShutdownGlobalThreading \/ UNCHANGED vars
             \/ \E t \in Threads : ShutdownThread(t)
      PROVE  SetsInv(w)' /\ UpdatesInv(w)' /\ CurrentInv(w)' /\ FormerInv(w)'
  <2>1. /\ queue' = queue /\ checked' = checked /\ UNCHANGED <<index, version>>
        /\ alive' \subseteq alive
    BY <1>7 DEF RemoveSlot, RunCompletion, ShutdownGlobalThreading, ShutdownThread, vars,
                storage, calls, workers
  <2>2. data'[w] = data[w]
    <3>1. ASSUME NEW t \in Threads, ShutdownThread(t) PROVE data'[w] = data[w]
      <4>1. t \in exited' /\ data' = [data EXCEPT ![t] = <<>>]
        BY <3>1 DEF ShutdownThread
      <4> QED BY <4>1 DEF TypeOK
    <3> QED BY <1>7, <3>1 DEF RemoveSlot, RunCompletion, ShutdownGlobalThreading, vars
  <2> QED BY <1>1, <1>2, <2>1, <2>2, DeliveryKept
<1> QED BY <1>4, <1>5, <1>6, <1>7 DEF Next

-------------------------------------------------------------------------------
(* The theorems.                                                           *)

\* The inductive invariant holds in every state of every behaviour.
THEOREM Invariance == Spec => []IInv
<1>1. IInv /\ [Next]_vars => IInv'
  BY NextTypeOK, NextExitInv, NextIndexInv, NextDataInv, NextPostedInv, NextCheckedInv,
     NextDeliveryInv, NextDoneInv DEF IInv
<1> QED BY <1>1, InitIInv, PTL DEF Spec

\* Types of slots_, free_slot_indexes_, the threads' data and the queues.
THEOREM TypeCorrect == Spec => []TypeOK
<1>1. IInv => TypeOK
  BY DEF IInv
<1> QED BY <1>1, Invariance, PTL

LEMMA IndexOwnershipHolds == IInv => IndexOwnership
BY DEF IInv, IndexInv, IndexOwnership, Contains

LEMMA UpdateGetsItsObjectHolds == IInv => UpdateGetsItsObject
<1> SUFFICES ASSUME IInv, NEW w \in Workers, checked[w], Head(queue[w]).kind = "update"
             PROVE  LET cb == Head(queue[w])
                    IN  /\ cb.index <= Len(data[w])
                        /\ data[w][cb.index] = Object(cb.slot, cb.version)
  BY DEF UpdateGetsItsObject
<1> USE DEF IInv
<1>1. w \notin exited /\ queue[w] # <<>> /\ queue[w] \in Seq(CallbackType)
  BY DEF ExitInv, CheckedInv, TypeOK
<1>2. Head(queue[w]) = queue[w][1] /\ 1 \in 1 .. Len(queue[w]) /\ queue[w][1] \in CallbackType
  BY <1>1, TailFacts
<1> DEFINE q == queue[w]
           cb == q[1]
<1>3. Latest(q, data[w], cb.index, 1, cb.slot, cb.version)
  BY <1>1, <1>2 DEF DeliveryInv, UpdatesInv
<1>4. cb.version > 0 /\ cb.version \in Nat
  BY <1>2 DEF PostedInv, CallbackType
<1> HIDE DEF q
<1>5. \A j \in 1 .. 1 - 1 : FALSE
  OBVIOUS
<1>6. cb.index <= Len(data[w]) /\ data[w][cb.index] = Object(cb.slot, cb.version)
  BY <1>3, <1>4, <1>5 DEF Latest
<1> QED BY <1>2, <1>6 DEF q

\* Recycling indexes is safe, for any number of slots and workers: an index has
\* one owner, and an update that runs finds the object its slot had when
\* runOnAllThreads was called, though the index has changed hands or the slot
\* is destroyed between the check of its guard and the call.
THEOREM RecyclingIsSafe == Spec => []SlotDataOwned
<1>1. IInv => SlotDataOwned
  BY IndexOwnershipHolds, UpdateGetsItsObjectHolds DEF SlotDataOwned
<1> QED BY <1>1, Invariance, PTL

\* A completion callback of runOnAllThreads is posted once, after every worker
\* has run or dropped its update.
THEOREM CompletionComesLast == Spec => []CompletionIsLast
<1>1. IInv => CompletionIsLast
  BY DEF IInv, DoneInv
<1> QED BY <1>1, Invariance, PTL

\* Nothing is posted to a worker that has left its loop.
THEOREM ExitedWorkersAreLeftAlone == Spec => NoPostAfterExit
<1>1. ASSUME IInv, [Next]_vars, NEW w \in exited \cap Workers
      PROVE  queue'[w] = queue[w]
  <2>1. shutdown /\ TypeOK
    BY <1>1 DEF IInv, ExitInv
  <2>2. ASSUME NEW u \in Workers, StartCallback(u) \/ RunCallback(u) PROVE queue'[w] = queue[w]
    <3>1. u \notin exited /\ \A v \in Workers : v # u => queue'[v] = queue[v]
      BY <2>1, <2>2, WorkerSteps
    <3> QED BY <1>1, <3>1
  <2>3. ASSUME ~ \E u \in Workers : StartCallback(u) \/ RunCallback(u)
        PROVE  queue' = queue
    BY <1>1, <2>1, <2>3 DEF Next, AllocateSlot, Set, RemoveSlot, RunOnAllThreads,
            RunCompletion, ShutdownGlobalThreading, ShutdownThread, vars, workers
  <2> QED BY <2>2, <2>3
<1>2. IInv /\ [Next]_vars => \A w \in exited \cap Workers : queue'[w] = queue[w]
  BY <1>1
<1> QED BY <1>2, Invariance, PTL DEF Spec, NoPostAfterExit

-------------------------------------------------------------------------------
(* Refinement of SlotStore.                                                *)

\* The mapped variable view of SlotStore.
ViewMap == [t \in Threads |-> [s \in Slots |-> View(t, s)]]

\* What View says of a slot that is alive, with its vector at hand.
LEMMA ViewOfLive ==
    ASSUME NEW t, NEW s \in alive, NEW d, d = data[t], NEW i, i = index[s]
    PROVE  View(t, s) = IF i <= Len(d) /\ d[i].slot = s THEN d[i].version ELSE 0
BY DEF View, CurrentThreadRegistered

\* A thread whose data, and a slot whose index stay, keeps its view.
LEMMA ViewKept ==
    ASSUME NEW t, NEW s, data'[t] = data[t], index'[s] = index[s], s \in alive' <=> s \in alive
    PROVE  View(t, s)' = View(t, s)
BY DEF View, CurrentThreadRegistered

\* When every thread keeps its view of every slot, the map is the same.
LEMMA ViewMapKept ==
    ASSUME \A t \in Threads, s \in Slots : View(t, s)' = View(t, s)
    PROVE  ViewMap' = ViewMap
BY DEF ViewMap

\* Storing for s, running a callback of s or clearing its index keeps the view
\* of a live slot with another index.
LEMMA OtherIndexKept ==
    ASSUME NEW r \in Slots, NEW i \in Nat \ {0}, NEW d \in Seq(ObjectType),
           NEW e \in Seq(ObjectType),
           Len(d) <= Len(e),
           i <= Len(e) => IF i <= Len(d) THEN e[i] = d[i] ELSE e[i] = NoObject
    PROVE  (IF i <= Len(e) /\ e[i].slot = r THEN e[i].version ELSE 0)
             = (IF i <= Len(d) /\ d[i].slot = r THEN d[i].version ELSE 0)
<1>1. Len(d) \in Nat /\ Len(e) \in Nat /\ r # Null /\ NoObject.slot = Null
  BY ThreadLocalAssumption, NoObjectType
<1> QED BY <1>1

LEMMA AllocateRefines ==
    ASSUME IInv, NEW s \in Slots, AllocateSlot(s), IndexInv', TypeOK'
    PROVE  Store!Create(s)
<1> USE DEF IInv
<1>1. /\ index[s] = 0 /\ version[s] = 0 /\ s \notin alive /\ alive' = alive \cup {s}
      /\ UNCHANGED <<data, version, exited>>
      /\ \A r \in Slots : r # s => index'[r] = index[r]
  BY DEF AllocateSlot, Owns, calls, ending, IndexInv, TypeOK
<1>2. ASSUME NEW t \in Threads, NEW r \in Slots PROVE View(t, r)' = View(t, r)
  <2>1. CASE r # s
    BY <1>1, <2>1, ViewKept
  <2>2. CASE r = s
    <3>1. View(t, s) = 0
      BY <1>1 DEF View
    <3>2. index'[s] \in Nat \ {0} /\ s # Null /\ Len(data[t]) \in Nat
      BY <1>1, ThreadLocalAssumption DEF IndexInv, TypeOK
    <3>3. \A i \in 1 .. Len(data[t]) : data[t][i].slot # s
      BY <1>1, <3>2 DEF DataInv
    <3>4. ~ (index'[s] <= Len(data'[t]) /\ data'[t][index'[s]].slot = s)
      BY <1>1, <3>2, <3>3
    <3>5. View(t, s)' = 0
      BY <3>4 DEF View, CurrentThreadRegistered
    <3> QED BY <2>2, <3>1, <3>5
  <2> QED BY <2>1, <2>2
<1>3. ViewMap' = ViewMap
  BY <1>2, ViewMapKept
<1> QED BY <1>1, <1>3 DEF Store!Create, ViewMap

LEMMA SetRefines ==
    ASSUME IInv, NEW s \in Slots, Set(s)
    PROVE  Store!Set(s)
<1> USE DEF IInv
<1> DEFINE d == data[Main]
           v == version[s] + 1
           o == Object(s, v)
           e == SetThreadLocal(d, index[s], o)
<1>t. /\ version \in [Slots -> Nat] /\ index \in [Slots -> Nat]
      /\ data \in [Threads -> Seq(ObjectType)] /\ Main \in Threads /\ alive \subseteq Slots
  BY DEF TypeOK, Threads
<1>1. /\ s \in alive /\ version' = [version EXCEPT ![s] = @ + 1] /\ version'[s] = v
      /\ data' = [data EXCEPT ![Main] = e]
      /\ UNCHANGED <<index, alive, exited>>
  <2>1. version'[s] = v
    BY <1>t DEF Set
  <2> QED BY <2>1 DEF Set, storage, ending
<1>2. /\ index[s] \in Nat \ {0} /\ d \in Seq(ObjectType) /\ o \in ObjectType
      /\ o.slot = s /\ o.version = v
  <2>1. index[s] \in Nat \ {0}
    BY <1>t, <1>1 DEF IndexInv
  <2>2. d \in Seq(ObjectType) /\ v \in Nat
    BY <1>t
  <2> HIDE DEF v, d
  <2>3. o \in ObjectType /\ o.slot = s /\ o.version = v
    BY <2>2 DEF Object, ObjectType
  <2> QED BY <2>1, <2>2, <2>3
<1>3. Stored(d, index[s], o, e) /\ e \in Seq(ObjectType)
  <2> HIDE DEF o, d
  <2>1. Stored(d, index[s], o, e)
    BY <1>2, SetThreadLocalFacts
  <2> QED BY <2>1 DEF Stored
<1>4. data'[Main] = e /\ \A t \in Threads : t # Main => data'[t] = data[t]
  BY <1>t, <1>1
<1>d. d = data[Main]
  OBVIOUS
<1> HIDE DEF d, o, e, v
<1>5. ASSUME NEW t \in Threads, NEW r \in Slots
      PROVE  View(t, r)' = IF t = Main /\ r = s THEN version'[s] ELSE View(t, r)
  <2>1. CASE t # Main
    BY <1>1, <1>4, <2>1, ViewKept
  <2>2. CASE t = Main /\ r = s
    <3>1. index[s] <= Len(e) /\ e[index[s]] = o
      BY <1>3 DEF Stored
    <3>2. View(Main, s)' = v
      BY <1>1, <1>2, <1>4, <3>1 DEF View, CurrentThreadRegistered
    <3> QED BY <1>1, <2>2, <3>2
  <2>3. CASE t = Main /\ r # s /\ r \in alive
    <3>1. index[r] # index[s] /\ index[r] \in Nat \ {0}
      BY <1>t, <1>1, <2>3 DEF IndexInv
    <3>2. /\ Len(d) <= Len(e)
          /\ index[r] <= Len(e) => IF index[r] <= Len(d) THEN e[index[r]] = d[index[r]]
                                                         ELSE e[index[r]] = NoObject
      <4>1. Len(e) \in Nat
        BY <1>3
      <4> QED BY <1>3, <3>1, <4>1 DEF Stored
    <3>3. (IF index[r] <= Len(e) /\ e[index[r]].slot = r THEN e[index[r]].version ELSE 0)
             = (IF index[r] <= Len(d) /\ d[index[r]].slot = r THEN d[index[r]].version ELSE 0)
      BY <1>2, <1>3, <3>1, <3>2, OtherIndexKept
    <3>4. View(Main, r) = (IF index[r] <= Len(d) /\ d[index[r]].slot = r
                           THEN d[index[r]].version ELSE 0)
      BY <1>d, <2>3 DEF View, CurrentThreadRegistered
    <3>5. View(Main, r)' = (IF index[r] <= Len(e) /\ e[index[r]].slot = r
                            THEN e[index[r]].version ELSE 0)
      BY <1>1, <1>4, <2>3 DEF View, CurrentThreadRegistered
    <3> QED BY <2>3, <3>3, <3>4, <3>5
  <2>4. CASE t = Main /\ r # s /\ r \notin alive
    BY <1>1, <2>4 DEF View
  <2> QED BY <2>1, <2>2, <2>3, <2>4
<1>6. ViewMap' = [ViewMap EXCEPT ![Main][s] = version'[s]]
  BY <1>t, <1>5 DEF ViewMap
<1> QED BY <1>1, <1>6 DEF Store!Set, ViewMap

LEMMA RemoveRefines ==
    ASSUME IInv, NEW s \in Slots, RemoveSlot(s)
    PROVE  Store!Destroy(s)
<1> USE DEF IInv
<1> DEFINE d == data[Main]
           e == Clear(d, index[s])
<1>t. /\ index \in [Slots -> Nat] /\ alive \subseteq Slots
      /\ data \in [Threads -> Seq(ObjectType)] /\ Main \in Threads
  BY DEF TypeOK, Threads
<1>1. /\ s \in alive /\ alive' = alive \ {s}
      /\ UNCHANGED <<index, version, exited>>
      /\ data' = data \/ data' = [data EXCEPT ![Main] = e]
  BY DEF RemoveSlot, ending
<1>2. index[s] \in Nat \ {0} /\ d \in Seq(ObjectType)
  BY <1>t, <1>1 DEF IndexInv
<1>3. /\ e \in Seq(ObjectType) /\ Len(d) \in Nat /\ Len(e) = Len(d)
      /\ \A j \in 1 .. Len(e) : j # index[s] => e[j] = d[j]
  BY <1>2, ClearFacts
<1>4. \A t \in Threads : data'[t] = data[t] \/ (t = Main /\ data'[t] = e)
  BY <1>t, <1>1
<1>d. d = data[Main]
  OBVIOUS
<1> HIDE DEF d, e
<1>5. ASSUME NEW t \in Threads, NEW r \in Slots
      PROVE  View(t, r)' = IF r = s THEN 0 ELSE View(t, r)
  <2>1. CASE r \notin alive'
    BY <1>1, <2>1 DEF View
  <2>2. CASE r \in alive' /\ data'[t] = data[t]
    BY <1>1, <2>2, ViewKept
  <2>3. CASE r \in alive' /\ t = Main /\ data'[t] = e
    <3>1. r # s /\ r \in alive /\ index[r] # index[s] /\ index[r] \in Nat \ {0}
      BY <1>t, <1>1, <2>3 DEF IndexInv
    <3>2. index[r] <= Len(e) => e[index[r]] = d[index[r]]
      BY <1>3, <3>1
    <3>3. View(Main, r) = (IF index[r] <= Len(d) /\ d[index[r]].slot = r
                           THEN d[index[r]].version ELSE 0)
      BY <1>d, <3>1 DEF View, CurrentThreadRegistered
    <3>4. View(Main, r)' = (IF index[r] <= Len(e) /\ e[index[r]].slot = r
                            THEN e[index[r]].version ELSE 0)
      BY <1>1, <2>3 DEF View, CurrentThreadRegistered
    <3> QED BY <1>3, <2>3, <3>1, <3>2, <3>3, <3>4
  <2> QED BY <1>4, <2>1, <2>2, <2>3
<1>6. ViewMap' = [t \in Threads |-> [ViewMap[t] EXCEPT ![s] = 0]]
  BY <1>5 DEF ViewMap
<1> QED BY <1>1, <1>6 DEF Store!Destroy, ViewMap

\* A worker's step delivers the next object of a live slot, or nothing.
LEMMA WorkerRefines ==
    ASSUME IInv, NEW w \in Workers, StartCallback(w) \/ RunCallback(w)
    PROVE  UNCHANGED Store!vars \/ \E s \in Slots : Store!Deliver(w, s)
<1> USE DEF IInv
<1> DEFINE q == queue[w]
           cb == q[1]
           d == data[w]
           e == data'[w]
<1>1. /\ w \notin exited /\ q # <<>> /\ cb \in CallbackType /\ d \in Seq(ObjectType)
      /\ UNCHANGED <<index, alive, version, exited>>
      /\ \A t \in Threads : t # w => data'[t] = data[t]
      /\ e = d \/ e = Run(cb, d)
  BY WorkerSteps
<1>2. /\ w \in Threads /\ index \in [Slots -> Nat] /\ alive \subseteq Slots
      /\ version \in [Slots -> Nat] /\ q \in Seq(CallbackType)
  BY DEF TypeOK, Threads
<1>3. 1 \in 1 .. Len(q)
  BY <1>1, <1>2, TailFacts
<1>4. /\ cb.index = index[cb.slot] /\ cb.slot \in Slots /\ cb.version \in Nat
      /\ cb.kind = "clear" => cb.slot \notin alive
      /\ cb.kind # "clear" => cb.version > 0 /\ cb.version <= version[cb.slot]
  BY <1>1, <1>3 DEF PostedInv, CallbackType
<1>5. SetsInv(w) /\ FormerInv(w)
  BY <1>1 DEF DeliveryInv
<1>6. \A t \in Threads, r \in Slots : t # w => View(t, r)' = View(t, r)
  BY <1>1, ViewKept
<1>7. \A r \in Slots : r \notin alive => View(w, r)' = View(w, r)
  BY <1>1 DEF View
<1>s. ASSUME \A r \in alive : View(w, r)' = View(w, r) PROVE UNCHANGED Store!vars
  <2>1. \A t \in Threads, r \in Slots : View(t, r)' = View(t, r)
    BY <1>6, <1>7, <1>s
  <2>2. ViewMap' = ViewMap
    BY <2>1, ViewMapKept
  <2> QED BY <1>1, <2>2 DEF Store!vars, ViewMap
<1>8. CASE e = d
  <2>1. \A r \in alive : View(w, r)' = View(w, r)
    BY <1>1, <1>2, <1>8, ViewKept
  <2> QED BY <1>s, <2>1
<1>9. CASE e = Run(cb, d)
  <2>1. Ran(cb, d, e) /\ e \in Seq(ObjectType) /\ Len(e) \in Nat /\ Len(d) \in Nat
    BY <1>1, <1>9, RunFacts DEF Ran
  <2>q. /\ queue[w] = q /\ data[w] = d /\ data'[w] = e /\ q[1] = cb
    OBVIOUS
  <2> HIDE DEF q, cb, d, e
  <2>2. ASSUME NEW r \in alive
        PROVE  /\ View(w, r) = IF index[r] <= Len(d) /\ d[index[r]].slot = r
                               THEN d[index[r]].version ELSE 0
               /\ View(w, r)' = IF index[r] <= Len(e) /\ e[index[r]].slot = r
                                THEN e[index[r]].version ELSE 0
    BY <1>1, <2>q DEF View, CurrentThreadRegistered
  <2>i. \A r \in alive : index[r] \in Nat \ {0} /\ r \in Slots /\ r # Null
    BY <1>2, ThreadLocalAssumption DEF IndexInv
  <2>3. ASSUME NEW r \in alive, ~Touches(cb, index[r]) PROVE View(w, r)' = View(w, r)
    <3>1. /\ Len(d) <= Len(e)
          /\ index[r] <= Len(e) => IF index[r] <= Len(d) THEN e[index[r]] = d[index[r]]
                                                         ELSE e[index[r]] = NoObject
      BY <2>1, <2>3, <2>i DEF Ran
    <3>2. (IF index[r] <= Len(e) /\ e[index[r]].slot = r THEN e[index[r]].version ELSE 0)
             = (IF index[r] <= Len(d) /\ d[index[r]].slot = r THEN d[index[r]].version ELSE 0)
      BY <1>1, <2>1, <2>i, <3>1, OtherIndexKept
    <3> QED BY <2>2, <3>2
  <2>o. Object(cb.slot, cb.version).slot = cb.slot /\ NoObject.slot = Null
        /\ Object(cb.slot, cb.version).version = cb.version
    BY DEF Object, NoObject
  <2>4. ASSUME NEW r \in alive, Touches(cb, index[r]), cb.slot # r
        PROVE  View(w, r)' = View(w, r)
    <3>1. index[r] <= Len(d) => d[index[r]].slot # r
      BY <1>3, <1>5, <2>4, <2>q DEF FormerInv
    <3>2. index[r] <= Len(e) => e[index[r]].slot # r
      <4> SUFFICES ASSUME index[r] <= Len(e) PROVE e[index[r]].slot # r
        OBVIOUS
      <4>1. index[r] \in 1 .. Len(e)
        BY <2>1, <2>i
      <4> QED BY <2>1, <2>4, <2>i, <2>o, <4>1 DEF Ran
    <3> QED BY <2>2, <3>1, <3>2
  <2>5. CASE ~ (cb.kind = "set" /\ cb.slot \in alive)
    <3>1. ASSUME NEW r \in alive, Touches(cb, index[r]) PROVE cb.slot # r
      BY <1>4, <2>5, <3>1 DEF Touches
    <3>2. \A r \in alive : View(w, r)' = View(w, r)
      BY <2>3, <2>4, <3>1
    <3> QED BY <1>s, <3>2
  <2>6. ASSUME NEW s \in alive, cb.kind = "set", cb.slot = s
        PROVE  \E r \in Slots : Store!Deliver(w, r)
    <3> DEFINE i == index[s]
    <3>1. Latest(q, d, i, 1, s, cb.version - 1)
      BY <1>3, <1>4, <1>5, <2>6, <2>q DEF SetsInv
    <3>2. \A j \in 1 .. 1 - 1 : FALSE
      OBVIOUS
    <3>3. Object(s, cb.version - 1).slot = s /\ Object(s, cb.version - 1).version = cb.version - 1
      BY DEF Object
    <3>4. View(w, s) = cb.version - 1
      BY <2>2, <2>6, <3>1, <3>2, <3>3 DEF Latest
    <3>5. i \in 1 .. Len(e) /\ e[i] = Object(s, cb.version)
      <4>1. Touches(cb, i)
        BY <1>4, <2>6 DEF Touches
      <4>2. i <= Len(e)
        BY <1>4, <2>1, <2>6 DEF Ran
      <4>3. i \in 1 .. Len(e)
        BY <2>1, <2>6, <2>i, <4>2
      <4> QED BY <2>1, <2>6, <4>1, <4>3 DEF Ran
    <3>6. View(w, s)' = cb.version
      <4>1. i <= Len(e) /\ e[i].slot = s /\ e[i].version = cb.version
        BY <2>1, <2>6, <2>o, <3>5
      <4>2. View(w, s)' = IF i <= Len(e) /\ e[i].slot = s THEN e[i].version ELSE 0
        BY <2>2, <2>6
      <4> QED BY <4>1, <4>2
    <3>7. View(w, s) < version[s] /\ View(w, s)' = View(w, s) + 1
      BY <1>2, <1>4, <2>6, <3>4, <3>6
    <3>8. \A r \in alive : r # s => View(w, r)' = View(w, r)
      <4>1. ASSUME NEW r \in alive, r # s PROVE View(w, r)' = View(w, r)
        <5>1. CASE Touches(cb, index[r])
          BY <2>4, <2>6, <4>1, <5>1
        <5>2. CASE ~Touches(cb, index[r])
          BY <2>3, <5>2
        <5> QED BY <5>1, <5>2
      <4> QED BY <4>1
    <3>9. \A t \in Threads, r \in Slots :
              View(t, r)' = IF t = w /\ r = s THEN View(w, s) + 1 ELSE View(t, r)
      BY <1>6, <1>7, <3>7, <3>8
    <3>10. s \in alive /\ s \in Slots
      BY <1>2, <2>6
    <3>11. ViewMap[w][s] = View(w, s)
      BY <1>2, <3>10 DEF ViewMap
    <3>12. ViewMap' = [ViewMap EXCEPT ![w][s] = @ + 1]
      BY <1>2, <3>9, <3>10 DEF ViewMap
    <3>13. ViewMap[w][s] < version[s]
      BY <3>7, <3>11
    <3>14. Store!Deliver(w, s)
      BY <1>1, <3>10, <3>12, <3>13 DEF Store!Deliver, ViewMap
    <3> QED BY <3>10, <3>14
  <2> QED BY <2>5, <2>6
<1> QED BY <1>1, <1>8, <1>9

LEMMA ExitRefines ==
    ASSUME IInv, NEW t \in Threads, ShutdownThread(t)
    PROVE  Store!Exit(t)
<1> USE DEF IInv
<1>1. /\ data' = [data EXCEPT ![t] = <<>>] /\ exited' = exited \cup {t}
      /\ UNCHANGED <<index, alive, version>>
  BY DEF ShutdownThread, storage, calls
<1>2. /\ data'[t] = <<>> /\ Len(<<>>) = 0
      /\ \A u \in Threads : u # t => data'[u] = data[u]
      /\ \A s \in alive : index[s] \in Nat \ {0}
  BY <1>1 DEF TypeOK, IndexInv
<1>3. \A s \in Slots : View(t, s)' = 0
  BY <1>1, <1>2 DEF View, CurrentThreadRegistered
<1>4. \A u \in Threads, s \in Slots : u # t => View(u, s)' = View(u, s)
  BY <1>1, <1>2, ViewKept
<1>5. ViewMap' = [ViewMap EXCEPT ![t] = [s \in Slots |-> 0]]
  BY <1>3, <1>4 DEF ViewMap
<1> QED BY <1>1, <1>5 DEF Store!Exit, ViewMap

\* The slots implement SlotStore: for any number of slots, workers and calls,
\* every thread sees the objects of a slot one after the other, in the order of
\* the calls of set(), and never another slot's object.
THEOREM Refinement == Spec => ImplementsSlotStore
<1>1. Init => Store!Init
  <2> SUFFICES ASSUME Init PROVE Store!Init
    OBVIOUS
  <2>1. \A t \in Threads, s \in Slots : View(t, s) = 0
    BY DEF Init, View
  <2>2. ViewMap = [t \in Threads |-> [s \in Slots |-> 0]]
    BY <2>1 DEF ViewMap
  <2> QED BY <2>2 DEF Init, Store!Init, ViewMap
<1>2. ASSUME IInv, [Next]_vars PROVE [Store!Next]_(Store!vars)
  <2>1. ASSUME NEW s \in Slots, AllocateSlot(s) PROVE Store!Next
    <3>1. IndexInv' /\ TypeOK'
      BY <1>2, NextIndexInv, NextTypeOK
    <3> QED BY <1>2, <2>1, <3>1, AllocateRefines DEF Store!Next
  <2>2. ASSUME NEW s \in Slots, Set(s) PROVE Store!Next
    BY <1>2, <2>2, SetRefines DEF Store!Next
  <2>3. ASSUME NEW s \in Slots, RemoveSlot(s) PROVE Store!Next
    BY <1>2, <2>3, RemoveRefines DEF Store!Next
  <2>4. ASSUME NEW w \in Workers, StartCallback(w) \/ RunCallback(w)
        PROVE  [Store!Next]_(Store!vars)
    <3>1. w \in Threads \ {Main}
      BY ThreadLocalAssumption DEF Threads
    <3> QED BY <1>2, <2>4, <3>1, WorkerRefines DEF Store!Next
  <2>5. ASSUME NEW t \in Threads, ShutdownThread(t) PROVE Store!Next
    BY <1>2, <2>5, ExitRefines DEF Store!Next
  <2>6. ASSUME \/ \E s \in Slots, completion \in BOOLEAN : RunOnAllThreads(s, completion)
               \/ RunCompletion \/ ShutdownGlobalThreading \/ UNCHANGED vars
        PROVE  UNCHANGED Store!vars
    <3>1. UNCHANGED <<data, index, alive, version, exited>>
      BY <2>6 DEF RunOnAllThreads, RunCompletion, ShutdownGlobalThreading, vars, storage,
                  calls, ending
    <3>2. \A t \in Threads, s \in Slots : View(t, s)' = View(t, s)
      BY <3>1, ViewKept
    <3>3. ViewMap' = ViewMap
      BY <3>2, ViewMapKept
    <3> QED BY <3>1, <3>3 DEF Store!vars, ViewMap
  <2> QED BY <1>2, <2>1, <2>2, <2>3, <2>4, <2>5, <2>6 DEF Next
<1>3. IInv /\ [Next]_vars => [Store!Next]_(Store!vars)
  BY <1>2
<1> QED BY <1>1, <1>3, Invariance, PTL DEF Spec, ImplementsSlotStore, Store!Spec

===============================================================================
