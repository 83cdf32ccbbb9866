----------------------------- MODULE ThreadLocal -----------------------------
(***************************************************************************)
(* Thread local slots (envoy/source/common/thread_local).  The main thread *)
(* allocates, sets, updates and destroys slots; the workers learn of it    *)
(* through callbacks posted to their dispatchers, which run in the order   *)
(* they were posted in.  An index is recycled as soon as its slot is       *)
(* destroyed, while callbacks of the old owner may still be queued.        *)
(*                                                                         *)
(* A main thread operation is one step: what it posts to one worker does   *)
(* not depend on what another worker has already run.  A worker takes two  *)
(* steps per guarded callback, as the slot may be destroyed between the    *)
(* check of still_alive_guard and the call.                                *)
(***************************************************************************)
EXTENDS Integers, Sequences, SequencesExt

CONSTANTS
    Workers,        \* registered_threads_
    Main,           \* the main thread
    Slots,          \* slot objects, each allocated at most once
    MaxSets,        \* bound: calls of set()
    MaxUpdates,     \* bound: calls of runOnAllThreads()
    Null

ASSUME ThreadLocalAssumption ==
    /\ Main \notin Workers
    /\ Null \notin Slots
    /\ MaxSets \in Nat
    /\ MaxUpdates \in Nat

Threads == Workers \cup {Main}

VARIABLES
    slots,      \* slots_: the owner of an index, or Null; indexes from 1
    free,       \* free_slot_indexes_
    index,      \* index_ of a slot, 0 before it is allocated
    alive,      \* the slots whose still_alive_guard_ has not expired
    version,    \* how often set() was called on a slot
    sets,       \* how often set() was called
    updates,    \* how often runOnAllThreads() was called
    data,       \* thread_local_data_.data_ of a thread
    queue,      \* post_callbacks_ of a worker's dispatcher
    checked,    \* the worker has found the guard of its first callback alive
    mainQueue,  \* completion callbacks posted to the main thread
    completed,  \* completion callbacks that have run
    shutdown,   \* shutdown_
    exited      \* threads that have run shutdownThread

storage == <<slots, free, index, alive>>
calls == <<version, sets, updates>>
workers == <<queue, checked, mainQueue>>
ending == <<shutdown, exited>>
vars == <<storage, calls, data, workers, completed, ending>>

Object(s, v) == [slot |-> s, version |-> v]
NoObject == Object(Null, 0)

\* A posted callback: set stores an object, update is called with the object,
\* clear is posted by removeSlot.  done names the completion callback whose
\* guard it holds, or 0.
Callback(kind, s, done) ==
    [kind |-> kind, slot |-> s, index |-> index[s], version |-> version'[s], done |-> done]

Init ==
    /\ slots = <<>>
    /\ free = <<>>
    /\ index = [s \in Slots |-> 0]
    /\ alive = {}
    /\ version = [s \in Slots |-> 0]
    /\ sets = 0
    /\ updates = 0
    /\ data = [t \in Threads |-> <<>>]
    /\ queue = [w \in Workers |-> <<>>]
    /\ checked = [w \in Workers |-> FALSE]
    /\ mainQueue = <<>>
    /\ completed = {}
    /\ shutdown = FALSE
    /\ exited = {}

-------------------------------------------------------------------------------
(* The main thread.                                                        *)

\* Mutant of PostAll: a dispatcher that runs the newest callback first.
PostAllFirst(cb) == queue' = [w \in Workers |-> <<cb>> \o queue[w]]

PostAll(cb) == queue' = [w \in Workers |-> Append(queue[w], cb)]

\* Mutant of SetThreadLocal: the vector is resized even when it is longer.
SetThreadLocalResizes(d, i, object) ==
    [j \in 1 .. i |-> IF j = i THEN object ELSE IF j <= Len(d) THEN d[j] ELSE NoObject]

\* setThreadLocal: the vector grows as needed.
SetThreadLocal(d, i, object) ==
    [j \in 1 .. (IF i > Len(d) THEN i ELSE Len(d)) |->
        IF j = i THEN object ELSE IF j <= Len(d) THEN d[j] ELSE NoObject]

\* The callback of removeSlot.
Clear(d, i) == IF i <= Len(d) THEN [d EXCEPT ![i] = NoObject] ELSE d

Owns(s, i) == index' = [index EXCEPT ![s] = i]

\* Mutant of AllocateSlot: the recycled index stays in the free list.
AllocateSlotKeepsFree(s) ==
    /\ ~shutdown /\ index[s] = 0
    /\ IF free = <<>>
       THEN slots' = Append(slots, s) /\ Owns(s, Len(slots) + 1)
       ELSE slots' = [slots EXCEPT ![Head(free)] = s] /\ Owns(s, Head(free))
    /\ alive' = alive \cup {s}
    /\ UNCHANGED <<free, calls, data, workers, completed, ending>>

AllocateSlot(s) ==
    /\ ~shutdown /\ index[s] = 0
    /\ IF free = <<>>
       THEN /\ slots' = Append(slots, s)
            /\ Owns(s, Len(slots) + 1)
            /\ UNCHANGED free
       ELSE /\ slots' = [slots EXCEPT ![Head(free)] = s]
            /\ Owns(s, Head(free))
            /\ free' = Tail(free)
    /\ alive' = alive \cup {s}
    /\ UNCHANGED <<calls, data, workers, completed, ending>>

Set(s) ==
    /\ ~shutdown /\ s \in alive /\ sets < MaxSets
    /\ sets' = sets + 1
    /\ version' = [version EXCEPT ![s] = @ + 1]
    /\ PostAll(Callback("set", s, 0))
    /\ data' = [data EXCEPT ![Main] = SetThreadLocal(@, index[s], Object(s, version'[s]))]
    /\ UNCHANGED <<storage, updates, checked, mainQueue, completed, ending>>

\* The guard of a completion callback is gone when no worker holds a callback
\* with a reference to it; its deleter posts the completion callback.
Held(done, q) == \E w \in Workers : \E k \in 1 .. Len(q[w]) : q[w][k].done = done

\* Mutant of Released: the callback's own reference is still counted.
ReleasedNever(done) ==
    mainQueue' = IF done # 0 /\ ~Held(done, queue) /\ ~Held(done, queue')
                 THEN Append(mainQueue, done) ELSE mainQueue

Released(done) ==
    mainQueue' = IF done # 0 /\ ~Held(done, queue') THEN Append(mainQueue, done) ELSE mainQueue

\* runOnAllThreads of a slot, with or without a completion callback; the update
\* itself is the caller's and leaves the slots alone.
RunOnAllThreads(s, completion) ==
    /\ ~shutdown /\ s \in alive /\ version[s] > 0 /\ updates < MaxUpdates
    /\ updates' = updates + 1
    /\ UNCHANGED <<version, sets>>
    /\ LET done == IF completion THEN updates' ELSE 0
       IN  PostAll(Callback("update", s, done)) /\ Released(done)
    /\ UNCHANGED <<storage, data, checked, completed, ending>>

\* Mutant of RemoveSlot: the workers are not told.
RemoveSlotSilently(s) ==
    /\ s \in alive /\ alive' = alive \ {s} /\ UNCHANGED version
    /\ IF shutdown
       THEN UNCHANGED <<slots, free, data, queue>>
       ELSE /\ slots' = [slots EXCEPT ![index[s]] = Null]
            /\ free' = Append(free, index[s])
            /\ data' = [data EXCEPT ![Main] = Clear(@, index[s])]
            /\ UNCHANGED queue
    /\ UNCHANGED <<index, sets, updates, checked, mainQueue, completed, ending>>

\* Mutant of RemoveSlot: shutdown_ is not looked at.
RemoveSlotAlways(s) ==
    /\ s \in alive /\ alive' = alive \ {s} /\ UNCHANGED version
    /\ slots' = [slots EXCEPT ![index[s]] = Null]
    /\ free' = Append(free, index[s])
    /\ PostAll(Callback("clear", s, 0))
    /\ data' = [data EXCEPT ![Main] = Clear(@, index[s])]
    /\ UNCHANGED <<index, sets, updates, checked, mainQueue, completed, ending>>

\* The destructor of a slot.
RemoveSlot(s) ==
    /\ s \in alive /\ alive' = alive \ {s} /\ UNCHANGED version
    /\ IF shutdown
       THEN UNCHANGED <<slots, free, data, queue>>
       ELSE /\ slots' = [slots EXCEPT ![index[s]] = Null]
            /\ free' = Append(free, index[s])
            /\ PostAll(Callback("clear", s, 0))
            /\ data' = [data EXCEPT ![Main] = Clear(@, index[s])]
    /\ UNCHANGED <<index, sets, updates, checked, mainQueue, completed, ending>>

\* The main dispatcher runs a completion callback.
RunCompletion ==
    /\ ~shutdown /\ mainQueue # <<>>
    /\ completed' = completed \cup {Head(mainQueue)}
    /\ mainQueue' = Tail(mainQueue)
    /\ UNCHANGED <<storage, calls, data, queue, checked, ending>>

ShutdownGlobalThreading ==
    /\ ~shutdown /\ shutdown' = TRUE
    /\ UNCHANGED <<storage, calls, data, workers, completed, exited>>

-------------------------------------------------------------------------------
(* The workers.                                                            *)

\* Mutant of Pop: the first worker to finish posts the completion callback.
PopFirst(w) ==
    /\ queue' = [queue EXCEPT ![w] = Tail(@)]
    /\ checked' = [checked EXCEPT ![w] = FALSE]
    /\ mainQueue' = IF queue[w][1].done # 0 THEN Append(mainQueue, queue[w][1].done) ELSE mainQueue

\* The callback is destroyed and with it its reference to a completion guard.
Pop(w) ==
    /\ queue' = [queue EXCEPT ![w] = Tail(@)]
    /\ checked' = [checked EXCEPT ![w] = FALSE]
    /\ Released(queue[w][1].done)

\* wrapCallback and dataCallback: nothing happens when the slot is gone.  The
\* callback of removeSlot has no guard.
StartCallback(w) ==
    /\ w \notin exited /\ queue[w] # <<>> /\ ~checked[w]
    /\ LET cb == Head(queue[w])
       IN  /\ cb.kind # "clear"
           /\ IF cb.slot \in alive
              THEN checked' = [checked EXCEPT ![w] = TRUE] /\ UNCHANGED <<queue, mainQueue>>
              ELSE Pop(w)
    /\ UNCHANGED <<storage, calls, data, completed, ending>>

RunCallback(w) ==
    /\ w \notin exited /\ queue[w] # <<>>
    /\ LET cb == Head(queue[w])
       IN  /\ checked[w] \/ cb.kind = "clear"
           /\ data' = [data EXCEPT ![w] =
                  CASE cb.kind = "set" -> SetThreadLocal(@, cb.index, Object(cb.slot, cb.version))
                    [] cb.kind = "clear" -> Clear(@, cb.index)
                    [] cb.kind = "update" -> @]
    /\ Pop(w)
    /\ UNCHANGED <<storage, calls, completed, ending>>

\* A worker's dispatcher has left its loop; the main thread comes last.
ShutdownThread(t) ==
    /\ shutdown /\ t \notin exited
    /\ IF t = Main THEN Workers \subseteq exited ELSE ~checked[t]
    /\ data' = [data EXCEPT ![t] = <<>>]
    /\ exited' = exited \cup {t}
    /\ UNCHANGED <<storage, calls, workers, completed, shutdown>>

Next ==
    \/ \E s \in Slots : \/ AllocateSlot(s) \/ Set(s) \/ RemoveSlot(s)
                        \/ \E completion \in BOOLEAN : RunOnAllThreads(s, completion)
    \/ RunCompletion
    \/ ShutdownGlobalThreading
    \/ \E w \in Workers : StartCallback(w) \/ RunCallback(w)
    \/ \E t \in Threads : ShutdownThread(t)

Spec == Init /\ [][Next]_vars

\* The threads' event loops run; nobody has to call anything.
Fairness ==
    /\ WF_vars(RunCompletion)
    /\ \A w \in Workers : WF_vars(StartCallback(w) \/ RunCallback(w))

FairSpec == Spec /\ Fairness

-------------------------------------------------------------------------------
(* Properties.                                                             *)

\* Every index has at most one live owner and is either owned or free, once
\* (the assertion in removeSlot), until shutdown stops the book-keeping.
IndexOwnership ==
    /\ \A s, r \in alive : index[s] = index[r] => s = r
    /\ ~shutdown => \A i \in 1 .. Len(slots) :
        /\ slots[i] # Null => slots[i] \in alive /\ index[slots[i]] = i
        /\ slots[i] = Null <=> Contains(free, i)
    /\ \A j, k \in 1 .. Len(free) : free[j] = free[k] => j = k

\* currentThreadRegistered: the thread's vector reaches to the slot's index.
CurrentThreadRegistered(t, s) == index[s] <= Len(data[t])

\* thread_local.h: "Callers can assume that the passed-in OptRef has a value if
\* they have called set()": an update gets the object of the last set() before
\* the call of runOnAllThreads, though the index may have had other owners and
\* the slot may be destroyed while the update runs.
UpdateGetsItsObject ==
    \A w \in Workers : checked[w] => LET cb == Head(queue[w]) IN
        cb.kind = "update" =>
            /\ cb.index <= Len(data[w])
            /\ data[w][cb.index] = Object(cb.slot, cb.version)

\* Recycled indexes are safe: an index has one owner, and the data behind it is
\* the owner's when a callback uses it.
SlotDataOwned == IndexOwnership /\ UpdateGetsItsObject

\* What a thread has of a slot.
View(t, s) ==
    IF s \in alive /\ CurrentThreadRegistered(t, s) /\ data[t][index[s]].slot = s
    THEN data[t][index[s]].version
    ELSE 0

Store == INSTANCE SlotStore WITH
    view <- [t \in Threads |-> [s \in Slots |-> View(t, s)]]

\* The recycled indexes and posted callbacks implement the slots of SlotStore:
\* every thread sees the objects of a slot one after the other, none is lost
\* to a callback of the index's former owner, none is another slot's.
ImplementsSlotStore == Store!Spec

\* The completion callback of runOnAllThreads is posted once, after the last
\* worker has run or dropped the update.
CompletionIsLast ==
    /\ \A k \in 1 .. Len(mainQueue) :
        /\ ~Held(mainQueue[k], queue)
        /\ mainQueue[k] \notin completed
        /\ \A j \in 1 .. Len(mainQueue) : mainQueue[j] = mainQueue[k] => j = k
    /\ \A done \in completed : ~Held(done, queue)

\* removeSlot: "When shutting down, we do not post slot removals to other
\* threads": nothing is posted to a worker that has exited, in any order of
\* the workers' exits and the destruction of the slots.
NoPostAfterExit == [][\A w \in exited \cap Workers : queue'[w] = queue[w]]_vars

\* An object is released on every thread after its slot was destroyed.
ObjectsReleased ==
    \A s \in Slots :
        index[s] # 0 /\ s \notin alive ~>
            shutdown \/ \A t \in Threads : \A i \in 1 .. Len(data[t]) : data[t][i].slot # s

\* Every completion callback runs, unless the server shuts down.
CompletionRuns ==
    \A done \in 1 .. MaxUpdates :
        Held(done, queue) ~> shutdown \/ done \in completed

===============================================================================
