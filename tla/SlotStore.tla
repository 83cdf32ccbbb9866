------------------------------ MODULE SlotStore ------------------------------
(***************************************************************************)
(* What thread local slots promise their users: every thread sees the      *)
(* objects of a slot in the order of the calls of set(), each of them, and *)
(* never an object of another slot, however the storage is recycled.       *)
(***************************************************************************)
EXTENDS Integers

CONSTANTS Slots, Threads, Main

VARIABLES
    alive,      \* the slots that exist
    version,    \* how often set() was called on a slot
    view,       \* which of these objects a thread has; 0 when none
    exited      \* threads that have released all objects

vars == <<alive, version, view, exited>>

Init ==
    /\ alive = {}
    /\ version = [s \in Slots |-> 0]
    /\ view = [t \in Threads |-> [s \in Slots |-> 0]]
    /\ exited = {}

Create(s) ==
    /\ s \notin alive /\ version[s] = 0
    /\ alive' = alive \cup {s}
    /\ UNCHANGED <<version, view, exited>>

\* The calling thread has the object at once.
Set(s) ==
    /\ s \in alive
    /\ version' = [version EXCEPT ![s] = @ + 1]
    /\ view' = [view EXCEPT ![Main][s] = version'[s]]
    /\ UNCHANGED <<alive, exited>>

Deliver(t, s) ==
    /\ s \in alive /\ t \notin exited
    /\ view[t][s] < version[s]
    /\ view' = [view EXCEPT ![t][s] = @ + 1]
    /\ UNCHANGED <<alive, version, exited>>

Destroy(s) ==
    /\ s \in alive
    /\ alive' = alive \ {s}
    /\ view' = [t \in Threads |-> [view[t] EXCEPT ![s] = 0]]
    /\ UNCHANGED <<version, exited>>

Exit(t) ==
    /\ exited' = exited \cup {t}
    /\ view' = [view EXCEPT ![t] = [s \in Slots |-> 0]]
    /\ UNCHANGED <<alive, version>>

Next ==
    \/ \E s \in Slots : Create(s) \/ Set(s) \/ Destroy(s)
    \/ \E t \in Threads \ {Main}, s \in Slots : Deliver(t, s)
    \/ \E t \in Threads : Exit(t)

Spec == Init /\ [][Next]_vars

===============================================================================
