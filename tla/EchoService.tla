------------------------------ MODULE EchoService ------------------------------
(***************************************************************************)
(* What an echo service promises its client, seen from the socket: every   *)
(* byte it sends is the next byte of those it has received, and it sends   *)
(* nothing after it has closed.                                            *)
(***************************************************************************)
EXTENDS Integers

VARIABLES
    received,   \* bytes taken from the client
    sent,       \* bytes sent back, the first ones of those received
    open        \* the connection is open

vars == <<received, sent, open>>

Init ==
    /\ received = 0
    /\ sent = 0
    /\ open = TRUE

Receive ==
    /\ open
    /\ received' \in Nat
    /\ received' > received
    /\ UNCHANGED <<sent, open>>

Echo ==
    /\ open
    /\ sent' \in Nat
    /\ sent' > sent
    /\ sent' <= received
    /\ UNCHANGED <<received, open>>

\* The connection closes; what the kernel still took at that moment counts.
Close ==
    /\ open
    /\ open' = FALSE
    /\ sent' \in Nat
    /\ sent <= sent'
    /\ sent' <= received
    /\ UNCHANGED received

Next == Receive \/ Echo \/ Close

Spec == Init /\ [][Next]_vars

===============================================================================
