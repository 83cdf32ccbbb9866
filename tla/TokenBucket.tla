------------------------------ MODULE TokenBucket ------------------------------
(***************************************************************************)
(* What a local rate limiter promises: buckets from which one caller at a  *)
(* time takes one token, and to which one fill at a time adds tokens up to *)
(* the maximum.  LocalRateLimiter, where a take and a fill are loops of    *)
(* loads and compare-and-swaps of several threads, implements it.          *)
(***************************************************************************)
EXTENDS Integers

CONSTANTS Buckets, MaxTokens, TokensPerFill

VARIABLES
    tokens,     \* tokens left in each bucket
    admitted    \* requests allowed so far, per bucket

vars == <<tokens, admitted>>

Init ==
    /\ tokens = MaxTokens
    /\ admitted = [b \in Buckets |-> 0]

\* A request is allowed: it takes a token that is there.
Take(b) ==
    /\ tokens[b] > 0
    /\ tokens' = [tokens EXCEPT ![b] = @ - 1]
    /\ admitted' = [admitted EXCEPT ![b] = @ + 1]

\* A fill adds TokensPerFill tokens, or as many as fit.
Fill(b) ==
    /\ tokens' = [tokens EXCEPT ![b] = IF @ + TokensPerFill[b] < MaxTokens[b]
                                        THEN @ + TokensPerFill[b]
                                        ELSE MaxTokens[b]]
    /\ UNCHANGED admitted

Next == \E b \in Buckets : Take(b) \/ Fill(b)

Spec == Init /\ [][Next]_vars

===============================================================================
