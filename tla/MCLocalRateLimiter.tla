-------------------------- MODULE MCLocalRateLimiter --------------------------
(***************************************************************************)
(* LocalRateLimiter with one descriptor whose bucket is filled every       *)
(* second firing of the timer.                                             *)
(***************************************************************************)
EXTENDS LocalRateLimiter, TLC

CONSTANTS d1, other, fallback, w1, w2

MCWorkers == {w1, w2}
MCDescriptors == {d1}
MCMaxTokens == fallback :> 3 @@ d1 :> 2
MCTokensPerFill == fallback :> 2 @@ d1 :> 1
MCFillInterval == fallback :> 1 @@ d1 :> 2

\* A request with no descriptor, one that matches none, and one whose second
\* descriptor matches.
MCRequests == {<<>>, <<other>>, <<other, d1>>}

===============================================================================
