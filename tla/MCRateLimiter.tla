----------------------------- MODULE MCRateLimiter -----------------------------
(* RateLimiter for TLC: small limits, windows of two or three ticks. *)
EXTENDS RateLimiter, TLC

\* @Throttle raises the auth limit of refresh; every other handler has the
\* throttlers' own limits.
SmallLimit == [k \in Key |-> IF k[2] = "default" THEN 2
                             ELSE IF k[1] = "refresh" THEN 2 ELSE 1]
ShortTtl == [k \in Key |-> 2]
\* The default block is as long as its window, the auth block longer.
ShortBlock == [k \in Key |-> IF k[2] = "default" THEN 2 ELSE 3]

Symmetric == Permutations(Req)
=============================================================================
