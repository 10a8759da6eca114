----------------------------- MODULE MCRateLimiter -----------------------------
(***************************************************************************)
(* Small instances of RateLimiter: one provider, two processes, of which   *)
(* the first has two async attempts and the second one sync attempt.       *)
(***************************************************************************)
EXTENDS RateLimiter, TLC

CONSTANTS a1, a2, a3, p1, p2, google

MCProviderOf  == [a \in Attempt |-> google]
MCHome        == (a1 :> p1) @@ (a2 :> p1) @@ (a3 :> p2)
MCIsAsync     == [a \in Attempt |-> a # a3]
MCSharedLimit == [p \in Provider |-> 1]
MCLocalOne    == [p \in Provider |-> 1]
=============================================================================
