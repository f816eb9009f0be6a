------------------------------- MODULE MCRedis -------------------------------
(***************************************************************************)
(* The two users of Redis, the rate limiter and the cache of module        *)
(* licensing.  Their keys are disjoint and they share no other state, so   *)
(* that a behaviour follows one of them while the other rests.             *)
(***************************************************************************)
EXTENDS RateLimiter, Licensing

VARIABLE user   \* whose keys are in use

RedisInit ==
    /\ user \in {"limiter", "licensing"}
    /\ LimiterInit
    /\ Init

RedisNext ==
    \/ user = "limiter" /\ LimiterNext /\ UNCHANGED <<user, vars>>
    \/ user = "licensing" /\ Next /\ UNCHANGED <<user, limiterVars>>

RedisSpec ==
    /\ RedisInit /\ [][RedisNext]_<<user, limiterVars, vars>>
    /\ LimiterFairness /\ Fairness

=============================================================================
