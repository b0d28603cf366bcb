----------------------------- MODULE MemoryStores -----------------------------
(***************************************************************************)
(* The two in-memory stores of the ladoo crate under one clock.  The rate  *)
(* limiter and the cache share nothing else, so a behaviour uses one of    *)
(* them: their interleavings with each other show nothing new.             *)
(***************************************************************************)
EXTENDS RateLimit, Cache

VARIABLE store   \* the store this behaviour uses

storesVars == <<now, store, rateVars, cacheVars>>

Init == now = 0 /\ store \in {"rate", "cache"} /\ RateInit /\ CacheInit

RateLimited ==
    /\ store = "rate"
    /\ \/ \E r \in Reqs : Stamp(r) \/ Check(r) \/ Tell(r) \/ Respond(r)
       \/ \E k \in DOMAIN entries : Reset(k)
       \/ Reap
    /\ UNCHANGED <<now, store, cacheVars>>

Cached ==
    /\ store = "cache"
    /\ \E c \in Callers : CacheStep(c)
    /\ UNCHANGED <<now, store, rateVars>>

Tick ==
    /\ now < MaxTime /\ (store = "rate" => RateMayTick)
    /\ now' = now + 1
    /\ UNCHANGED <<store, rateVars, cacheVars>>

Next == Tick \/ RateLimited \/ Cached

Spec == Init /\ [][Next]_storesVars
=============================================================================
