---------------------------- MODULE MCMemoryStores ----------------------------
(* TLC instances of MemoryStores. *)
EXTENDS MemoryStores, TLC

CONSTANT r1   \* one of the requests

\* All requests come from one address; all but one are of a tier that has no name of its own.
MCAttr ==
    [r \in Reqs |-> [ip |-> "a", header |-> "unknown", tier |-> IF r = r1 THEN "free" ELSE "other"]]

\* These are alike, and so are the callers of the cache.
MCSymmetry == Permutations(Reqs \ {r1}) \cup Permutations(Callers)

\* A limit of one request per address, and tiers of which the first allows two.
MCLimiters ==
    {WithWindow(WithLimit(NewLimit, 1), 3),
     ResolveTier(WithTier(WithTier(WithKey(NewLimit, "header"), "pro", 2, 2), "free", 1, 3))}

MCCalls ==
    {[op |-> "get", key |-> "k", type |-> "t", ttl |-> NoTtl],
     [op |-> "has", key |-> "k", type |-> "t", ttl |-> NoTtl],
     [op |-> "set", key |-> "k", type |-> "t", ttl |-> 1],
     [op |-> "set", key |-> "l", type |-> "u", ttl |-> NoTtl],
     [op |-> "delete", key |-> "k", type |-> "t", ttl |-> NoTtl],
     [op |-> "remember", key |-> "l", type |-> "t", ttl |-> 1]}
=============================================================================
