-------------------------- MODULE MemoryStoresProofs --------------------------
(***************************************************************************)
(* Proofs about the two in-memory stores, for any set of callers, calls    *)
(* and requests, any configuration of limits, windows and tiers and any    *)
(* reaper: what the cache serves and keeps, and what the rate limiter lets *)
(* through and tells its clients.                                          *)
(***************************************************************************)
EXTENDS MemoryStores, WellFoundedInduction, FunctionTheorems, FiniteSetTheorems, TLAPS

-----------------------------------------------------------------------------
(* The cache *)

Called ==
    [pc : {"idle", "read", "remove", "compute", "store", "done"}, call : Calls \cup {NoTtl},
     result : {"none", "absent", "found", "error", "ok"}, value : Value \cup {NoTtl}, at : Nat]

\* A task that is about to remove a key has seen an expired entry under it; what it
\* returned was within its time to live when it was read.
CallerInv(t, s) ==
    /\ t.pc # "idle" => t.call # NoTtl
    /\ t.pc # "done" => t.result = "none"
    /\ t.pc = "remove" => s # NoTtl /\ Expired(s)
    /\ t.value # NoTtl /\ t.value.ttl # NoTtl => t.at < t.value.stored + t.value.ttl

\* Entries are of the past, and with a default none is without a time to live.
EntryInv(v) == v \in Value /\ v.stored <= now /\ (DefaultTtl # NoTtl => v.ttl # NoTtl)

CacheInv ==
    /\ now \in Nat
    /\ task \in [Callers -> Called] /\ saw \in [Callers -> Value \cup {NoTtl}]
    /\ \A c \in Callers : CallerInv(task[c], saw[c])
    /\ \A k \in DOMAIN data : EntryInv(data[k])

\* The invariant is stronger than what the run checks.
LEMMA CacheInvStates == CacheInv => ServedFresh
<1> SUFFICES ASSUME CacheInv PROVE ServedFresh
    OBVIOUS
<1>1. CacheTypeOK
      BY DEF CacheInv, CacheTypeOK, CallerInv, EntryInv, Called
<1>2. ASSUME NEW c \in Callers, task[c].value # NoTtl, task[c].value.ttl # NoTtl
      PROVE  task[c].at < task[c].value.stored + task[c].value.ttl
      BY <1>2 DEF CacheInv, CallerInv
<1>3. DefaultTtl # NoTtl => \A k \in DOMAIN data : data[k].ttl # NoTtl
      BY DEF CacheInv, EntryInv
<1>4. QED BY <1>1, <1>2, <1>3 DEF ServedFresh

\* The initial state of the cache.
LEMMA CacheInitHolds == Init => CacheInv
<1> SUFFICES ASSUME Init PROVE CacheInv
    OBVIOUS
<1>1. DOMAIN data = {}
      BY DEF Init, CacheInit
<1>2. Idle \in Called
      BY DEF Idle, Called
<1>3. QED BY <1>1, <1>2 DEF Init, CacheInit, CacheInv, CallerInv, Idle

\* The clock only brings expiries closer.
LEMMA CacheTick == ASSUME CacheInv, Tick PROVE CacheInv'
<1>1. now' = now + 1 /\ UNCHANGED <<data, task, saw>> /\ now \in Nat
      BY DEF Tick, cacheVars, CacheInv
<1>2. \A v \in Value : Expired(v) => Expired(v)'
      BY <1>1 DEF Expired, Expires, Value
<1>3. ASSUME NEW c \in Callers PROVE CallerInv(task[c], saw[c])'
      BY <1>1, <1>2 DEF CacheInv, CallerInv
<1>4. ASSUME NEW k \in DOMAIN data PROVE EntryInv(data[k])'
      BY <1>1 DEF CacheInv, EntryInv, Value
<1>5. QED BY <1>1, <1>3, <1>4 DEF CacheInv

\* A caller's task takes a record of its type and nobody else's changes.
LEMMA CacheCaller ==
    ASSUME CacheInv, now' = now, NEW c \in Callers,
           NEW t \in Called, task' = [task EXCEPT ![c] = t],
           NEW s \in Value \cup {NoTtl}, saw' = [saw EXCEPT ![c] = s],
           CallerInv(t, s), \A k \in DOMAIN data' : EntryInv(data'[k])
    PROVE  CacheInv'
<1>1. ASSUME NEW d \in Callers PROVE CallerInv(task[d], saw[d])'
  <2>1. CallerInv(task'[d], saw'[d])
        BY DEF CacheInv
  <2>2. QED BY <2>1 DEF CallerInv, Expired, Expires
<1>2. \A k \in DOMAIN data' : EntryInv(data[k])'
      BY DEF EntryInv
<1>3. QED BY <1>1, <1>2 DEF CacheInv

\* Every action of the cache keeps the invariant.
LEMMA CacheStepKeeps ==
    ASSUME CacheInv, now' = now, NEW c \in Callers, CacheStep(c)
    PROVE  CacheInv'
<1> DEFINE t == task[c]
<1>1. /\ t \in Called /\ saw[c] \in Value \cup {NoTtl} /\ CallerInv(t, saw[c])
      /\ saw = [saw EXCEPT ![c] = saw[c]]
      /\ \A k \in DOMAIN data : EntryInv(data[k])
      /\ now \in Nat
      BY DEF CacheInv
<1>2. t.pc # "idle" => t.call \in Calls
      BY <1>1 DEF CallerInv, Called
<1>3. CASE Begin(c)
  <2>1. PICK call \in Calls :
            task' = [task EXCEPT ![c].call = call,
                                 ![c].pc = IF call.op \in {"get", "has", "remember"} THEN "read"
                                           ELSE "store"]
        BY <1>3 DEF Begin
  <2> DEFINE u == [t EXCEPT !.call = call,
                            !.pc = IF call.op \in {"get", "has", "remember"} THEN "read" ELSE "store"]
  <2>2. u \in Called /\ task' = [task EXCEPT ![c] = u]
        BY <1>1, <2>1 DEF Called, CacheInv
  <2>3. CallerInv(u, saw[c])
        BY <1>1, <1>3, CacheAssumption DEF CallerInv, Begin, Called
  <2>4. QED BY <1>1, <1>3, <2>2, <2>3, CacheCaller DEF Begin
<1>4. ASSUME NEW pc \in {"read", "remove", "compute", "store"}, t.pc \notin {"idle", "done"},
             task' = [task EXCEPT ![c].pc = pc],
             NEW s \in Value \cup {NoTtl}, saw' = [saw EXCEPT ![c] = s],
             pc = "remove" => s # NoTtl /\ Expired(s),
             \A k \in DOMAIN data' : EntryInv(data'[k])
      PROVE  CacheInv'
  <2> DEFINE u == [t EXCEPT !.pc = pc]
  <2>1. u \in Called
        BY <1>1 DEF Called
  <2>2. CallerInv(u, s)
        BY <1>1, <1>2, <1>4 DEF CallerInv, Called
  <2>3. task' = [task EXCEPT ![c] = u]
        BY <1>4
  <2> HIDE DEF u
  <2>4. QED BY <1>4, <2>1, <2>2, <2>3, CacheCaller
<1>5. ASSUME NEW res \in {"absent", "found", "error", "ok"}, t.pc \notin {"idle", "done"},
             Finish(c, res), NEW s \in Value \cup {NoTtl}, saw' = [saw EXCEPT ![c] = s],
             \A k \in DOMAIN data' : EntryInv(data'[k])
      PROVE  CacheInv'
  <2> DEFINE u == [t EXCEPT !.pc = "done", !.result = res]
  <2>1. u \in Called
        BY <1>1 DEF Called
  <2>2. CallerInv(u, s)
        BY <1>1, <1>2, <1>5 DEF CallerInv, Called
  <2>3. task' = [task EXCEPT ![c] = u]
        BY <1>5 DEF Finish
  <2> HIDE DEF u
  <2>4. QED BY <1>5, <2>1, <2>2, <2>3, CacheCaller
<1>6. ASSUME Missing(c), t.pc \in {"read", "remove"}, NEW s \in Value \cup {NoTtl},
             saw' = [saw EXCEPT ![c] = s], \A k \in DOMAIN data' : EntryInv(data'[k])
      PROVE  CacheInv'
      BY <1>4, <1>5, <1>6 DEF Missing
<1>7. CASE Read(c)
  <2> DEFINE key == t.call.key
             v == data[key]
  <2>1. t.pc = "read" /\ UNCHANGED data
        BY <1>7 DEF Read
  <2>2. CASE ~Has(key)
        BY <1>1, <1>6, <1>7, <2>1, <2>2 DEF Read
  <2>3. CASE Has(key) /\ Expired(v)
    <3>1. task' = [task EXCEPT ![c].pc = "remove"] /\ saw' = [saw EXCEPT ![c] = v]
          BY <1>7, <2>3 DEF Read
    <3>2. v \in Value /\ v # NoTtl
          BY <1>1, <2>3, CacheAssumption DEF EntryInv, Has
    <3>3. QED BY <1>1, <1>4, <2>1, <2>3, <3>1, <3>2
  <2>4. CASE Has(key) /\ ~Expired(v) /\ t.call.op # "has" /\ v.type # t.call.type
        BY <1>1, <1>5, <1>7, <2>1, <2>4 DEF Read
  <2>5. CASE Has(key) /\ ~Expired(v) /\ ~(t.call.op # "has" /\ v.type # t.call.type)
    <3> DEFINE u == [t EXCEPT !.pc = "done", !.result = "found", !.at = now, !.value = v]
    <3>1. UNCHANGED saw /\ task' = [task EXCEPT ![c].pc = "done", ![c].result = "found",
                                                ![c].at = now, ![c].value = v]
          BY <1>7, <2>5 DEF Read
    <3>2. v \in Value
          BY <1>1, <2>5 DEF EntryInv, Has
    <3>3. u \in Called /\ task' = [task EXCEPT ![c] = u]
          BY <1>1, <3>1, <3>2 DEF Called, CacheInv
    <3>4. v.ttl # NoTtl => now < v.stored + v.ttl
          BY <1>1, <2>5, <3>2 DEF Expired, Expires, Value
    <3>5. CallerInv(u, saw[c])
          BY <1>1, <1>2, <2>1, <3>4 DEF CallerInv, Called
    <3>6. QED BY <1>1, <2>1, <3>1, <3>3, <3>5, CacheCaller
  <2>6. QED BY <2>2, <2>3, <2>4, <2>5
<1>8. CASE Remove(c)
  <2>1. \A k \in DOMAIN data' : EntryInv(data'[k])
        BY <1>1, <1>8 DEF Remove, Without
  <2>2. QED BY <1>6, <1>8, <2>1 DEF Remove
<1>9. CASE Compute(c)
      BY <1>1, <1>4, <1>5, <1>9 DEF Compute
<1>10. CASE Store(c)
  <2> DEFINE v == [type |-> t.call.type, stored |-> now, ttl |-> ResolveTtl(t.call.ttl)]
  <2>1. EntryInv(v)
        BY <1>1, <1>2, <1>10, CacheAssumption DEF Store, EntryInv, Value, ResolveTtl
  <2> HIDE DEF v
  <2>2. data' = With(t.call.key, v)
        BY <1>10 DEF Store, v
  <2>3. \A k \in DOMAIN data' : EntryInv(data'[k])
        BY <1>1, <2>1, <2>2 DEF With
  <2>4. QED BY <1>1, <1>5, <1>10, <2>3 DEF Store
<1>11. CASE StoreFails(c)
       BY <1>1, <1>5, <1>11 DEF StoreFails
<1>12. CASE Delete(c)
  <2>1. \A k \in DOMAIN data' : EntryInv(data'[k])
        BY <1>1, <1>12 DEF Delete, Without
  <2>2. QED BY <1>1, <1>5, <1>12, <2>1 DEF Delete
<1>13. QED BY <1>3, <1>7, <1>8, <1>9, <1>10, <1>11, <1>12 DEF CacheStep

\* A step that leaves the clock and the cache alone keeps the invariant.
LEMMA CacheStutters == ASSUME CacheInv, UNCHANGED <<now, cacheVars>> PROVE CacheInv'
BY DEF cacheVars, CacheInv, CallerInv, EntryInv, Expired, Expires

\* Every step keeps the cache's invariant.
LEMMA CacheInductive == CacheInv /\ [Next]_storesVars => CacheInv'
<1> SUFFICES ASSUME CacheInv, [Next]_storesVars PROVE CacheInv'
    OBVIOUS
<1>1. CASE Tick
      BY <1>1, CacheTick
<1>2. CASE RateLimited \/ UNCHANGED storesVars
      BY <1>2, CacheStutters DEF RateLimited, storesVars
<1>3. CASE Cached
      BY <1>3, CacheStepKeeps DEF Cached
<1>4. QED BY <1>1, <1>2, <1>3 DEF Next

\* Cache::get, has and remember: whoever is given a value is given one younger than its
\* time to live, and with a default time to live nothing is kept for ever, for any
\* callers and any interleaving of reads, expiries and writes.
THEOREM Serves == Spec => []ServedFresh
<1>1. Init => CacheInv
      BY CacheInitHolds
<1>2. CacheInv /\ [Next]_storesVars => CacheInv'
      BY CacheInductive
<1>3. CacheInv => ServedFresh
      BY CacheInvStates
<1>4. QED BY <1>1, <1>2, <1>3, PTL DEF Spec

\* A fresh entry is never the entry a reader saw as expired.
LEMMA RemovedWasSeen ==
    ASSUME CacheInv, NEW c \in Callers, CacheStep(c), NEW k \in DOMAIN data,
           k \notin DOMAIN data', ~Expired(data[k])
    PROVE  /\ task[c].call # NoTtl /\ task[c].call.key = k
           /\ \/ task[c].call.op = "delete" /\ task'[c].pc = "done"
              \/ saw[c] # NoTtl /\ saw[c] # data[k]
<1>1. task \in [Callers -> Called] /\ CallerInv(task[c], saw[c])
      BY DEF CacheInv
<1>2. CASE Remove(c)
  <2>1. task[c].call.key = k /\ task[c].pc = "remove"
        BY <1>2 DEF Remove, Without
  <2>2. QED BY <1>1, <2>1 DEF CallerInv
<1>3. CASE Delete(c)
  <2>1. task[c].call.key = k /\ task[c].pc = "store" /\ task[c].call.op = "delete"
        BY <1>3 DEF Delete, Without
  <2>2. task'[c].pc = "done"
        BY <1>1, <1>3 DEF Delete, Finish, Called
  <2>3. QED BY <1>1, <2>1, <2>2 DEF CallerInv
<1>4. CASE Store(c)
      BY <1>4 DEF Store, With
<1>5. CASE Begin(c) \/ Read(c) \/ Compute(c) \/ StoreFails(c)
      BY <1>5 DEF Begin, Read, Compute, StoreFails
<1>6. QED BY <1>2, <1>3, <1>4, <1>5 DEF CacheStep

\* MemoryStore::get gives the lock back before it removes an expired key: a fresh value
\* can be lost only to a delete() of its key, or to a reader that had seen another,
\* expired value under it.
THEOREM Keeps == Spec => FreshSurvives
<1> DEFINE Kept == \A k \in DOMAIN data :
                      k \notin DOMAIN data' /\ ~Expired(data[k]) =>
                          \E c \in Callers :
                              /\ task[c].call # NoTtl /\ task[c].call.key = k
                              /\ \/ task[c].call.op = "delete" /\ task'[c].pc = "done"
                                 \/ saw[c] # NoTtl /\ saw[c] # data[k]
<1>1. Init => CacheInv
      BY CacheInitHolds
<1>2. CacheInv /\ [Next]_storesVars => CacheInv'
      BY CacheInductive
<1>3. CacheInv /\ [Next]_storesVars => [Kept]_cacheVars
  <2> SUFFICES ASSUME CacheInv, [Next]_storesVars PROVE Kept \/ UNCHANGED cacheVars
      OBVIOUS
  <2>1. CASE Cached
        BY <2>1, RemovedWasSeen DEF Cached
  <2>2. CASE Tick \/ RateLimited \/ UNCHANGED storesVars
        BY <2>2 DEF Tick, RateLimited, storesVars
  <2>3. QED BY <2>1, <2>2 DEF Next
<1>4. QED BY <1>1, <1>2, <1>3, PTL DEF Spec, FreshSurvives

-----------------------------------------------------------------------------
(* The rate limiter *)

Request == [pc : {"waiting", "stamped", "checked", "handler", "answered"}, at : 0 .. MaxTime,
            allowed : BOOLEAN, remaining : Nat, reset : Nat, window : Reqs, told : Nat,
            toldAt : 0 .. MaxTime]

\* A request that was counted, and one that opened a window.
Counts(r) == req[r].pc \notin {"waiting", "stamped"}
Opens(r) == Counts(r) /\ req[r].window = r

\* A request that was let through in the window that o opened, with m left after it.
Holds(x, o, m) ==
    x.pc \notin {"waiting", "stamped"} /\ x.allowed /\ x.window = o /\ x.remaining = m

\* Nobody waits for longer than Lag, so an entry outlives its window by little.
ClockInv ==
    /\ now <= deadline + Lag /\ deadline <= now + ReapInterval
    /\ \A k \in DOMAIN entries : deadline <= entries[k].expires + ReapInterval + Lag
    /\ \A r \in Reqs : /\ req[r].at <= now
                       /\ req[r].pc = "stamped" => now <= req[r].at + Lag
                       /\ req[r].allowed => Counts(r)

\* A request is counted in the window that a request of its key opened, which is not over
\* when it comes and began no more than Lag after that; a refused one found it full.
WindowInv ==
    \A r, o \in Reqs : Counts(r) /\ req[r].window = o =>
        /\ Opens(o) /\ Key(o) = Key(r) /\ req[r].reset = req[o].at + Window(r)
        /\ req[r].at < req[r].reset /\ req[o].at <= req[r].at + Lag
        /\ req[r].allowed => req[r].remaining < Limit(r)
        /\ ~req[r].allowed =>
              \A m \in 0 .. Limit(r) - 1 : \E q \in Reqs : Holds(req[q], o, m)

\* In one window no number is given twice.
NumbersInv ==
    \A q, r \in Reqs : /\ q # r /\ Counts(q) /\ Counts(r) /\ req[q].window = req[r].window
                       /\ req[q].allowed /\ req[r].allowed
                       => req[q].remaining # req[r].remaining

\* What is said of an entry: its opener's window is the one it counts, each number up to
\* its count that is within the limit was given to a request, and no number above it.
EntryRight(k, o, count, expires) ==
    /\ Opens(o) /\ Key(o) = k /\ expires = req[o].at + Window(o)
    /\ \A n \in 1 .. count : n <= Limit(o) => \E q \in Reqs : Holds(req[q], o, Limit(o) - n)
    /\ \A q \in Reqs : Counts(q) /\ req[q].window = o /\ req[q].allowed =>
          Limit(o) <= count + req[q].remaining

EntriesInv ==
    \A k \in DOMAIN entries :
        EntryRight(k, entries[k].opener, entries[k].count, entries[k].expires)

\* Two windows of a key that nobody reset begin a window apart, up to Lag less.
ApartInv ==
    \A o, p \in Reqs : Opens(o) /\ Opens(p) /\ Key(o) = Key(p) /\ Key(o) \notin cleared /\ o # p =>
        \/ req[o].at + Window(o) <= req[p].at + Lag
        \/ req[p].at + Window(p) <= req[o].at + Lag

\* The last of them is the one in the store, and the others are over.
LatestInv ==
    \A o \in Reqs : Opens(o) /\ Key(o) \notin cleared =>
        IF Key(o) \in DOMAIN entries
        THEN \/ o = entries[Key(o)].opener
             \/ /\ req[o].at + Window(o) <= now
                /\ req[o].at + Window(o) <= req[entries[Key(o)].opener].at + Lag
        ELSE req[o].at + Window(o) <= now

\* The seconds told, times a second, are the rest of the window but for less than one.
ToldInv ==
    \A r \in Reqs : req[r].pc \in {"handler", "answered"} =>
        /\ req[r].told * Second <= Window(r)
        /\ req[r].reset < req[r].toldAt + (req[r].told + 1) * Second

\* In a behaviour of the cache the limiter is as it was made.
RateInv ==
    /\ RateTypeOK
    /\ store \in {"rate", "cache"}
    /\ WindowInv /\ NumbersInv /\ EntriesInv /\ ApartInv /\ LatestInv /\ ToldInv
    /\ store = "rate" => ClockInv
    /\ store = "cache" => entries = <<>> /\ req = [r \in Reqs |-> Waiting(r)]

\* A set of numbers that is not empty has a least one.
LEMMA MinOf ==
    ASSUME NEW S \in SUBSET Nat, S # {}
    PROVE  Min(S) \in S
<1> DEFINE Less == {ss \in Nat \X Nat : ss[1] < ss[2]}
<1>1. IsWellFoundedOn(Less, Nat)
      BY NatLessThanWellFounded DEF OpToRel
<1> HIDE DEF Less
<1>2. PICK x \in S : \A y \in S : ~(<<y, x>> \in Less)
      BY <1>1, WFMin
<1>3. \A y \in S : ~(y < x)
      BY <1>2 DEF Less
<1>4. \A y \in S : x <= y
      BY <1>3
<1>5. QED BY <1>4 DEF Min

\* Every request has a limit and a window.
LEMMA Configured ==
    ASSUME limiter \in Limiters, NEW r \in Reqs
    PROVE  Limit(r) \in Nat /\ Window(r) \in Nat \ {0}
<1> DEFINE c == limiter
           a == Attr[r]
           named == {k \in DOMAIN c.tiers : c.resolve /\ c.tiers[k].name = a.tier}
           n == IF named = {} THEN 1 ELSE Min(named)
<1>1. CASE c.kind = "simple"
      BY <1>1, RateAssumption DEF Limit, Window, ResolveLimit
<1>2. CASE c.kind # "simple"
  <2>1. c.tiers # <<>> /\ c.tiers \in Seq([name : STRING, limit : Nat, window : Nat \ {0}])
        BY <1>2, RateAssumption
  <2>2. n \in DOMAIN c.tiers
    <3>1. 1 \in DOMAIN c.tiers /\ DOMAIN c.tiers \subseteq Nat
          BY <2>1
    <3>2. named # {} => Min(named) \in named
          BY <3>1, MinOf
    <3>3. QED BY <3>1, <3>2
  <2> DEFINE tiers == c.tiers
             tier == tiers[n]
  <2>3. tier.limit \in Nat /\ tier.window \in Nat \ {0}
    <3> DEFINE Tier == [name : STRING, limit : Nat, window : Nat \ {0}]
    <3>1. tiers \in Seq(Tier) /\ n \in DOMAIN tiers
          BY <2>1, <2>2
    <3> HIDE DEF Tier, tiers, n
    <3>2. tier \in Tier
          BY <3>1
    <3>3. QED BY <3>2 DEF Tier
  <2>4. ResolveLimit(c, a) = [limit |-> tier.limit, window |-> tier.window]
        BY <1>2 DEF ResolveLimit
  <2> HIDE DEF tier
  <2>5. QED BY <2>3, <2>4 DEF Limit, Window
<1>3. QED BY <1>1, <1>2

\* Requests under one key have one limit and one window: a bucket of a tiered
\* configuration is a tier, and all tiers of a simple one are alike.
LEMMA SameKey ==
    ASSUME limiter \in Limiters, NEW q \in Reqs, NEW r \in Reqs, Key(q) = Key(r)
    PROVE  Limit(q) = Limit(r) /\ Window(q) = Window(r)
<1> DEFINE c == limiter
<1>1. CASE c.kind = "simple"
      BY <1>1 DEF Limit, Window, ResolveLimit
<1>2. CASE c.kind # "simple" /\ c.resolve
  <2>1. Attr[q].tier = Attr[r].tier
        BY <1>2 DEF Key, ExtractKey
  <2>2. QED BY <1>2, <2>1 DEF Limit, Window, ResolveLimit
<1>3. CASE c.kind # "simple" /\ ~c.resolve
      BY <1>3 DEF Limit, Window, ResolveLimit
<1>4. QED BY <1>1, <1>2, <1>3

\* Keys, limits and windows are fixed with the configuration.
LEMMA Fixed ==
    ASSUME UNCHANGED limiter
    PROVE  /\ \A r \in Reqs : /\ Key(r)' = Key(r)
                              /\ Limit(r)' = Limit(r) /\ Window(r)' = Window(r)
           /\ Keys' = Keys
BY DEF Keys, Key, Limit, Window

\* What the type invariant says of one request and one entry.
LEMMA RateTypes ==
    ASSUME RateTypeOK
    PROVE  /\ now \in 0 .. MaxTime /\ now \in Nat /\ deadline \in Nat /\ limiter \in Limiters
           /\ MaxTime \in Nat /\ ReapInterval \in Nat /\ Lag \in Nat /\ Second \in Nat \ {0}
           /\ req \in [Reqs -> Request]
           /\ \A r \in Reqs : /\ req[r] \in Request /\ req[r].window \in Reqs
                              /\ req[r].at \in Nat /\ req[r].allowed \in BOOLEAN
                              /\ req[r].remaining \in Nat /\ req[r].reset \in Nat
                              /\ req[r].told \in Nat /\ req[r].toldAt \in Nat
                              /\ Limit(r) \in Nat /\ Window(r) \in Nat /\ Window(r) > 0
           /\ \A k \in DOMAIN entries :
                 /\ entries[k] \in Entry /\ entries[k].count \in Nat /\ entries[k].count > 0
                 /\ entries[k].expires \in Nat /\ entries[k].opener \in Reqs
<1>1. /\ now \in 0 .. MaxTime /\ deadline \in Nat /\ limiter \in Limiters
      /\ req \in [Reqs -> Request] /\ MaxTime \in Nat /\ ReapInterval \in Nat
      /\ Lag \in Nat /\ Second \in Nat \ {0}
      /\ \A k \in DOMAIN entries : entries[k] \in Entry
      BY RateAssumption, ClockAssumption DEF RateTypeOK, Request
<1>2. \A r \in Reqs : Limit(r) \in Nat /\ Window(r) \in Nat \ {0}
      BY <1>1, Configured
<1>3. \A r \in Reqs : req[r] \in Request
      BY <1>1
<1>4. \A r \in Reqs : /\ req[r].at \in Nat /\ req[r].allowed \in BOOLEAN /\ req[r].window \in Reqs
                      /\ req[r].remaining \in Nat /\ req[r].reset \in Nat
                      /\ req[r].told \in Nat /\ req[r].toldAt \in Nat
      BY <1>1, <1>3 DEF Request
<1>5. \A k \in DOMAIN entries : /\ entries[k].count \in Nat /\ entries[k].count > 0
                                /\ entries[k].expires \in Nat /\ entries[k].opener \in Reqs
      BY <1>1 DEF Entry
<1>6. QED BY <1>1, <1>2, <1>3, <1>4, <1>5

\* The limiter's initial state.
LEMMA RateInitHolds == Init => RateInv
<1> SUFFICES ASSUME Init PROVE RateInv
    OBVIOUS
<1>1. DOMAIN entries = {} /\ entries = <<>> /\ cleared = {} /\ now = 0 /\ deadline = ReapInterval
      BY DEF Init, RateInit
<1>2. req = [r \in Reqs |-> Waiting(r)] /\ \A r \in Reqs : req[r] = Waiting(r)
      BY DEF Init, RateInit
<1>3. \A r \in Reqs : Waiting(r) \in Request
      BY ClockAssumption DEF Waiting, Request
<1>4. RateTypeOK
  <2>1. req \in [Reqs -> Request]
        BY <1>2, <1>3
  <2>2. QED BY <1>1, <2>1, RateAssumption, ClockAssumption DEF RateTypeOK, Init, RateInit, Request
<1>5. ClockInv
      BY <1>1, <1>2, RateAssumption DEF ClockInv, Waiting
<1>6. \A r \in Reqs : ~Counts(r) /\ req[r].pc = "waiting"
      BY <1>2 DEF Counts, Waiting
<1>7. WindowInv /\ NumbersInv /\ EntriesInv /\ ApartInv /\ LatestInv /\ ToldInv
      BY <1>1, <1>6 DEF WindowInv, NumbersInv, EntriesInv, ApartInv, LatestInv, ToldInv, Opens
<1>8. QED BY <1>1, <1>2, <1>4, <1>5, <1>7 DEF RateInv, Init

\* Time passes while nobody has waited for as long as Lag.
LEMMA RateTick == ASSUME RateInv, Tick PROVE RateInv'
<1>1. /\ now' = now + 1 /\ now < MaxTime /\ (store = "rate" => RateMayTick)
      /\ UNCHANGED <<store, limiter, entries, req, deadline, cleared>>
      BY DEF Tick, rateVars
<1>2. /\ \A r \in Reqs : Key(r)' = Key(r) /\ Limit(r)' = Limit(r) /\ Window(r)' = Window(r)
      /\ Keys' = Keys
      BY <1>1, Fixed
<1>3. RateTypeOK
      BY DEF RateInv
<1>4. RateTypeOK'
      BY <1>1, <1>2, <1>3, RateTypes DEF RateTypeOK
<1>5. \A r \in Reqs : (Counts(r)' <=> Counts(r)) /\ (Opens(r)' <=> Opens(r))
      BY <1>1 DEF Counts, Opens
<1>6. ASSUME store = "rate" PROVE ClockInv'
      BY <1>1, <1>3, <1>5, <1>6, RateTypes DEF RateInv, ClockInv, RateMayTick
<1>7. (NumbersInv /\ ApartInv /\ ToldInv)'
      BY <1>1, <1>2, <1>5 DEF RateInv, NumbersInv, ApartInv, ToldInv
<1>8. WindowInv' /\ EntriesInv'
      BY <1>1 DEF RateInv, WindowInv, EntriesInv, EntryRight, Opens, Counts, Holds, Key, Limit, Window
<1>9. LatestInv'
  <2>1. ASSUME NEW o \in Reqs, Opens(o), Key(o) \notin cleared
        PROVE  IF Key(o) \in DOMAIN entries
               THEN \/ o = entries[Key(o)].opener
                    \/ /\ req[o].at + Window(o) <= now + 1
                       /\ req[o].at + Window(o) <= req[entries[Key(o)].opener].at + Lag
               ELSE req[o].at + Window(o) <= now + 1
        BY <1>3, <2>1, RateTypes DEF RateInv, LatestInv
  <2>2. QED BY <1>1, <1>5, <2>1 DEF LatestInv, Key, Window
<1>10. QED BY <1>1, <1>4, <1>6, <1>7, <1>8, <1>9 DEF RateInv

\* A request moves on and what was decided about it stays.
LEMMA RequestMoves ==
    ASSUME RateInv, store = "rate", UNCHANGED <<now, store, limiter, entries, deadline, cleared>>,
           NEW r \in Reqs, NEW u \in Request, req' = [req EXCEPT ![r] = u],
           u.allowed = req[r].allowed, u.remaining = req[r].remaining, u.reset = req[r].reset,
           u.window = req[r].window,
           u.pc \notin {"waiting", "stamped"} <=> Counts(r), Counts(r) => u.at = req[r].at,
           u.at <= now, u.pc = "stamped" => now <= u.at + Lag,
           u.pc \in {"handler", "answered"} =>
               /\ u.told * Second <= Window(r)
               /\ u.reset < u.toldAt + (u.told + 1) * Second
    PROVE  RateInv'
<1>1. /\ \A q \in Reqs : Key(q)' = Key(q) /\ Limit(q)' = Limit(q) /\ Window(q)' = Window(q)
      /\ Keys' = Keys
      BY Fixed
<1>2. RateTypeOK /\ ClockInv /\ WindowInv /\ NumbersInv /\ EntriesInv /\ ApartInv /\ LatestInv /\ ToldInv
      BY DEF RateInv
<1>3. req' \in [Reqs -> Request]
      BY <1>2, RateTypes
<1>4. RateTypeOK'
      BY <1>1, <1>2, <1>3 DEF RateTypeOK, Request
<1>5. \A q \in Reqs : /\ req'[q].allowed = req[q].allowed /\ req'[q].reset = req[q].reset
                      /\ req'[q].remaining = req[q].remaining /\ req'[q].window = req[q].window
                      /\ req'[q].pc \notin {"waiting", "stamped"} <=> Counts(q)
                      /\ Counts(q) => req'[q].at = req[q].at
                      /\ req'[q].at <= now /\ (req'[q].pc = "stamped" => now <= req'[q].at + Lag)
      BY <1>2, RateTypes DEF ClockInv, Counts
<1>6. \A q \in Reqs : /\ Counts(q)' <=> Counts(q)
                      /\ Opens(q)' <=> Opens(q)
                      /\ \A o, m : Holds(req'[q], o, m) <=> Holds(req[q], o, m)
      BY <1>5 DEF Counts, Opens, Holds
<1>7. ClockInv'
      BY <1>2, <1>5, <1>6 DEF ClockInv
<1>8. WindowInv'
  <2> SUFFICES ASSUME NEW q \in Reqs, NEW o \in Reqs, Counts(q), req[q].window = o
               PROVE  /\ Opens(o) /\ Key(o) = Key(q) /\ req'[q].reset = req'[o].at + Window(q)
                      /\ req'[q].at < req'[q].reset /\ req'[o].at <= req'[q].at + Lag
                      /\ req'[q].allowed => req'[q].remaining < Limit(q)
                      /\ ~req'[q].allowed =>
                            \A m \in 0 .. Limit(q) - 1 : \E p \in Reqs : Holds(req'[p], o, m)
      BY <1>1, <1>5, <1>6 DEF WindowInv, Holds
  <2>1. Counts(o)
        BY <1>2 DEF WindowInv, Opens
  <2>2. QED BY <1>2, <1>5, <1>6, <2>1 DEF WindowInv
<1>9. NumbersInv'
      BY <1>2, <1>5, <1>6 DEF NumbersInv
<1>10. EntriesInv'
  <2>1. ASSUME NEW k \in DOMAIN entries
        PROVE  EntryRight(k, entries[k].opener, entries[k].count, entries[k].expires)'
    <3>1. /\ entries[k].opener \in Reqs
          /\ EntryRight(k, entries[k].opener, entries[k].count, entries[k].expires)
          BY <1>2, RateTypes DEF EntriesInv
    <3>2. QED BY <1>1, <1>5, <1>6, <3>1 DEF EntryRight, Opens
  <2>2. QED BY <2>1 DEF EntriesInv
<1>11. ApartInv'
      BY <1>1, <1>2, <1>5, <1>6 DEF ApartInv, Opens
<1>12. LatestInv'
  <2>1. \A k \in DOMAIN entries : entries[k].opener \in Reqs /\ Opens(entries[k].opener)
        BY <1>2, RateTypes DEF EntriesInv, EntryRight
  <2>2. QED BY <1>1, <1>2, <1>5, <1>6, <2>1 DEF LatestInv, Opens
<1>13. ToldInv'
  <2>1. \A q \in Reqs : q # r => req'[q] = req[q]
        OBVIOUS
  <2>2. req'[r] = u
        BY <1>2, RateTypes
  <2>3. QED BY <1>1, <1>2, <2>1, <2>2 DEF ToldInv
<1>14. QED BY <1>4, <1>7, <1>8, <1>9, <1>10, <1>11, <1>12, <1>13 DEF RateInv

\* The clock is read.
LEMMA RateStamp ==
    ASSUME RateInv, store = "rate", UNCHANGED <<now, store>>, NEW r \in Reqs, Stamp(r)
    PROVE  RateInv'
<1> DEFINE u == [req[r] EXCEPT !.pc = "stamped", !.at = now]
<1>1. /\ req \in [Reqs -> Request] /\ now \in 0 .. MaxTime /\ now \in Nat /\ req[r] \in Request
      /\ Lag \in Nat
      BY RateTypes DEF RateInv
<1>2. u \in Request /\ req' = [req EXCEPT ![r] = u] /\ req[r].pc = "waiting"
      BY <1>1 DEF Stamp, Request
<1>3. /\ u.pc = "stamped" /\ u.at = now /\ u.allowed = req[r].allowed /\ u.window = req[r].window
      /\ u.remaining = req[r].remaining /\ u.reset = req[r].reset
      BY <1>1 DEF Request
<1> HIDE DEF u
<1>4. u.at <= now /\ now <= u.at + Lag /\ ~Counts(r)
      BY <1>1, <1>2, <1>3 DEF Counts
<1>5. UNCHANGED <<limiter, entries, deadline, cleared>>
      BY DEF Stamp
<1>6. QED BY <1>2, <1>3, <1>4, <1>5, RequestMoves

\* The handler is over.
LEMMA RateRespond ==
    ASSUME RateInv, store = "rate", UNCHANGED <<now, store>>, NEW r \in Reqs, Respond(r)
    PROVE  RateInv'
<1> DEFINE u == [req[r] EXCEPT !.pc = "answered"]
<1>1. req \in [Reqs -> Request] /\ req[r] \in Request /\ req[r].at <= now
      BY RateTypes DEF RateInv, ClockInv
<1>2. u \in Request /\ req' = [req EXCEPT ![r] = u] /\ req[r].pc = "handler"
      BY <1>1 DEF Respond, Request
<1>3. /\ u.pc = "answered" /\ u.at = req[r].at /\ u.allowed = req[r].allowed
      /\ u.remaining = req[r].remaining /\ u.reset = req[r].reset /\ u.window = req[r].window
      /\ u.told = req[r].told /\ u.toldAt = req[r].toldAt
      BY <1>1 DEF Request
<1> HIDE DEF u
<1>4. u.at <= now /\ Counts(r) /\ UNCHANGED <<limiter, entries, deadline, cleared>>
      BY <1>1, <1>2, <1>3 DEF Respond, Counts
<1>5. /\ u.told * Second <= Window(r)
      /\ u.reset < u.toldAt + (u.told + 1) * Second
      BY <1>2, <1>3 DEF RateInv, ToldInv
<1>6. QED BY <1>2, <1>3, <1>4, <1>5, RequestMoves

-----------------------------------------------------------------------------
(* Whole quotients *)

\* A quotient is the number of times that the divisor fits.
LEMMA QuotientOf ==
    ASSUME NEW a \in Nat, NEW d \in Nat \ {0}
    PROVE  (a \div d) \in Nat /\ (a \div d) * d <= a /\ a < (a \div d) * d + d
OBVIOUS

\* A larger factor makes the product larger by the other one at least.
LEMMA Multiple ==
    ASSUME NEW p \in Nat, NEW q \in Nat, NEW d \in Nat \ {0}, p < q
    PROVE  p * d + d <= q * d
<1>1. (q - p) * d >= d
      OBVIOUS
<1>2. QED BY <1>1

\* Quotients grow with the dividend.
LEMMA QuotientGrows ==
    ASSUME NEW a \in Nat, NEW b \in Nat, NEW d \in Nat \ {0}, a <= b
    PROVE  a \div d <= b \div d
<1>1. CASE b \div d < a \div d
  <2>1. (b \div d) * d + d <= (a \div d) * d
        BY <1>1, Multiple, QuotientOf
  <2>2. QED BY <2>1, QuotientOf
<1>2. QED BY <1>1, QuotientOf

\* The middleware tells the seconds that are left.
LEMMA RateTell ==
    ASSUME RateInv, store = "rate", UNCHANGED <<now, store>>, NEW r \in Reqs, Tell(r)
    PROVE  RateInv'
<1> DEFINE pc == IF req[r].allowed THEN "handler" ELSE "answered"
           secs == ResetSecs(r)
           u == [req[r] EXCEPT !.pc = pc, !.told = secs, !.toldAt = now]
           o == req[r].window
<1>1. /\ req \in [Reqs -> Request] /\ req[r] \in Request /\ req[r].at <= now
      /\ now \in 0 .. MaxTime /\ now \in Nat /\ req[r].reset \in Nat /\ Second \in Nat \ {0}
      /\ o \in Reqs /\ req[o].at \in Nat /\ req[o].at <= now /\ Window(r) \in Nat
      BY RateTypes DEF RateInv, ClockInv
<1>2. Counts(r) /\ req[r].pc = "checked"
      BY DEF Tell, Counts
<1>3. req[r].reset = req[o].at + Window(r)
      BY <1>1, <1>2 DEF RateInv, WindowInv
<1>4. secs \in Nat /\ secs * Second <= Window(r) /\ req[r].reset < now + (secs + 1) * Second
  <2>1. CASE req[r].reset > now
    <3> DEFINE a == req[r].reset - now
    <3>1. a \in Nat /\ a <= Window(r) /\ secs = a \div Second /\ req[r].reset = now + a
          BY <1>1, <1>3, <2>1 DEF ResetSecs
    <3> HIDE DEF a, secs
    <3>2. secs \in Nat /\ secs * Second <= a /\ a < secs * Second + Second
          BY <1>1, <3>1, QuotientOf
    <3>3. (secs + 1) * Second = secs * Second + Second
          BY <1>1, <3>2
    <3>4. secs * Second \in Nat /\ (secs + 1) * Second \in Nat
          BY <1>1, <3>2
    <3>5. QED BY <1>1, <3>1, <3>2, <3>3, <3>4
  <2>2. CASE ~(req[r].reset > now)
    <3>1. secs = 0
          BY <2>2 DEF ResetSecs
    <3> HIDE DEF secs
    <3>2. QED BY <1>1, <2>2, <3>1
  <2>3. QED BY <2>1, <2>2
<1> HIDE DEF secs
<1>5. u \in Request /\ pc \in {"handler", "answered"}
      BY <1>1, <1>4 DEF Request
<1>6. req' = [req EXCEPT ![r] = u]
      BY DEF Tell, secs
<1>7. /\ u.at = req[r].at /\ u.allowed = req[r].allowed /\ u.pc \in {"handler", "answered"}
      /\ u.remaining = req[r].remaining /\ u.reset = req[r].reset /\ u.window = req[r].window
      /\ u.told = secs /\ u.toldAt = now
      BY <1>1, <1>5 DEF Request
<1> HIDE DEF u, pc
<1>8. UNCHANGED <<limiter, entries, deadline, cleared>>
      BY DEF Tell
<1>9. u.at <= now /\ u.pc \notin {"waiting", "stamped"} /\ u.pc # "stamped"
      BY <1>1, <1>7
<1>10. /\ u.told * Second <= Window(r)
       /\ u.reset < u.toldAt + (u.told + 1) * Second
       BY <1>4, <1>7
<1>11. QED BY <1>2, <1>5, <1>6, <1>7, <1>8, <1>9, <1>10, RequestMoves

-----------------------------------------------------------------------------
(* Entries *)

\* Entries go: those whose window is over, and one that was reset.
LEMMA EntriesGo ==
    ASSUME RateInv, store = "rate", UNCHANGED <<now, store, limiter, req>>,
           NEW S \in SUBSET DOMAIN entries, entries' = [k \in S |-> entries[k]],
           cleared \subseteq cleared', cleared' \subseteq Keys,
           deadline' \in Nat, now <= deadline' + Lag, deadline' <= now + ReapInterval,
           \A k \in S : deadline' <= entries[k].expires + ReapInterval + Lag,
           \A k \in DOMAIN entries \ S : k \in cleared' \/ entries[k].expires <= now
    PROVE  RateInv'
<1>1. /\ \A q \in Reqs : Key(q)' = Key(q) /\ Limit(q)' = Limit(q) /\ Window(q)' = Window(q)
      /\ Keys' = Keys
      BY Fixed
<1>2. RateTypeOK /\ ClockInv /\ WindowInv /\ NumbersInv /\ EntriesInv /\ ApartInv /\ LatestInv /\ ToldInv
      BY DEF RateInv
<1>3. DOMAIN entries' = S /\ \A k \in S : entries'[k] = entries[k]
      OBVIOUS
<1>4. RateTypeOK'
      BY <1>1, <1>2, <1>3 DEF RateTypeOK
<1>5. \A q \in Reqs : (Counts(q)' <=> Counts(q)) /\ (Opens(q)' <=> Opens(q))
      BY DEF Counts, Opens
<1>6. ClockInv'
      BY <1>2, <1>3, <1>5 DEF ClockInv
<1>7. WindowInv' /\ NumbersInv' /\ ToldInv'
      BY <1>1, <1>2, <1>5 DEF WindowInv, NumbersInv, ToldInv, Holds
<1>8. EntriesInv'
  <2> SUFFICES ASSUME NEW k \in S
               PROVE  EntryRight(k, entries[k].opener, entries[k].count, entries[k].expires)'
      BY <1>3 DEF EntriesInv, EntryRight, Opens, Counts, Holds, Key, Limit, Window
  <2>1. EntryRight(k, entries[k].opener, entries[k].count, entries[k].expires)
        BY <1>2 DEF EntriesInv
  <2>2. QED BY <1>3, <2>1 DEF EntryRight, Opens, Counts, Holds, Key, Limit, Window
<1>9. ApartInv'
      BY <1>1, <1>2, <1>5 DEF ApartInv
<1>10. LatestInv'
  <2> SUFFICES ASSUME NEW o \in Reqs, Opens(o), Key(o) \notin cleared'
               PROVE  IF Key(o) \in S
                      THEN \/ o = entries[Key(o)].opener
                           \/ /\ req[o].at + Window(o) <= now
                              /\ req[o].at + Window(o) <= req[entries[Key(o)].opener].at + Lag
                      ELSE req[o].at + Window(o) <= now
      BY <1>1, <1>3, <1>5 DEF LatestInv
  <2>1. IF Key(o) \in DOMAIN entries
        THEN \/ o = entries[Key(o)].opener
             \/ /\ req[o].at + Window(o) <= now
                /\ req[o].at + Window(o) <= req[entries[Key(o)].opener].at + Lag
        ELSE req[o].at + Window(o) <= now
        BY <1>2 DEF LatestInv
  <2>2. ASSUME Key(o) \in DOMAIN entries \ S, o = entries[Key(o)].opener
        PROVE  req[o].at + Window(o) <= now
        BY <1>2, <2>2 DEF EntriesInv, EntryRight
  <2>3. QED BY <2>1, <2>2
<1>11. QED BY <1>4, <1>6, <1>7, <1>8, <1>9, <1>10 DEF RateInv

\* reset() of a key: its requests are as they were.
LEMMA RateReset ==
    ASSUME RateInv, store = "rate", UNCHANGED <<now, store>>, NEW k \in DOMAIN entries, Reset(k)
    PROVE  RateInv'
<1>1. RateTypeOK /\ ClockInv
      BY DEF RateInv
<1>2. /\ cleared' = cleared \cup {k} /\ UNCHANGED <<limiter, req, deadline>>
      /\ entries' = [x \in DOMAIN entries \ {k} |-> entries[x]]
      BY DEF Reset
<1>3. cleared' \subseteq Keys
      BY <1>1, <1>2 DEF RateTypeOK
<1>4. QED BY <1>1, <1>2, <1>3, RateTypes, EntriesGo DEF ClockInv

\* The reaper's turn.
LEMMA RateReap ==
    ASSUME RateInv, store = "rate", UNCHANGED <<now, store>>, Reap
    PROVE  RateInv'
<1> DEFINE S == {x \in DOMAIN entries : now < entries[x].expires}
<1>1. RateTypeOK /\ ClockInv
      BY DEF RateInv
<1>2. /\ deadline' = now + ReapInterval /\ UNCHANGED <<limiter, req, cleared>>
      /\ entries' = [k \in S |-> entries[k]]
      BY DEF Reap
<1>3. /\ deadline' \in Nat /\ now <= deadline' + Lag /\ deadline' <= now + ReapInterval
      /\ \A k \in S : deadline' <= entries[k].expires + ReapInterval + Lag
      /\ \A k \in DOMAIN entries \ S : entries[k].expires <= now
      BY <1>1, <1>2, RateTypes
<1>4. cleared' \subseteq Keys /\ cleared \subseteq cleared'
      BY <1>1, <1>2 DEF RateTypeOK
<1>5. S \in SUBSET DOMAIN entries
      OBVIOUS
<1> HIDE DEF S
<1>6. QED BY <1>2, <1>3, <1>4, <1>5, EntriesGo

\* check_and_increment(): the request takes the next number of its key's window, or
\* opens a window that begins after all earlier ones of the key have ended, give or take
\* what it waited.
LEMMA RateCheck ==
    ASSUME RateInv, store = "rate", UNCHANGED <<now, store>>, NEW r \in Reqs, Check(r)
    PROVE  RateInv'
<1> DEFINE k == Key(r)
           t == req[r].at
           w == Window(r)
           L == Limit(r)
           e == Counted(r)
           o == e.opener
           c == e.count
           u == Result(r, e)
           newly == k \notin DOMAIN entries \/ t >= entries[k].expires
\* What the step does.
<1>1. RateTypeOK /\ ClockInv /\ WindowInv /\ NumbersInv /\ EntriesInv /\ ApartInv /\ LatestInv /\ ToldInv
      BY DEF RateInv
<1>2. /\ \A q \in Reqs : Key(q)' = Key(q) /\ Limit(q)' = Limit(q) /\ Window(q)' = Window(q)
      /\ Keys' = Keys /\ k \in Keys
      BY Fixed DEF Check, Keys
<1>3. /\ req[r].pc = "stamped" /\ ~Counts(r) /\ t \in Nat /\ t <= now /\ now <= t + Lag
      /\ now \in Nat /\ Lag \in Nat /\ w \in Nat /\ w > 0 /\ L \in Nat
      /\ UNCHANGED <<limiter, deadline, cleared>>
      BY <1>1, RateTypes DEF Check, ClockInv, Counts
<1>4. /\ DOMAIN entries' = DOMAIN entries \cup {k} /\ entries'[k] = e
      /\ \A x \in DOMAIN entries : x # k => entries'[x] = entries[x]
      BY DEF Check, Put
<1>5. /\ e \in Entry
      /\ newly => c = 1 /\ e.expires = t + w /\ o = r
      /\ ~newly => /\ k \in DOMAIN entries /\ t < entries[k].expires /\ c = entries[k].count + 1
                   /\ e.expires = entries[k].expires /\ o = entries[k].opener
  <2>1. CASE newly
    <3>1. e = [count |-> 1, expires |-> t + w, opener |-> r]
          BY <2>1 DEF Counted
    <3>2. QED BY <1>3, <2>1, <3>1 DEF Entry
  <2>2. CASE ~newly
    <3>1. k \in DOMAIN entries /\ e = [entries[k] EXCEPT !.count = @ + 1]
          BY <2>2 DEF Counted
    <3>2. entries[k] \in Entry /\ t < entries[k].expires
          BY <1>1, <1>3, <2>2, <3>1, RateTypes
    <3>3. QED BY <2>2, <3>1, <3>2 DEF Entry
  <2>3. QED BY <2>1, <2>2
<1> HIDE DEF e
<1>6. c \in Nat /\ c > 0 /\ e.expires \in Nat /\ o \in Reqs
      BY <1>5 DEF Entry
<1>7. /\ u \in Request /\ req' = [req EXCEPT ![r] = u] /\ u.at = t /\ u.pc = "checked"
      /\ (u.allowed <=> c <= L) /\ u.reset = e.expires /\ u.window = o
      /\ u.remaining = IF c <= L THEN L - c ELSE 0
  <2>1. req' = [req EXCEPT ![r] = u]
        BY DEF Check, e
  <2>2. req[r] \in Request
        BY <1>1, RateTypes
  <2>3. CASE c <= L
    <3>1. u = [req[r] EXCEPT !.pc = "checked", !.allowed = TRUE, !.reset = e.expires,
                             !.remaining = L - c, !.window = o]
          BY <2>3, (c <= L) = TRUE DEF Result
    <3>2. L - c \in Nat
          BY <1>3, <1>6, <2>3
    <3>3. /\ u \in Request /\ u.at = t /\ u.pc = "checked" /\ u.allowed = TRUE
          /\ u.reset = e.expires /\ u.remaining = L - c /\ u.window = o
          BY ONLY <1>6, <2>2, <3>1, <3>2 DEF Request
    <3>4. QED BY <2>1, <2>3, <3>3
  <2>4. CASE ~(c <= L)
    <3>1. u = [req[r] EXCEPT !.pc = "checked", !.allowed = FALSE, !.reset = e.expires,
                             !.remaining = 0, !.window = o]
          BY <2>4, (c <= L) = FALSE DEF Result
    <3>2. /\ u.at = t /\ u.pc = "checked" /\ u.allowed = FALSE
          /\ u.reset = e.expires /\ u.remaining = 0 /\ u.window = o
          BY ONLY <2>2, <3>1 DEF Request
    <3>3. u \in Request
      <4>1. u = [pc |-> "checked", at |-> t, allowed |-> FALSE, remaining |-> 0,
                 reset |-> e.expires, window |-> o, told |-> req[r].told,
                 toldAt |-> req[r].toldAt]
            BY ONLY <2>2, <3>1 DEF Request
      <4>2. t \in 0 .. MaxTime /\ req[r].told \in Nat /\ req[r].toldAt \in 0 .. MaxTime
            BY ONLY <2>2 DEF Request
      <4>3. QED BY ONLY <1>6, <4>1, <4>2 DEF Request
    <3>4. QED BY <2>1, <2>4, <3>2, <3>3
  <2>5. QED BY <2>3, <2>4
<1> HIDE DEF u
<1>8. req' \in [Reqs -> Request] /\ req'[r] = u /\ \A q \in Reqs : q # r => req'[q] = req[q]
      BY <1>1, <1>7, RateTypes
<1>9. RateTypeOK'
      BY <1>1, <1>2, <1>3, <1>4, <1>5, <1>8 DEF RateTypeOK, Request
<1>10. /\ \A q \in Reqs : q # r => (Counts(q)' <=> Counts(q)) /\ (Opens(q)' <=> Opens(q))
       /\ Counts(r)' /\ (Opens(r)' <=> o = r)
       BY <1>7, <1>8 DEF Counts, Opens
<1>11. \A q \in Reqs : \A p, m : Holds(req[q], p, m) => Holds(req'[q], p, m)
       BY <1>3, <1>8 DEF Holds, Counts
\* The window the request is counted in.
<1>12. ~newly => EntryRight(k, o, entries[k].count, e.expires)
       BY <1>1, <1>5 DEF EntriesInv
<1>13. ~newly => o # r
       BY <1>3, <1>12 DEF EntryRight, Opens
<1>14. /\ \A p \in Reqs : p = o => Opens(p)'
       /\ Key(o) = k /\ Limit(o) = L /\ Window(o) = w
       /\ e.expires = req'[o].at + w /\ t < e.expires /\ req'[o].at <= t + Lag
  <2>1. CASE newly
        BY <1>3, <1>5, <1>7, <1>8, <1>10, <2>1
  <2>2. CASE ~newly
    <3>1. Opens(o) /\ Key(o) = k /\ e.expires = req[o].at + Window(o)
          BY <1>12, <2>2 DEF EntryRight
    <3>2. Limit(o) = L /\ Window(o) = w /\ req[o].at <= now /\ req[o].at \in Nat
          BY <1>1, <1>6, <3>1, RateTypes, SameKey DEF ClockInv
    <3>3. QED BY <1>3, <1>5, <1>6, <1>8, <1>10, <1>13, <2>2, <3>1, <3>2
  <2>3. QED BY <2>1, <2>2
<1>15. ASSUME NEW n \in 1 .. c, n <= L
       PROVE  \E q \in Reqs : Holds(req'[q], o, L - n)
  <2>1. CASE n = c
    <3>1. Holds(req'[r], o, L - n)
          BY <1>7, <1>8, <1>15, <2>1 DEF Holds
    <3>2. QED BY <3>1
  <2>2. CASE n # c
    <3>1. ~newly /\ n \in 1 .. entries[k].count
          BY <1>1, <1>5, <1>6, <2>2, RateTypes
    <3>2. \E q \in Reqs : Holds(req[q], o, L - n)
          BY <1>12, <1>14, <1>15, <3>1 DEF EntryRight
    <3>3. QED BY <1>11, <3>2
  <2>3. QED BY <2>1, <2>2
<1>16. ASSUME NEW q \in Reqs, Counts(q), req[q].window = o, req[q].allowed
       PROVE  q # r /\ L < c + req[q].remaining
  <2>1. Opens(o)
        BY <1>1, <1>6, <1>16 DEF WindowInv
  <2>2. ~newly
        BY <1>3, <1>5, <2>1 DEF Opens
  <2>3. L <= entries[k].count + req[q].remaining
        BY <1>12, <1>14, <1>16, <2>2 DEF EntryRight
  <2>4. QED BY <1>1, <1>3, <1>5, <1>16, <2>2, <2>3, RateTypes
\* The parts of the invariant.
<1>17. ClockInv'
  <2>1. deadline <= e.expires + ReapInterval + Lag
        BY <1>1, <1>3, <1>6, <1>14, RateTypes DEF ClockInv
  <2>2. QED BY <1>1, <1>3, <1>4, <1>7, <1>8, <1>10, <2>1 DEF ClockInv
<1>18. WindowInv'
  <2> SUFFICES ASSUME NEW q \in Reqs, NEW p \in Reqs, Counts(q)', req'[q].window = p
               PROVE  /\ Opens(p)' /\ Key(p) = Key(q) /\ req'[q].reset = req'[p].at + Window(q)
                      /\ req'[q].at < req'[q].reset /\ req'[p].at <= req'[q].at + Lag
                      /\ req'[q].allowed => req'[q].remaining < Limit(q)
                      /\ ~req'[q].allowed =>
                            \A m \in 0 .. Limit(q) - 1 : \E x \in Reqs : Holds(req'[x], p, m)
      BY <1>2 DEF WindowInv, Holds
  <2>1. CASE q = r
    <3>1. p = o
          BY <1>7, <1>8, <2>1
    <3>2. u.allowed => u.remaining < L
          BY <1>3, <1>6, <1>7
    <3>3. ASSUME ~u.allowed, NEW m \in 0 .. L - 1
          PROVE  \E x \in Reqs : Holds(req'[x], o, m)
      <4>1. L - m \in 1 .. c /\ L - m <= L /\ m = L - (L - m)
            BY <1>3, <1>6, <1>7, <3>3
      <4>2. QED BY <1>15, <4>1
    <3>4. QED BY <1>7, <1>8, <1>14, <2>1, <3>1, <3>2, <3>3
  <2>2. CASE q # r
    <3>1. Counts(q) /\ req[q].window = p
          BY <1>8, <1>10, <2>2
    <3>2. p # r
          BY <1>1, <1>3, <3>1 DEF WindowInv, Opens
    <3>3. QED BY <1>1, <1>8, <1>10, <1>11, <2>2, <3>1, <3>2 DEF WindowInv
  <2>3. QED BY <2>1, <2>2
<1>19. NumbersInv'
  <2> SUFFICES ASSUME NEW p \in Reqs, NEW q \in Reqs, p # q, Counts(p)', Counts(q)',
                      req'[p].window = req'[q].window, req'[p].allowed, req'[q].allowed
               PROVE  req'[p].remaining # req'[q].remaining
      BY DEF NumbersInv
  <2>1. ASSUME NEW x \in Reqs, x # r, Counts(x), req[x].window = o, req[x].allowed, u.allowed
        PROVE  req[x].remaining # u.remaining
        BY <1>1, <1>3, <1>6, <1>7, <1>16, <2>1, RateTypes
  <2>2. CASE p = r
        BY <1>7, <1>8, <1>10, <2>1, <2>2
  <2>3. CASE q = r
        BY <1>7, <1>8, <1>10, <2>1, <2>3
  <2>4. CASE p # r /\ q # r
        BY <1>1, <1>8, <1>10, <2>4 DEF NumbersInv
  <2>5. QED BY <2>2, <2>3, <2>4
<1>20. EntriesInv'
  <2> SUFFICES ASSUME NEW x \in DOMAIN entries', NEW p \in Reqs, NEW n \in Nat, NEW f,
                      p = entries'[x].opener, n = entries'[x].count, f = entries'[x].expires
               PROVE  /\ Opens(p)' /\ Key(p) = x /\ f = req'[p].at + Window(p)
                      /\ \A m \in 1 .. n : m <= Limit(p) =>
                            \E q \in Reqs : Holds(req'[q], p, Limit(p) - m)
                      /\ \A q \in Reqs : Counts(q)' /\ req'[q].window = p /\ req'[q].allowed =>
                            Limit(p) <= n + req'[q].remaining
    <3>1. \A x \in DOMAIN entries' : entries'[x].opener \in Reqs /\ entries'[x].count \in Nat
          BY <1>9 DEF RateTypeOK, Entry
    <3>2. QED BY <1>3, <3>1 DEF EntriesInv, EntryRight, Opens, Counts, Holds, Key, Limit, Window
  <2>1. CASE x = k
    <3>1. p = o /\ n = c /\ f = e.expires
          BY <1>4, <2>1
    <3>2. ASSUME NEW q \in Reqs, Counts(q)', req'[q].window = o, req'[q].allowed
          PROVE  L <= c + req'[q].remaining
      <4>1. CASE q = r
            BY <1>3, <1>6, <1>7, <1>8, <3>2, <4>1
      <4>2. CASE q # r
        <5>1. L < c + req[q].remaining
              BY <1>8, <1>10, <1>16, <3>2, <4>2
        <5>2. QED BY <1>1, <1>3, <1>6, <1>8, <4>2, <5>1, RateTypes
      <4>3. QED BY <4>1, <4>2
    <3>3. QED BY <1>14, <1>15, <2>1, <3>1, <3>2
  <2>2. CASE x # k
    <3>1. /\ x \in DOMAIN entries /\ entries'[x] = entries[x]
          /\ EntryRight(x, p, n, entries[x].expires) /\ f = entries[x].expires
          BY <1>1, <1>4, <2>2 DEF EntriesInv
    <3>2. Opens(p) /\ Key(p) = x /\ p # r /\ p # o
          BY <1>3, <1>14, <2>2, <3>1 DEF EntryRight, Opens
    <3>3. \A q \in Reqs : Counts(q)' /\ req'[q].window = p => q # r
          BY <1>7, <1>8, <3>2
    <3>4. QED BY <1>8, <1>10, <1>11, <3>1, <3>2, <3>3 DEF EntryRight
  <2>3. QED BY <2>1, <2>2
<1>21. ASSUME newly, k \notin cleared, NEW p \in Reqs, Opens(p), Key(p) = k
       PROVE  p # r /\ req[p].at + w <= now /\ req[p].at + w <= t + Lag
  <2>1. Window(p) = w /\ req[p].at \in Nat /\ p # r
        BY <1>1, <1>3, <1>21, RateTypes, SameKey DEF Opens
  <2>2. CASE k \notin DOMAIN entries
        BY <1>1, <1>3, <1>21, <2>1, <2>2 DEF LatestInv
  <2>3. CASE k \in DOMAIN entries
    <3> DEFINE x == entries[k].opener
    <3>1. x \in Reqs /\ Key(x) = k /\ entries[k].expires = req[x].at + Window(x)
          BY <1>1, <2>3, RateTypes DEF EntriesInv, EntryRight
    <3>2. Window(x) = w /\ req[x].at \in Nat
          BY <1>1, <3>1, RateTypes, SameKey
    <3>3. req[x].at + w <= t
          BY <1>21, <2>3, <3>1, <3>2
    <3>4. \/ p = x
          \/ req[p].at + w <= now /\ req[p].at + w <= req[x].at + Lag
          BY <1>1, <1>21, <2>1, <2>3 DEF LatestInv
    <3>5. QED BY <1>3, <2>1, <3>2, <3>3, <3>4
  <2>4. QED BY <2>2, <2>3
<1>22. ApartInv'
  <2> SUFFICES ASSUME NEW p \in Reqs, NEW q \in Reqs, Opens(p)', Opens(q)', Key(p) = Key(q),
                      Key(p) \notin cleared, p # q
               PROVE  \/ req'[p].at + Window(p) <= req'[q].at + Lag
                      \/ req'[q].at + Window(q) <= req'[p].at + Lag
      BY <1>2, <1>3 DEF ApartInv
  <2>1. CASE p = r
    <3>1. newly /\ Opens(q) /\ Key(q) = k /\ Window(q) = w
          BY <1>1, <1>10, <1>13, <2>1, RateTypes, SameKey
    <3>2. QED BY <1>7, <1>8, <1>21, <2>1, <3>1
  <2>2. CASE q = r
    <3>1. newly /\ Opens(p) /\ Key(p) = k /\ Window(p) = w
          BY <1>1, <1>10, <1>13, <2>2, RateTypes, SameKey
    <3>2. QED BY <1>7, <1>8, <1>21, <2>2, <3>1
  <2>3. CASE p # r /\ q # r
        BY <1>1, <1>8, <1>10, <2>3 DEF ApartInv
  <2>4. QED BY <2>1, <2>2, <2>3
<1>23. LatestInv'
  <2> SUFFICES ASSUME NEW p \in Reqs, Opens(p)', Key(p) \notin cleared
               PROVE  IF Key(p) \in DOMAIN entries'
                      THEN \/ p = entries'[Key(p)].opener
                           \/ /\ req'[p].at + Window(p) <= now
                              /\ req'[p].at + Window(p) <= req'[entries'[Key(p)].opener].at + Lag
                      ELSE req'[p].at + Window(p) <= now
      BY <1>2, <1>3 DEF LatestInv
  <2>1. CASE p = r
        BY <1>4, <1>10, <2>1
  <2>2. CASE p # r /\ Key(p) = k /\ newly
    <3>1. Opens(p) /\ Window(p) = w /\ req'[p].at = req[p].at /\ req'[o].at = t
          BY <1>1, <1>5, <1>7, <1>8, <1>10, <2>2, RateTypes, SameKey
    <3>2. req[p].at + w <= now /\ req[p].at + w <= t + Lag
          BY <1>21, <2>2, <3>1
    <3>3. QED BY <1>4, <2>2, <3>1, <3>2
  <2>3. CASE p # r /\ Key(p) = k /\ ~newly
    <3>1. Opens(p) /\ k \in DOMAIN entries /\ o = entries[k].opener /\ req'[o].at = req[o].at
          BY <1>5, <1>6, <1>8, <1>10, <1>13, <2>3
    <3>2. \/ p = o
          \/ req[p].at + Window(p) <= now /\ req[p].at + Window(p) <= req[o].at + Lag
          BY <1>1, <2>3, <3>1 DEF LatestInv
    <3>3. QED BY <1>4, <1>8, <2>3, <3>1, <3>2
  <2>4. CASE p # r /\ Key(p) # k
    <3>1. Opens(p) /\ req'[p] = req[p]
          BY <1>8, <1>10, <2>4
    <3>2. ASSUME NEW x \in DOMAIN entries, x = Key(p)
          PROVE  /\ x \in DOMAIN entries' /\ entries'[x] = entries[x]
                 /\ req'[entries[x].opener] = req[entries[x].opener]
      <4>1. entries[x].opener \in Reqs /\ Counts(entries[x].opener)
            BY <1>1, RateTypes DEF EntriesInv, EntryRight, Opens
      <4>2. QED BY <1>3, <1>4, <1>8, <2>4, <3>2, <4>1
    <3>3. Key(p) \in DOMAIN entries' => Key(p) \in DOMAIN entries
          BY <1>4, <2>4
    <3>4. QED BY <1>1, <3>1, <3>2, <3>3 DEF LatestInv
  <2>5. QED BY <2>1, <2>2, <2>3, <2>4
<1>24. ToldInv'
       BY <1>1, <1>2, <1>7, <1>8 DEF ToldInv
<1>25. QED BY <1>9, <1>17, <1>18, <1>19, <1>20, <1>22, <1>23, <1>24 DEF RateInv

\* Every step keeps the limiter's invariant.
LEMMA RateInductive == RateInv /\ [Next]_storesVars => RateInv'
<1> SUFFICES ASSUME RateInv, [Next]_storesVars PROVE RateInv'
    OBVIOUS
<1>1. CASE Tick
      BY <1>1, RateTick
<1>2. CASE RateLimited
      BY <1>2, RateStamp, RateCheck, RateTell, RateRespond, RateReset, RateReap DEF RateLimited
<1>3. CASE Cached \/ UNCHANGED storesVars
  <2>1. UNCHANGED <<now, store, limiter, entries, req, deadline, cleared>>
        BY <1>3 DEF Cached, storesVars, rateVars
  <2>2. RateTypeOK' /\ ClockInv' = ClockInv
        BY <2>1 DEF RateInv, RateTypeOK, ClockInv, Counts, Keys, Key
  <2>3. (WindowInv /\ NumbersInv /\ EntriesInv /\ ApartInv /\ LatestInv /\ ToldInv)'
        BY <2>1 DEF RateInv, WindowInv, NumbersInv, EntriesInv, EntryRight, ApartInv, LatestInv,
                    ToldInv, Opens, Counts, Holds, Key, Limit, Window
  <2>4. QED BY <2>1, <2>2, <2>3 DEF RateInv
<1>4. QED BY <1>1, <1>2, <1>3 DEF Next

-----------------------------------------------------------------------------
(* What is let through and told *)

\* There are as many numbers below a number.
LEMMA NumbersBelow ==
    ASSUME NEW n \in Nat
    PROVE  IsFiniteSet(0 .. n - 1) /\ Cardinality(0 .. n - 1) = n
<1>1. 0 \in Int /\ n - 1 \in Int
      OBVIOUS
<1>2. /\ IsFiniteSet(0 .. n - 1)
      /\ Cardinality(0 .. n - 1) = IF 0 > n - 1 THEN 0 ELSE n - 1 - 0 + 1
      BY <1>1, FS_Interval
<1>3. QED BY <1>2

\* A request that was let through was counted, whichever store the behaviour uses.
LEMMA AllowedCounts ==
    ASSUME RateInv, NEW r \in Reqs, req[r].allowed
    PROVE  Counts(r)
<1>1. CASE store = "rate"
      BY <1>1 DEF RateInv, ClockInv
<1>2. CASE store = "cache"
  <2>1. req[r] = Waiting(r)
        BY <1>2 DEF RateInv
  <2>2. QED BY <2>1 DEF Waiting
<1>3. QED BY <1>1, <1>2 DEF RateInv

\* The requests let through in one window are told numbers below the limit, no two of
\* them the same, so they are at most as many as the limit.
LEMMA OneWindow ==
    ASSUME RateInv, NEW r \in Reqs, NEW G \in SUBSET Reqs,
           \A q \in G : /\ Counts(q) /\ req[q].allowed /\ Key(q) = Key(r)
                        /\ \A p \in G : req[q].window = req[p].window
    PROVE  /\ Cardinality(G) <= Limit(r)
           /\ (\A m \in 0 .. Limit(r) - 1 : \E q \in G : req[q].remaining = m)
                 => Cardinality(G) = Limit(r)
<1> DEFINE L == Limit(r)
           f == [q \in G |-> req[q].remaining]
<1>1. RateTypeOK /\ L \in Nat
      BY RateTypes DEF RateInv
<1>2. \A q \in G : req[q].remaining \in 0 .. L - 1
  <2> TAKE q \in G
  <2>1. req[q].remaining < Limit(q) /\ req[q].remaining \in Nat /\ Limit(q) = L
        BY <1>1, RateTypes, SameKey DEF RateInv, WindowInv
  <2>2. QED BY <1>1, <2>1
<1>3. \A q, p \in G : q # p => req[p].remaining # req[q].remaining
      BY DEF RateInv, NumbersInv
<1>4. f \in [G -> 0 .. L - 1] /\ \A q \in G : f[q] = req[q].remaining
      BY <1>2
<1> HIDE DEF f
<1>5. f \in Injection(G, 0 .. L - 1)
      BY <1>3, <1>4 DEF Injection, IsInjective
<1>6. IsFiniteSet(0 .. L - 1) /\ Cardinality(0 .. L - 1) = L
      BY <1>1, NumbersBelow
<1>7. IsFiniteSet(G) /\ Cardinality(G) <= L /\ (Cardinality(G) = L <=> f \in Surjection(G, 0 .. L - 1))
      BY <1>5, <1>6, FS_Injection
<1>8. (\A m \in 0 .. L - 1 : \E q \in G : req[q].remaining = m) => f \in Surjection(G, 0 .. L - 1)
      BY <1>4 DEF Surjection
<1>9. QED BY <1>7, <1>8

\* The middleware's answers: what the invariant says of them.
LEMMA QuotaHolds == RateInv => QuotaTruthful
<1> SUFFICES ASSUME RateInv, NEW r \in Reqs, req[r].pc \in {"handler", "answered"},
                    NEW G, G = {q \in Together(r) : req[q].allowed}
             PROVE  /\ Cardinality(G) <= Limit(r)
                    /\ req[r].allowed => \A q \in G \ {r} : req[q].remaining # req[r].remaining
                    /\ ~req[r].allowed => Cardinality(G) = Limit(r)
                    /\ req[r].told * Second <= Window(r)
                    /\ \A q \in Together(r) : req[q].at < req[r].toldAt + (req[r].told + 1) * Second
    BY DEF QuotaTruthful
<1> DEFINE o == req[r].window
<1>1. RateTypeOK /\ Counts(r) /\ o \in Reqs
      BY RateTypes DEF RateInv, Counts
<1>2. \A q \in Together(r) : /\ q \in Reqs /\ Counts(q) /\ req[q].window = o /\ Key(q) = Key(r)
                             /\ req[q].reset = req[r].reset /\ req[q].at < req[q].reset
  <2> TAKE q \in Together(r)
  <2>1. q \in Reqs /\ Counts(q) /\ req[q].window = o
        BY DEF Together, Counts
  <2>2. /\ Key(q) = Key(o) /\ req[q].reset = req[o].at + Window(q) /\ req[q].at < req[q].reset
        /\ Key(r) = Key(o) /\ req[r].reset = req[o].at + Window(r)
        BY <1>1, <2>1 DEF RateInv, WindowInv
  <2>3. Window(q) = Window(r)
        BY <1>1, <2>1, <2>2, RateTypes, SameKey
  <2>4. QED BY <2>1, <2>2, <2>3
<1>3. G \in SUBSET Reqs /\ \A q \in G : /\ Counts(q) /\ req[q].allowed /\ Key(q) = Key(r)
                                        /\ \A p \in G : req[q].window = req[p].window
      BY <1>2
<1>4. /\ Cardinality(G) <= Limit(r)
      /\ (\A m \in 0 .. Limit(r) - 1 : \E q \in G : req[q].remaining = m)
            => Cardinality(G) = Limit(r)
      BY <1>3, OneWindow
<1>5. ASSUME req[r].allowed, NEW q \in G \ {r} PROVE req[q].remaining # req[r].remaining
      BY <1>1, <1>2, <1>5 DEF RateInv, NumbersInv
<1>6. ASSUME ~req[r].allowed PROVE Cardinality(G) = Limit(r)
  <2>1. \A m \in 0 .. Limit(r) - 1 : \E q \in Reqs : Holds(req[q], o, m)
        BY <1>1, <1>6 DEF RateInv, WindowInv
  <2>2. \A m \in 0 .. Limit(r) - 1 : \E q \in G : req[q].remaining = m
        BY <2>1 DEF Holds, Together
  <2>3. QED BY <1>4, <2>2
<1>7. /\ req[r].told * Second <= Window(r)
      /\ req[r].reset < req[r].toldAt + (req[r].told + 1) * Second
      BY DEF RateInv, ToldInv
<1>8. ASSUME NEW q \in Together(r) PROVE req[q].at < req[r].toldAt + (req[r].told + 1) * Second
  <2>1. /\ req[q].at \in Nat /\ req[r].reset \in Nat /\ req[r].toldAt \in Nat
        /\ req[r].told + 1 \in Nat /\ Second \in Nat
        BY <1>1, <1>2, RateTypes
  <2>2. (req[r].told + 1) * Second \in Nat
        BY <2>1
  <2>3. QED BY <1>2, <1>7, <2>1, <2>2
<1>9. QED BY <1>4, <1>5, <1>6, <1>7, <1>8

\* Requests that came in an interval are in windows that begin apart from each other and
\* in an interval not much longer, so that a request is told apart by the number it got
\* and by how many times the distance its window began after the first possible start.
LEMMA WindowsMet ==
    ASSUME RateInv, NEW r \in Reqs, Key(r) \notin cleared, Lag < Window(r),
           NEW t \in Nat, NEW n \in Nat \ {0}
    PROVE  Cardinality(Granted(Key(r), t, n)) <= Limit(r) * Windows(n, Window(r))
<1> DEFINE L == Limit(r)
           w == Window(r)
           d == w - Lag
           X == n + w + Lag - 2
           M == X \div d
           G == Granted(Key(r), t, n)
           start(q) == req[req[q].window].at
           x(q) == start(q) + w - 1 - t
           f == [q \in G |-> <<req[q].remaining, x(q) \div d>>]
<1>1. /\ RateTypeOK /\ L \in Nat /\ w \in Nat /\ w > 0 /\ Lag \in Nat /\ d \in Nat \ {0} /\ X \in Nat
      BY RateTypes DEF RateInv
<1>2. M \in Nat
      BY <1>1, QuotientOf
<1>3. ASSUME NEW q \in G
      PROVE  /\ q \in Reqs /\ Counts(q) /\ req[q].allowed /\ Key(q) = Key(r)
             /\ req[q].window \in Reqs /\ Opens(req[q].window) /\ Key(req[q].window) = Key(r)
             /\ Window(req[q].window) = w /\ start(q) \in Nat
             /\ x(q) \in Nat /\ x(q) <= X
             /\ req[q].remaining \in 0 .. L - 1
  <2>1. q \in Reqs /\ req[q].allowed /\ Key(q) = Key(r) /\ req[q].at \in t .. t + n - 1
        BY DEF Granted
  <2>2. Counts(q)
        BY <2>1, AllowedCounts
  <2>3. req[q].window \in Reqs /\ Window(q) = w /\ Limit(q) = L /\ start(q) \in Nat /\ req[q].at \in Nat
        BY <1>1, <2>1, RateTypes, SameKey
  <2>4. /\ Opens(req[q].window) /\ Key(req[q].window) = Key(r) /\ req[q].reset = start(q) + w
        /\ req[q].at < req[q].reset /\ start(q) <= req[q].at + Lag /\ req[q].remaining < L
        BY <2>1, <2>2, <2>3 DEF RateInv, WindowInv
  <2>5. Window(req[q].window) = w
        BY <1>1, <2>3, <2>4, RateTypes, SameKey
  <2>6. t < start(q) + w /\ start(q) <= t + n - 1 + Lag
        BY <1>1, <2>1, <2>3, <2>4
  <2>7. x(q) \in Nat /\ x(q) <= X
        BY <1>1, <2>3, <2>6
  <2>8. req[q].remaining \in 0 .. L - 1
        BY <1>1, <2>1, <2>4, RateTypes
  <2>9. QED BY <2>1, <2>2, <2>3, <2>4, <2>5, <2>7, <2>8
<1>4. ASSUME NEW q \in G PROVE x(q) \div d \in 0 .. M
      BY <1>1, <1>2, <1>3, <1>4, QuotientOf, QuotientGrows
<1>5. ASSUME NEW q \in G, NEW p \in G, x(q) \div d = x(p) \div d,
             req[q].remaining = req[p].remaining
      PROVE  q = p
  <2>1. x(q) < x(p) + d /\ x(p) < x(q) + d
    <3> DEFINE a == x(q)
               b == x(p)
    <3>1. a \in Nat /\ b \in Nat /\ a \div d = b \div d
          BY <1>3, <1>5
    <3> HIDE DEF a, b, d
    <3>2. /\ (a \div d) * d <= a /\ a < (a \div d) * d + d
          /\ (b \div d) * d <= b /\ b < (b \div d) * d + d
          /\ (a \div d) * d \in Nat
          BY <1>1, <3>1, QuotientOf
    <3>3. a < b + d /\ b < a + d
          BY <1>1, <3>1, <3>2
    <3>4. QED BY <3>3 DEF a, b
  <2>2. start(q) + Lag < start(p) + w /\ start(p) + Lag < start(q) + w
        BY <1>1, <1>3, <2>1
  <2>3. req[q].window = req[p].window
    <3>1. /\ ApartInv /\ Key(r) \notin cleared
          /\ req[q].window \in Reqs /\ Opens(req[q].window) /\ Key(req[q].window) = Key(r)
          /\ req[p].window \in Reqs /\ Opens(req[p].window) /\ Key(req[p].window) = Key(r)
          /\ Window(req[q].window) = w /\ Window(req[p].window) = w
          /\ start(q) \in Nat /\ start(p) \in Nat
          BY <1>3 DEF RateInv
    <3>2. QED BY ONLY <1>1, <2>2, <3>1 DEF ApartInv
  <2>4. /\ NumbersInv /\ q \in Reqs /\ p \in Reqs /\ Counts(q) /\ Counts(p)
        /\ req[q].allowed /\ req[p].allowed
        BY <1>3 DEF RateInv
  <2>5. QED BY ONLY <1>5, <2>3, <2>4 DEF NumbersInv
<1> DEFINE A == 0 .. L - 1
           B == 0 .. M
<1>6. f \in [G -> A \X B] /\ \A q \in G : f[q] = <<req[q].remaining, x(q) \div d>>
      BY <1>3, <1>4
<1> HIDE DEF f, x, start, d, X
<1>7. f \in Injection(G, A \X B)
  <2>1. \A q, p \in G : f[q] = f[p] => q = p
        BY <1>5, <1>6
  <2>2. QED BY <1>6, <2>1 DEF Injection, IsInjective
<1>8. /\ IsFiniteSet(A) /\ Cardinality(A) = L
      /\ IsFiniteSet(B) /\ Cardinality(B) = M + 1
  <2>1. B = 0 .. (M + 1) - 1 /\ M + 1 \in Nat
        BY <1>2
  <2>2. QED BY <1>1, <2>1, NumbersBelow
<1> HIDE DEF A, B, M
<1>9. IsFiniteSet(A \X B) /\ Cardinality(A \X B) = L * (M + 1)
      BY <1>8, FS_Product
<1>10. Cardinality(G) <= L * (M + 1)
       BY <1>7, <1>9, FS_Injection
<1>11. QED BY <1>10 DEF Windows, M, d, X

\* What the invariant says of the store's size and of the requests let through.
LEMMA BoundsHold == RateInv => RateBounds
<1> SUFFICES ASSUME RateInv PROVE RateBounds
    OBVIOUS
<1>1. RateTypeOK
      BY DEF RateInv
<1>2. \A k \in DOMAIN entries : now <= entries[k].expires + ReapInterval + 2 * Lag
  <2>1. CASE store = "rate"
        BY <1>1, <2>1, RateTypes DEF RateInv, ClockInv
  <2>2. CASE store = "cache"
        BY <2>2 DEF RateInv
  <2>3. QED BY <2>1, <2>2 DEF RateInv
<1>3. \A t \in 0 .. MaxTime : t \in Nat
      BY <1>1, RateTypes
<1>4. \A n \in 1 .. MaxTime + 1 : n \in Nat \ {0}
      BY <1>1, RateTypes
<1>5. QED BY <1>1, <1>2, <1>3, <1>4, WindowsMet DEF RateBounds

\* RateLimit, for any requests, limits, windows, tiers, reaper and delays: no more than
\* the limit passes for each window that an interval can meet, as long as requests wait
\* for their locks for less than a window, and no entry outlives its window by more than
\* the reaper's interval and the delays.
THEOREM Limits == Spec => []RateBounds
<1>1. Init => RateInv
      BY RateInitHolds
<1>2. RateInv /\ [Next]_storesVars => RateInv'
      BY RateInductive
<1>3. RateInv => RateBounds
      BY BoundsHold
<1>4. QED BY <1>1, <1>2, <1>3, PTL DEF Spec

\* RateResult and its headers, whatever the delays: the remaining count a client is told
\* is its own, a refusal means that its window has let the whole limit through, and a
\* request that comes a second after the whole seconds told is counted in another window.
THEOREM Quotas == Spec => []QuotaTruthful
<1>1. Init => RateInv
      BY RateInitHolds
<1>2. RateInv /\ [Next]_storesVars => RateInv'
      BY RateInductive
<1>3. RateInv => QuotaTruthful
      BY QuotaHolds
<1>4. QED BY <1>1, <1>2, <1>3, PTL DEF Spec
=============================================================================
