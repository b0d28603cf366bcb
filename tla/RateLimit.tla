------------------------------- MODULE RateLimit -------------------------------
(***************************************************************************)
(* The rate-limiting middleware of the ladoo crate and its in-memory       *)
(* store: a fixed window per key, counted in a concurrent map, and a       *)
(* reaper that removes expired windows.  A request reads the clock, has    *)
(* the lock of its key's entry some time later, and reads the clock again  *)
(* for what it tells its client: three steps, and time may pass between    *)
(* them.                                                                   *)
(***************************************************************************)
EXTENDS Clock, Sequences, FiniteSets, FiniteSetsExt

CONSTANTS Reqs,          \* requests
          Attr,          \* what each says of its sender: ip, header, tier
          Limiters,      \* configurations the builders make
          ReapInterval,  \* of the store's reaper
          Second,        \* ticks in a second
          Lag            \* bound: ticks between the clock and an entry's lock, and
                         \* between the reaper's deadline and its turn

\* Limits and windows are what the builders were given; a window of no length would
\* limit nothing.
ASSUME RateAssumption ==
    /\ IsFiniteSet(Reqs) /\ ReapInterval \in Nat /\ Second \in Nat \ {0} /\ Lag \in Nat
    /\ \A c \in Limiters :
          \/ c.kind = "simple" /\ c.limit \in Nat /\ c.window \in Nat \ {0}
          \/ /\ c.kind = "tiered" /\ c.tiers # <<>>
             /\ c.tiers \in Seq([name : STRING, limit : Nat, window : Nat \ {0}])

VARIABLES
    limiter,   \* the middleware's configuration
    entries,   \* MemoryStore::entries
    req,       \* each request: where it is, the time it read, its RateResult, what its
               \* client is told; as history when that was, and whose window it is in
    deadline,  \* when the reaper wakes
    cleared    \* history: keys that reset() was called for

rateVars == <<limiter, entries, req, deadline, cleared>>

-----------------------------------------------------------------------------
(* Configuration *)

\* RateLimit::new().
NewLimit == [kind |-> "simple", limit |-> 100, window |-> 900, key |-> "ip"]

\* limit(), window() and key() do nothing to a tiered configuration.
WithLimit(c, n) == IF c.kind = "simple" THEN [c EXCEPT !.limit = n] ELSE c
WithWindow(c, w) == IF c.kind = "simple" THEN [c EXCEPT !.window = w] ELSE c
WithKey(c, k) == IF c.kind = "simple" THEN [c EXCEPT !.key = k] ELSE c

\* tier(): the first one replaces a simple configuration.
WithTier(c, name, n, w) ==
    LET t == [name |-> name, limit |-> n, window |-> w]
    IN  IF c.kind = "simple" THEN [kind |-> "tiered", tiers |-> <<t>>, resolve |-> FALSE]
        ELSE [c EXCEPT !.tiers = Append(@, t)]

\* resolve_tier() before the first tier() is lost.
ResolveTier(c) == IF c.kind = "tiered" THEN [c EXCEPT !.resolve = TRUE] ELSE c

\* extract_key(): one bucket per sender, or one for everybody in a tier.
ExtractKey(c, a) ==
    IF c.kind = "simple" THEN a[c.key] ELSE <<"tier", IF c.resolve THEN a.tier ELSE "default">>

\* resolve_limit_and_window(): the first tier of that name, or else the first one.
ResolveLimit(c, a) ==
    IF c.kind = "simple" THEN [limit |-> c.limit, window |-> c.window]
    ELSE LET named == {k \in DOMAIN c.tiers : c.resolve /\ c.tiers[k].name = a.tier}
             t == c.tiers[IF named = {} THEN 1 ELSE Min(named)]
         IN  [limit |-> t.limit, window |-> t.window]

Key(r) == ExtractKey(limiter, Attr[r])
Limit(r) == ResolveLimit(limiter, Attr[r]).limit
Window(r) == ResolveLimit(limiter, Attr[r]).window

-----------------------------------------------------------------------------

Keys == {Key(r) : r \in Reqs}
\* A request is in a window of its own until it is counted in one.
Waiting(r) == [pc |-> "waiting", at |-> 0, allowed |-> FALSE, remaining |-> 0, reset |-> 0,
               window |-> r, told |-> 0, toldAt |-> 0]

\* An entry, with the request that opened its window as history.
Entry == [count : Nat \ {0}, expires : Nat, opener : Reqs]

\* Type invariant; remaining and told are unsigned numbers.
RateTypeOK ==
    /\ now \in 0 .. MaxTime
    /\ limiter \in Limiters
    /\ DOMAIN entries \subseteq Keys /\ \A k \in DOMAIN entries : entries[k] \in Entry
    /\ req \in [Reqs -> [pc : {"waiting", "stamped", "checked", "handler", "answered"},
                         at : 0 .. MaxTime, allowed : BOOLEAN, remaining : Nat, reset : Nat,
                         window : Reqs, told : Nat, toldAt : 0 .. MaxTime]]
    /\ deadline \in Nat
    /\ cleared \subseteq Keys

RateInit ==
    /\ limiter \in Limiters
    /\ entries = <<>>
    /\ req = [r \in Reqs |-> Waiting(r)]
    /\ deadline = ReapInterval
    /\ cleared = {}

\* The middleware is called: check_and_increment() reads the clock.
Stamp(r) ==
    /\ req[r].pc = "waiting"
    /\ req' = [req EXCEPT ![r].pc = "stamped", ![r].at = now]
    /\ UNCHANGED <<limiter, entries, deadline, cleared>>

Put(k, e) == [x \in DOMAIN entries \cup {k} |-> IF x = k THEN e ELSE entries[x]]

\* Mutant of Counted: the window has no length.
CountedNoWindow(r) ==
    IF Key(r) \notin DOMAIN entries \/ req[r].at >= entries[Key(r)].expires
    THEN [count |-> 1, expires |-> req[r].at, opener |-> r]
    ELSE [entries[Key(r)] EXCEPT !.count = @ + 1]

\* Mutant of Counted: an expired window goes on.
CountedForEver(r) ==
    IF Key(r) \notin DOMAIN entries
    THEN [count |-> 1, expires |-> req[r].at + Window(r), opener |-> r]
    ELSE [entries[Key(r)] EXCEPT !.count = @ + 1]

\* The entry a request leaves: or_insert_with, or a new window, or one more.
Counted(r) ==
    IF Key(r) \notin DOMAIN entries \/ req[r].at >= entries[Key(r)].expires
    THEN [count |-> 1, expires |-> req[r].at + Window(r), opener |-> r]
    ELSE [entries[Key(r)] EXCEPT !.count = @ + 1]

\* The RateResult.
Result(r, e) ==
    [req[r] EXCEPT !.pc = "checked", !.allowed = e.count <= Limit(r), !.reset = e.expires,
                   !.remaining = IF e.count <= Limit(r) THEN Limit(r) - e.count ELSE 0,
                   !.window = e.opener]

\* check_and_increment() has the entry's lock.
Check(r) ==
    /\ req[r].pc = "stamped"
    /\ entries' = Put(Key(r), Counted(r))
    /\ req' = [req EXCEPT ![r] = Result(r, Counted(r))]
    /\ UNCHANGED <<limiter, deadline, cleared>>

\* The whole seconds from now to the window's end.
ResetSecs(r) == IF req[r].reset > now THEN (req[r].reset - now) \div Second ELSE 0

\* The middleware reads the clock, and answers 429 or calls the rest of the chain.
Tell(r) ==
    /\ req[r].pc = "checked"
    /\ req' = [req EXCEPT ![r].pc = IF req[r].allowed THEN "handler" ELSE "answered",
                          ![r].told = ResetSecs(r), ![r].toldAt = now]
    /\ UNCHANGED <<limiter, entries, deadline, cleared>>

\* next.run() is over: its response gets the headers of the check, an error gets none.
Respond(r) ==
    /\ req[r].pc = "handler"
    /\ req' = [req EXCEPT ![r].pc = "answered"]
    /\ UNCHANGED <<limiter, entries, deadline, cleared>>

\* reset().
Reset(k) ==
    /\ k \in DOMAIN entries \ cleared
    /\ entries' = [x \in DOMAIN entries \ {k} |-> entries[x]]
    /\ cleared' = cleared \cup {k}
    /\ UNCHANGED <<limiter, req, deadline>>

\* The reaper wakes after its deadline.
Reap ==
    /\ now >= deadline
    /\ entries' = [k \in {x \in DOMAIN entries : now < entries[x].expires} |-> entries[k]]
    /\ deadline' = now + ReapInterval
    /\ UNCHANGED <<limiter, req, cleared>>

\* No request has waited for its lock, nor the reaper for its turn, for as long as Lag.
RateMayTick ==
    /\ \A r \in Reqs : req[r].pc = "stamped" => now < req[r].at + Lag
    /\ now < deadline + Lag

-----------------------------------------------------------------------------

\* Requests of a key that came in the n ticks from t on and were let through.
Granted(k, t, n) ==
    {r \in Reqs : req[r].allowed /\ Key(r) = k /\ req[r].at \in t .. t + n - 1}

\* How many windows of length w have requests of the same n ticks.  They begin w ticks
\* apart, or up to Lag ticks less when the reaper removed the one before and the next
\* was opened by a request that waited; and requests that waited came up to Lag ticks
\* before their window began.
Windows(n, w) == (n + w + Lag - 2) \div (w - Lag) + 1

\* However requests interleave with each other and with the reaper, and whatever they
\* wait for their locks, no more than the limit passes for each window that an interval
\* can meet, unless reset() was called for the key.  Where nothing ever waits that is
\* the limit in a tick and twice the limit in an interval as long as the window.  The
\* store itself does not grow without end: no entry outlives its window by more than the
\* reaper's interval and the delays.
RateBounds ==
    /\ RateTypeOK
    /\ \A k \in DOMAIN entries : now <= entries[k].expires + ReapInterval + 2 * Lag
    /\ \A r \in Reqs : Key(r) \notin cleared /\ Lag < Window(r) =>
        \A t \in 0 .. MaxTime : \A n \in 1 .. MaxTime + 1 :
            Cardinality(Granted(Key(r), t, n)) <= Limit(r) * Windows(n, Window(r))

\* Requests that were counted in the same window as one of them.
Together(r) ==
    {q \in Reqs : req[q].pc \notin {"waiting", "stamped"} /\ req[q].window = req[r].window}

\* What a client is told is true, also after a reset() and however long its request
\* waited.  No two requests of a window are told the same number of requests left, and
\* one is refused only when its window has let the whole limit through.  The seconds are
\* never more than a window's, and they are whole ones, rounded down: a sender who waits
\* for one second more than told is counted in another window.
QuotaTruthful ==
    \A r \in Reqs : req[r].pc \in {"handler", "answered"} =>
        LET granted == {q \in Together(r) : req[q].allowed}
        IN  /\ Cardinality(granted) <= Limit(r)
            /\ req[r].allowed => \A q \in granted \ {r} : req[q].remaining # req[r].remaining
            /\ ~req[r].allowed => Cardinality(granted) = Limit(r)
            /\ req[r].told * Second <= Window(r)
            /\ \A q \in Together(r) : req[q].at < req[r].toldAt + (req[r].told + 1) * Second
=============================================================================
