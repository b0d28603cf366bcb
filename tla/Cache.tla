--------------------------------- MODULE Cache ---------------------------------
(***************************************************************************)
(* The cache of the ladoo crate over its in-memory store: get, has, set,   *)
(* delete and remember, called by concurrent tasks.  A reader that meets   *)
(* an expired entry gives the entry's lock back before it removes the key, *)
(* and remember() holds nothing while it computes.                         *)
(*                                                                         *)
(* A value is the type it was serialised from and, as history, when it was *)
(* stored and for how long.                                                *)
(***************************************************************************)
EXTENDS Clock

CONSTANTS Callers,      \* tasks, each with one call to make
          Calls,        \* the calls: op, key, type, ttl
          DefaultTtl,   \* Cache::default_ttl, or NoTtl
          NoTtl         \* Option::None

\* A serialised value with its expiry.
Value == [type : {call.type : call \in Calls}, stored : Nat, ttl : Nat \cup {NoTtl}]

ASSUME CacheAssumption ==
    /\ DefaultTtl \in Nat \cup {NoTtl} /\ \A call \in Calls : call.ttl \in Nat \cup {NoTtl}
    /\ NoTtl \notin Calls \cup Value

VARIABLES
    data,   \* MemoryStore::data
    task,   \* each caller: its call, where it is in it, what it returned
    saw     \* history: the expired entry a reader is about to remove

cacheVars == <<data, task, saw>>

Idle == [pc |-> "idle", call |-> NoTtl, result |-> "none", value |-> NoTtl, at |-> 0]
Expires(v) == IF v.ttl = NoTtl THEN NoTtl ELSE v.stored + v.ttl

\* Mutant of Expired: an entry lives one tick longer.
ExpiredLate(v) == v.ttl # NoTtl /\ now > Expires(v)

\* expires_at has been reached.
Expired(v) == v.ttl # NoTtl /\ now >= Expires(v)

\* resolve_ttl().
ResolveTtl(ttl) == IF ttl = NoTtl THEN DefaultTtl ELSE ttl

\* Type invariant.
CacheTypeOK ==
    /\ \A k \in DOMAIN data : data[k] \in Value /\ data[k].stored <= now
    /\ \A c \in Callers :
          /\ task[c].pc \in {"idle", "read", "remove", "compute", "store", "done"}
          /\ task[c].result \in {"none", "absent", "found", "error", "ok"}
          /\ task[c].call \in Calls \cup {NoTtl}
          /\ task[c].pc \notin {"idle", "done"} => task[c].result = "none"

CacheInit ==
    /\ data = <<>>
    /\ task = [c \in Callers |-> Idle]
    /\ saw = [c \in Callers |-> NoTtl]

Has(k) == k \in DOMAIN data
Without(k) == [x \in DOMAIN data \ {k} |-> data[x]]
With(k, v) == [x \in DOMAIN data \cup {k} |-> IF x = k THEN v ELSE data[x]]

Finish(c, res) == task' = [task EXCEPT ![c].pc = "done", ![c].result = res]

\* A call begins.
Begin(c) ==
    /\ task[c].pc = "idle"
    /\ \E call \in Calls :
          task' = [task EXCEPT ![c].call = call,
                               ![c].pc = IF call.op \in {"get", "has", "remember"} THEN "read"
                                         ELSE "store"]
    /\ UNCHANGED <<data, saw>>

\* Nothing usable is cached: get() and has() say so, remember() calls its closure.
Missing(c) ==
    IF task[c].call.op = "remember" THEN task' = [task EXCEPT ![c].pc = "compute"]
    ELSE Finish(c, "absent")

\* MemoryStore::get() and has() under the entry's lock, and the deserialisation: bytes
\* of another type are an error, which remember() passes on.
Read(c) ==
    LET call == task[c].call
    IN  /\ task[c].pc = "read"
        /\ CASE ~Has(call.key) -> Missing(c) /\ UNCHANGED saw
             [] Has(call.key) /\ Expired(data[call.key]) ->
                   /\ task' = [task EXCEPT ![c].pc = "remove"]
                   /\ saw' = [saw EXCEPT ![c] = data[call.key]]
             [] OTHER ->
                   /\ UNCHANGED saw
                   /\ IF call.op # "has" /\ data[call.key].type # call.type THEN Finish(c, "error")
                      ELSE task' = [task EXCEPT ![c].pc = "done", ![c].result = "found", ![c].at = now,
                                                ![c].value = data[call.key]]
        /\ UNCHANGED data

\* Mutant of Remove: the reader clears the store.
RemoveAll(c) ==
    /\ task[c].pc = "remove"
    /\ data' = <<>>
    /\ saw' = [saw EXCEPT ![c] = NoTtl]
    /\ Missing(c)

\* data.remove(key), whatever the key holds by now.
Remove(c) ==
    /\ task[c].pc = "remove"
    /\ data' = Without(task[c].call.key)
    /\ saw' = [saw EXCEPT ![c] = NoTtl]
    /\ Missing(c)

\* The closure of remember() answers; an error stores nothing.
Compute(c) ==
    /\ task[c].pc = "compute"
    /\ Finish(c, "error") \/ task' = [task EXCEPT ![c].pc = "store"]
    /\ UNCHANGED <<data, saw>>

\* set(), also as the end of remember().
Store(c) ==
    LET call == task[c].call
    IN  /\ task[c].pc = "store" /\ call.op # "delete"
        /\ data' = With(call.key, [type |-> call.type, stored |-> now, ttl |-> ResolveTtl(call.ttl)])
        /\ Finish(c, "ok")
        /\ UNCHANGED saw

\* set() of a value that cannot be serialised.
StoreFails(c) ==
    /\ task[c].pc = "store" /\ task[c].call.op # "delete"
    /\ Finish(c, "error")
    /\ UNCHANGED <<data, saw>>

\* delete().
Delete(c) ==
    LET k == task[c].call.key
    IN  /\ task[c].pc = "store" /\ task[c].call.op = "delete"
        /\ data' = Without(k)
        /\ Finish(c, IF Has(k) THEN "found" ELSE "absent")
        /\ UNCHANGED saw

CacheStep(c) ==
    Begin(c) \/ Read(c) \/ Remove(c) \/ Compute(c) \/ Store(c) \/ StoreFails(c) \/ Delete(c)

-----------------------------------------------------------------------------

\* What a reader gets is younger than its time to live, whichever of the call's and the
\* cache's default applies, and nothing is immortal in a cache with a default.
ServedFresh ==
    /\ CacheTypeOK
    /\ \A c \in Callers : task[c].result = "found" /\ task[c].value # NoTtl =>
           LET v == task[c].value IN v.ttl # NoTtl => task[c].at < v.stored + v.ttl
    /\ DefaultTtl # NoTtl => \A k \in DOMAIN data : data[k].ttl # NoTtl

\* A value that has not expired disappears only when somebody deletes it, or when a
\* reader saw the expired value it replaced.
FreshSurvives ==
    [][\A k \in DOMAIN data :
          k \notin DOMAIN data' /\ ~Expired(data[k]) =>
              \E c \in Callers : /\ task[c].call # NoTtl /\ task[c].call.key = k
                                 /\ \/ task[c].call.op = "delete" /\ task'[c].pc = "done"
                                    \/ saw[c] # NoTtl /\ saw[c] # data[k]]_cacheVars
=============================================================================
