------------------------- MODULE MigrationEngineProofs -------------------------
(***************************************************************************)
(* What the advisory lock and the order of the statements give: theorems   *)
(* about MigrationEngine for any migrations, files, commands and faults.   *)
(*                                                                         *)
(* The engine is right when one command works at a time, which the lock    *)
(* ensures on Postgres and MySQL and nobody does on SQLite.                *)
(***************************************************************************)
EXTENDS MigrationEngine, WellFoundedInduction, FiniteSetTheorems, TLAPS

\* The lock excludes, or there is nobody to exclude.
OneAtATime == Driver # "sqlite" \/ \A p, q \in Procs : p = q

\* A process that has the lock and still reads or writes the database.
Busy == Pc \ {"idle", "lock", "unlock", "error", "done"}

LockInv ==
    Driver # "sqlite" =>
        \A p \in Procs : proc[p].pc \in Busy => \E c \in Conns : holder = <<p, c>>
-----------------------------------------------------------------------------
\* The table.

\* applied_order numbers the rows from 1 to n.
Numbered(t, n) ==
    /\ \A m \in Recorded(t) : t[m].order \in 1 .. n
    /\ \A k \in 1 .. n : \E m \in Recorded(t) : t[m].order = k
    /\ \A m, k \in Recorded(t) : t[m].order = t[k].order => m = k

\* A row's requirements are older rows.
Closed(t) ==
    \A m \in Versioned \cap Recorded(t) : m > Legacy =>
        \A d \in Requires[m] : d \in Recorded(t) /\ t[d].order < t[m].order

\* No row is newer than that of m.
Newest(t, m) == \A k \in Recorded(t) : t[k].order <= t[m].order

TableInv(t) ==
    /\ t \in [Migrations -> Row]
    /\ \E n \in Nat : Numbered(t, n)
    /\ Closed(t)
    /\ \A m \in Partial(t) : m \in NoTransaction /\ Newest(t, m)

\* The checksum of a repeatable is of a content its file has had, and of one that ran
\* if what ran last ran to its end.
SumRight(row, e, content) ==
    row.status # "none" => row.sum <= content /\ (e.eff = "yes" => row.sum <= e.content)

SumsInv(t, s, f) == \A r \in Repeatable : SumRight(t[r], s[r], f[r])
-----------------------------------------------------------------------------
\* What a process that works has still to do.

Distinct(todo) == \A i, k \in todo : i.m = k.m => i = k

\* The one in ascending order.
First(todo, i) == i \in todo /\ \A k \in todo : i.m <= k.m

\* The plan stands: what a migration requires is recorded or comes before it.
Planned(todo, t) ==
    \A i \in todo : i.m \in Versioned /\
        \A d \in Requires[i.m] : d \in Recorded(t) \/ \E k \in todo : k.m = d /\ d < i.m

\* The next row gets the number w.order, and no row is PARTIAL.
Ready(w, t) == w.order > 0 /\ Numbered(t, w.order - 1) /\ Partial(t) = {}

\* execute_sequential or execute_atomic before the next migration.
Pending(w, t) ==
    w.cmd.op = "migrate" /\ w.todo # {} /\ Ready(w, t) /\ Planned(w.todo, t)

\* run_no_transaction, after record_partial.
Unfinished(w, t) ==
    /\ w.cmd.op = "migrate" /\ Numbered(t, w.order)
    /\ \E i \in w.todo : /\ First(w.todo, i) /\ i.m \in NoTransaction /\ Partial(t) = {i.m}
                         /\ Planned(w.todo \ {i}, t)

\* MySQL's DDL commits before the row is inserted.
Committed(w, t) ==
    /\ Pending(w, t) /\ ~TransactionalDdl
    /\ \A i \in w.todo : First(w.todo, i) => i.m \notin NoTransaction

\* What is loaded of repeatables is not newer than their files, nor older than what
\* was recorded.
Loadable(todo, t, f) ==
    \A i \in todo : /\ i.m \in Repeatable /\ i.load <= f[i.m]
                    /\ t[i.m].status # "none" => t[i.m].sum <= i.load

\* apply_repeatables.
Repeating(w, t, f) ==
    w.cmd.op = "migrate" /\ w.todo # {} /\ Ready(w, t) /\ Loadable(w.todo, t, f)

\* ... and its first one ran.
Repeated(w, t, s, f) ==
    /\ Repeating(w, t, f)
    /\ \A i \in w.todo : First(w.todo, i) => s[i.m] = [eff |-> "yes", content |-> i.load]

\* repair of the PARTIAL row.
Repairing(w, t, how) ==
    /\ w.cmd.op = "repair" /\ w.cmd.how \in how
    /\ \E i \in w.todo : w.todo = {i} /\ i.m \in NoTransaction /\ Partial(t) = {i.m}

\* rollback: the rows it has still to undo are the newest.
Upper(S, t) ==
    S \subseteq Recorded(t) /\ \A m \in S : \A k \in Recorded(t) :
        t[k].order >= t[m].order => k \in S

Selection(todo, t) ==
    /\ Partial(t) = {} /\ \A i \in todo : i.seen = t[i.m]
    /\ Upper({i.m : i \in todo}, t)

Rolling(w, t) == w.cmd.op = "rollback" /\ w.todo # {} /\ Selection(w.todo, t)

\* baseline: of versions that are in the database already.
Adopting(w, t) ==
    /\ w.cmd.op = "baseline" /\ w.todo # {} /\ Ready(w, t)
    /\ \A i \in w.todo : i.m \in Versioned /\ i.m <= Legacy

Work(w, t, s, f) ==
    /\ Distinct(w.todo)
    /\ w.cmd \in Commands /\ (w.cmd.op = "baseline" => w.cmd.n = Legacy)
    /\ w.pc = "read" => w.todo = {}
    /\ w.pc = "order" => w.cmd.op = "migrate" /\ Partial(t) = {} /\ Planned(w.todo, t)
    /\ w.pc = "tx" => Pending(w, t)
    /\ w.pc = "partial" => /\ Pending(w, t)
                           /\ \A i \in w.todo : First(w.todo, i) => i.m \in NoTransaction
    /\ w.pc \in {"half", "exec"} => \/ Unfinished(w, t) \/ Committed(w, t)
                                     \/ Repeating(w, t, f) \/ Repairing(w, t, {"retry"})
    /\ w.pc = "mark" => Unfinished(w, t) \/ Repairing(w, t, {"retry", "skip"})
    /\ w.pc = "insert" => Committed(w, t) \/ Repeated(w, t, s, f) \/ Adopting(w, t)
    /\ w.pc = "checksum" => Repeated(w, t, s, f)
    /\ w.pc = "repeatables" => w.cmd.op = "migrate" /\ Ready(w, t)
    /\ w.pc \in {"undo", "delete"} => Rolling(w, t) \/ Repairing(w, t, {"rollback"})

\* A command that starts has read nothing yet.
Waits(w) ==
    /\ w.pc = "idle" => w = At("idle")
    /\ w.pc = "lock" => /\ w.cmd \in Commands /\ w.todo = {}
                        /\ w.cmd.op = "baseline" => w.cmd.n = Legacy

WorkInv ==
    \A p \in Procs : /\ Waits(proc[p])
                     /\ proc[p].pc \in Busy => Work(proc[p], table, schema, files)

IInv ==
    /\ TypeOK /\ LockInv /\ WorkInv
    /\ TableInv(table) /\ SumsInv(table, schema, files)
-----------------------------------------------------------------------------
(* Changes of the table *)

\* The names and the facts about them that every proof needs.
LEMMA Names ==
    /\ Versioned \subseteq Migrations /\ Repeatable \subseteq Migrations
    /\ Versioned \subseteq Nat /\ Repeatable \subseteq Nat /\ Migrations \subseteq Nat
    /\ NoTransaction \subseteq Versioned /\ Versioned \cap Repeatable = {}
    /\ Requires \in [Versioned -> SUBSET Versioned]
    /\ Legacy \in Nat
BY MigrationAssumption, EngineAssumption DEF Migrations

\* What a row is.
LEMMA Rows ==
    ASSUME NEW t \in [Migrations -> Row], NEW m \in Migrations
    PROVE  /\ t[m] \in Row /\ t[m].order \in Nat /\ t[m].sum \in Nat /\ t[m].sql \in Nat
           /\ t[m].status \in {"none", "applied", "partial"}
           /\ t[m] = [status |-> t[m].status, order |-> t[m].order, sum |-> t[m].sum,
                      sql |-> t[m].sql]
<1> DEFINE r == t[m]
<1>1. r \in Row
      OBVIOUS
<1> HIDE DEF r
<1>2. /\ r.order \in Nat /\ r.sum \in Nat /\ r.sql \in Nat
      /\ r.status \in {"none", "applied", "partial"}
      /\ r = [status |-> r.status, order |-> r.order, sum |-> r.sum, sql |-> r.sql]
      BY <1>1 DEF Row
<1>3. QED BY <1>1, <1>2 DEF r

\* What an item is.
LEMMA Items ==
    ASSUME NEW T \in SUBSET Item, NEW i \in T
    PROVE  i.m \in Migrations /\ i.m \in Nat /\ i.load \in Nat /\ i.seen \in Row
BY Names DEF Item

\* TableManager::next_order continues the numbers.
LEMMA NextOrderIs ==
    ASSUME NEW t \in [Migrations -> Row], NEW n \in Nat, Numbered(t, n)
    PROVE  NextOrder(t) = n + 1
<1> DEFINE S == {0} \cup {t[m].order : m \in Recorded(t)}
<1>1. \A y \in S : y \in Nat /\ y <= n
      BY DEF Numbered
<1>2. n \in S
  <2>1. CASE n = 0
        BY <2>1
  <2>2. CASE n # 0
        BY <2>2 DEF Numbered
  <2>3. QED BY <2>1, <2>2
<1> HIDE DEF S
<1>3. \A x \in S : (\A y \in S : x >= y) => x = n
      BY <1>1, <1>2
<1>4. \E x \in S : \A y \in S : x >= y
      BY <1>1, <1>2
<1>5. Max(S) = n
      BY <1>3, <1>4 DEF Max
<1>6. QED BY <1>5 DEF NextOrder, S

\* About the numbers up to n.
LEMMA Below ==
    ASSUME NEW n \in Nat, NEW k \in 1 .. n
    PROVE  /\ k < n + 1 /\ k <= n + 1 /\ ~(n < k) /\ k \in Nat
           /\ k # n => k \in 1 .. n - 1
OBVIOUS

\* One more number.
LEMMA NumberAdded ==
    ASSUME NEW t, NEW n \in Nat, Numbered(t, n), NEW m, NEW u,
           Recorded(u) = Recorded(t) \cup {m}, u[m].order = n + 1,
           \A k \in Recorded(t) : u[k].order = t[k].order
    PROVE  Numbered(u, n + 1)
<1> DEFINE R == Recorded(t)
<1>1. \A k \in R : t[k].order \in 1 .. n /\ u[k].order = t[k].order
      BY DEF Numbered
<1>2. \A k \in 1 .. n : \E l \in R : u[l].order = k
      BY <1>1 DEF Numbered
<1>3. \A k, l \in R : u[k].order = u[l].order => k = l
      BY <1>1 DEF Numbered
<1>4. Recorded(u) = R \cup {m} /\ u[m].order = n + 1
      OBVIOUS
<1> HIDE DEF R
<1>5. \A k \in Recorded(u) : u[k].order \in 1 .. n + 1
      BY <1>1, <1>4
<1>6. ASSUME NEW k \in 1 .. n + 1 PROVE \E l \in Recorded(u) : u[l].order = k
  <2>1. k = n + 1 \/ k \in 1 .. n
        OBVIOUS
  <2>2. QED BY <2>1, <1>2, <1>4
<1>7. ASSUME NEW k \in Recorded(u), NEW l \in Recorded(u), u[k].order = u[l].order
      PROVE  k = l
  <2>1. \A j \in R : u[j].order # n + 1
        BY <1>1
  <2>2. QED BY <2>1, <1>3, <1>4, <1>7
<1>8. QED BY <1>5, <1>6, <1>7 DEF Numbered

\* What a new row needs.
Founded(t, m) == m \in Versioned /\ m > Legacy => Requires[m] \subseteq Recorded(t)

\* The table u has one more row than t, the only PARTIAL one if it is.
Adds(t, u, m, status) ==
    /\ Recorded(u) = Recorded(t) \cup {m}
    /\ Partial(u) = IF status = "partial" THEN {m} ELSE {}

\* A new row, with the next number, of a migration whose requirements are recorded.
LEMMA Inserted ==
    ASSUME NEW t, TableInv(t), NEW n \in Nat, Numbered(t, n), Partial(t) = {},
           NEW m \in Migrations, m \notin Recorded(t),
           NEW row \in Row, row.order = n + 1, row.status # "none",
           row.status = "partial" => m \in NoTransaction,
           Founded(t, m),
           NEW u, u = [t EXCEPT ![m] = row]
    PROVE  /\ TableInv(u) /\ Numbered(u, n + 1)
           /\ Adds(t, u, m, row.status)
<1>1. /\ u \in [Migrations -> Row] /\ u[m] = row
      /\ \A k \in Migrations : k # m => u[k] = t[k]
      BY DEF TableInv
<1>2. /\ Recorded(u) = Recorded(t) \cup {m} /\ Recorded(t) \subseteq Migrations
      /\ Partial(u) = IF row.status = "partial" THEN {m} ELSE {}
      BY <1>1 DEF Recorded, Partial
<1>3. \A k \in Recorded(t) : u[k] = t[k] /\ t[k].order \in 1 .. n
      BY <1>1, <1>2 DEF Numbered
<1>4. Numbered(u, n + 1)
      BY <1>1, <1>2, <1>3, NumberAdded
<1>5. Closed(u)
  <2> SUFFICES ASSUME NEW k \in Versioned \cap Recorded(u), k > Legacy, NEW d \in Requires[k]
               PROVE  d \in Recorded(u) /\ u[d].order < u[k].order
      BY DEF Closed
  <2>1. CASE k \in Recorded(t)
    <3>1. d \in Recorded(t) /\ t[d].order < t[k].order
          BY <2>1 DEF TableInv, Closed
    <3>2. QED BY <3>1, <2>1, <1>2, <1>3
  <2>2. CASE k = m
    <3>1. d \in Recorded(t)
          BY <2>2 DEF Founded
    <3>2. d \in Recorded(u) /\ u[d].order = t[d].order /\ u[k].order = n + 1
          BY <3>1, <2>2, <1>1, <1>2, <1>3
    <3>3. QED BY <3>1, <3>2, <1>3, Below
  <2>3. QED BY <2>1, <2>2, <1>2
<1>6. \A k \in Partial(u) : k \in NoTransaction /\ Newest(u, k)
  <2>1. ASSUME NEW k \in Partial(u) PROVE k = m /\ row.status = "partial"
        BY <1>2
  <2>2. \A l \in Recorded(u) : u[l].order <= u[m].order
        BY <1>1, <1>2, <1>3
  <2>3. QED BY <2>1, <2>2 DEF Newest
<1>7. n + 1 \in Nat
      OBVIOUS
<1>8. QED BY <1>1, <1>2, <1>4, <1>5, <1>6, <1>7 DEF TableInv, Adds

\* It has one row less.
Drops(t, u, m) == Recorded(u) = Recorded(t) \ {m} /\ Partial(u) = Partial(t) \ {m}

\* The newest row goes.
LEMMA Removed ==
    ASSUME NEW t, TableInv(t), NEW m \in Recorded(t), Newest(t, m),
           NEW u, u = [t EXCEPT ![m] = NoRow]
    PROVE  TableInv(u) /\ Drops(t, u, m)
<1>1. /\ m \in Migrations /\ NoRow \in Row /\ NoRow.status = "none"
      /\ u \in [Migrations -> Row] /\ u[m] = NoRow
      /\ \A k \in Migrations : k # m => u[k] = t[k]
      BY DEF TableInv, Recorded, Row, NoRow
<1>2. /\ Recorded(u) = Recorded(t) \ {m} /\ Recorded(t) \subseteq Migrations
      /\ Partial(u) = Partial(t) \ {m}
      BY <1>1 DEF Recorded, Partial
<1>3. PICK n \in Nat : Numbered(t, n)
      BY DEF TableInv
<1>4. \A k \in Recorded(u) : k \in Recorded(t) /\ u[k] = t[k] /\ t[k].order \in 1 .. n
      BY <1>1, <1>2, <1>3 DEF Numbered
<1>5. t[m].order = n /\ n > 0
  <2>1. t[m].order \in 1 .. n
        BY <1>3 DEF Numbered
  <2>2. PICK l \in Recorded(t) : t[l].order = n
        BY <2>1, <1>3 DEF Numbered
  <2>3. QED BY <2>1, <2>2 DEF Newest
<1>6. Numbered(u, n - 1)
  <2>1. \A k \in Recorded(u) : u[k].order \in 1 .. n - 1
    <3>1. \A k \in Recorded(u) : t[k].order # n
          BY <1>2, <1>3, <1>5 DEF Numbered
    <3>2. QED BY <3>1, <1>4, Below
  <2>2. ASSUME NEW k \in 1 .. n - 1
        PROVE  \E l \in Recorded(u) : u[l].order = k
    <3>1. k \in 1 .. n /\ k # n
          BY <1>5
    <3>2. PICK l \in Recorded(t) : t[l].order = k
          BY <3>1, <1>3 DEF Numbered
    <3>3. QED BY <3>1, <3>2, <1>2, <1>4, <1>5
  <2>3. \A k, l \in Recorded(u) : u[k].order = u[l].order => k = l
        BY <1>3, <1>4 DEF Numbered
  <2>4. QED BY <2>1, <2>2, <2>3 DEF Numbered
<1>7. Closed(u)
  <2> SUFFICES ASSUME NEW k \in Versioned \cap Recorded(u), k > Legacy, NEW d \in Requires[k]
               PROVE  d \in Recorded(u) /\ u[d].order < u[k].order
      BY DEF Closed
  <2>1. d \in Recorded(t) /\ t[d].order < t[k].order
        BY <1>4 DEF TableInv, Closed
  <2>2. d # m
        BY <2>1, <1>4, <1>5, Below
  <2>3. QED BY <2>1, <2>2, <1>2, <1>4
<1>8. \A k \in Partial(u) : k \in NoTransaction /\ Newest(u, k)
  <2> SUFFICES ASSUME NEW k \in Partial(u)
               PROVE  k \in NoTransaction /\ \A l \in Recorded(u) : u[l].order <= u[k].order
      BY DEF Newest
  <2>1. k \in Partial(t) /\ k \in Recorded(u)
        BY <1>2 DEF Partial, Recorded
  <2>2. QED BY <2>1, <1>4 DEF TableInv, Newest
<1>9. n - 1 \in Nat
      BY <1>5
<1>10. QED BY <1>1, <1>2, <1>6, <1>7, <1>8, <1>9 DEF TableInv, Drops

\* Rows keep their places: a status becomes applied, or a checksum changes.
LEMMA Rewritten ==
    ASSUME NEW t, TableInv(t), NEW u \in [Migrations -> Row],
           \A m \in Migrations : /\ u[m].order = t[m].order
                                 /\ u[m].status = "none" <=> t[m].status = "none"
                                 /\ u[m].status = "partial" => t[m].status = "partial"
    PROVE  /\ TableInv(u) /\ Recorded(u) = Recorded(t) /\ Partial(u) \subseteq Partial(t)
           /\ \A n \in Nat : Numbered(t, n) => Numbered(u, n)
<1>1. /\ Recorded(u) = Recorded(t) /\ Partial(u) \subseteq Partial(t)
      /\ \A m \in Recorded(t) : u[m].order = t[m].order
      BY DEF Recorded, Partial
<1>2. ASSUME NEW n \in Nat, Numbered(t, n) PROVE Numbered(u, n)
      BY <1>1, <1>2 DEF Numbered
<1>3. Closed(u)
      BY <1>1 DEF Closed, TableInv
<1>4. ASSUME NEW m \in Partial(u) PROVE m \in NoTransaction /\ Newest(u, m)
  <2>1. m \in Partial(t) /\ m \in Recorded(t)
        BY <1>4, <1>1 DEF Partial, Recorded
  <2>2. QED BY <2>1, <1>1 DEF TableInv, Newest
<1>5. QED BY <1>1, <1>2, <1>3, <1>4 DEF TableInv

\* The place of an item in its batch, from 0.
Rank(B, i) == Cardinality({k \in B : k.m < i.m})

\* Ascending versions have the ranks from 0 on, each once.
LEMMA Ranks ==
    ASSUME NEW B \in SUBSET Item, Distinct(B)
    PROVE  /\ IsFiniteSet(B) /\ Cardinality(B) \in Nat
           /\ \A i \in B : Rank(B, i) \in 0 .. Cardinality(B) - 1
           /\ \A i, j \in B : i.m < j.m => Rank(B, i) < Rank(B, j)
           /\ \A i, j \in B : Rank(B, i) = Rank(B, j) => i = j
           /\ \A k \in 0 .. Cardinality(B) - 1 : \E i \in B : Rank(B, i) = k
<1>1. \A i \in B : i.m \in Migrations /\ i.m \in Nat
      BY Names DEF Item
<1>2. IsFiniteSet(B)
  <2> DEFINE f == [i \in B |-> i.m]
  <2>1. f \in Injection(B, Migrations)
        BY <1>1 DEF Injection, IsInjective, Distinct
  <2>2. QED BY <2>1, FS_Injection, MigrationAssumption
<1>3. Cardinality(B) \in Nat
      BY <1>2, FS_CardinalityType
<1> DEFINE lower(i) == {k \in B : k.m < i.m}
<1>4. ASSUME NEW i \in B
      PROVE  /\ IsFiniteSet(lower(i)) /\ Rank(B, i) \in Nat /\ Rank(B, i) < Cardinality(B)
  <2>1. lower(i) \in SUBSET B /\ i \notin lower(i)
        BY <1>1
  <2>2. /\ IsFiniteSet(lower(i)) /\ Cardinality(lower(i)) <= Cardinality(B)
        /\ Cardinality(B) = Cardinality(lower(i)) => B = lower(i)
        BY <2>1, <1>2, FS_Subset
  <2>3. Cardinality(lower(i)) \in Nat
        BY <2>2, FS_CardinalityType
  <2> HIDE DEF lower
  <2>4. Cardinality(lower(i)) < Cardinality(B)
        BY <2>1, <2>2, <2>3, <1>3
  <2>5. QED BY <2>2, <2>3, <2>4 DEF Rank, lower
<1>5. ASSUME NEW i \in B, NEW j \in B, i.m < j.m
      PROVE  Rank(B, i) < Rank(B, j)
  <2>1. lower(i) \in SUBSET lower(j) /\ i \in lower(j) /\ i \notin lower(i)
        BY <1>1, <1>5
  <2>2. /\ Cardinality(lower(i)) <= Cardinality(lower(j))
        /\ Cardinality(lower(j)) = Cardinality(lower(i)) => lower(j) = lower(i)
        BY <2>1, <1>4, FS_Subset
  <2>3. Cardinality(lower(i)) \in Nat /\ Cardinality(lower(j)) \in Nat
        BY <1>4, FS_CardinalityType
  <2> HIDE DEF lower
  <2>4. Cardinality(lower(i)) < Cardinality(lower(j))
        BY <2>1, <2>2, <2>3
  <2>5. QED BY <2>4 DEF Rank, lower
<1> HIDE DEF lower
<1>6. ASSUME NEW i \in B, NEW j \in B, Rank(B, i) = Rank(B, j) PROVE i = j
  <2>1. ~(i.m < j.m) /\ ~(j.m < i.m)
        BY <1>4, <1>5, <1>6
  <2>2. i.m = j.m
        BY <2>1, <1>1
  <2>3. QED BY <2>2 DEF Distinct
<1>7. \A k \in 0 .. Cardinality(B) - 1 : \E i \in B : Rank(B, i) = k
  <2> DEFINE n == Cardinality(B)
             f == [i \in B |-> Rank(B, i)]
  <2>1. \A i \in B : Rank(B, i) \in 0 .. n - 1
        BY <1>3, <1>4
  <2>2. f \in Injection(B, 0 .. n - 1)
        BY <2>1, <1>6 DEF Injection, IsInjective
  <2>3. IsFiniteSet(0 .. n - 1) /\ Cardinality(0 .. n - 1) = n
    <3>1. 0 \in Int /\ n - 1 \in Int /\ (IF 0 > n - 1 THEN 0 ELSE n - 1 - 0 + 1) = n
          BY <1>3
    <3>2. QED BY <3>1, FS_Interval
  <2>4. f \in Surjection(B, 0 .. n - 1)
        BY <2>2, <2>3, FS_Injection
  <2>5. QED BY <2>4 DEF Surjection
<1>8. \A i \in B : Rank(B, i) \in 0 .. Cardinality(B) - 1
      BY <1>3, <1>4
<1>9. QED BY <1>2, <1>3, <1>5, <1>6, <1>7, <1>8

\* As many more numbers as the batch has items.
LEMMA NumbersAdded ==
    ASSUME NEW t, NEW n \in Nat, Numbered(t, n), NEW B \in SUBSET Item, Distinct(B), NEW u,
           Recorded(u) = Recorded(t) \cup {i.m : i \in B},
           \A k \in Recorded(t) : u[k].order = t[k].order,
           \A i \in B : u[i.m].order = n + 1 + Rank(B, i)
    PROVE  Numbered(u, n + Cardinality(B))
<1> DEFINE R == Recorded(t)
           c == Cardinality(B)
           rank(i) == Rank(B, i)
<1>1. /\ c \in Nat
      /\ \A i \in B : rank(i) \in 0 .. c - 1
      /\ \A i, j \in B : rank(i) = rank(j) => i = j
      /\ \A k \in 0 .. c - 1 : \E i \in B : rank(i) = k
      BY Ranks
<1>2. \A k \in R : t[k].order \in 1 .. n /\ u[k].order = t[k].order
      BY DEF Numbered
<1>3. \A k \in 1 .. n : \E l \in R : u[l].order = k
      BY <1>2 DEF Numbered
<1>4. \A k, l \in R : u[k].order = u[l].order => k = l
      BY <1>2 DEF Numbered
<1>5. /\ \A k \in Recorded(u) : k \in R \/ \E i \in B : k = i.m
      /\ \A k \in R : k \in Recorded(u)
      /\ \A i \in B : i.m \in Recorded(u) /\ u[i.m].order = n + 1 + rank(i)
      OBVIOUS
<1> HIDE DEF R, c, rank
<1>6. ASSUME NEW k \in Recorded(u) PROVE u[k].order \in 1 .. n + c
  <2>1. CASE k \in R
        BY <2>1, <1>1, <1>2
  <2>2. CASE \E i \in B : k = i.m
        BY <2>2, <1>1, <1>5
  <2>3. QED BY <2>1, <2>2, <1>5
<1>7. ASSUME NEW k \in 1 .. n + c PROVE \E l \in Recorded(u) : u[l].order = k
  <2>1. CASE k \in 1 .. n
        BY <2>1, <1>3, <1>5
  <2>2. CASE k \notin 1 .. n
    <3>1. k - (n + 1) \in 0 .. c - 1 /\ n + 1 + (k - (n + 1)) = k
          BY <2>2, <1>1
    <3>2. PICK i \in B : rank(i) = k - (n + 1)
          BY <3>1, <1>1
    <3>3. QED BY <3>1, <3>2, <1>5
  <2>3. QED BY <2>1, <2>2
<1>8. ASSUME NEW k \in Recorded(u), NEW l \in Recorded(u), u[k].order = u[l].order
      PROVE  k = l
  <2>1. ASSUME NEW x \in R, NEW i \in B PROVE u[x].order # u[i.m].order
    <3>1. u[x].order \in 1 .. n /\ u[i.m].order = n + 1 + rank(i) /\ rank(i) \in 0 .. c - 1
          BY <1>1, <1>2, <1>5
    <3>2. QED BY <3>1, <1>1
  <2>2. ASSUME NEW i \in B, NEW j \in B, u[i.m].order = u[j.m].order PROVE i = j
    <3>1. n + 1 + rank(i) = n + 1 + rank(j) /\ rank(i) \in 0 .. c - 1 /\ rank(j) \in 0 .. c - 1
          BY <2>2, <1>1, <1>5
    <3>2. rank(i) = rank(j)
          BY <3>1, <1>1
    <3>3. QED BY <3>2, <1>1
  <2>3. QED BY <2>1, <2>2, <1>4, <1>5, <1>8
<1>9. Numbered(u, n + c)
      BY <1>6, <1>7, <1>8 DEF Numbered
<1>10. QED BY <1>9 DEF c

\* The rows of t are rows of u, and there is one for each item of the batch.
Extends(t, u, B) ==
    /\ \A m \in Recorded(t) : m \in Recorded(u)
    /\ \A i \in B : i.m \in Recorded(u)

\* The rows of a batch, in ascending order, with their requirements before them.
LEMMA Batched ==
    ASSUME NEW t, TableInv(t), NEW n \in Nat, Numbered(t, n), Partial(t) = {},
           NEW B \in SUBSET Item, Distinct(B),
           NEW u \in [Migrations -> Row],
           \A i \in B : i.m \notin Recorded(t) /\ u[i.m].status = "applied"
                            /\ u[i.m].order = n + 1 + Rank(B, i),
           \A m \in Migrations : (\A i \in B : i.m # m) => u[m] = t[m],
           Planned(B, t)
    PROVE  /\ TableInv(u) /\ Numbered(u, n + Cardinality(B)) /\ Partial(u) = {}
           /\ Extends(t, u, B)
<1>1. \A i \in B : i.m \in Migrations
      BY DEF Item
<1>2. \A m \in Recorded(t) : m \in Migrations /\ u[m] = t[m]
      BY DEF Recorded
<1>3. Recorded(u) = Recorded(t) \cup {i.m : i \in B} /\ Partial(u) = {}
      BY <1>1, <1>2 DEF Recorded, Partial
<1>4. Numbered(u, n + Cardinality(B))
      BY <1>2, <1>3, NumbersAdded
<1>5. Closed(u)
  <2> SUFFICES ASSUME NEW k \in Versioned \cap Recorded(u), k > Legacy, NEW d \in Requires[k]
               PROVE  d \in Recorded(u) /\ u[d].order < u[k].order
      BY DEF Closed
  <2>1. CASE k \in Recorded(t)
    <3>1. d \in Recorded(t) /\ t[d].order < t[k].order
          BY <2>1 DEF TableInv, Closed
    <3>2. QED BY <3>1, <2>1, <1>2, <1>3
  <2>2. CASE \E i \in B : k = i.m
    <3>1. PICK i \in B : k = i.m
          BY <2>2
    <3>2. Cardinality(B) \in Nat /\ Rank(B, i) \in 0 .. Cardinality(B) - 1
          BY Ranks
    <3>3. u[k].order = n + 1 + Rank(B, i)
          BY <3>1
    <3>4. CASE d \in Recorded(t)
      <4>1. d \in Recorded(u) /\ u[d].order = t[d].order /\ t[d].order \in 1 .. n
            BY <3>4, <1>2, <1>3 DEF Numbered
      <4>2. t[d].order < n + 1 + Rank(B, i)
            BY <4>1, <3>2
      <4>3. QED BY <4>1, <4>2, <3>3
    <3>5. CASE \E j \in B : j.m = d /\ d < i.m
      <4>1. PICK j \in B : j.m = d /\ d < i.m
            BY <3>5
      <4>2. Rank(B, j) < Rank(B, i) /\ Rank(B, j) \in 0 .. Cardinality(B) - 1
            BY <4>1, Ranks
      <4>3. d \in Recorded(u) /\ u[d].order = n + 1 + Rank(B, j)
            BY <4>1, <1>3
      <4>4. n + 1 + Rank(B, j) < n + 1 + Rank(B, i)
            BY <4>2, <3>2
      <4>5. QED BY <4>3, <4>4, <3>3
    <3>6. QED BY <3>1, <3>4, <3>5 DEF Planned
  <2>3. QED BY <2>1, <2>2, <1>3
<1>6. n + Cardinality(B) \in Nat
      BY Ranks
<1>7. QED BY <1>3, <1>4, <1>5, <1>6 DEF TableInv, Extends

-----------------------------------------------------------------------------
(* Steps of the processes *)

\* One process works at a time.
LEMMA Alone ==
    ASSUME OneAtATime, LockInv, NEW p \in Procs, NEW q \in Procs,
           proc[p].pc \in Busy, proc[q].pc \in Busy
    PROVE  p = q
<1>1. CASE Driver # "sqlite"
  <2>1. (\E c \in Conns : holder = <<p, c>>) /\ (\E c \in Conns : holder = <<q, c>>)
        BY <1>1 DEF LockInv
  <2>2. QED BY <2>1
<1>2. CASE Driver = "sqlite"
      BY <1>2 DEF OneAtATime
<1>3. QED BY <1>1, <1>2

\* A process that works takes a step: it is enough to look at what it has to do now.
LEMMA Moved ==
    ASSUME OneAtATime, TypeOK, LockInv, WorkInv, NEW p \in Procs, proc[p].pc \in Busy,
           NEW w \in Proc, proc' = [proc EXCEPT ![p] = w],
           files' = files, holder' = holder,
           w.pc \in Busy \/ w.pc \in {"unlock", "error"},
           w.pc \in Busy => Work(w, table', schema', files)
    PROVE  proc' \in [Procs -> Proc] /\ LockInv' /\ WorkInv'
<1>1. proc' \in [Procs -> Proc] /\ proc'[p] = w /\ \A q \in Procs : q # p => proc'[q] = proc[q]
      BY DEF TypeOK
<1>2. LockInv'
      BY <1>1 DEF LockInv
<1>3. ASSUME NEW q \in Procs
      PROVE  /\ Waits(proc'[q])
             /\ proc'[q].pc \in Busy => Work(proc'[q], table', schema', files')
  <2>1. CASE q = p
    <3>1. w.pc \notin {"idle", "lock"}
          BY DEF Busy
    <3>2. Waits(w)
          BY <3>1 DEF Waits
    <3>3. QED BY <2>1, <3>2, <1>1
  <2>2. CASE q # p
    <3>1. proc[q].pc \notin Busy
          BY <2>2, Alone
    <3>2. QED BY <2>2, <3>1, <1>1 DEF WorkInv
  <2>3. QED BY <2>1, <2>2
<1>4. QED BY <1>1, <1>2, <1>3 DEF WorkInv

\* The command is over.
LEMMA Returned ==
    ASSUME OneAtATime, TypeOK, LockInv, WorkInv, NEW p \in Procs, proc[p].pc \in Busy,
           NEW pc \in {"unlock", "error"}, Return(p, pc),
           files' = files, holder' = holder
    PROVE  proc' \in [Procs -> Proc] /\ LockInv' /\ WorkInv'
<1> DEFINE w == At(pc)
<1>1. w \in Proc /\ w.pc = pc
      BY DEF At, Proc, Pc, NoCommand
<1>2. w.pc \notin Busy /\ proc' = [proc EXCEPT ![p] = w]
      BY <1>1 DEF Busy, Return
<1> HIDE DEF w
<1>3. QED BY <1>1, <1>2, Moved

\* The least of a set of items.
LEMMA FirstOf ==
    ASSUME NEW T \in SUBSET Item, T # {}
    PROVE  \E i \in T : First(T, i) /\ Min({k.m : k \in T}) = i.m
<1> DEFINE S == {k.m : k \in T}
           Less == {ss \in Nat \X Nat : ss[1] < ss[2]}
<1>1. S \in SUBSET Nat /\ S # {}
      BY Items
<1>2. IsWellFoundedOn(Less, Nat)
      BY NatLessThanWellFounded DEF OpToRel
<1> HIDE DEF Less
<1>3. PICK x \in S : \A y \in S : ~(<<y, x>> \in Less)
      BY <1>1, <1>2, WFMin
<1>4. \A y \in S : x <= y
  <2>1. \A y \in S : y \in Nat /\ x \in Nat /\ ~(y < x)
        BY <1>1, <1>3 DEF Less
  <2>2. QED BY <2>1
<1>5. Min(S) \in S /\ \A y \in S : Min(S) <= y
      BY <1>4 DEF Min
<1>6. QED BY <1>5 DEF First

\* The same process with something else to do.
With(w, pc, T, o) == [w EXCEPT !.pc = pc, !.todo = T, !.order = o]

\* Nothing else of it changes.
LEMMA WithIs ==
    ASSUME NEW w \in Proc, NEW pc \in Pc, NEW T \in SUBSET Item, NEW o \in Nat
    PROVE  /\ With(w, pc, T, o) \in Proc
           /\ With(w, pc, T, o).pc = pc /\ With(w, pc, T, o).todo = T
           /\ With(w, pc, T, o).order = o /\ With(w, pc, T, o).cmd = w.cmd
BY DEF With, Proc

\* The loops go on: over versioned migrations and on to the repeatables,
LEMMA LoopMigrate ==
    ASSUME NEW w \in Proc, w.cmd \in Commands, w.cmd.op = "migrate",
           NEW T \in SUBSET Item, Distinct(T), NEW o \in Nat, o > 0,
           NEW t, Numbered(t, o - 1), Partial(t) = {}, Planned(T, t), NEW s, NEW f
    PROVE  LET pc == LoopPc("migrate", T)
           IN  pc \in Busy /\ Work(With(w, pc, T, o), t, s, f)
<1> DEFINE pc == LoopPc("migrate", T)
           v == With(w, pc, T, o)
<1>1. CASE T = {}
  <2>1. pc = "repeatables"
        BY <1>1 DEF LoopPc
  <2>2. v.pc = "repeatables" /\ v.todo = {} /\ v.order = o /\ v.cmd = w.cmd
        BY <2>1, <1>1, WithIs DEF Pc
  <2> HIDE DEF v
  <2>3. Work(v, t, s, f)
        BY <2>2 DEF Work, Distinct, Ready
  <2>4. QED BY <2>1, <2>3 DEF v, Busy, Pc
<1>2. CASE T # {}
  <2>1. PICK i \in T : First(T, i) /\ Min({k.m : k \in T}) = i.m
        BY <1>2, FirstOf
  <2>2. pc = FirstPc(i.m)
        BY <1>2, <2>1 DEF LoopPc
  <2>3. \A k \in T : First(T, k) => k = i
    <3>1. ASSUME NEW k \in T, First(T, k) PROVE k.m = i.m
          BY <3>1, <2>1, Items DEF First
    <3>2. QED BY <3>1 DEF Distinct
  <2>4. /\ pc \in {"partial", "tx", "half"}
        /\ pc = "partial" => i.m \in NoTransaction
        /\ pc = "half" => i.m \notin NoTransaction /\ ~TransactionalDdl
        BY <2>2 DEF FirstPc
  <2>5. v.pc = pc /\ v.todo = T /\ v.order = o /\ v.cmd = w.cmd
        BY <2>4, WithIs DEF Pc
  <2> HIDE DEF v, pc
  <2>6. Pending(v, t)
        BY <2>5, <1>2 DEF Pending, Ready
  <2>7. pc = "half" => Committed(v, t)
        BY <2>3, <2>4, <2>5, <2>6 DEF Committed
  <2>8. Work(v, t, s, f)
        BY <2>3, <2>4, <2>5, <2>6, <2>7 DEF Work
  <2>9. QED BY <2>4, <2>8 DEF v, pc, Busy, Pc
<1>3. QED BY <1>1, <1>2

\* over repeatables,
LEMMA LoopRepeat ==
    ASSUME NEW w \in Proc, w.cmd \in Commands, w.cmd.op = "migrate",
           NEW T \in SUBSET Item, Distinct(T), NEW o \in Nat, o > 0,
           NEW t, Numbered(t, o - 1), Partial(t) = {}, NEW s, NEW f, Loadable(T, t, f)
    PROVE  LET pc == LoopPc("repeatables", T)
           IN  pc = "unlock" \/ (pc \in Busy /\ Work(With(w, pc, T, o), t, s, f))
<1> DEFINE pc == LoopPc("repeatables", T)
           v == With(w, pc, T, o)
<1>1. CASE T = {}
      BY <1>1 DEF LoopPc
<1>2. CASE T # {}
  <2>1. pc = "half"
        BY <1>2 DEF LoopPc
  <2>2. v.pc = "half" /\ v.todo = T /\ v.order = o /\ v.cmd = w.cmd
        BY <2>1, WithIs DEF Pc
  <2> HIDE DEF v
  <2>3. Repeating(v, t, f)
        BY <2>2, <1>2 DEF Repeating, Ready
  <2>4. Work(v, t, s, f)
        BY <2>2, <2>3, EngineAssumption DEF Work
  <2>5. QED BY <2>1, <2>4 DEF v, Busy, Pc
<1>3. QED BY <1>1, <1>2

\* over the versions of a baseline,
LEMMA LoopBaseline ==
    ASSUME NEW w \in Proc, w.cmd \in Commands, w.cmd.op = "baseline", w.cmd.n = Legacy,
           NEW T \in SUBSET Item, Distinct(T), NEW o \in Nat, o > 0,
           NEW t, Numbered(t, o - 1), Partial(t) = {}, NEW s, NEW f,
           \A i \in T : i.m \in Versioned /\ i.m <= Legacy
    PROVE  LET pc == LoopPc("baseline", T)
           IN  pc = "unlock" \/ (pc \in Busy /\ Work(With(w, pc, T, o), t, s, f))
<1> DEFINE pc == LoopPc("baseline", T)
           v == With(w, pc, T, o)
<1>1. CASE T = {}
      BY <1>1 DEF LoopPc
<1>2. CASE T # {}
  <2>1. pc = "insert"
        BY <1>2 DEF LoopPc
  <2>2. v.pc = "insert" /\ v.todo = T /\ v.order = o /\ v.cmd = w.cmd
        BY <2>1, WithIs DEF Pc
  <2> HIDE DEF v
  <2>3. Adopting(v, t)
        BY <2>2, <1>2 DEF Adopting, Ready
  <2>4. Work(v, t, s, f)
        BY <2>2, <2>3 DEF Work
  <2>5. QED BY <2>1, <2>4 DEF v, Busy, Pc
<1>3. QED BY <1>1, <1>2

\* and over the rows of a rollback.
LEMMA LoopRollback ==
    ASSUME NEW w \in Proc, w.cmd \in Commands, w.cmd.op = "rollback",
           NEW T \in SUBSET Item, Distinct(T), NEW o \in Nat,
           NEW t, Selection(T, t), NEW s, NEW f
    PROVE  LET pc == LoopPc("rollback", T)
           IN  pc = "unlock" \/ (pc \in Busy /\ Work(With(w, pc, T, o), t, s, f))
<1> DEFINE pc == LoopPc("rollback", T)
           v == With(w, pc, T, o)
<1>1. CASE T = {}
      BY <1>1 DEF LoopPc
<1>2. CASE T # {}
  <2>1. pc = "undo"
        BY <1>2 DEF LoopPc
  <2>2. v.pc = "undo" /\ v.todo = T /\ v.order = o /\ v.cmd = w.cmd
        BY <2>1, WithIs DEF Pc
  <2> HIDE DEF v
  <2>3. Rolling(v, t)
        BY <2>2, <1>2 DEF Rolling
  <2>4. Work(v, t, s, f)
        BY <2>2, <2>3 DEF Work
  <2>5. QED BY <2>1, <2>4 DEF v, Busy, Pc
<1>3. QED BY <1>1, <1>2

\* A loop goes on, or the command returns.
LEMMA Continued ==
    ASSUME OneAtATime, TypeOK, LockInv, WorkInv, NEW p \in Procs, proc[p].pc \in Busy,
           NEW op, NEW T \in SUBSET Item, NEW o \in Nat, Continue(p, op, T, o),
           files' = files, holder' = holder,
           LoopPc(op, T) = "unlock" \/
               (/\ LoopPc(op, T) \in Busy
                /\ Work(With(proc[p], LoopPc(op, T), T, o), table', schema', files))
    PROVE  proc' \in [Procs -> Proc] /\ LockInv' /\ WorkInv'
<1> DEFINE pc == LoopPc(op, T)
           w == With(proc[p], pc, T, o)
<1>1. CASE pc = "unlock"
      BY <1>1, Returned DEF Continue
<1>2. CASE pc # "unlock"
  <2>1. pc \in Busy /\ pc \in Pc /\ Work(w, table', schema', files)
        BY <1>2 DEF Busy
  <2>2. proc' = [proc EXCEPT ![p] = w]
        BY <1>2 DEF Continue, With
  <2>3. w \in Proc /\ w.pc = pc
        BY <2>1, WithIs DEF TypeOK
  <2> HIDE DEF pc, w
  <2>4. QED BY <2>1, <2>2, <2>3, Moved
<1>3. QED BY <1>1, <1>2

\* A process does something else, and the database stays.
LEMMA Elsewhere ==
    ASSUME IInv, NEW p \in Procs, NEW w \in Proc, proc' = [proc EXCEPT ![p] = w],
           UNCHANGED <<files, db>>, holder' \in (Procs \X Conns) \cup {Nobody}, LockInv',
           Waits(w), w.pc \in Busy => Work(w, table, schema, files)
    PROVE  IInv'
<1>1. /\ proc' \in [Procs -> Proc] /\ proc'[p] = w
      /\ \A q \in Procs : q # p => proc'[q] = proc[q]
      /\ files' = files /\ table' = table /\ schema' = schema /\ skipped' = skipped
      BY DEF IInv, TypeOK, db
<1>2. TypeOK'
      BY <1>1 DEF IInv, TypeOK
<1>3. ASSUME NEW q \in Procs
      PROVE  /\ Waits(proc'[q])
             /\ proc'[q].pc \in Busy => Work(proc'[q], table', schema', files')
      BY <1>1 DEF IInv, WorkInv
<1>4. WorkInv'
      BY <1>3 DEF WorkInv
<1>5. TableInv(table') /\ SumsInv(table', schema', files')
      BY <1>1 DEF IInv
<1>6. QED BY <1>2, <1>4, <1>5 DEF IInv

\* A process that does not work does not need the lock, and frees only its own.
LEMMA Freed ==
    ASSUME LockInv, TypeOK, NEW p \in Procs, NEW w, w.pc \notin Busy,
           proc' = [proc EXCEPT ![p] = w],
           holder' = holder \/ \E c \in Conns : holder = <<p, c>>
    PROVE  LockInv'
<1> SUFFICES ASSUME Driver # "sqlite", NEW q \in Procs, proc'[q].pc \in Busy
             PROVE  \E c \in Conns : holder' = <<q, c>>
    BY DEF LockInv
<1>1. q # p /\ proc[q].pc \in Busy
      BY DEF TypeOK
<1>2. PICK d \in Conns : holder = <<q, d>>
      BY <1>1 DEF LockInv
<1>3. holder' = holder
      BY <1>1, <1>2
<1>4. QED BY <1>2, <1>3

\* A command that waits or is over.
LEMMA Idles ==
    ASSUME NEW pc \in {"idle", "unlock", "error", "done"}
    PROVE  At(pc) \in Proc /\ Waits(At(pc)) /\ At(pc).pc = pc /\ pc \notin Busy
BY DEF At, Proc, Pc, NoCommand, Waits, Busy

\* A process that takes a command neither works nor has the lock.
LEMMA StartKeeps == ASSUME IInv, NEW p \in Procs, Start(p) PROVE IInv'
<1>1. PICK c \in Commands : /\ c.op = "baseline" => c.n = Legacy
                            /\ proc' = [proc EXCEPT ![p].pc = "lock", ![p].cmd = c]
      BY DEF Start
<1> DEFINE w == [proc[p] EXCEPT !.pc = "lock", !.cmd = c]
<1>2. proc[p] = At("idle") /\ c \in Command
      BY EngineAssumption DEF Start, IInv, WorkInv, Waits
<1>3. proc' = [proc EXCEPT ![p] = w]
      BY <1>1
<1>4. w \in Proc /\ w.pc = "lock" /\ w.cmd = c /\ w.todo = {}
  <2>1. At("idle").todo = {}
        BY DEF At
  <2>2. proc[p] \in Proc /\ proc[p].todo = {}
        BY <2>1, <1>2 DEF IInv, TypeOK
  <2>3. QED BY <2>2, <1>2 DEF Proc, Pc
<1> HIDE DEF w
<1>5. w.pc \notin Busy /\ Waits(w)
      BY <1>1, <1>4 DEF Busy, Waits
<1>6. UNCHANGED <<files, db, holder>>
      BY DEF Start
<1>7. LockInv'
      BY <1>3, <1>5, <1>6, Freed DEF IInv
<1>8. holder' \in (Procs \X Conns) \cup {Nobody}
      BY <1>6 DEF IInv, TypeOK
<1>9. QED BY <1>3, <1>4, <1>5, <1>6, <1>7, <1>8, Elsewhere

\* Who gets the lock finds it free, so that nobody else works.
LEMMA LockKeeps == ASSUME IInv, NEW p \in Procs, Lock(p) PROVE IInv'
<1> DEFINE w == [proc[p] EXCEPT !.pc = "read"]
<1>1. proc' = [proc EXCEPT ![p] = w]
      BY DEF Lock, Goto
<1>2. proc[p] \in Proc /\ proc[p].pc = "lock"
      BY DEF Lock, IInv, TypeOK
<1>3. w \in Proc /\ w.pc = "read" /\ w.cmd = proc[p].cmd /\ w.todo = proc[p].todo
      BY <1>2 DEF Proc, Pc
<1> HIDE DEF w
<1>4. Work(w, table, schema, files) /\ Waits(w)
      BY <1>2, <1>3 DEF IInv, WorkInv, Waits, Work, Distinct
<1>5. UNCHANGED <<files, db>>
      BY DEF Lock
<1>6. LockInv' /\ holder' \in (Procs \X Conns) \cup {Nobody}
  <2>1. CASE Driver = "sqlite"
        BY <2>1 DEF Lock, LockInv, IInv, TypeOK
  <2>2. CASE Driver # "sqlite"
    <3>1. PICK c \in Conns : holder = Nobody /\ holder' = <<p, c>>
          BY <2>2 DEF Lock
    <3>2. ASSUME NEW q \in Procs, q # p PROVE proc'[q].pc \notin Busy
      <4>1. \A c2 \in Conns : holder # <<q, c2>>
            BY <3>1 DEF Nobody
      <4>2. proc'[q] = proc[q]
            BY <3>2, <1>1 DEF IInv, TypeOK
      <4>3. QED BY <4>1, <4>2, <2>2 DEF IInv, LockInv
    <3>3. QED BY <3>1, <3>2 DEF LockInv
  <2>3. QED BY <2>1, <2>2
<1>7. QED BY <1>1, <1>3, <1>4, <1>5, <1>6, Elsewhere

\* Who gives up waiting has not begun.
LEMMA LockTimeoutKeeps == ASSUME IInv, NEW p \in Procs, LockTimeout(p) PROVE IInv'
<1> DEFINE w == At("done")
<1>1. w \in Proc /\ Waits(w) /\ w.pc \notin Busy
      BY Idles
<1>2. proc' = [proc EXCEPT ![p] = w] /\ UNCHANGED <<files, db, holder>>
      BY DEF LockTimeout, Return
<1> HIDE DEF w
<1>3. LockInv' /\ holder' \in (Procs \X Conns) \cup {Nobody}
      BY <1>1, <1>2, Freed DEF IInv, TypeOK
<1>4. QED BY <1>1, <1>2, <1>3, Elsewhere

\* A process releases the lock when it has nothing left to do.
LEMMA UnlockKeeps == ASSUME IInv, NEW p \in Procs, Unlock(p) PROVE IInv'
<1> DEFINE w == [proc[p] EXCEPT !.pc = "done"]
<1>1. proc[p] \in Proc
      BY DEF IInv, TypeOK
<1>2. w \in Proc /\ w.pc = "done"
      BY <1>1 DEF Proc, Pc
<1>3. proc' = [proc EXCEPT ![p] = w] /\ UNCHANGED <<files, db>>
      BY DEF Unlock, Goto
<1> HIDE DEF w
<1>4. w.pc \notin Busy /\ Waits(w)
      BY <1>2 DEF Busy, Waits
<1>5. holder' = holder \/ (holder' = Nobody /\ \E c \in Conns : holder = <<p, c>>)
      BY DEF Unlock
<1>6. LockInv' /\ holder' \in (Procs \X Conns) \cup {Nobody}
      BY <1>3, <1>4, <1>5, Freed DEF IInv, TypeOK
<1>7. QED BY <1>2, <1>3, <1>4, <1>6, Elsewhere

\* A process that ends, or is killed, takes its lock and what it had read with it.
LEMMA CloseKeeps == ASSUME IInv, NEW p \in Procs, Close(p) PROVE IInv'
<1> DEFINE w == At("idle")
<1>1. w \in Proc /\ Waits(w) /\ w.pc \notin Busy
      BY Idles
<1>2. proc' = [proc EXCEPT ![p] = w] /\ UNCHANGED <<files, db>>
      BY DEF Close, Return
<1> HIDE DEF w
<1>3. holder' = holder \/ (holder' = Nobody /\ \E c \in Conns : holder = <<p, c>>)
      BY DEF Close
<1>4. LockInv' /\ holder' \in (Procs \X Conns) \cup {Nobody}
      BY <1>1, <1>2, <1>3, Freed DEF IInv, TypeOK
<1>5. QED BY <1>1, <1>2, <1>4, Elsewhere

\* A failing statement ends the work of its process.
LEMMA SqlErrorKeeps == ASSUME IInv, NEW p \in Procs, SqlError(p) PROVE IInv'
<1>1. PICK pc \in {"done", "error"} : proc' = [proc EXCEPT ![p] = At(pc)]
      BY DEF SqlError, Return
<1> DEFINE w == At(pc)
<1>2. w \in Proc /\ Waits(w) /\ w.pc \notin Busy
      BY Idles
<1>3. proc' = [proc EXCEPT ![p] = w] /\ UNCHANGED <<files, db, holder>>
      BY <1>1 DEF SqlError
<1> HIDE DEF w
<1>4. LockInv' /\ holder' \in (Procs \X Conns) \cup {Nobody}
      BY <1>2, <1>3, Freed DEF IInv, TypeOK
<1>5. QED BY <1>2, <1>3, <1>4, Elsewhere

\* Files only grow, so that what was read of one is not newer than it is.
LEMMA EditFileKeeps == ASSUME IInv, NEW m \in Migrations, EditFile(m) PROVE IInv'
<1>1. /\ UNCHANGED <<table, schema, skipped, holder, proc>>
      /\ files' \in [Migrations -> 0 .. MaxContent]
      /\ \A k \in Migrations : files[k] \in Nat /\ files'[k] \in Nat /\ files[k] <= files'[k]
      BY EngineAssumption DEF EditFile, db, IInv, TypeOK
<1>2. TypeOK' /\ LockInv'
      BY <1>1 DEF IInv, TypeOK, LockInv
<1>3. ASSUME NEW p \in Procs, proc[p].pc \in Busy
      PROVE  Work(proc[p], table, schema, files')
  <2> DEFINE w == proc[p]
  <2>1. Work(w, table, schema, files) /\ w.todo \in SUBSET Item
        BY <1>3 DEF IInv, WorkInv, TypeOK, Proc
  <2> HIDE DEF w
  <2>2. ASSUME Repeating(w, table, files) PROVE Repeating(w, table, files')
    <3>1. ASSUME NEW i \in w.todo PROVE i.load <= files'[i.m]
      <4>1. i.load <= files[i.m]
            BY <2>2 DEF Repeating, Loadable
      <4>2. QED BY <4>1, <2>1, <1>1, Items
    <3>2. QED BY <3>1, <2>2 DEF Repeating, Loadable
  <2>3. Repeated(w, table, schema, files) => Repeated(w, table, schema, files')
        BY <2>2 DEF Repeated
  <2>4. Work(w, table, schema, files')
        BY <2>1, <2>2, <2>3 DEF Work
  <2>5. QED BY <2>4 DEF w
<1>4. WorkInv'
      BY <1>1, <1>3 DEF IInv, WorkInv
<1>5. SumsInv(table', schema', files')
  <2> SUFFICES ASSUME NEW r \in Repeatable, table[r].status # "none"
               PROVE  table[r].sum <= files'[r] /\
                      (schema[r].eff = "yes" => table[r].sum <= schema[r].content)
      BY <1>1 DEF SumsInv, SumRight
  <2>1. /\ table[r].sum <= files[r]
        /\ schema[r].eff = "yes" => table[r].sum <= schema[r].content
        BY DEF IInv, SumsInv, SumRight
  <2>2. table[r].sum \in Nat /\ files[r] \in Nat /\ files'[r] \in Nat /\ files[r] <= files'[r]
        BY <1>1, Names, Rows DEF IInv, TypeOK
  <2>3. QED BY <2>1, <2>2
<1>6. TableInv(table')
      BY <1>1 DEF IInv
<1>7. QED BY <1>2, <1>4, <1>5, <1>6 DEF IInv

-----------------------------------------------------------------------------
(* The commands read *)

\* What is known of a process that works.
LEMMA AtWork ==
    ASSUME IInv, NEW p \in Procs, proc[p].pc \in Busy
    PROVE  /\ proc[p] \in Proc /\ proc[p].todo \in SUBSET Item /\ proc[p].order \in Nat
           /\ Distinct(proc[p].todo) /\ proc[p].cmd \in Commands /\ proc[p].cmd \in Command
           /\ proc[p].cmd.op = "baseline" => proc[p].cmd.n = Legacy
           /\ Work(proc[p], table, schema, files)
<1>1. proc[p] \in Proc /\ Work(proc[p], table, schema, files)
      BY DEF IInv, TypeOK, WorkInv
<1> DEFINE w == proc[p]
<1> HIDE DEF w
<1>2. /\ Distinct(w.todo) /\ w.cmd \in Commands /\ w.cmd \in Command
      /\ w.cmd.op = "baseline" => w.cmd.n = Legacy
      BY <1>1, EngineAssumption DEF Work, w
<1>3. w.todo \in SUBSET Item /\ w.order \in Nat
      BY <1>1 DEF Proc, w
<1>4. QED BY <1>1, <1>2, <1>3 DEF w

\* The types of the database.
LEMMA Database ==
    ASSUME IInv
    PROVE  /\ table \in [Migrations -> Row] /\ schema \in [Migrations -> Effect]
           /\ skipped \in SUBSET Migrations
           /\ files \in [Migrations -> 0 .. MaxContent] /\ \A m \in Migrations : files[m] \in Nat
           /\ TableInv(table) /\ SumsInv(table, schema, files)
           /\ TypeOK /\ LockInv /\ WorkInv
BY EngineAssumption DEF IInv, TypeOK

\* The parts after a step that writes,
LEMMA Written ==
    ASSUME IInv, proc' \in [Procs -> Proc], LockInv', WorkInv', files' = files, holder' = holder,
           schema' \in [Migrations -> Effect], skipped' \in SUBSET Migrations,
           TableInv(table'), SumsInv(table', schema', files)
    PROVE  IInv'
<1>1. TypeOK'
      BY DEF IInv, TypeOK, TableInv
<1>2. QED BY <1>1 DEF IInv

\* and after one that only reads.
LEMMA Unwritten ==
    ASSUME IInv, proc' \in [Procs -> Proc], LockInv', WorkInv', UNCHANGED <<files, db, holder>>
    PROVE  IInv'
<1>1. files' = files /\ holder' = holder /\ table' = table /\ schema' = schema /\ skipped' = skipped
      BY DEF db
<1>2. TableInv(table') /\ SumsInv(table', schema', files)
      BY <1>1, Database
<1>3. QED BY <1>1, <1>2, Database, Written

\* What is loaded of a set of migrations.
LEMMA LoadIs ==
    ASSUME IInv, NEW S \in SUBSET Migrations
    PROVE  /\ Load(S) \in SUBSET Item /\ Distinct(Load(S))
           /\ {i.m : i \in Load(S)} = S
           /\ \A i \in Load(S) : i.m \in S /\ i.load = files[i.m] /\ i.seen = table[i.m]
           /\ \A m \in S : \E i \in Load(S) : i.m = m
<1> DEFINE item(m) == [m |-> m, load |-> files[m], seen |-> table[m]]
<1>1. \A m \in S : item(m) \in Item
      BY Database DEF Item
<1>2. \A m \in S : item(m).m = m /\ item(m).load = files[m] /\ item(m).seen = table[m]
      OBVIOUS
<1>3. Load(S) = {item(m) : m \in S}
      BY DEF Load
<1> HIDE DEF item
<1>4. QED BY <1>1, <1>2, <1>3 DEF Distinct

\* The plan that is not refused stands on the table it was built from.
LEMMA MigrateReadKeeps == ASSUME OneAtATime, IInv, NEW p \in Procs, MigrateRead(p) PROVE IInv'
<1> DEFINE c == proc[p].cmd
           S == ToApply(table, files, c.n)
           w == [proc[p] EXCEPT !.todo = Load(S), !.pc = "order"]
<1>1. proc[p].pc \in Busy /\ UNCHANGED <<files, db, holder>> /\ c.op = "migrate"
      BY DEF MigrateRead, Busy, Pc
<1>2. /\ TypeOK /\ LockInv /\ WorkInv /\ files' = files /\ holder' = holder
      /\ table' = table /\ schema' = schema
      BY <1>1, Database DEF db
<1>3. CASE Return(p, "error") \/ Return(p, "unlock")
      BY <1>1, <1>2, <1>3, Returned, Unwritten
<1>4. CASE ~PlanRefused(table, files, c.n, c.how = "atomic") /\ proc' = [proc EXCEPT ![p] = w]
  <2>1. S \in SUBSET Migrations /\ S \subseteq Versioned
        BY Names DEF ToApply
  <2>2. /\ Load(S) \in SUBSET Item /\ Distinct(Load(S))
        /\ \A i \in Load(S) : i.m \in S
        /\ \A m \in S : \E i \in Load(S) : i.m = m
        BY <2>1, LoadIs
  <2>3. proc[p] \in Proc /\ c \in Commands
        BY <1>1, AtWork
  <2>4. w \in Proc /\ w.pc = "order" /\ w.todo = Load(S) /\ w.cmd = c
        BY <2>2, <2>3 DEF Proc, Pc
  <2>5. /\ Partial(table) = {}
        /\ \A m \in S : \A d \in Requires[m] : d \in Recorded(table) \/ (d \in S /\ d < m)
        BY <1>4 DEF PlanRefused
  <2> HIDE DEF S, w, c
  <2>6. Planned(w.todo, table)
        BY <2>1, <2>2, <2>4, <2>5 DEF Planned
  <2>7. Work(w, table, schema, files)
        BY <2>2, <2>3, <2>4, <2>5, <2>6, <1>1 DEF Work
  <2>8. w.pc \in Busy
        BY <2>4 DEF Busy, Pc
  <2>9. proc' \in [Procs -> Proc] /\ LockInv' /\ WorkInv'
        BY <2>4, <2>7, <2>8, <1>1, <1>2, <1>4, Moved
  <2>10. QED BY <2>9, <1>1, Unwritten
<1>5. QED BY <1>3, <1>4 DEF MigrateRead

\* The first migration gets the next number.
LEMMA MigrateOrderKeeps == ASSUME OneAtATime, IInv, NEW p \in Procs, MigrateOrder(p) PROVE IInv'
<1> DEFINE T == proc[p].todo
           o == NextOrder(table)
<1>1. /\ proc[p].pc = "order" /\ proc[p].pc \in Busy /\ UNCHANGED <<files, db, holder>>
      /\ Continue(p, "migrate", T, o)
      BY DEF MigrateOrder, Busy, Pc
<1>2. /\ TypeOK /\ LockInv /\ WorkInv /\ files' = files /\ holder' = holder
      /\ table' = table /\ schema' = schema /\ table \in [Migrations -> Row]
      BY <1>1, Database DEF db
<1>3. PICK n \in Nat : Numbered(table, n)
      BY Database DEF TableInv
<1>4. o = n + 1
      BY <1>2, <1>3, NextOrderIs
<1>5. o \in Nat /\ o > 0 /\ o - 1 = n
      BY <1>4
<1>6. /\ proc[p] \in Proc /\ T \in SUBSET Item /\ Distinct(T) /\ proc[p].cmd \in Commands
      /\ Work(proc[p], table, schema, files)
      BY <1>1, AtWork
<1>7. proc[p].cmd.op = "migrate" /\ Partial(table) = {} /\ Planned(T, table)
      BY <1>1, <1>6 DEF Work
<1> HIDE DEF T, o
<1>8. LoopPc("migrate", T) \in Busy
      /\ Work(With(proc[p], LoopPc("migrate", T), T, o), table, schema, files)
      BY <1>3, <1>5, <1>6, <1>7, LoopMigrate
<1>9. proc' \in [Procs -> Proc] /\ LockInv' /\ WorkInv'
      BY <1>1, <1>2, <1>5, <1>6, <1>8, Continued
<1>10. QED BY <1>1, <1>9, Unwritten

\* The repeatables are loaded as they are now.
LEMMA LoadRepeatablesKeeps ==
    ASSUME OneAtATime, IInv, NEW p \in Procs, LoadRepeatables(p) PROVE IInv'
<1> DEFINE S == ToRepeat(table, files)
           T == Load(S)
           o == proc[p].order
<1>1. /\ proc[p].pc = "repeatables" /\ proc[p].pc \in Busy /\ UNCHANGED <<files, db, holder>>
      /\ Continue(p, "repeatables", T, o)
      BY DEF LoadRepeatables, Busy, Pc
<1>2. /\ TypeOK /\ LockInv /\ WorkInv /\ files' = files /\ holder' = holder
      /\ table' = table /\ schema' = schema
      BY <1>1, Database DEF db
<1>3. S \in SUBSET Migrations /\ S \subseteq Repeatable
      BY Names DEF ToRepeat
<1>4. T \in SUBSET Item /\ Distinct(T) /\ \A i \in T : i.m \in S /\ i.load = files[i.m]
      BY <1>3, LoadIs
<1>5. /\ proc[p] \in Proc /\ proc[p].cmd \in Commands /\ o \in Nat
      /\ Work(proc[p], table, schema, files)
      BY <1>1, AtWork
<1>6. /\ proc[p].cmd.op = "migrate" /\ o > 0 /\ Numbered(table, o - 1) /\ Partial(table) = {}
      BY <1>1, <1>5 DEF Work, Ready
<1> HIDE DEF S, T, o
<1>7. Loadable(T, table, files)
  <2> SUFFICES ASSUME NEW i \in T
               PROVE  /\ i.m \in Repeatable /\ i.load <= files[i.m]
                      /\ table[i.m].status # "none" => table[i.m].sum <= i.load
      BY DEF Loadable
  <2>1. i.m \in Repeatable /\ i.m \in Migrations /\ i.load = files[i.m] /\ files[i.m] \in Nat
        BY <1>3, <1>4, Database
  <2>2. table[i.m].status # "none" => table[i.m].sum <= files[i.m]
        BY <2>1, Database DEF SumsInv, SumRight
  <2>3. QED BY <2>1, <2>2
<1>8. LoopPc("repeatables", T) = "unlock" \/
        (/\ LoopPc("repeatables", T) \in Busy
         /\ Work(With(proc[p], LoopPc("repeatables", T), T, o), table, schema, files))
      BY <1>4, <1>5, <1>6, <1>7, LoopRepeat
<1>9. proc' \in [Procs -> Proc] /\ LockInv' /\ WorkInv'
      BY <1>1, <1>2, <1>4, <1>5, <1>8, Continued
<1>10. QED BY <1>1, <1>9, Unwritten

\* Commands have the strategies of their operation.
LEMMA Strategies ==
    ASSUME NEW c \in Command
    PROVE  /\ c.n \in Nat /\ c.op \in {"migrate", "rollback", "repair", "baseline"}
           /\ c.op = "rollback" => c.how \in {"last", "steps", "to"}
           /\ c.op = "repair" => c.how \in {"retry", "rollback", "skip", "checksum"}
           /\ c.op = "migrate" => c.how # "skip"
<1>1. CASE c \in [op : {"migrate"}, how : {"sequential", "atomic", "dry"}, n : Nat]
      BY <1>1
<1>2. CASE c \in [op : {"rollback"}, how : {"last", "steps", "to"}, n : Nat]
      BY <1>2
<1>3. CASE c \in [op : {"repair"}, how : {"retry", "rollback", "skip", "checksum"}, n : Nat]
      BY <1>3
<1>4. CASE c \in [op : {"baseline"}, how : {"all"}, n : Nat]
      BY <1>4
<1>5. QED BY <1>1, <1>2, <1>3, <1>4 DEF Command

\* The rows a rollback selects are the newest ones.
LEMMA Selected ==
    ASSUME NEW t \in [Migrations -> Row], NEW n \in Nat, Numbered(t, n),
           NEW how \in {"last", "steps", "to"}, NEW v \in Nat, NEW S \in ToRollback(t, how, v)
    PROVE  Upper(S, t)
<1>1. \A m \in Recorded(t) : t[m].order \in Nat
      BY DEF Numbered
<1>2. CASE how \in {"last", "steps"}
  <2>1. PICK j : S \in NewestFirst(t, j)
        BY <1>2 DEF ToRollback
  <2>2. /\ S \subseteq Recorded(t)
        /\ \A m \in S, k \in Recorded(t) \ S : t[m].order >= t[k].order
        BY <2>1 DEF NewestFirst
  <2>3. ASSUME NEW m \in S, NEW k \in Recorded(t), t[k].order >= t[m].order, k \notin S
        PROVE  FALSE
    <3>1. t[m].order >= t[k].order /\ t[m].order \in Nat /\ t[k].order \in Nat
          BY <2>2, <2>3, <1>1
    <3>2. t[m].order = t[k].order
          BY <3>1, <2>3
    <3>3. QED BY <3>2, <2>2, <2>3 DEF Numbered
  <2>4. QED BY <2>2, <2>3 DEF Upper
<1>3. CASE how = "to"
  <2>1. S = NewerUntil(t, v)
        BY <1>3 DEF ToRollback
  <2>2. S \subseteq Recorded(t)
        BY <2>1 DEF NewerUntil
  <2>3. ASSUME NEW m \in S, NEW k \in Recorded(t), t[k].order >= t[m].order
        PROVE  k \in S
    <3>1. ASSUME NEW l \in Recorded(t), t[l].order >= t[k].order PROVE l > v
      <4>1. t[l].order >= t[m].order
            BY <3>1, <2>2, <2>3, <1>1
      <4>2. QED BY <4>1, <2>1 DEF NewerUntil
    <3>2. QED BY <3>1, <2>1 DEF NewerUntil
  <2>4. QED BY <2>2, <2>3 DEF Upper
<1>4. QED BY <1>2, <1>3

\* A rollback selects newest rows of a table without a PARTIAL one.
LEMMA RollbackReadKeeps == ASSUME OneAtATime, IInv, NEW p \in Procs, RollbackRead(p) PROVE IInv'
<1> DEFINE c == proc[p].cmd
<1>1. proc[p].pc \in Busy /\ UNCHANGED <<files, db, holder>> /\ c.op = "rollback"
      BY DEF RollbackRead, Busy, Pc
<1>2. /\ TypeOK /\ LockInv /\ WorkInv /\ files' = files /\ holder' = holder
      /\ table' = table /\ schema' = schema /\ table \in [Migrations -> Row]
      BY <1>1, Database DEF db
<1>3. CASE Return(p, "error")
      BY <1>1, <1>2, <1>3, Returned, Unwritten
<1>4. ASSUME Partial(table) = {}, NEW S \in ToRollback(table, c.how, c.n),
             Continue(p, "rollback", Load(S), 0)
      PROVE  IInv'
  <2> DEFINE T == Load(S)
             o == 0
  <2>1. PICK n \in Nat : Numbered(table, n)
        BY Database DEF TableInv
  <2>2. proc[p] \in Proc /\ c \in Commands /\ c \in Command
        BY <1>1, AtWork
  <2>3. c.n \in Nat /\ c.how \in {"last", "steps", "to"}
        BY <1>1, <2>2, Strategies
  <2>4. Upper(S, table)
        BY <2>1, <2>3, <1>2, <1>4, Selected
  <2>5. S \in SUBSET Migrations
        BY <2>4 DEF Upper, Recorded
  <2>6. /\ T \in SUBSET Item /\ Distinct(T) /\ {i.m : i \in T} = S
        /\ \A i \in T : i.seen = table[i.m]
        BY <2>5, LoadIs
  <2>7. Continue(p, "rollback", T, o) /\ o \in Nat
        BY <1>4
  <2>8. Selection(T, table)
        BY <1>4, <2>4, <2>6 DEF Selection
  <2> HIDE DEF T, o
  <2>9. LoopPc("rollback", T) = "unlock" \/
          (/\ LoopPc("rollback", T) \in Busy
           /\ Work(With(proc[p], LoopPc("rollback", T), T, o), table, schema, files))
        BY <1>1, <1>4, <2>2, <2>6, <2>7, <2>8, LoopRollback
  <2>10. proc' \in [Procs -> Proc] /\ LockInv' /\ WorkInv'
        BY <1>1, <1>2, <2>6, <2>7, <2>9, Continued
  <2>11. QED BY <1>1, <2>10, Unwritten
<1>5. QED BY <1>3, <1>4 DEF RollbackRead

\* A PARTIAL row is the only one.
LEMMA OnePartial ==
    ASSUME NEW t, TableInv(t), NEW m \in Partial(t)
    PROVE  Partial(t) = {m} /\ m \in NoTransaction /\ m \in Recorded(t) /\ Newest(t, m)
<1>1. /\ \A k \in Partial(t) : k \in Recorded(t) /\ k \in NoTransaction /\ Newest(t, k)
      /\ \A k \in Recorded(t) : t[k].order \in Nat
      BY Rows DEF TableInv, Partial, Recorded
<1>2. ASSUME NEW k \in Partial(t) PROVE k = m
  <2>1. t[k].order <= t[m].order /\ t[m].order <= t[k].order
        BY <1>1 DEF Newest
  <2>2. t[k].order = t[m].order
        BY <2>1, <1>1
  <2>3. QED BY <2>2, <1>1 DEF TableInv, Numbered
<1>3. QED BY <1>1, <1>2

\* A repair takes the PARTIAL row.
LEMMA RepairReadKeeps == ASSUME OneAtATime, IInv, NEW p \in Procs, RepairRead(p) PROVE IInv'
<1> DEFINE c == proc[p].cmd
           pc == CASE c.how = "retry" -> "half"
                   [] c.how = "rollback" -> "undo"
                   [] c.how = "skip" -> "mark"
           w(m) == [proc[p] EXCEPT !.todo = Load({m}), !.pc = pc]
<1>1. /\ proc[p].pc \in Busy /\ UNCHANGED <<files, db, holder>>
      /\ c.op = "repair" /\ c.how # "checksum"
      BY DEF RepairRead, Busy, Pc
<1>2. /\ TypeOK /\ LockInv /\ WorkInv /\ files' = files /\ holder' = holder
      /\ table' = table /\ schema' = schema
      BY <1>1, Database DEF db
<1>3. CASE Return(p, "error")
      BY <1>1, <1>2, <1>3, Returned, Unwritten
<1>4. ASSUME NEW m \in Partial(table), proc' = [proc EXCEPT ![p] = w(m)]
      PROVE  IInv'
  <2>1. Partial(table) = {m} /\ m \in NoTransaction /\ m \in Migrations
        BY <1>4, Database, OnePartial, Names
  <2>2. /\ Load({m}) \in SUBSET Item /\ Distinct(Load({m}))
        /\ \A i \in Load({m}) : i.m = m
        /\ \E i \in Load({m}) : i.m = m
        BY <2>1, LoadIs
  <2>3. proc[p] \in Proc /\ c \in Commands /\ c \in Command
        BY <1>1, AtWork
  <2>4. c.how \in {"retry", "rollback", "skip"}
        BY <1>1, <2>3, Strategies
  <2>5. /\ pc \in Busy /\ pc \in Pc /\ pc \in {"half", "undo", "mark"}
        /\ pc = "half" => c.how = "retry"
        /\ pc = "undo" => c.how = "rollback"
        /\ pc = "mark" => c.how = "skip"
        BY <2>4 DEF Busy, Pc
  <2> HIDE DEF pc
  <2>6. w(m) \in Proc /\ w(m).pc = pc /\ w(m).todo = Load({m}) /\ w(m).cmd = c
        BY <2>2, <2>3, <2>5 DEF Proc
  <2> HIDE DEF w, c
  <2>7. PICK i \in Load({m}) : i.m = m /\ Load({m}) = {i}
        BY <2>2 DEF Distinct
  <2>8. \A how : c.how \in how => Repairing(w(m), table, how)
        BY <2>1, <2>6, <2>7, <1>1 DEF Repairing
  <2>9. Work(w(m), table, schema, files)
        BY <2>2, <2>3, <2>5, <2>6, <2>8, <1>1 DEF Work
  <2>10. proc' \in [Procs -> Proc] /\ LockInv' /\ WorkInv'
        BY <2>5, <2>6, <2>9, <1>1, <1>2, <1>4, Moved
  <2>11. QED BY <2>10, <1>1, Unwritten
<1>5. QED BY <1>3, <1>4 DEF RepairRead

\* A new checksum of a versioned migration leaves its row where it is.
LEMMA RepairChecksumKeeps ==
    ASSUME OneAtATime, IInv, NEW p \in Procs, RepairChecksum(p) PROVE IInv'
<1> DEFINE m == proc[p].cmd.n
<1>1. /\ proc[p].pc \in Busy /\ schema' = schema /\ skipped' = skipped
      /\ files' = files /\ holder' = holder
      BY DEF RepairChecksum, Busy, Pc
<1>2. TypeOK /\ LockInv /\ WorkInv /\ table \in [Migrations -> Row] /\ TableInv(table)
      BY Database
<1>3. CASE Return(p, "error") /\ table' = table
  <2>1. UNCHANGED <<files, db, holder>>
        BY <1>1, <1>3 DEF db
  <2>2. QED BY <2>1, <1>1, <1>2, <1>3, Returned, Unwritten
<1>4. CASE /\ m \in Versioned /\ Return(p, "unlock")
           /\ table' = [table EXCEPT ![m].sum = IF m \in Recorded(table) THEN files[m] ELSE @]
  <2> DEFINE sum == IF m \in Recorded(table) THEN files[m] ELSE table[m].sum
             row == [table[m] EXCEPT !.sum = sum]
  <2>1. proc' \in [Procs -> Proc] /\ LockInv' /\ WorkInv'
        BY <1>1, <1>2, <1>4, Returned
  <2>2. m \in Migrations /\ sum \in Nat /\ table[m] \in Row
        BY <1>2, <1>4, Names, Database, Rows
  <2> HIDE DEF m
  <2>3. row \in Row /\ row.order = table[m].order /\ row.status = table[m].status
        BY <2>2 DEF Row
  <2>4. table' = [table EXCEPT ![m] = row]
        BY <1>4
  <2> HIDE DEF row
  <2>5. /\ table' \in [Migrations -> Row] /\ table'[m] = row
        /\ \A k \in Migrations : k # m => table'[k] = table[k]
        BY <2>2, <2>3, <2>4, <1>2
  <2>6. \A k \in Migrations : table'[k].order = table[k].order /\ table'[k].status = table[k].status
        BY <2>3, <2>5
  <2>7. TableInv(table')
        BY <2>5, <2>6, <1>2, Rewritten
  <2>8. SumsInv(table', schema', files)
    <3>1. \A r \in Repeatable : table'[r] = table[r]
          BY <2>5, <1>4, Names
    <3>2. QED BY <3>1, <1>1, Database DEF SumsInv
  <2>9. QED BY <2>1, <2>7, <2>8, <1>1, Database, Written
<1>5. QED BY <1>3, <1>4 DEF RepairChecksum

\* A baseline begins with number 1, of versions up to the one of the database.
LEMMA BaselineReadKeeps == ASSUME OneAtATime, IInv, NEW p \in Procs, BaselineRead(p) PROVE IInv'
<1> DEFINE c == proc[p].cmd
           S == ToApply(table, files, c.n)
           T == Load(S)
           o == 1
<1>1. proc[p].pc \in Busy /\ UNCHANGED <<files, db, holder>> /\ c.op = "baseline"
      BY DEF BaselineRead, Busy, Pc
<1>2. /\ TypeOK /\ LockInv /\ WorkInv /\ files' = files /\ holder' = holder
      /\ table' = table /\ schema' = schema
      BY <1>1, Database DEF db
<1>3. CASE Return(p, "error")
      BY <1>1, <1>2, <1>3, Returned, Unwritten
<1>4. CASE Recorded(table) = {} /\ Continue(p, "baseline", T, o)
  <2>1. S \in SUBSET Migrations /\ S \subseteq Versioned /\ \A m \in S : m <= c.n
        BY Names DEF ToApply
  <2>2. T \in SUBSET Item /\ Distinct(T) /\ \A i \in T : i.m \in S
        BY <2>1, LoadIs
  <2>3. proc[p] \in Proc /\ c \in Commands /\ c.n = Legacy
        BY <1>1, AtWork
  <2>4. o \in Nat /\ o > 0 /\ Numbered(table, o - 1)
    <3>1. Numbered(table, 0)
          BY <1>4 DEF Numbered
    <3>2. QED BY <3>1
  <2>5. Partial(table) = {}
        BY <1>4 DEF Partial, Recorded
  <2>6. \A i \in T : i.m \in Versioned /\ i.m <= Legacy
        BY <2>1, <2>2, <2>3
  <2> HIDE DEF S, T, o, c
  <2>7. LoopPc("baseline", T) = "unlock" \/
          (/\ LoopPc("baseline", T) \in Busy
           /\ Work(With(proc[p], LoopPc("baseline", T), T, o), table, schema, files))
        BY <1>1, <2>2, <2>3, <2>4, <2>5, <2>6, LoopBaseline DEF c
  <2>8. proc' \in [Procs -> Proc] /\ LockInv' /\ WorkInv'
        BY <1>1, <1>2, <1>4, <2>2, <2>4, <2>7, Continued
  <2>9. QED BY <1>1, <2>8, Unwritten
<1>5. QED BY <1>3, <1>4 DEF BaselineRead

-----------------------------------------------------------------------------
(* The commands write *)

\* Only one item is the first.
LEMMA OneFirst ==
    ASSUME NEW T \in SUBSET Item, Distinct(T), NEW i, NEW k, First(T, i), First(T, k)
    PROVE  i = k
<1>1. i \in T /\ k \in T /\ i.m <= k.m /\ k.m <= i.m
      BY DEF First
<1>2. i.m = k.m
      BY <1>1, Items
<1>3. QED BY <1>1, <1>2 DEF Distinct

\* Outside of rollback the current item is the first.
LEMMA CurrentIs ==
    ASSUME NEW p \in Procs, NEW i, Current(p, i), proc[p].cmd.op # "rollback"
    PROVE  First(proc[p].todo, i)
BY DEF Current, First

\* Which kind of migration a process works on outside a transaction.
LEMMA Executing ==
    ASSUME NEW w \in Proc, Distinct(w.todo), NEW t, NEW f, NEW i, First(w.todo, i)
    PROVE  /\ Unfinished(w, t) => i.m \in NoTransaction /\ Partial(t) = {i.m}
                                    /\ Numbered(t, w.order) /\ Planned(w.todo \ {i}, t)
           /\ Committed(w, t) => i.m \in Versioned /\ i.m \notin NoTransaction
           /\ Repeating(w, t, f) => i.m \in Repeatable
           /\ \A how : Repairing(w, t, how) =>
                  i.m \in NoTransaction /\ Partial(t) = {i.m} /\ w.todo = {i}
<1>1. w.todo \in SUBSET Item
      BY DEF Proc
<1>2. i \in w.todo
      BY DEF First
<1>3. \A k \in w.todo : First(w.todo, k) => k = i
      BY <1>1, OneFirst
<1>4. QED BY <1>2, <1>3 DEF Unfinished, Committed, Pending, Planned, Repeating, Loadable, Repairing

\* The effect of one migration changes.
LEMMA SumsAfter ==
    ASSUME NEW t, NEW s \in [Migrations -> Effect], NEW f, SumsInv(t, s, f), NEW m \in Migrations,
           NEW e \in Effect, m \in Repeatable => SumRight(t[m], e, f[m])
    PROVE  /\ [s EXCEPT ![m] = e] \in [Migrations -> Effect]
           /\ SumsInv(t, [s EXCEPT ![m] = e], f)
<1> DEFINE u == [s EXCEPT ![m] = e]
<1>1. u \in [Migrations -> Effect] /\ u[m] = e /\ \A k \in Migrations : k # m => u[k] = s[k]
      OBVIOUS
<1> HIDE DEF u
<1>2. SumsInv(t, u, f)
      BY <1>1, Names DEF SumsInv
<1>3. QED BY <1>1, <1>2 DEF u

\* What is half executed is not recorded as applied: no row changes.
LEMMA ExecuteHalfKeeps == ASSUME OneAtATime, IInv, NEW p \in Procs, ExecuteHalf(p) PROVE IInv'
<1> DEFINE w == [proc[p] EXCEPT !.pc = "exec"]
<1>1. PICK i \in proc[p].todo : schema' = [schema EXCEPT ![i.m].eff = "half"]
      BY DEF ExecuteHalf
<1>2. /\ proc[p].pc = "half" /\ proc[p].pc \in Busy /\ proc' = [proc EXCEPT ![p] = w]
      /\ files' = files /\ table' = table /\ skipped' = skipped /\ holder' = holder
      BY DEF ExecuteHalf, Goto, Busy, Pc
<1>3. /\ proc[p] \in Proc /\ proc[p].todo \in SUBSET Item
      /\ Work(proc[p], table, schema, files)
      BY <1>2, AtWork
<1>4. w \in Proc /\ w.pc = "exec" /\ w.todo = proc[p].todo /\ w.order = proc[p].order
      /\ w.cmd = proc[p].cmd
      BY <1>3 DEF Proc, Pc
<1> HIDE DEF w
<1>5. w.pc \in Busy /\ Work(w, table', schema', files)
  <2>1. w.pc \in Busy
        BY <1>4 DEF Busy, Pc
  <2>2. \/ Unfinished(w, table) \/ Committed(w, table)
        \/ Repeating(w, table, files) \/ Repairing(w, table, {"retry"})
        BY <1>2, <1>3, <1>4 DEF Work, Unfinished, Committed, Pending, Ready, Repeating, Repairing
  <2>3. QED BY <2>1, <2>2, <1>2, <1>3, <1>4 DEF Work
<1>6. proc' \in [Procs -> Proc] /\ LockInv' /\ WorkInv'
      BY <1>2, <1>4, <1>5, Database, Moved
<1>7. schema' \in [Migrations -> Effect] /\ SumsInv(table', schema', files)
  <2> DEFINE e == [schema[i.m] EXCEPT !.eff = "half"]
  <2>1. i.m \in Migrations
        BY <1>3, Items
  <2>2. schema[i.m] \in Effect /\ SumsInv(table, schema, files)
        /\ schema \in [Migrations -> Effect]
        BY <2>1, Database
  <2>3. e \in Effect /\ e.eff = "half"
        BY <2>2 DEF Effect
  <2>4. schema' = [schema EXCEPT ![i.m] = e]
        BY <1>1
  <2> HIDE DEF e
  <2>5. i.m \in Repeatable => SumRight(table[i.m], e, files[i.m])
        BY <2>2, <2>3 DEF SumsInv, SumRight
  <2>6. QED BY <2>1, <2>2, <2>3, <2>4, <2>5, <1>2, SumsAfter
<1>8. QED BY <1>2, <1>6, <1>7, Database, Written

\* A run that ended leads to the statement that records it.
LEMMA ExecuteKeeps == ASSUME OneAtATime, IInv, NEW p \in Procs, Execute(p) PROVE IInv'
<1> DEFINE op == proc[p].cmd.op
           T == proc[p].todo
<1>1. PICK i \in proc[p].todo :
           LET sql == IF op = "repair" THEN i.seen.sql ELSE i.load
           IN  /\ Current(p, i)
               /\ schema' = [schema EXCEPT ![i.m] = [eff |-> "yes", content |-> sql]]
               /\ Goto(p, RecordPc(p, i))
      BY DEF Execute
<1> DEFINE pc == RecordPc(p, i)
           sql == IF op = "repair" THEN i.seen.sql ELSE i.load
           e == [eff |-> "yes", content |-> sql]
           w == [proc[p] EXCEPT !.pc = pc]
<1>2. /\ proc[p].pc = "exec" /\ proc[p].pc \in Busy /\ proc' = [proc EXCEPT ![p] = w]
      /\ files' = files /\ table' = table /\ skipped' = skipped /\ holder' = holder
      BY <1>1 DEF Execute, Goto, Busy, Pc
<1>3. /\ proc[p] \in Proc /\ T \in SUBSET Item /\ Distinct(T) /\ proc[p].cmd \in Commands
      /\ Work(proc[p], table, schema, files)
      BY <1>2, AtWork
<1>4. \/ Unfinished(proc[p], table) \/ Committed(proc[p], table)
      \/ Repeating(proc[p], table, files) \/ Repairing(proc[p], table, {"retry"})
      BY <1>2, <1>3 DEF Work
<1>5. op \in {"migrate", "repair"} /\ First(T, i)
  <2>1. op \in {"migrate", "repair"}
        BY <1>4 DEF Unfinished, Committed, Pending, Repeating, Repairing
  <2>2. QED BY <2>1, <1>1, CurrentIs
<1>6. i.m \in Migrations /\ i.load \in Nat /\ i.seen \in Row /\ i.seen.sql \in Nat
  <2>1. i.m \in Migrations /\ i.load \in Nat /\ i.seen \in Row
        BY <1>3, Items
  <2>2. QED BY <2>1 DEF Row
<1>7. e \in Effect /\ schema' = [schema EXCEPT ![i.m] = e]
      BY <1>1, <1>6 DEF Effect
<1>8. /\ Unfinished(proc[p], table) => i.m \in NoTransaction
      /\ Committed(proc[p], table) => i.m \in Versioned /\ i.m \notin NoTransaction
      /\ Repeating(proc[p], table, files) => i.m \in Repeatable
      /\ Repairing(proc[p], table, {"retry"}) => i.m \in NoTransaction
      BY <1>3, <1>5, Executing
<1>9. \/ pc = "mark" /\ (Unfinished(proc[p], table) \/ Repairing(proc[p], table, {"retry"}))
      \/ pc \in {"insert", "checksum"} /\ Repeating(proc[p], table, files)
      \/ pc = "insert" /\ Committed(proc[p], table)
  <2>1. Repairing(proc[p], table, {"retry"}) => op = "repair"
        BY DEF Repairing
  <2>2. ~Repairing(proc[p], table, {"retry"}) => op = "migrate"
        BY <1>4 DEF Unfinished, Committed, Pending, Repeating
  <2>3. CASE op = "repair" \/ i.m \in NoTransaction
    <3>1. pc = "mark"
          BY <2>3, Names DEF RecordPc
    <3>2. QED BY <3>1, <2>2, <2>3, <1>4, <1>8, Names
  <2>4. CASE op # "repair" /\ i.m \notin NoTransaction /\ i.m \in Repeatable
    <3>1. pc \in {"insert", "checksum"}
          BY <2>4 DEF RecordPc
    <3>2. QED BY <3>1, <2>1, <2>4, <1>4, <1>8, Names
  <2>5. CASE op # "repair" /\ i.m \notin NoTransaction /\ i.m \notin Repeatable
    <3>1. pc = "insert"
          BY <2>5 DEF RecordPc
    <3>2. QED BY <3>1, <2>1, <2>5, <1>4, <1>8
  <2>6. QED BY <2>3, <2>4, <2>5
<1>10. pc \in Busy /\ pc \in Pc
      BY <1>9 DEF Busy, Pc
<1> HIDE DEF pc
<1>11. /\ w \in Proc /\ w.pc = pc /\ w.todo = T /\ w.order = proc[p].order
       /\ w.cmd = proc[p].cmd
      BY <1>3, <1>10 DEF Proc
<1> HIDE DEF w
<1>12. /\ Unfinished(proc[p], table) => Unfinished(w, table)
       /\ Committed(proc[p], table) => Committed(w, table)
       /\ Repeating(proc[p], table, files) => Repeating(w, table, files)
       /\ Repairing(proc[p], table, {"retry"}) => Repairing(w, table, {"retry", "skip"})
      BY <1>11 DEF Unfinished, Committed, Pending, Ready, Repeating, Repairing
<1>13. Repeating(w, table, files) => Repeated(w, table, schema', files)
  <2> SUFFICES ASSUME Repeating(w, table, files), NEW k \in T, First(T, k)
               PROVE  schema'[k.m] = [eff |-> "yes", content |-> k.load]
      BY <1>11 DEF Repeated
  <2>1. k = i
        BY <1>3, <1>5, OneFirst
  <2>2. op = "migrate"
        BY <1>11 DEF Repeating
  <2>3. QED BY <2>1, <2>2, <1>6, <1>7, Database
<1>14. Work(w, table', schema', files)
      BY <1>2, <1>3, <1>9, <1>11, <1>12, <1>13, AtWork DEF Work
<1>15. proc' \in [Procs -> Proc] /\ LockInv' /\ WorkInv'
      BY <1>2, <1>10, <1>11, <1>14, Database, Moved
<1>16. schema' \in [Migrations -> Effect] /\ SumsInv(table', schema', files)
  <2>1. ASSUME i.m \in Repeatable PROVE SumRight(table[i.m], e, files[i.m])
    <3>1. Repeating(proc[p], table, files) /\ op = "migrate"
          BY <2>1, <1>4, <1>8, Names DEF Repeating
    <3>2. table[i.m].status # "none" => table[i.m].sum <= i.load
          BY <3>1 DEF Repeating, Loadable
    <3>3. table[i.m].status # "none" => table[i.m].sum <= files[i.m]
          BY <2>1, Database DEF SumsInv, SumRight
    <3>4. e.content = i.load
          BY <3>1
    <3>5. QED BY <3>2, <3>3, <3>4 DEF SumRight
  <2> HIDE DEF e
  <2>2. QED BY <2>1, <1>2, <1>6, <1>7, Database, SumsAfter
<1>17. QED BY <1>2, <1>15, <1>16, Database, Written

\* The row that is written.
LEMMA NewRowIs ==
    ASSUME NEW i, i.load \in Nat, NEW status \in {"applied", "partial"}, NEW o \in Nat
    PROVE  /\ NewRow(i, status, o) \in Row /\ NewRow(i, status, o).status = status
           /\ NewRow(i, status, o).order = o /\ NewRow(i, status, o).sum = i.load
BY DEF NewRow, Row

\* A row for an item, with the number the process has come to.
LEMMA InsertedFor ==
    ASSUME NEW t, TableInv(t), NEW o \in Nat, o > 0, Numbered(t, o - 1), Partial(t) = {},
           NEW i, i.m \in Migrations, i.load \in Nat, i.m \notin Recorded(t), Founded(t, i.m),
           NEW status \in {"applied", "partial"}, status = "partial" => i.m \in NoTransaction
    PROVE  LET u == [t EXCEPT ![i.m] = NewRow(i, status, o)]
           IN  /\ TableInv(u) /\ Numbered(u, o) /\ Adds(t, u, i.m, status)
               /\ u[i.m] = NewRow(i, status, o) /\ \A k \in Migrations : k # i.m => u[k] = t[k]
<1>1. PICK row \in Row : /\ row = NewRow(i, status, o)
                         /\ row.status = status /\ row.order = o
      BY NewRowIs
<1>2. PICK n \in Nat : n = o - 1 /\ o = n + 1
      OBVIOUS
<1>3. PICK m \in Migrations : m = i.m
      OBVIOUS
<1>4. PICK u : u = [t EXCEPT ![m] = row]
      OBVIOUS
<1>5. /\ Numbered(t, n) /\ row.order = n + 1 /\ row.status # "none" /\ m \notin Recorded(t)
      /\ row.status = "partial" => m \in NoTransaction
      /\ Founded(t, m)
      BY <1>1, <1>2, <1>3
<1>6. TableInv(u) /\ Numbered(u, n + 1) /\ Adds(t, u, m, row.status)
      BY <1>4, <1>5, Inserted
<1>7. u[m] = row /\ \A k \in Migrations : k # m => u[k] = t[k]
      BY <1>4 DEF TableInv
<1>8. u = [t EXCEPT ![i.m] = NewRow(i, status, o)]
      BY <1>1, <1>3, <1>4
<1>9. QED BY <1>1, <1>2, <1>3, <1>6, <1>7, <1>8

\* The first of a plan has what it requires, and the plan stands when it is recorded.
LEMMA RestPlanned ==
    ASSUME NEW T \in SUBSET Item, NEW t, Planned(T, t), NEW i, First(T, i)
    PROVE  /\ i.m \in Versioned /\ Requires[i.m] \subseteq Recorded(t)
           /\ \A u : Recorded(t) \cup {i.m} \subseteq Recorded(u) => Planned(T \ {i}, u)
<1>1. i \in T /\ \A k \in T : i.m <= k.m /\ k.m \in Nat
      BY Items DEF First
<1>2. ASSUME NEW d \in Requires[i.m] PROVE d \in Recorded(t)
      BY <1>1 DEF Planned
<1>3. ASSUME NEW u, Recorded(t) \cup {i.m} \subseteq Recorded(u), NEW k \in T \ {i},
             NEW d \in Requires[k.m]
      PROVE  d \in Recorded(u) \/ \E j \in T \ {i} : j.m = d /\ d < k.m
      BY <1>3 DEF Planned
<1>4. QED BY <1>1, <1>2, <1>3 DEF Planned

\* A row of a migration that is not repeatable says nothing about checksums that ran.
LEMMA SumsWithRow ==
    ASSUME NEW t \in [Migrations -> Row], NEW s, NEW f, SumsInv(t, s, f), NEW m \in Migrations,
           NEW row, m \in Repeatable => SumRight(row, s[m], f[m])
    PROVE  SumsInv([t EXCEPT ![m] = row], s, f)
<1> DEFINE u == [t EXCEPT ![m] = row]
<1>1. u[m] = row /\ \A k \in Migrations : k # m => u[k] = t[k]
      OBVIOUS
<1> HIDE DEF u
<1>2. SumsInv(u, s, f)
      BY <1>1, Names DEF SumsInv
<1>3. QED BY <1>2 DEF u

\* The PARTIAL row of a @no-transaction migration is the only one.
LEMMA RecordPartialKeeps ==
    ASSUME OneAtATime, IInv, NEW p \in Procs, RecordPartial(p) PROVE IInv'
<1> DEFINE T == proc[p].todo
           o == proc[p].order
           w == [proc[p] EXCEPT !.pc = "half"]
<1>1. /\ proc[p].pc = "partial" /\ proc[p].pc \in Busy
      /\ files' = files /\ schema' = schema /\ skipped' = skipped /\ holder' = holder
      BY DEF RecordPartial, Busy, Pc
<1>2. /\ TypeOK /\ LockInv /\ WorkInv /\ TableInv(table) /\ table \in [Migrations -> Row]
      /\ SumsInv(table, schema, files)
      BY Database
<1>3. CASE Return(p, "error") /\ table' = table
  <2>1. UNCHANGED <<files, db, holder>>
        BY <1>1, <1>3 DEF db
  <2>2. QED BY <2>1, <1>1, <1>2, <1>3, Returned, Unwritten
<1>4. ASSUME NEW i \in T, Current(p, i), i.m \notin Recorded(table),
             table' = [table EXCEPT ![i.m] = NewRow(i, "partial", o)], Goto(p, "half")
      PROVE  IInv'
  <2> DEFINE u == [table EXCEPT ![i.m] = NewRow(i, "partial", o)]
  <2>1. /\ proc[p] \in Proc /\ T \in SUBSET Item /\ Distinct(T) /\ o \in Nat
        /\ proc[p].cmd \in Commands /\ Work(proc[p], table, schema, files)
        BY <1>1, AtWork
  <2>2. Pending(proc[p], table) /\ \A k \in T : First(T, k) => k.m \in NoTransaction
        BY <1>1, <2>1 DEF Work
  <2>3. /\ proc[p].cmd.op = "migrate" /\ o > 0 /\ Numbered(table, o - 1) /\ Partial(table) = {}
        /\ Planned(T, table)
        BY <2>2 DEF Pending, Ready
  <2>4. First(T, i) /\ i.m \in NoTransaction
        BY <1>4, <2>2, <2>3, CurrentIs
  <2>5. i.m \in Migrations /\ i.m \in Versioned /\ i.load \in Nat
        BY <2>1, <2>4, Items, Names
  <2>6. Founded(table, i.m)
        BY <2>1, <2>3, <2>4, RestPlanned DEF Founded
  <2>7. /\ TableInv(u) /\ Numbered(u, o) /\ Recorded(u) = Recorded(table) \cup {i.m}
        /\ Partial(u) = {i.m}
    <3>1. TableInv(u) /\ Numbered(u, o) /\ Adds(table, u, i.m, "partial")
          BY <1>2, <1>4, <2>1, <2>3, <2>4, <2>5, <2>6, InsertedFor
    <3>2. QED BY <3>1 DEF Adds
  <2>8. SumsInv(u, schema, files)
        BY <1>2, <2>5, Names, SumsWithRow
  <2>9. table' = u
        BY <1>4
  <2> HIDE DEF u
  <2>10. Planned(T \ {i}, u)
        BY <2>1, <2>3, <2>4, <2>7, RestPlanned
  <2>11. /\ w \in Proc /\ w.pc = "half" /\ w.todo = T /\ w.order = o /\ w.cmd = proc[p].cmd
         /\ proc' = [proc EXCEPT ![p] = w]
        BY <1>4, <2>1 DEF Proc, Pc, Goto
  <2> HIDE DEF w
  <2>12. Unfinished(w, u)
        BY <1>4, <2>3, <2>4, <2>7, <2>10, <2>11 DEF Unfinished
  <2>13. w.pc \in Busy /\ Work(w, table', schema', files)
        BY <2>1, <2>3, <2>9, <2>11, <2>12 DEF Work, Busy, Pc
  <2>14. proc' \in [Procs -> Proc] /\ LockInv' /\ WorkInv'
        BY <1>1, <1>2, <2>11, <2>13, Moved
  <2>15. QED BY <1>1, <2>7, <2>8, <2>9, <2>14, Database, Written
<1>5. QED BY <1>3, <1>4 DEF RecordPartial

\* Nothing follows a repair.
LEMMA LoopRepair == ASSUME NEW T PROVE LoopPc("repair", T) = "unlock"
BY DEF LoopPc

\* The PARTIAL row becomes an applied one with its number.
LEMMA MarkAppliedKeeps == ASSUME OneAtATime, IInv, NEW p \in Procs, MarkApplied(p) PROVE IInv'
<1> DEFINE T == proc[p].todo
           o == proc[p].order
           op == proc[p].cmd.op
<1>1. PICK i \in T :
           /\ Current(p, i)
           /\ table' = [table EXCEPT ![i.m].status = IF @ = "none" THEN @ ELSE "applied"]
           /\ skipped' = IF proc[p].cmd.how = "skip" THEN skipped \cup {i.m} ELSE skipped
           /\ Advance(p, i, 1)
      BY DEF MarkApplied
<1>2. /\ proc[p].pc = "mark" /\ proc[p].pc \in Busy
      /\ files' = files /\ schema' = schema /\ holder' = holder
      BY DEF MarkApplied, Busy, Pc
<1>3. /\ proc[p] \in Proc /\ T \in SUBSET Item /\ Distinct(T) /\ o \in Nat
      /\ proc[p].cmd \in Commands /\ Work(proc[p], table, schema, files)
      BY <1>2, AtWork
<1>4. Unfinished(proc[p], table) \/ Repairing(proc[p], table, {"retry", "skip"})
      BY <1>2, <1>3 DEF Work
<1>5. /\ Unfinished(proc[p], table) => op = "migrate"
      /\ Repairing(proc[p], table, {"retry", "skip"}) => op = "repair"
      BY DEF Unfinished, Repairing
<1>6. First(T, i)
      BY <1>1, <1>4, <1>5, CurrentIs
<1>7. /\ i.m \in NoTransaction /\ Partial(table) = {i.m}
      /\ Unfinished(proc[p], table) => Numbered(table, o) /\ Planned(T \ {i}, table)
      BY <1>3, <1>4, <1>6, Executing
<1>8. /\ i.m \in Migrations /\ i.m \notin Repeatable /\ table \in [Migrations -> Row]
      /\ TableInv(table) /\ SumsInv(table, schema, files) /\ TypeOK /\ LockInv /\ WorkInv
      BY <1>7, Names, Database
<1> DEFINE row == [table[i.m] EXCEPT !.status = "applied"]
           u == [table EXCEPT ![i.m] = row]
<1>9. table[i.m] \in Row /\ table[i.m].status = "partial"
      BY <1>7, <1>8 DEF Partial
<1>10. row \in Row /\ row.status = "applied" /\ row.order = table[i.m].order
      BY <1>9 DEF Row
<1>11. table' = u
      BY <1>1, <1>9
<1> HIDE DEF row
<1>12. /\ u \in [Migrations -> Row] /\ u[i.m] = row
       /\ \A k \in Migrations : k # i.m => u[k] = table[k]
      BY <1>8, <1>10
<1>13. SumsInv(u, schema, files)
      BY <1>8, SumsWithRow
<1> HIDE DEF u
<1>14. \A k \in Migrations : /\ u[k].order = table[k].order
                             /\ (u[k].status = "none") <=> (table[k].status = "none")
                             /\ u[k].status = "partial" => table[k].status = "partial"
      BY <1>9, <1>10, <1>12
<1>15. /\ TableInv(u) /\ Recorded(u) = Recorded(table) /\ Partial(u) \subseteq Partial(table)
       /\ Numbered(table, o) => Numbered(u, o)
      BY <1>3, <1>8, <1>12, <1>14, Rewritten
<1>16. Partial(u) = {}
  <2>1. i.m \notin Partial(u)
        BY <1>10, <1>12 DEF Partial
  <2>2. QED BY <2>1, <1>7, <1>15
<1>17. LoopOp(p, i) = op
      BY <1>8 DEF LoopOp
<1>18. Continue(p, op, T \ {i}, o + 1) /\ T \ {i} \in SUBSET Item /\ o + 1 \in Nat
      BY <1>1, <1>3, <1>17 DEF Advance
<1>19. LoopPc(op, T \ {i}) = "unlock" \/
         (/\ LoopPc(op, T \ {i}) \in Busy
          /\ Work(With(proc[p], LoopPc(op, T \ {i}), T \ {i}, o + 1), u, schema, files))
  <2>1. CASE Repairing(proc[p], table, {"retry", "skip"})
        BY <2>1, <1>5, LoopRepair
  <2>2. CASE Unfinished(proc[p], table)
    <3>1. o + 1 > 0 /\ (o + 1) - 1 = o
          BY <1>3
    <3>2. Numbered(u, (o + 1) - 1)
          BY <2>2, <3>1, <1>7, <1>15
    <3>3. Planned(T \ {i}, u)
          BY <2>2, <1>7, <1>15 DEF Planned
    <3>4. Distinct(T \ {i})
          BY <1>3 DEF Distinct
    <3>5. QED BY <2>2, <3>1, <3>2, <3>3, <3>4, <1>3, <1>5, <1>16, <1>18, LoopMigrate
  <2>3. QED BY <2>1, <2>2, <1>4
<1>20. proc' \in [Procs -> Proc] /\ LockInv' /\ WorkInv'
      BY <1>2, <1>8, <1>11, <1>18, <1>19, Continued
<1>21. skipped' \in SUBSET Migrations
      BY <1>1, <1>8, Database
<1>22. QED BY <1>2, <1>11, <1>13, <1>15, <1>20, <1>21, Database, Written

\* What is known of the first item when its row is about to be written.
LEMMA Inserting ==
    ASSUME IInv, NEW w \in Proc, Distinct(w.todo), w.cmd.op # "rollback",
           Committed(w, table) \/ Repeated(w, table, schema, files) \/ Adopting(w, table),
           NEW i, First(w.todo, i)
    PROVE  /\ i.m \in Migrations /\ i.load \in Nat /\ Founded(table, i.m)
           /\ w.order > 0 /\ Numbered(table, w.order - 1) /\ Partial(table) = {}
           /\ Repeated(w, table, schema, files) <=> i.m \in Repeatable
           /\ i.m \in Repeatable => /\ i.load <= files[i.m]
                                   /\ schema[i.m] = [eff |-> "yes", content |-> i.load]
<1>1. w.todo \in SUBSET Item /\ i \in w.todo
      BY DEF Proc, First
<1>2. i.m \in Migrations /\ i.m \in Nat /\ i.load \in Nat
      BY <1>1, Items
<1>3. w.order > 0 /\ Numbered(table, w.order - 1) /\ Partial(table) = {}
      BY DEF Committed, Pending, Repeated, Repeating, Adopting, Ready
<1>4. CASE Committed(w, table)
  <2>1. i.m \in Versioned /\ Requires[i.m] \subseteq Recorded(table) /\ w.cmd.op = "migrate"
        BY <1>1, <1>4, RestPlanned DEF Committed, Pending
  <2>2. i.m \notin Repeatable /\ ~Repeated(w, table, schema, files)
        BY <2>1, <1>1, Names DEF Repeated, Repeating, Loadable
  <2>3. QED BY <2>1, <2>2, <1>2, <1>3 DEF Founded
<1>5. CASE Repeated(w, table, schema, files)
  <2>1. /\ i.m \in Repeatable /\ i.load <= files[i.m]
        /\ schema[i.m] = [eff |-> "yes", content |-> i.load]
        BY <1>1, <1>5 DEF Repeated, Repeating, Loadable
  <2>2. i.m \notin Versioned
        BY <2>1, Names
  <2>3. QED BY <2>1, <2>2, <1>2, <1>3, <1>5 DEF Founded
<1>6. CASE Adopting(w, table)
  <2>1. i.m \in Versioned /\ i.m <= Legacy
        BY <1>1, <1>6 DEF Adopting
  <2>2. i.m \notin Repeatable /\ ~Repeated(w, table, schema, files)
        BY <2>1, <1>1, Names DEF Repeated, Repeating, Loadable
  <2>3. ~(i.m > Legacy)
        BY <2>1, <1>2, Names
  <2>4. Founded(table, i.m)
        BY <2>3 DEF Founded
  <2>5. QED BY <2>2, <2>4, <1>2, <1>3
<1>7. QED BY <1>4, <1>5, <1>6

\* What is left of the repeatables when the first is recorded.
LEMMA RestRepeats ==
    ASSUME NEW w \in Proc, Distinct(w.todo), NEW t, NEW f, Repeating(w, t, f), NEW i \in w.todo,
           NEW u, \A k \in Migrations : k # i.m => u[k] = t[k]
    PROVE  /\ Distinct(w.todo \ {i}) /\ w.todo \ {i} \in SUBSET Item
           /\ Loadable(w.todo \ {i}, u, f)
<1>1. w.todo \in SUBSET Item
      BY DEF Proc
<1>2. ASSUME NEW k \in w.todo \ {i} PROVE u[k.m] = t[k.m]
  <2>1. k.m # i.m
        BY DEF Distinct
  <2>2. k.m \in Migrations
        BY <1>1, Items
  <2>3. QED BY <2>1, <2>2
<1>3. QED BY <1>1, <1>2 DEF Distinct, Repeating, Loadable

\* A row is inserted with the next number.
LEMMA RecordMigrationKeeps ==
    ASSUME OneAtATime, IInv, NEW p \in Procs, RecordMigration(p) PROVE IInv'
<1> DEFINE T == proc[p].todo
           o == proc[p].order
           op == proc[p].cmd.op
<1>1. /\ proc[p].pc = "insert" /\ proc[p].pc \in Busy
      /\ files' = files /\ schema' = schema /\ skipped' = skipped /\ holder' = holder
      BY DEF RecordMigration, Busy, Pc
<1>2. /\ TypeOK /\ LockInv /\ WorkInv /\ TableInv(table) /\ table \in [Migrations -> Row]
      /\ SumsInv(table, schema, files)
      BY Database
<1>3. CASE Return(p, "error") /\ table' = table
  <2>1. UNCHANGED <<files, db, holder>>
        BY <1>1, <1>3 DEF db
  <2>2. QED BY <2>1, <1>1, <1>2, <1>3, Returned, Unwritten
<1>4. ASSUME NEW i \in T, Current(p, i), i.m \notin Recorded(table),
             table' = [table EXCEPT ![i.m] = NewRow(i, "applied", o)], Advance(p, i, 1)
      PROVE  IInv'
  <2> DEFINE u == [table EXCEPT ![i.m] = NewRow(i, "applied", o)]
             S == T \ {i}
             lop == LoopOp(p, i)
  <2>1. /\ proc[p] \in Proc /\ T \in SUBSET Item /\ Distinct(T) /\ o \in Nat
        /\ proc[p].cmd \in Commands /\ Work(proc[p], table, schema, files)
        /\ (op = "baseline" => proc[p].cmd.n = Legacy)
        BY <1>1, AtWork
  <2>2. \/ Committed(proc[p], table) \/ Repeated(proc[p], table, schema, files)
        \/ Adopting(proc[p], table)
        BY <1>1, <2>1 DEF Work
  <2>3. /\ Committed(proc[p], table) => op = "migrate"
        /\ Repeated(proc[p], table, schema, files) => op = "migrate"
        /\ Adopting(proc[p], table) => op = "baseline"
        BY DEF Committed, Pending, Repeated, Repeating, Adopting
  <2>4. First(T, i)
        BY <1>4, <2>2, <2>3, CurrentIs
  <2>5. /\ i.m \in Migrations /\ i.load \in Nat /\ Founded(table, i.m)
        /\ o > 0 /\ Numbered(table, o - 1) /\ Partial(table) = {}
        /\ (Repeated(proc[p], table, schema, files) <=> i.m \in Repeatable)
        /\ (i.m \in Repeatable => /\ i.load <= files[i.m]
                                  /\ schema[i.m] = [eff |-> "yes", content |-> i.load])
        BY <2>1, <2>2, <2>3, <2>4, Inserting
  <2>6. /\ TableInv(u) /\ Numbered(u, o) /\ Recorded(u) = Recorded(table) \cup {i.m}
        /\ Partial(u) = {} /\ \A k \in Migrations : k # i.m => u[k] = table[k]
    <3>1. /\ TableInv(u) /\ Numbered(u, o) /\ Adds(table, u, i.m, "applied")
          /\ \A k \in Migrations : k # i.m => u[k] = table[k]
          BY <1>2, <1>4, <2>1, <2>5, InsertedFor
    <3>2. QED BY <3>1 DEF Adds
  <2>7. SumsInv(u, schema, files)
    <3>1. NewRow(i, "applied", o).sum = i.load
          BY DEF NewRow
    <3>2. i.m \in Repeatable => SumRight(NewRow(i, "applied", o), schema[i.m], files[i.m])
          BY <2>5, <3>1 DEF SumRight
    <3>3. QED BY <3>2, <1>2, <2>5, SumsWithRow
  <2>8. table' = u
        BY <1>4
  <2> HIDE DEF u
  <2>9. Continue(p, lop, S, o + 1) /\ S \in SUBSET Item /\ o + 1 \in Nat
        BY <1>4, <2>1 DEF Advance
  <2>10. (o + 1) - 1 = o /\ o + 1 > 0 /\ Numbered(u, (o + 1) - 1) /\ Distinct(S)
    <3>1. (o + 1) - 1 = o /\ o + 1 > 0
          BY <2>1
    <3>2. Numbered(u, (o + 1) - 1)
          BY <3>1, <2>6
    <3>3. Distinct(S)
          BY <2>1 DEF Distinct
    <3>4. QED BY <3>1, <3>2, <3>3
  <2>11. LoopPc(lop, S) = "unlock" \/
           (/\ LoopPc(lop, S) \in Busy
            /\ Work(With(proc[p], LoopPc(lop, S), S, o + 1), u, schema, files))
    <3>1. CASE Committed(proc[p], table)
      <4>1. Planned(T, table)
            BY <3>1 DEF Committed, Pending
      <4>2. lop = "migrate"
        <5>1. i.m \in Versioned
              BY <4>1, <2>1, <2>4, RestPlanned
        <5>2. QED BY <5>1, <3>1, <2>3, Names DEF LoopOp
      <4>3. Planned(S, u)
            BY <4>1, <2>1, <2>4, <2>6, RestPlanned
      <4>4. QED BY <3>1, <4>2, <4>3, <2>1, <2>3, <2>6, <2>9, <2>10, LoopMigrate
    <3>2. CASE Repeated(proc[p], table, schema, files)
      <4>1. lop = "repeatables"
            BY <3>2, <2>3, <2>5 DEF LoopOp
      <4>2. Loadable(S, u, files)
        <5>1. Repeating(proc[p], table, files)
              BY <3>2 DEF Repeated
        <5>2. QED BY <5>1, <2>1, <2>6, RestRepeats
      <4>3. QED BY <3>2, <4>1, <4>2, <2>1, <2>3, <2>6, <2>9, <2>10, LoopRepeat
    <3>3. CASE Adopting(proc[p], table)
      <4>1. lop = "baseline" /\ proc[p].cmd.n = Legacy
            BY <3>3, <2>1, <2>3 DEF LoopOp
      <4>2. \A k \in S : k.m \in Versioned /\ k.m <= Legacy
            BY <3>3 DEF Adopting
      <4>3. QED BY <3>3, <4>1, <4>2, <2>1, <2>3, <2>6, <2>9, <2>10, LoopBaseline
    <3>4. QED BY <3>1, <3>2, <3>3, <2>2
  <2>12. proc' \in [Procs -> Proc] /\ LockInv' /\ WorkInv'
        BY <1>1, <1>2, <2>8, <2>9, <2>11, Continued
  <2>13. QED BY <1>1, <2>6, <2>7, <2>8, <2>12, Database, Written
<1>5. QED BY <1>3, <1>4 DEF RecordMigration

\* A checksum changes, and nothing else.
Resums(t, u, m, sum) ==
    /\ \A n \in Nat : Numbered(t, n) => Numbered(u, n)
    /\ Partial(u) \subseteq Partial(t)
    /\ u[m].sum = sum /\ u[m].status = t[m].status
    /\ \A k \in Migrations : k # m => u[k] = t[k]

\* The table keeps its order then.
LEMMA Resummed ==
    ASSUME NEW t, TableInv(t), NEW m \in Migrations, NEW sum \in Nat,
           NEW u, u = [t EXCEPT ![m].sum = sum]
    PROVE  TableInv(u) /\ Resums(t, u, m, sum)
<1>1. t \in [Migrations -> Row] /\ t[m] \in Row
      BY DEF TableInv
<1>2. PICK row : row = [t[m] EXCEPT !.sum = sum]
      OBVIOUS
<1>3. row \in Row /\ row.sum = sum /\ row.status = t[m].status /\ row.order = t[m].order
      BY <1>1, <1>2 DEF Row
<1>4. u = [t EXCEPT ![m] = row]
      BY <1>2
<1>5. u \in [Migrations -> Row] /\ u[m] = row /\ \A k \in Migrations : k # m => u[k] = t[k]
      BY <1>1, <1>3, <1>4
<1>6. \A k \in Migrations : u[k].order = t[k].order /\ u[k].status = t[k].status
      BY <1>3, <1>5
<1>7. /\ TableInv(u) /\ Partial(u) \subseteq Partial(t)
      /\ \A n \in Nat : Numbered(t, n) => Numbered(u, n)
  <2>1. /\ u \in [Migrations -> Row]
        /\ \A k \in Migrations : /\ u[k].order = t[k].order
                                 /\ u[k].status = "none" <=> t[k].status = "none"
                                 /\ u[k].status = "partial" => t[k].status = "partial"
        BY <1>5, <1>6
  <2>2. QED BY <2>1, Rewritten
<1>8. QED BY <1>3, <1>5, <1>7 DEF Resums

\* The checksum of a repeatable becomes that of the content that ran.
LEMMA UpdateChecksumKeeps ==
    ASSUME OneAtATime, IInv, NEW p \in Procs, UpdateChecksum(p) PROVE IInv'
<1> DEFINE T == proc[p].todo
           o == proc[p].order
<1>1. PICK i \in T :
           /\ Current(p, i)
           /\ table' = [table EXCEPT ![i.m].sum = IF table[i.m].status = "none" THEN @
                                                  ELSE i.load]
           /\ Advance(p, i, 0)
      BY DEF UpdateChecksum
<1> DEFINE S == T \ {i}
           u == table'
<1>2. /\ proc[p].pc = "checksum" /\ proc[p].pc \in Busy
      /\ files' = files /\ schema' = schema /\ skipped' = skipped /\ holder' = holder
      BY DEF UpdateChecksum, Busy, Pc
<1>3. /\ TypeOK /\ LockInv /\ WorkInv /\ TableInv(table) /\ table \in [Migrations -> Row]
      /\ SumsInv(table, schema, files)
      BY Database
<1>4. /\ proc[p] \in Proc /\ T \in SUBSET Item /\ Distinct(T) /\ o \in Nat
      /\ proc[p].cmd \in Commands /\ Work(proc[p], table, schema, files)
      BY <1>2, AtWork
<1>5. Repeated(proc[p], table, schema, files)
      BY <1>2, <1>4 DEF Work
<1>6. /\ Repeating(proc[p], table, files) /\ proc[p].cmd.op = "migrate" /\ o > 0
      /\ Numbered(table, o - 1) /\ Partial(table) = {} /\ Loadable(T, table, files)
      BY <1>5 DEF Repeated, Repeating, Ready
<1>7. First(T, i)
      BY <1>1, <1>6, CurrentIs
<1>8. /\ i.m \in Migrations /\ i.load \in Nat /\ i.m \in Repeatable /\ i.load <= files[i.m]
      /\ schema[i.m] = [eff |-> "yes", content |-> i.load]
      BY <1>1, <1>4, <1>5, <1>6, <1>7, Items DEF Repeated, Loadable
<1> DEFINE sum == IF table[i.m].status = "none" THEN table[i.m].sum ELSE i.load
<1>9. sum \in Nat /\ u = [table EXCEPT ![i.m].sum = sum]
  <2>1. table[i.m].sum \in Nat
        BY <1>3, <1>8, Rows
  <2>2. sum \in Nat
        BY <2>1, <1>8
  <2>3. u = [table EXCEPT ![i.m].sum = sum]
        BY <1>1
  <2>4. QED BY <2>2, <2>3
<1>10. table[i.m].status # "none" => sum = i.load
      OBVIOUS
<1> HIDE DEF sum
<1>11. /\ TableInv(u) /\ Numbered(u, o - 1) /\ Partial(u) = {}
       /\ u[i.m].sum = sum /\ u[i.m].status = table[i.m].status
       /\ \A k \in Migrations : k # i.m => u[k] = table[k]
  <2>1. PICK m \in Migrations : m = i.m
        BY <1>8
  <2>2. PICK n \in Nat : n = o - 1
        BY <1>4, <1>6
  <2>3. PICK v : v = [table EXCEPT ![m].sum = sum]
        OBVIOUS
  <2>4. TableInv(v) /\ Resums(table, v, m, sum)
        BY <2>3, <1>3, <1>9, Resummed
  <2>5. u = v /\ Numbered(table, n)
        BY <2>1, <2>2, <2>3, <1>6, <1>9
  <2>6. QED BY <2>1, <2>2, <2>4, <2>5, <1>6 DEF Resums
<1>12. SumsInv(u, schema, files)
  <2>1. SumRight(u[i.m], schema[i.m], files[i.m])
        BY <1>8, <1>10, <1>11 DEF SumRight
  <2>2. QED BY <2>1, <1>3, <1>11, Names DEF SumsInv
<1>13. Continue(p, "repeatables", S, o) /\ S \in SUBSET Item
  <2>1. LoopOp(p, i) = "repeatables" /\ o + 0 = o
        BY <1>4, <1>6, <1>8 DEF LoopOp
  <2>2. QED BY <2>1, <1>1, <1>4 DEF Advance
<1>14. Loadable(S, u, files) /\ Distinct(S)
       BY <1>4, <1>6, <1>11, RestRepeats
<1> HIDE DEF u
<1>15. LoopPc("repeatables", S) = "unlock" \/
         (/\ LoopPc("repeatables", S) \in Busy
          /\ Work(With(proc[p], LoopPc("repeatables", S), S, o), u, schema, files))
       BY <1>4, <1>6, <1>11, <1>13, <1>14, LoopRepeat
<1>16. proc' \in [Procs -> Proc] /\ LockInv' /\ WorkInv'
       BY <1>2, <1>3, <1>4, <1>13, <1>15, Continued DEF u
<1>17. QED BY <1>2, <1>11, <1>12, <1>16, Database, Written DEF u

\* The row a rollback takes next is the newest one, and it leaves newest ones.
LEMMA RollingOn ==
    ASSUME NEW t, TableInv(t), NEW w \in Proc, Distinct(w.todo), Rolling(w, t),
           NEW i \in w.todo, \A k \in w.todo : i.seen.order >= k.seen.order
    PROVE  /\ i.m \in Recorded(t) /\ Newest(t, i.m)
           /\ \A u : Drops(t, u, i.m) /\ (\A k \in Migrations : k # i.m => u[k] = t[k]) =>
                 Selection(w.todo \ {i}, u)
<1> DEFINE T == w.todo
           M == {k.m : k \in T}
<1>1. /\ T \in SUBSET Item /\ Partial(t) = {} /\ \A k \in T : k.seen = t[k.m] /\ k.m \in Recorded(t)
      /\ \A m \in M : \A k \in Recorded(t) : t[k].order >= t[m].order => k \in M
      /\ \A k \in Recorded(t) : t[k].order \in Nat /\ k \in Migrations
  <2>1. \A k \in Recorded(t) : t[k].order \in Nat /\ k \in Migrations
        BY Rows DEF TableInv, Recorded
  <2>2. QED BY <2>1 DEF Rolling, Selection, Upper, Proc
<1>2. \A m \in M : t[i.m].order >= t[m].order
      BY <1>1
<1>3. Newest(t, i.m)
  <2> SUFFICES ASSUME NEW k \in Recorded(t) PROVE t[k].order <= t[i.m].order
      BY DEF Newest
  <2>1. t[k].order \in Nat /\ t[i.m].order \in Nat
        BY <1>1
  <2>2. t[k].order >= t[i.m].order => t[i.m].order >= t[k].order
        BY <1>1, <1>2
  <2>3. QED BY <2>1, <2>2
<1>4. ASSUME NEW u, Drops(t, u, i.m), \A k \in Migrations : k # i.m => u[k] = t[k]
      PROVE  Selection(T \ {i}, u)
  <2>1. \A k \in T \ {i} : k.m # i.m
        BY DEF Distinct
  <2>2. \A k \in Recorded(u) : k \in Recorded(t) /\ k # i.m /\ u[k] = t[k]
        BY <1>1, <1>4 DEF Drops
  <2>3. \A k \in T \ {i} : k.m \in Recorded(u) /\ k.m \in M
        BY <2>1, <1>1, <1>4 DEF Drops
  <2>4. \A k \in T \ {i} : k.seen = u[k.m]
        BY <2>2, <2>3, <1>1
  <2>5. ASSUME NEW k \in T \ {i}, NEW l \in Recorded(u), u[l].order >= u[k.m].order
        PROVE  \E j \in T \ {i} : j.m = l
    <3>1. l \in Recorded(t) /\ l # i.m /\ t[l].order >= t[k.m].order
          BY <2>2, <2>3, <2>5
    <3>2. l \in M
          BY <3>1, <2>3, <1>1
    <3>3. PICK j \in T : j.m = l
          BY <3>2
    <3>4. j # i
          BY <3>1, <3>3
    <3>5. QED BY <3>3, <3>4
  <2>6. Upper({k.m : k \in T \ {i}}, u)
        BY <2>3, <2>5 DEF Upper
  <2>7. Partial(u) = {}
        BY <1>1, <1>4 DEF Drops
  <2>8. QED BY <2>4, <2>6, <2>7 DEF Selection
<1>5. QED BY <1>1, <1>3, <1>4

\* A row is deleted by a rollback or a repair, which goes on.
LEMMA Deleted ==
    ASSUME OneAtATime, IInv, NEW p \in Procs, proc[p].pc \in {"undo", "delete"},
           NEW i \in proc[p].todo, Current(p, i), table' = [table EXCEPT ![i.m] = NoRow],
           Advance(p, i, 0), files' = files, holder' = holder
    PROVE  /\ i.m \in Migrations /\ TableInv(table') /\ SumsInv(table', schema, files)
           /\ table'[i.m].status = "none"
           /\ proc' \in [Procs -> Proc] /\ LockInv' /\ WorkInv'
<1> DEFINE T == proc[p].todo
           o == proc[p].order
           op == proc[p].cmd.op
           S == T \ {i}
<1>1. proc[p].pc \in Busy
      BY DEF Busy, Pc
<1>2. /\ TypeOK /\ LockInv /\ WorkInv /\ TableInv(table) /\ table \in [Migrations -> Row]
      /\ SumsInv(table, schema, files)
      BY Database
<1>3. /\ proc[p] \in Proc /\ T \in SUBSET Item /\ Distinct(T) /\ o \in Nat
      /\ proc[p].cmd \in Commands /\ Work(proc[p], table, schema, files)
      BY <1>1, AtWork
<1>4. Rolling(proc[p], table) \/ Repairing(proc[p], table, {"rollback"})
      BY <1>3 DEF Work
<1>5. /\ Rolling(proc[p], table) => op = "rollback"
      /\ Repairing(proc[p], table, {"rollback"}) => op = "repair"
      BY DEF Rolling, Repairing
<1>6. PICK m \in Migrations : m = i.m
      BY <1>3, Items
<1>7. PICK u : u = [table EXCEPT ![m] = NoRow]
      OBVIOUS
<1>8. table' = u /\ u[m].status = "none" /\ \A k \in Migrations : k # m => u[k] = table[k]
      BY <1>2, <1>6, <1>7 DEF NoRow
<1>9. SumsInv(u, schema, files)
      BY <1>2, <1>8, Names DEF SumsInv, SumRight
<1>10. Continue(p, op, S, o) /\ S \in SUBSET Item /\ Distinct(S)
  <2>1. LoopOp(p, i) = op /\ o + 0 = o
        BY <1>3, <1>4, <1>5 DEF LoopOp
  <2>2. QED BY <2>1, <1>3 DEF Advance, Distinct
<1>11. m \in Recorded(table) /\ Newest(table, m)
  <2>1. CASE Rolling(proc[p], table)
    <3>1. \A k \in T : i.seen.order >= k.seen.order
          BY <2>1, <1>5 DEF Current
    <3>2. QED BY <2>1, <3>1, <1>2, <1>3, <1>6, RollingOn
  <2>2. CASE Repairing(proc[p], table, {"rollback"})
    <3>1. m \in Partial(table)
          BY <2>2, <1>6 DEF Repairing
    <3>2. QED BY <3>1, <1>2, OnePartial
  <2>3. QED BY <2>1, <2>2, <1>4
<1>12. TableInv(u) /\ Drops(table, u, m)
      BY <1>2, <1>7, <1>11, Removed
<1>13. LoopPc(op, S) = "unlock" \/
         (/\ LoopPc(op, S) \in Busy
          /\ Work(With(proc[p], LoopPc(op, S), S, o), u, schema', files))
  <2>1. CASE Rolling(proc[p], table)
    <3>1. \A k \in T : i.seen.order >= k.seen.order
          BY <2>1, <1>5 DEF Current
    <3>2. \A v : Drops(table, v, i.m) /\ (\A k \in Migrations : k # i.m => v[k] = table[k]) =>
                    Selection(S, v)
          BY <2>1, <3>1, <1>2, <1>3, RollingOn
    <3>3. Selection(S, u)
          BY <3>2, <1>6, <1>8, <1>12
    <3>4. op = "rollback" /\ proc[p].cmd.op = "rollback"
          BY <2>1, <1>5
    <3>5. QED BY <3>3, <3>4, <1>3, <1>10, LoopRollback
  <2>2. CASE Repairing(proc[p], table, {"rollback"})
        BY <2>2, <1>5, LoopRepair
  <2>3. QED BY <2>1, <2>2, <1>4
<1>14. proc' \in [Procs -> Proc] /\ LockInv' /\ WorkInv'
      BY <1>1, <1>2, <1>3, <1>8, <1>10, <1>13, Continued
<1>15. QED BY <1>6, <1>8, <1>9, <1>12, <1>14

\* DELETE of the row whose @down ran.
LEMMA DeleteMigrationKeeps ==
    ASSUME OneAtATime, IInv, NEW p \in Procs, DeleteMigration(p) PROVE IInv'
<1>1. PICK i \in proc[p].todo :
           /\ Current(p, i) /\ table' = [table EXCEPT ![i.m] = NoRow]
           /\ skipped' = skipped \ {i.m} /\ Advance(p, i, 0)
      BY DEF DeleteMigration
<1>2. /\ proc[p].pc \in {"undo", "delete"}
      /\ files' = files /\ schema' = schema /\ holder' = holder
      BY DEF DeleteMigration
<1>3. /\ TableInv(table') /\ SumsInv(table', schema, files)
      /\ proc' \in [Procs -> Proc] /\ LockInv' /\ WorkInv'
      BY <1>1, <1>2, Deleted
<1>4. schema' \in [Migrations -> Effect] /\ skipped' \in SUBSET Migrations
      BY <1>1, <1>2, Database
<1>5. QED BY <1>2, <1>3, <1>4, Written

\* A stored @down ran.
LEMMA UndoKeeps == ASSUME OneAtATime, IInv, NEW p \in Procs, Undo(p) PROVE IInv'
<1>1. PICK i \in proc[p].todo :
         /\ Current(p, i)
         /\ \/ i.m \in NoDown /\ Return(p, "error") /\ UNCHANGED db
            \/ /\ schema' = [schema EXCEPT ![i.m] = Undone]
               /\ table' = [table EXCEPT ![i.m] = NoRow]
               /\ skipped' = skipped \ {i.m}
               /\ Advance(p, i, 0)
            \/ /\ schema' = [schema EXCEPT ![i.m] = Undone]
               /\ Goto(p, "delete") /\ UNCHANGED <<table, skipped>>
      BY DEF Undo
<1>2. /\ proc[p].pc = "undo" /\ proc[p].pc \in Busy /\ files' = files /\ holder' = holder
      BY DEF Undo, Busy, Pc
<1>3. /\ TypeOK /\ LockInv /\ WorkInv /\ TableInv(table) /\ SumsInv(table, schema, files)
      /\ schema \in [Migrations -> Effect] /\ skipped \in SUBSET Migrations
      BY Database
<1>4. /\ proc[p] \in Proc /\ proc[p].todo \in SUBSET Item /\ Distinct(proc[p].todo)
      /\ proc[p].cmd \in Commands /\ Work(proc[p], table, schema, files)
      BY <1>2, AtWork
<1>5. i.m \in Migrations /\ Undone \in Effect /\ Undone.eff = "no"
      BY <1>4, Items DEF Undone, Effect
<1>6. ASSUME NEW t, SumsInv(t, schema, files), schema' = [schema EXCEPT ![i.m] = Undone],
             i.m \in Repeatable => SumRight(t[i.m], Undone, files[i.m])
      PROVE  schema' \in [Migrations -> Effect] /\ SumsInv(t, schema', files)
      BY <1>3, <1>5, <1>6, SumsAfter
<1>7. CASE Return(p, "error") /\ UNCHANGED db
  <2>1. UNCHANGED <<files, db, holder>>
        BY <1>2, <1>7
  <2>2. QED BY <2>1, <1>2, <1>3, <1>7, Returned, Unwritten
<1>8. CASE /\ schema' = [schema EXCEPT ![i.m] = Undone]
           /\ table' = [table EXCEPT ![i.m] = NoRow]
           /\ skipped' = skipped \ {i.m} /\ Advance(p, i, 0)
  <2>1. /\ TableInv(table') /\ SumsInv(table', schema, files) /\ table'[i.m].status = "none"
        /\ proc' \in [Procs -> Proc] /\ LockInv' /\ WorkInv'
        BY <1>1, <1>2, <1>8, Deleted
  <2>2. SumRight(table'[i.m], Undone, files[i.m])
        BY <2>1 DEF SumRight
  <2>3. PICK t : t = table'
        OBVIOUS
  <2>4. schema' \in [Migrations -> Effect] /\ SumsInv(t, schema', files)
        BY <2>1, <2>2, <2>3, <1>6, <1>8
  <2>5. skipped' \in SUBSET Migrations
        BY <1>3, <1>8
  <2>6. QED BY <2>1, <2>3, <2>4, <2>5, <1>2, Written
<1>9. CASE /\ schema' = [schema EXCEPT ![i.m] = Undone]
           /\ Goto(p, "delete") /\ table' = table /\ skipped' = skipped
  <2> DEFINE w == [proc[p] EXCEPT !.pc = "delete"]
  <2>1. proc' = [proc EXCEPT ![p] = w]
        BY <1>9 DEF Goto
  <2>2. /\ w \in Proc /\ w.pc = "delete" /\ w.todo = proc[p].todo /\ w.cmd = proc[p].cmd
        BY <1>4 DEF Proc, Pc
  <2> HIDE DEF w
  <2>3. Rolling(proc[p], table) \/ Repairing(proc[p], table, {"rollback"})
        BY <1>2, <1>4 DEF Work
  <2>4. Rolling(w, table) \/ Repairing(w, table, {"rollback"})
        BY <2>2, <2>3 DEF Rolling, Repairing
  <2>5. w.pc \in Busy /\ Work(w, table', schema', files)
    <3>1. w.cmd.op = "baseline" => w.cmd.n = Legacy
          BY <2>2, <1>2, AtWork
    <3>2. QED BY <2>2, <2>4, <3>1, <1>4, <1>9 DEF Work, Busy, Pc
  <2>6. proc' \in [Procs -> Proc] /\ LockInv' /\ WorkInv'
        BY <2>1, <2>2, <2>5, <1>2, <1>3, Moved
  <2>7. i.m \in Repeatable => SumRight(table[i.m], Undone, files[i.m])
        BY <1>3, <1>5 DEF SumsInv, SumRight
  <2>8. schema' \in [Migrations -> Effect] /\ SumsInv(table, schema', files)
        BY <2>7, <1>3, <1>6, <1>9
  <2>9. QED BY <2>6, <2>8, <1>2, <1>3, <1>9, Written
<1>10. QED BY <1>1, <1>7, <1>8, <1>9

\* It stopped half-way.
LEMMA UndoFailsKeeps == ASSUME OneAtATime, IInv, NEW p \in Procs, UndoFails(p) PROVE IInv'
<1>1. PICK i \in proc[p].todo : schema' = [schema EXCEPT ![i.m].eff = "half"]
      BY DEF UndoFails
<1>2. /\ proc[p].pc \in Busy /\ Return(p, "error")
      /\ files' = files /\ table' = table /\ skipped' = skipped /\ holder' = holder
      BY DEF UndoFails, Busy, Pc
<1>3. /\ TypeOK /\ LockInv /\ WorkInv /\ TableInv(table) /\ SumsInv(table, schema, files)
      /\ schema \in [Migrations -> Effect] /\ skipped \in SUBSET Migrations
      BY Database
<1>4. proc' \in [Procs -> Proc] /\ LockInv' /\ WorkInv'
      BY <1>2, <1>3, Returned
<1>5. schema' \in [Migrations -> Effect] /\ SumsInv(table', schema', files)
  <2> DEFINE e == [schema[i.m] EXCEPT !.eff = "half"]
  <2>1. proc[p].todo \in SUBSET Item
        BY <1>2, AtWork
  <2>2. i.m \in Migrations
        BY <2>1, Items
  <2>3. schema[i.m] \in Effect
        BY <2>2, <1>3
  <2>4. e \in Effect /\ e.eff = "half"
        BY <2>3 DEF Effect
  <2>5. schema' = [schema EXCEPT ![i.m] = e]
        BY <1>1
  <2> HIDE DEF e
  <2>6. i.m \in Repeatable => SumRight(table[i.m], e, files[i.m])
        BY <2>4, <1>3 DEF SumsInv, SumRight
  <2>7. QED BY <2>2, <2>4, <2>5, <2>6, <1>2, <1>3, SumsAfter
<1>6. QED BY <1>2, <1>3, <1>4, <1>5, Written
\* A transaction applies the whole plan or its first migration.
Batch(T, B) == B = T \/ B = {i \in T : First(T, i)}

\* Both are plans of their own, and leave one.
LEMMA BatchPlanned ==
    ASSUME NEW T \in SUBSET Item, Distinct(T), NEW t, Planned(T, t),
           NEW B, Batch(T, B)
    PROVE  /\ B \in SUBSET Item /\ B \subseteq T /\ Distinct(B) /\ Planned(B, t)
           /\ Distinct(T \ B) /\ T \ B \in SUBSET Item
           /\ \A u : Extends(t, u, B) => Planned(T \ B, u)
<1>1. B \in SUBSET Item /\ B \subseteq T /\ Distinct(B) /\ Distinct(T \ B) /\ T \ B \in SUBSET Item
      BY DEF Distinct, Batch
<1>2. CASE B = T
      BY <1>1, <1>2 DEF Planned
<1>3. CASE B = {i \in T : First(T, i)}
  <2>1. ASSUME NEW i \in B PROVE i.m \in Versioned /\ Requires[i.m] \subseteq Recorded(t)
        BY <1>3, RestPlanned
  <2>2. Planned(B, t)
        BY <2>1 DEF Planned
  <2>3. ASSUME NEW u, Extends(t, u, B) PROVE Planned(T \ B, u)
        BY <2>3, <1>1 DEF Planned, Extends
  <2>4. QED BY <1>1, <2>2, <2>3
<1>4. QED BY <1>2, <1>3 DEF Batch

\* Migrations with transactions are applied and recorded at once.
LEMMA RunAndRecordKeeps ==
    ASSUME OneAtATime, IInv, NEW p \in Procs, RunAndRecord(p) PROVE IInv'
<1> DEFINE T == proc[p].todo
           o == proc[p].order
           c == proc[p].cmd
           B == IF c.how = "atomic" THEN T ELSE {i \in T : Current(p, i)}
           rank(i) == Cardinality({k \in B : k.m < i.m})
           of(m)   == CHOOSE i \in B : i.m = m
           new     == {i.m : i \in B}
           u == [m \in Migrations |->
                    IF m \in new THEN NewRow(of(m), "applied", o + rank(of(m))) ELSE table[m]]
           s == [m \in Migrations |->
                    IF m \in new THEN [eff |-> "yes", content |-> of(m).load] ELSE schema[m]]
<1>1. \/ Return(p, "error") /\ UNCHANGED db
      \/ /\ new \cap Recorded(table) = {} /\ table' = u /\ schema' = s
         /\ Continue(p, "migrate", T \ B, o + Cardinality(B)) /\ skipped' = skipped
      BY DEF RunAndRecord
<1>2. /\ proc[p].pc = "tx" /\ proc[p].pc \in Busy /\ files' = files /\ holder' = holder
      BY DEF RunAndRecord, Busy, Pc
<1>3. /\ TypeOK /\ LockInv /\ WorkInv /\ TableInv(table) /\ SumsInv(table, schema, files)
      /\ table \in [Migrations -> Row] /\ schema \in [Migrations -> Effect]
      /\ skipped \in SUBSET Migrations
      BY Database
<1>4. CASE Return(p, "error") /\ UNCHANGED db
  <2>1. UNCHANGED <<files, db, holder>>
        BY <1>2, <1>4
  <2>2. QED BY <2>1, <1>2, <1>3, <1>4, Returned, Unwritten
<1>5. CASE /\ new \cap Recorded(table) = {} /\ table' = u /\ schema' = s
           /\ Continue(p, "migrate", T \ B, o + Cardinality(B)) /\ skipped' = skipped
  <2>1. /\ proc[p] \in Proc /\ T \in SUBSET Item /\ Distinct(T) /\ o \in Nat
        /\ c \in Commands /\ Work(proc[p], table, schema, files)
        BY <1>2, AtWork
  <2>2. /\ c.op = "migrate" /\ o > 0 /\ Numbered(table, o - 1) /\ Partial(table) = {}
        /\ Planned(T, table)
        BY <1>2, <2>1 DEF Work, Pending, Ready
  <2>3. Batch(T, B)
        BY <2>2 DEF Current, First, Batch
  <2> DEFINE n == Cardinality(B)
  <2> HIDE DEF B, of, new, u, s
  <2>4. /\ B \in SUBSET Item /\ B \subseteq T /\ Distinct(B) /\ Planned(B, table)
        /\ Distinct(T \ B) /\ T \ B \in SUBSET Item
        BY <2>1, <2>2, <2>3, BatchPlanned
  <2>5. Extends(table, u, B) => Planned(T \ B, u)
        BY <2>1, <2>2, <2>3, BatchPlanned
  <2>6. /\ n \in Nat /\ \A i \in B : rank(i) \in Nat /\ rank(i) = Rank(B, i)
    <3>1. n \in Nat /\ \A i \in B : Rank(B, i) \in 0 .. n - 1
          BY <2>4, Ranks
    <3>2. \A j \in 0 .. n - 1 : j \in Nat
          BY <3>1
    <3>3. \A i \in B : Rank(B, i) \in Nat
          BY <3>1, <3>2
    <3>4. QED BY <3>1, <3>3 DEF Rank
  <2> HIDE DEF rank, n
  <2> USE DEF of, new, u, s
  <2>7. ASSUME NEW i \in B
        PROVE  /\ of(i.m) = i /\ i.m \in new /\ i.m \in Versioned /\ i.m \in Migrations
               /\ i.load \in Nat /\ i.m \notin Recorded(table)
    <3>1. of(i.m) \in B /\ of(i.m).m = i.m
          OBVIOUS
    <3>2. of(i.m) = i
          BY <3>1, <2>4 DEF Distinct
    <3>3. QED BY <3>2, <2>4, <1>5, Items DEF Planned
  <2>8. ASSUME NEW i \in B
        PROVE  /\ u[i.m] = NewRow(i, "applied", o + rank(i)) /\ u[i.m] \in Row
               /\ u[i.m].status = "applied" /\ u[i.m].order = o + rank(i)
               /\ s[i.m] = [eff |-> "yes", content |-> i.load]
    <3>1. /\ u[i.m] = NewRow(i, "applied", o + rank(i))
          /\ s[i.m] = [eff |-> "yes", content |-> i.load]
          BY <2>7
    <3>2. o + rank(i) \in Nat
          BY <2>1, <2>6
    <3>3. QED BY <3>1, <3>2, <2>7, NewRowIs
  <2>9. \A m \in Migrations : (\A i \in B : i.m # m) => u[m] = table[m] /\ s[m] = schema[m]
        OBVIOUS
  <2>10. DOMAIN u = Migrations /\ DOMAIN s = Migrations
         OBVIOUS
  <2>11. u = [m \in Migrations |-> u[m]] /\ s = [m \in Migrations |-> s[m]]
         OBVIOUS
  <2> HIDE DEF u, s, of, new
  <2>12. u \in [Migrations -> Row] /\ s \in [Migrations -> Effect]
    <3>1. ASSUME NEW m \in Migrations PROVE u[m] \in Row /\ s[m] \in Effect
      <4>1. CASE \E i \in B : i.m = m
        <5>1. PICK i \in B : i.m = m
              BY <4>1
        <5>2. u[i.m] \in Row /\ i.load \in Nat /\ s[i.m] = [eff |-> "yes", content |-> i.load]
              BY <2>7, <2>8
        <5>3. QED BY <5>1, <5>2 DEF Effect
      <4>2. CASE \A i \in B : i.m # m
            BY <4>2, <2>9, <1>3
      <4>3. QED BY <4>1, <4>2
    <3>2. QED BY <3>1, <2>11
  <2>13. PICK k \in Nat : k = o - 1 /\ o = k + 1
         BY <2>1, <2>2
  <2>14. \A i \in B : /\ i.m \notin Recorded(table) /\ u[i.m].status = "applied"
                      /\ u[i.m].order = k + 1 + Rank(B, i)
         BY <2>6, <2>7, <2>8, <2>13
  <2>15. /\ TableInv(u) /\ Numbered(u, k + Cardinality(B)) /\ Partial(u) = {}
         /\ Extends(table, u, B)
         BY <2>2, <2>4, <2>9, <2>12, <2>13, <2>14, <1>3, Batched
  <2>16. PICK l \in Nat : l = o + n /\ l > 0 /\ l - 1 = k + n
         BY <2>1, <2>6, <2>13
  <2>17. Numbered(u, l - 1) /\ Continue(p, "migrate", T \ B, l)
         BY <2>15, <2>16, <1>5 DEF n
  <2>18. Planned(T \ B, u)
         BY <2>5, <2>15
  <2>19. /\ LoopPc("migrate", T \ B) \in Busy
         /\ Work(With(proc[p], LoopPc("migrate", T \ B), T \ B, l), u, s, files)
         BY <2>1, <2>2, <2>4, <2>15, <2>16, <2>17, <2>18, LoopMigrate
  <2>20. proc' \in [Procs -> Proc] /\ LockInv' /\ WorkInv'
         BY <2>4, <2>16, <2>17, <2>19, <1>2, <1>3, <1>5, Continued
  <2>21. SumsInv(u, s, files)
    <3>1. ASSUME NEW r \in Repeatable PROVE u[r] = table[r] /\ s[r] = schema[r]
      <4>1. \A i \in B : i.m # r
            BY <2>7, Names
      <4>2. QED BY <4>1, <2>9, Names
    <3>2. QED BY <3>1, <1>3 DEF SumsInv
  <2>22. QED BY <2>12, <2>15, <2>20, <2>21, <1>2, <1>3, <1>5, Written
<1>6. QED BY <1>1, <1>4, <1>5

-----------------------------------------------------------------------------
(* The theorems *)

\* A new table has no rows, and nobody works.
LEMMA InitHolds == Init => IInv
<1> SUFFICES ASSUME Init PROVE IInv
    OBVIOUS
<1>1. \A m \in Migrations : table[m] = NoRow
      BY DEF Init
<1>2. NoRow \in Row /\ NoRow.status = "none"
      BY DEF NoRow, Row
<1>3. Recorded(table) = {} /\ Partial(table) = {}
      BY <1>1, <1>2 DEF Recorded, Partial
<1>4. TypeOK
  <2>1. files \in [Migrations -> 0 .. MaxContent]
        BY EngineAssumption DEF Init
  <2>2. table \in [Migrations -> Row]
        BY <1>2 DEF Init
  <2>3. schema \in [Migrations -> Effect]
        BY DEF Init, Effect
  <2>4. proc \in [Procs -> Proc]
        BY Idles DEF Init
  <2>5. QED BY <2>1, <2>2, <2>3, <2>4 DEF Init, TypeOK
<1>5. LockInv /\ WorkInv
  <2>1. \A p \in Procs : proc[p] = At("idle")
        BY DEF Init
  <2>2. \A p \in Procs : proc[p].pc = "idle" /\ proc[p].pc \notin Busy /\ Waits(proc[p])
        BY <2>1, Idles
  <2>3. QED BY <2>2 DEF LockInv, WorkInv
<1>6. TableInv(table)
  <2>1. Numbered(table, 0)
        BY <1>3 DEF Numbered
  <2>2. QED BY <2>1, <1>3, <1>4 DEF TypeOK, TableInv, Closed
<1>7. SumsInv(table, schema, files)
      BY <1>1, <1>2, Names DEF SumsInv, SumRight
<1>8. QED BY <1>4, <1>5, <1>6, <1>7 DEF IInv

\* Every step keeps the invariant.
LEMMA NextKeeps == ASSUME OneAtATime, IInv, [Next]_vars PROVE IInv'
<1>1. ASSUME NEW m \in Migrations, EditFile(m) PROVE IInv'
      BY <1>1, EditFileKeeps
<1>2. ASSUME NEW p \in Procs, Start(p) \/ Exit(p) \/ Crash(p) \/ SqlError(p) PROVE IInv'
      BY <1>2, StartKeeps, CloseKeeps, SqlErrorKeeps DEF Exit, Crash
<1>3. ASSUME NEW p \in Procs, Lock(p) \/ Unlock(p) \/ LockTimeout(p) PROVE IInv'
      BY <1>3, LockKeeps, UnlockKeeps, LockTimeoutKeeps
<1>4. ASSUME NEW p \in Procs, MigrateRead(p) \/ MigrateOrder(p) \/ LoadRepeatables(p)
                                 \/ RollbackRead(p) \/ RepairRead(p) \/ BaselineRead(p)
      PROVE  IInv'
      BY <1>4, MigrateReadKeeps, MigrateOrderKeeps, LoadRepeatablesKeeps, RollbackReadKeeps,
         RepairReadKeeps, BaselineReadKeeps
<1>5. ASSUME NEW p \in Procs, RunAndRecord(p) \/ RecordPartial(p) \/ ExecuteHalf(p) \/ Execute(p)
                                 \/ MarkApplied(p) \/ RecordMigration(p) \/ UpdateChecksum(p)
      PROVE  IInv'
      BY <1>5, RunAndRecordKeeps, RecordPartialKeeps, ExecuteHalfKeeps, ExecuteKeeps,
         MarkAppliedKeeps, RecordMigrationKeeps, UpdateChecksumKeeps
<1>6. ASSUME NEW p \in Procs, Undo(p) \/ UndoFails(p) \/ DeleteMigration(p) \/ RepairChecksum(p)
      PROVE  IInv'
      BY <1>6, UndoKeeps, UndoFailsKeeps, DeleteMigrationKeeps, RepairChecksumKeeps
<1>7. CASE UNCHANGED vars
  <2>1. /\ files' = files /\ table' = table /\ schema' = schema /\ holder' = holder
        /\ proc' = proc /\ skipped' = skipped
        BY <1>7 DEF vars
  <2>2. QED BY <2>1 DEF IInv, TypeOK, LockInv, WorkInv
<1>8. QED BY <1>1, <1>2, <1>3, <1>4, <1>5, <1>6, <1>7 DEF Next, Engine

\* What a process works on, where the table stands and which checksums are recorded,
\* in every state, where the lock excludes.
THEOREM Invariant == ASSUME OneAtATime PROVE Spec => []IInv
<1>1. Init => IInv
      BY InitHolds
<1>2. IInv /\ [Next]_vars => IInv'
      BY NextKeeps
<1>3. QED BY <1>1, <1>2, PTL DEF Spec

\* applied_order has no gaps and no ties.
THEOREM Orders == ASSUME OneAtATime PROVE Spec => []OrdersContiguous
<1>1. ASSUME IInv PROVE OrdersContiguous
  <2> DEFINE R == Recorded(table)
             f == [m \in R |-> table[m].order]
  <2>1. PICK n \in Nat : Numbered(table, n)
        BY <1>1, Database DEF TableInv
  <2>2. IsFiniteSet(R)
    <3>1. R \subseteq Migrations
          BY DEF Recorded
    <3>2. QED BY <3>1, MigrationAssumption, FS_Subset
  <2>3. /\ f \in Surjection(R, 1 .. n) /\ f \in Injection(R, 1 .. n)
        /\ {table[m].order : m \in R} = 1 .. n
        BY <2>1 DEF Numbered, Surjection, Injection, IsInjective
  <2>4. Cardinality(1 .. n) = Cardinality(R)
        BY <2>2, <2>3, FS_Surjection
  <2>5. Cardinality(1 .. n) = n
    <3>1. 1 \in Int /\ n \in Int /\ (IF 1 > n THEN 0 ELSE n - 1 + 1) = n
          OBVIOUS
    <3>2. QED BY <3>1, FS_Interval
  <2>6. QED BY <2>3, <2>4, <2>5 DEF OrdersContiguous
<1>2. QED BY <1>1, Invariant, PTL

\* A recorded migration's @requires are recorded and older, whatever was rolled back.
THEOREM Requirements == ASSUME OneAtATime PROVE Spec => []RequiresClosed
<1>1. IInv => RequiresClosed
      BY DEF IInv, TableInv, Closed, RequiresClosed
<1>2. QED BY <1>1, Invariant, PTL

\* The checksum of a repeatable is of a content that ran.
THEOREM Repeatables == ASSUME OneAtATime PROVE Spec => []RepeatableTruthful
<1>1. ASSUME IInv PROVE RepeatableTruthful
      BY <1>1, Names DEF IInv, SumsInv, SumRight, Recorded, RepeatableTruthful
<1>2. QED BY <1>1, Invariant, PTL

\* @down only runs for a row that is there.
THEOREM Undoes == ASSUME OneAtATime PROVE Spec => UndoneIsRecorded
<1>1. ASSUME IInv, NEW p \in Procs, NEW i \in proc[p].todo, proc[p].pc = "undo"
      PROVE  i.m \in Recorded(table)
  <2>1. proc[p].pc \in Busy
        BY <1>1 DEF Busy, Pc
  <2>2. Work(proc[p], table, schema, files)
        BY <2>1, <1>1, AtWork
  <2>3. CASE Rolling(proc[p], table)
        BY <2>3, <1>1 DEF Rolling, Selection, Upper
  <2>4. CASE Repairing(proc[p], table, {"rollback"})
    <3>1. i.m \in Partial(table)
          BY <2>4, <1>1 DEF Repairing
    <3>2. QED BY <3>1 DEF Partial, Recorded
  <2>5. QED BY <2>2, <2>3, <2>4, <1>1 DEF Work
<1> DEFINE A == \A p \in Procs : \A i \in proc[p].todo :
                    proc[p].pc = "undo" /\ Current(p, i) /\ i.m \notin NoDown
                        /\ proc'[p].pc \in {"undo", "delete", "unlock"} /\ proc'[p] # proc[p]
                    => i.m \in Recorded(table)
<1>2. IInv => A
      BY <1>1
<1>3. UndoneIsRecorded <=> [][A]_vars
      BY DEF UndoneIsRecorded
<1>4. QED BY <1>2, <1>3, Invariant, PTL

\* What is written row by row is written while no row is PARTIAL,
LEMMA NonePartial ==
    ASSUME IInv, NEW p \in Procs, proc[p].pc \in {"tx", "partial", "insert", "checksum"}
    PROVE  Partial(table) = {}
<1>1. proc[p].pc \in Busy
      BY DEF Busy, Pc
<1>2. Work(proc[p], table, schema, files)
      BY <1>1, AtWork
<1>3. \/ Pending(proc[p], table) \/ Committed(proc[p], table) \/ Adopting(proc[p], table)
      \/ Repeated(proc[p], table, schema, files)
      BY <1>2 DEF Work
<1>4. QED BY <1>3 DEF Pending, Committed, Adopting, Repeated, Repeating, Ready

\* and the other statements are about the PARTIAL row, if there is one.
LEMMA OnlyPartial ==
    ASSUME IInv, NEW p \in Procs, proc[p].pc \in {"half", "exec", "mark", "undo", "delete"},
           NEW i \in proc[p].todo, Current(p, i), NEW m \in Partial(table)
    PROVE  i.m = m
<1>1. proc[p].pc \in Busy
      BY DEF Busy, Pc
<1>2. /\ Work(proc[p], table, schema, files) /\ proc[p] \in Proc /\ Distinct(proc[p].todo)
      BY <1>1, AtWork
<1>3. \/ Unfinished(proc[p], table) \/ \E how : Repairing(proc[p], table, how)
      BY <1>2 DEF Work, Committed, Pending, Ready, Repeating, Rolling, Selection
<1>4. proc[p].cmd.op # "rollback"
      BY <1>3 DEF Unfinished, Repairing
<1>5. First(proc[p].todo, i)
      BY <1>4, CurrentIs
<1>6. Partial(table) = {i.m}
  <2>1. CASE Unfinished(proc[p], table)
    <3>1. PICK k \in proc[p].todo : First(proc[p].todo, k) /\ Partial(table) = {k.m}
          BY <2>1 DEF Unfinished
    <3>2. proc[p].todo \in SUBSET Item
          BY <1>2 DEF Proc
    <3>3. k = i
          BY <3>1, <3>2, <1>2, <1>5, OneFirst
    <3>4. QED BY <3>1, <3>3
  <2>2. CASE \E how : Repairing(proc[p], table, how)
        BY <2>2, <1>5 DEF Repairing, First
  <2>3. QED BY <2>1, <2>2, <1>3
<1>7. QED BY <1>6

\* What a step may change besides the PARTIAL row.
LEMMA Spared ==
    ASSUME IInv, [Next]_vars, NEW m \in Partial(table), table'[m].status = "partial",
           NEW k \in Migrations, k # m
    PROVE  table'[k].status = table[k].status /\ schema'[k] = schema[k]
<1>1. /\ table \in [Migrations -> Row] /\ schema \in [Migrations -> Effect] /\ m \in Migrations
      BY Database DEF Partial
<1>2. CASE UNCHANGED db
      BY <1>2 DEF db
<1>3. ASSUME NEW x \in Migrations, x = m,
             table' = table \/ (\E row : table' = [table EXCEPT ![x] = row]),
             schema' = schema \/ (\E e : schema' = [schema EXCEPT ![x] = e])
      PROVE  table'[k].status = table[k].status /\ schema'[k] = schema[k]
  <2>1. ASSUME NEW row, table' = [table EXCEPT ![x] = row] PROVE table'[k] = table[k]
        BY <2>1, <1>1, <1>3
  <2>2. ASSUME NEW e, schema' = [schema EXCEPT ![x] = e] PROVE schema'[k] = schema[k]
        BY <2>2, <1>1, <1>3
  <2>3. table'[k] = table[k]
        BY <2>1, <1>3
  <2>4. schema'[k] = schema[k]
        BY <2>2, <1>3
  <2>5. QED BY <2>3, <2>4
<1>4. ASSUME NEW p \in Procs, RunAndRecord(p) \/ RecordPartial(p) \/ RecordMigration(p)
                                 \/ UpdateChecksum(p)
      PROVE  FALSE
  <2>1. proc[p].pc \in {"tx", "partial", "insert", "checksum"}
        BY <1>4 DEF RunAndRecord, RecordPartial, RecordMigration, UpdateChecksum
  <2>2. QED BY <2>1, NonePartial
<1>5. ASSUME NEW p \in Procs, ExecuteHalf(p) \/ Execute(p) \/ MarkApplied(p) \/ Undo(p)
                                 \/ UndoFails(p) \/ DeleteMigration(p)
      PROVE  table'[k].status = table[k].status /\ schema'[k] = schema[k]
  <2>1. proc[p].pc \in {"half", "exec", "mark", "undo", "delete"}
        BY <1>5 DEF ExecuteHalf, Execute, MarkApplied, Undo, UndoFails, DeleteMigration
  <2>2. PICK i \in proc[p].todo :
             /\ Current(p, i)
             /\ table' = table \/ (\E row : table' = [table EXCEPT ![i.m] = row])
             /\ schema' = schema \/ (\E e : schema' = [schema EXCEPT ![i.m] = e])
    <3>1. CASE ExecuteHalf(p) \/ UndoFails(p)
          BY <3>1 DEF ExecuteHalf, UndoFails
    <3>2. CASE Execute(p)
          BY <3>2 DEF Execute
    <3>3. CASE MarkApplied(p) \/ DeleteMigration(p)
          BY <3>3 DEF MarkApplied, DeleteMigration
    <3>4. CASE Undo(p)
          BY <3>4 DEF Undo, db
    <3>5. QED BY <3>1, <3>2, <3>3, <3>4, <1>5
  <2>3. i.m = m
        BY <2>1, <2>2, OnlyPartial
  <2>4. QED BY <2>2, <2>3, <1>1, <1>3
<1>6. ASSUME NEW p \in Procs, RepairChecksum(p)
      PROVE  table'[k].status = table[k].status /\ schema'[k] = schema[k]
  <2>1. /\ schema' = schema
        /\ table' = table \/ \E x, sum : table' = [table EXCEPT ![x].sum = sum]
        BY <1>6 DEF RepairChecksum
  <2>2. table[k] \in Row
        BY <1>1
  <2>3. ASSUME NEW x, NEW sum, table' = [table EXCEPT ![x].sum = sum]
        PROVE  table'[k].status = table[k].status
        BY <2>2, <2>3, <1>1 DEF Row
  <2>4. QED BY <2>1, <2>3
<1>7. ASSUME NEW p \in Procs, MigrateRead(p) \/ MigrateOrder(p) \/ LoadRepeatables(p)
                                 \/ RollbackRead(p) \/ RepairRead(p) \/ BaselineRead(p)
      PROVE  UNCHANGED db
      BY <1>7 DEF MigrateRead, MigrateOrder, LoadRepeatables, RollbackRead, RepairRead, BaselineRead
<1>8. ASSUME NEW p \in Procs, Start(p) \/ Exit(p) \/ Crash(p) \/ SqlError(p)
                                 \/ Lock(p) \/ Unlock(p) \/ LockTimeout(p)
      PROVE  UNCHANGED db
      BY <1>8 DEF Start, Exit, Crash, Close, SqlError, Lock, Unlock, LockTimeout
<1>9. ASSUME (\E x \in Migrations : EditFile(x)) \/ UNCHANGED vars
      PROVE  UNCHANGED db
      BY <1>9 DEF EditFile, vars, db
<1>10. QED BY <1>2, <1>4, <1>5, <1>6, <1>7, <1>8, <1>9 DEF Next, Engine

\* A PARTIAL migration blocks everything else until it is repaired.
THEOREM Blocks == ASSUME OneAtATime PROVE Spec => PartialBlocks
<1> DEFINE A == \A m, k \in Migrations :
                    /\ m # k
                    /\ table[m].status = "partial" /\ table'[m].status = "partial"
                    => table'[k].status = table[k].status /\ schema'[k] = schema[k]
<1>1. IInv /\ [Next]_vars => A
  <2> SUFFICES ASSUME IInv, [Next]_vars, NEW m \in Migrations, NEW k \in Migrations, m # k,
                      table[m].status = "partial", table'[m].status = "partial"
               PROVE  table'[k].status = table[k].status /\ schema'[k] = schema[k]
      OBVIOUS
  <2>1. m \in Partial(table)
        BY DEF Partial
  <2>2. QED BY <2>1, Spared
<1>2. PartialBlocks <=> [][A]_vars
      BY DEF PartialBlocks
<1>3. QED BY <1>1, <1>2, Invariant, PTL DEF Spec

-----------------------------------------------------------------------------
(* What the table tells *)

\* A row tells the truth about the schema.
Told(m, status, eff, skips) ==
    /\ status = "none" => eff = "no" \/ (m <= Legacy /\ eff = "yes")
    /\ status = "applied" => eff = "yes" \/ skips

\* A process knows what it did to the schema before it tells it.
Aware(w, t, s) ==
    /\ w.pc = "mark" /\ w.cmd.how # "skip" =>
          \A i \in w.todo : First(w.todo, i) => s[i.m].eff = "yes"
    /\ w.pc = "delete" => \A i \in w.todo : s[i.m].eff = "no"
    /\ w.pc \in {"lock", "read", "insert"} /\ w.cmd.op = "baseline" =>
          \A m \in Versioned : m <= Legacy => m \notin Recorded(t) /\ s[m].eff = "yes"

Truth ==
    /\ \A m \in Versioned : Told(m, table[m].status, schema[m].eff, m \in skipped)
    /\ \A p \in Procs : Aware(proc[p], table, schema)

\* There is nothing to adopt, or one version and one process.
Adoptable ==
    \A m, k \in Versioned : m <= Legacy /\ k <= Legacy => m = k /\ \A p, q \in Procs : p = q

\* A process that tells nothing next.
Quiet(w) == w.pc \notin {"mark", "delete", "lock", "read", "insert"}

\* There is nothing it must know.
LEMMA QuietIsAware == ASSUME NEW w, Quiet(w), NEW t, NEW s PROVE Aware(w, t, s)
BY DEF Quiet, Aware

\* Where the loops go.
LEMMA Goes ==
    ASSUME TypeOK, NEW p \in Procs, NEW op, NEW T, NEW o, Continue(p, op, T, o)
    PROVE  \E w : /\ proc' = [proc EXCEPT ![p] = w]
                  /\ Quiet(w) \/ (op = "baseline" /\ T # {} /\ w.pc = "insert")
<1> DEFINE pc == LoopPc(op, T)
           w == [proc[p] EXCEPT !.pc = pc, !.todo = T, !.order = o]
<1>1. CASE pc = "unlock"
  <2>1. proc' = [proc EXCEPT ![p] = At("unlock")]
        BY <1>1 DEF Continue, Return
  <2>2. Quiet(At("unlock"))
        BY DEF Quiet, At
  <2>3. QED BY <2>1, <2>2
<1>2. CASE pc # "unlock"
  <2>1. proc' = [proc EXCEPT ![p] = w]
        BY <1>2 DEF Continue
  <2>2. w.pc = pc
        BY DEF TypeOK, Proc
  <2>3. \A m : FirstPc(m) \in {"partial", "tx", "half"}
        BY DEF FirstPc
  <2>4. \/ pc \in {"repeatables", "undo", "half", "partial", "tx"}
        \/ (op = "baseline" /\ T # {} /\ pc = "insert")
        BY <1>2, <2>3 DEF LoopPc
  <2> HIDE DEF w, pc
  <2>5. QED BY <2>1, <2>2, <2>4 DEF Quiet
<1>3. QED BY <1>1, <1>2

\* Who returns tells nothing either.
LEMMA Ends ==
    ASSUME NEW p \in Procs, NEW pc \in {"idle", "unlock", "error", "done"}, Return(p, pc)
    PROVE  \E w : proc' = [proc EXCEPT ![p] = w] /\ Quiet(w)
<1>1. Quiet(At(pc))
      BY DEF Quiet, At
<1>2. QED BY <1>1 DEF Return

\* A process moves and the database stays.
LEMMA TruthElsewhere ==
    ASSUME IInv, Truth, NEW p \in Procs, NEW w, proc' = [proc EXCEPT ![p] = w],
           table' = table, schema' = schema, skipped' = skipped, Aware(w, table, schema)
    PROVE  Truth'
<1>1. ASSUME NEW q \in Procs PROVE Aware(proc'[q], table', schema')
  <2>1. proc'[q] = w \/ proc'[q] = proc[q]
        BY DEF IInv, TypeOK
  <2>2. QED BY <2>1 DEF Truth
<1>2. QED BY <1>1 DEF Truth

\* Nobody else tells anything while a process works.
LEMMA Aside ==
    ASSUME OneAtATime, Adoptable, IInv, NEW p \in Procs, proc[p].pc \in Busy,
           NEW q \in Procs, q # p, NEW t, NEW s
    PROVE  Aware(proc[q], t, s)
<1>1. proc[q].pc \notin Busy
      BY Alone DEF IInv
<1>2. \A m \in Versioned : ~(m <= Legacy)
      BY DEF Adoptable
<1>3. QED BY <1>1, <1>2 DEF Aware, Busy, Pc

\* A process works on the database.
LEMMA TruthAfter ==
    ASSUME OneAtATime, Adoptable, IInv, Truth, NEW p \in Procs, proc[p].pc \in Busy,
           NEW w, proc' = [proc EXCEPT ![p] = w], Aware(w, table', schema'),
           \A m \in Versioned : Told(m, table'[m].status, schema'[m].eff, m \in skipped')
    PROVE  Truth'
<1>1. ASSUME NEW q \in Procs PROVE Aware(proc'[q], table', schema')
  <2>1. CASE q = p
        BY <2>1 DEF IInv, TypeOK
  <2>2. CASE q # p
    <3>1. proc'[q] = proc[q]
          BY <2>2 DEF IInv, TypeOK
    <3>2. PICK t, s : t = table' /\ s = schema'
          OBVIOUS
    <3>3. Aware(proc[q], t, s)
          BY <2>2, Aside
    <3>4. QED BY <3>1, <3>2, <3>3
  <2>3. QED BY <2>1, <2>2
<1>2. QED BY <1>1 DEF Truth

\* Nothing of other migrations changes.
Only(x) ==
    \A k \in Migrations : k # x =>
        table'[k] = table[k] /\ schema'[k] = schema[k] /\ (k \in skipped' <=> k \in skipped)

\* A process works on one migration.
LEMMA TruthOf ==
    ASSUME OneAtATime, Adoptable, IInv, Truth, NEW p \in Procs, proc[p].pc \in Busy,
           NEW w, proc' = [proc EXCEPT ![p] = w], Aware(w, table', schema'),
           NEW x, Only(x),
           x \in Versioned => Told(x, table'[x].status, schema'[x].eff, x \in skipped')
    PROVE  Truth'
<1>1. ASSUME NEW m \in Versioned
      PROVE  Told(m, table'[m].status, schema'[m].eff, m \in skipped')
  <2>1. CASE m = x
        BY <2>1
  <2>2. CASE m # x
    <3>1. /\ table'[m] = table[m] /\ schema'[m] = schema[m]
          /\ m \in skipped' <=> m \in skipped
          BY <2>2, Names DEF Only
    <3>2. Told(m, table[m].status, schema[m].eff, m \in skipped)
          BY DEF Truth
    <3>3. QED BY <3>1, <3>2 DEF Told
  <2>3. QED BY <2>1, <2>2
<1>2. QED BY <1>1, TruthAfter

\* Outside a transaction only the PARTIAL migration is executed, but for repeatables.
LEMMA PartialRuns ==
    ASSUME TransactionalDdl, IInv, NEW p \in Procs, proc[p].pc \in {"half", "exec"},
           NEW i \in proc[p].todo, Current(p, i)
    PROVE  /\ First(proc[p].todo, i) /\ i.m \in Migrations /\ proc[p].cmd.op # "baseline"
           /\ i.m \in Versioned => table[i.m].status = "partial"
<1>1. proc[p].pc \in Busy
      BY DEF Busy, Pc
<1>2. /\ Work(proc[p], table, schema, files) /\ proc[p] \in Proc /\ Distinct(proc[p].todo)
      /\ proc[p].todo \in SUBSET Item
      BY <1>1, AtWork
<1>3. \/ Unfinished(proc[p], table) \/ Repeating(proc[p], table, files)
      \/ Repairing(proc[p], table, {"retry"})
      BY <1>2 DEF Work, Committed
<1>4. proc[p].cmd.op \in {"migrate", "repair"}
      BY <1>3 DEF Unfinished, Repeating, Repairing
<1>5. First(proc[p].todo, i)
      BY <1>4, CurrentIs
<1>6. Partial(table) = {i.m} \/ i.m \in Repeatable
      BY <1>2, <1>3, <1>5, Executing
<1>7. i.m \in Versioned => table[i.m].status = "partial"
      BY <1>6, Names DEF Partial
<1>8. QED BY <1>2, <1>4, <1>5, <1>7, Items

\* The steps that leave the database alone.
LEMMA ReadsTell ==
    ASSUME IInv, Truth, NEW p \in Procs, UNCHANGED db,
           \/ LockTimeout(p) \/ Unlock(p) \/ Close(p) \/ SqlError(p) \/ Return(p, "error")
           \/ MigrateRead(p) \/ MigrateOrder(p) \/ LoadRepeatables(p) \/ RollbackRead(p)
    PROVE  Truth'
<1>1. proc[p] \in Proc /\ TypeOK
      BY DEF IInv, TypeOK
<1>2. \E w : proc' = [proc EXCEPT ![p] = w] /\ Quiet(w)
  <2>1. CASE LockTimeout(p) \/ Close(p) \/ SqlError(p) \/ Return(p, "error")
    <3>1. \E pc \in {"idle", "error", "done"} : Return(p, pc)
          BY <2>1 DEF LockTimeout, Close, SqlError
    <3>2. QED BY <3>1, Ends
  <2>2. CASE Unlock(p)
    <3>1. [proc[p] EXCEPT !.pc = "done"].pc = "done"
          BY <1>1 DEF Proc
    <3>2. QED BY <3>1, <2>2 DEF Unlock, Goto, Quiet
  <2>3. CASE MigrateRead(p)
    <3>1. CASE Return(p, "error") \/ Return(p, "unlock")
          BY <3>1, Ends
    <3>2. ASSUME NEW T, proc' = [proc EXCEPT ![p].todo = T, ![p].pc = "order"]
          PROVE  \E w : proc' = [proc EXCEPT ![p] = w] /\ Quiet(w)
      <4>1. [proc[p] EXCEPT !.todo = T, !.pc = "order"].pc = "order"
            BY <1>1 DEF Proc
      <4>2. QED BY <4>1, <3>2 DEF Quiet
    <3>3. QED BY <3>1, <3>2, <2>3 DEF MigrateRead
  <2>4. CASE MigrateOrder(p) \/ LoadRepeatables(p) \/ RollbackRead(p)
    <3>1. CASE Return(p, "error")
          BY <3>1, Ends
    <3>2. ASSUME NEW op, op # "baseline", NEW T, NEW o, Continue(p, op, T, o)
          PROVE  \E w : proc' = [proc EXCEPT ![p] = w] /\ Quiet(w)
          BY <3>2, <1>1, Goes
    <3>3. QED BY <3>1, <3>2, <2>4 DEF MigrateOrder, LoadRepeatables, RollbackRead
  <2>5. QED BY <2>1, <2>2, <2>3, <2>4
<1>3. QED BY <1>2, QuietIsAware, TruthElsewhere DEF db

\* A baseline is started for a version that is there and was never recorded.
LEMMA StartTells ==
    ASSUME Adoptable, IInv, Truth, NEW p \in Procs, Start(p) PROVE Truth'
<1>1. PICK c \in Commands : /\ c.op = "baseline" => Unadopted
                            /\ proc' = [proc EXCEPT ![p].pc = "lock", ![p].cmd = c]
      BY DEF Start
<1> DEFINE w == [proc[p] EXCEPT !.pc = "lock", !.cmd = c]
<1>2. proc' = [proc EXCEPT ![p] = w] /\ w.pc = "lock" /\ w.cmd = c
      BY <1>1 DEF IInv, TypeOK, Proc
<1> HIDE DEF w
<1>3. ASSUME c.op = "baseline", NEW m \in Versioned, m <= Legacy
      PROVE  m \notin Recorded(table) /\ schema[m].eff = "yes"
  <2>1. PICK k \in Versioned \ Recorded(table) : k <= Legacy /\ schema[k].eff = "yes"
        BY <1>1, <1>3 DEF Unadopted
  <2>2. k = m
        BY <2>1, <1>3 DEF Adoptable
  <2>3. QED BY <2>1, <2>2
<1>4. Aware(w, table, schema)
      BY <1>2, <1>3 DEF Aware
<1>5. QED BY <1>2, <1>4, TruthElsewhere DEF Start, db

\* It still is when the lock is there.
LEMMA LockTells == ASSUME IInv, Truth, NEW p \in Procs, Lock(p) PROVE Truth'
<1> DEFINE w == [proc[p] EXCEPT !.pc = "read"]
<1>1. /\ proc' = [proc EXCEPT ![p] = w] /\ w.pc = "read" /\ w.cmd = proc[p].cmd
      /\ proc[p].pc = "lock"
      BY DEF Lock, Goto, IInv, TypeOK, Proc
<1> HIDE DEF w
<1>2. Aware(proc[p], table, schema)
      BY DEF Truth
<1>3. Aware(w, table, schema)
      BY <1>1, <1>2 DEF Aware
<1>4. QED BY <1>1, <1>3, TruthElsewhere DEF Lock, db

\* ... and when it has been selected.
LEMMA BaselineReadTells ==
    ASSUME IInv, Truth, NEW p \in Procs, BaselineRead(p) PROVE Truth'
<1>1. /\ proc[p].pc = "read" /\ proc[p].cmd.op = "baseline" /\ UNCHANGED db
      BY DEF BaselineRead
<1>2. CASE Return(p, "error")
      BY <1>1, <1>2, ReadsTell
<1>3. ASSUME NEW T, Continue(p, "baseline", T, 1) PROVE Truth'
  <2>1. PICK w : proc' = [proc EXCEPT ![p] = w] /\ (Quiet(w) \/ w.pc = "insert")
        BY <1>3, Goes DEF IInv
  <2>2. Aware(proc[p], table, schema)
        BY DEF Truth
  <2>3. Aware(w, table, schema)
        BY <2>1, <2>2, <1>1, QuietIsAware DEF Aware
  <2>4. QED BY <2>1, <2>3, <1>1, TruthElsewhere DEF db
<1>4. QED BY <1>2, <1>3 DEF BaselineRead

\* A repair goes on to "mark" without a run only for --skip.
LEMMA RepairReadTells ==
    ASSUME IInv, Truth, NEW p \in Procs, RepairRead(p) PROVE Truth'
<1>1. /\ proc[p].pc \in Busy /\ proc[p].cmd.op = "repair" /\ proc[p].cmd.how # "checksum"
      /\ UNCHANGED db
      BY DEF RepairRead, Busy, Pc
<1>2. CASE Return(p, "error")
      BY <1>1, <1>2, ReadsTell
<1> DEFINE pc == CASE proc[p].cmd.how = "retry" -> "half"
                   [] proc[p].cmd.how = "rollback" -> "undo"
                   [] proc[p].cmd.how = "skip" -> "mark"
<1>3. ASSUME NEW T, proc' = [proc EXCEPT ![p].todo = T, ![p].pc = pc] PROVE Truth'
  <2> DEFINE w == [proc[p] EXCEPT !.todo = T, !.pc = pc]
  <2>1. /\ proc' = [proc EXCEPT ![p] = w] /\ w.pc = pc /\ w.cmd = proc[p].cmd
    <3> HIDE DEF pc
    <3>1. proc[p] \in Proc
          BY DEF IInv, TypeOK
    <3>2. w.pc = pc /\ w.cmd = proc[p].cmd
          BY <3>1 DEF Proc
    <3>3. QED BY <3>2, <1>3
  <2>2. proc[p].cmd.how \in {"retry", "rollback", "skip"}
    <3>1. proc[p].cmd \in Command
          BY <1>1, AtWork
    <3>2. QED BY <3>1, <1>1, Strategies
  <2>3. pc \in {"half", "undo"} \/ (pc = "mark" /\ proc[p].cmd.how = "skip")
        BY <2>2
  <2> HIDE DEF w, pc
  <2>4. Aware(w, table, schema)
        BY <2>1, <2>3 DEF Aware
  <2>5. QED BY <2>1, <2>4, <1>1, TruthElsewhere DEF db
<1>4. QED BY <1>2, <1>3 DEF RepairRead

\* A transaction leaves the schema and the rows of its migrations in agreement.
LEMMA RunAndRecordTells ==
    ASSUME OneAtATime, Adoptable, IInv, Truth, NEW p \in Procs, RunAndRecord(p) PROVE Truth'
<1>1. proc[p].pc \in Busy
      BY DEF RunAndRecord, Busy, Pc
<1>2. CASE Return(p, "error") /\ UNCHANGED db
      BY <1>2, ReadsTell
<1>3. CASE ~(Return(p, "error") /\ UNCHANGED db)
  <2>1. /\ skipped' = skipped
        /\ \E T, o : Continue(p, "migrate", T, o)
        /\ \A m \in Migrations : \/ table'[m] = table[m] /\ schema'[m] = schema[m]
                                 \/ table'[m].status = "applied" /\ schema'[m].eff = "yes"
    <3> DEFINE batch == IF proc[p].cmd.how = "atomic" THEN proc[p].todo
                        ELSE {i \in proc[p].todo : Current(p, i)}
               rank(i) == Cardinality({k \in batch : k.m < i.m})
               of(m)   == CHOOSE i \in batch : i.m = m
               new     == {i.m : i \in batch}
               row(m)  == NewRow(of(m), "applied", proc[p].order + rank(of(m)))
    <3>1. /\ Continue(p, "migrate", proc[p].todo \ batch, proc[p].order + Cardinality(batch))
          /\ skipped' = skipped
          /\ table' = [m \in Migrations |-> IF m \in new THEN row(m) ELSE table[m]]
          /\ schema' = [m \in Migrations |->
                  IF m \in new THEN [eff |-> "yes", content |-> of(m).load] ELSE schema[m]]
          BY <1>3 DEF RunAndRecord
    <3>2. \A m : row(m).status = "applied"
          BY DEF NewRow
    <3> HIDE DEF batch, new, of, row
    <3>3. ASSUME NEW m \in Migrations
          PROVE  \/ table'[m] = table[m] /\ schema'[m] = schema[m]
                 \/ table'[m].status = "applied" /\ schema'[m].eff = "yes"
          BY <3>1, <3>2
    <3>4. QED BY <3>1, <3>3
  <2>2. PICK w : proc' = [proc EXCEPT ![p] = w] /\ Quiet(w)
        BY <2>1, Goes DEF IInv
  <2>3. ASSUME NEW m \in Versioned
        PROVE  Told(m, table'[m].status, schema'[m].eff, m \in skipped')
    <3>1. m \in Migrations
          BY Names
    <3>2. CASE table'[m].status = "applied" /\ schema'[m].eff = "yes"
          BY <3>2 DEF Told
    <3>3. CASE table'[m] = table[m] /\ schema'[m] = schema[m]
          BY <3>3, <2>1 DEF Truth
    <3>4. QED BY <3>1, <3>2, <3>3, <2>1
  <2>4. Aware(w, table', schema')
        BY <2>2, QuietIsAware
  <2>5. QED BY <2>2, <2>3, <2>4, <1>1, TruthAfter
<1>4. QED BY <1>2, <1>3

\* A row is PARTIAL before anything is executed,
LEMMA RecordPartialTells ==
    ASSUME OneAtATime, Adoptable, IInv, Truth, NEW p \in Procs, RecordPartial(p) PROVE Truth'
<1>1. proc[p].pc \in Busy /\ schema' = schema /\ skipped' = skipped
      BY DEF RecordPartial, Busy, Pc
<1>2. CASE Return(p, "error") /\ table' = table
      BY <1>1, <1>2, ReadsTell DEF db
<1>3. ASSUME NEW i \in proc[p].todo, Goto(p, "half"),
             table' = [table EXCEPT ![i.m] = NewRow(i, "partial", proc[p].order)]
      PROVE  Truth'
  <2> DEFINE w == [proc[p] EXCEPT !.pc = "half"]
             row == NewRow(i, "partial", proc[p].order)
  <2>1. proc' = [proc EXCEPT ![p] = w] /\ Quiet(w)
        BY <1>3 DEF Goto, IInv, TypeOK, Proc, Quiet
  <2>2. row.status = "partial"
        BY DEF NewRow
  <2> HIDE DEF w, row
  <2>3. proc[p].todo \in SUBSET Item
        BY <1>1, AtWork
  <2>4. i.m \in Migrations /\ table \in [Migrations -> Row]
        BY <2>3, Items, Database
  <2>5. table'[i.m].status = "partial" /\ Only(i.m)
        BY <2>2, <2>4, <1>1, <1>3 DEF Only, row
  <2>6. Told(i.m, table'[i.m].status, schema'[i.m].eff, i.m \in skipped')
        BY <2>5 DEF Told
  <2>7. QED BY <2>1, <2>5, <2>6, <1>1, QuietIsAware, TruthOf
<1>4. QED BY <1>2, <1>3 DEF RecordPartial

\* while it runs,
LEMMA ExecuteHalfTells ==
    ASSUME TransactionalDdl, OneAtATime, Adoptable, IInv, Truth, NEW p \in Procs, ExecuteHalf(p)
    PROVE  Truth'
<1>1. PICK i \in proc[p].todo : Current(p, i) /\ schema' = [schema EXCEPT ![i.m].eff = "half"]
      BY DEF ExecuteHalf
<1> DEFINE w == [proc[p] EXCEPT !.pc = "exec"]
<1>2. /\ proc[p].pc \in Busy /\ proc[p].pc \in {"half", "exec"}
      /\ proc' = [proc EXCEPT ![p] = w] /\ table' = table /\ skipped' = skipped
      BY DEF ExecuteHalf, Goto, Busy, Pc
<1>3. Quiet(w)
      BY DEF IInv, TypeOK, Proc, Quiet
<1> HIDE DEF w
<1>4. /\ i.m \in Migrations
      /\ i.m \in Versioned => table[i.m].status = "partial"
      BY <1>1, <1>2, PartialRuns
<1>5. schema \in [Migrations -> Effect]
      BY Database
<1>6. Only(i.m)
      BY <1>1, <1>2, <1>5 DEF Only
<1>7. i.m \in Versioned => Told(i.m, table'[i.m].status, schema'[i.m].eff, i.m \in skipped')
      BY <1>2, <1>4 DEF Told
<1>8. QED BY <1>2, <1>3, <1>6, <1>7, QuietIsAware, TruthOf

\* and until it ran to its end.
LEMMA ExecuteTells ==
    ASSUME TransactionalDdl, OneAtATime, Adoptable, IInv, Truth, NEW p \in Procs, Execute(p)
    PROVE  Truth'
<1>1. PICK i \in proc[p].todo :
           /\ Current(p, i) /\ Goto(p, RecordPc(p, i))
           /\ \E sql : schema' = [schema EXCEPT ![i.m] = [eff |-> "yes", content |-> sql]]
      BY DEF Execute
<1>2. /\ proc[p].pc \in Busy /\ proc[p].pc \in {"half", "exec"}
      /\ table' = table /\ skipped' = skipped
      BY DEF Execute, Busy, Pc
<1> DEFINE pc == RecordPc(p, i)
           w == [proc[p] EXCEPT !.pc = pc]
<1>3. pc \in {"mark", "checksum", "insert"}
      BY DEF RecordPc
<1> HIDE DEF pc
<1>4. /\ proc' = [proc EXCEPT ![p] = w] /\ w.pc = pc /\ w.cmd = proc[p].cmd
      /\ w.todo = proc[p].todo
  <2>1. proc[p] \in Proc
        BY DEF IInv, TypeOK
  <2>2. QED BY <2>1, <1>1 DEF Goto, Proc, pc
<1> HIDE DEF w
<1>5. /\ First(proc[p].todo, i) /\ i.m \in Migrations /\ proc[p].cmd.op # "baseline"
      /\ i.m \in Versioned => table[i.m].status = "partial"
      BY <1>1, <1>2, PartialRuns
<1>6. schema \in [Migrations -> Effect]
      BY Database
<1>7. Only(i.m) /\ schema'[i.m].eff = "yes"
      BY <1>1, <1>2, <1>5, <1>6 DEF Only
<1>8. i.m \in Versioned => Told(i.m, table'[i.m].status, schema'[i.m].eff, i.m \in skipped')
      BY <1>2, <1>5, <1>7 DEF Told
<1>9. Aware(w, table', schema')
  <2>1. proc[p].todo \in SUBSET Item /\ Distinct(proc[p].todo)
        BY <1>2, AtWork
  <2>2. \A k \in w.todo : First(w.todo, k) => k = i
        BY <2>1, <1>4, <1>5, OneFirst
  <2>3. \A k \in w.todo : First(w.todo, k) => schema'[k.m].eff = "yes"
        BY <2>2, <1>7
  <2>4. QED BY <2>3, <1>3, <1>4, <1>5 DEF Aware
<1>10. QED BY <1>2, <1>4, <1>7, <1>8, <1>9, TruthOf

\* What is marked applied is complete, unless it was skipped.
LEMMA MarkAppliedTells ==
    ASSUME OneAtATime, Adoptable, IInv, Truth, NEW p \in Procs, MarkApplied(p) PROVE Truth'
<1>1. PICK i \in proc[p].todo :
           /\ Current(p, i)
           /\ table' = [table EXCEPT ![i.m].status = IF @ = "none" THEN @ ELSE "applied"]
           /\ skipped' = IF proc[p].cmd.how = "skip" THEN skipped \cup {i.m} ELSE skipped
           /\ Advance(p, i, 1)
      BY DEF MarkApplied
<1>2. proc[p].pc = "mark" /\ proc[p].pc \in Busy /\ schema' = schema
      BY DEF MarkApplied, Busy, Pc
<1>3. /\ Work(proc[p], table, schema, files) /\ proc[p] \in Proc /\ Distinct(proc[p].todo)
      BY <1>2, AtWork
<1>4. Unfinished(proc[p], table) \/ Repairing(proc[p], table, {"retry", "skip"})
      BY <1>2, <1>3 DEF Work
<1>5. proc[p].cmd.op \in {"migrate", "repair"}
      BY <1>4 DEF Unfinished, Repairing
<1>6. First(proc[p].todo, i)
      BY <1>1, <1>5, CurrentIs
<1>7. Partial(table) = {i.m}
      BY <1>3, <1>4, <1>6, Executing
<1>8. i.m \in Migrations /\ table[i.m].status = "partial" /\ table \in [Migrations -> Row]
      BY <1>7, Database DEF Partial
<1>9. PICK row : row = [table[i.m] EXCEPT !.status = "applied"]
      OBVIOUS
<1>10. row.status = "applied" /\ table' = [table EXCEPT ![i.m] = row]
  <2>1. table[i.m] \in Row
        BY <1>8
  <2>2. QED BY <2>1, <1>1, <1>8, <1>9 DEF Row
<1>11. table'[i.m].status = "applied" /\ Only(i.m)
       BY <1>1, <1>2, <1>8, <1>10 DEF Only
<1>12. Told(i.m, table'[i.m].status, schema'[i.m].eff, i.m \in skipped')
  <2>1. CASE proc[p].cmd.how = "skip"
        BY <2>1, <1>1, <1>11 DEF Told
  <2>2. CASE proc[p].cmd.how # "skip"
    <3>1. schema[i.m].eff = "yes"
          BY <2>2, <1>2, <1>6 DEF Truth, Aware
    <3>2. QED BY <3>1, <1>2, <1>11 DEF Told
  <2>3. QED BY <2>1, <2>2
<1>13. PICK w : proc' = [proc EXCEPT ![p] = w] /\ Quiet(w)
  <2>1. LoopOp(p, i) # "baseline"
        BY <1>5 DEF LoopOp
  <2>2. QED BY <2>1, <1>1, Goes DEF Advance, IInv
<1>14. QED BY <1>2, <1>11, <1>12, <1>13, QuietIsAware, TruthOf

\* A baseline records the version that is there, and the loop ends with it.
LEMMA RecordMigrationTells ==
    ASSUME TransactionalDdl, OneAtATime, Adoptable, IInv, Truth, NEW p \in Procs,
           RecordMigration(p)
    PROVE  Truth'
<1>1. /\ proc[p].pc = "insert" /\ proc[p].pc \in Busy /\ schema' = schema /\ skipped' = skipped
      BY DEF RecordMigration, Busy, Pc
<1>2. CASE Return(p, "error") /\ table' = table
      BY <1>1, <1>2, ReadsTell DEF db
<1>3. ASSUME NEW i \in proc[p].todo, Current(p, i), Advance(p, i, 1),
             table' = [table EXCEPT ![i.m] = NewRow(i, "applied", proc[p].order)]
      PROVE  Truth'
  <2>1. /\ Work(proc[p], table, schema, files) /\ proc[p] \in Proc /\ Distinct(proc[p].todo)
        /\ proc[p].todo \in SUBSET Item
        BY <1>1, AtWork
  <2>2. Repeated(proc[p], table, schema, files) \/ Adopting(proc[p], table)
        BY <1>1, <2>1 DEF Work, Committed
  <2> DEFINE row == NewRow(i, "applied", proc[p].order)
  <2>3. row.status = "applied"
        BY DEF NewRow
  <2> HIDE DEF row
  <2>4. i.m \in Migrations /\ table \in [Migrations -> Row]
        BY <2>1, Items, Database
  <2>5. table'[i.m].status = "applied" /\ Only(i.m)
        BY <2>3, <2>4, <1>1, <1>3 DEF Only, row
  <2>6. CASE Repeated(proc[p], table, schema, files)
    <3>1. proc[p].cmd.op = "migrate" /\ i.m \in Repeatable
          BY <2>6 DEF Repeated, Repeating, Loadable
    <3>2. PICK w : proc' = [proc EXCEPT ![p] = w] /\ Quiet(w)
      <4>1. LoopOp(p, i) # "baseline"
            BY <3>1 DEF LoopOp
      <4>2. QED BY <4>1, <1>3, Goes DEF Advance, IInv
    <3>3. i.m \notin Versioned
          BY <3>1, Names
    <3>4. QED BY <3>2, <3>3, <2>5, <1>1, QuietIsAware, TruthOf
  <2>7. CASE Adopting(proc[p], table)
    <3>1. /\ proc[p].cmd.op = "baseline"
          /\ \A k \in proc[p].todo : k.m \in Versioned /\ k.m <= Legacy
          BY <2>7 DEF Adopting
    <3>2. schema[i.m].eff = "yes"
          BY <3>1, <1>1 DEF Truth, Aware
    <3>3. proc[p].todo \ {i} = {}
          BY <3>1, <2>1 DEF Adoptable, Distinct
    <3>4. PICK w : proc' = [proc EXCEPT ![p] = w] /\ Quiet(w)
          BY <3>3, <1>3, Goes DEF Advance, IInv
    <3>5. Told(i.m, table'[i.m].status, schema'[i.m].eff, i.m \in skipped')
          BY <3>2, <2>5, <1>1 DEF Told
    <3>6. QED BY <3>4, <3>5, <2>5, <1>1, QuietIsAware, TruthOf
  <2>8. QED BY <2>2, <2>6, <2>7
<1>4. QED BY <1>2, <1>3 DEF RecordMigration

\* Checksums are not about the schema.
LEMMA ChecksumsTell ==
    ASSUME OneAtATime, Adoptable, IInv, Truth, NEW p \in Procs,
           UpdateChecksum(p) \/ RepairChecksum(p)
    PROVE  Truth'
<1>1. proc[p].pc \in Busy /\ schema' = schema /\ skipped' = skipped /\ TypeOK
      /\ table \in [Migrations -> Row]
      BY Database DEF UpdateChecksum, RepairChecksum, Busy, Pc
<1>2. \E w : proc' = [proc EXCEPT ![p] = w] /\ Quiet(w)
  <2>1. CASE UpdateChecksum(p)
    <3>1. PICK i \in proc[p].todo : Advance(p, i, 0)
          BY <2>1 DEF UpdateChecksum
    <3>2. Repeated(proc[p], table, schema, files)
          BY <2>1, <1>1, AtWork DEF UpdateChecksum, Work
    <3>3. LoopOp(p, i) # "baseline"
          BY <3>2 DEF LoopOp, Repeated, Repeating
    <3>4. QED BY <3>1, <3>3, <1>1, Goes DEF Advance
  <2>2. CASE RepairChecksum(p)
    <3>1. Return(p, "unlock") \/ Return(p, "error")
          BY <2>2 DEF RepairChecksum
    <3>2. QED BY <3>1, Ends
  <2>3. QED BY <2>1, <2>2
<1>3. table' = table \/ \E x, sum : table' = [table EXCEPT ![x].sum = sum]
  <2>1. CASE UpdateChecksum(p)
    <3>1. PICK i \in proc[p].todo :
             table' = [table EXCEPT ![i.m].sum = IF table[i.m].status = "none" THEN @ ELSE i.load]
          BY <2>1 DEF UpdateChecksum
    <3>2. PICK sum : sum = IF table[i.m].status = "none" THEN table[i.m].sum ELSE i.load
          OBVIOUS
    <3>3. table' = [table EXCEPT ![i.m].sum = sum]
          BY <3>1, <3>2
    <3>4. QED BY <3>3
  <2>2. CASE RepairChecksum(p)
    <3>1. PICK m : m = proc[p].cmd.n
          OBVIOUS
    <3>2. PICK sum : sum = IF m \in Recorded(table) THEN files[m] ELSE table[m].sum
          OBVIOUS
    <3>3. \/ table' = [table EXCEPT ![m].sum = IF m \in Recorded(table) THEN files[m] ELSE @]
          \/ table' = table
          BY <2>2, <3>1 DEF RepairChecksum
    <3>4. table' = [table EXCEPT ![m].sum = sum] \/ table' = table
          BY <3>2, <3>3
    <3>5. QED BY <3>4
  <2>3. QED BY <2>1, <2>2
<1>4. ASSUME NEW m \in Migrations PROVE table'[m].status = table[m].status
  <2>1. ASSUME NEW x, NEW sum, table' = [table EXCEPT ![x].sum = sum]
        PROVE  table'[m].status = table[m].status
        BY <2>1, <1>1 DEF Row
  <2>2. QED BY <2>1, <1>3
<1>5. \A m \in Versioned : Told(m, table'[m].status, schema'[m].eff, m \in skipped')
      BY <1>1, <1>4, Names DEF Truth
<1>6. QED BY <1>1, <1>2, <1>5, QuietIsAware, TruthAfter

\* A repair undoes the PARTIAL migration.
LEMMA RepairUndoes ==
    ASSUME IInv, NEW p \in Procs, proc[p].pc = "undo", proc[p].cmd.op # "rollback",
           NEW i \in proc[p].todo
    PROVE  proc[p].todo = {i} /\ table[i.m].status = "partial"
<1>1. Work(proc[p], table, schema, files)
      BY AtWork DEF Busy, Pc
<1>2. Repairing(proc[p], table, {"rollback"})
      BY <1>1 DEF Work, Rolling
<1>3. QED BY <1>2 DEF Repairing, Partial

\* What is undone is not recorded, or still PARTIAL.
LEMMA UndoTells ==
    ASSUME TransactionalDdl, OneAtATime, Adoptable, IInv, Truth, NEW p \in Procs, Undo(p)
    PROVE  Truth'
<1>1. PICK i \in proc[p].todo :
         \/ Return(p, "error") /\ UNCHANGED db
         \/ /\ schema' = [schema EXCEPT ![i.m] = Undone]
            /\ proc[p].cmd.op = "rollback"
            /\ table' = [table EXCEPT ![i.m] = NoRow]
            /\ skipped' = skipped \ {i.m}
            /\ Advance(p, i, 0)
         \/ /\ schema' = [schema EXCEPT ![i.m] = Undone]
            /\ proc[p].cmd.op # "rollback"
            /\ Goto(p, "delete") /\ table' = table /\ skipped' = skipped
      BY DEF Undo
<1>2. proc[p].pc = "undo" /\ proc[p].pc \in Busy
      BY DEF Undo, Busy, Pc
<1>3. proc[p] \in Proc /\ proc[p].todo \in SUBSET Item
      BY <1>2, AtWork
<1>4. /\ i.m \in Migrations /\ table \in [Migrations -> Row] /\ schema \in [Migrations -> Effect]
      /\ Undone.eff = "no" /\ NoRow.status = "none"
      BY <1>3, Items, Database DEF Undone, NoRow
<1>5. CASE Return(p, "error") /\ UNCHANGED db
      BY <1>5, ReadsTell
<1>6. CASE /\ schema' = [schema EXCEPT ![i.m] = Undone]
           /\ proc[p].cmd.op = "rollback"
           /\ table' = [table EXCEPT ![i.m] = NoRow]
           /\ skipped' = skipped \ {i.m}
           /\ Advance(p, i, 0)
  <2>1. table'[i.m].status = "none" /\ schema'[i.m].eff = "no" /\ Only(i.m)
        BY <1>4, <1>6 DEF Only
  <2>2. PICK w : proc' = [proc EXCEPT ![p] = w] /\ Quiet(w)
    <3>1. LoopOp(p, i) # "baseline"
          BY <1>6 DEF LoopOp
    <3>2. QED BY <3>1, <1>6, Goes DEF Advance, IInv
  <2>3. Told(i.m, table'[i.m].status, schema'[i.m].eff, i.m \in skipped')
        BY <2>1 DEF Told
  <2>4. QED BY <2>1, <2>2, <2>3, <1>2, QuietIsAware, TruthOf
<1>7. CASE /\ schema' = [schema EXCEPT ![i.m] = Undone]
           /\ proc[p].cmd.op # "rollback"
           /\ Goto(p, "delete") /\ table' = table /\ skipped' = skipped
  <2> DEFINE w == [proc[p] EXCEPT !.pc = "delete"]
  <2>1. /\ proc' = [proc EXCEPT ![p] = w] /\ w.pc = "delete" /\ w.todo = proc[p].todo
        BY <1>3, <1>7 DEF Goto, Proc
  <2> HIDE DEF w
  <2>2. proc[p].todo = {i} /\ table[i.m].status = "partial"
        BY <1>2, <1>7, RepairUndoes
  <2>3. schema'[i.m].eff = "no" /\ Only(i.m)
        BY <1>4, <1>7 DEF Only
  <2>4. Aware(w, table', schema')
        BY <2>1, <2>2, <2>3 DEF Aware
  <2>5. Told(i.m, table'[i.m].status, schema'[i.m].eff, i.m \in skipped')
        BY <2>2, <1>7 DEF Told
  <2>6. QED BY <2>1, <2>3, <2>4, <2>5, <1>2, TruthOf
<1>8. QED BY <1>1, <1>5, <1>6, <1>7

\* So is what is half undone.
LEMMA UndoFailsTells ==
    ASSUME TransactionalDdl, OneAtATime, Adoptable, IInv, Truth, NEW p \in Procs, UndoFails(p)
    PROVE  Truth'
<1>1. PICK i \in proc[p].todo : schema' = [schema EXCEPT ![i.m].eff = "half"]
      BY DEF UndoFails
<1>2. /\ proc[p].pc = "undo" /\ proc[p].pc \in Busy /\ proc[p].cmd.op # "rollback"
      /\ Return(p, "error") /\ table' = table /\ skipped' = skipped
      BY DEF UndoFails, Busy, Pc
<1>3. table[i.m].status = "partial"
      BY <1>2, RepairUndoes
<1>4. schema \in [Migrations -> Effect]
      BY Database
<1>5. Only(i.m)
      BY <1>1, <1>2, <1>4 DEF Only
<1>6. Told(i.m, table'[i.m].status, schema'[i.m].eff, i.m \in skipped')
      BY <1>2, <1>3 DEF Told
<1>7. QED BY <1>2, <1>5, <1>6, Ends, QuietIsAware, TruthOf

\* The row goes after its effects.
LEMMA DeleteMigrationTells ==
    ASSUME OneAtATime, Adoptable, IInv, Truth, NEW p \in Procs, DeleteMigration(p) PROVE Truth'
<1>1. PICK i \in proc[p].todo :
           /\ Advance(p, i, 0) /\ table' = [table EXCEPT ![i.m] = NoRow]
           /\ skipped' = skipped \ {i.m}
      BY DEF DeleteMigration
<1>2. proc[p].pc = "delete" /\ proc[p].pc \in Busy /\ schema' = schema
      BY DEF DeleteMigration, Busy, Pc
<1>3. proc[p].todo \in SUBSET Item /\ Work(proc[p], table, schema, files)
      BY <1>2, AtWork
<1>4. /\ i.m \in Migrations /\ table \in [Migrations -> Row] /\ NoRow.status = "none"
      BY <1>3, Items, Database DEF NoRow
<1>5. table'[i.m].status = "none" /\ schema'[i.m].eff = "no" /\ Only(i.m)
  <2>1. schema[i.m].eff = "no"
        BY <1>2 DEF Truth, Aware
  <2>2. QED BY <2>1, <1>1, <1>2, <1>4 DEF Only
<1>6. PICK w : proc' = [proc EXCEPT ![p] = w] /\ Quiet(w)
  <2>1. proc[p].cmd.op \in {"rollback", "repair"}
        BY <1>2, <1>3 DEF Work, Rolling, Repairing
  <2>2. LoopOp(p, i) # "baseline"
        BY <2>1 DEF LoopOp
  <2>3. QED BY <2>2, <1>1, Goes DEF Advance, IInv
<1>7. Told(i.m, table'[i.m].status, schema'[i.m].eff, i.m \in skipped')
      BY <1>5 DEF Told
<1>8. QED BY <1>2, <1>5, <1>6, <1>7, QuietIsAware, TruthOf

\* The table tells the truth, whatever fails and whoever is killed, on a database with
\* transactional DDL.
THEOREM Truthful ==
    ASSUME OneAtATime, TransactionalDdl, Adoptable PROVE Spec => []TableTruthful
<1>1. Init => Truth
  <2> SUFFICES ASSUME Init PROVE Truth
      OBVIOUS
  <2>1. ASSUME NEW m \in Versioned
        PROVE  Told(m, table[m].status, schema[m].eff, m \in skipped)
    <3>1. /\ table[m].status = "none"
          /\ schema[m].eff = "no" \/ (m <= Legacy /\ schema[m].eff = "yes")
          BY Names DEF Init, NoRow
    <3>2. QED BY <3>1 DEF Told
  <2>2. \A p \in Procs : Aware(proc[p], table, schema)
        BY DEF Init, At, Aware
  <2>3. QED BY <2>1, <2>2 DEF Truth
<1>2. IInv /\ Truth /\ [Next]_vars => Truth'
  <2> SUFFICES ASSUME IInv, Truth, [Next]_vars PROVE Truth'
      OBVIOUS
  <2>1. ASSUME NEW m \in Migrations, EditFile(m) PROVE Truth'
        BY <2>1 DEF EditFile, db, Truth
  <2>2. ASSUME NEW p \in Procs, Start(p) \/ Exit(p) \/ Crash(p) \/ SqlError(p) PROVE Truth'
    <3>1. UNCHANGED db
          BY <2>2 DEF Start, Exit, Crash, Close, SqlError
    <3>2. QED BY <3>1, <2>2, StartTells, ReadsTell DEF Exit, Crash
  <2>3. ASSUME NEW p \in Procs, \/ Unlock(p) \/ LockTimeout(p) \/ MigrateRead(p)
                                \/ MigrateOrder(p) \/ LoadRepeatables(p) \/ RollbackRead(p)
        PROVE  Truth'
    <3>1. UNCHANGED db
          BY <2>3 DEF Unlock, LockTimeout, MigrateRead, MigrateOrder, LoadRepeatables, RollbackRead
    <3>2. QED BY <3>1, <2>3, ReadsTell
  <2>4. ASSUME NEW p \in Procs, Lock(p) \/ RepairRead(p) \/ BaselineRead(p) PROVE Truth'
        BY <2>4, LockTells, RepairReadTells, BaselineReadTells
  <2>5. ASSUME NEW p \in Procs, \/ RunAndRecord(p) \/ RecordPartial(p) \/ ExecuteHalf(p)
                                \/ Execute(p) \/ MarkApplied(p) \/ RecordMigration(p)
        PROVE  Truth'
        BY <2>5, RunAndRecordTells, RecordPartialTells, ExecuteHalfTells, ExecuteTells,
           MarkAppliedTells, RecordMigrationTells
  <2>6. ASSUME NEW p \in Procs, \/ Undo(p) \/ UndoFails(p) \/ DeleteMigration(p)
                                \/ UpdateChecksum(p) \/ RepairChecksum(p)
        PROVE  Truth'
        BY <2>6, UndoTells, UndoFailsTells, DeleteMigrationTells, ChecksumsTell
  <2>7. CASE UNCHANGED vars
        BY <2>7 DEF vars, Truth
  <2>8. QED BY <2>1, <2>2, <2>3, <2>4, <2>5, <2>6, <2>7 DEF Next, Engine
<1>3. IInv /\ Truth => TableTruthful
  <2> SUFFICES ASSUME IInv, Truth PROVE TableTruthful
      OBVIOUS
  <2>1. TypeOK /\ \A m \in Versioned : Told(m, table[m].status, schema[m].eff, m \in skipped)
        BY DEF IInv, Truth
  <2>2. QED BY <2>1 DEF Told, TableTruthful
<1>4. Spec => []IInv
      BY Invariant
<1>5. QED BY <1>1, <1>2, <1>3, <1>4, PTL DEF Spec
=============================================================================
