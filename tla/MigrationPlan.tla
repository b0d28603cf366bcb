----------------------------- MODULE MigrationPlan -----------------------------
(***************************************************************************)
(* The decisions of ladoo-migrate, as functions of what one command has    *)
(* read: MigrationPlan::build, the row selection of rollback_inner and     *)
(* repair_inner, and the repeatables migrate re-runs.                      *)
(*                                                                         *)
(* A version (YYYYMMDD_HHMMSS, compared as a string) is a number; a file's *)
(* content is a number too, 0 when the file does not exist, so that equal  *)
(* contents and equal checksums are the same thing.                        *)
(***************************************************************************)
EXTENDS FiniteSetsExt, Naturals

CONSTANTS Versioned,      \* versions in migrations/
          Repeatable,     \* versions in migrations/repeatable/
          Requires,       \* @requires of each versioned migration
          NoTransaction,  \* versioned migrations marked @no-transaction
          NoDown          \* migrations with @down(skip)

Migrations == Versioned \cup Repeatable

ASSUME MigrationAssumption ==
    /\ Versioned \subseteq Nat \ {0} /\ Repeatable \subseteq Nat \ {0}
    /\ Versioned \cap Repeatable = {}
    /\ IsFiniteSet(Migrations)
    /\ Requires \in [Versioned -> SUBSET Versioned]
    /\ NoTransaction \subseteq Versioned /\ NoDown \subseteq Migrations

\* A row of _migrations: `sum` is the stored checksum, `sql` the stored @up and @down.
Row == [status : {"none", "applied", "partial"}, order : Nat, sum : Nat, sql : Nat]

NoRow == [status |-> "none", order |-> 0, sum |-> 0, sql |-> 0]

Recorded(table) == {m \in Migrations : table[m].status # "none"}
Partial(table)  == {m \in Migrations : table[m].status = "partial"}

\* Mutant of NextOrder: starting over.
NextOrderRestarts(table) == 1

\* TableManager::next_order
NextOrder(table) == Max({0} \cup {table[m].order : m \in Recorded(table)}) + 1

\* MigrationPlan::build, its filters: on disk, not recorded, up to the target.
ToApply(table, files, target) ==
    {m \in Versioned : files[m] # 0 /\ m \notin Recorded(table) /\ m <= target}

\* Mutant of PlanRefused: a PARTIAL row does not stop the plan.
PlanIgnoresPartial(table, files, target, atomic) ==
    LET todo == ToApply(table, files, target)
    IN  \/ \E m \in Versioned \cap Recorded(table) : files[m] \notin {0, table[m].sum}
        \/ \E m \in todo : \E d \in Requires[m] :
              d \notin Recorded(table) /\ ~(d \in todo /\ d < m)
        \/ atomic /\ todo \cap NoTransaction # {}

\* MigrationPlan::build, its error returns.
PlanRefused(table, files, target, atomic) ==
    LET todo == ToApply(table, files, target)
    IN  \/ Partial(table) # {}
        \/ \E m \in Versioned \cap Recorded(table) : files[m] \notin {0, table[m].sum}
        \/ \E m \in todo : \E d \in Requires[m] :
              d \notin Recorded(table) /\ ~(d \in todo /\ d < m)
        \/ atomic /\ todo \cap NoTransaction # {}

\* apply_repeatables: new ones and those whose checksum changed.
ToRepeat(table, files) ==
    {r \in Repeatable : files[r] # 0 /\ (r \notin Recorded(table) \/ table[r].sum # files[r])}

\* Mutant of NewestFirst: the oldest rows are taken.
OldestFirst(table, n) ==
    {S \in SUBSET Recorded(table) :
        /\ Cardinality(S) = IF n <= Cardinality(Recorded(table)) THEN n
                                                      ELSE Cardinality(Recorded(table))
        /\ \A m \in S, k \in Recorded(table) \ S : table[m].order <= table[k].order}

\* `applied.iter().rev().take(n)`: the n rows applied last (ties either way).
NewestFirst(table, n) ==
    {S \in SUBSET Recorded(table) :
        /\ Cardinality(S) = IF n <= Cardinality(Recorded(table)) THEN n
                                                      ELSE Cardinality(Recorded(table))
        /\ \A m \in S, k \in Recorded(table) \ S : table[m].order >= table[k].order}

\* `applied.iter().rev().take_while(version > v)`
NewerUntil(table, v) ==
    {m \in Recorded(table) : \A k \in Recorded(table) :
        table[k].order >= table[m].order => k > v}

\* The sets rollback_inner may select for its strategy.
ToRollback(table, how, n) ==
    CASE how = "last"  -> NewestFirst(table, 1)
      [] how = "steps" -> NewestFirst(table, n)
      [] how = "to"    -> {NewerUntil(table, n)}
=============================================================================
