----------------------------- MODULE MigrationCli -----------------------------
(***************************************************************************)
(* The command line of ladoo-migrate: which engine command a set of        *)
(* options stands for.  `status` reads without the lock and `create` only  *)
(* writes a file (MigrationSource), so neither is a command of the engine. *)
(***************************************************************************)
EXTENDS MigrationEngine

\* A subcommand with its options: `flags` those given, `n` the value of the one
\* that takes a value.  Without --to, migrate goes on to the newest version.
Args == [command : {"migrate", "rollback", "repair", "baseline"},
         flags : SUBSET {"dry-run", "atomic", "to", "steps", "retry", "rollback", "skip",
                         "update-checksum"},
         n : Nat]

\* The first of the options in `order` that is given, by position; 0 for none.
FirstGiven(flags, order) ==
    LET given == {k \in DOMAIN order : order[k] \in flags}
    IN  IF given = {} THEN 0 ELSE Min(given)

\* run: the if/else chains that pick MigrateOptions and the strategies.  None of the
\* options of repair is an error before the engine is called.
CommandOf(a) ==
    LET pick(order, how, default) ==
            LET k == FirstGiven(a.flags, order) IN IF k = 0 THEN default ELSE how[k]
        cmd(how, n) == [op |-> a.command, how |-> how, n |-> n]
    IN  CASE a.command = "migrate" ->
                cmd(pick(<<"dry-run", "atomic">>, <<"dry", "atomic">>, "sequential"),
                    IF "to" \in a.flags THEN a.n ELSE Max(Migrations))
          [] a.command = "rollback" ->
                cmd(pick(<<"steps", "to">>, <<"steps", "to">>, "last"), a.n)
          [] a.command = "repair" ->
                IF a.flags = {} THEN NoCommand
                ELSE cmd(pick(<<"retry", "rollback", "skip", "update-checksum">>,
                              <<"retry", "rollback", "skip", "checksum">>, "none"), a.n)
          [] a.command = "baseline" -> cmd("all", a.n)
=============================================================================
