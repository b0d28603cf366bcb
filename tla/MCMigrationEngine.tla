------------------------- MODULE MCMigrationEngine -------------------------
(* TLC instances of MigrationEngine: its constants are read from migration  *)
(* files and its commands from command lines.                               *)
EXTENDS MigrationCli, MigrationSource

File(v, ext, lines) ==
    [name |-> [ext |-> ext, separator |-> TRUE, digits |-> TRUE, rest |-> "x", version |-> v],
     lines |-> lines]

\* migrations/: 1 as `create` made it, 2 outside a transaction and after 1, 3 an enum
\* type that cannot be undone; a note is no migration.
MCDirectory ==
    {File(1, "sql", Template("create-table")),
     File(2, "sql", <<Line("up"), Line("comment"), Line("no-transaction"), Needs(1),
                      Line("sql"), Needs(3), Line("down"), Line("sql")>>),
     File(3, "sql", Template("create-enum")),
     File(9, "md", <<Line("sql")>>)}

ASSUME MCDirectoryLoads == Loads(MCDirectory)

\* Lines of every kind, up to five of them: the parser and its reference agree.
MCLines == {Line(k) : k \in {"up", "down", "skip", "no-transaction", "sql", "blank"}}
               \cup {Needs(1)}
ASSUME MCParser == \A lines \in BoundedSeq(MCLines, 5) : ParsesByPosition(lines)

MCLoaded == Loaded(MCDirectory)
MCFile == [m \in {f.version : f \in MCLoaded} |-> (CHOOSE f \in MCLoaded : f.version = m).file]
MCRequires == [m \in Versioned |-> MCFile[m].requires]
MCNoTransaction == {m \in Versioned : MCFile[m].noTransaction}
MCNoDown == {m \in Versioned : MCFile[m].down = <<>>}

Given(command, flags, n) == [command |-> command, flags |-> flags, n |-> n]

\* Everything the CLI offers, with targets that cut the versions in the middle.
AllArgs ==
    {Given("migrate", flags, 1) : flags \in SUBSET {"atomic", "to"}}
        \cup {Given("migrate", {"dry-run"}, 0), Given("rollback", {}, 0),
              Given("rollback", {"steps"}, 2), Given("rollback", {"to"}, 1),
              Given("repair", {"update-checksum"}, 1), Given("baseline", {}, 1)}
        \cup {Given("repair", {how}, 0) : how \in {"retry", "rollback", "skip"}}

\* Two processes at once.
ConcurrentArgs ==
    {Given("migrate", {}, 0), Given("migrate", {"atomic", "to"}, 1), Given("rollback", {}, 0)}
        \cup {Given("repair", {how}, 0) : how \in {"retry", "rollback", "skip"}}

ASSUME MCArgs == AllArgs \cup ConcurrentArgs \subseteq Args

AllCommands == {CommandOf(a) : a \in AllArgs}
Concurrent  == {CommandOf(a) : a \in ConcurrentArgs}

ConnSymmetry == Permutations(Conns)
Symmetry == Permutations(Procs) \cup Permutations(Conns)
=============================================================================
