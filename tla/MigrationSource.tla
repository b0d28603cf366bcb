---------------------------- MODULE MigrationSource ----------------------------
(***************************************************************************)
(* Migration files of ladoo-migrate: how FilesystemSource turns a          *)
(* directory into migrations, how parse_migration_file reads directives,   *)
(* and what `create` writes.                                               *)
(*                                                                         *)
(* A file is its lines, and a line is what the parser tells apart: a       *)
(* directive, SQL, another comment or a blank.  A file name is what        *)
(* parse_filename looks at.                                                *)
(***************************************************************************)
EXTENDS Naturals, SequencesExt

Line(kind)  == [kind |-> kind, dep |-> 0]
Needs(v)    == [kind |-> "requires", dep |-> v]
Headers     == {"up", "down", "skip"}
Directives  == {"no-transaction", "requires", "repeatable"}

\* parse_filename: `.sql`, fifteen bytes of version, an underscore and a name.
ParsesName(name) == name.ext = "sql" /\ name.separator /\ name.digits /\ name.rest # ""

\* The locals of parse_migration_file.
NothingRead ==
    [section |-> "none", past |-> FALSE, found |-> FALSE, up |-> <<>>, down |-> <<>>,
     noTransaction |-> FALSE, requires |-> {}, repeatable |-> FALSE, skip |-> FALSE]

\* The three headers; only @up opens the directives anew, and the text after
\* @down(skip) belongs to no section.
Header(st, line) ==
    [st EXCEPT !.section = IF line.kind = "skip" THEN "none" ELSE line.kind,
               !.found = @ \/ line.kind = "up",
               !.past  = @ /\ line.kind # "up",
               !.skip  = @ \/ line.kind = "skip"]

\* A directive before the first SQL of @up.
Directive(st, line) ==
    [st EXCEPT !.noTransaction = @ \/ line.kind = "no-transaction",
               !.requires = IF line.kind = "requires" THEN @ \cup {line.dep} ELSE @,
               !.repeatable = @ \/ line.kind = "repeatable"]

\* Any other line is text of its section, directives that come too late included.
Text(st, line) ==
    [st EXCEPT !.past = @ \/ (st.section = "up" /\ line.kind = "sql"),
               !.up   = IF st.section = "up" THEN Append(@, line) ELSE @,
               !.down = IF st.section = "down" THEN Append(@, line) ELSE @]

\* One turn of the loop over content.lines().
ReadLine(st, line) ==
    CASE line.kind \in Headers -> Header(st, line)
      [] line.kind \in Directives /\ st.section = "up" /\ ~st.past -> Directive(st, line)
      [] OTHER -> Text(st, line)

\* str::trim of joined lines: blank lines at both ends disappear.
Trim(lines) ==
    LET full == {k \in DOMAIN lines : lines[k].kind # "blank"}
    IN  IF full = {} THEN <<>> ELSE SubSeq(lines, Min(full), Max(full))

\* parse_migration_file; the checksum is that of `up`, which holds no directive.
ParseFile(lines) ==
    LET st == FoldLeft(ReadLine, NothingRead, lines)
    IN  [ok |-> st.found, up |-> Trim(st.up), down |-> Trim(st.down),
         noTransaction |-> st.noTransaction, requires |-> st.requires,
         repeatable |-> st.repeatable, skip |-> st.skip]

\* load_versioned and load_repeatable: the .sql files of a directory, if every one of
\* them parses; one that does not makes the whole load fail.
SqlFiles(dir) == {f \in dir : f.name.ext = "sql"}
Loads(dir)    == \A f \in SqlFiles(dir) : ParsesName(f.name) /\ ParseFile(f.lines).ok
Loaded(dir)   == {[version |-> f.name.version, file |-> ParseFile(f.lines)] : f \in SqlFiles(dir)}
-----------------------------------------------------------------------------
\* template_content, and the empty file of `create` without --type.
Template(type) ==
    CASE type = "none" -> <<Line("up"), Line("blank"), Line("down")>>
      [] type = "create-enum" -> <<Line("up"), Line("sql"), Line("blank"), Line("skip")>>
      [] type \in {"create-table", "add-column", "create-index", "add-constraint",
                   "rename-column", "data"} ->
            <<Line("up"), Line("sql"), Line("blank"), Line("down"), Line("sql")>>

\* The file `create --revert` writes around the stored @down of a migration.
Revert(down) == <<Line("up"), Line("comment")>> \o down \o <<Line("blank"), Line("skip")>>
-----------------------------------------------------------------------------
\* Reference: the same file read by position.  A line belongs to the last header
\* above it, and is a directive when no SQL stands between it and an @up.
HeaderOf(lines, k) ==
    Max({0} \cup {h \in 1 .. k - 1 : lines[h].kind \in Headers})

InSection(lines, k, kind) ==
    /\ lines[k].kind \notin Headers
    /\ HeaderOf(lines, k) > 0 /\ lines[HeaderOf(lines, k)].kind = kind

IsDirective(lines, k) ==
    /\ lines[k].kind \in Directives /\ InSection(lines, k, "up")
    /\ \A j \in HeaderOf(lines, k) .. k : lines[j].kind # "sql"

TextOf(lines, kind) ==
    LET keep == {k \in DOMAIN lines : InSection(lines, k, kind) /\ ~IsDirective(lines, k)}
    IN  Trim([j \in 1 .. Cardinality(keep) |->
                lines[CHOOSE k \in keep : Cardinality({i \in keep : i <= k}) = j]])

\* parse_migration_file agrees with that reading of a file.
ParsesByPosition(lines) ==
    LET file == ParseFile(lines)
        said(kind) == {k \in DOMAIN lines : lines[k].kind = kind /\ IsDirective(lines, k)}
    IN  /\ file.ok = (\E k \in DOMAIN lines : lines[k].kind = "up")
        /\ file.up = TextOf(lines, "up") /\ file.down = TextOf(lines, "down")
        /\ file.noTransaction = (said("no-transaction") # {})
        /\ file.requires = {lines[k].dep : k \in said("requires")}
        /\ file.repeatable = (said("repeatable") # {})
        /\ file.skip = (\E k \in DOMAIN lines : lines[k].kind = "skip")
=============================================================================
