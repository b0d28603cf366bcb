------------------------------ MODULE JobDerive ------------------------------
(***************************************************************************)
(* What #[derive(Job)] makes of the #[job(...)] attributes of a struct: the*)
(* configuration the runner reads through Job::config().                   *)
(***************************************************************************)
EXTENDS Naturals, SequencesExt

\* JobField: one `name = value` of an attribute.
Field(name, value) == [name |-> name, value |-> value]

\* parse_duration(): seconds.
ParseDuration(n, unit) ==
    n * (CASE unit = "s" -> 1 [] unit = "m" -> 60 [] unit = "h" -> 3600)

\* JobConfig::default(), which the macro repeats.
DefaultConfig == [retries |-> 0, timeout |-> ParseDuration(30, "s"), backoff |-> "exponential"]

\* The fields in the order of the attributes: the last one of a name wins.
DeriveConfig(fields) ==
    FoldLeft(LAMBDA c, f : [c EXCEPT ![f.name] = f.value], DefaultConfig, fields)

\* Fixed(1s), or exponential_default(): 1s doubling up to 60s.
ToRunner(c) == [max_retries |-> c.retries, base |-> 1, max |-> 60,
                fixed |-> c.backoff = "fixed"]
=============================================================================
