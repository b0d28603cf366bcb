-------------------------------- MODULE Routing --------------------------------
(***************************************************************************)
(* The router of the ladoo crate: registration, groups, and the choice of  *)
(* a route for a request.  A path is the sequence of its parts between     *)
(* slashes, empty parts included; a pattern is a sequence of segments.     *)
(***************************************************************************)
EXTENDS Naturals, Sequences, FiniteSets, SequencesExt

\* The kinds of Segment.
Static(s) == [kind |-> "static", name |-> s]
Param(s) == [kind |-> "param", name |-> s]
Wildcard(s) == [kind |-> "wildcard", name |-> s]

\* No RouteMatch.
NoRoute == [method |-> "none", middleware |-> <<>>]
Found(route) == route.method # "none"

NewRouter == [routes |-> <<>>, group |-> <<>>]

\* split_path(): empty parts do not count, so "/a/", "//a" and "/a" are one path.
SplitPath(path) == SelectSeq(path, LAMBDA part : part # "")

\* parse_path() panics unless a wildcard is named and last.
Parses(pattern) ==
    \A i \in DOMAIN pattern :
        pattern[i].kind = "wildcard" => pattern[i].name # "" /\ i = Len(pattern)

HasWildcard(pattern) == pattern # <<>> /\ Last(pattern).kind = "wildcard"
Statics(pattern) == Cardinality({i \in DOMAIN pattern : pattern[i].kind = "static"})

\* match_segments(): the part of a wildcard may be empty.
Matches(pattern, parts) ==
    /\ IF HasWildcard(pattern) THEN Len(parts) >= Len(pattern) - 1 ELSE Len(parts) = Len(pattern)
    /\ \A i \in DOMAIN pattern :
          pattern[i].kind = "static" => i <= Len(parts) /\ parts[i] = pattern[i].name

\* The parameters match_segments() collects, in the order of the pattern.
Params(pattern, parts) ==
    LET bound == SelectSeq([i \in DOMAIN pattern |-> i], LAMBDA i : pattern[i].kind # "static")
    IN  [n \in DOMAIN bound |->
            LET i == bound[n]
            IN  [name |-> pattern[i].name,
                 value |-> IF pattern[i].kind = "param" THEN <<parts[i]>> ELSE SubSeq(parts, i, Len(parts))]]

\* Tuples (static_count, !has_wildcard) compare from left to right, FALSE below TRUE.
Above(p, q) ==
    \/ Statics(p) > Statics(q)
    \/ Statics(p) = Statics(q) /\ ~HasWildcard(p) /\ HasWildcard(q)

\* Mutant of Find: on equal scores the later registration wins.
FindLatest(routes, method, path) ==
    LET parts == SplitPath(path)
        Pick(best, r) == IF r.method = method /\ Matches(r.segments, parts)
                            /\ (~Found(best) \/ ~Above(best.segments, r.segments))
                         THEN r ELSE best
    IN  FoldLeft(Pick, NoRoute, routes)

\* Router::find(): the first of the routes with the highest score.
Find(routes, method, path) ==
    LET parts == SplitPath(path)
        Pick(best, r) == IF r.method = method /\ Matches(r.segments, parts)
                            /\ (~Found(best) \/ Above(r.segments, best.segments))
                         THEN r ELSE best
    IN  FoldLeft(Pick, NoRoute, routes)

\* The positions of the routes that match a path, whatever their method.
Matching(routes, path) == {i \in DOMAIN routes : Matches(routes[i].segments, SplitPath(path))}

\* find_middleware_for_path(): that of the first route that matches, not of the best.
MiddlewareForPath(routes, path) == routes[Min(Matching(routes, path))].middleware

\* allowed_methods_for_path(), sorted and without duplicates.
AllowedMethods(routes, path) == {routes[i].method : i \in Matching(routes, path)}

\* Router::add(), and get(), post(), put(), delete(), patch() with their method.
Add(router, method, pattern, handler) ==
    [router EXCEPT !.routes = Append(@, [method |-> method, segments |-> pattern,
                                         handler |-> handler, middleware |-> <<>>])]

\* Router::use_mw() and guard(): for every route of the group, earlier ones too.
UseMw(router, mw) == [router EXCEPT !.group = Append(@, mw)]

\* merge_from(), behind App::group() and mount(): what a route brings along from an inner
\* group comes before the middleware of the group it is merged from.
MergeFrom(router, prefix, other) ==
    [router EXCEPT !.routes = @ \o
        [i \in DOMAIN other.routes |->
            [other.routes[i] EXCEPT !.segments = prefix \o @, !.middleware = @ \o other.group]]]
================================================================================
