------------------------------ MODULE HttpExtract ------------------------------
(***************************************************************************)
(* The extractors of the ladoo crate: from_request() as an operator from   *)
(* the request, with what routing and middleware added to it, to a value   *)
(* or to the response of the failure.                                      *)
(***************************************************************************)
EXTENDS HttpMiddleware

CONSTANTS U64Max,           \* u64::MAX, scaled down
          DefaultPerPage,   \* DEFAULT_PER_PAGE
          DefaultMaxPerPage \* DEFAULT_MAX_PER_PAGE

\* A value and what is left of the body, or a failure.
Value(v, body) == [ok |-> TRUE, value |-> v, body |-> body, res |-> Ok(200)]
Failure(res, body) == [ok |-> FALSE, value |-> Absent, body |-> body, res |-> res]
WithDetail(res, detail) == [res EXCEPT !.detail = detail]

\* Json: the body is taken once the content type is right; a second Json finds it empty.
ExtractJson(req, body, dev) ==
    CASE ~req.json -> Failure(Ok(415), body)
      [] req.json /\ body \notin {"valid", "invalid"} ->
            Failure(WithDetail(Ok(400), IF dev THEN "raw" ELSE "none"), "empty")
      [] OTHER -> Value(body, "empty")

\* Validate::validate() of the application's type, through the blanket impl over the
\* validator crate, and the answer with the errors of the fields.
Validates(v) == v # "invalid"
FieldErrors == Ok(422)

\* Valid: the inner extractor, then validate() on its value.
ExtractValid(inner) ==
    IF inner.ok /\ ~Validates(inner.value) THEN Failure(FieldErrors, inner.body) ELSE inner

\* Query: in every mode the answer has the parser's text.
ExtractQuery(req, body) ==
    IF req.query.parses THEN Value("query", body) ELSE Failure(WithDetail(Ok(400), "raw"), body)

\* State: the state of the request before that of the app.
ExtractState(type, per, app, body) ==
    IF type \in DOMAIN per \cup DOMAIN app.state THEN Value("state", body)
    ELSE Failure(Render(Err(500, "none"), app.dev), body)

\* Auth, and Option<Auth> which never fails.
ExtractAuth(type, per, app, body) ==
    IF type \in DOMAIN per THEN Value(per[type], body) ELSE Failure(Render(Err(401, "none"), app.dev), body)
ExtractOptAuth(type, per, body) == Value(IF type \in DOMAIN per THEN per[type] ELSE Absent, body)

\* ------------------------------------------------------------------- Path

\* ValueDeserializer on one value: text takes all, a number is one part of digits.
ParsesAs(value, type) == type = "string" \/ value = <<"7">>

\* PathDeserializer::one_value(), and the scalars, options, newtypes and enums over it.
PathScalar(type, params) == Len(params) = 1 /\ ParsesAs(params[1].value, type)

\* deserialize_tuple() with SeqDeserializer: as many parameters, by position.
PathTuple(types, params) ==
    Len(params) = Len(types) /\ \A i \in DOMAIN types : ParsesAs(params[i].value, types[i])

\* deserialize_struct() with MapDeserializer, under the visitor serde derives: a field
\* without a parameter or with two is an error, other parameters are ignored.
PathStruct(fields, params) ==
    \A f \in DOMAIN fields :
        \E i \in DOMAIN params :
            /\ params[i].name = f /\ ParsesAs(params[i].value, fields[f])
            /\ \A j \in DOMAIN params : params[j].name = f => j = i

ExtractPath(shape, params, dev, body) ==
    IF \/ shape.kind = "unit"
       \/ shape.kind = "scalar" /\ PathScalar(shape.type, params)
       \/ shape.kind = "tuple" /\ PathTuple(shape.types, params)
       \/ shape.kind = "struct" /\ PathStruct(shape.fields, params)
    THEN Value(params, body)
    ELSE Failure(WithDetail(Ok(400), IF dev THEN "raw" ELSE "none"), body)

\* ------------------------------------------------------------- pagination

\* PaginationConfig::max_per_page(); the fields are public, so zero can be there too.
MaxPerPage(config, n) == [config EXCEPT !.max = IF n > 1 THEN n ELSE 1]

\* The limits both paging extractors use.
Paging(app) ==
    IF "PaginationConfig" \in DOMAIN app.state
    THEN [default |-> app.state["PaginationConfig"].default,
          max |-> IF app.state["PaginationConfig"].max > 1 THEN app.state["PaginationConfig"].max ELSE 1]
    ELSE [default |-> DefaultPerPage, max |-> DefaultMaxPerPage]

\* u64::clamp(1, max).
ClampPage(n, max) == IF n < 1 THEN 1 ELSE IF n > max THEN max ELSE n

\* Mutant of Offset: the product wraps around.
OffsetWrapping(page) == ((page.page - 1) * page.per_page) % (U64Max + 1)

\* Paginate::offset(), saturating.
Offset(page) ==
    LET product == (IF page.page = 0 THEN 0 ELSE page.page - 1) * page.per_page
    IN  IF product > U64Max THEN U64Max ELSE product

\* Paginate: an absent query parameter is -1.
ExtractPaginate(req, app, body) ==
    LET q == req.query
        asked == IF q.per_page < 0 THEN Paging(app).default ELSE q.per_page
        page == [page |-> IF q.page < 1 THEN 1 ELSE q.page, per_page |-> ClampPage(asked, Paging(app).max)]
    IN  IF q.parses THEN Value([page |-> page.page, limit |-> page.per_page, offset |-> Offset(page)], body)
        ELSE Failure(WithDetail(Ok(400), "raw"), body)

\* CursorParams: one cursor at most.
ExtractCursor(req, app, body) ==
    LET q == req.query
        asked == IF q.per_page < 0 THEN Paging(app).default ELSE q.per_page
    IN  CASE ~q.parses -> Failure(WithDetail(Ok(400), "raw"), body)
          [] q.parses /\ q.after /\ q.before -> Failure(Ok(400), body)
          [] OTHER -> Value([page |-> 1, limit |-> ClampPage(asked, Paging(app).max), offset |-> 0], body)

\* Paginate::respond(): total.div_ceil(per_page), guarded against per_page = 0.
TotalPages(per_page, total) == IF per_page = 0 THEN 0 ELSE (total + per_page - 1) \div per_page

\* from_request() of the type of one argument of a handler.
FromRequest(arg, req, params, per, body, app) ==
    CASE arg.kind = "json" -> ExtractJson(req, body, app.dev)
      [] arg.kind = "valid" -> ExtractValid(ExtractJson(req, body, app.dev))
      [] arg.kind = "query" -> ExtractQuery(req, body)
      [] arg.kind = "state" -> ExtractState(arg.type, per, app, body)
      [] arg.kind = "auth" -> ExtractAuth(arg.type, per, app, body)
      [] arg.kind = "opt_auth" -> ExtractOptAuth(arg.type, per, body)
      [] arg.kind = "path" -> ExtractPath(arg.shape, params, app.dev, body)
      [] arg.kind = "paginate" -> ExtractPaginate(req, app, body)
      [] arg.kind = "cursor" -> ExtractCursor(req, app, body)
================================================================================
