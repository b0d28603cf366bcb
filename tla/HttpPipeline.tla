------------------------------ MODULE HttpPipeline ------------------------------
(***************************************************************************)
(* One connection of a ladoo server, or a test client: requests one after  *)
(* the other, each received, routed, taken inward through the middleware,  *)
(* its handler's arguments extracted, handled, and the result taken        *)
(* outward again.                                                          *)
(***************************************************************************)
EXTENDS HttpApp, Integers

CONSTANTS Apps,         \* applications, as their builders leave them
          Environments, \* variables and configuration files a process may start with
          Requests      \* what clients send

ASSUME PipelineAssumption ==
    /\ U64Max \in Nat /\ DefaultPerPage \in Nat \ {0} /\ DefaultMaxPerPage \in Nat \ {0}
    /\ \A a \in Apps : WellBuilt(a)
    /\ \A e \in Environments : IsEnvironment(e)
    /\ \A req \in Requests : req.query.page \in Nat \cup {-1} /\ req.query.per_page \in Nat \cup {-1}

VARIABLES
    pc,     \* start, panicked, idle, route, enter, extract, call, leave, done
    app,    \* the App; its routes and state once it has started
    env,    \* the process environment
    entry,  \* run() or into_client()
    x       \* the exchange being served

vars == <<pc, app, env, entry, x>>

NoRequest == [method |-> "none"]
NotFound == [kind |-> "none"]

\* Request::new() and the state of run_middleware_chain(); depth, failed, ran, own and
\* health are history: the layers entered, whether an Err occurred, whether the handler ran
\* and set a header of its own, the outcomes of the health checks.
Fresh == [req |-> NoRequest, route |-> NoRoute, handler |-> NotFound, chain |-> <<>>, idx |-> 0,
          params |-> <<>>, per |-> <<>>, body |-> "empty", arg |-> 1, values |-> <<>>, res |-> Ok(200),
          depth |-> 0, failed |-> FALSE, ran |-> FALSE, own |-> FALSE, socket |-> FALSE, health |-> <<>>]

\* Type invariant.
TypeOK ==
    /\ pc \in {"start", "panicked", "idle", "route", "enter", "extract", "call", "leave", "done"}
    /\ x.idx \in 0 .. Len(x.chain) /\ x.depth \in x.idx .. Len(x.chain)
    /\ x.res.detail \in {"none", "inner", "raw"}
    /\ pc = "done" => x.res.ok

Init ==
    /\ pc = "start"
    /\ app \in Apps
    /\ env \in Environments
    /\ entry \in {"server", "client"}
    /\ x = Fresh

\* config() panics on a bad configuration; else the app starts.
Start ==
    /\ pc = "start"
    /\ IF Loads(app, env) THEN pc' = "idle" /\ app' = Started(app, env, entry)
       ELSE pc' = "panicked" /\ UNCHANGED app
    /\ UNCHANGED <<env, entry, x>>

\* check_ws_headers(): the Connection and the Upgrade header.
CheckWsHeaders(req) == req.connection /\ req.upgrade

\* handle_request(): an upgrade is detected before the body is read and has none; a body
\* over the limit or broken off is answered at once, outside every middleware.
Receive(req) ==
    LET upgrade == CheckWsHeaders(req)
    IN  /\ pc \in {"idle", "done"} /\ entry = "server"
        /\ x' = [Fresh EXCEPT !.req = req,
                              !.per = IF upgrade /\ req.handle THEN [t \in {"WsUpgradeHandle"} |-> "handle"] ELSE @,
                              !.body = IF upgrade THEN "empty" ELSE req.body,
                              !.res = CASE ~upgrade /\ req.body = "huge" -> Ok(413)
                                        [] ~upgrade /\ req.body = "cut" -> Ok(400)
                                        [] OTHER -> @]
        /\ pc' = IF ~upgrade /\ req.body \in {"huge", "cut"} THEN "done" ELSE "route"
        /\ UNCHANGED <<app, env, entry>>

\* TestRequest::send(): no body limit, no upgrade.
Send(req) ==
    /\ pc \in {"idle", "done"} /\ entry = "client" /\ req.body # "cut"
    /\ x' = [Fresh EXCEPT !.req = req, !.body = req.body]
    /\ pc' = "route"
    /\ UNCHANGED <<app, env, entry>>

\* handle_app_request(): the route's handler behind the global middleware and its own;
\* for a path with other methods the 405 handler behind the middleware of the first route
\* that matches; for no path a 404 behind none.
Route ==
    LET routes == app.router.routes
        path == x.req.path
        route == Find(routes, x.req.method, path)
        allowed == AllowedMethods(routes, path)
    IN  /\ pc = "route"
        /\ IF Found(route)
           THEN /\ x' = [x EXCEPT !.route = route, !.handler = route.handler,
                                  !.params = Params(route.segments, SplitPath(path)),
                                  !.chain = app.global \o route.middleware]
                /\ pc' = "enter"
           ELSE IF allowed # {}
           THEN /\ x' = [x EXCEPT !.handler = [kind |-> "not_allowed", allow |-> allowed],
                                  !.chain = app.global \o MiddlewareForPath(routes, path)]
                /\ pc' = "enter"
           ELSE /\ x' = [x EXCEPT !.res = Render(Err(404, "none"), app.dev)]
                /\ pc' = "done"
        /\ UNCHANGED <<app, env, entry>>

\* Next::run() with middleware left.
Enter ==
    /\ pc = "enter" /\ x.idx < Len(x.chain)
    /\ LET b == Before(x.chain[x.idx + 1], x.req, x.per, app)
       IN  IF b.go THEN /\ x' = [x EXCEPT !.per = b.per, !.idx = @ + 1, !.depth = x.idx + 1]
                        /\ UNCHANGED pc
           ELSE /\ x' = [x EXCEPT !.res = b.res, !.failed = ~b.res.ok]
                /\ pc' = "leave"
    /\ UNCHANGED <<app, env, entry>>

\* Next::run() with none left: the handler's call().
Inside ==
    /\ pc = "enter" /\ x.idx = Len(x.chain)
    /\ pc' = IF x.handler.kind = "fn" THEN "extract" ELSE "call"
    /\ UNCHANGED <<app, env, entry, x>>

\* The generated Handler::call(): the arguments from left to right; the first failure is
\* the response.
Extract ==
    /\ pc = "extract"
    /\ IF x.arg > Len(x.handler.args) THEN pc' = "call" /\ UNCHANGED x
       ELSE LET v == FromRequest(x.handler.args[x.arg], x.req, x.params, x.per, x.body, app)
            IN  IF v.ok THEN /\ x' = [x EXCEPT !.arg = @ + 1, !.body = v.body, !.values = Append(@, v.value)]
                             /\ UNCHANGED pc
                ELSE /\ x' = [x EXCEPT !.res = v.res, !.body = v.body]
                     /\ pc' = "leave"
    /\ UNCHANGED <<app, env, entry>>

\* A handler returns.
Answer(res) ==
    /\ x' = [x EXCEPT !.res = res, !.ran = TRUE, !.own = Has(res, "x-frame-options")]
    /\ pc' = "leave"
    /\ UNCHANGED <<app, env, entry>>

\* The into_response() that derive(AppError) generates: the last status of the
\* variant's attribute, 500 if there is none, and never a detail.
AppError(attr, dev) == Render(Err(IF attr = <<>> THEN 500 ELSE Last(attr), "none"), dev)

\* Json::into_response() of a value that does not serialise: the text of the failure.
JsonFails == WithDetail(Ok(500), "raw")

\* The handler's result through into_response(): a value, perhaps with a header of its
\* own, an Error, or one of the above.
Call ==
    /\ pc = "call" /\ x.handler.kind = "fn"
    /\ \/ Answer(Ok(200))
       \/ Answer(SetHeader(Ok(200), "x-frame-options", "own"))
       \/ Answer(Render(Err(500, "inner"), app.dev))
       \/ \E attr \in {<<>>, <<409>>} : Answer(AppError(attr, app.dev))
       \/ Answer(JsonFails)

\* A panic ends the task that serves the connection: no answer.
Panic ==
    /\ pc = "call" /\ x.handler.kind = "fn"
    /\ x' = Fresh /\ pc' = "idle"
    /\ UNCHANGED <<app, env, entry>>

\* The 405 handler of handle_app_request().
CallNotAllowed ==
    /\ pc = "call" /\ x.handler.kind = "not_allowed"
    /\ Answer(SetHeader(Render(Err(405, "none"), app.dev), "allow", x.handler.allow))

\* WsHandlerImpl::call() and ChannelWsHandler::call(): the handle is taken and the socket
\* task spawned before the 101 is answered.
CallSocket ==
    /\ pc = "call" /\ x.handler.kind \in {"ws", "channel"}
    /\ CASE x.handler.kind = "channel" /\ "ChannelRouter" \notin DOMAIN app.state -> Answer(Ok(500))
         [] "WsUpgradeHandle" \notin DOMAIN x.per
               /\ (x.handler.kind = "channel" => "ChannelRouter" \in DOMAIN app.state) -> Answer(Ok(426))
         [] OTHER -> /\ x' = [x EXCEPT !.res = Ok(101), !.ran = TRUE, !.socket = TRUE]
                     /\ pc' = "leave" /\ UNCHANGED <<app, env, entry>>

\* Mutant of Verdict: a check that panicked leaves no result.
VerdictOfJoined(outcome) ==
    LET joined == {c \in DOMAIN outcome : outcome[c] # "panicked"}
        pass == {c \in joined : outcome[c] = "passed"}
    IN  IF pass = joined THEN "healthy" ELSE IF pass # {} THEN "degraded" ELSE "unhealthy"

\* run_one(), run_checks() and the status health_handler() derives: an error, a timeout
\* and a panic are failures.
Verdict(outcome) ==
    LET pass == {c \in DOMAIN outcome : outcome[c] = "passed"}
    IN  IF pass = DOMAIN outcome THEN "healthy" ELSE IF pass # {} THEN "degraded" ELSE "unhealthy"

\* health_handler(): only a status unless detailed; the text of a failed check only in
\* development.
CallHealth ==
    /\ pc = "call" /\ x.handler.kind = "health"
    /\ \E outcome \in [app.checks -> {"passed", "failed", "timed_out", "panicked"}] :
          LET verdict == Verdict(outcome)
              res == Ok(IF verdict = "unhealthy" THEN 503 ELSE 200)
              shown == IF app.dev /\ verdict # "healthy" THEN WithDetail(res, "inner") ELSE res
          IN  x' = [x EXCEPT !.res = IF app.health.detailed THEN SetHeader(shown, "status", verdict) ELSE res,
                             !.ran = TRUE, !.health = outcome]
    /\ pc' = "leave"
    /\ UNCHANGED <<app, env, entry>>

\* A middleware's future resumes with the result of next.run().
Leave ==
    /\ pc = "leave" /\ x.idx > 0
    /\ LET res == After(x.chain[x.idx], x.req, x.res)
       IN  x' = [x EXCEPT !.res = res, !.idx = @ - 1, !.failed = @ \/ ~res.ok]
    /\ UNCHANGED <<pc, app, env, entry>>

\* handle_app_request() renders an Err that came all the way out.
Finish ==
    /\ pc = "leave" /\ x.idx = 0
    /\ x' = [x EXCEPT !.res = IF x.res.ok THEN x.res ELSE Render(x.res, app.dev)]
    /\ pc' = "done"
    /\ UNCHANGED <<app, env, entry>>

Next ==
    \/ Start
    \/ \E req \in Requests : Receive(req) \/ Send(req)
    \/ Route \/ Enter \/ Inside \/ Extract \/ Call \/ Panic
    \/ CallNotAllowed \/ CallSocket \/ CallHealth
    \/ Leave \/ Finish

Spec == Init /\ [][Next]_vars
--------------------------------------------------------------------------------
Rank(route) == 2 * Statics(route.segments) + (IF HasWildcard(route.segments) THEN 0 ELSE 1)
Fits(i, path) == Matches(app.router.routes[i].segments, SplitPath(path))

\* Routing: the route taken has the highest rank among those of the method and the path,
\* and is the first registered of them; a 405 says exactly which methods the path has and
\* is given only when the method is none of them; a 404 only when no route has the path.
RouteChosen ==
    LET R == app.router.routes
        path == x.req.path
        Candidates == {i \in DOMAIN R : R[i].method = x.req.method /\ Fits(i, path)}
    IN  /\ TypeOK
        /\ Found(x.route) =>
              \E i \in Candidates :
                  /\ R[i] = x.route
                  /\ \A j \in Candidates \ {i} :
                        Rank(R[j]) < Rank(R[i]) \/ (Rank(R[j]) = Rank(R[i]) /\ i < j)
        /\ x.handler.kind = "not_allowed" =>
              /\ Candidates = {}
              /\ x.handler.allow = {R[i].method : i \in {j \in DOMAIN R : Fits(j, path)}}
        /\ (pc = "done" /\ x.res.status = 404) => \A i \in DOMAIN R : ~Fits(i, path)

\* Groups: a handler runs only for a request whose own credentials satisfy every guard and
\* requirement declared on the groups around it, however the groups are nested, whoever
\* the connection served before.
GuardedHandler ==
    (x.ran /\ x.handler.kind = "fn") =>
        \A need \in x.handler.needs :
            /\ Authenticates(need.provider, x.req)
            /\ need.role # Absent => need.role \in Authenticated(need.provider, x.req).roles

\* Answers that no middleware turned into an error have the headers of every middleware
\* the request went through, and the handler's own value where it set one.
HeadersKept ==
    (pc = "done" /\ ~x.failed) =>
        \A i \in 1 .. x.depth :
            LET mw == x.chain[i]
            IN  /\ (mw.kind = "cors" /\ Applies(mw, x.req)) => Has(x.res, "allow-origin")
                /\ mw.kind = "secure" => mw.names \subseteq DOMAIN x.res.headers
                /\ mw.kind = "request_id" => Has(x.res, "request-id")
                /\ x.own => x.res.headers["x-frame-options"] = "own"

\* The detail and the sources of an Error reach a client only if the environment was set,
\* and set to something other than production and staging.
ErrorsSanitised ==
    (pc = "done" /\ x.res.detail = "inner") =>
        LET set == IF env.ladoo # Absent THEN env.ladoo ELSE env.app
        IN  set \notin {Absent, "production", "staging"}

\* What a handler runs with: at most one argument made from the body, none that failed
\* validation, and a page within the limits whose offset is exact or saturated.
ArgumentsSound ==
    (x.ran /\ x.handler.kind = "fn") =>
        LET args == x.handler.args
        IN  /\ Cardinality({i \in DOMAIN args : args[i].kind \in {"json", "valid"}}) <= 1
            /\ \A i \in DOMAIN args : args[i].kind = "valid" => x.values[i] = "valid"
            /\ \A i \in DOMAIN args : args[i].kind \in {"paginate", "cursor"} =>
                  LET p == x.values[i]
                  IN  /\ p.limit \in 1 .. Paging(app).max /\ p.page >= 1 /\ p.offset <= U64Max
                      /\ args[i].kind = "paginate" =>
                            p.offset = (p.page - 1) * p.limit \/ p.offset = U64Max

\* An app that serves has a usable value for each field of its configuration, taken from
\* the variable if it is set, else from the file of the environment, else from the
\* defaults; it never serves past a value that does not parse.
StartupSound ==
    pc \notin {"start", "panicked"} =>
        \A i \in DOMAIN app.config :
            LET f == app.config[i]
                v == app.state["Config"][i]
            IN  /\ v.value = Absent => f.option
                /\ v.value # Absent => ConfigParses(v.value, f.type)
                /\ f.env \in DOMAIN env.vars => v.value = env.vars[f.env]
                /\ v.from = "default" => f.name \notin DOMAIN env.files["default"]

\* The health route fails exactly when no check passed, and says healthy exactly when all
\* did: one that panicked or timed out counts, and no middleware hides it.
HealthTruthful ==
    (pc = "done" /\ DOMAIN x.health # {} /\ ~x.failed) =>
        LET passed == {c \in DOMAIN x.health : x.health[c] = "passed"}
        IN  /\ x.res.status = 503 <=> passed = {}
            /\ Has(x.res, "status") => (x.res.headers["status"] = "healthy" <=> passed = DOMAIN x.health)
================================================================================
