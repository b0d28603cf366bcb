-------------------------------- MODULE HttpApp --------------------------------
(***************************************************************************)
(* The App builder of the ladoo crate and what happens when an app starts: *)
(* the environment is detected, the derived configuration is loaded, the   *)
(* health route and the built-in middleware are added.                     *)
(***************************************************************************)
EXTENDS Routing, HttpExtract

\* HealthConfig::new(), path() and detailed(); its latency and metadata only fill the body.
NewHealth == [path |-> <<Static("health")>>, detailed |-> TRUE]
HealthAt(config, path) == [config EXCEPT !.path = path]
Detailed(config, detailed) == [config EXCEPT !.detailed = detailed]

\* App::new().
NewApp == [router |-> NewRouter, state |-> <<>>, global |-> <<>>, plugins |-> {}, checks |-> {}, health |-> NewHealth,
           logging |-> TRUE, config |-> <<>>, dev |-> FALSE]

\* The builder methods of App; get() and its kin are Add on the app's router.
AppUse(app, mw) == [app EXCEPT !.global = Append(@, mw)]
AppProvide(app, type, value) == [app EXCEPT !.state = Provide(@, type, value)]
AppAdd(app, method, pattern, handler) == [app EXCEPT !.router = Add(@, method, pattern, handler)]
AppGroup(app, prefix, router) == [app EXCEPT !.router = MergeFrom(@, prefix, router)]
AppHealth(app, checks) == [app EXCEPT !.checks = @ \cup checks]
AppProvideHealthy(app, type, value, check) == AppHealth(AppProvide(app, type, value), {check})
AppHealthConfig(app, config) == [app EXCEPT !.health = config]
AppPagination(app, config) == AppProvide(app, "PaginationConfig", config)
AppMount(app, prefix, router) == [app EXCEPT !.router = MergeFrom(@, prefix, router)]
AppConfig(app, fields) == [app EXCEPT !.config = fields]
DisableRequestLogging(app) == [app EXCEPT !.logging = FALSE]

\* channel(): the state the socket handler needs, and GET /ws.
AppChannel(app) ==
    AppAdd(AppProvide(app, "ChannelRouter", "channels"), "GET", <<Static("ws")>>, [kind |-> "channel"])

\* plugin(): registered once per name; `registered` is what the plugin's register() makes of app.
AppPlugin(app, name, registered) ==
    IF name \in app.plugins THEN app ELSE [registered EXCEPT !.plugins = @ \cup {name}]

\* ----------------------------------------------------------- environment

\* Environment::detect(): any other text, a misspelt one too, is development.
Detect(env) ==
    LET v == IF env.ladoo # Absent THEN env.ladoo ELSE env.app
    IN  CASE v = Absent -> "production"
          [] v \in {"production", "staging"} -> v
          [] OTHER -> "development"

\* --------------------------------------------------------- configuration

\* A file is absent, broken, or a table of its fields; a value is the type its text
\* parses as, or "table" for what toml_value_to_string() refuses.
Broken(file) == "broken" \in DOMAIN file

\* load_toml_from(): config/default.toml, over it the file of the environment.
TomlLoads(env) == ~Broken(env.files["default"]) /\ ~Broken(env.files[Detect(env)])
Toml(env) ==
    LET base == env.files["default"]
        over == env.files[Detect(env)]
    IN  [f \in DOMAIN base \cup DOMAIN over |-> IF f \in DOMAIN over THEN over[f] ELSE base[f]]

\* A field's value and where it is from, or the error that load() returns.
Loaded(from, v) == [ok |-> TRUE, from |-> from, value |-> v]
LoadError == [ok |-> FALSE, from |-> "error", value |-> Absent]
ConfigParses(v, type) == v # "table" /\ (type = "string" \/ v = type)

\* parse_toml_value() and the branch the derive generates around it.
LoadToml(field, toml) ==
    CASE field.name \in DOMAIN toml ->
            IF ConfigParses(toml[field.name], field.type) THEN Loaded("toml", toml[field.name]) ELSE LoadError
      [] field.name \notin DOMAIN toml /\ field.option -> Loaded("none", Absent)
      [] field.name \notin DOMAIN toml /\ ~field.option ->
            IF field.default # Absent THEN Loaded("default", field.default) ELSE LoadError

\* Mutant of LoadField: a variable that does not parse is passed over.
LoadFieldLenient(field, env) ==
    IF field.env \in DOMAIN env.vars /\ ConfigParses(env.vars[field.env], field.type)
    THEN Loaded("env", env.vars[field.env])
    ELSE LoadToml(field, Toml(env))

\* The loader the derive generates for one field: the variable first; one that is set
\* and does not parse is an error.
LoadField(field, env) ==
    IF field.env \in DOMAIN env.vars
    THEN IF ConfigParses(env.vars[field.env], field.type) THEN Loaded("env", env.vars[field.env]) ELSE LoadError
    ELSE LoadToml(field, Toml(env))

\* Config::load(), behind App::config(), which panics on an error.
Loads(app, env) ==
    app.config # <<>> => TomlLoads(env) /\ \A i \in DOMAIN app.config : LoadField(app.config[i], env).ok
Config(app, env) == [i \in DOMAIN app.config |-> LoadField(app.config[i], env)]

\* --------------------------------------------------------------- starting

\* into_parts(): the health route comes after the routes of the application.
WithHealthRoute(app) ==
    IF app.checks = {} THEN app
    ELSE AppAdd(app, "GET", app.health.path, [kind |-> "health"])

\* inject_builtin_middleware(): outside all other middleware.
WithBuiltins(app) ==
    IF app.logging THEN [app EXCEPT !.global = <<[kind |-> "request_id"], [kind |-> "logger"]>> \o @] ELSE app

\* run() and serve_listener(); into_client() leaves the built-in middleware out.
Started(app, env, entry) ==
    LET up == [WithHealthRoute(app) EXCEPT !.dev = Detect(env) = "development"]
        ready == IF app.config = <<>> THEN up ELSE AppProvide(up, "Config", Config(app, env))
    IN  IF entry = "server" THEN WithBuiltins(ready) ELSE ready

\* -------------------------------------------- what the builders guarantee

IsSeq(s) == s \in Seq(ToSet(s))

\* A middleware that sets the value of a type in the per-request state.
Provides(mw, type) ==
    \/ mw.kind = "guard" /\ mw.provider.type = type
    \/ mw.kind = "request_id" /\ type = "RequestId"

\* A middleware only users with the role of a need pass.
Demands(mw, need, state) ==
    \/ mw.kind = "role" /\ mw.type = need.provider.type /\ mw.role = need.role
    \/ /\ mw.kind = "permission" /\ mw.type = need.provider.type /\ "Rbac" \in DOMAIN state
       /\ \A role \in DOMAIN state["Rbac"] :
             HasPermission(state["Rbac"], role, mw.permission) => role = need.role

\* What declaring a need on the groups around a handler comes to: in the chain there is the
\* guard, and behind it the requirement of the role, which sees the user of that guard.
Enforced(need, chain, state) ==
    \E i \in DOMAIN chain :
        /\ chain[i].kind = "guard" /\ chain[i].provider = need.provider
        /\ need.role # Absent =>
              \E j \in i + 1 .. Len(chain) :
                  /\ Demands(chain[j], need, state)
                  /\ \A k \in i + 1 .. j - 1 : ~Provides(chain[k], need.provider.type)

ArgumentKinds == {"json", "valid", "query", "state", "auth", "opt_auth", "path", "paginate", "cursor"}

\* SecureHeaders has builders for its own headers only.
IsMiddleware(mw) == mw.kind = "secure" => mw.names \subseteq SecurityHeaders
AreMiddleware(s) == IsSeq(s) /\ \A i \in DOMAIN s : IsMiddleware(s[i])

IsHandler(handler) ==
    /\ handler.kind \in {"fn", "ws", "channel", "health"}
    /\ handler.kind = "fn" =>
          IsSeq(handler.args) /\ \A i \in DOMAIN handler.args : handler.args[i].kind \in ArgumentKinds

IsRoute(route) ==
    /\ Found(route) /\ IsSeq(route.segments) /\ IsHandler(route.handler) /\ AreMiddleware(route.middleware)

\* The literal of a #[config(default = ...)] has the type of its field.
IsField(field) == field.default # Absent => ConfigParses(field.default, field.type)

\* An App: its types, and the needs of its handlers declared.
WellBuilt(app) ==
    /\ DOMAIN app = DOMAIN NewApp /\ DOMAIN app.router = DOMAIN NewRouter
    /\ IsSeq(app.router.routes) /\ \A i \in DOMAIN app.router.routes : IsRoute(app.router.routes[i])
    /\ AreMiddleware(app.global)
    /\ IsSeq(app.health.path)
    /\ IsSeq(app.config) /\ \A i \in DOMAIN app.config : IsField(app.config[i])
    /\ "PaginationConfig" \in DOMAIN app.state =>
          app.state["PaginationConfig"].max \in Nat /\ app.state["PaginationConfig"].default \in Nat
    /\ \A i \in DOMAIN app.router.routes :
          LET route == app.router.routes[i]
          IN  route.handler.kind = "fn" =>
                 \A need \in route.handler.needs : Enforced(need, app.global \o route.middleware, app.state)

\* What is in a variable or a file is a value.
IsEnvironment(env) ==
    /\ \A v \in DOMAIN env.vars : env.vars[v] # Absent
    /\ \A name \in {"default", Detect(env)} :
          \A f \in DOMAIN env.files[name] : env.files[name][f] # Absent
================================================================================
