----------------------------- MODULE MCHttpPipeline -----------------------------
(* Three small applications, the environments they start in and what is asked of them. *)
EXTENDS HttpPipeline

Users == WithIssuer(Jwt("User"), "us")
Keys == ApiKeys("User", [k \in {"k1", "k2"} |-> [roles |-> IF k = "k1" THEN {"editor"} ELSE {}]])
Handle(args, needs) == [kind |-> "fn", args |-> args, needs |-> needs]
Need(provider, role) == [provider |-> provider, role |-> role]
Arg(kind) == [kind |-> kind]
PathArg(shape) == [kind |-> "path", shape |-> shape]
Json1 == <<Arg("json")>>

\* A guarded group inside a group with a role; patterns that overlap.
Inner(role) == UseMw(Add(NewRouter, "GET", <<Static("a")>>, Handle(<<>>, {Need(Users, role)})), Guard(Users))
Outer == UseMw(MergeFrom(Add(NewRouter, "GET", <<Param("id")>>, Handle(<<>>, {})), <<>>, Inner(Absent)),
               SecureHeaders({"x-frame-options"}))
Admin == UseMw(MergeFrom(NewRouter, <<>>, Inner("admin")), RequireRole("User", "admin"))
Grouped ==
    LET a1 == AppUse(NewApp, AllowCredentials(AllowOrigin(NewCors, "o1")))
        a2 == AppGroup(a1, <<Static("in")>>, Outer)
        a3 == AppGroup(a2, <<Static("adm")>>, Admin)
        a4 == AppAdd(a3, "POST", <<Wildcard("rest")>>, Handle(<<PathArg([kind |-> "scalar", type |-> "string"])>>, {}))
    IN  AppAdd(AppAdd(a4, "GET", <<Param("x"), Static("a")>>, Handle(<<>>, {})),
               "GET", <<Param("y"), Static("a")>>, Handle(<<Arg("query")>>, {}))

\* A guard on the whole app and permissions on a group; arguments, health, configuration.
Fields == << [name |-> "port", type |-> "int", env |-> "PORT", option |-> FALSE, default |-> "int"],
             [name |-> "key", type |-> "string", env |-> "none", option |-> FALSE, default |-> Absent],
             [name |-> "tag", type |-> "string", env |-> "TAG", option |-> TRUE, default |-> Absent] >>
Editors == UseMw(Add(Add(NewRouter, "POST", <<Static("a")>>,
                         Handle(<<[kind |-> "auth", type |-> "User"], Arg("valid"), [kind |-> "state", type |-> "Rbac"]>>,
                                {Need(Keys, "editor")})),
                     "POST", <<Static("b")>>, Handle(Json1 \o Json1, {Need(Keys, "editor")})),
                 RequirePermission("User", <<"posts", "write">>))
Twice(base) ==
    LET once == AppPlugin(base, "metrics", AppChannel(base))
    IN  AppPlugin(once, "metrics", AppChannel(once))
Guarded ==
    LET a1 == AppUse(AppConfig(NewApp, Fields), Guard(Keys))
        a2 == AppProvide(a1, "Rbac", [r \in {"editor"} |-> {<<"posts", "*">>}])
        a3 == AppPagination(a2, MaxPerPage([default |-> 3, max |-> 9], 0))
        a4 == AppMount(a3, <<Static("in")>>, Editors)
        a5 == AppAdd(a4, "GET", <<Static("in")>>, Handle(<<Arg("paginate"), [kind |-> "opt_auth", type |-> "User"]>>,
                                                        {Need(Keys, Absent)}))
    IN  Twice(AppProvideHealthy(AppHealth(a5, {"disk"}), "Db", "pool", "db"))

\* Nested cross-origin policies, middleware that fails and recovers, sockets, no state.
Custom(does) == [kind |-> "custom", does |-> does]
Inside3 == UseMw(UseMw(Add(NewRouter, "GET", <<Param("id"), Param("id")>>,
                          Handle(<<PathArg([kind |-> "struct", fields |-> [f \in {"id"} |-> "int"]])>>, {})),
                      ExposeHeaders(Permissive)), Custom("fails"))
Mixed ==
    LET a1 == AppUse(AppUse(AppUse(DisableRequestLogging(NewApp), Permissive), SecureHeaders({"x-frame-options"})),
                     Custom("recovers"))
        a2 == AppGroup(a1, <<Static("in")>>, Inside3)
        a3 == AppAdd(a2, "GET", <<Static("ws")>>, [kind |-> "ws"])
        a4 == AppAdd(a3, "GET", <<Static("in"), Param("n")>>,
                     Handle(<<PathArg([kind |-> "tuple", types |-> <<"int">>]), Arg("paginate"), Arg("cursor"),
                              [kind |-> "state", type |-> "Rbac"]>>, {}))
        a5 == AppGroup(a4, <<Static("no")>>, UseMw(Add(NewRouter, "GET", <<>>, Handle(<<>>, {})), Custom("refuses")))
        a6 == AppAdd(a5, "GET", <<Static("raw")>>, [kind |-> "channel"])
        a7 == AppAdd(a6, "POST", <<Static("a")>>, Handle(<<Arg("cursor"), Arg("paginate"), PathArg([kind |-> "unit"])>>, {}))
        a8 == AppHealthConfig(AppHealth(a7, {"disk", "db"}), Detailed(HealthAt(NewHealth, <<Static("healthz")>>), FALSE))
    IN  AppGroup(a8, <<Static("own")>>,
                 UseMw(UseMw(Add(NewRouter, "GET", <<>>, Handle(<<[kind |-> "auth", type |-> "User"]>>, {})),
                             RequirePermission("User", <<"posts">>)),
                       Guard(AllowNoExpiry(Jwt("User")))))

ASSUME \A r \in UNION {ToSet(a.router.routes) : a \in {Grouped, Guarded, Mixed}} : Parses(r.segments)
ASSUME CanAllowCredentials(AllowOrigin(NewCors, "o1"))

MCApps == {Grouped, Guarded, Mixed}

\* The environment's files: sound, of the wrong type, without the required key, broken.
NoFile == <<>>
File(port, key) == [f \in {"port", "key"} |-> IF f = "port" THEN port ELSE key]
Files(default, dev) == [f \in {"default", "development", "staging", "production"} |->
                           IF f = "default" THEN default ELSE IF f = "development" THEN dev ELSE NoFile]
Env(l, a, vs, fs) == [ladoo |-> l, app |-> a, vars |-> vs, files |-> fs]
MCEnvironments ==
    { Env(Absent, Absent, <<>>, Files(File("int", "string"), NoFile)),
      Env("prod", "production", [v \in {"PORT"} |-> "int"], Files(NoFile, File("int", "int"))),
      Env(Absent, "staging", [v \in {"PORT", "TAG"} |-> "string"], Files(File("int", "string"), NoFile)),
      Env("development", Absent, <<>>, Files(File("int", "string"), File("table", "int"))),
      Env("production", Absent, [v \in {"TAG"} |-> "string"], Files([f \in {"port"} |-> "int"], NoFile)),
      Env(Absent, "dev", <<>>, Files(File("int", "string"), [f \in {"broken"} |-> "yes"])) }

Token(good, exp, roles) ==
    [bearer |-> TRUE, good |-> good, claims |-> [c \in {"exp", "iss"} |-> IF c = "exp" THEN exp ELSE "us"],
     user |-> [roles |-> roles]]
NoToken == [bearer |-> FALSE]
Q(parses, page, per, both) == [parses |-> parses, page |-> page, per_page |-> per, after |-> both, before |-> both]
Ask(m, path) ==
    [method |-> m, path |-> path, origin |-> Absent, preflight |-> FALSE, id |-> "fresh", connection |-> FALSE, upgrade |-> FALSE,
     handle |-> FALSE, body |-> "valid", json |-> TRUE, query |-> Q(TRUE, -1, -1, FALSE),
     token |-> NoToken, key |-> "none"]

Paths == { <<"", "in", "a">>, <<"in", "a", "">>, <<"adm", "a">>, <<"in">>, <<"in", "7">>, <<"in", "b">>, <<"in", "7", "8">>,
           <<"ws">>, <<"health">>, <<"healthz">>, <<"no">>, <<"raw">>, <<"a">>, <<"own">>, <<"z", "a">>, <<>> }
MCRequests ==
    {Ask(m, p) : m \in {"GET", "POST"}, p \in Paths}
    \cup {[Ask("GET", p) EXCEPT !.origin = "o1", !.id = "i1"] : p \in Paths}
    \cup {[Ask("GET", <<"adm", "a">>) EXCEPT !.token = t] :
             t \in {Token(TRUE, "future", {"admin"}), Token(TRUE, "past", {"admin"}), Token(FALSE, "future", {"admin"})}}
    \cup {[Ask("GET", p) EXCEPT !.token = Token(TRUE, e, r)] :
             p \in {<<"in", "a">>, <<"adm", "a">>, <<"own">>}, e \in {"past", "future"}, r \in {{"admin"}, {}}}
    \cup {[Ask("OPTIONS", p) EXCEPT !.origin = o, !.preflight = f] :
             p \in {<<"in", "a">>, <<"in", "7", "8">>, <<>>}, o \in {"o1", "o2"}, f \in BOOLEAN}
    \cup {[Ask(m, p) EXCEPT !.key = k, !.body = b, !.json = j] :
             m \in {"POST"}, p \in {<<"in", "a">>, <<"in", "b">>, <<"a">>}, k \in {"k1", "k2"},
             b \in {"valid", "invalid", "malformed", "huge", "cut"}, j \in BOOLEAN}
    \cup {[Ask(m, p) EXCEPT !.key = "k1", !.query = q] :
             m \in {"GET", "POST"}, p \in {<<"in">>, <<"in", "7">>, <<"health">>, <<"a">>, <<"ws">>, <<"z", "a">>},
             q \in {Q(FALSE, -1, -1, FALSE), Q(TRUE, 0, 0, FALSE), Q(TRUE, 7, 4, FALSE), Q(TRUE, 2, 9, FALSE), Q(TRUE, 1, 2, TRUE)}}
    \cup {[Ask("GET", p) EXCEPT !.key = "k1", !.upgrade = TRUE, !.connection = c, !.handle = h] :
             p \in {<<"ws">>, <<"raw">>}, c \in BOOLEAN, h \in BOOLEAN}
================================================================================
