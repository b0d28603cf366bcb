-------------------------- MODULE HttpPipelineProofs ---------------------------
(***************************************************************************)
(* Proofs about HttpPipeline, for every application that is well built,    *)
(* every environment and every request: routing, the guards around the     *)
(* handlers, the headers, the errors, the arguments, the start and the     *)
(* health route.                                                           *)
(***************************************************************************)
EXTENDS HttpPipeline, WellFoundedInduction, FiniteSetTheorems, TLAPS

\* --------------------------------------------------------------- sequences

\* A sequence over some set is one over its own elements.
LEMMA SeqSelf ==
  ASSUME NEW S, NEW u \in Seq(S)
  PROVE  IsSeq(u)
<1>1. \A i \in DOMAIN u : u[i] \in ToSet(u) BY DEF ToSet
<1>2. u \in Seq(ToSet(u)) BY <1>1
<1>3. QED BY <1>2 DEF IsSeq

\* Concatenation keeps sequences and the places of their elements.
LEMMA SeqConcat ==
  ASSUME NEW s, NEW t, IsSeq(s), IsSeq(t)
  PROVE  /\ IsSeq(s \o t) /\ Len(s \o t) = Len(s) + Len(t) /\ Len(s) \in Nat /\ Len(t) \in Nat
         /\ DOMAIN s = 1 .. Len(s) /\ DOMAIN t = 1 .. Len(t) /\ DOMAIN (s \o t) = 1 .. Len(s) + Len(t)
         /\ \A i \in DOMAIN s : (s \o t)[i] = s[i]
         /\ \A i \in DOMAIN t : (s \o t)[Len(s) + i] = t[i]
<1> DEFINE S == ToSet(s) \cup ToSet(t)
<1>1. s \in Seq(S) /\ t \in Seq(S)
  <2>1. s \in Seq(ToSet(s)) /\ t \in Seq(ToSet(t)) BY DEF IsSeq
  <2>2. QED BY <2>1
<1> HIDE DEF S
<1>2. /\ s \o t \in Seq(S) /\ Len(s \o t) = Len(s) + Len(t) /\ Len(s) \in Nat /\ Len(t) \in Nat
      /\ DOMAIN s = 1 .. Len(s) /\ DOMAIN t = 1 .. Len(t) /\ DOMAIN (s \o t) = 1 .. Len(s) + Len(t)
      BY <1>1
<1>3. \A i \in DOMAIN s : (s \o t)[i] = s[i]
      BY <1>1
<1>4. \A i \in DOMAIN t : (s \o t)[Len(s) + i] = t[i]
      BY <1>1
<1>5. IsSeq(s \o t)
      BY <1>2, SeqSelf
<1>6. QED BY <1>2, <1>3, <1>4, <1>5

\* Append keeps sequences and the places of their elements.
LEMMA SeqAppend ==
  ASSUME NEW s, NEW e, IsSeq(s)
  PROVE  /\ IsSeq(Append(s, e)) /\ Len(Append(s, e)) = Len(s) + 1 /\ Len(s) \in Nat
         /\ DOMAIN s = 1 .. Len(s) /\ DOMAIN Append(s, e) = 1 .. Len(s) + 1
         /\ \A i \in DOMAIN s : Append(s, e)[i] = s[i]
         /\ Append(s, e)[Len(s) + 1] = e
<1> DEFINE S == ToSet(s) \cup {e}
<1>1. s \in Seq(S) /\ e \in S
  <2>1. s \in Seq(ToSet(s)) BY DEF IsSeq
  <2>2. QED BY <2>1
<1> HIDE DEF S
<1>2. /\ Append(s, e) \in Seq(S) /\ Len(Append(s, e)) = Len(s) + 1 /\ Len(s) \in Nat
      /\ DOMAIN s = 1 .. Len(s) /\ DOMAIN Append(s, e) = 1 .. Len(s) + 1
      /\ \A i \in DOMAIN s : Append(s, e)[i] = s[i]
      /\ Append(s, e)[Len(s) + 1] = e
      BY <1>1
<1>3. IsSeq(Append(s, e))
      BY <1>2, SeqSelf
<1>4. QED BY <1>2, <1>3

\* Concatenation is associative.
LEMMA ConcatOutside ==
  ASSUME NEW s, NEW t, NEW u, NEW st, NEW tu,
         IsSeq(s), IsSeq(t), IsSeq(u), st = s \o t, tu = t \o u
  PROVE  s \o tu = st \o u
<1> DEFINE S == ToSet(s) \cup ToSet(t) \cup ToSet(u)
<1>1. s \in Seq(S) /\ t \in Seq(S) /\ u \in Seq(S)
  <2>1. s \in Seq(ToSet(s)) /\ t \in Seq(ToSet(t)) /\ u \in Seq(ToSet(u)) BY DEF IsSeq
  <2>2. QED BY <2>1
<1> HIDE DEF S
<1>2. QED BY <1>1

\* The empty sequence, sequences of one and of two elements.
LEMMA SeqShort ==
  /\ IsSeq(<<>>) /\ Len(<<>>) = 0 /\ DOMAIN <<>> = {}
  /\ \A a, b : IsSeq(<<a, b>>) /\ Len(<<a, b>>) = 2 /\ DOMAIN <<a, b>> = 1 .. 2
BY DEF IsSeq, ToSet

\* A sequence has its length and its domain.
LEMMA SeqShape ==
  ASSUME NEW s, IsSeq(s)
  PROVE  Len(s) \in Nat /\ DOMAIN s = 1 .. Len(s)
BY DEF IsSeq

\* ------------------------------------------------ what the builders leave

\* What enforces a need in a chain does so in a longer one: middleware outside of it and
\* inside of it leaves the guard, the requirement and what lies between them in place.
LEMMA EnforcedWithin ==
  ASSUME NEW need, NEW state, NEW pre, NEW chain, NEW post, NEW both, NEW whole,
         IsSeq(pre), IsSeq(chain), IsSeq(post), both = pre \o chain, whole = both \o post,
         Enforced(need, chain, state)
  PROVE  Enforced(need, whole, state)
<1> DEFINE n == Len(pre)
<1>1. /\ IsSeq(whole) /\ n \in Nat /\ Len(chain) \in Nat /\ Len(post) \in Nat
      /\ DOMAIN chain = 1 .. Len(chain)
      /\ Len(whole) = n + Len(chain) + Len(post) /\ DOMAIN whole = 1 .. Len(whole)
      /\ \A i \in DOMAIN chain : whole[n + i] = chain[i]
  <2>1. /\ IsSeq(both) /\ n \in Nat /\ Len(chain) \in Nat /\ DOMAIN chain = 1 .. Len(chain)
        /\ Len(both) = n + Len(chain) /\ DOMAIN both = 1 .. n + Len(chain)
        /\ \A i \in DOMAIN chain : both[n + i] = chain[i]
        BY SeqConcat
  <2>2. /\ IsSeq(whole) /\ Len(post) \in Nat
        /\ Len(whole) = Len(both) + Len(post) /\ DOMAIN whole = 1 .. Len(both) + Len(post)
        /\ \A i \in DOMAIN both : whole[i] = both[i]
        BY <2>1, SeqConcat
  <2>3. ASSUME NEW i \in DOMAIN chain PROVE whole[n + i] = chain[i]
    <3>1. n + i \in DOMAIN both BY <2>1
    <3>2. QED BY <3>1, <2>1, <2>2
  <2>4. QED BY <2>1, <2>2, <2>3
<1> HIDE DEF n
<1>2. PICK i \in DOMAIN chain :
         /\ chain[i].kind = "guard" /\ chain[i].provider = need.provider
         /\ need.role # Absent =>
               \E j \in i + 1 .. Len(chain) :
                   /\ Demands(chain[j], need, state)
                   /\ \A k \in i + 1 .. j - 1 : ~Provides(chain[k], need.provider.type)
      BY DEF Enforced
<1>3. n + i \in DOMAIN whole /\ i \in Nat
      BY <1>1
<1>4. whole[n + i].kind = "guard" /\ whole[n + i].provider = need.provider
      BY <1>1, <1>2
<1>5. ASSUME need.role # Absent
      PROVE  \E j \in n + i + 1 .. Len(whole) :
                 /\ Demands(whole[j], need, state)
                 /\ \A k \in n + i + 1 .. j - 1 : ~Provides(whole[k], need.provider.type)
  <2>1. PICK j \in i + 1 .. Len(chain) :
           /\ Demands(chain[j], need, state)
           /\ \A k \in i + 1 .. j - 1 : ~Provides(chain[k], need.provider.type)
        BY <1>2, <1>5
  <2> PICK to : to = n + j
      OBVIOUS
  <2>2. to \in n + i + 1 .. Len(whole) /\ j \in DOMAIN chain
        BY <2>1, <1>1, <1>3
  <2>3. Demands(whole[to], need, state)
        BY <2>1, <2>2, <1>1
  <2>4. ASSUME NEW k \in n + i + 1 .. to - 1
        PROVE  ~Provides(whole[k], need.provider.type)
    <3>1. n \in Nat /\ i \in Nat /\ Len(chain) \in Nat /\ j \in i + 1 .. Len(chain)
          BY <1>1, <1>3, <2>1
    <3>2. k - n \in i + 1 .. j - 1 /\ k - n \in 1 .. Len(chain) /\ n + (k - n) = k
          BY <3>1
    <3>3. whole[k] = chain[k - n]
          BY <3>2, <1>1
    <3>4. QED BY <3>2, <3>3, <2>1
  <2>5. QED BY <2>2, <2>3, <2>4
<1>6. Enforced(need, whole, state)
  <2> PICK at : at = n + i
      OBVIOUS
  <2>1. /\ at \in DOMAIN whole
        /\ whole[at].kind = "guard" /\ whole[at].provider = need.provider
        /\ need.role # Absent =>
              \E j \in at + 1 .. Len(whole) :
                  /\ Demands(whole[j], need, state)
                  /\ \A k \in at + 1 .. j - 1 : ~Provides(whole[k], need.provider.type)
        BY <1>3, <1>4, <1>5
  <2>2. QED BY <2>1 DEF Enforced
<1>7. QED BY <1>6

\* Only the Rbac of the app's state matters to it.
LEMMA EnforcedState ==
  ASSUME NEW need, NEW chain, NEW state, NEW after, Enforced(need, chain, state),
         "Rbac" \in DOMAIN state => "Rbac" \in DOMAIN after /\ after["Rbac"] = state["Rbac"]
  PROVE  Enforced(need, chain, after)
<1>1. ASSUME NEW mw, Demands(mw, need, state) PROVE Demands(mw, need, after)
      BY <1>1 DEF Demands
<1>2. QED BY <1>1 DEF Enforced

\* The health route, last and with no middleware of its own, needs nothing.
LEMMA HealthRouteWellBuilt ==
  ASSUME NEW a, WellBuilt(a)
  PROVE  /\ WellBuilt(WithHealthRoute(a))
         /\ WithHealthRoute(a).config = a.config /\ WithHealthRoute(a).state = a.state
<1>1. CASE a.checks = {}
      BY <1>1 DEF WithHealthRoute
<1>2. CASE a.checks # {}
  <2> PICK b : b = WithHealthRoute(a)
      OBVIOUS
  <2> DEFINE R == a.router.routes
  <2> PICK new : new = [method |-> "GET", segments |-> a.health.path,
                        handler |-> [kind |-> "health"], middleware |-> <<>>]
      OBVIOUS
  <2>1. DOMAIN a = DOMAIN NewApp /\ DOMAIN a.router = DOMAIN NewRouter /\ IsSeq(R) /\ IsSeq(a.health.path)
        BY DEF WellBuilt
  <2>2. b = [a EXCEPT !.router = [a.router EXCEPT !.routes = Append(R, new)]]
        BY <1>2 DEF WithHealthRoute, AppAdd, Add
  <2>3. /\ DOMAIN b = DOMAIN NewApp /\ DOMAIN b.router = DOMAIN NewRouter
        /\ b.router.routes = Append(R, new)
        /\ b.config = a.config /\ b.state = a.state /\ b.global = a.global /\ b.health = a.health
        BY <2>1, <2>2 DEF NewApp, NewRouter
  <2>4. IsRoute(new) /\ new.handler.kind = "health"
    <3>1. AreMiddleware(<<>>)
          BY SeqShort DEF AreMiddleware
    <3>2. QED BY <3>1, <2>1 DEF IsRoute, Found, IsHandler
  <2> PICK S : S = b.router.routes
      OBVIOUS
  <2>5. /\ IsSeq(S) /\ Len(R) \in Nat /\ DOMAIN R = 1 .. Len(R) /\ DOMAIN S = 1 .. Len(R) + 1
        /\ \A i \in DOMAIN R : S[i] = R[i]
        /\ S[Len(R) + 1] = new
        BY <2>1, <2>3, SeqAppend
  <2>6. \A i \in DOMAIN S : (i \in DOMAIN R /\ S[i] = R[i]) \/ S[i] = new
        BY <2>5
  <2>7. \A i \in DOMAIN S : IsRoute(S[i])
        BY <2>4, <2>6 DEF WellBuilt
  <2>8. ASSUME NEW i \in DOMAIN S, S[i].handler.kind = "fn", NEW need \in S[i].handler.needs
        PROVE  Enforced(need, b.global \o S[i].middleware, b.state)
        BY <2>3, <2>4, <2>6, <2>8 DEF WellBuilt
  <2>9. WellBuilt(b)
        BY <2>3, <2>5, <2>7, <2>8 DEF WellBuilt
  <2> QED BY <2>3, <2>9
<1>3. QED BY <1>1, <1>2

\* The mode does not matter to it.
LEMMA ModeWellBuilt ==
  ASSUME NEW a, NEW mode, WellBuilt(a)
  PROVE  LET b == [a EXCEPT !.dev = mode]
         IN  WellBuilt(b) /\ b.dev = mode /\ b.config = a.config /\ b.state = a.state
<1> PICK b : b = [a EXCEPT !.dev = mode]
    OBVIOUS
<1>1. /\ DOMAIN b = DOMAIN a /\ b.router = a.router /\ b.config = a.config /\ b.state = a.state
      /\ b.global = a.global /\ b.health = a.health /\ b.dev = mode
      BY DEF WellBuilt, NewApp
<1>2. WellBuilt(b)
      BY <1>1 DEF WellBuilt
<1>3. QED BY <1>1, <1>2

\* Nor do values of the state other than the ones the pipeline looks up.
LEMMA ProvidedWellBuilt ==
  ASSUME NEW a, NEW value, WellBuilt(a)
  PROVE  LET b == AppProvide(a, "Config", value)
         IN  WellBuilt(b) /\ b.state["Config"] = value /\ b.config = a.config /\ b.dev = a.dev
<1> PICK b : b = AppProvide(a, "Config", value)
    OBVIOUS
<1>1. /\ DOMAIN b = DOMAIN a /\ b.router = a.router /\ b.config = a.config /\ b.dev = a.dev
      /\ b.global = a.global /\ b.health = a.health
      /\ b.state = Provide(a.state, "Config", value)
      BY DEF WellBuilt, NewApp, AppProvide
<1> PICK state : state = b.state
    OBVIOUS
<1>2. /\ DOMAIN state = DOMAIN a.state \cup {"Config"} /\ state["Config"] = value
      /\ \A t \in DOMAIN a.state : t # "Config" => state[t] = a.state[t]
      BY <1>1 DEF Provide
<1>3. "PaginationConfig" \in DOMAIN state =>
         state["PaginationConfig"].max \in Nat /\ state["PaginationConfig"].default \in Nat
      BY <1>2 DEF WellBuilt
<1>4. "Rbac" \in DOMAIN a.state => "Rbac" \in DOMAIN state /\ state["Rbac"] = a.state["Rbac"]
      BY <1>2
<1>5. ASSUME NEW i \in DOMAIN a.router.routes, a.router.routes[i].handler.kind = "fn",
             NEW need \in a.router.routes[i].handler.needs
      PROVE  Enforced(need, a.global \o a.router.routes[i].middleware, state)
  <2>1. Enforced(need, a.global \o a.router.routes[i].middleware, a.state)
        BY <1>5 DEF WellBuilt
  <2>2. QED BY <2>1, <1>4, EnforcedState
<1>6. WellBuilt(b)
      BY <1>1, <1>3, <1>5 DEF WellBuilt
<1>7. QED BY <1>1, <1>2, <1>6

\* An app that differs from another in its global middleware only.
Around(b, a, g) ==
    /\ DOMAIN b = DOMAIN a /\ b.router = a.router /\ b.config = a.config /\ b.dev = a.dev
    /\ b.state = a.state /\ b.health = a.health /\ b.global = g

\* Middleware around all other keeps it.
LEMMA OuterWellBuilt ==
  ASSUME NEW a, WellBuilt(a), NEW pre, AreMiddleware(pre), NEW b, NEW g, g = pre \o a.global,
         Around(b, a, g)
  PROVE  WellBuilt(b)
<1>1. /\ DOMAIN b = DOMAIN a /\ b.router = a.router /\ b.config = a.config
      /\ b.state = a.state /\ b.health = a.health /\ b.global = g
      BY DEF Around
<1> DEFINE inner == a.global
<1>2. /\ IsSeq(pre) /\ \A i \in DOMAIN pre : IsMiddleware(pre[i])
      /\ IsSeq(inner) /\ \A i \in DOMAIN inner : IsMiddleware(inner[i])
      BY DEF AreMiddleware, WellBuilt
<1>3. g = pre \o inner
      OBVIOUS
<1> HIDE DEF inner
<1>4. /\ IsSeq(g) /\ Len(pre) \in Nat /\ Len(inner) \in Nat
      /\ DOMAIN pre = 1 .. Len(pre) /\ DOMAIN inner = 1 .. Len(inner)
      /\ DOMAIN g = 1 .. Len(pre) + Len(inner)
      /\ \A i \in DOMAIN pre : g[i] = pre[i]
      /\ \A i \in DOMAIN inner : g[Len(pre) + i] = inner[i]
  <2>1. /\ IsSeq(pre \o inner) /\ Len(pre) \in Nat /\ Len(inner) \in Nat
        /\ DOMAIN pre = 1 .. Len(pre) /\ DOMAIN inner = 1 .. Len(inner)
        /\ DOMAIN (pre \o inner) = 1 .. Len(pre) + Len(inner)
        /\ \A i \in DOMAIN pre : (pre \o inner)[i] = pre[i]
        /\ \A i \in DOMAIN inner : (pre \o inner)[Len(pre) + i] = inner[i]
        BY <1>2, SeqConcat
  <2>2. QED BY <2>1, <1>3
<1>5. ASSUME NEW i \in DOMAIN g PROVE IsMiddleware(g[i])
  <2>1. CASE i \in DOMAIN pre
        BY <2>1, <1>2, <1>4
  <2>2. CASE i \notin DOMAIN pre
    <3>1. i - Len(pre) \in DOMAIN inner /\ Len(pre) + (i - Len(pre)) = i
          BY <2>2, <1>4
    <3>2. g[i] = inner[i - Len(pre)]
          BY <3>1, <1>4
    <3>3. QED BY <3>1, <3>2, <1>2
  <2>3. QED BY <2>1, <2>2
<1>6. AreMiddleware(g)
      BY <1>4, <1>5 DEF AreMiddleware
<1>7. ASSUME NEW i \in DOMAIN a.router.routes, a.router.routes[i].handler.kind = "fn",
             NEW need \in a.router.routes[i].handler.needs
      PROVE  Enforced(need, g \o a.router.routes[i].middleware, a.state)
  <2>1. PICK m : m = a.router.routes[i].middleware
        OBVIOUS
  <2>2. PICK chain : chain = inner \o m
        OBVIOUS
  <2>3. PICK both : both = pre \o chain
        OBVIOUS
  <2>4. IsSeq(m) /\ Enforced(need, chain, a.state)
        BY <1>7, <2>1, <2>2 DEF WellBuilt, IsRoute, AreMiddleware, inner
  <2>5. IsSeq(chain) /\ IsSeq(both)
        BY <2>2, <2>3, <2>4, <1>2, SeqConcat
  <2>6. IsSeq(<<>>) /\ both \o <<>> = both
        BY <2>5, SeqShort DEF IsSeq
  <2>7. Enforced(need, both, a.state)
        BY <2>3, <2>4, <2>5, <2>6, <1>2, EnforcedWithin
  <2>8. both = g \o m
        BY <2>2, <2>3, <2>4, <1>2, <1>3, ConcatOutside
  <2>9. QED BY <2>1, <2>7, <2>8
<1>8. WellBuilt(b)
      BY <1>1, <1>6, <1>7 DEF WellBuilt
<1>9. QED BY <1>1, <1>8

\* The built-in middleware lies outside of all other.
LEMMA BuiltinsWellBuilt ==
  ASSUME NEW a, WellBuilt(a)
  PROVE  LET b == WithBuiltins(a)
         IN  WellBuilt(b) /\ b.state = a.state /\ b.config = a.config /\ b.dev = a.dev
<1>1. CASE ~a.logging
      BY <1>1 DEF WithBuiltins
<1>2. CASE a.logging
  <2>1. PICK pre : pre = <<[kind |-> "request_id"], [kind |-> "logger"]>>
        OBVIOUS
  <2>2. IsSeq(pre) /\ DOMAIN pre = 1 .. 2
        BY <2>1, SeqShort
  <2>3. pre[1].kind = "request_id" /\ pre[2].kind = "logger"
        BY <2>1
  <2>4. AreMiddleware(pre)
        BY <2>2, <2>3 DEF AreMiddleware, IsMiddleware
  <2>5. PICK g : g = pre \o a.global
        OBVIOUS
  <2>6. PICK b : b = [a EXCEPT !.global = g]
        OBVIOUS
  <2>7. WithBuiltins(a) = b
        BY <1>2, <2>1, <2>5, <2>6 DEF WithBuiltins
  <2>8. Around(b, a, g)
        BY <2>6 DEF Around, WellBuilt, NewApp
  <2>9. WellBuilt(b)
        BY <2>4, <2>5, <2>8, OuterWellBuilt
  <2>10. QED BY <2>7, <2>8, <2>9 DEF Around
<1>3. QED BY <1>1, <1>2

\* An app that has started is built as well as before, in the mode of its environment and
\* with its configuration loaded.
LEMMA StartedWellBuilt ==
  ASSUME NEW a, NEW e, NEW how, WellBuilt(a)
  PROVE  LET b == Started(a, e, how)
         IN  /\ WellBuilt(b) /\ b.dev = (Detect(e) = "development") /\ b.config = a.config
             /\ a.config # <<>> => b.state["Config"] = Config(a, e)
<1> DEFINE routed == WithHealthRoute(a)
           up == [routed EXCEPT !.dev = Detect(e) = "development"]
           ready == IF a.config = <<>> THEN up ELSE AppProvide(up, "Config", Config(a, e))
<1>1. WellBuilt(routed) /\ routed.config = a.config
      BY HealthRouteWellBuilt
<1> HIDE DEF routed
<1>2. WellBuilt(up) /\ up.config = a.config /\ up.dev = (Detect(e) = "development")
      BY <1>1, ModeWellBuilt
<1>3. Config(up, e) = Config(a, e)
      BY <1>2 DEF Config
<1>4. Started(a, e, how) = IF how = "server" THEN WithBuiltins(ready) ELSE ready
      BY <1>3 DEF Started, routed
<1> HIDE DEF up
<1>5. /\ WellBuilt(ready) /\ ready.dev = (Detect(e) = "development") /\ ready.config = a.config
      /\ a.config # <<>> => ready.state["Config"] = Config(a, e)
      BY <1>2, ProvidedWellBuilt
<1> HIDE DEF ready
<1>6. QED BY <1>4, <1>5, BuiltinsWellBuilt

\* ----------------------------------------------------------- Router::find()

Candidates(routes, method, parts, s) ==
    {i \in s : routes[i].method = method /\ Matches(routes[i].segments, parts)}

Better(routes, i, j) ==
    \/ Rank(routes[j]) < Rank(routes[i])
    \/ Rank(routes[j]) = Rank(routes[i]) /\ i < j

\* What find() is to return among the routes at the positions s.
Chosen(routes, method, parts, s, r) ==
    \/ Candidates(routes, method, parts, s) = {} /\ r = NoRoute
    \/ \E i \in Candidates(routes, method, parts, s) :
          r = routes[i] /\ \A j \in Candidates(routes, method, parts, s) \ {i} : Better(routes, i, j)

\* One turn of its loop.
Turn(method, parts, best, r) ==
    IF r.method = method /\ Matches(r.segments, parts)
          /\ (~Found(best) \/ Above(r.segments, best.segments))
    THEN r ELSE best

\* A sequence of routes as they are registered.
AreRoutes(routes) == IsSeq(routes) /\ \A i \in DOMAIN routes : Found(routes[i]) /\ IsSeq(routes[i].segments)

\* Every non-empty set of naturals has a least element.
LEMMA LeastNatural ==
  ASSUME NEW S \in SUBSET Nat, S # {}
  PROVE  \E m \in S : m = Min(S) /\ \A k \in S : m <= k
<1> DEFINE Less == {p \in Nat \X Nat : p[1] < p[2]}
<1>1. IsWellFoundedOn(Less, Nat)
      BY NatLessThanWellFounded DEF OpToRel
<1> HIDE DEF Less
<1>2. PICK m \in S : \A k \in S : ~(<<k, m>> \in Less)
      BY <1>1, WFMin
<1>3. \A k \in S : m <= k
  <2>1. \A k \in S : k \in Nat /\ m \in Nat /\ ~(k < m)
        BY <1>2 DEF Less
  <2>2. QED BY <2>1
<1>4. Min(S) \in S /\ \A k \in S : Min(S) <= k
      BY <1>3 DEF Min
<1>5. QED BY <1>4

\* The score of a pattern is a number, and Above() compares by it.
LEMMA RankNat ==
  ASSUME NEW p, IsSeq(p.segments)
  PROVE  Statics(p.segments) \in Nat /\ Rank(p) \in Nat
<1>1. p.segments \in Seq(ToSet(p.segments))
      BY DEF IsSeq
<1>2. Len(p.segments) \in Nat /\ DOMAIN p.segments = 1 .. Len(p.segments)
      BY <1>1
<1>3. IsFiniteSet(DOMAIN p.segments)
      BY <1>2, FS_Interval
<1> DEFINE fixed == {i \in DOMAIN p.segments : p.segments[i].kind = "static"}
<1>4. IsFiniteSet(fixed)
      BY <1>3, FS_Subset
<1>5. Cardinality(fixed) \in Nat
      BY <1>4, FS_CardinalityType
<1>6. Statics(p.segments) \in Nat
      BY <1>5 DEF Statics
<1>7. QED BY <1>6 DEF Rank

\* The two scores compare as Above() says.
LEMMA AboveRank ==
  ASSUME NEW p, NEW q, IsSeq(p.segments), IsSeq(q.segments)
  PROVE  Above(p.segments, q.segments) <=> Rank(q) < Rank(p)
<1>1. Statics(p.segments) \in Nat /\ Statics(q.segments) \in Nat
      BY RankNat
<1>2. HasWildcard(p.segments) \in BOOLEAN /\ HasWildcard(q.segments) \in BOOLEAN
      BY DEF HasWildcard
<1>3. QED BY <1>1, <1>2 DEF Above, Rank

\* A turn of the loop on the next route keeps what it has found so far right.
LEMMA TurnChooses ==
  ASSUME NEW routes, AreRoutes(routes), NEW method, NEW parts,
         NEW s \in SUBSET DOMAIN routes, NEW k \in DOMAIN routes, \A j \in s : j < k,
         NEW best, Chosen(routes, method, parts, s, best)
  PROVE  Chosen(routes, method, parts, s \cup {k}, Turn(method, parts, best, routes[k]))
<1> DEFINE C == Candidates(routes, method, parts, s)
           D == Candidates(routes, method, parts, s \cup {k})
<1>1. IsSeq(routes) /\ DOMAIN routes \in SUBSET Nat
  <2>1. routes \in Seq(ToSet(routes))
        BY DEF AreRoutes, IsSeq
  <2>2. QED BY <2>1 DEF AreRoutes
<1>2. \A i \in DOMAIN routes : Found(routes[i]) /\ IsSeq(routes[i].segments) /\ Rank(routes[i]) \in Nat
      BY RankNat DEF AreRoutes
<1>3. C \in SUBSET s /\ k \notin C
      BY <1>1 DEF Candidates
<1>4. CASE ~(routes[k].method = method /\ Matches(routes[k].segments, parts))
  <2>1. D = C
        BY <1>4 DEF Candidates
  <2>2. Turn(method, parts, best, routes[k]) = best
        BY <1>4 DEF Turn
  <2>3. QED BY <2>1, <2>2 DEF Chosen
<1>5. CASE routes[k].method = method /\ Matches(routes[k].segments, parts)
  <2>1. D = C \cup {k}
        BY <1>5 DEF Candidates
  <2> HIDE DEF C, D
  <2>2. CASE C = {} /\ best = NoRoute
    <3>1. Turn(method, parts, best, routes[k]) = routes[k]
          BY <1>5, <2>2 DEF Turn, Found, NoRoute
    <3>2. D = {k}
          BY <2>1, <2>2
    <3>3. QED BY <3>1, <3>2 DEF Chosen, D
  <2>3. ASSUME NEW i \in C, best = routes[i], \A j \in C \ {i} : Better(routes, i, j)
        PROVE  Chosen(routes, method, parts, s \cup {k}, Turn(method, parts, best, routes[k]))
    <3>1. i \in DOMAIN routes /\ i < k /\ Found(best)
          BY <2>3, <1>2, <1>3
    <3>2. Above(routes[k].segments, best.segments) <=> Rank(routes[i]) < Rank(routes[k])
          BY <3>1, <2>3, <1>2, AboveRank
    <3>3. CASE Rank(routes[i]) < Rank(routes[k])
      <4>1. Turn(method, parts, best, routes[k]) = routes[k]
            BY <1>5, <3>2, <3>3 DEF Turn
      <4>2. ASSUME NEW j \in D \ {k} PROVE Better(routes, k, j)
        <5>1. j \in C /\ j \in DOMAIN routes
              BY <2>1, <4>2, <1>3
        <5>2. j = i \/ Better(routes, i, j)
              BY <5>1, <2>3
        <5>3. Rank(routes[j]) <= Rank(routes[i])
              BY <5>1, <5>2, <3>1, <1>2 DEF Better
        <5>4. QED BY <5>1, <5>3, <3>1, <3>3, <1>2 DEF Better
      <4>3. k \in D
            BY <2>1
      <4>4. QED BY <4>1, <4>2, <4>3 DEF Chosen, D
    <3>4. CASE ~(Rank(routes[i]) < Rank(routes[k]))
      <4>1. Turn(method, parts, best, routes[k]) = routes[i]
            BY <2>3, <3>1, <3>2, <3>4 DEF Turn
      <4>2. Better(routes, i, k)
            BY <3>1, <3>4, <1>1, <1>2 DEF Better
      <4>3. i \in D /\ \A j \in D \ {i} : Better(routes, i, j)
            BY <2>1, <2>3, <4>2
      <4>4. QED BY <4>1, <4>3 DEF Chosen, D
    <3>5. QED BY <3>3, <3>4
  <2>4. QED BY <2>2, <2>3 DEF Chosen, C
<1>6. QED BY <1>4, <1>5

\* There is one such route at most.
LEMMA ChosenOnce ==
  ASSUME NEW routes, AreRoutes(routes), NEW method, NEW parts, NEW s \in SUBSET DOMAIN routes,
         NEW p, NEW q, Chosen(routes, method, parts, s, p), Chosen(routes, method, parts, s, q)
  PROVE  p = q
<1> DEFINE C == Candidates(routes, method, parts, s)
<1>1. C \in SUBSET DOMAIN routes
      BY DEF Candidates
<1>2. DOMAIN routes \in SUBSET Nat
  <2>1. routes \in Seq(ToSet(routes))
        BY DEF AreRoutes, IsSeq
  <2>2. QED BY <2>1
<1>3. \A i \in C : i \in Nat /\ Rank(routes[i]) \in Nat
      BY <1>1, <1>2, RankNat DEF AreRoutes
<1> HIDE DEF C
<1>4. CASE C = {}
      BY <1>4 DEF Chosen, C
<1>5. CASE C # {}
  <2>1. PICK i \in C : p = routes[i] /\ \A j \in C \ {i} : Better(routes, i, j)
        BY <1>5 DEF Chosen, C
  <2>2. PICK j \in C : q = routes[j] /\ \A h \in C \ {j} : Better(routes, j, h)
        BY <1>5 DEF Chosen, C
  <2>3. i # j => Better(routes, i, j) /\ Better(routes, j, i)
        BY <2>1, <2>2
  <2>4. i = j
        BY <2>3, <1>3 DEF Better
  <2>5. QED BY <2>1, <2>2, <2>4
<1>6. QED BY <1>4, <1>5

\* And one at least: take the positions one after the other.
LEMMA ChosenExists ==
  ASSUME NEW routes, AreRoutes(routes), NEW method, NEW parts, NEW s \in SUBSET DOMAIN routes
  PROVE  \E r : Chosen(routes, method, parts, s, r)
<1> DEFINE n == Len(routes)
           upto(k) == {i \in s : i <= k}
           Bad == {k \in 0 .. n : \A r : ~Chosen(routes, method, parts, upto(k), r)}
<1>1. n \in Nat /\ DOMAIN routes = 1 .. n
  <2>1. routes \in Seq(ToSet(routes))
        BY DEF AreRoutes, IsSeq
  <2>2. QED BY <2>1
<1>2. upto(0) = {} /\ upto(n) = s
      BY <1>1
<1> HIDE DEF n
<1>3. 0 \notin Bad
  <2>1. Candidates(routes, method, parts, {}) = {}
        BY DEF Candidates
  <2>2. Chosen(routes, method, parts, {}, NoRoute)
        BY <2>1 DEF Chosen
  <2>3. QED BY <2>2, <1>2
<1>4. ASSUME NEW k \in 0 .. n, k \in Bad PROVE FALSE
  <2>1. Bad \in SUBSET Nat /\ k \in Bad
        BY <1>1, <1>4
  <2> HIDE DEF Bad
  <2>2. PICK m \in Bad : \A l \in Bad : m <= l
        BY <2>1, LeastNatural
  <2> USE DEF Bad
  <2>3. m \in 1 .. n /\ m - 1 \in 0 .. n /\ m - 1 \notin Bad
        BY <2>2, <1>3, <1>1
  <2>4. PICK r : Chosen(routes, method, parts, upto(m - 1), r)
        BY <2>3
  <2>5. CASE m \notin s
    <3>1. upto(m) = upto(m - 1)
          BY <2>3, <2>5, <1>1
    <3>2. QED BY <2>2, <2>4, <3>1
  <2>6. CASE m \in s
    <3>1. upto(m) = upto(m - 1) \cup {m}
          BY <2>3, <2>6, <1>1
    <3>2. /\ upto(m - 1) \in SUBSET DOMAIN routes /\ m \in DOMAIN routes
          /\ \A j \in upto(m - 1) : j < m
          BY <2>3, <1>1
    <3>3. Chosen(routes, method, parts, upto(m - 1) \cup {m}, Turn(method, parts, r, routes[m]))
          BY <3>2, <2>4, TurnChooses
    <3>4. QED BY <2>2, <3>1, <3>3
  <2>7. QED BY <2>5, <2>6
<1>5. n \notin Bad
      BY <1>1, <1>4
<1> HIDE DEF upto
<1>6. \E r : Chosen(routes, method, parts, upto(n), r)
  <2>1. n \in 0 .. n
        BY <1>1
  <2>2. QED BY <2>1, <1>5
<1>7. QED BY <1>2, <1>6

\* The greatest of the positions s.
LEMMA GreatestPosition ==
  ASSUME NEW n \in Nat, NEW s \in SUBSET (1 .. n), s # {}
  PROVE  Max(s) \in s /\ \A i \in s : i <= Max(s)
<1> DEFINE D == {n - i : i \in s}
<1>1. D \in SUBSET Nat /\ D # {}
  <2>1. \A i \in s : n - i \in Nat
        OBVIOUS
  <2>2. PICK i : i \in s
        OBVIOUS
  <2>3. n - i \in D
        BY <2>2
  <2>4. QED BY <2>1, <2>3
<1> HIDE DEF D
<1>2. PICK m \in D : \A k \in D : m <= k
      BY <1>1, LeastNatural
<1>3. PICK i \in s : m = n - i
      BY DEF D
<1>4. \A j \in s : i >= j
  <2>1. \A j \in s : m <= n - j
        BY <1>2 DEF D
  <2>2. QED BY <2>1, <1>3
<1>5. Max(s) \in s /\ \A j \in s : Max(s) >= j
      BY <1>4 DEF Max
<1>6. QED BY <1>5

\* The loop of find() over the routes at the positions s.
Loop(routes, method, parts, g) ==
    [s \in SUBSET DOMAIN routes |->
        IF s = {} THEN NoRoute ELSE Turn(method, parts, g[s \ {Max(s)}], routes[Max(s)])]

\* find() is a fold, and a fold the value of a recursive function.
LEMMA FindIsLoop ==
  ASSUME NEW routes, NEW method, NEW path
  PROVE  LET g == CHOOSE g : g = Loop(routes, method, SplitPath(path), g)
         IN  Find(routes, method, path) = g[DOMAIN routes]
BY DEF Find, FoldLeft, MapThenFoldSet, Turn, Loop

\* There is such a function.
LEMMA LoopExists ==
  ASSUME NEW routes, AreRoutes(routes), NEW method, NEW parts
  PROVE  \E g : g = Loop(routes, method, parts, g)
<1>1. Len(routes) \in Nat /\ DOMAIN routes = 1 .. Len(routes)
  <2>1. routes \in Seq(ToSet(routes))
        BY DEF AreRoutes, IsSeq
  <2>2. QED BY <2>1
<1> DEFINE T == SUBSET DOMAIN routes
           g == [s \in T |-> CHOOSE r : Chosen(routes, method, parts, s, r)]
<1>2. ASSUME NEW s \in T PROVE Chosen(routes, method, parts, s, g[s])
  <2>1. \E r : Chosen(routes, method, parts, s, r)
        BY ChosenExists
  <2>2. QED BY <2>1
<1> HIDE DEF g
<1>3. ASSUME NEW s \in T PROVE g[s] = Loop(routes, method, parts, g)[s]
  <2>1. CASE s = {}
    <3>1. Candidates(routes, method, parts, s) = {}
          BY <2>1 DEF Candidates
    <3>2. g[s] = NoRoute
          BY <1>2, <3>1 DEF Chosen
    <3>3. QED BY <2>1, <3>2 DEF Loop
  <2>2. CASE s # {}
    <3>1. PICK k : k = Max(s)
          OBVIOUS
    <3>2. k \in s /\ \A i \in s : i <= k
          BY <1>1, <2>2, <3>1, GreatestPosition
    <3>3. PICK rest : rest = s \ {k}
          OBVIOUS
    <3>4. /\ rest \in T /\ s = rest \cup {k} /\ k \in DOMAIN routes
          /\ \A i \in rest : i < k
          BY <3>2, <3>3, <1>1
    <3>5. Chosen(routes, method, parts, s, Turn(method, parts, g[rest], routes[k]))
          BY <3>4, <1>2, TurnChooses
    <3>6. g[s] = Turn(method, parts, g[rest], routes[k])
          BY <3>5, <1>2, ChosenOnce
    <3>7. QED BY <2>2, <3>1, <3>3, <3>6 DEF Loop
  <2>3. QED BY <2>1, <2>2
<1>4. g = [s \in T |-> g[s]]
      BY DEF g
<1>5. g = Loop(routes, method, parts, g)
      BY <1>3, <1>4 DEF Loop
<1>6. QED BY <1>5

\* find() returns a route exactly when one of the method matches the path, and of those
\* the first with the highest score.
LEMMA FindChosen ==
  ASSUME NEW routes, AreRoutes(routes), NEW method, NEW path
  PROVE  Chosen(routes, method, SplitPath(path), DOMAIN routes, Find(routes, method, path))
<1> DEFINE parts == SplitPath(path)
           n == Len(routes)
           g == CHOOSE g : g = Loop(routes, method, parts, g)
<1>1. n \in Nat /\ DOMAIN routes = 1 .. n
  <2>1. routes \in Seq(ToSet(routes))
        BY DEF AreRoutes, IsSeq
  <2>2. QED BY <2>1
<1>2. g = Loop(routes, method, parts, g)
      BY LoopExists
<1>3. Find(routes, method, path) = g[DOMAIN routes]
      BY FindIsLoop
<1> HIDE DEF parts, n, g
<1> DEFINE Bad == {k \in 0 .. n : ~Chosen(routes, method, parts, 1 .. k, g[1 .. k])}
<1>4. 0 \notin Bad
  <2>1. Candidates(routes, method, parts, {}) = {}
        BY DEF Candidates
  <2>2. g[{}] = NoRoute
        BY <1>2 DEF Loop
  <2>3. Chosen(routes, method, parts, {}, g[{}])
        BY <2>1, <2>2 DEF Chosen
  <2>4. 1 .. 0 = {}
        OBVIOUS
  <2>5. QED BY <2>3, <2>4
<1>5. ASSUME NEW k \in Bad PROVE FALSE
  <2>1. Bad \in SUBSET Nat /\ Bad # {}
        BY <1>1, <1>5
  <2> HIDE DEF Bad
  <2>2. PICK m \in Bad : \A l \in Bad : m <= l
        BY <2>1, LeastNatural
  <2> USE DEF Bad
  <2>3. m \in 1 .. n /\ m - 1 \in 0 .. n /\ m - 1 \notin Bad
        BY <2>2, <1>4, <1>1
  <2>4. PICK rest : rest = 1 .. m - 1
        OBVIOUS
  <2>5. PICK s : s = 1 .. m
        OBVIOUS
  <2>6. Chosen(routes, method, parts, rest, g[rest])
        BY <2>3, <2>4
  <2>7. /\ rest \in SUBSET DOMAIN routes /\ s \in SUBSET (1 .. n) /\ s # {} /\ m \in DOMAIN routes
        /\ rest = s \ {m} /\ s = rest \cup {m} /\ m \in s
        /\ \A i \in rest : i < m
        /\ \A i \in s : i <= m
        BY <2>3, <2>4, <2>5, <1>1
  <2>8. Max(s) = m
    <3>1. PICK top : top = Max(s)
          OBVIOUS
    <3>2. top \in s /\ \A i \in s : i <= top
          BY <3>1, <2>7, <1>1, GreatestPosition
    <3>3. top <= m /\ m <= top
          BY <3>2, <2>7
    <3>4. top \in Nat /\ m \in Nat
          BY <3>2, <2>3, <2>5
    <3>5. QED BY <3>1, <3>3, <3>4
  <2>9. g[s] = Turn(method, parts, g[rest], routes[m])
        BY <1>1, <1>2, <2>7, <2>8 DEF Loop
  <2>10. Chosen(routes, method, parts, s, g[s])
    <3>1. Chosen(routes, method, parts, rest \cup {m}, Turn(method, parts, g[rest], routes[m]))
          BY <2>6, <2>7, TurnChooses
    <3>2. QED BY <3>1, <2>7, <2>9
  <2>11. QED BY <2>2, <2>5, <2>10
<1>6. n \notin Bad
      BY <1>5
<1>7. Chosen(routes, method, parts, 1 .. n, g[1 .. n])
      BY <1>1, <1>6
<1>8. QED BY <1>1, <1>3, <1>7 DEF parts

\* ------------------------------------------------------------- middleware

\* A response, or an error on its way out.
IsResult(res) ==
    /\ DOMAIN res = {"ok", "status", "headers", "detail"}
    /\ res.ok \in BOOLEAN
    /\ res.detail \in {"none", "inner", "raw"}

\* What middleware never takes from a response: its status, and the value of a header of
\* the handler's own or of the health route.
Kept(res, out) ==
    /\ out.status = res.status /\ out.detail = res.detail
    /\ DOMAIN res.headers \subseteq DOMAIN out.headers
    /\ \A n \in {"x-frame-options", "status"} :
          n \in DOMAIN res.headers => out.headers[n] = res.headers[n]
    /\ "status" \in DOMAIN out.headers => "status" \in DOMAIN res.headers

\* What a middleware puts on the responses that pass it.
Marked(mw, req, res) ==
    /\ mw.kind = "cors" /\ Applies(mw, req) => "allow-origin" \in DOMAIN res.headers
    /\ mw.kind = "secure" => mw.names \subseteq DOMAIN res.headers
    /\ mw.kind = "request_id" => "request-id" \in DOMAIN res.headers

\* A response gains headers, some that it may have had, and nothing else changes.
Gains(res, out, least, most) ==
    /\ IsResult(out) /\ out.ok = res.ok /\ out.status = res.status /\ out.detail = res.detail
    /\ DOMAIN res.headers \cup least \subseteq DOMAIN out.headers
    /\ DOMAIN out.headers \subseteq DOMAIN res.headers \cup most
    /\ \A n \in DOMAIN res.headers \ most : out.headers[n] = res.headers[n]

\* A header is set, and nothing else.
LEMMA SetHeaderKeeps ==
  ASSUME NEW res, IsResult(res), NEW name, NEW value
  PROVE  LET out == SetHeader(res, name, value)
         IN  /\ IsResult(out) /\ out.ok = res.ok /\ out.status = res.status /\ out.detail = res.detail
             /\ DOMAIN out.headers = DOMAIN res.headers \cup {name}
             /\ out.headers[name] = value
             /\ \A n \in DOMAIN res.headers : n # name => out.headers[n] = res.headers[n]
BY DEF SetHeader, IsResult

\* So it is for a header that is set unless the response has it.
LEMMA SetIfAbsentKeeps ==
  ASSUME NEW res, IsResult(res), NEW name, NEW value
  PROVE  LET out == SetIfAbsent(res, name, value)
         IN  /\ Gains(res, out, {name}, {name})
             /\ \A n \in DOMAIN res.headers : out.headers[n] = res.headers[n]
<1>1. CASE Has(res, name)
      BY <1>1 DEF SetIfAbsent, Has, Gains
<1>2. CASE ~Has(res, name)
      BY <1>2, SetHeaderKeeps DEF SetIfAbsent, Has, Gains
<1>3. QED BY <1>1, <1>2

\* Cors sets headers of its own only.
LEMMA OriginHeader ==
  ASSUME NEW mw, NEW res, IsResult(res), NEW origin
  PROVE  Gains(res, SetOriginHeader(mw, res, origin), {"allow-origin"}, {"allow-origin", "vary"})
<1>1. CASE mw.any /\ ~mw.credentials
  <2>1. SetOriginHeader(mw, res, origin) = SetHeader(res, "allow-origin", "*")
        BY <1>1 DEF SetOriginHeader
  <2>2. QED BY <2>1, SetHeaderKeeps DEF Gains
<1>2. CASE ~(mw.any /\ ~mw.credentials)
  <2>1. PICK r : r = SetHeader(res, "allow-origin", origin)
        OBVIOUS
  <2>2. /\ IsResult(r) /\ r.ok = res.ok /\ r.status = res.status /\ r.detail = res.detail
        /\ DOMAIN r.headers = DOMAIN res.headers \cup {"allow-origin"}
        /\ \A n \in DOMAIN res.headers : n # "allow-origin" => r.headers[n] = res.headers[n]
        BY <2>1, SetHeaderKeeps
  <2>3. PICK out : out = SetHeader(r, "vary", "origin")
        OBVIOUS
  <2>4. /\ IsResult(out) /\ out.ok = r.ok /\ out.status = r.status /\ out.detail = r.detail
        /\ DOMAIN out.headers = DOMAIN r.headers \cup {"vary"}
        /\ \A n \in DOMAIN r.headers : n # "vary" => out.headers[n] = r.headers[n]
        BY <2>2, <2>3, SetHeaderKeeps
  <2>5. SetOriginHeader(mw, res, origin) = out
        BY <1>2, <2>1, <2>3 DEF SetOriginHeader
  <2>6. QED BY <2>2, <2>4, <2>5 DEF Gains
<1>3. QED BY <1>1, <1>2

\* set_cors_headers() takes nothing away, and the origin is allowed afterwards.
LEMMA CorsKeeps ==
  ASSUME NEW mw, NEW res, IsResult(res), NEW origin
  PROVE  LET out == CorsHeaders(mw, res, origin)
         IN  /\ IsResult(out) /\ out.ok = res.ok /\ Kept(res, out)
             /\ "allow-origin" \in DOMAIN out.headers
<1>1. PICK r1 : r1 = IF Has(res, "allow-origin") THEN res ELSE SetOriginHeader(mw, res, origin)
      OBVIOUS
<1>2. PICK r2 : r2 = IF mw.credentials THEN SetIfAbsent(r1, "allow-credentials", "true") ELSE r1
      OBVIOUS
<1>3. PICK out : out = IF mw.expose THEN SetIfAbsent(r2, "expose-headers", "policy") ELSE r2
      OBVIOUS
<1>4. CorsHeaders(mw, res, origin) = out
      BY <1>1, <1>2, <1>3 DEF CorsHeaders
<1>5. /\ IsResult(r1) /\ r1.ok = res.ok /\ Kept(res, r1) /\ "allow-origin" \in DOMAIN r1.headers
  <2>1. CASE Has(res, "allow-origin")
        BY <1>1, <2>1 DEF Has, Kept
  <2>2. CASE ~Has(res, "allow-origin")
    <3>1. r1 = SetOriginHeader(mw, res, origin)
          BY <1>1, <2>2
    <3>2. Gains(res, r1, {"allow-origin"}, {"allow-origin", "vary"})
          BY <3>1, OriginHeader
    <3>3. QED BY <3>2 DEF Kept, Gains
  <2>3. QED BY <2>1, <2>2
<1>6. /\ IsResult(r2) /\ r2.ok = r1.ok /\ Kept(r1, r2) /\ "allow-origin" \in DOMAIN r2.headers
  <2>1. CASE mw.credentials
        BY <1>2, <1>5, <2>1, SetIfAbsentKeeps DEF Kept, Gains
  <2>2. CASE ~mw.credentials
        BY <1>2, <1>5, <2>2 DEF Kept
  <2>3. QED BY <2>1, <2>2
<1>7. /\ IsResult(out) /\ out.ok = r2.ok /\ Kept(r2, out) /\ "allow-origin" \in DOMAIN out.headers
  <2>1. CASE mw.expose
        BY <1>3, <1>6, <2>1, SetIfAbsentKeeps DEF Kept, Gains
  <2>2. CASE ~mw.expose
        BY <1>3, <1>6, <2>2 DEF Kept
  <2>3. QED BY <2>1, <2>2
<1>8. Kept(res, out)
      BY <1>5, <1>6, <1>7 DEF Kept
<1>9. QED BY <1>4, <1>5, <1>6, <1>7, <1>8

\* What passes a middleware on its way out: a response loses nothing and gains the
\* middleware's headers, or an error comes out; an error passes, is replaced by another, or
\* becomes a response of the middleware's own.
LEMMA AfterKeeps ==
  ASSUME NEW mw, IsMiddleware(mw), NEW req, NEW res, IsResult(res)
  PROVE  LET out == After(mw, req, res)
         IN  /\ IsResult(out)
             /\ out.ok /\ res.ok => Kept(res, out) /\ Marked(mw, req, out)
             /\ out.status = 404 => res.status = 404
             /\ out.ok /\ out.detail = "inner" => res.ok /\ res.detail = "inner"
             /\ out.ok /\ ~res.ok => out.headers = <<>>
<1>1. PICK out : out = After(mw, req, res)
      OBVIOUS
<1>2. CASE mw.kind = "custom"
  <2>1. out = res \/ out = Err(500, "inner") \/ (~res.ok /\ out = Ok(503))
        BY <1>1, <1>2 DEF After, AfterCustom, IsResult
  <2>2. CASE out = res
        BY <1>1, <1>2, <2>2 DEF Kept, Marked, IsResult
  <2>3. CASE out = Err(500, "inner")
        BY <1>1, <2>3 DEF Err, IsResult
  <2>4. CASE ~res.ok /\ out = Ok(503)
        BY <1>1, <2>4 DEF Ok, IsResult
  <2>5. QED BY <2>1, <2>2, <2>3, <2>4
<1>3. CASE mw.kind # "custom" /\ ~res.ok
  <2>1. out = res
        BY <1>1, <1>3 DEF After
  <2>2. QED BY <1>1, <1>3, <2>1
<1>4. CASE mw.kind = "cors" /\ res.ok
  <2>1. out = IF Applies(mw, req) THEN CorsHeaders(mw, res, req.origin) ELSE res
        BY <1>1, <1>4 DEF After
  <2>2. CASE Applies(mw, req)
    <3>1. IsResult(out) /\ out.ok = res.ok /\ Kept(res, out) /\ "allow-origin" \in DOMAIN out.headers
          BY <2>1, <2>2, CorsKeeps
    <3>2. QED BY <1>1, <1>4, <3>1 DEF Kept, Marked
  <2>3. CASE ~Applies(mw, req)
        BY <1>1, <1>4, <2>1, <2>3 DEF Kept, Marked
  <2>4. QED BY <2>2, <2>3
<1>5. CASE mw.kind = "secure" /\ res.ok
  <2>1. out = Secured(mw, res)
        BY <1>1, <1>5 DEF After
  <2>2. /\ IsResult(out) /\ out.ok = res.ok /\ out.status = res.status /\ out.detail = res.detail
        /\ DOMAIN out.headers = DOMAIN res.headers \cup mw.names
        /\ \A n \in DOMAIN res.headers : out.headers[n] = res.headers[n]
        BY <2>1 DEF Secured, IsResult
  <2>3. "status" \notin mw.names
        BY <1>5 DEF IsMiddleware, SecurityHeaders
  <2>4. QED BY <1>1, <1>5, <2>2, <2>3 DEF Kept, Marked
<1>6. CASE mw.kind = "request_id" /\ res.ok
  <2>1. out = SetHeader(res, "request-id", req.id)
        BY <1>1, <1>6 DEF After
  <2>2. QED BY <1>1, <1>6, <2>1, SetHeaderKeeps DEF Kept, Marked
<1>7. CASE mw.kind \notin {"custom", "cors", "secure", "request_id"} /\ res.ok
  <2>1. out = res
        BY <1>1, <1>7 DEF After
  <2>2. QED BY <1>1, <1>7, <2>1 DEF Kept, Marked
<1>8. QED BY <1>2, <1>3, <1>4, <1>5, <1>6, <1>7 DEF IsResult

\* What a middleware that answers itself answers: never that nothing is there, and no
\* detail but in an error.
Decides(b) ==
    /\ b.go \in BOOLEAN
    /\ ~b.go => /\ IsResult(b.res) /\ b.res.status # 404
                /\ b.res.ok => b.res.detail # "inner"

\* So it is for an answer like that, and for going on.
LEMMA AnswersDecide ==
  /\ \A per : Decides(Goes(per))
  /\ \A res : IsResult(res) /\ res.status # 404 /\ (res.ok => res.detail # "inner") => Decides(Answers(res))
  /\ Decides(Answers(AuthFailure("missing"))) /\ Decides(Answers(AuthFailure("invalid")))
  /\ Decides(Answers(AuthFailure("forbidden")))
  /\ \A mode : Decides(Answers(Render(Err(500, "none"), mode)))
  /\ Decides(Answers(Err(500, "inner")))
<1>1. \A per : Decides(Goes(per))
      BY DEF Goes, Decides
<1>2. ASSUME NEW res, IsResult(res), res.status # 404, res.ok => res.detail # "inner"
      PROVE  Decides(Answers(res))
      BY <1>2 DEF Answers, Decides
<1>3. ASSUME NEW status \in {401, 403} PROVE Decides(Answers(Ok(status)))
  <2>1. IsResult(Ok(status)) /\ Ok(status).status # 404 /\ Ok(status).detail # "inner"
        BY <1>3 DEF Ok, IsResult
  <2>2. QED BY <1>2, <2>1
<1>4. ASSUME NEW mode PROVE Decides(Answers(Render(Err(500, "none"), mode)))
  <2>1. PICK r : r = Render(Err(500, "none"), mode)
        OBVIOUS
  <2>2. IsResult(r) /\ r.status # 404 /\ r.detail # "inner"
        BY <2>1 DEF Err, Render, IsResult
  <2>3. QED BY <1>2, <2>1, <2>2
<1>5. Decides(Answers(Err(500, "inner")))
  <2>1. IsResult(Err(500, "inner")) /\ Err(500, "inner").status # 404 /\ ~Err(500, "inner").ok
        BY DEF Err, IsResult
  <2>2. QED BY <1>2, <2>1
<1>6. QED BY <1>1, <1>2, <1>3, <1>4, <1>5 DEF AuthFailure

\* Each middleware decides so.
LEMMA BeforeDecides ==
  ASSUME NEW mw, NEW req, NEW per, NEW a
  PROVE  Decides(Before(mw, req, per, a))
<1>1. PICK b : b = Before(mw, req, per, a)
      OBVIOUS
<1>2. CASE mw.kind = "guard"
  <2>1. b = BeforeGuard(mw, req, per)
        BY <1>1, <1>2 DEF Before
  <2>2. QED BY <1>1, <2>1, AnswersDecide DEF BeforeGuard
<1>3. CASE mw.kind = "role"
  <2>1. b = BeforeRole(mw, per)
        BY <1>1, <1>3 DEF Before
  <2>2. QED BY <1>1, <2>1, AnswersDecide DEF BeforeRole
<1>4. CASE mw.kind = "permission"
  <2>1. b = BeforePermission(mw, per, a)
        BY <1>1, <1>4 DEF Before
  <2>2. \/ b = Answers(AuthFailure("missing")) \/ b = Answers(AuthFailure("forbidden"))
        \/ b = Answers(Render(Err(500, "none"), a.dev)) \/ b = Goes(per)
    <3>1. CASE mw.type \notin DOMAIN per
          BY <2>1, <3>1 DEF BeforePermission
    <3>2. CASE mw.type \in DOMAIN per /\ "Rbac" \notin DOMAIN a.state
          BY <2>1, <3>2 DEF BeforePermission
    <3>3. CASE mw.type \in DOMAIN per /\ "Rbac" \in DOMAIN a.state
      <4>1. b = IF \E role \in per[mw.type].roles :
                      HasPermission(a.state["Rbac"], role, mw.permission)
                THEN Goes(per) ELSE Answers(AuthFailure("forbidden"))
            BY <2>1, <3>3 DEF BeforePermission
      <4>2. QED BY <4>1
    <3>4. QED BY <3>1, <3>2, <3>3
  <2>3. QED BY <1>1, <2>2, AnswersDecide
<1>5. CASE mw.kind = "cors"
  <2>1. b = BeforeCors(mw, req, per)
        BY <1>1, <1>5 DEF Before
  <2>2. b = Goes(per) \/ b = Answers(PreflightHeaders(mw, req.origin))
        BY <2>1 DEF BeforeCors
  <2>3. PICK r : r = SetOriginHeader(mw, Ok(204), req.origin)
        OBVIOUS
  <2>4. IsResult(r) /\ r.ok /\ r.status = 204 /\ r.detail = "none"
    <3>1. PICK o : o = Ok(204)
          OBVIOUS
    <3>2. IsResult(o) /\ o.ok /\ o.status = 204 /\ o.detail = "none"
          BY <3>1 DEF Ok, IsResult
    <3>3. Gains(o, r, {"allow-origin"}, {"allow-origin", "vary"})
          BY <2>3, <3>1, <3>2, OriginHeader
    <3>4. QED BY <3>2, <3>3 DEF Gains
  <2>5. PICK s : s = SetHeader(r, "allow-methods", "policy")
        OBVIOUS
  <2>6. IsResult(s) /\ s.ok /\ s.status = 204 /\ s.detail = "none"
        BY <2>4, <2>5, SetHeaderKeeps
  <2>7. PICK p : p = PreflightHeaders(mw, req.origin)
        OBVIOUS
  <2>8. p = IF mw.credentials THEN SetHeader(s, "allow-credentials", "true") ELSE s
        BY <2>3, <2>5, <2>7 DEF PreflightHeaders
  <2>9. IsResult(p) /\ p.ok /\ p.status = 204 /\ p.detail = "none"
    <3>1. CASE mw.credentials
          BY <2>6, <2>8, <3>1, SetHeaderKeeps
    <3>2. CASE ~mw.credentials
          BY <2>6, <2>8, <3>2
    <3>3. QED BY <3>1, <3>2
  <2>10. QED BY <1>1, <2>2, <2>7, <2>9, AnswersDecide
<1>6. CASE mw.kind = "request_id"
  <2>1. b = BeforeRequestId(req, per)
        BY <1>1, <1>6 DEF Before
  <2>2. QED BY <1>1, <2>1, AnswersDecide DEF BeforeRequestId
<1>7. CASE mw.kind \notin {"guard", "role", "permission", "cors", "request_id"}
  <2>1. b = Goes(per) \/ b = Answers(Err(500, "inner"))
        BY <1>1, <1>7 DEF Before
  <2>2. QED BY <1>1, <2>1, AnswersDecide
<1>8. QED BY <1>2, <1>3, <1>4, <1>5, <1>6, <1>7

\* A middleware lets a request pass that satisfies it, and adds to the per-request state
\* what it provides.
LEMMA BeforePasses ==
  ASSUME NEW mw, NEW req, NEW per, NEW a, Before(mw, req, per, a).go
  PROVE  LET after == Before(mw, req, per, a).per
         IN  /\ mw.kind = "guard" =>
                   /\ Authenticates(mw.provider, req)
                   /\ mw.provider.type \in DOMAIN after
                   /\ after[mw.provider.type] = Authenticated(mw.provider, req)
             /\ mw.kind = "role" => mw.role \in per[mw.type].roles
             /\ mw.kind = "permission" =>
                   \E role \in per[mw.type].roles : HasPermission(a.state["Rbac"], role, mw.permission)
             /\ \A t \in DOMAIN per : ~Provides(mw, t) => t \in DOMAIN after /\ after[t] = per[t]
<1>1. PICK b : b = Before(mw, req, per, a)
      OBVIOUS
<1> USE DEF Goes, Answers
<1>2. CASE mw.kind = "guard"
  <2>1. b = BeforeGuard(mw, req, per)
        BY <1>1, <1>2 DEF Before
  <2>2. /\ Authenticates(mw.provider, req)
        /\ b.per = Provide(per, mw.provider.type, Authenticated(mw.provider, req))
        BY <1>1, <2>1 DEF BeforeGuard
  <2>3. QED BY <1>1, <1>2, <2>2 DEF Provide, Provides
<1>3. CASE mw.kind = "role"
  <2>1. b = BeforeRole(mw, per)
        BY <1>1, <1>3 DEF Before
  <2>2. mw.type \in DOMAIN per /\ mw.role \in per[mw.type].roles /\ b.per = per
        BY <1>1, <2>1 DEF BeforeRole
  <2>3. QED BY <1>1, <1>3, <2>2
<1>4. CASE mw.kind = "permission"
  <2>1. b = BeforePermission(mw, per, a)
        BY <1>1, <1>4 DEF Before
  <2>2. mw.type \in DOMAIN per /\ "Rbac" \in DOMAIN a.state
        BY <1>1, <2>1 DEF BeforePermission
  <2>3. b = IF \E role \in per[mw.type].roles : HasPermission(a.state["Rbac"], role, mw.permission)
            THEN Goes(per) ELSE Answers(AuthFailure("forbidden"))
        BY <2>1, <2>2 DEF BeforePermission
  <2>4. /\ \E role \in per[mw.type].roles : HasPermission(a.state["Rbac"], role, mw.permission)
        /\ b.per = per
        BY <1>1, <2>3
  <2>5. QED BY <1>1, <1>4, <2>4
<1>5. CASE mw.kind = "cors"
  <2>1. b = BeforeCors(mw, req, per)
        BY <1>1, <1>5 DEF Before
  <2>2. b.per = per
        BY <1>1, <2>1 DEF BeforeCors
  <2>3. QED BY <1>1, <1>5, <2>2
<1>6. CASE mw.kind = "request_id"
  <2>1. b = BeforeRequestId(req, per)
        BY <1>1, <1>6 DEF Before
  <2>2. b.per = Provide(per, "RequestId", req.id)
        BY <2>1 DEF BeforeRequestId
  <2>3. QED BY <1>1, <1>6, <2>2 DEF Provide, Provides
<1>7. CASE mw.kind \notin {"guard", "role", "permission", "cors", "request_id"}
  <2>1. b = Goes(per) \/ b = Answers(Err(500, "inner"))
        BY <1>1, <1>7 DEF Before
  <2>2. b.per = per
        BY <1>1, <2>1
  <2>3. QED BY <1>1, <1>7, <2>2
<1>8. QED BY <1>2, <1>3, <1>4, <1>5, <1>6, <1>7

\* A user whom a requirement lets pass has the role of the need it stands for.
LEMMA DemandMeansRole ==
  ASSUME NEW mw, NEW need, NEW req, NEW per, NEW a, Before(mw, req, per, a).go,
         Demands(mw, need, a.state)
  PROVE  need.role \in per[need.provider.type].roles
<1>1. CASE mw.kind = "role"
      BY <1>1, BeforePasses DEF Demands
<1>2. CASE mw.kind = "permission"
  <2>1. PICK role \in per[mw.type].roles : HasPermission(a.state["Rbac"], role, mw.permission)
        BY <1>2, BeforePasses
  <2>2. role \in DOMAIN a.state["Rbac"]
        BY <2>1 DEF HasPermission
  <2>3. mw.type = need.provider.type /\ role = need.role
        BY <1>2, <2>1, <2>2 DEF Demands
  <2>4. QED BY <2>1, <2>3
<1>3. QED BY <1>1, <1>2 DEF Demands

\* ------------------------------------------------------------- extractors

\* A failure is a response, never that nothing is there and never with a detail.
Fails(v) ==
    /\ v.ok \in BOOLEAN
    /\ ~v.ok => IsResult(v.res) /\ v.res.ok /\ v.res.status # 404 /\ v.res.detail # "inner"

\* A value is no failure.
LEMMA ValueFails ==
  ASSUME NEW v, NEW body
  PROVE  Fails(Value(v, body))
BY DEF Value, Fails

\* A failure with a plain answer.
LEMMA PlainFails ==
  ASSUME NEW status \in {400, 415, 422}, NEW body
  PROVE  Fails(Failure(Ok(status), body))
<1>1. PICK r : r = Ok(status)
      OBVIOUS
<1>2. IsResult(r) /\ r.ok /\ r.status # 404 /\ r.detail # "inner"
      BY <1>1 DEF Ok, IsResult
<1>3. QED BY <1>1, <1>2 DEF Failure, Fails

\* A failure with the text of a parser.
LEMMA DetailFails ==
  ASSUME NEW detail \in {"none", "raw"}, NEW body
  PROVE  Fails(Failure(WithDetail(Ok(400), detail), body))
<1>1. PICK r : r = WithDetail(Ok(400), detail)
      OBVIOUS
<1>2. IsResult(r) /\ r.ok /\ r.status # 404 /\ r.detail # "inner"
      BY <1>1 DEF WithDetail, Ok, IsResult
<1>3. QED BY <1>1, <1>2 DEF Failure, Fails

\* A failure with a rendered error.
LEMMA RenderFails ==
  ASSUME NEW status \in {401, 500}, NEW mode, NEW body
  PROVE  Fails(Failure(Render(Err(status, "none"), mode), body))
<1>1. PICK r : r = Render(Err(status, "none"), mode)
      OBVIOUS
<1>2. IsResult(r) /\ r.ok /\ r.status # 404 /\ r.detail # "inner"
      BY <1>1 DEF Render, Err, IsResult
<1>3. QED BY <1>1, <1>2 DEF Failure, Fails

\* Every extractor returns a value or a response.
LEMMA ExtractorsFail ==
  ASSUME NEW arg, arg.kind \in ArgumentKinds, NEW req, NEW params, NEW per, NEW body, NEW a
  PROVE  Fails(FromRequest(arg, req, params, per, body, a))
<1>1. PICK v : v = FromRequest(arg, req, params, per, body, a)
      OBVIOUS
<1>2. PICK j : j = ExtractJson(req, body, a.dev)
      OBVIOUS
<1>3. Fails(j)
  <2>1. PICK detail \in {"none", "raw"} : detail = IF a.dev THEN "raw" ELSE "none"
        OBVIOUS
  <2>2. CASE ~req.json
    <3>1. j = Failure(Ok(415), body)
          BY <1>2, <2>2 DEF ExtractJson
    <3>2. QED BY <3>1, PlainFails
  <2>3. CASE req.json /\ body \notin {"valid", "invalid"}
    <3>1. j = Failure(WithDetail(Ok(400), detail), "empty")
          BY <1>2, <2>1, <2>3 DEF ExtractJson
    <3>2. QED BY <3>1, DetailFails
  <2>4. CASE req.json /\ body \in {"valid", "invalid"}
    <3>1. j = Value(body, "empty")
          BY <1>2, <2>4 DEF ExtractJson
    <3>2. QED BY <3>1, ValueFails
  <2>5. QED BY <2>2, <2>3, <2>4
<1>4. CASE arg.kind = "json"
  <2>1. v = j
        BY <1>1, <1>2, <1>4 DEF FromRequest
  <2>2. QED BY <1>1, <1>3, <2>1
<1>5. CASE arg.kind = "valid"
  <2>1. v = ExtractValid(j)
        BY <1>1, <1>2, <1>5 DEF FromRequest
  <2>2. v = j \/ v = Failure(Ok(422), j.body)
        BY <2>1 DEF ExtractValid, FieldErrors
  <2>3. QED BY <1>1, <1>3, <2>2, PlainFails
<1>6. CASE arg.kind = "query"
  <2>1. v = Value("query", body) \/ v = Failure(WithDetail(Ok(400), "raw"), body)
        BY <1>1, <1>6 DEF FromRequest, ExtractQuery
  <2>2. QED BY <1>1, <2>1, ValueFails, DetailFails
<1>7. CASE arg.kind = "state"
  <2>1. v = Value("state", body) \/ v = Failure(Render(Err(500, "none"), a.dev), body)
        BY <1>1, <1>7 DEF FromRequest, ExtractState
  <2>2. QED BY <1>1, <2>1, ValueFails, RenderFails
<1>8. CASE arg.kind = "auth"
  <2>1. \/ v = Value(per[arg.type], body)
        \/ v = Failure(Render(Err(401, "none"), a.dev), body)
        BY <1>1, <1>8 DEF FromRequest, ExtractAuth
  <2>2. QED BY <1>1, <2>1, ValueFails, RenderFails
<1>9. CASE arg.kind = "opt_auth"
  <2>1. PICK u : u = IF arg.type \in DOMAIN per THEN per[arg.type] ELSE Absent
        OBVIOUS
  <2>2. v = Value(u, body)
        BY <1>1, <1>9, <2>1 DEF FromRequest, ExtractOptAuth
  <2>3. QED BY <1>1, <2>2, ValueFails
<1>10. CASE arg.kind = "path"
  <2>1. PICK detail \in {"none", "raw"} : detail = IF a.dev THEN "raw" ELSE "none"
        OBVIOUS
  <2>2. v = ExtractPath(arg.shape, params, a.dev, body)
        BY <1>1, <1>10 DEF FromRequest
  <2>3. v = Value(params, body) \/ v = Failure(WithDetail(Ok(400), detail), body)
        BY <2>1, <2>2 DEF ExtractPath
  <2>4. QED BY <1>1, <2>3, ValueFails, DetailFails
<1>11. CASE arg.kind = "paginate"
  <2>1. v = ExtractPaginate(req, a, body)
        BY <1>1, <1>11 DEF FromRequest
  <2>2. (\E p : v = Value(p, body)) \/ v = Failure(WithDetail(Ok(400), "raw"), body)
        BY <2>1 DEF ExtractPaginate
  <2>3. QED BY <1>1, <2>2, ValueFails, DetailFails
<1>12. CASE arg.kind = "cursor"
  <2>1. v = ExtractCursor(req, a, body)
        BY <1>1, <1>12 DEF FromRequest
  <2>2. CASE ~req.query.parses
    <3>1. v = Failure(WithDetail(Ok(400), "raw"), body)
          BY <2>1, <2>2 DEF ExtractCursor
    <3>2. QED BY <1>1, <3>1, DetailFails
  <2>3. CASE req.query.parses /\ req.query.after /\ req.query.before
    <3>1. v = Failure(Ok(400), body)
          BY <2>1, <2>3 DEF ExtractCursor
    <3>2. QED BY <1>1, <3>1, PlainFails
  <2>4. CASE req.query.parses /\ ~(req.query.after /\ req.query.before)
    <3>1. \E p : v = Value(p, body)
          BY <2>1, <2>4 DEF ExtractCursor
    <3>2. QED BY <1>1, <3>1, ValueFails
  <2>5. QED BY <2>2, <2>3, <2>4
<1>13. QED BY <1>4, <1>5, <1>6, <1>7, <1>8, <1>9, <1>10, <1>11, <1>12 DEF ArgumentKinds

\* A page within the limits, its offset exact or saturated.
IsPage(p, kind, max) ==
    /\ p.limit \in 1 .. max /\ p.page >= 1 /\ p.offset <= U64Max
    /\ kind = "paginate" => p.offset = (p.page - 1) * p.limit \/ p.offset = U64Max

\* The limits are usable whatever the application configured.
LEMMA PagingPositive ==
  ASSUME NEW a, WellBuilt(a)
  PROVE  Paging(a).max \in Nat \ {0} /\ Paging(a).default \in Nat
<1>1. CASE "PaginationConfig" \in DOMAIN a.state
      BY <1>1 DEF Paging, WellBuilt
<1>2. CASE "PaginationConfig" \notin DOMAIN a.state
      BY <1>2, PipelineAssumption DEF Paging
<1>3. QED BY <1>1, <1>2

\* u64::clamp(1, max).
LEMMA ClampWithin ==
  ASSUME NEW n \in Int, NEW max \in Nat \ {0}
  PROVE  ClampPage(n, max) \in 1 .. max
BY DEF ClampPage

\* What extractors leave of the body, and what their values are good for.
LEMMA ExtractorsSound ==
  ASSUME NEW arg, arg.kind \in ArgumentKinds, NEW req \in Requests, NEW params, NEW per, NEW body,
         NEW a, WellBuilt(a), FromRequest(arg, req, params, per, body, a).ok
  PROVE  LET v == FromRequest(arg, req, params, per, body, a)
         IN  /\ arg.kind \in {"json", "valid"} => body # "empty" /\ v.body = "empty"
             /\ arg.kind \notin {"json", "valid"} => v.body = body
             /\ arg.kind = "valid" => v.value = "valid"
             /\ arg.kind \in {"paginate", "cursor"} => IsPage(v.value, arg.kind, Paging(a).max)
<1>1. PICK v : v = FromRequest(arg, req, params, per, body, a)
      OBVIOUS
<1>2. PICK j : j = ExtractJson(req, body, a.dev)
      OBVIOUS
<1>3. j.ok => j.value = body /\ body \in {"valid", "invalid"} /\ j.body = "empty"
      BY <1>2 DEF ExtractJson, Value, Failure
<1>4. CASE arg.kind = "json"
  <2>1. v = j
        BY <1>1, <1>2, <1>4 DEF FromRequest
  <2>2. QED BY <1>1, <1>3, <1>4, <2>1
<1>5. CASE arg.kind = "valid"
  <2>1. v = ExtractValid(j)
        BY <1>1, <1>2, <1>5 DEF FromRequest
  <2>2. v = j /\ Validates(j.value)
        BY <1>1, <2>1 DEF ExtractValid, Failure
  <2>3. QED BY <1>1, <1>3, <1>5, <2>2 DEF Validates
<1>6. CASE arg.kind \in {"query", "state", "auth", "opt_auth", "path"}
  <2>1. v.body = body
    <3>1. CASE arg.kind = "query"
          BY <1>1, <3>1 DEF FromRequest, ExtractQuery, Value, Failure
    <3>2. CASE arg.kind = "state"
          BY <1>1, <3>2 DEF FromRequest, ExtractState, Value, Failure
    <3>3. CASE arg.kind = "auth"
          BY <1>1, <3>3 DEF FromRequest, ExtractAuth, Value, Failure
    <3>4. CASE arg.kind = "opt_auth"
          BY <1>1, <3>4 DEF FromRequest, ExtractOptAuth, Value, Failure
    <3>5. CASE arg.kind = "path"
      <4>1. v = ExtractPath(arg.shape, params, a.dev, body)
            BY <1>1, <3>5 DEF FromRequest
      <4>2. \/ v = Value(params, body)
            \/ v = Failure(WithDetail(Ok(400), IF a.dev THEN "raw" ELSE "none"), body)
            BY <4>1 DEF ExtractPath
      <4>3. QED BY <4>2 DEF Value, Failure
    <3>6. QED BY <1>6, <3>1, <3>2, <3>3, <3>4, <3>5
  <2>2. QED BY <1>1, <1>6, <2>1
<1>7. CASE arg.kind = "paginate"
  <2> DEFINE q == req.query
             asked == IF q.per_page < 0 THEN Paging(a).default ELSE q.per_page
  <2>1. PICK page : page = [page |-> IF q.page < 1 THEN 1 ELSE q.page,
                            per_page |-> ClampPage(asked, Paging(a).max)]
        OBVIOUS
  <2>2. asked \in Int /\ q.page \in Int
        BY PagingPositive, PipelineAssumption
  <2>3. page.page \in Nat /\ page.page >= 1 /\ page.per_page \in 1 .. Paging(a).max
    <3>1. ClampPage(asked, Paging(a).max) \in 1 .. Paging(a).max
          BY <2>2, PagingPositive, ClampWithin
    <3>2. QED BY <2>1, <2>2, <3>1
  <2>4. v = IF q.parses THEN Value([page |-> page.page, limit |-> page.per_page,
                                    offset |-> Offset(page)], body)
            ELSE Failure(WithDetail(Ok(400), "raw"), body)
        BY <1>1, <1>7, <2>1 DEF FromRequest, ExtractPaginate
  <2>5. /\ v.body = body
        /\ v.value = [page |-> page.page, limit |-> page.per_page, offset |-> Offset(page)]
        BY <1>1, <2>4 DEF Value, Failure
  <2>6. PICK product : product = (page.page - 1) * page.per_page
        OBVIOUS
  <2>7. Offset(page) = IF product > U64Max THEN U64Max ELSE product
        BY <2>3, <2>6 DEF Offset
  <2>8. product \in Int
        BY <2>3, <2>6, PagingPositive
  <2>9. Offset(page) <= U64Max /\ (Offset(page) = product \/ Offset(page) = U64Max)
        BY <2>7, <2>8, PipelineAssumption
  <2>10. IsPage(v.value, "paginate", Paging(a).max)
        BY <2>3, <2>5, <2>6, <2>9 DEF IsPage
  <2>11. QED BY <1>1, <1>7, <2>5, <2>10
<1>8. CASE arg.kind = "cursor"
  <2> DEFINE q == req.query
             asked == IF q.per_page < 0 THEN Paging(a).default ELSE q.per_page
  <2>1. asked \in Int
        BY PagingPositive, PipelineAssumption
  <2>2. ClampPage(asked, Paging(a).max) \in 1 .. Paging(a).max
        BY <2>1, PagingPositive, ClampWithin
  <2>3. v = ExtractCursor(req, a, body)
        BY <1>1, <1>8 DEF FromRequest
  <2>4. v = Value([page |-> 1, limit |-> ClampPage(asked, Paging(a).max), offset |-> 0], body)
        BY <1>1, <2>3 DEF ExtractCursor, Failure
  <2>5. IsPage(v.value, "cursor", Paging(a).max) /\ v.body = body
        BY <2>2, <2>4, PipelineAssumption DEF Value, IsPage
  <2>6. QED BY <1>1, <1>8, <2>5
<1>9. QED BY <1>4, <1>5, <1>6, <1>7, <1>8 DEF ArgumentKinds

\* -------------------------------------------------- the inductive invariant

\* The exchange while its request goes inward: nothing has answered yet.
Untouched(y) ==
    /\ y.res = Ok(200) /\ y.failed = FALSE /\ y.ran = FALSE /\ y.own = FALSE
    /\ y.health = <<>> /\ y.depth = y.idx

\* The app is built well, and once it serves, it has the mode of its environment and a
\* configuration that loads.
AppInv ==
    /\ WellBuilt(app) /\ env \in Environments
    /\ pc \notin {"start", "panicked"} =>
          /\ app.dev = (Detect(env) = "development") /\ Loads(app, env)
          /\ app.config # <<>> => app.state["Config"] = Config(app, env)

\* The shape of the exchange at each place of its course.
ShapeInv ==
    /\ pc \in {"start", "panicked", "idle", "route", "enter", "extract", "call", "leave", "done"}
    /\ DOMAIN x = DOMAIN Fresh
    /\ AreMiddleware(x.chain)
    /\ x.idx \in 0 .. Len(x.chain) /\ x.depth \in x.idx .. Len(x.chain)
    /\ IsResult(x.res) /\ x.failed \in BOOLEAN /\ x.ran \in BOOLEAN
    /\ pc \in {"start", "panicked", "idle"} => x = Fresh
    /\ pc = "route" => /\ Untouched(x) /\ x.chain = <<>> /\ x.idx = 0
                       /\ x.handler = NotFound /\ x.route = NoRoute
    /\ pc \in {"route", "enter"} => x.arg = 1 /\ x.values = <<>>
    /\ pc \in {"route", "enter", "extract", "call", "leave"} => x.req \in Requests
    /\ pc \in {"enter", "extract", "call"} => Untouched(x)
    /\ pc \in {"extract", "call"} => x.idx = Len(x.chain)
    /\ pc = "extract" => x.handler.kind = "fn"
    /\ (pc \in {"leave", "done"} /\ ~x.failed) => x.res.ok
    /\ pc = "done" => x.res.ok /\ x.idx = 0
    /\ x.ran => x.depth = Len(x.chain) /\ pc \in {"leave", "done"}
    /\ ~x.ran => ~x.own /\ x.health = <<>>

\* Where the handler and the chain of an exchange are from.
Origin(routes, global, req, route, handler, chain) ==
    /\ Found(route) => /\ Chosen(routes, req.method, SplitPath(req.path), DOMAIN routes, route)
                       /\ handler = route.handler /\ chain = global \o route.middleware
    /\ handler.kind = "not_allowed" =>
          /\ Candidates(routes, req.method, SplitPath(req.path), DOMAIN routes) = {}
          /\ handler.allow = AllowedMethods(routes, req.path)
    /\ handler.kind \notin {"none", "not_allowed"} => Found(route)

RouteInv ==
    /\ Origin(app.router.routes, app.global, x.req, x.route, x.handler, x.chain)
    /\ pc \in {"enter", "extract", "call"} => x.handler.kind # "none"
    /\ x.res.status = 404 => pc = "done" /\ Matching(app.router.routes, x.req.path) = {}

\* A guard at i and behind it, at j, what a need asks of the user of that guard.
Meets(need, chain, state, i, j) ==
    /\ chain[i].kind = "guard" /\ chain[i].provider = need.provider
    /\ Demands(chain[j], need, state)
    /\ \A k \in i + 1 .. j - 1 : ~Provides(chain[k], need.provider.type)

\* The user a guard has put into the per-request state stays there up to the next
\* middleware that provides the type, and a requirement behind it was met by that user.
GuardInv ==
    /\ \A i \in 1 .. x.depth :
          x.chain[i].kind = "guard" => Authenticates(x.chain[i].provider, x.req)
    /\ pc = "enter" =>
          \A i \in 1 .. x.idx :
             LET p == x.chain[i].provider
             IN  x.chain[i].kind = "guard" /\ (\A k \in i + 1 .. x.idx : ~Provides(x.chain[k], p.type))
                 => p.type \in DOMAIN x.per /\ x.per[p.type] = Authenticated(p, x.req)
    /\ x.handler.kind = "fn" =>
          \A need \in x.handler.needs :
             \A i \in 1 .. x.depth : \A j \in i + 1 .. x.depth :
                Meets(need, x.chain, app.state, i, j)
                => need.role \in Authenticated(need.provider, x.req).roles

\* The middleware passed on the way out has put its headers on the response, and the
\* handler's own is still there.
HeaderInv ==
    (pc \in {"leave", "done"} /\ ~x.failed) =>
        /\ \A i \in x.idx + 1 .. x.depth : Marked(x.chain[i], x.req, x.res)
        /\ x.own => Has(x.res, "x-frame-options") /\ x.res.headers["x-frame-options"] = "own"

\* The detail of an error is in a response of development only.
ErrorInv == (x.res.ok /\ x.res.detail = "inner") => app.dev

\* What is asked of the arguments made before the place n.
OfBody(arg) == arg.kind \in {"json", "valid"}
Made(args, values, n, max) ==
    /\ n \in 1 .. Len(args) + 1 /\ values = [i \in 1 .. n - 1 |-> values[i]]
    /\ \A i \in 1 .. n - 1 : args[i].kind = "valid" => values[i] = "valid"
    /\ \A i \in 1 .. n - 1 : args[i].kind \in {"paginate", "cursor"} =>
                                 IsPage(values[i], args[i].kind, max)
    /\ \A i, j \in 1 .. n - 1 : OfBody(args[i]) /\ OfBody(args[j]) => i = j

\* The arguments made so far are sound, the one made from the body left none of it, and a
\* handler runs with all of them.
ArgumentInv ==
    x.handler.kind = "fn" =>
        /\ Made(x.handler.args, x.values, x.arg, Paging(app).max)
        /\ (pc = "extract" /\ \E i \in 1 .. x.arg - 1 : OfBody(x.handler.args[i])) => x.body = "empty"
        /\ pc = "call" \/ x.ran => x.arg = Len(x.handler.args) + 1

\* The health route's answer on its way out.
HealthInv ==
    (pc \in {"leave", "done"} /\ ~x.failed /\ DOMAIN x.health # {}) =>
        LET passed == {c \in DOMAIN x.health : x.health[c] = "passed"}
        IN  /\ x.res.status = 503 <=> passed = {}
            /\ Has(x.res, "status") =>
                  (x.res.headers["status"] = "healthy" <=> passed = DOMAIN x.health)

\* ------------------------------------------------ what the actions change

\* An exchange nothing has been decided about.
Blank(y) ==
    /\ DOMAIN y = DOMAIN Fresh
    /\ y.route = NoRoute /\ y.handler = NotFound /\ y.chain = <<>> /\ y.idx = 0
    /\ y.arg = 1 /\ y.values = <<>> /\ y.depth = 0
    /\ y.failed = FALSE /\ y.ran = FALSE /\ y.own = FALSE /\ y.health = <<>>

\* A request that arrives, at a server or from a test client.
LEMMA ArriveEffect ==
  ASSUME NEW req \in Requests, Receive(req) \/ Send(req)
  PROVE  /\ UNCHANGED <<app, env>> /\ Blank(x') /\ x'.req = req
         /\ \/ pc' = "route" /\ x'.res = Ok(200)
            \/ pc' = "done" /\ \E status \in {400, 413} : x'.res = Ok(status)
<1>1. CASE Receive(req)
      BY <1>1 DEF Receive, Blank, Fresh
<1>2. CASE Send(req)
      BY <1>2 DEF Send, Blank, Fresh
<1>3. QED BY <1>1, <1>2

\* A route is found.
LEMMA FoundEffect ==
  ASSUME ShapeInv, Route, Found(Find(app.router.routes, x.req.method, x.req.path))
  PROVE  /\ pc' = "enter" /\ DOMAIN x' = DOMAIN Fresh
         /\ x'.route = Find(app.router.routes, x.req.method, x.req.path)
         /\ x'.handler = x'.route.handler /\ x'.chain = app.global \o x'.route.middleware
         /\ UNCHANGED <<app, env, x.req, x.idx, x.per, x.body, x.arg, x.values, x.res, x.depth,
                        x.failed, x.ran, x.own, x.health>>
<1>1. PICK r : r = Find(app.router.routes, x.req.method, x.req.path)
      OBVIOUS
<1>2. PICK chain : chain = app.global \o r.middleware
      OBVIOUS
<1>3. PICK params : params = Params(r.segments, SplitPath(x.req.path))
      OBVIOUS
<1>4. /\ x' = [x EXCEPT !.route = r, !.handler = r.handler, !.params = params, !.chain = chain]
      /\ pc' = "enter" /\ UNCHANGED <<app, env>>
      BY <1>1, <1>2, <1>3 DEF Route
<1>5. DOMAIN x = DOMAIN Fresh
      BY DEF ShapeInv
<1>6. /\ DOMAIN x' = DOMAIN Fresh /\ x'.route = r /\ x'.handler = r.handler /\ x'.chain = chain
      /\ UNCHANGED <<x.req, x.idx, x.per, x.body, x.arg, x.values, x.res, x.depth,
                     x.failed, x.ran, x.own, x.health>>
      BY <1>4, <1>5 DEF Fresh
<1>7. QED BY <1>1, <1>2, <1>4, <1>6

\* The path has other methods.
LEMMA NotAllowedEffect ==
  ASSUME ShapeInv, Route, ~Found(Find(app.router.routes, x.req.method, x.req.path)),
         AllowedMethods(app.router.routes, x.req.path) # {}
  PROVE  /\ pc' = "enter" /\ DOMAIN x' = DOMAIN Fresh
         /\ x'.handler = [kind |-> "not_allowed", allow |-> AllowedMethods(app.router.routes, x.req.path)]
         /\ x'.chain = app.global \o MiddlewareForPath(app.router.routes, x.req.path)
         /\ UNCHANGED <<app, env, x.req, x.route, x.idx, x.per, x.body, x.arg, x.values, x.res,
                        x.depth, x.failed, x.ran, x.own, x.health>>
<1>1. PICK handler : handler = [kind |-> "not_allowed",
                                allow |-> AllowedMethods(app.router.routes, x.req.path)]
      OBVIOUS
<1>2. PICK chain : chain = app.global \o MiddlewareForPath(app.router.routes, x.req.path)
      OBVIOUS
<1>3. /\ x' = [x EXCEPT !.handler = handler, !.chain = chain]
      /\ pc' = "enter" /\ UNCHANGED <<app, env>>
      BY <1>1, <1>2 DEF Route
<1>4. DOMAIN x = DOMAIN Fresh
      BY DEF ShapeInv
<1>5. /\ DOMAIN x' = DOMAIN Fresh /\ x'.handler = handler /\ x'.chain = chain
      /\ UNCHANGED <<x.req, x.route, x.idx, x.per, x.body, x.arg, x.values, x.res,
                     x.depth, x.failed, x.ran, x.own, x.health>>
      BY <1>3, <1>4 DEF Fresh
<1>6. QED BY <1>1, <1>2, <1>3, <1>5

\* The path is nobody's.
LEMMA NotFoundEffect ==
  ASSUME ShapeInv, Route, ~Found(Find(app.router.routes, x.req.method, x.req.path)),
         AllowedMethods(app.router.routes, x.req.path) = {}
  PROVE  /\ pc' = "done" /\ DOMAIN x' = DOMAIN Fresh
         /\ x'.res = Render(Err(404, "none"), app.dev)
         /\ UNCHANGED <<app, env, x.req, x.route, x.handler, x.chain, x.idx, x.per, x.body, x.arg,
                        x.values, x.depth, x.failed, x.ran, x.own, x.health>>
<1>1. PICK res : res = Render(Err(404, "none"), app.dev)
      OBVIOUS
<1>2. /\ x' = [x EXCEPT !.res = res]
      /\ pc' = "done" /\ UNCHANGED <<app, env>>
      BY <1>1 DEF Route
<1>3. DOMAIN x = DOMAIN Fresh
      BY DEF ShapeInv
<1>4. /\ DOMAIN x' = DOMAIN Fresh /\ x'.res = res
      /\ UNCHANGED <<x.req, x.route, x.handler, x.chain, x.idx, x.per, x.body, x.arg,
                     x.values, x.depth, x.failed, x.ran, x.own, x.health>>
      BY <1>2, <1>3 DEF Fresh
<1>5. QED BY <1>1, <1>2, <1>4

\* A middleware is entered, or answers.
LEMMA EnterEffect ==
  ASSUME ShapeInv, Enter
  PROVE  LET b == Before(x.chain[x.idx + 1], x.req, x.per, app)
         IN  /\ pc = "enter" /\ x.idx < Len(x.chain) /\ DOMAIN x' = DOMAIN Fresh
             /\ \/ /\ b.go /\ pc' = "enter" /\ x'.per = b.per
                   /\ x'.idx = x.idx + 1 /\ x'.depth = x.idx + 1
                   /\ UNCHANGED <<x.res, x.failed>>
                \/ /\ ~b.go /\ pc' = "leave" /\ x'.res = b.res /\ x'.failed = ~b.res.ok
                   /\ UNCHANGED <<x.per, x.idx, x.depth>>
             /\ UNCHANGED <<app, env, x.req, x.route, x.handler, x.chain, x.body, x.arg, x.values,
                            x.ran, x.own, x.health>>
<1>1. PICK b : b = Before(x.chain[x.idx + 1], x.req, x.per, app)
      OBVIOUS
<1>2. /\ pc = "enter" /\ x.idx < Len(x.chain) /\ UNCHANGED <<app, env>>
      /\ \/ b.go /\ x' = [x EXCEPT !.per = b.per, !.idx = @ + 1, !.depth = x.idx + 1] /\ UNCHANGED pc
         \/ ~b.go /\ x' = [x EXCEPT !.res = b.res, !.failed = ~b.res.ok] /\ pc' = "leave"
      BY <1>1 DEF Enter
<1>3. DOMAIN x = DOMAIN Fresh
      BY DEF ShapeInv
<1>4. QED BY <1>1, <1>2, <1>3 DEF Fresh

\* An argument is made, or fails, or there is none left.
LEMMA ExtractEffect ==
  ASSUME ShapeInv, Extract
  PROVE  LET arg == x.handler.args[x.arg]
             v == FromRequest(arg, x.req, x.params, x.per, x.body, app)
         IN  /\ pc = "extract"
             /\ \/ x.arg > Len(x.handler.args) /\ pc' = "call" /\ UNCHANGED x
                \/ /\ ~(x.arg > Len(x.handler.args)) /\ v.ok /\ pc' = "extract"
                   /\ DOMAIN x' = DOMAIN Fresh
                   /\ x'.arg = x.arg + 1 /\ x'.body = v.body
                   /\ x'.values = Append(x.values, v.value)
                   /\ UNCHANGED x.res
                \/ /\ ~(x.arg > Len(x.handler.args)) /\ ~v.ok /\ pc' = "leave"
                   /\ DOMAIN x' = DOMAIN Fresh
                   /\ x'.res = v.res
                   /\ UNCHANGED <<x.arg, x.values>>
             /\ UNCHANGED <<app, env, x.req, x.route, x.handler, x.chain, x.idx, x.per, x.depth,
                            x.failed, x.ran, x.own, x.health>>
<1>1. PICK v : v = FromRequest(x.handler.args[x.arg], x.req, x.params, x.per, x.body, app)
      OBVIOUS
<1>2. /\ pc = "extract" /\ UNCHANGED <<app, env>>
      /\ \/ x.arg > Len(x.handler.args) /\ pc' = "call" /\ UNCHANGED x
         \/ /\ ~(x.arg > Len(x.handler.args)) /\ v.ok /\ UNCHANGED pc
            /\ x' = [x EXCEPT !.arg = @ + 1, !.body = v.body, !.values = Append(@, v.value)]
         \/ /\ ~(x.arg > Len(x.handler.args)) /\ ~v.ok /\ pc' = "leave"
            /\ x' = [x EXCEPT !.res = v.res, !.body = v.body]
      BY <1>1 DEF Extract
<1>3. DOMAIN x = DOMAIN Fresh
      BY DEF ShapeInv
<1>4. CASE x.arg > Len(x.handler.args) /\ pc' = "call" /\ UNCHANGED x
      BY <1>1, <1>2, <1>4
<1>5. CASE /\ ~(x.arg > Len(x.handler.args)) /\ v.ok /\ UNCHANGED pc
           /\ x' = [x EXCEPT !.arg = @ + 1, !.body = v.body, !.values = Append(@, v.value)]
  <2>1. PICK arg : arg = x.arg + 1
        OBVIOUS
  <2>2. PICK values : values = Append(x.values, v.value)
        OBVIOUS
  <2>3. x' = [x EXCEPT !.arg = arg, !.body = v.body, !.values = values]
        BY <1>5, <2>1, <2>2
  <2>4. /\ DOMAIN x' = DOMAIN Fresh /\ x'.arg = arg /\ x'.body = v.body /\ x'.values = values
        /\ UNCHANGED <<x.res, x.req, x.route, x.handler, x.chain, x.idx, x.per, x.depth,
                       x.failed, x.ran, x.own, x.health>>
        BY <1>3, <2>3 DEF Fresh
  <2>5. QED BY <1>1, <1>2, <1>5, <2>1, <2>2, <2>4
<1>6. CASE /\ ~(x.arg > Len(x.handler.args)) /\ ~v.ok /\ pc' = "leave"
           /\ x' = [x EXCEPT !.res = v.res, !.body = v.body]
  <2>1. /\ DOMAIN x' = DOMAIN Fresh /\ x'.res = v.res
        /\ UNCHANGED <<x.arg, x.values, x.req, x.route, x.handler, x.chain, x.idx, x.per, x.depth,
                       x.failed, x.ran, x.own, x.health>>
        BY <1>3, <1>6 DEF Fresh
  <2>2. QED BY <1>1, <1>2, <1>6, <2>1
<1>7. QED BY <1>2, <1>4, <1>5, <1>6

\* What a handler may answer: a response, never that nothing is there, with a detail in
\* development only, and with the header of its own only by its own hand.
Handled(res, dev) ==
    /\ IsResult(res) /\ res.ok /\ res.status # 404
    /\ res.detail = "inner" => dev
    /\ "x-frame-options" \in DOMAIN res.headers => res.headers["x-frame-options"] = "own"
    /\ "status" \notin DOMAIN res.headers

\* A plain answer.
LEMMA OkHandled ==
  ASSUME NEW status, status # 404, NEW dev
  PROVE  Handled(Ok(status), dev)
<1>1. PICK r : r = Ok(status)
      OBVIOUS
<1>2. /\ DOMAIN r = {"ok", "status", "headers", "detail"} /\ r.ok = TRUE /\ r.status = status
      /\ r.headers = <<>> /\ r.detail = "none" /\ DOMAIN <<>> = {}
      BY <1>1, SeqShort DEF Ok
<1>3. QED BY <1>1, <1>2 DEF Handled, IsResult

\* A rendered error.
LEMMA RenderHandled ==
  ASSUME NEW status, status # 404, NEW detail \in {"none", "inner"}, NEW dev
  PROVE  Handled(Render(Err(status, detail), dev), dev)
<1>1. PICK r : r = Render(Err(status, detail), dev)
      OBVIOUS
<1>2. /\ DOMAIN r = {"ok", "status", "headers", "detail"} /\ r.ok = TRUE /\ r.status = status
      /\ r.headers = <<>> /\ DOMAIN <<>> = {}
      /\ r.detail = IF dev THEN detail ELSE "none"
      BY <1>1, SeqShort DEF Err, Render
<1>3. r.detail \in {"none", "inner"} /\ (r.detail = "inner" => dev)
      BY <1>2
<1>4. IsResult(r)
      BY <1>2, <1>3 DEF IsResult
<1>5. Handled(r, dev)
      BY <1>2, <1>3, <1>4 DEF Handled
<1>6. QED BY <1>1, <1>5

\* An answer with one more header.
LEMMA HeaderHandled ==
  ASSUME NEW res, NEW dev, Handled(res, dev), NEW name, NEW value,
         name # "status", name = "x-frame-options" => value = "own"
  PROVE  Handled(SetHeader(res, name, value), dev)
<1>0. IsResult(res)
      BY DEF Handled
<1>1. PICK r : r = SetHeader(res, name, value)
      OBVIOUS
<1>2. /\ IsResult(r) /\ r.ok = res.ok /\ r.status = res.status /\ r.detail = res.detail
      /\ DOMAIN r.headers = DOMAIN res.headers \cup {name}
      /\ r.headers[name] = value
      /\ \A n \in DOMAIN res.headers : n # name => r.headers[n] = res.headers[n]
      BY <1>1, <1>0, SetHeaderKeeps
<1>3. QED BY <1>1, <1>2 DEF Handled

\* A handler returns.
LEMMA AnswerEffect ==
  ASSUME ShapeInv, NEW res, Handled(res, app.dev), Answer(res)
  PROVE  /\ pc' = "leave" /\ DOMAIN x' = DOMAIN Fresh
         /\ x'.res = res /\ x'.ran = TRUE
         /\ x'.own => Has(x'.res, "x-frame-options") /\ x'.res.headers["x-frame-options"] = "own"
         /\ UNCHANGED <<app, env, x.req, x.route, x.handler, x.chain, x.idx, x.arg, x.values,
                        x.depth, x.failed, x.health>>
<1>1. /\ x' = [x EXCEPT !.res = res, !.ran = TRUE, !.own = Has(res, "x-frame-options")]
      /\ pc' = "leave" /\ UNCHANGED <<app, env>>
      BY DEF Answer
<1>2. DOMAIN x = DOMAIN Fresh
      BY DEF ShapeInv
<1>3. /\ DOMAIN x' = DOMAIN Fresh /\ x'.res = res /\ x'.ran = TRUE
      /\ x'.own = Has(res, "x-frame-options")
      /\ UNCHANGED <<x.req, x.route, x.handler, x.chain, x.idx, x.arg, x.values,
                     x.depth, x.failed, x.health>>
      BY <1>1, <1>2 DEF Fresh
<1>4. Has(res, "x-frame-options") => res.headers["x-frame-options"] = "own"
      BY DEF Handled, Has
<1>5. x'.own => Has(x'.res, "x-frame-options") /\ x'.res.headers["x-frame-options"] = "own"
      BY <1>3, <1>4
<1>6. QED BY <1>1, <1>3, <1>5

\* The answer of the health route.
HealthAnswer(health, res) ==
    LET passed == {c \in DOMAIN health : health[c] = "passed"}
    IN  /\ res.status = 503 <=> (passed = {} /\ DOMAIN health # {})
        /\ "status" \in DOMAIN res.headers =>
              (res.headers["status"] = "healthy" <=> passed = DOMAIN health)

\* A function of the application, or a derived error: what Call answers.
LEMMA CallEffect ==
  ASSUME Call
  PROVE  pc = "call" /\ \E res : Handled(res, app.dev) /\ Answer(res)
<1>1. CASE Answer(Ok(200))
      BY <1>1, OkHandled DEF Call
<1>2. CASE Answer(SetHeader(Ok(200), "x-frame-options", "own"))
  <2>1. Handled(SetHeader(Ok(200), "x-frame-options", "own"), app.dev)
        BY OkHandled, HeaderHandled
  <2>2. QED BY <1>2, <2>1 DEF Call
<1>3. CASE Answer(Render(Err(500, "inner"), app.dev))
      BY <1>3, RenderHandled DEF Call
<1>4. CASE \E attr \in {<<>>, <<409>>} : Answer(AppError(attr, app.dev))
  <2>1. PICK attr \in {<<>>, <<409>>} : Answer(AppError(attr, app.dev))
        BY <1>4
  <2>2. PICK status \in {409, 500} : AppError(attr, app.dev) = Render(Err(status, "none"), app.dev)
    <3>1. CASE attr = <<>>
          BY <3>1 DEF AppError
    <3>2. CASE attr = <<409>>
      <4>1. attr # <<>> /\ Len(attr) = 1 /\ attr[1] = 409
            BY <3>2
      <4>2. Last(attr) = 409
            BY <4>1 DEF Last
      <4>3. QED BY <4>1, <4>2 DEF AppError
    <3>3. QED BY <3>1, <3>2
  <2>3. QED BY <2>1, <2>2, RenderHandled DEF Call
<1>5. CASE Answer(JsonFails)
  <2>1. PICK r : r = JsonFails
        OBVIOUS
  <2>2. /\ DOMAIN r = {"ok", "status", "headers", "detail"} /\ r.ok = TRUE /\ r.status = 500
        /\ r.headers = <<>> /\ DOMAIN <<>> = {} /\ r.detail = "raw"
        BY <2>1, SeqShort DEF JsonFails, WithDetail, Ok
  <2>3. IsResult(r) /\ "x-frame-options" \notin DOMAIN r.headers /\ "status" \notin DOMAIN r.headers
        BY <2>2 DEF IsResult
  <2>4. Handled(r, app.dev)
        BY <2>2, <2>3 DEF Handled
  <2>5. QED BY <1>5, <2>1, <2>4 DEF Call
<1>6. QED BY <1>1, <1>2, <1>3, <1>4, <1>5 DEF Call

\* The 405 handler.
LEMMA CallNotAllowedEffect ==
  ASSUME CallNotAllowed
  PROVE  pc = "call" /\ \E res : Handled(res, app.dev) /\ Answer(res)
<1>1. PICK r : r = Render(Err(405, "none"), app.dev)
      OBVIOUS
<1>2. Handled(r, app.dev)
      BY <1>1, RenderHandled
<1>3. Handled(SetHeader(r, "allow", x.handler.allow), app.dev)
      BY <1>2, HeaderHandled
<1>4. QED BY <1>1, <1>3 DEF CallNotAllowed

\* A socket handler answers as well; only the history of the socket tells it from others.
LEMMA CallSocketEffect ==
  ASSUME ShapeInv, CallSocket
  PROVE  /\ pc = "call" /\ pc' = "leave" /\ DOMAIN x' = DOMAIN Fresh
         /\ Handled(x'.res, app.dev) /\ x'.ran = TRUE
         /\ x'.own => Has(x'.res, "x-frame-options") /\ x'.res.headers["x-frame-options"] = "own"
         /\ UNCHANGED <<app, env, x.req, x.route, x.handler, x.chain, x.idx, x.arg, x.values,
                        x.depth, x.failed, x.health>>
<1>1. \/ Answer(Ok(500)) \/ Answer(Ok(426))
      \/ /\ x' = [x EXCEPT !.res = Ok(101), !.ran = TRUE, !.socket = TRUE]
         /\ pc' = "leave" /\ UNCHANGED <<app, env, entry>>
      BY DEF CallSocket
<1>2. pc = "call" /\ ~x.own /\ DOMAIN x = DOMAIN Fresh
      BY DEF CallSocket, ShapeInv, Untouched
<1>3. CASE Answer(Ok(500))
  <2>1. PICK r : r = Ok(500)
        OBVIOUS
  <2>2. Handled(r, app.dev) /\ Answer(r)
        BY <1>3, <2>1, OkHandled
  <2>3. QED BY <1>2, <2>2, AnswerEffect
<1>4. CASE Answer(Ok(426))
  <2>1. PICK r : r = Ok(426)
        OBVIOUS
  <2>2. Handled(r, app.dev) /\ Answer(r)
        BY <1>4, <2>1, OkHandled
  <2>3. QED BY <1>2, <2>2, AnswerEffect
<1>5. CASE /\ x' = [x EXCEPT !.res = Ok(101), !.ran = TRUE, !.socket = TRUE]
           /\ pc' = "leave" /\ UNCHANGED <<app, env, entry>>
  <2>1. PICK r : r = Ok(101)
        OBVIOUS
  <2>2. Handled(r, app.dev)
        BY <2>1, OkHandled
  <2>3. /\ DOMAIN x' = DOMAIN Fresh /\ x'.res = r /\ x'.ran = TRUE /\ x'.own = x.own
        /\ UNCHANGED <<x.req, x.route, x.handler, x.chain, x.idx, x.arg, x.values,
                       x.depth, x.failed, x.health>>
        BY <1>2, <1>5, <2>1 DEF Fresh
  <2>4. QED BY <1>2, <1>5, <2>2, <2>3
<1>6. QED BY <1>1, <1>3, <1>4, <1>5

\* The health route answers by its checks.
LEMMA CallHealthEffect ==
  ASSUME ShapeInv, CallHealth
  PROVE  /\ pc = "call" /\ pc' = "leave" /\ DOMAIN x' = DOMAIN Fresh
         /\ IsResult(x'.res) /\ x'.res.ok /\ x'.res.status # 404
         /\ x'.res.detail = "inner" => app.dev
         /\ HealthAnswer(x'.health, x'.res)
         /\ x'.ran = TRUE /\ ~x'.own /\ x.handler.kind = "health"
         /\ UNCHANGED <<app, env, x.req, x.route, x.handler, x.chain, x.idx, x.arg, x.values,
                        x.depth, x.failed>>
<1>1. PICK outcome \in [app.checks -> {"passed", "failed", "timed_out", "panicked"}] :
         LET verdict == Verdict(outcome)
             res == Ok(IF verdict = "unhealthy" THEN 503 ELSE 200)
             shown == IF app.dev /\ verdict # "healthy" THEN WithDetail(res, "inner") ELSE res
         IN  x' = [x EXCEPT !.res = IF app.health.detailed THEN SetHeader(shown, "status", verdict) ELSE res,
                            !.ran = TRUE, !.health = outcome]
      BY DEF CallHealth
<1>2. PICK verdict : verdict = Verdict(outcome)
      OBVIOUS
<1>3. PICK status : status = IF verdict = "unhealthy" THEN 503 ELSE 200
      OBVIOUS
<1>4. PICK res : res = Ok(status)
      OBVIOUS
<1>5. PICK shown : shown = IF app.dev /\ verdict # "healthy" THEN WithDetail(res, "inner") ELSE res
      OBVIOUS
<1>6. PICK out : out = IF app.health.detailed THEN SetHeader(shown, "status", verdict) ELSE res
      OBVIOUS
<1>7. x' = [x EXCEPT !.res = out, !.ran = TRUE, !.health = outcome]
      BY <1>1, <1>2, <1>3, <1>4, <1>5, <1>6
<1>8. pc = "call" /\ ~x.own /\ DOMAIN x = DOMAIN Fresh /\ x.handler.kind = "health"
      BY DEF CallHealth, ShapeInv, Untouched
<1>9. /\ DOMAIN x' = DOMAIN Fresh /\ x'.res = out /\ x'.ran = TRUE /\ x'.own = x.own
      /\ x'.health = outcome
      /\ UNCHANGED <<x.req, x.route, x.handler, x.chain, x.idx, x.arg, x.values, x.depth, x.failed>>
      BY <1>7, <1>8 DEF Fresh
<1>10. /\ IsResult(res) /\ res.ok /\ res.status = status /\ res.detail = "none"
       /\ "status" \notin DOMAIN res.headers
       BY <1>4, OkHandled, SeqShort DEF Ok, IsResult
<1>11. /\ IsResult(shown) /\ shown.ok /\ shown.status = status /\ "status" \notin DOMAIN shown.headers
       /\ shown.detail = "inner" => app.dev
       BY <1>5, <1>10 DEF WithDetail, IsResult
<1>12. /\ IsResult(out) /\ out.ok /\ out.status = status
       /\ out.detail = "inner" => app.dev
       /\ "status" \in DOMAIN out.headers => out.headers["status"] = verdict
  <2>1. CASE app.health.detailed
        BY <1>6, <1>11, <2>1, SetHeaderKeeps
  <2>2. CASE ~app.health.detailed
        BY <1>6, <1>10, <2>2
  <2>3. QED BY <2>1, <2>2
<1>13. HealthAnswer(outcome, out)
  <2> DEFINE passed == {c \in DOMAIN outcome : outcome[c] = "passed"}
  <2>1. /\ verdict = "unhealthy" <=> (passed = {} /\ DOMAIN outcome # {})
        /\ verdict = "healthy" <=> passed = DOMAIN outcome
        BY <1>2 DEF Verdict
  <2>2. status = 503 <=> verdict = "unhealthy"
        BY <1>3
  <2>3. QED BY <1>12, <2>1, <2>2 DEF HealthAnswer
<1>14. status # 404
       BY <1>3
<1>15. pc' = "leave" /\ UNCHANGED <<app, env>>
       BY DEF CallHealth
<1>16. QED BY <1>8, <1>9, <1>12, <1>13, <1>14, <1>15

\* A middleware resumes.
LEMMA LeaveEffect ==
  ASSUME ShapeInv, Leave
  PROVE  LET res == After(x.chain[x.idx], x.req, x.res)
         IN  /\ pc = "leave" /\ pc' = "leave" /\ x.idx > 0 /\ DOMAIN x' = DOMAIN Fresh
             /\ x'.res = res /\ x'.idx = x.idx - 1
             /\ x'.failed = (x.failed \/ ~res.ok)
             /\ UNCHANGED <<app, env, x.req, x.route, x.handler, x.chain, x.arg, x.values, x.depth,
                            x.ran, x.own, x.health>>
<1>1. PICK res : res = After(x.chain[x.idx], x.req, x.res)
      OBVIOUS
<1>2. /\ pc = "leave" /\ pc' = "leave" /\ x.idx > 0 /\ UNCHANGED <<app, env>>
      /\ x' = [x EXCEPT !.res = res, !.idx = @ - 1, !.failed = @ \/ ~res.ok]
      BY <1>1 DEF Leave
<1>3. DOMAIN x = DOMAIN Fresh
      BY DEF ShapeInv
<1>4. QED BY <1>1, <1>2, <1>3 DEF Fresh

\* What has come all the way out is rendered.
LEMMA FinishEffect ==
  ASSUME ShapeInv, Finish
  PROVE  /\ pc = "leave" /\ pc' = "done" /\ x.idx = 0 /\ DOMAIN x' = DOMAIN Fresh
         /\ \/ x.res.ok /\ x'.res = x.res
            \/ ~x.res.ok /\ x'.res = Render(x.res, app.dev)
         /\ UNCHANGED <<app, env, x.req, x.route, x.handler, x.chain, x.idx, x.arg, x.values, x.depth,
                        x.failed, x.ran, x.own, x.health>>
<1>1. PICK res : res = IF x.res.ok THEN x.res ELSE Render(x.res, app.dev)
      OBVIOUS
<1>2. /\ pc = "leave" /\ pc' = "done" /\ x.idx = 0 /\ UNCHANGED <<app, env>>
      /\ x' = [x EXCEPT !.res = res]
      BY <1>1 DEF Finish
<1>3. DOMAIN x = DOMAIN Fresh
      BY DEF ShapeInv
<1>4. QED BY <1>1, <1>2, <1>3 DEF Fresh

\* ------------------------------------------------------------- the invariant

\* Only starting changes the app, and only a served app has a connection.
LEMMA AppKept ==
  ASSUME ShapeInv, [Next]_vars, ~Start
  PROVE  UNCHANGED <<app, env>> /\ (pc' \notin {"start", "panicked"} => pc \notin {"start", "panicked"})
<1>1. CASE UNCHANGED vars
      BY <1>1 DEF vars
<1>2. CASE \E req \in Requests : Receive(req) \/ Send(req)
      BY <1>2 DEF Receive, Send
<1>3. CASE Route \/ Enter \/ Inside \/ Extract
      BY <1>3 DEF Route, Enter, Inside, Extract
<1>4. CASE Call \/ CallNotAllowed \/ CallSocket
      BY <1>4 DEF Call, CallNotAllowed, CallSocket, Answer
<1>5. CASE Panic \/ CallHealth \/ Leave \/ Finish
      BY <1>5 DEF Panic, CallHealth, Leave, Finish
<1>6. QED BY <1>1, <1>2, <1>3, <1>4, <1>5 DEF Next

\* Starting.
LEMMA StartApp ==
  ASSUME NEW a, NEW e, NEW how, WellBuilt(a), Loads(a, e)
  PROVE  LET b == Started(a, e, how)
         IN  /\ WellBuilt(b) /\ b.dev = (Detect(e) = "development") /\ Loads(b, e)
             /\ b.config # <<>> => b.state["Config"] = Config(b, e)
<1>1. PICK b : b = Started(a, e, how)
      OBVIOUS
<1>2. /\ WellBuilt(b) /\ b.dev = (Detect(e) = "development") /\ b.config = a.config
      /\ a.config # <<>> => b.state["Config"] = Config(a, e)
      BY <1>1, StartedWellBuilt
<1>3. Loads(b, e) /\ Config(b, e) = Config(a, e)
      BY <1>2 DEF Loads, Config
<1>4. QED BY <1>1, <1>2, <1>3

\* The app keeps what its builders and its start guarantee.
LEMMA AppStep ==
  ASSUME AppInv, ShapeInv, [Next]_vars
  PROVE  AppInv'
<1>1. CASE Start
  <2>1. CASE Loads(app, env)
    <3>1. app' = Started(app, env, entry) /\ UNCHANGED env /\ pc' = "idle"
          BY <1>1, <2>1 DEF Start
    <3>2. /\ WellBuilt(app') /\ app'.dev = (Detect(env) = "development") /\ Loads(app', env)
          /\ app'.config # <<>> => app'.state["Config"] = Config(app', env)
          BY <2>1, <3>1, StartApp DEF AppInv
    <3>3. QED BY <3>1, <3>2 DEF AppInv
  <2>2. CASE ~Loads(app, env)
        BY <1>1, <2>2 DEF Start, AppInv
  <2>3. QED BY <2>1, <2>2
<1>2. CASE ~Start
  <2>1. UNCHANGED <<app, env>> /\ (pc' \notin {"start", "panicked"} => pc \notin {"start", "panicked"})
        BY <1>2, AppKept
  <2>2. QED BY <2>1 DEF AppInv
<1>3. QED BY <1>1, <1>2

\* What is loaded is usable.
LEMMA LoadedSound ==
  ASSUME NEW f, IsField(f), NEW e, IsEnvironment(e), LoadField(f, e).ok
  PROVE  LET v == LoadField(f, e)
         IN  /\ v.value = Absent => f.option
             /\ v.value # Absent => ConfigParses(v.value, f.type)
             /\ f.env \in DOMAIN e.vars => v.value = e.vars[f.env]
             /\ v.from = "default" => f.name \notin DOMAIN e.files["default"]
<1>1. PICK v : v = LoadField(f, e)
      OBVIOUS
<1>2. CASE f.env \in DOMAIN e.vars
  <2>1. v = Loaded("env", e.vars[f.env]) /\ ConfigParses(e.vars[f.env], f.type)
        BY <1>1, <1>2 DEF LoadField, LoadError
  <2>2. e.vars[f.env] # Absent
        BY <1>2 DEF IsEnvironment
  <2>3. v.value = e.vars[f.env] /\ v.from = "env"
        BY <2>1 DEF Loaded
  <2>4. QED BY <1>1, <2>1, <2>2, <2>3
<1>3. CASE f.env \notin DOMAIN e.vars
  <2>1. PICK toml : toml = Toml(e)
        OBVIOUS
  <2>2. v = LoadToml(f, toml)
        BY <1>1, <1>3, <2>1 DEF LoadField
  <2>3. CASE f.name \in DOMAIN toml
    <3>1. v = Loaded("toml", toml[f.name]) /\ ConfigParses(toml[f.name], f.type)
          BY <1>1, <2>2, <2>3 DEF LoadToml, LoadError
    <3>2. toml[f.name] # Absent
          BY <2>1, <2>3 DEF Toml, IsEnvironment
    <3>3. v.value = toml[f.name] /\ v.from = "toml"
          BY <3>1 DEF Loaded
    <3>4. QED BY <1>1, <1>3, <3>1, <3>2, <3>3
  <2>4. CASE f.name \notin DOMAIN toml /\ f.option
    <3>1. v = Loaded("none", Absent)
          BY <2>2, <2>4 DEF LoadToml
    <3>2. QED BY <1>1, <1>3, <2>4, <3>1 DEF Loaded
  <2>5. CASE f.name \notin DOMAIN toml /\ ~f.option
    <3>1. v = Loaded("default", f.default) /\ f.default # Absent
          BY <1>1, <2>2, <2>5 DEF LoadToml, LoadError
    <3>2. ConfigParses(f.default, f.type)
          BY <3>1 DEF IsField
    <3>3. f.name \notin DOMAIN e.files["default"]
          BY <2>1, <2>5 DEF Toml
    <3>4. QED BY <1>1, <1>3, <3>1, <3>2, <3>3 DEF Loaded
  <2>6. QED BY <2>3, <2>4, <2>5
<1>4. QED BY <1>2, <1>3

\* An app that serves has a sound configuration.
LEMMA StartupFollows ==
  ASSUME AppInv
  PROVE  StartupSound
<1> SUFFICES ASSUME pc \notin {"start", "panicked"}, NEW i \in DOMAIN app.config
             PROVE  LET f == app.config[i]
                        v == app.state["Config"][i]
                    IN  /\ v.value = Absent => f.option
                        /\ v.value # Absent => ConfigParses(v.value, f.type)
                        /\ f.env \in DOMAIN env.vars => v.value = env.vars[f.env]
                        /\ v.from = "default" => f.name \notin DOMAIN env.files["default"]
    BY DEF StartupSound
<1>1. app.config # <<>>
      BY SeqShort
<1>2. PICK f : f = app.config[i]
      OBVIOUS
<1>3. LoadField(f, env).ok /\ app.state["Config"][i] = LoadField(f, env)
      BY <1>1, <1>2 DEF AppInv, Loads, Config
<1>4. IsField(f) /\ IsEnvironment(env)
      BY <1>2, PipelineAssumption DEF AppInv, WellBuilt
<1>5. PICK v : v = LoadField(f, env)
      OBVIOUS
<1>6. /\ v.value = Absent => f.option
      /\ v.value # Absent => ConfigParses(v.value, f.type)
      /\ f.env \in DOMAIN env.vars => v.value = env.vars[f.env]
      /\ v.from = "default" => f.name \notin DOMAIN env.files["default"]
      BY <1>3, <1>4, <1>5, LoadedSound
<1>7. QED BY <1>2, <1>3, <1>5, <1>6

\* Two pieces of a chain are a chain.
LEMMA ChainConcat ==
  ASSUME NEW s, NEW t, AreMiddleware(s), AreMiddleware(t)
  PROVE  AreMiddleware(s \o t)
<1>1. PICK g : g = s \o t
      OBVIOUS
<1>2. IsSeq(s) /\ IsSeq(t)
      BY DEF AreMiddleware
<1>3. /\ IsSeq(g) /\ Len(s) \in Nat /\ Len(t) \in Nat
      /\ DOMAIN s = 1 .. Len(s) /\ DOMAIN t = 1 .. Len(t) /\ DOMAIN g = 1 .. Len(s) + Len(t)
      /\ \A i \in DOMAIN s : g[i] = s[i]
      /\ \A i \in DOMAIN t : g[Len(s) + i] = t[i]
      BY <1>1, <1>2, SeqConcat
<1>4. ASSUME NEW i \in DOMAIN g PROVE IsMiddleware(g[i])
  <2>1. CASE i \in DOMAIN s
        BY <1>3, <2>1 DEF AreMiddleware
  <2>2. CASE i \notin DOMAIN s
    <3>1. i - Len(s) \in DOMAIN t /\ Len(s) + (i - Len(s)) = i
          BY <1>3, <2>2
    <3>2. g[i] = t[i - Len(s)]
          BY <3>1, <1>3
    <3>3. QED BY <3>1, <3>2 DEF AreMiddleware
  <2>3. QED BY <2>1, <2>2
<1>5. QED BY <1>1, <1>3, <1>4 DEF AreMiddleware

\* The routes of an app are routes.
LEMMA RoutesBuilt ==
  ASSUME NEW a, WellBuilt(a)
  PROVE  AreRoutes(a.router.routes)
BY DEF WellBuilt, IsRoute, AreRoutes

\* A route that find() returns is one of those registered.
LEMMA FoundRegistered ==
  ASSUME NEW a, WellBuilt(a), NEW method, NEW path, NEW r, r = Find(a.router.routes, method, path)
  PROVE  /\ Chosen(a.router.routes, method, SplitPath(path), DOMAIN a.router.routes, r)
         /\ Found(r) => IsRoute(r) /\ \E i \in DOMAIN a.router.routes : r = a.router.routes[i]
<1>1. Chosen(a.router.routes, method, SplitPath(path), DOMAIN a.router.routes, r)
      BY RoutesBuilt, FindChosen
<1>2. ASSUME Found(r) PROVE \E i \in DOMAIN a.router.routes : r = a.router.routes[i]
      BY <1>1, <1>2 DEF Chosen, Found, NoRoute, Candidates
<1>3. QED BY <1>1, <1>2 DEF WellBuilt

\* The middleware around the 405 handler is that of a registered route.
LEMMA FirstRegistered ==
  ASSUME NEW a, WellBuilt(a), NEW path, AllowedMethods(a.router.routes, path) # {}
  PROVE  AreMiddleware(MiddlewareForPath(a.router.routes, path))
<1> DEFINE R == a.router.routes
<1>1. Matching(R, path) # {} /\ Matching(R, path) \in SUBSET DOMAIN R
      BY DEF AllowedMethods, Matching
<1>2. DOMAIN R = 1 .. Len(R) /\ Len(R) \in Nat
      BY SeqShape DEF WellBuilt
<1>3. PICK m \in Matching(R, path) : m = Min(Matching(R, path))
      BY <1>1, <1>2, LeastNatural
<1>4. IsRoute(R[m])
      BY <1>1, <1>3 DEF WellBuilt
<1>5. QED BY <1>3, <1>4 DEF MiddlewareForPath, IsRoute

\* What is true of an exchange nothing has been decided about.
LEMMA BlankShape ==
  /\ AreMiddleware(<<>>) /\ Len(<<>>) = 0
  /\ \A status : IsResult(Ok(status)) /\ Ok(status).ok /\ Ok(status).status = status
  /\ Blank(Fresh) /\ Fresh.res = Ok(200)
<1>1. AreMiddleware(<<>>) /\ Len(<<>>) = 0
      BY SeqShort DEF AreMiddleware
<1>2. ASSUME NEW status PROVE IsResult(Ok(status)) /\ Ok(status).ok /\ Ok(status).status = status
      BY DEF Ok, IsResult
<1>3. Blank(Fresh) /\ Fresh.res = Ok(200)
      BY DEF Blank, Fresh
<1>4. QED BY <1>1, <1>2, <1>3

\* So it has its shape.
LEMMA BlankShaped ==
  ASSUME NEW y, Blank(y)
  PROVE  /\ DOMAIN y = DOMAIN Fresh /\ AreMiddleware(y.chain)
         /\ y.idx \in 0 .. Len(y.chain) /\ y.depth \in y.idx .. Len(y.chain)
         /\ y.failed \in BOOLEAN /\ y.ran \in BOOLEAN /\ ~y.failed /\ ~y.ran /\ ~y.own /\ y.health = <<>>
         /\ y.chain = <<>> /\ y.idx = 0 /\ y.depth = 0 /\ y.handler = NotFound /\ y.route = NoRoute
         /\ y.arg = 1 /\ y.values = <<>>
<1>1. y.failed \in BOOLEAN /\ y.ran \in BOOLEAN /\ ~y.failed /\ ~y.ran /\ ~y.own
      BY DEF Blank
<1>2. AreMiddleware(y.chain) /\ Len(y.chain) = 0
      BY BlankShape DEF Blank
<1>3. y.idx \in 0 .. Len(y.chain) /\ y.depth \in y.idx .. Len(y.chain)
      BY <1>2 DEF Blank
<1>4. QED BY <1>1, <1>2, <1>3 DEF Blank

\* The handler that runs is one of a registered route.
LEMMA HandlerBuilt ==
  ASSUME AppInv, RouteInv, x.handler.kind \notin {"none", "not_allowed"}
  PROVE  \E i \in DOMAIN app.router.routes :
            /\ IsRoute(app.router.routes[i]) /\ x.handler = app.router.routes[i].handler
            /\ x.chain = app.global \o app.router.routes[i].middleware
<1> DEFINE R == app.router.routes
<1>1. /\ Found(x.route) /\ Chosen(R, x.req.method, SplitPath(x.req.path), DOMAIN R, x.route)
      /\ x.handler = x.route.handler /\ x.chain = app.global \o x.route.middleware
      BY DEF RouteInv, Origin
<1>2. PICK i \in DOMAIN R : x.route = R[i]
      BY <1>1 DEF Chosen, Found, NoRoute, Candidates
<1>3. QED BY <1>1, <1>2 DEF AppInv, WellBuilt

\* An argument that is asked for is one there is.
LEMMA ArgumentBuilt ==
  ASSUME AppInv, ShapeInv, RouteInv, ArgumentInv, pc = "extract",
         ~(x.arg > Len(x.handler.args))
  PROVE  x.arg \in DOMAIN x.handler.args /\ x.handler.args[x.arg].kind \in ArgumentKinds
<1>1. x.handler.kind = "fn"
      BY DEF ShapeInv
<1>2. IsHandler(x.handler)
      BY <1>1, HandlerBuilt DEF IsRoute
<1>3. /\ Len(x.handler.args) \in Nat /\ DOMAIN x.handler.args = 1 .. Len(x.handler.args)
      /\ \A i \in DOMAIN x.handler.args : x.handler.args[i].kind \in ArgumentKinds
      BY <1>1, <1>2, SeqShape DEF IsHandler
<1>4. x.arg \in 1 .. Len(x.handler.args) + 1
      BY <1>1 DEF ArgumentInv, Made
<1>5. QED BY <1>3, <1>4

\* An exchange has the shape its place calls for.
LEMMA ShapeStep ==
  ASSUME AppInv, ShapeInv, RouteInv, ArgumentInv, [Next]_vars
  PROVE  ShapeInv'
<1>1. CASE UNCHANGED vars
      BY <1>1 DEF vars, ShapeInv, Untouched
<1>2. CASE Start
      BY <1>2 DEF Start, ShapeInv, Untouched
<1>3. ASSUME NEW req \in Requests, Receive(req) \/ Send(req) PROVE ShapeInv'
  <2>1. /\ Blank(x') /\ x'.req = req
        /\ \/ pc' = "route" /\ x'.res = Ok(200)
           \/ pc' = "done" /\ \E status \in {400, 413} : x'.res = Ok(status)
        BY <1>3, ArriveEffect
  <2>2. AreMiddleware(x'.chain) /\ Len(x'.chain) = 0 /\ IsResult(x'.res) /\ x'.res.ok
        BY <2>1, BlankShape DEF Blank
  <2>3. /\ DOMAIN x' = DOMAIN Fresh /\ x'.idx \in 0 .. Len(x'.chain) /\ x'.depth \in x'.idx .. Len(x'.chain)
        /\ x'.failed \in BOOLEAN /\ x'.ran \in BOOLEAN /\ ~x'.ran /\ ~x'.own /\ x'.health = <<>>
        /\ x'.chain = <<>> /\ x'.idx = 0 /\ x'.handler = NotFound /\ x'.route = NoRoute
        /\ x'.arg = 1 /\ x'.values = <<>>
        BY <2>1, BlankShaped
  <2>4. x'.res = Ok(200) => Untouched(x)'
        BY <2>1 DEF Blank, Untouched
  <2>5. x'.req \in Requests
        BY <2>1
  <2>6. CASE pc' = "route" /\ x'.res = Ok(200)
        BY <2>2, <2>3, <2>4, <2>5, <2>6 DEF ShapeInv
  <2>7. CASE pc' = "done"
        BY <2>2, <2>3, <2>5, <2>7 DEF ShapeInv
  <2>8. QED BY <2>1, <2>6, <2>7
<1>4. CASE Route
  <2>1. /\ pc = "route" /\ Untouched(x) /\ x.idx = 0 /\ x.arg = 1 /\ x.values = <<>>
        /\ x.req \in Requests /\ IsResult(x.res) /\ x.failed \in BOOLEAN /\ x.ran \in BOOLEAN
        BY <1>4 DEF ShapeInv, Route
  <2>2. CASE Found(Find(app.router.routes, x.req.method, x.req.path))
    <3>1. /\ pc' = "enter" /\ DOMAIN x' = DOMAIN Fresh
          /\ x'.route = Find(app.router.routes, x.req.method, x.req.path)
          /\ x'.chain = app.global \o x'.route.middleware
          /\ UNCHANGED <<x.req, x.idx, x.arg, x.values, x.res, x.depth, x.failed, x.ran, x.own, x.health>>
          BY <1>4, <2>2, FoundEffect
    <3>2. AreMiddleware(x'.route.middleware) /\ AreMiddleware(app.global)
      <4>1. PICK r : r = Find(app.router.routes, x.req.method, x.req.path)
            OBVIOUS
      <4>2. IsRoute(r) /\ x'.route = r
            BY <2>2, <3>1, <4>1, FoundRegistered DEF AppInv
      <4>3. QED BY <4>2 DEF AppInv, IsRoute, WellBuilt
    <3>3. AreMiddleware(x'.chain)
          BY <3>1, <3>2, ChainConcat
    <3>4. Len(x'.chain) \in Nat
          BY <3>3, SeqShape DEF AreMiddleware
    <3>5. pc' = "enter" /\ DOMAIN x' = DOMAIN Fresh
          BY <3>1
    <3>6. UNCHANGED <<x.req, x.idx, x.arg, x.values, x.res, x.depth, x.failed, x.ran, x.own, x.health>>
          BY <3>1
    <3>7. QED BY <2>1, <3>3, <3>4, <3>5, <3>6 DEF ShapeInv, Untouched
  <2>3. CASE /\ ~Found(Find(app.router.routes, x.req.method, x.req.path))
             /\ AllowedMethods(app.router.routes, x.req.path) # {}
    <3>1. /\ pc' = "enter" /\ DOMAIN x' = DOMAIN Fresh
          /\ x'.chain = app.global \o MiddlewareForPath(app.router.routes, x.req.path)
          /\ UNCHANGED <<x.req, x.idx, x.arg, x.values, x.res, x.depth, x.failed, x.ran, x.own, x.health>>
          BY <1>4, <2>3, NotAllowedEffect
    <3>2. AreMiddleware(MiddlewareForPath(app.router.routes, x.req.path)) /\ AreMiddleware(app.global)
          BY <2>3, FirstRegistered DEF AppInv, WellBuilt
    <3>3. AreMiddleware(x'.chain)
          BY <3>1, <3>2, ChainConcat
    <3>4. Len(x'.chain) \in Nat
          BY <3>3, SeqShape DEF AreMiddleware
    <3>5. pc' = "enter" /\ DOMAIN x' = DOMAIN Fresh
          BY <3>1
    <3>6. UNCHANGED <<x.req, x.idx, x.arg, x.values, x.res, x.depth, x.failed, x.ran, x.own, x.health>>
          BY <3>1
    <3>7. QED BY <2>1, <3>3, <3>4, <3>5, <3>6 DEF ShapeInv, Untouched
  <2>4. CASE /\ ~Found(Find(app.router.routes, x.req.method, x.req.path))
             /\ AllowedMethods(app.router.routes, x.req.path) = {}
    <3>1. /\ pc' = "done" /\ DOMAIN x' = DOMAIN Fresh
          /\ x'.res = Render(Err(404, "none"), app.dev)
          /\ UNCHANGED <<x.chain, x.idx, x.depth, x.failed, x.ran, x.own, x.health>>
          BY <1>4, <2>4, NotFoundEffect
    <3>2. IsResult(x'.res) /\ x'.res.ok
          BY <3>1 DEF Render, Err, IsResult
    <3>3. QED BY <2>1, <3>1, <3>2 DEF ShapeInv, Untouched
  <2>5. QED BY <2>2, <2>3, <2>4
<1>5. CASE Enter
  <2>1. PICK b : b = Before(x.chain[x.idx + 1], x.req, x.per, app)
        OBVIOUS
  <2>2. /\ pc = "enter" /\ x.idx < Len(x.chain) /\ DOMAIN x' = DOMAIN Fresh
        /\ \/ /\ b.go /\ pc' = "enter" /\ x'.idx = x.idx + 1 /\ x'.depth = x.idx + 1
              /\ UNCHANGED <<x.res, x.failed>>
           \/ /\ ~b.go /\ pc' = "leave" /\ x'.res = b.res /\ x'.failed = ~b.res.ok
              /\ UNCHANGED <<x.idx, x.depth>>
        /\ UNCHANGED <<x.req, x.chain, x.arg, x.values, x.ran, x.own, x.health>>
        BY <1>5, <2>1, EnterEffect
  <2>3. ~b.go => IsResult(b.res)
        BY <2>1, BeforeDecides DEF Decides
  <2>4. b.res.ok \in BOOLEAN \/ b.go
        BY <2>3 DEF IsResult
  <2>5. AreMiddleware(x.chain) /\ Len(x.chain) \in Nat
        BY SeqShape DEF ShapeInv, AreMiddleware
  <2>6. CASE b.go
        BY <2>2, <2>5, <2>6 DEF ShapeInv, Untouched
  <2>7. CASE ~b.go
        BY <2>2, <2>3, <2>4, <2>5, <2>7 DEF ShapeInv, Untouched
  <2>8. QED BY <2>6, <2>7
<1>6. CASE Inside
  <2>1. x.handler.kind = "fn" => pc' = "extract"
        BY <1>6 DEF Inside
  <2>2. QED BY <1>6, <2>1 DEF Inside, ShapeInv, Untouched
<1>7. CASE Extract
  <2>1. PICK arg : arg = x.handler.args[x.arg]
        OBVIOUS
  <2>2. PICK v : v = FromRequest(arg, x.req, x.params, x.per, x.body, app)
        OBVIOUS
  <2>3. /\ pc = "extract"
        /\ \/ x.arg > Len(x.handler.args) /\ pc' = "call" /\ UNCHANGED x
           \/ /\ ~(x.arg > Len(x.handler.args)) /\ v.ok /\ pc' = "extract"
              /\ DOMAIN x' = DOMAIN Fresh /\ UNCHANGED x.res
           \/ /\ ~(x.arg > Len(x.handler.args)) /\ ~v.ok /\ pc' = "leave"
              /\ DOMAIN x' = DOMAIN Fresh /\ x'.res = v.res
        /\ UNCHANGED <<x.req, x.handler, x.chain, x.idx, x.depth, x.failed, x.ran, x.own, x.health>>
        BY <1>7, <2>1, <2>2, ExtractEffect
  <2>4. CASE x.arg > Len(x.handler.args)
        BY <2>3, <2>4 DEF ShapeInv, Untouched
  <2>5. CASE ~(x.arg > Len(x.handler.args)) /\ v.ok
        BY <2>3, <2>5 DEF ShapeInv, Untouched
  <2>6. CASE ~(x.arg > Len(x.handler.args)) /\ ~v.ok
    <3>1. arg.kind \in ArgumentKinds
          BY <2>1, <2>3, <2>6, ArgumentBuilt
    <3>2. IsResult(v.res) /\ v.res.ok
          BY <2>2, <2>6, <3>1, ExtractorsFail DEF Fails
    <3>3. QED BY <2>3, <2>6, <3>2 DEF ShapeInv, Untouched
  <2>7. QED BY <2>3, <2>4, <2>5, <2>6
<1>8. CASE Call \/ CallNotAllowed \/ CallSocket \/ CallHealth
  <2>1. pc = "call"
        BY <1>8 DEF Call, CallNotAllowed, CallSocket, CallHealth
  <2>2. /\ pc' = "leave" /\ DOMAIN x' = DOMAIN Fresh /\ IsResult(x'.res) /\ x'.res.ok /\ x'.ran = TRUE
        /\ UNCHANGED <<x.req, x.handler, x.chain, x.idx, x.depth, x.failed>>
    <3>1. CASE Call \/ CallNotAllowed
      <4>1. PICK res : Handled(res, app.dev) /\ Answer(res)
            BY <3>1, CallEffect, CallNotAllowedEffect
      <4>2. /\ pc' = "leave" /\ DOMAIN x' = DOMAIN Fresh /\ x'.res = res /\ x'.ran = TRUE
            /\ UNCHANGED <<x.req, x.handler, x.chain, x.idx, x.depth, x.failed>>
            BY <4>1, AnswerEffect
      <4>3. QED BY <4>1, <4>2 DEF Handled
    <3>2. CASE CallSocket
          BY <3>2, CallSocketEffect DEF Handled
    <3>3. CASE CallHealth
          BY <3>3, CallHealthEffect
    <3>4. QED BY <1>8, <3>1, <3>2, <3>3
  <2>3. QED BY <2>1, <2>2 DEF ShapeInv, Untouched
<1>9. CASE Panic
  <2>1. x' = Fresh /\ pc' = "idle"
        BY <1>9 DEF Panic
  <2>2. Blank(x') /\ x'.res = Ok(200)
        BY <2>1, BlankShape
  <2>3. AreMiddleware(x'.chain) /\ Len(x'.chain) = 0 /\ IsResult(x'.res)
        BY <2>2, BlankShape DEF Blank
  <2>4. /\ DOMAIN x' = DOMAIN Fresh /\ x'.idx \in 0 .. Len(x'.chain) /\ x'.depth \in x'.idx .. Len(x'.chain)
        /\ x'.failed \in BOOLEAN /\ x'.ran \in BOOLEAN /\ ~x'.ran /\ ~x'.own /\ x'.health = <<>>
        BY <2>2, BlankShaped
  <2>5. QED BY <2>1, <2>3, <2>4 DEF ShapeInv
<1>10. CASE Leave
  <2>1. PICK res : res = After(x.chain[x.idx], x.req, x.res)
        OBVIOUS
  <2>2. /\ pc = "leave" /\ pc' = "leave" /\ x.idx > 0 /\ DOMAIN x' = DOMAIN Fresh
        /\ x'.res = res /\ x'.idx = x.idx - 1 /\ x'.failed = (x.failed \/ ~res.ok)
        /\ UNCHANGED <<x.req, x.handler, x.chain, x.depth, x.ran, x.own, x.health>>
        BY <1>10, <2>1, LeaveEffect
  <2>3. AreMiddleware(x.chain) /\ Len(x.chain) \in Nat /\ x.idx \in DOMAIN x.chain
        BY <2>2, SeqShape DEF ShapeInv, AreMiddleware
  <2>4. IsResult(res)
    <3>1. IsMiddleware(x.chain[x.idx]) /\ IsResult(x.res)
          BY <2>3 DEF AreMiddleware, ShapeInv
    <3>2. QED BY <2>1, <3>1, AfterKeeps
  <2>5. res.ok \in BOOLEAN
        BY <2>4 DEF IsResult
  <2>6. x'.failed \in BOOLEAN /\ (~x'.failed => res.ok)
        BY <2>2, <2>5 DEF ShapeInv
  <2>7. QED BY <2>2, <2>3, <2>4, <2>6 DEF ShapeInv
<1>11. CASE Finish
  <2>1. /\ pc = "leave" /\ pc' = "done" /\ x.idx = 0 /\ DOMAIN x' = DOMAIN Fresh
        /\ \/ x.res.ok /\ x'.res = x.res
           \/ ~x.res.ok /\ x'.res = Render(x.res, app.dev)
        /\ UNCHANGED <<x.req, x.handler, x.chain, x.idx, x.depth, x.failed, x.ran, x.own, x.health>>
        BY <1>11, FinishEffect
  <2>2. IsResult(x'.res) /\ x'.res.ok
    <3>1. IsResult(x.res)
          BY DEF ShapeInv
    <3>2. QED BY <2>1, <3>1 DEF Render, IsResult
  <2>3. QED BY <2>1, <2>2 DEF ShapeInv
<1>12. QED BY <1>1, <1>2, <1>3, <1>4, <1>5, <1>6, <1>7, <1>8, <1>9, <1>10, <1>11 DEF Next

\* Steps after the choice leave it alone, and none of them says that nothing is there.
LEMMA RouteKept ==
  ASSUME RouteInv, UNCHANGED <<app, x.req, x.route, x.handler, x.chain>>,
         pc' \in {"enter", "extract", "call"} => pc \in {"enter", "extract", "call"},
         x'.res.status # 404
  PROVE  RouteInv'
BY DEF RouteInv

\* Nor is there a choice for an exchange nothing has been decided about.
LEMMA RouteBlank ==
  ASSUME Blank(x'), pc' \notin {"enter", "extract", "call"}, x'.res.status # 404
  PROVE  RouteInv'
<1>1. /\ ~Found(x'.route) /\ x'.handler.kind = "none"
      BY DEF Blank, NoRoute, NotFound, Found
<1>2. Origin(app'.router.routes, app'.global, x'.req, x'.route, x'.handler, x'.chain)
      BY <1>1 DEF Origin
<1>3. QED BY <1>1, <1>2 DEF RouteInv

\* find() found nothing: there is no candidate.
LEMMA NoCandidate ==
  ASSUME NEW a, WellBuilt(a), NEW method, NEW path, ~Found(Find(a.router.routes, method, path))
  PROVE  Candidates(a.router.routes, method, SplitPath(path), DOMAIN a.router.routes) = {}
<1>1. PICK r : r = Find(a.router.routes, method, path)
      OBVIOUS
<1>2. Chosen(a.router.routes, method, SplitPath(path), DOMAIN a.router.routes, r)
      BY <1>1, FoundRegistered
<1>3. \A i \in DOMAIN a.router.routes : Found(a.router.routes[i])
      BY DEF WellBuilt, IsRoute
<1> DEFINE C == Candidates(a.router.routes, method, SplitPath(path), DOMAIN a.router.routes)
<1>4. C \in SUBSET DOMAIN a.router.routes
      BY DEF Candidates
<1>5. C = {} \/ \E i \in C : r = a.router.routes[i]
      BY <1>2 DEF Chosen
<1>6. QED BY <1>1, <1>3, <1>4, <1>5

\* The handler and the chain stay those of the route chosen.
LEMMA RouteStep ==
  ASSUME AppInv, ShapeInv, RouteInv, ArgumentInv, [Next]_vars
  PROVE  RouteInv'
<1>1. CASE UNCHANGED vars
      BY <1>1 DEF vars, RouteInv
<1>2. CASE Start
  <2>1. Blank(x') /\ x'.res = Ok(200) /\ pc' \in {"idle", "panicked"}
        BY <1>2, BlankShape DEF Start, ShapeInv
  <2>2. QED BY <2>1, BlankShape, RouteBlank
<1>3. ASSUME NEW req \in Requests, Receive(req) \/ Send(req) PROVE RouteInv'
  <2>1. /\ Blank(x') /\ pc' \in {"route", "done"}
        /\ \E status \in {200, 400, 413} : x'.res = Ok(status)
        BY <1>3, ArriveEffect
  <2>2. x'.res.status # 404
        BY <2>1, BlankShape
  <2>3. QED BY <2>1, <2>2, RouteBlank
<1>4. CASE Route
  <2> DEFINE R == app.router.routes
  <2>1. PICK r : r = Find(R, x.req.method, x.req.path)
        OBVIOUS
  <2>2. x.res.status = 200 /\ ~Found(x.route) /\ x.handler.kind = "none"
    <3>1. Untouched(x) /\ x.handler = NotFound /\ x.route = NoRoute
          BY <1>4 DEF ShapeInv, Route
    <3>2. QED BY <3>1, BlankShape DEF Untouched, NoRoute, NotFound, Found
  <2>3. CASE Found(r)
    <3>1. /\ x'.route = r /\ x'.handler = r.handler /\ x'.chain = app.global \o r.middleware
          /\ UNCHANGED <<app, x.req, x.res>>
          BY <1>4, <2>1, <2>3, FoundEffect
    <3>2. Chosen(R, x.req.method, SplitPath(x.req.path), DOMAIN R, r) /\ IsRoute(r)
          BY <2>1, <2>3, FoundRegistered DEF AppInv
    <3>3. r.handler.kind \notin {"none", "not_allowed"}
          BY <3>2 DEF IsRoute, IsHandler
    <3>4. Origin(app'.router.routes, app'.global, x'.req, x'.route, x'.handler, x'.chain)
          BY <2>3, <3>1, <3>2, <3>3 DEF Origin
    <3>5. QED BY <2>2, <3>1, <3>3, <3>4 DEF RouteInv
  <2>4. CASE ~Found(r) /\ AllowedMethods(R, x.req.path) # {}
    <3>1. PICK allowed : allowed = AllowedMethods(R, x.req.path)
          OBVIOUS
    <3>2. /\ x'.handler = [kind |-> "not_allowed", allow |-> allowed]
          /\ UNCHANGED <<app, x.req, x.res, x.route>>
          BY <1>4, <2>1, <2>4, <3>1, NotAllowedEffect
    <3>3. Candidates(R, x.req.method, SplitPath(x.req.path), DOMAIN R) = {}
          BY <2>1, <2>4, NoCandidate DEF AppInv
    <3>4. x'.handler.kind = "not_allowed" /\ x'.handler.allow = allowed
          BY <3>2
    <3>5. UNCHANGED <<app, x.req, x.res, x.route>>
          BY <3>2
    <3>6. Origin(app'.router.routes, app'.global, x'.req, x'.route, x'.handler, x'.chain)
          BY <2>2, <3>1, <3>3, <3>4, <3>5 DEF Origin
    <3>7. QED BY <2>2, <3>4, <3>5, <3>6 DEF RouteInv
  <2>5. CASE ~Found(r) /\ AllowedMethods(R, x.req.path) = {}
    <3>1. pc' = "done" /\ UNCHANGED <<app, x.req, x.route, x.handler>>
          BY <1>4, <2>1, <2>5, NotFoundEffect
    <3>2. Matching(R, x.req.path) = {}
          BY <2>5 DEF AllowedMethods
    <3>3. Origin(app'.router.routes, app'.global, x'.req, x'.route, x'.handler, x'.chain)
          BY <2>2, <3>1 DEF Origin
    <3>4. QED BY <2>2, <3>1, <3>2, <3>3 DEF RouteInv
  <2>6. QED BY <2>1, <2>3, <2>4, <2>5
<1>5. CASE Enter
  <2>1. PICK b : b = Before(x.chain[x.idx + 1], x.req, x.per, app)
        OBVIOUS
  <2>2. /\ pc = "enter" /\ UNCHANGED <<app, x.req, x.route, x.handler, x.chain>>
        /\ x'.res = x.res \/ (~b.go /\ x'.res = b.res)
        BY <1>5, <2>1, EnterEffect
  <2>3. x.res.status # 404
        BY <2>2 DEF RouteInv
  <2>4. b.go \/ b.res.status # 404
        BY <2>1, BeforeDecides DEF Decides
  <2>5. QED BY <2>2, <2>3, <2>4, RouteKept
<1>6. CASE Inside
      BY <1>6 DEF Inside, RouteInv
<1>7. CASE Extract
  <2>1. PICK arg : arg = x.handler.args[x.arg]
        OBVIOUS
  <2>2. PICK v : v = FromRequest(arg, x.req, x.params, x.per, x.body, app)
        OBVIOUS
  <2>3. /\ pc = "extract" /\ UNCHANGED <<app, x.req, x.route, x.handler, x.chain>>
        /\ x'.res = x.res \/ (~(x.arg > Len(x.handler.args)) /\ ~v.ok /\ x'.res = v.res)
        BY <1>7, <2>1, <2>2, ExtractEffect
  <2>4. x.res.status # 404
        BY <2>3 DEF RouteInv
  <2>5. CASE ~(x.arg > Len(x.handler.args)) /\ ~v.ok /\ x'.res = v.res
    <3>1. arg.kind \in ArgumentKinds
          BY <2>1, <2>3, <2>5, ArgumentBuilt
    <3>2. v.res.status # 404
          BY <2>2, <2>5, <3>1, ExtractorsFail DEF Fails
    <3>3. QED BY <2>3, <2>5, <3>2, RouteKept
  <2>6. QED BY <2>3, <2>4, <2>5, RouteKept
<1>8. CASE Call \/ CallNotAllowed \/ CallSocket \/ CallHealth
  <2>1. /\ pc' = "leave" /\ UNCHANGED <<app, x.req, x.route, x.handler, x.chain>>
        /\ x'.res.status # 404
    <3>1. CASE Call \/ CallNotAllowed
      <4>1. PICK res : Handled(res, app.dev) /\ Answer(res)
            BY <3>1, CallEffect, CallNotAllowedEffect
      <4>2. /\ pc' = "leave" /\ x'.res = res
            /\ UNCHANGED <<app, x.req, x.route, x.handler, x.chain>>
            BY <4>1, AnswerEffect
      <4>3. QED BY <4>1, <4>2 DEF Handled
    <3>2. CASE CallSocket
          BY <3>2, CallSocketEffect DEF Handled
    <3>3. CASE CallHealth
          BY <3>3, CallHealthEffect
    <3>4. QED BY <1>8, <3>1, <3>2, <3>3
  <2>2. QED BY <2>1, RouteKept
<1>9. CASE Panic
  <2>1. Blank(x') /\ x'.res = Ok(200) /\ pc' = "idle"
        BY <1>9, BlankShape DEF Panic
  <2>2. QED BY <2>1, BlankShape, RouteBlank
<1>10. CASE Leave
  <2>1. PICK res : res = After(x.chain[x.idx], x.req, x.res)
        OBVIOUS
  <2>2. /\ pc = "leave" /\ pc' = "leave" /\ x.idx > 0 /\ x'.res = res
        /\ UNCHANGED <<app, x.req, x.route, x.handler, x.chain>>
        BY <1>10, <2>1, LeaveEffect
  <2>3. IsMiddleware(x.chain[x.idx]) /\ IsResult(x.res)
        BY <2>2, SeqShape DEF ShapeInv, AreMiddleware
  <2>4. res.status = 404 => x.res.status = 404
        BY <2>1, <2>3, AfterKeeps
  <2>5. x.res.status # 404
        BY <2>2 DEF RouteInv
  <2>6. QED BY <2>2, <2>4, <2>5, RouteKept
<1>11. CASE Finish
  <2>1. /\ pc = "leave" /\ pc' = "done" /\ UNCHANGED <<app, x.req, x.route, x.handler, x.chain>>
        /\ x'.res = x.res \/ x'.res = Render(x.res, app.dev)
        BY <1>11, FinishEffect
  <2>2. IsResult(x.res) /\ x.res.status # 404
        BY <2>1 DEF RouteInv, ShapeInv
  <2>3. x'.res.status = x.res.status
        BY <2>1, <2>2 DEF Render, IsResult
  <2>4. QED BY <2>1, <2>2, <2>3, RouteKept
<1>12. QED BY <1>1, <1>2, <1>3, <1>4, <1>5, <1>6, <1>7, <1>8, <1>9, <1>10, <1>11 DEF Next

\* The route of a request is right.
LEMMA RouteFollows ==
  ASSUME ShapeInv, RouteInv
  PROVE  RouteChosen
<1> DEFINE R == app.router.routes
           path == x.req.path
           C == {i \in DOMAIN R : R[i].method = x.req.method /\ Fits(i, path)}
<1>1. C = Candidates(R, x.req.method, SplitPath(path), DOMAIN R)
      BY DEF Candidates, Fits
<1>2. TypeOK
      BY DEF TypeOK, ShapeInv, IsResult
<1>3. Found(x.route) => \E i \in C :
         /\ R[i] = x.route
         /\ \A j \in C \ {i} :
               Rank(R[j]) < Rank(R[i]) \/ (Rank(R[j]) = Rank(R[i]) /\ i < j)
  <2> SUFFICES ASSUME Found(x.route)
               PROVE  \E i \in C :
                         /\ R[i] = x.route
                         /\ \A j \in C \ {i} :
                               Rank(R[j]) < Rank(R[i]) \/ (Rank(R[j]) = Rank(R[i]) /\ i < j)
      OBVIOUS
  <2>0. x.route # NoRoute
        BY DEF Found, NoRoute
  <2>1. Chosen(R, x.req.method, SplitPath(path), DOMAIN R, x.route)
        BY DEF RouteInv, Origin
  <2> HIDE DEF C
  <2>2. PICK i \in C : x.route = R[i] /\ \A j \in C \ {i} : Better(R, i, j)
        BY <1>1, <2>0, <2>1 DEF Chosen
  <2>3. QED BY <2>2 DEF Better
<1>4. x.handler.kind = "not_allowed" =>
         C = {} /\ x.handler.allow = {R[i].method : i \in {j \in DOMAIN R : Fits(j, path)}}
      BY <1>1 DEF RouteInv, Origin, AllowedMethods, Matching, Fits
<1>5. (pc = "done" /\ x.res.status = 404) => \A i \in DOMAIN R : ~Fits(i, path)
      BY DEF RouteInv, Matching, Fits
<1>6. QED BY <1>2, <1>3, <1>4, <1>5 DEF RouteChosen

\* Steps that do not go inward leave what the guards have seen alone.
LEMMA GuardKept ==
  ASSUME GuardInv, UNCHANGED <<app, x.req, x.handler, x.chain, x.depth>>, pc' # "enter"
  PROVE  GuardInv'
BY DEF GuardInv

\* Before the first middleware there is nothing to see.
LEMMA GuardOutside ==
  ASSUME x'.idx = 0, x'.depth = 0
  PROVE  GuardInv'
<1>1. 1 .. x'.depth = {} /\ 1 .. x'.idx = {}
      OBVIOUS
<1>2. QED BY <1>1 DEF GuardInv

\* A middleware that lets a request pass.
LEMMA GuardEntered ==
  ASSUME ShapeInv, GuardInv, Enter, Before(x.chain[x.idx + 1], x.req, x.per, app).go
  PROVE  GuardInv'
<1>1. PICK n : n = x.idx + 1
      OBVIOUS
<1>2. PICK mw : mw = x.chain[n]
      OBVIOUS
<1>3. PICK b : b = Before(mw, x.req, x.per, app)
      OBVIOUS
<1>4. /\ pc = "enter" /\ b.go /\ x'.per = b.per /\ x'.idx = n /\ x'.depth = n
      /\ UNCHANGED <<app, x.req, x.handler, x.chain>>
      BY <1>1, <1>2, <1>3, EnterEffect
<1>5. x.idx \in Nat /\ x.depth = x.idx /\ n \in Nat
      BY <1>1, <1>4, SeqShape DEF ShapeInv, Untouched, AreMiddleware
<1>6. /\ mw.kind = "guard" =>
            /\ Authenticates(mw.provider, x.req)
            /\ mw.provider.type \in DOMAIN b.per
            /\ b.per[mw.provider.type] = Authenticated(mw.provider, x.req)
      /\ \A t \in DOMAIN x.per : ~Provides(mw, t) => t \in DOMAIN b.per /\ b.per[t] = x.per[t]
      BY <1>3, <1>4, BeforePasses
<1>7. ASSUME NEW i \in 1 .. n, x.chain[i].kind = "guard"
      PROVE  Authenticates(x.chain[i].provider, x.req)
  <2>1. CASE i = n
        BY <1>2, <1>6, <1>7, <2>1
  <2>2. CASE i # n
        BY <1>1, <1>5, <1>7, <2>2 DEF GuardInv
  <2>3. QED BY <2>1, <2>2
<1>8. ASSUME NEW i \in 1 .. n, NEW p, p = x.chain[i].provider, x.chain[i].kind = "guard",
             \A k \in i + 1 .. n : ~Provides(x.chain[k], p.type)
      PROVE  p.type \in DOMAIN b.per /\ b.per[p.type] = Authenticated(p, x.req)
  <2>1. CASE i = n
        BY <1>2, <1>6, <1>8, <2>1
  <2>2. CASE i # n
    <3>1. i \in 1 .. x.idx /\ n \in i + 1 .. n /\ \A k \in i + 1 .. x.idx : k \in i + 1 .. n
          BY <1>1, <1>5, <2>2
    <3>2. p.type \in DOMAIN x.per /\ x.per[p.type] = Authenticated(p, x.req)
          BY <1>4, <1>8, <3>1 DEF GuardInv
    <3>3. ~Provides(mw, p.type)
          BY <1>2, <1>8, <3>1
    <3>4. QED BY <1>6, <3>2, <3>3
  <2>3. QED BY <2>1, <2>2
<1>9. ASSUME x.handler.kind = "fn", NEW need \in x.handler.needs,
             NEW i \in 1 .. n, NEW j \in i + 1 .. n, Meets(need, x.chain, app.state, i, j)
      PROVE  need.role \in Authenticated(need.provider, x.req).roles
  <2>1. CASE j # n
    <3>1. i \in 1 .. x.depth /\ j \in i + 1 .. x.depth
          BY <1>1, <1>5, <2>1
    <3>2. QED BY <1>9, <3>1 DEF GuardInv
  <2>2. CASE j = n
    <3>1. i \in 1 .. x.idx /\ n - 1 = x.idx
          BY <1>1, <1>5, <2>2
    <3>2. /\ x.chain[i].kind = "guard" /\ x.chain[i].provider = need.provider
          /\ Demands(mw, need, app.state)
          /\ \A k \in i + 1 .. x.idx : ~Provides(x.chain[k], need.provider.type)
          BY <1>2, <1>9, <2>2, <3>1 DEF Meets
    <3>3. x.per[need.provider.type] = Authenticated(need.provider, x.req)
          BY <1>4, <3>1, <3>2 DEF GuardInv
    <3>4. need.role \in x.per[need.provider.type].roles
          BY <1>3, <1>4, <3>2, DemandMeansRole
    <3>5. QED BY <3>3, <3>4
  <2>3. QED BY <2>1, <2>2
<1>10. QED BY <1>4, <1>7, <1>8, <1>9 DEF GuardInv

\* What the guards have seen stays true.
LEMMA GuardStep ==
  ASSUME AppInv, ShapeInv, GuardInv, [Next]_vars
  PROVE  GuardInv'
<1>1. CASE UNCHANGED vars
      BY <1>1 DEF vars, GuardInv
<1>2. CASE Start \/ Panic
  <2>1. Blank(x')
        BY <1>2, BlankShape DEF Start, Panic, ShapeInv
  <2>2. QED BY <2>1, BlankShaped, GuardOutside
<1>3. ASSUME NEW req \in Requests, Receive(req) \/ Send(req) PROVE GuardInv'
  <2>1. Blank(x')
        BY <1>3, ArriveEffect
  <2>2. QED BY <2>1, BlankShaped, GuardOutside
<1>4. CASE Route
  <2>1. x.idx = 0 /\ x.depth = 0
        BY <1>4 DEF Route, ShapeInv, Untouched
  <2>2. UNCHANGED <<x.idx, x.depth>>
        BY <1>4, FoundEffect, NotAllowedEffect, NotFoundEffect
  <2>3. QED BY <2>1, <2>2, GuardOutside
<1>5. CASE Enter
  <2>1. CASE Before(x.chain[x.idx + 1], x.req, x.per, app).go
        BY <1>5, <2>1, GuardEntered
  <2>2. CASE ~Before(x.chain[x.idx + 1], x.req, x.per, app).go
    <3>1. pc' = "leave" /\ UNCHANGED <<app, x.req, x.handler, x.chain, x.depth>>
          BY <1>5, <2>2, EnterEffect
    <3>2. QED BY <3>1, GuardKept
  <2>3. QED BY <2>1, <2>2
<1>6. CASE Inside
      BY <1>6, GuardKept DEF Inside
<1>7. CASE Extract
  <2>1. pc' # "enter" /\ UNCHANGED <<app, x.req, x.handler, x.chain, x.depth>>
        BY <1>7, ExtractEffect
  <2>2. QED BY <2>1, GuardKept
<1>8. CASE Call \/ CallNotAllowed \/ CallSocket \/ CallHealth
  <2>1. pc' # "enter" /\ UNCHANGED <<app, x.req, x.handler, x.chain, x.depth>>
    <3>1. CASE Call \/ CallNotAllowed
      <4>1. PICK res : Handled(res, app.dev) /\ Answer(res)
            BY <3>1, CallEffect, CallNotAllowedEffect
      <4>2. QED BY <4>1, AnswerEffect
    <3>2. CASE CallSocket \/ CallHealth
          BY <3>2, CallSocketEffect, CallHealthEffect
    <3>3. QED BY <1>8, <3>1, <3>2
  <2>2. QED BY <2>1, GuardKept
<1>9. CASE Leave \/ Finish
  <2>1. pc' # "enter" /\ UNCHANGED <<app, x.req, x.handler, x.chain, x.depth>>
        BY <1>9, LeaveEffect, FinishEffect
  <2>2. QED BY <2>1, GuardKept
<1>10. QED BY <1>1, <1>2, <1>3, <1>4, <1>5, <1>6, <1>7, <1>8, <1>9 DEF Next

\* A handler that runs is behind everything declared around it.
LEMMA GuardFollows ==
  ASSUME AppInv, ShapeInv, RouteInv, GuardInv
  PROVE  GuardedHandler
<1> SUFFICES ASSUME x.ran, x.handler.kind = "fn", NEW need \in x.handler.needs
             PROVE  /\ Authenticates(need.provider, x.req)
                    /\ need.role # Absent => need.role \in Authenticated(need.provider, x.req).roles
    BY DEF GuardedHandler
<1>1. PICK r \in DOMAIN app.router.routes :
         /\ x.handler = app.router.routes[r].handler
         /\ x.chain = app.global \o app.router.routes[r].middleware
      BY HandlerBuilt
<1>2. Enforced(need, x.chain, app.state)
      BY <1>1 DEF AppInv, WellBuilt
<1>3. x.depth = Len(x.chain) /\ DOMAIN x.chain = 1 .. Len(x.chain) /\ Len(x.chain) \in Nat
      BY SeqShape DEF ShapeInv, AreMiddleware
<1>4. PICK i \in DOMAIN x.chain :
         /\ x.chain[i].kind = "guard" /\ x.chain[i].provider = need.provider
         /\ need.role # Absent =>
               \E j \in i + 1 .. Len(x.chain) :
                   /\ Demands(x.chain[j], need, app.state)
                   /\ \A k \in i + 1 .. j - 1 : ~Provides(x.chain[k], need.provider.type)
      BY <1>2 DEF Enforced
<1>5. Authenticates(need.provider, x.req)
      BY <1>3, <1>4 DEF GuardInv
<1>6. ASSUME need.role # Absent PROVE need.role \in Authenticated(need.provider, x.req).roles
  <2>1. PICK j \in i + 1 .. Len(x.chain) :
           /\ Demands(x.chain[j], need, app.state)
           /\ \A k \in i + 1 .. j - 1 : ~Provides(x.chain[k], need.provider.type)
        BY <1>4, <1>6
  <2>2. Meets(need, x.chain, app.state, i, j)
        BY <1>4, <2>1 DEF Meets
  <2>3. i \in 1 .. x.depth /\ j \in i + 1 .. x.depth
        BY <1>3, <2>1
  <2>4. QED BY <2>2, <2>3 DEF GuardInv
<1>7. QED BY <1>5, <1>6

\* An answer that no middleware has seen on its way out.
LEMMA HeaderAtOnce ==
  ASSUME x'.idx = x'.depth, x'.depth \in Nat,
         x'.own => Has(x'.res, "x-frame-options") /\ x'.res.headers["x-frame-options"] = "own"
  PROVE  HeaderInv'
<1>1. x'.idx + 1 .. x'.depth = {}
      OBVIOUS
<1>2. QED BY <1>1 DEF HeaderInv, Has

\* A middleware on the way out adds its headers to those of the ones inside of it.
LEMMA HeaderLeft ==
  ASSUME ShapeInv, HeaderInv, Leave
  PROVE  HeaderInv'
<1>1. PICK n : n = x.idx
      OBVIOUS
<1>2. PICK mw : mw = x.chain[n]
      OBVIOUS
<1>3. PICK out : out = After(mw, x.req, x.res)
      OBVIOUS
<1>4. /\ pc = "leave" /\ n > 0 /\ x'.res = out /\ x'.idx = n - 1 /\ x'.failed = (x.failed \/ ~out.ok)
      /\ UNCHANGED <<x.req, x.chain, x.depth, x.own>>
      BY <1>1, <1>2, <1>3, LeaveEffect
<1>5. n \in DOMAIN x.chain /\ n \in Nat /\ x.depth \in Nat /\ n <= x.depth
      BY <1>1, <1>4, SeqShape DEF ShapeInv, AreMiddleware
<1>6. IsMiddleware(mw) /\ IsResult(x.res)
      BY <1>2, <1>5 DEF ShapeInv, AreMiddleware
<1> SUFFICES ASSUME ~x'.failed
             PROVE  /\ \A i \in n .. x.depth : Marked(x.chain[i], x.req, out)
                    /\ x.own => /\ "x-frame-options" \in DOMAIN out.headers
                                /\ out.headers["x-frame-options"] = "own"
  <2>1. x'.idx + 1 = n
        BY <1>4, <1>5
  <2>2. QED BY <1>4, <2>1 DEF HeaderInv, Has
<1>7. ~x.failed /\ out.ok /\ x.res.ok
      BY <1>4 DEF ShapeInv
<1>8. Kept(x.res, out) /\ Marked(mw, x.req, out)
      BY <1>3, <1>6, <1>7, AfterKeeps
<1>9. ASSUME NEW i \in n .. x.depth PROVE Marked(x.chain[i], x.req, out)
  <2>1. CASE i = n
        BY <1>2, <1>8, <2>1
  <2>2. CASE i # n
    <3>1. Marked(x.chain[i], x.req, x.res)
          BY <1>1, <1>4, <1>5, <1>7, <2>2 DEF HeaderInv
    <3>2. QED BY <1>8, <3>1 DEF Marked, Kept
  <2>3. QED BY <2>1, <2>2
<1>10. x.own => "x-frame-options" \in DOMAIN out.headers /\ out.headers["x-frame-options"] = "own"
       BY <1>4, <1>7, <1>8 DEF HeaderInv, Kept, Has
<1>11. QED BY <1>9, <1>10

\* The headers of the middleware passed stay on the response.
LEMMA HeaderStep ==
  ASSUME AppInv, ShapeInv, HeaderInv, [Next]_vars
  PROVE  HeaderInv'
<1>1. CASE UNCHANGED vars
      BY <1>1 DEF vars, HeaderInv
<1>2. CASE Start \/ Panic \/ Inside
      BY <1>2 DEF Start, Panic, Inside, HeaderInv
<1>3. ASSUME NEW req \in Requests, Receive(req) \/ Send(req) PROVE HeaderInv'
  <2>1. Blank(x')
        BY <1>3, ArriveEffect
  <2>2. QED BY <2>1, BlankShaped, HeaderAtOnce
<1>4. ASSUME pc \in {"route", "enter", "extract", "call"}, UNCHANGED <<x.idx, x.depth>>,
             x'.own => Has(x'.res, "x-frame-options") /\ x'.res.headers["x-frame-options"] = "own"
      PROVE  HeaderInv'
  <2>1. x.depth = x.idx /\ x.depth \in Nat
        BY <1>4, SeqShape DEF ShapeInv, Untouched, AreMiddleware
  <2>2. QED BY <1>4, <2>1, HeaderAtOnce
<1>5. ASSUME pc \in {"route", "enter", "extract", "call"} PROVE ~x.own
      BY <1>5 DEF ShapeInv, Untouched
<1>6. CASE Route
  <2>1. pc = "route" /\ UNCHANGED <<x.idx, x.depth, x.own>>
        BY <1>6, FoundEffect, NotAllowedEffect, NotFoundEffect DEF Route
  <2>2. QED BY <2>1, <1>4, <1>5
<1>7. CASE Enter
  <2>1. /\ pc = "enter" /\ UNCHANGED x.own
        /\ pc' = "enter" \/ UNCHANGED <<x.idx, x.depth>>
        BY <1>7, EnterEffect
  <2>2. CASE pc' = "enter"
        BY <2>2 DEF HeaderInv
  <2>3. QED BY <2>1, <2>2, <1>4, <1>5
<1>8. CASE Extract
  <2>1. pc = "extract" /\ UNCHANGED <<x.idx, x.depth, x.own>>
        BY <1>8, ExtractEffect
  <2>2. QED BY <2>1, <1>4, <1>5
<1>9. CASE Call \/ CallNotAllowed \/ CallSocket \/ CallHealth
  <2>1. /\ pc = "call" /\ UNCHANGED <<x.idx, x.depth>>
        /\ x'.own => Has(x'.res, "x-frame-options") /\ x'.res.headers["x-frame-options"] = "own"
    <3>1. CASE Call \/ CallNotAllowed
      <4>1. PICK res : pc = "call" /\ Handled(res, app.dev) /\ Answer(res)
            BY <3>1, CallEffect, CallNotAllowedEffect
      <4>2. QED BY <4>1, AnswerEffect
    <3>2. CASE CallSocket \/ CallHealth
          BY <3>2, CallSocketEffect, CallHealthEffect
    <3>3. QED BY <1>9, <3>1, <3>2
  <2>2. QED BY <2>1, <1>4
<1>10. CASE Leave
       BY <1>10, HeaderLeft
<1>11. CASE Finish
  <2>1. /\ pc = "leave" /\ (x.res.ok => x'.res = x.res)
        /\ UNCHANGED <<x.req, x.chain, x.idx, x.depth, x.failed, x.own>>
        BY <1>11, FinishEffect
  <2>2. ~x.failed => x.res.ok /\ x'.res = x.res
        BY <2>1 DEF ShapeInv
  <2>3. QED BY <2>1, <2>2 DEF HeaderInv
<1>12. QED BY <1>1, <1>2, <1>3, <1>6, <1>7, <1>8, <1>9, <1>10, <1>11 DEF Next

\* What comes out has passed every middleware it went in through.
LEMMA HeaderFollows ==
  ASSUME ShapeInv, HeaderInv
  PROVE  HeadersKept
<1> SUFFICES ASSUME pc = "done", ~x.failed, NEW i \in 1 .. x.depth
             PROVE  LET mw == x.chain[i]
                    IN  /\ (mw.kind = "cors" /\ Applies(mw, x.req)) => Has(x.res, "allow-origin")
                        /\ mw.kind = "secure" => mw.names \subseteq DOMAIN x.res.headers
                        /\ mw.kind = "request_id" => Has(x.res, "request-id")
                        /\ x.own => x.res.headers["x-frame-options"] = "own"
    BY DEF HeadersKept
<1>1. Marked(x.chain[i], x.req, x.res)
      BY DEF HeaderInv, ShapeInv
<1>2. x.own => x.res.headers["x-frame-options"] = "own"
      BY DEF HeaderInv
<1>3. QED BY <1>1, <1>2 DEF Marked, Has

\* A detail gets into a response in development only.
LEMMA ErrorStep ==
  ASSUME AppInv, ShapeInv, RouteInv, ArgumentInv, ErrorInv, [Next]_vars
  PROVE  ErrorInv'
<1>1. CASE UNCHANGED vars
      BY <1>1 DEF vars, ErrorInv
<1>2. CASE Start \/ Panic
  <2>1. x'.res = Ok(200)
        BY <1>2, BlankShape DEF Start, Panic, ShapeInv
  <2>2. QED BY <2>1 DEF ErrorInv, Ok
<1>3. ASSUME NEW req \in Requests, Receive(req) \/ Send(req) PROVE ErrorInv'
  <2>1. \E status : x'.res = Ok(status)
        BY <1>3, ArriveEffect
  <2>2. QED BY <2>1 DEF ErrorInv, Ok
<1>4. CASE Route
  <2>1. /\ UNCHANGED app
        /\ UNCHANGED x.res \/ x'.res = Render(Err(404, "none"), app.dev)
        BY <1>4, FoundEffect, NotAllowedEffect, NotFoundEffect
  <2>2. Render(Err(404, "none"), app.dev).detail = "none"
        BY DEF Render, Err
  <2>3. QED BY <2>1, <2>2 DEF ErrorInv
<1>5. CASE Enter
  <2>1. PICK b : b = Before(x.chain[x.idx + 1], x.req, x.per, app)
        OBVIOUS
  <2>2. UNCHANGED app /\ (UNCHANGED x.res \/ (~b.go /\ x'.res = b.res))
        BY <1>5, <2>1, EnterEffect
  <2>3. ~b.go /\ b.res.ok => b.res.detail # "inner"
        BY <2>1, BeforeDecides DEF Decides
  <2>4. QED BY <2>2, <2>3 DEF ErrorInv
<1>6. CASE Inside
      BY <1>6 DEF Inside, ErrorInv
<1>7. CASE Extract
  <2>1. PICK arg : arg = x.handler.args[x.arg]
        OBVIOUS
  <2>2. PICK v : v = FromRequest(arg, x.req, x.params, x.per, x.body, app)
        OBVIOUS
  <2>3. /\ pc = "extract" /\ UNCHANGED app
        /\ UNCHANGED x.res \/ (~(x.arg > Len(x.handler.args)) /\ ~v.ok /\ x'.res = v.res)
        BY <1>7, <2>1, <2>2, ExtractEffect
  <2>4. CASE ~(x.arg > Len(x.handler.args)) /\ ~v.ok /\ x'.res = v.res
    <3>1. arg.kind \in ArgumentKinds
          BY <2>1, <2>3, <2>4, ArgumentBuilt
    <3>2. v.res.detail # "inner"
          BY <2>2, <2>4, <3>1, ExtractorsFail DEF Fails
    <3>3. QED BY <2>4, <3>2 DEF ErrorInv
  <2>5. QED BY <2>3, <2>4 DEF ErrorInv
<1>8. CASE Call \/ CallNotAllowed \/ CallSocket \/ CallHealth
  <2>1. UNCHANGED app /\ (x'.res.detail = "inner" => app.dev)
    <3>1. CASE Call \/ CallNotAllowed
      <4>1. PICK res : Handled(res, app.dev) /\ Answer(res)
            BY <3>1, CallEffect, CallNotAllowedEffect
      <4>2. UNCHANGED app /\ x'.res = res
            BY <4>1, AnswerEffect
      <4>3. QED BY <4>1, <4>2 DEF Handled
    <3>2. CASE CallSocket
          BY <3>2, CallSocketEffect DEF Handled
    <3>3. CASE CallHealth
          BY <3>3, CallHealthEffect
    <3>4. QED BY <1>8, <3>1, <3>2, <3>3
  <2>2. QED BY <2>1 DEF ErrorInv
<1>9. CASE Leave
  <2>1. PICK out : out = After(x.chain[x.idx], x.req, x.res)
        OBVIOUS
  <2>2. x.idx > 0 /\ UNCHANGED app /\ x'.res = out
        BY <1>9, <2>1, LeaveEffect
  <2>3. IsMiddleware(x.chain[x.idx]) /\ IsResult(x.res)
        BY <2>2, SeqShape DEF ShapeInv, AreMiddleware
  <2>4. out.ok /\ out.detail = "inner" => x.res.ok /\ x.res.detail = "inner"
        BY <2>1, <2>3, AfterKeeps
  <2>5. QED BY <2>2, <2>4 DEF ErrorInv
<1>10. CASE Finish
  <2>1. UNCHANGED app /\ (UNCHANGED x.res \/ x'.res = Render(x.res, app.dev))
        BY <1>10, FinishEffect
  <2>2. PICK r : r = Render(x.res, app.dev)
        OBVIOUS
  <2>3. r.detail = "inner" => app.dev
        BY <2>2 DEF Render, ShapeInv, IsResult
  <2>4. QED BY <2>1, <2>2, <2>3 DEF ErrorInv
<1>11. QED BY <1>1, <1>2, <1>3, <1>4, <1>5, <1>6, <1>7, <1>8, <1>9, <1>10 DEF Next

\* Development is set, never assumed.
LEMMA ErrorFollows ==
  ASSUME AppInv, ShapeInv, ErrorInv
  PROVE  ErrorsSanitised
<1> SUFFICES ASSUME pc = "done", x.res.detail = "inner"
             PROVE  LET set == IF env.ladoo # Absent THEN env.ladoo ELSE env.app
                    IN  set \notin {Absent, "production", "staging"}
    BY DEF ErrorsSanitised
<1>1. Detect(env) = "development"
      BY DEF ErrorInv, ShapeInv, AppInv
<1>2. QED BY <1>1 DEF Detect

\* A sequence is what its elements are at its places.
LEMMA SeqPlaces ==
  ASSUME NEW n \in Nat, NEW s, s = [i \in 1 .. n |-> s[i]]
  PROVE  IsSeq(s) /\ Len(s) = n
<1> DEFINE S == {s[i] : i \in 1 .. n}
<1>1. s \in [1 .. n -> S]
      OBVIOUS
<1> HIDE DEF S
<1>2. s \in Seq(S) /\ Len(s) = n
      BY <1>1
<1>3. QED BY <1>2, SeqSelf

\* One more argument: one from the body only while the body is there.
LEMMA OneMore ==
  ASSUME NEW args, IsSeq(args), NEW values, NEW n, n <= Len(args), NEW max, Made(args, values, n, max),
         NEW body, (\E i \in 1 .. n - 1 : OfBody(args[i])) => body = "empty",
         NEW v, OfBody(args[n]) => body # "empty" /\ v.body = "empty",
         ~OfBody(args[n]) => v.body = body,
         args[n].kind = "valid" => v.value = "valid",
         args[n].kind \in {"paginate", "cursor"} => IsPage(v.value, args[n].kind, max)
  PROVE  /\ Made(args, Append(values, v.value), n + 1, max)
         /\ (\E i \in 1 .. n : OfBody(args[i])) => v.body = "empty"
<1>1. n \in Nat /\ n >= 1 /\ Len(args) \in Nat
      BY SeqShape DEF Made
<1>2. PICK m \in Nat : m = n - 1
      BY <1>1
<1>3. PICK more : more = Append(values, v.value)
      OBVIOUS
<1>4. IsSeq(values) /\ Len(values) = m
      BY <1>2, SeqPlaces DEF Made
<1>5. /\ IsSeq(more) /\ Len(more) = n /\ DOMAIN values = 1 .. m /\ DOMAIN more = 1 .. n
      /\ \A i \in 1 .. m : more[i] = values[i]
      /\ more[n] = v.value
      BY <1>1, <1>2, <1>3, <1>4, SeqAppend
<1>6. more = [i \in 1 .. n |-> more[i]]
      BY <1>5 DEF IsSeq
<1>7. \A i \in 1 .. n : i \in 1 .. m \/ i = n
      BY <1>1, <1>2
<1>8. /\ \A i \in 1 .. n : args[i].kind = "valid" => more[i] = "valid"
      /\ \A i \in 1 .. n : args[i].kind \in {"paginate", "cursor"} => IsPage(more[i], args[i].kind, max)
      BY <1>2, <1>5, <1>7 DEF Made
<1>9. ASSUME NEW i \in 1 .. n, NEW j \in 1 .. n, OfBody(args[i]), OfBody(args[j]) PROVE i = j
      BY <1>2, <1>7, <1>9 DEF Made
<1>10. n + 1 \in 1 .. Len(args) + 1 /\ (n + 1) - 1 = n
       BY <1>1
<1>11. Made(args, more, n + 1, max)
       BY <1>6, <1>8, <1>9, <1>10 DEF Made
<1>12. (\E i \in 1 .. n : OfBody(args[i])) => v.body = "empty"
       BY <1>2, <1>7
<1>13. QED BY <1>3, <1>11, <1>12

\* No argument yet.
LEMMA NoneMade ==
  ASSUME NEW args, IsSeq(args), NEW max
  PROVE  Made(args, <<>>, 1, max)
<1>1. 1 .. 1 - 1 = {} /\ 1 \in 1 .. Len(args) + 1
      BY SeqShape
<1>2. <<>> = [i \in {} |-> <<>>[i]]
      OBVIOUS
<1>3. QED BY <1>1, <1>2 DEF Made

\* The arguments stay what they are once they are made.
LEMMA ArgumentKept ==
  ASSUME ArgumentInv, UNCHANGED <<app, x.handler, x.arg, x.values>>, pc' # "extract",
         pc' = "call" \/ x'.ran => pc = "call" \/ x.ran \/ x.handler.kind # "fn"
  PROVE  ArgumentInv'
BY DEF ArgumentInv

\* No arguments are asked for.
LEMMA ArgumentNone ==
  ASSUME x'.handler.kind # "fn"
  PROVE  ArgumentInv'
BY DEF ArgumentInv

\* One argument after the other.
LEMMA ArgumentMade ==
  ASSUME AppInv, ShapeInv, RouteInv, ArgumentInv, Extract
  PROVE  ArgumentInv'
<1>1. PICK n : n = x.arg
      OBVIOUS
<1>2. PICK args : args = x.handler.args
      OBVIOUS
<1>3. PICK arg : arg = args[n]
      OBVIOUS
<1>4. PICK v : v = FromRequest(arg, x.req, x.params, x.per, x.body, app)
      OBVIOUS
<1>5. /\ pc = "extract"
      /\ \/ n > Len(args) /\ pc' = "call" /\ UNCHANGED x
         \/ /\ ~(n > Len(args)) /\ v.ok /\ pc' = "extract"
            /\ x'.arg = n + 1 /\ x'.body = v.body /\ x'.values = Append(x.values, v.value)
         \/ /\ ~(n > Len(args)) /\ ~v.ok /\ pc' = "leave"
            /\ UNCHANGED <<x.arg, x.values>>
      /\ UNCHANGED <<app, x.handler, x.ran>>
      BY <1>1, <1>2, <1>3, <1>4, ExtractEffect
<1>6. x.handler.kind = "fn" /\ x.ran = FALSE /\ x.req \in Requests /\ WellBuilt(app)
      BY <1>5 DEF ShapeInv, Untouched, AppInv
<1>7. /\ Made(args, x.values, n, Paging(app).max)
      /\ (\E i \in 1 .. n - 1 : OfBody(args[i])) => x.body = "empty"
      BY <1>1, <1>2, <1>5, <1>6 DEF ArgumentInv
<1>8. IsSeq(args)
  <2>1. IsHandler(x.handler)
        BY <1>6, HandlerBuilt DEF IsRoute
  <2>2. QED BY <1>2, <1>6, <2>1 DEF IsHandler
<1>9. Len(args) \in Nat /\ n \in 1 .. Len(args) + 1
      BY <1>7, <1>8, SeqShape DEF Made
<1>10. CASE n > Len(args)
  <2>1. n = Len(args) + 1 /\ pc' = "call" /\ UNCHANGED <<app, x>>
        BY <1>5, <1>9, <1>10
  <2>2. QED BY <1>1, <1>2, <1>7, <2>1 DEF ArgumentInv
<1>11. CASE ~(n > Len(args)) /\ v.ok
  <2>1. arg.kind \in ArgumentKinds
        BY <1>1, <1>2, <1>3, <1>5, <1>11, ArgumentBuilt
  <2>2. /\ OfBody(arg) => x.body # "empty" /\ v.body = "empty"
        /\ ~OfBody(arg) => v.body = x.body
        /\ arg.kind = "valid" => v.value = "valid"
        /\ arg.kind \in {"paginate", "cursor"} => IsPage(v.value, arg.kind, Paging(app).max)
        BY <1>4, <1>6, <1>11, <2>1, ExtractorsSound DEF OfBody
  <2>3. n <= Len(args)
        BY <1>9, <1>11
  <2>4. /\ Made(args, Append(x.values, v.value), n + 1, Paging(app).max)
        /\ (\E i \in 1 .. n : OfBody(args[i])) => v.body = "empty"
    <3>1. PICK max : max = Paging(app).max
          OBVIOUS
    <3>2. PICK values : values = x.values
          OBVIOUS
    <3>3. PICK body : body = x.body
          OBVIOUS
    <3>4. Made(args, values, n, max) /\ ((\E i \in 1 .. n - 1 : OfBody(args[i])) => body = "empty")
          BY <1>7, <3>1, <3>2, <3>3
    <3>5. /\ OfBody(args[n]) => body # "empty" /\ v.body = "empty"
          /\ ~OfBody(args[n]) => v.body = body
          /\ args[n].kind = "valid" => v.value = "valid"
          /\ args[n].kind \in {"paginate", "cursor"} => IsPage(v.value, args[n].kind, max)
          BY <1>3, <2>2, <3>1, <3>3
    <3>6. /\ Made(args, Append(values, v.value), n + 1, max)
          /\ (\E i \in 1 .. n : OfBody(args[i])) => v.body = "empty"
          BY <1>8, <2>3, <3>4, <3>5, OneMore
    <3>7. QED BY <3>1, <3>2, <3>6
  <2>5. /\ pc' = "extract" /\ x'.arg = n + 1 /\ x'.body = v.body /\ x'.values = Append(x.values, v.value)
        /\ UNCHANGED <<app, x.handler, x.ran>>
        BY <1>5, <1>9, <1>11
  <2>6. (n + 1) - 1 = n
        BY <1>9
  <2>7. QED BY <1>2, <1>6, <2>4, <2>5, <2>6 DEF ArgumentInv
<1>12. CASE ~(n > Len(args)) /\ ~v.ok
  <2>1. pc' = "leave" /\ UNCHANGED <<app, x.handler, x.arg, x.values, x.ran>>
        BY <1>5, <1>12
  <2>2. QED BY <1>6, <2>1, ArgumentKept
<1>13. QED BY <1>10, <1>11, <1>12

\* The arguments of a handler are sound at each place of its request.
LEMMA ArgumentStep ==
  ASSUME AppInv, ShapeInv, RouteInv, ArgumentInv, [Next]_vars
  PROVE  ArgumentInv'
<1>1. CASE UNCHANGED vars
      BY <1>1 DEF vars, ArgumentInv
<1>2. CASE Start \/ Panic
  <2>1. x' = Fresh
        BY <1>2 DEF Start, Panic, ShapeInv
  <2>2. x'.handler = NotFound
        BY <2>1, BlankShape DEF Blank
  <2>3. QED BY <2>2, ArgumentNone DEF NotFound
<1>3. ASSUME NEW req \in Requests, Receive(req) \/ Send(req) PROVE ArgumentInv'
  <2>1. x'.handler = NotFound
        BY <1>3, ArriveEffect DEF Blank
  <2>2. QED BY <2>1, ArgumentNone DEF NotFound
<1>4. CASE Route
  <2>1. pc = "route" /\ x.handler = NotFound /\ x.ran = FALSE /\ x.arg = 1 /\ x.values = <<>>
        BY <1>4 DEF Route, ShapeInv, Untouched
  <2>2. CASE Found(Find(app.router.routes, x.req.method, x.req.path))
    <3>1. PICK r : r = Find(app.router.routes, x.req.method, x.req.path)
          OBVIOUS
    <3>2. /\ pc' = "enter" /\ x'.handler = r.handler /\ UNCHANGED <<x.arg, x.values, x.ran>>
          BY <1>4, <2>2, <3>1, FoundEffect
    <3>3. IsHandler(r.handler)
          BY <2>2, <3>1, FoundRegistered DEF AppInv, IsRoute
    <3>4. CASE r.handler.kind = "fn"
      <4>1. IsSeq(r.handler.args)
            BY <3>3, <3>4 DEF IsHandler
      <4>2. Made(r.handler.args, <<>>, 1, Paging(app').max)
            BY <4>1, NoneMade
      <4>3. QED BY <2>1, <3>2, <4>2 DEF ArgumentInv
    <3>5. CASE r.handler.kind # "fn"
          BY <3>2, <3>5, ArgumentNone
    <3>6. QED BY <3>4, <3>5
  <2>3. CASE /\ ~Found(Find(app.router.routes, x.req.method, x.req.path))
             /\ AllowedMethods(app.router.routes, x.req.path) # {}
    <3>1. PICK allowed : allowed = AllowedMethods(app.router.routes, x.req.path)
          OBVIOUS
    <3>2. x'.handler = [kind |-> "not_allowed", allow |-> allowed]
          BY <1>4, <2>3, <3>1, NotAllowedEffect
    <3>3. x'.handler.kind = "not_allowed"
          BY <3>2
    <3>4. QED BY <3>3, ArgumentNone
  <2>4. CASE /\ ~Found(Find(app.router.routes, x.req.method, x.req.path))
             /\ AllowedMethods(app.router.routes, x.req.path) = {}
    <3>1. x'.handler = NotFound
          BY <1>4, <2>1, <2>4, NotFoundEffect
    <3>2. QED BY <3>1, ArgumentNone DEF NotFound
  <2>5. QED BY <2>2, <2>3, <2>4
<1>5. CASE Enter
  <2>1. /\ pc = "enter" /\ pc' \in {"enter", "leave"}
        /\ UNCHANGED <<app, x.handler, x.arg, x.values, x.ran>>
        BY <1>5, EnterEffect
  <2>2. QED BY <2>1, ArgumentKept
<1>6. CASE Inside
  <2>1. /\ pc = "enter" /\ x.arg = 1 /\ x.ran = FALSE /\ UNCHANGED <<app, x>>
        /\ x.handler.kind = "fn" => pc' = "extract"
        BY <1>6 DEF Inside, ShapeInv, Untouched
  <2>2. 1 .. x.arg - 1 = {}
        BY <2>1
  <2>3. QED BY <2>1, <2>2 DEF ArgumentInv
<1>7. CASE Extract
      BY <1>7, ArgumentMade
<1>8. CASE Call \/ CallNotAllowed \/ CallSocket \/ CallHealth
  <2>1. /\ pc = "call" /\ pc' = "leave" /\ UNCHANGED <<app, x.handler, x.arg, x.values>>
    <3>1. CASE Call \/ CallNotAllowed
      <4>1. PICK res : pc = "call" /\ Handled(res, app.dev) /\ Answer(res)
            BY <3>1, CallEffect, CallNotAllowedEffect
      <4>2. QED BY <4>1, AnswerEffect
    <3>2. CASE CallSocket \/ CallHealth
          BY <3>2, CallSocketEffect, CallHealthEffect
    <3>3. QED BY <1>8, <3>1, <3>2
  <2>2. QED BY <2>1, ArgumentKept
<1>9. CASE Leave \/ Finish
  <2>1. pc' \in {"leave", "done"} /\ UNCHANGED <<app, x.handler, x.arg, x.values, x.ran>>
        BY <1>9, LeaveEffect, FinishEffect
  <2>2. QED BY <2>1, ArgumentKept
<1>10. QED BY <1>1, <1>2, <1>3, <1>4, <1>5, <1>6, <1>7, <1>8, <1>9 DEF Next

\* A handler that ran had all of them.
LEMMA ArgumentFollows ==
  ASSUME AppInv, RouteInv, ArgumentInv
  PROVE  ArgumentsSound
<1> SUFFICES ASSUME x.ran, x.handler.kind = "fn" PROVE ArgumentsSound
    BY DEF ArgumentsSound
<1>1. PICK args : args = x.handler.args
      OBVIOUS
<1>2. IsSeq(args)
  <2>1. IsHandler(x.handler)
        BY HandlerBuilt DEF IsRoute
  <2>2. QED BY <1>1, <2>1 DEF IsHandler
<1>3. Len(args) \in Nat /\ DOMAIN args = 1 .. Len(args) /\ (Len(args) + 1) - 1 = Len(args)
      BY <1>2, SeqShape
<1>4. Made(args, x.values, Len(args) + 1, Paging(app).max)
      BY <1>1 DEF ArgumentInv
<1>5. /\ \A i \in DOMAIN args : args[i].kind = "valid" => x.values[i] = "valid"
      /\ \A i \in DOMAIN args : args[i].kind \in {"paginate", "cursor"} =>
                                   IsPage(x.values[i], args[i].kind, Paging(app).max)
      /\ \A i, j \in DOMAIN args : OfBody(args[i]) /\ OfBody(args[j]) => i = j
      BY <1>3, <1>4 DEF Made
<1>6. Cardinality({i \in DOMAIN args : args[i].kind \in {"json", "valid"}}) <= 1
  <2>1. PICK B : B = {i \in DOMAIN args : args[i].kind \in {"json", "valid"}}
        OBVIOUS
  <2>2. CASE B = {}
        BY <2>1, <2>2, FS_EmptySet
  <2>3. CASE B # {}
    <3>1. PICK i : i \in B
          BY <2>3
    <3>2. B = {i}
          BY <1>5, <2>1, <3>1 DEF OfBody
    <3>3. Cardinality(B) = 1
          BY <3>2, FS_Singleton
    <3>4. QED BY <2>1, <3>3
  <2>4. QED BY <2>2, <2>3
<1>7. QED BY <1>1, <1>5, <1>6 DEF ArgumentsSound, IsPage

\* Where no health check ran there is nothing to tell.
LEMMA HealthNone ==
  ASSUME x'.health = <<>>
  PROVE  HealthInv'
<1>1. DOMAIN x'.health = {}
      BY SeqShort
<1>2. QED BY <1>1 DEF HealthInv

\* What the health route says stays said on the way out.
LEMMA HealthStep ==
  ASSUME AppInv, ShapeInv, HealthInv, [Next]_vars
  PROVE  HealthInv'
<1>1. CASE UNCHANGED vars
      BY <1>1 DEF vars, HealthInv
<1>2. CASE Start \/ Panic
  <2>1. x' = Fresh
        BY <1>2 DEF Start, Panic, ShapeInv
  <2>2. QED BY <2>1, BlankShape, HealthNone DEF Blank
<1>3. ASSUME NEW req \in Requests, Receive(req) \/ Send(req) PROVE HealthInv'
  <2>1. x'.health = <<>>
        BY <1>3, ArriveEffect DEF Blank
  <2>2. QED BY <2>1, HealthNone
<1>4. ASSUME pc \in {"route", "enter", "extract", "call"}, UNCHANGED x.health PROVE HealthInv'
      BY <1>4, HealthNone DEF ShapeInv, Untouched
<1>5. CASE Route
  <2>1. pc = "route" /\ UNCHANGED x.health
        BY <1>5, FoundEffect, NotAllowedEffect, NotFoundEffect DEF Route
  <2>2. QED BY <2>1, <1>4
<1>6. CASE Enter
      BY <1>6, <1>4, EnterEffect
<1>7. CASE Inside
      BY <1>7, <1>4 DEF Inside
<1>8. CASE Extract
      BY <1>8, <1>4, ExtractEffect
<1>9. CASE Call \/ CallNotAllowed
  <2>1. PICK res : pc = "call" /\ Handled(res, app.dev) /\ Answer(res)
        BY <1>9, CallEffect, CallNotAllowedEffect
  <2>2. UNCHANGED x.health
        BY <2>1, AnswerEffect
  <2>3. QED BY <2>1, <2>2, <1>4
<1>10. CASE CallSocket
       BY <1>10, <1>4, CallSocketEffect
<1>11. CASE CallHealth
  <2>1. HealthAnswer(x'.health, x'.res)
        BY <1>11, CallHealthEffect
  <2>2. QED BY <2>1 DEF HealthAnswer, HealthInv, Has
<1>12. CASE Leave
  <2>1. PICK mw : mw = x.chain[x.idx]
        OBVIOUS
  <2>2. PICK out : out = After(mw, x.req, x.res)
        OBVIOUS
  <2>3. /\ pc = "leave" /\ x.idx > 0 /\ x'.res = out /\ x'.failed = (x.failed \/ ~out.ok)
        /\ UNCHANGED x.health
        BY <1>12, <2>1, <2>2, LeaveEffect
  <2>4. IsMiddleware(mw) /\ IsResult(x.res)
        BY <2>1, <2>3, SeqShape DEF ShapeInv, AreMiddleware
  <2>5. ~x'.failed => ~x.failed /\ out.ok /\ x.res.ok
        BY <2>3 DEF ShapeInv
  <2>6. ~x'.failed => Kept(x.res, out)
        BY <2>2, <2>4, <2>5, AfterKeeps
  <2>7. QED BY <2>3, <2>5, <2>6 DEF HealthInv, Kept, Has
<1>13. CASE Finish
  <2>1. pc = "leave" /\ (x.res.ok => x'.res = x.res) /\ UNCHANGED <<x.failed, x.health>>
        BY <1>13, FinishEffect
  <2>2. ~x.failed => x.res.ok
        BY <2>1 DEF ShapeInv
  <2>3. QED BY <2>1, <2>2 DEF HealthInv
<1>14. QED BY <1>1, <1>2, <1>3, <1>5, <1>6, <1>7, <1>8, <1>9, <1>10, <1>11, <1>12, <1>13 DEF Next

\* So it is when the answer is out.
LEMMA HealthFollows ==
  ASSUME HealthInv
  PROVE  HealthTruthful
BY DEF HealthInv, HealthTruthful

\* ------------------------------------------------------------------ groups

\* A router all of whose handlers have what they need around them, in the middleware a
\* route brought along from an inner group and that of the group itself.
WellGrouped(router, state) ==
    /\ DOMAIN router = DOMAIN NewRouter
    /\ IsSeq(router.routes) /\ AreMiddleware(router.group)
    /\ \A i \in DOMAIN router.routes :
          LET route == router.routes[i]
          IN  /\ DOMAIN route = {"method", "segments", "handler", "middleware"}
              /\ IsRoute(route)
              /\ route.handler.kind = "fn" =>
                    \A need \in route.handler.needs :
                       Enforced(need, route.middleware \o router.group, state)

\* An empty router is one.
LEMMA NewRouterGrouped ==
  ASSUME NEW state
  PROVE  WellGrouped(NewRouter, state)
<1>1. DOMAIN NewRouter = DOMAIN NewRouter /\ NewRouter.routes = <<>> /\ NewRouter.group = <<>>
      BY DEF NewRouter
<1>2. IsSeq(<<>>) /\ DOMAIN <<>> = {} /\ AreMiddleware(<<>>)
      BY SeqShort, BlankShape
<1>3. QED BY <1>1, <1>2 DEF WellGrouped

\* Router::use_mw() is for the routes added before it as for those added after it.
LEMMA UseMwEarlyOrLate ==
  ASSUME NEW router, DOMAIN router = DOMAIN NewRouter, NEW mw, NEW method, NEW pattern, NEW handler
  PROVE  Add(UseMw(router, mw), method, pattern, handler) = UseMw(Add(router, method, pattern, handler), mw)
<1>1. PICK routes : routes = Append(router.routes, [method |-> method, segments |-> pattern,
                                                    handler |-> handler, middleware |-> <<>>])
      OBVIOUS
<1>2. PICK group : group = Append(router.group, mw)
      OBVIOUS
<1>3. PICK first : first = [router EXCEPT !.group = group]
      OBVIOUS
<1>4. PICK second : second = [router EXCEPT !.routes = routes]
      OBVIOUS
<1>5. first.routes = router.routes /\ second.group = router.group
      BY <1>3, <1>4 DEF NewRouter
<1>6. UseMw(router, mw) = first /\ Add(router, method, pattern, handler) = second
      BY <1>1, <1>2, <1>3, <1>4 DEF UseMw, Add
<1>7. /\ Add(first, method, pattern, handler) = [first EXCEPT !.routes = routes]
      /\ UseMw(second, mw) = [second EXCEPT !.group = group]
      BY <1>1, <1>2, <1>5 DEF UseMw, Add
<1>8. [first EXCEPT !.routes = routes] = [second EXCEPT !.group = group]
      BY <1>3, <1>4
<1>9. QED BY <1>6, <1>7, <1>8

\* Middleware further in leaves what is enforced as it is.
LEMMA EnforcedInner ==
  ASSUME NEW need, NEW state, NEW chain, NEW post, IsSeq(chain), IsSeq(post),
         Enforced(need, chain, state)
  PROVE  Enforced(need, chain \o post, state)
<1>1. PICK whole : whole = chain \o post
      OBVIOUS
<1>2. IsSeq(<<>>) /\ chain = <<>> \o chain
      BY SeqShort DEF IsSeq
<1>3. Enforced(need, whole, state)
      BY <1>1, <1>2, EnforcedWithin
<1>4. QED BY <1>1, <1>3

\* Middleware further out as well.
LEMMA EnforcedOuter ==
  ASSUME NEW need, NEW state, NEW chain, NEW pre, IsSeq(chain), IsSeq(pre),
         Enforced(need, chain, state)
  PROVE  Enforced(need, pre \o chain, state)
<1>1. PICK both : both = pre \o chain
      OBVIOUS
<1>2. IsSeq(both)
      BY <1>1, SeqConcat
<1>3. IsSeq(<<>>) /\ both = both \o <<>>
      BY <1>2, SeqShort DEF IsSeq
<1>4. Enforced(need, both, state)
      BY <1>1, <1>3, EnforcedWithin
<1>5. QED BY <1>1, <1>4

\* Router::use_mw() and guard() add to what is around each handler of the group.
THEOREM UseMwKeepsNeeds ==
  ASSUME NEW state, NEW router, WellGrouped(router, state), NEW mw, IsMiddleware(mw)
  PROVE  WellGrouped(UseMw(router, mw), state)
<1>1. PICK group : group = Append(router.group, mw)
      OBVIOUS
<1>2. PICK r : r = [router EXCEPT !.group = group]
      OBVIOUS
<1>3. DOMAIN r = DOMAIN router /\ r.routes = router.routes /\ r.group = group
      BY <1>2 DEF WellGrouped, NewRouter
<1>4. PICK one : one = <<mw>>
      OBVIOUS
<1>5. AreMiddleware(one) /\ group = router.group \o one
  <2>1. IsSeq(one) /\ DOMAIN one = {1} /\ one[1] = mw
        BY <1>4 DEF IsSeq, ToSet
  <2>2. AreMiddleware(one)
        BY <2>1 DEF AreMiddleware
  <2>3. router.group \in Seq(ToSet(router.group))
        BY DEF WellGrouped, AreMiddleware, IsSeq
  <2>4. group = router.group \o one
        BY <1>1, <1>4, <2>3
  <2>5. QED BY <2>2, <2>4
<1>6. AreMiddleware(group)
      BY <1>5, ChainConcat DEF WellGrouped
<1>7. ASSUME NEW i \in DOMAIN router.routes, router.routes[i].handler.kind = "fn",
             NEW need \in router.routes[i].handler.needs
      PROVE  Enforced(need, router.routes[i].middleware \o group, state)
  <2>1. PICK m : m = router.routes[i].middleware
        OBVIOUS
  <2>2. PICK chain : chain = m \o router.group
        OBVIOUS
  <2>3. IsSeq(m) /\ IsSeq(router.group) /\ IsSeq(one) /\ Enforced(need, chain, state)
        BY <1>5, <1>7, <2>1, <2>2 DEF WellGrouped, IsRoute, AreMiddleware
  <2>4. IsSeq(chain)
        BY <2>2, <2>3, SeqConcat
  <2>5. Enforced(need, chain \o one, state)
        BY <2>3, <2>4, EnforcedInner
  <2>6. PICK whole : whole = m \o group
        OBVIOUS
  <2>7. whole = chain \o one
    <3>1. PICK g : g = router.group
          OBVIOUS
    <3>2. chain = m \o g /\ group = g \o one /\ IsSeq(m) /\ IsSeq(g) /\ IsSeq(one)
          BY <1>5, <2>2, <2>3, <3>1
    <3>3. m \o group = chain \o one
          BY <3>2, ConcatOutside
    <3>4. QED BY <2>6, <3>3
  <2>8. Enforced(need, whole, state)
        BY <2>5, <2>7
  <2>9. QED BY <2>1, <2>6, <2>8
<1>8. WellGrouped(r, state)
      BY <1>3, <1>6, <1>7 DEF WellGrouped
<1>9. QED BY <1>1, <1>2, <1>8 DEF UseMw

\* Router::add(): a handler that needs no more than the group has.
THEOREM AddKeepsNeeds ==
  ASSUME NEW state, NEW router, WellGrouped(router, state),
         NEW method, method # "none", NEW pattern, IsSeq(pattern), NEW handler, IsHandler(handler),
         handler.kind = "fn" => \A need \in handler.needs : Enforced(need, router.group, state)
  PROVE  WellGrouped(Add(router, method, pattern, handler), state)
<1>1. PICK new : new = [method |-> method, segments |-> pattern, handler |-> handler, middleware |-> <<>>]
      OBVIOUS
<1>2. PICK R : R = router.routes
      OBVIOUS
<1>3. PICK S : S = Append(R, new)
      OBVIOUS
<1>4. PICK r : r = [router EXCEPT !.routes = S]
      OBVIOUS
<1>5. DOMAIN r = DOMAIN router /\ r.routes = S /\ r.group = router.group
      BY <1>4 DEF WellGrouped, NewRouter
<1>6. /\ IsSeq(S) /\ Len(R) \in Nat /\ DOMAIN R = 1 .. Len(R) /\ DOMAIN S = 1 .. Len(R) + 1
      /\ \A i \in DOMAIN R : S[i] = R[i]
      /\ S[Len(R) + 1] = new
      BY <1>2, <1>3, SeqAppend DEF WellGrouped
<1>7. \A i \in DOMAIN S : (i \in DOMAIN R /\ S[i] = R[i]) \/ S[i] = new
      BY <1>6
<1>8. /\ DOMAIN new = {"method", "segments", "handler", "middleware"} /\ new.handler = handler
      /\ new.method = method /\ new.segments = pattern /\ new.middleware = <<>>
      BY <1>1
<1>9. IsRoute(new)
      BY <1>8, BlankShape DEF IsRoute, Found
<1>10. <<>> \o router.group = router.group
       BY DEF WellGrouped, AreMiddleware, IsSeq
<1>11. ASSUME NEW i \in DOMAIN S
       PROVE  /\ DOMAIN S[i] = {"method", "segments", "handler", "middleware"} /\ IsRoute(S[i])
              /\ S[i].handler.kind = "fn" =>
                    \A need \in S[i].handler.needs :
                       Enforced(need, S[i].middleware \o router.group, state)
  <2>1. CASE i \in DOMAIN R /\ S[i] = R[i]
        BY <1>2, <2>1 DEF WellGrouped
  <2>2. CASE S[i] = new
        BY <1>8, <1>9, <1>10, <2>2
  <2>3. QED BY <1>7, <2>1, <2>2
<1>12. WellGrouped(r, state)
       BY <1>5, <1>6, <1>11 DEF WellGrouped
<1>13. Add(router, method, pattern, handler) = r
       BY <1>1, <1>2, <1>3, <1>4 DEF Add
<1>14. QED BY <1>12, <1>13

\* A sequence of routes with more of them behind it.
Joined(R, T, S) ==
    /\ IsSeq(S)
    /\ \A n \in DOMAIN S : \/ n \in DOMAIN R /\ S[n] = R[n]
                           \/ \E i \in DOMAIN T : S[n] = T[i]

\* What merge_from() makes of its routes and those of the inner group.
LEMMA RoutesJoin ==
  ASSUME NEW R, NEW T, IsSeq(R), IsSeq(T), NEW S, S = R \o T
  PROVE  Joined(R, T, S)
<1>1. /\ IsSeq(S) /\ Len(R) \in Nat /\ Len(T) \in Nat /\ DOMAIN R = 1 .. Len(R) /\ DOMAIN T = 1 .. Len(T)
      /\ DOMAIN S = 1 .. Len(R) + Len(T)
      /\ \A i \in DOMAIN R : S[i] = R[i]
      /\ \A i \in DOMAIN T : S[Len(R) + i] = T[i]
      BY SeqConcat
<1>2. ASSUME NEW n \in DOMAIN S, n \notin DOMAIN R PROVE \E i \in DOMAIN T : S[n] = T[i]
  <2>1. n - Len(R) \in DOMAIN T /\ Len(R) + (n - Len(R)) = n
        BY <1>1, <1>2
  <2>2. S[n] = T[n - Len(R)]
        BY <1>1, <2>1
  <2>3. QED BY <2>1, <2>2
<1>3. QED BY <1>1, <1>2 DEF Joined

\* A route that is merged: a route, with what enforces its needs in its own middleware now.
Merged(route, state) ==
    /\ DOMAIN route = {"method", "segments", "handler", "middleware"}
    /\ IsRoute(route)
    /\ route.handler.kind = "fn" =>
          \A need \in route.handler.needs : Enforced(need, route.middleware, state)

\* So is each route that merge_from() makes.
LEMMA MergedRoute ==
  ASSUME NEW state, NEW other, WellGrouped(other, state), NEW prefix, IsSeq(prefix),
         NEW i \in DOMAIN other.routes, NEW t,
         t = [other.routes[i] EXCEPT !.segments = prefix \o @, !.middleware = @ \o other.group]
  PROVE  Merged(t, state)
<1>1. PICK route : route = other.routes[i]
      OBVIOUS
<1>2. /\ DOMAIN route = {"method", "segments", "handler", "middleware"} /\ IsRoute(route)
      /\ route.handler.kind = "fn" =>
            \A need \in route.handler.needs : Enforced(need, route.middleware \o other.group, state)
      BY <1>1 DEF WellGrouped
<1>3. PICK segments : segments = prefix \o route.segments
      OBVIOUS
<1>4. PICK chain : chain = route.middleware \o other.group
      OBVIOUS
<1>5. t = [route EXCEPT !.segments = segments, !.middleware = chain]
      BY <1>1, <1>2, <1>3, <1>4
<1>6. /\ DOMAIN t = {"method", "segments", "handler", "middleware"}
      /\ t.method = route.method /\ t.segments = segments /\ t.handler = route.handler
      /\ t.middleware = chain
      BY <1>2, <1>5
<1>7. IsSeq(segments)
      BY <1>2, <1>3, SeqConcat DEF IsRoute
<1>8. AreMiddleware(chain)
      BY <1>2, <1>4, ChainConcat DEF IsRoute, WellGrouped
<1>9. IsRoute(t)
      BY <1>2, <1>6, <1>7, <1>8 DEF IsRoute, Found
<1>10. t.handler.kind = "fn" => \A need \in t.handler.needs : Enforced(need, t.middleware, state)
       BY <1>2, <1>4, <1>6
<1>11. QED BY <1>6, <1>9, <1>10 DEF Merged

\* All of them, in their order.
LEMMA MergedRoutes ==
  ASSUME NEW state, NEW other, WellGrouped(other, state), NEW prefix, IsSeq(prefix), NEW T,
         T = [i \in DOMAIN other.routes |->
                 [other.routes[i] EXCEPT !.segments = prefix \o @, !.middleware = @ \o other.group]]
  PROVE  IsSeq(T) /\ \A i \in DOMAIN T : Merged(T[i], state)
<1>1. PICK m : m = Len(other.routes)
      OBVIOUS
<1>2. m \in Nat /\ DOMAIN other.routes = 1 .. m
      BY <1>1, SeqShape DEF WellGrouped
<1>3. DOMAIN T = 1 .. m /\ T = [i \in 1 .. m |-> T[i]]
      BY <1>2
<1>4. IsSeq(T)
      BY <1>2, <1>3, SeqPlaces
<1>5. ASSUME NEW i \in DOMAIN T PROVE Merged(T[i], state)
  <2>1. /\ i \in DOMAIN other.routes
        /\ T[i] = [other.routes[i] EXCEPT !.segments = prefix \o @, !.middleware = @ \o other.group]
        BY <1>2, <1>3
  <2>2. QED BY <2>1, MergedRoute
<1>6. QED BY <1>4, <1>5

\* merge_from(): the routes of an inner group keep what the groups around them declared,
\* whatever is declared further out.
THEOREM MergeKeepsNeeds ==
  ASSUME NEW state, NEW router, WellGrouped(router, state), NEW other, WellGrouped(other, state),
         NEW prefix, IsSeq(prefix)
  PROVE  WellGrouped(MergeFrom(router, prefix, other), state)
<1>1. PICK R : R = router.routes
      OBVIOUS
<1>2. PICK T : T = [i \in DOMAIN other.routes |->
                       [other.routes[i] EXCEPT !.segments = prefix \o @, !.middleware = @ \o other.group]]
      OBVIOUS
<1>3. PICK S : S = R \o T
      OBVIOUS
<1>4. PICK r : r = [router EXCEPT !.routes = S]
      OBVIOUS
<1>5. MergeFrom(router, prefix, other) = r
      BY <1>1, <1>2, <1>3, <1>4 DEF MergeFrom
<1>6. DOMAIN r = DOMAIN router /\ r.routes = S /\ r.group = router.group
      BY <1>4 DEF WellGrouped, NewRouter
<1>7. IsSeq(T) /\ \A i \in DOMAIN T : Merged(T[i], state)
      BY <1>2, MergedRoutes
<1>8. Joined(R, T, S)
      BY <1>1, <1>3, <1>7, RoutesJoin DEF WellGrouped
<1>9. ASSUME NEW n \in DOMAIN S
      PROVE  /\ DOMAIN S[n] = {"method", "segments", "handler", "middleware"} /\ IsRoute(S[n])
             /\ S[n].handler.kind = "fn" =>
                   \A need \in S[n].handler.needs :
                      Enforced(need, S[n].middleware \o router.group, state)
  <2>1. CASE n \in DOMAIN R /\ S[n] = R[n]
        BY <1>1, <2>1 DEF WellGrouped
  <2>2. CASE Merged(S[n], state)
    <3>1. IsSeq(S[n].middleware) /\ IsSeq(router.group)
          BY <2>2 DEF Merged, IsRoute, AreMiddleware, WellGrouped
    <3>2. QED BY <2>2, <3>1, EnforcedInner DEF Merged
  <2>3. QED BY <1>7, <1>8, <2>1, <2>2 DEF Joined
<1>10. WellGrouped(r, state)
       BY <1>6, <1>8, <1>9 DEF WellGrouped, Joined
<1>11. QED BY <1>5, <1>10

\* App::group() and mount(): an app stays well built with a router all of whose handlers
\* have what they need.
THEOREM AppGroupKeepsNeeds ==
  ASSUME NEW a, WellBuilt(a), NEW other, WellGrouped(other, a.state), NEW prefix, IsSeq(prefix)
  PROVE  WellBuilt(AppGroup(a, prefix, other))
<1>1. PICK R : R = a.router.routes
      OBVIOUS
<1>2. PICK T : T = [i \in DOMAIN other.routes |->
                       [other.routes[i] EXCEPT !.segments = prefix \o @, !.middleware = @ \o other.group]]
      OBVIOUS
<1>3. PICK S : S = R \o T
      OBVIOUS
<1>4. PICK r : r = [a.router EXCEPT !.routes = S]
      OBVIOUS
<1>5. PICK b : b = [a EXCEPT !.router = r]
      OBVIOUS
<1>6. AppGroup(a, prefix, other) = b
      BY <1>1, <1>2, <1>3, <1>4, <1>5 DEF AppGroup, MergeFrom, WellBuilt, NewApp
<1>7. /\ DOMAIN b = DOMAIN a /\ b.router = r /\ b.global = a.global /\ b.health = a.health
      /\ b.config = a.config /\ b.state = a.state
      /\ DOMAIN r = DOMAIN a.router /\ r.routes = S
      BY <1>4, <1>5 DEF WellBuilt, NewApp, NewRouter
<1>8. IsSeq(T) /\ \A i \in DOMAIN T : Merged(T[i], a.state)
      BY <1>2, MergedRoutes
<1>9. Joined(R, T, S)
      BY <1>1, <1>3, <1>8, RoutesJoin DEF WellBuilt
<1>10. ASSUME NEW n \in DOMAIN S
       PROVE  /\ IsRoute(S[n])
              /\ S[n].handler.kind = "fn" =>
                    \A need \in S[n].handler.needs :
                       Enforced(need, a.global \o S[n].middleware, a.state)
  <2>1. CASE n \in DOMAIN R /\ S[n] = R[n]
        BY <1>1, <2>1 DEF WellBuilt
  <2>2. CASE Merged(S[n], a.state)
    <3>1. IsSeq(S[n].middleware) /\ IsSeq(a.global)
          BY <2>2 DEF Merged, IsRoute, AreMiddleware, WellBuilt
    <3>2. QED BY <2>2, <3>1, EnforcedOuter DEF Merged
  <2>3. QED BY <1>8, <1>9, <2>1, <2>2 DEF Joined
<1>11. WellBuilt(b)
       BY <1>7, <1>9, <1>10 DEF WellBuilt, Joined
<1>12. QED BY <1>6, <1>11

\* ------------------------------------------------------------- the theorems

\* The inductive invariant.
IInv == AppInv /\ ShapeInv /\ RouteInv /\ GuardInv /\ HeaderInv /\ ErrorInv /\ ArgumentInv /\ HealthInv

\* It holds before anything has happened.
LEMMA IInvInit ==
  ASSUME Init
  PROVE  IInv
<1>1. pc = "start" /\ x = Fresh /\ Blank(x) /\ x.res = Ok(200)
      BY BlankShape DEF Init
<1>2. AppInv
      BY PipelineAssumption DEF Init, AppInv
<1>3. ShapeInv
  <2>1. AreMiddleware(x.chain) /\ IsResult(x.res)
        BY <1>1, BlankShape DEF Blank
  <2>2. /\ DOMAIN x = DOMAIN Fresh /\ x.idx \in 0 .. Len(x.chain) /\ x.depth \in x.idx .. Len(x.chain)
        /\ x.failed \in BOOLEAN /\ x.ran \in BOOLEAN /\ ~x.ran /\ ~x.own /\ x.health = <<>>
        BY <1>1, BlankShaped
  <2>3. QED BY <1>1, <2>1, <2>2 DEF ShapeInv
<1>4. RouteInv
      BY <1>1 DEF RouteInv, Origin, Blank, NotFound, NoRoute, Found, Ok
<1>5. GuardInv
  <2>1. 1 .. 0 = {}
        OBVIOUS
  <2>2. QED BY <1>1, <2>1 DEF GuardInv, Blank, NotFound
<1>6. HeaderInv /\ HealthInv
      BY <1>1 DEF HeaderInv, HealthInv
<1>7. ErrorInv
      BY <1>1 DEF ErrorInv, Ok
<1>8. ArgumentInv
      BY <1>1 DEF ArgumentInv, Blank, NotFound
<1>9. QED BY <1>2, <1>3, <1>4, <1>5, <1>6, <1>7, <1>8 DEF IInv

\* Every step keeps it.
LEMMA IInvStep ==
  ASSUME IInv, [Next]_vars
  PROVE  IInv'
<1>1. AppInv /\ ShapeInv /\ RouteInv /\ GuardInv /\ HeaderInv /\ ErrorInv /\ ArgumentInv /\ HealthInv
      BY DEF IInv
<1>2. AppInv'
      BY <1>1, AppStep
<1>3. ShapeInv'
      BY <1>1, ShapeStep
<1>4. RouteInv'
      BY <1>1, RouteStep
<1>5. GuardInv'
      BY <1>1, GuardStep
<1>6. HeaderInv'
      BY <1>1, HeaderStep
<1>7. ErrorInv'
      BY <1>1, ErrorStep
<1>8. ArgumentInv'
      BY <1>1, ArgumentStep
<1>9. HealthInv'
      BY <1>1, HealthStep
<1>10. QED BY <1>2, <1>3, <1>4, <1>5, <1>6, <1>7, <1>8, <1>9 DEF IInv

\* The inductive invariant holds always.
THEOREM ExchangeInvariant == Spec => []IInv
BY IInvInit, IInvStep, PTL DEF Spec

\* find() and the chain of handle_app_request(): the route taken is the best of the method
\* and the path and the first registered of those; 405 and 404 say what is there.
THEOREM RouteChosenAlways == Spec => []RouteChosen
<1>1. IInv => RouteChosen
      BY RouteFollows DEF IInv
<1>2. QED BY ExchangeInvariant, <1>1, PTL

\* Next::run(), Router::use_mw() and merge_from(): a handler runs only for a request that
\* satisfied every guard and requirement of the groups around it.
THEOREM HandlersGuarded == Spec => []GuardedHandler
<1>1. IInv => GuardedHandler
      BY GuardFollows DEF IInv
<1>2. QED BY ExchangeInvariant, <1>1, PTL

\* Cors, SecureHeaders and RequestId on the way out: their headers are on every answer that
\* no middleware turned into an error, and a handler's own value survives them.
THEOREM HeadersAlwaysKept == Spec => []HeadersKept
<1>1. IInv => HeadersKept
      BY HeaderFollows DEF IInv
<1>2. QED BY ExchangeInvariant, <1>1, PTL

\* Error::into_response() and Environment::detect(): no detail of an error leaves a process
\* whose environment was not set to something else than production and staging.
THEOREM ErrorsAlwaysSanitised == Spec => []ErrorsSanitised
<1>1. IInv => ErrorsSanitised
      BY ErrorFollows DEF IInv
<1>2. QED BY ExchangeInvariant, <1>1, PTL

\* The generated Handler::call() and the extractors: a handler runs with validated values,
\* pages within the limits and at most one argument from the body.
THEOREM ArgumentsAlwaysSound == Spec => []ArgumentsSound
<1>1. IInv => ArgumentsSound
      BY ArgumentFollows DEF IInv
<1>2. QED BY ExchangeInvariant, <1>1, PTL

\* Config::load() behind App::config(): an app that serves has a usable value for each field.
THEOREM StartupAlwaysSound == Spec => []StartupSound
<1>1. IInv => StartupSound
      BY StartupFollows DEF IInv
<1>2. QED BY ExchangeInvariant, <1>1, PTL

\* health_handler() and the middleware around it: the status and the word on the wire are
\* those of the checks.
THEOREM HealthAlwaysTruthful == Spec => []HealthTruthful
<1>1. IInv => HealthTruthful
      BY HealthFollows DEF IInv
<1>2. QED BY ExchangeInvariant, <1>1, PTL
================================================================================
