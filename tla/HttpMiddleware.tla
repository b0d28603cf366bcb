----------------------------- MODULE HttpMiddleware -----------------------------
(***************************************************************************)
(* The middleware of the ladoo crate, each as what it does before it calls *)
(* next.run() and what it does with the result.  Most of them use `?' on   *)
(* the result, so an Err passes them untouched.                            *)
(*                                                                         *)
(* A result is Ok with a response or Err with an error.  Its detail is     *)
(* "inner" when it carries the detail or the sources of an Error, "raw"    *)
(* when the code put an error's text into the body itself.                 *)
(***************************************************************************)
EXTENDS Naturals, Sequences, FiniteSets, SequencesExt

Absent == "absent"

\* -------------------------------------------------------------- responses

\* Response::empty(), with_status() and the IntoResponse impls: a status, no headers that matter.
Ok(status) == [ok |-> TRUE, status |-> status, headers |-> <<>>, detail |-> "none"]

\* Error::new() and its kinds; From<E> and with_detail() give one a detail.
Err(status, detail) == [ok |-> FALSE, status |-> status, headers |-> <<>>, detail |-> detail]

\* Mutant of Render: the detail is rendered in production too.
RenderAlways(err, dev) == [err EXCEPT !.ok = TRUE]

\* Error::into_response(): the page of development shows the detail and the chain of
\* sources, the JSON of production the message only.
Render(err, dev) == [err EXCEPT !.ok = TRUE, !.detail = IF dev THEN @ ELSE "none"]

Has(res, name) == name \in DOMAIN res.headers
SetHeader(res, name, value) ==
    [res EXCEPT !.headers = [n \in DOMAIN @ \cup {name} |-> IF n = name THEN value ELSE @[n]]]
SetIfAbsent(res, name, value) == IF Has(res, name) THEN res ELSE SetHeader(res, name, value)

\* ------------------------------------------------------------------- Cors

NewCors == [kind |-> "cors", any |-> FALSE, origins |-> {}, credentials |-> FALSE, expose |-> FALSE]
Permissive == [NewCors EXCEPT !.any = TRUE]
AllowOrigin(cors, origin) == [cors EXCEPT !.any = FALSE, !.origins = IF cors.any THEN {origin} ELSE @ \cup {origin}]

\* allow_credentials(true) panics on a wildcard.
CanAllowCredentials(cors) == ~cors.any
AllowCredentials(cors) == [cors EXCEPT !.credentials = TRUE]
ExposeHeaders(cors) == [cors EXCEPT !.expose = TRUE]

IsOriginAllowed(cors, origin) == cors.any \/ origin \in cors.origins

\* Cors::call() does something: an Origin header of an allowed origin.
Applies(cors, req) == req.origin # Absent /\ IsOriginAllowed(cors, req.origin)

SetOriginHeader(cors, res, origin) ==
    IF cors.any /\ ~cors.credentials THEN SetHeader(res, "allow-origin", "*")
    ELSE SetHeader(SetHeader(res, "allow-origin", origin), "vary", "origin")

\* set_preflight_headers(): methods and headers are constants of the policy.
PreflightHeaders(cors, origin) ==
    LET r == SetHeader(SetOriginHeader(cors, Ok(204), origin), "allow-methods", "policy")
    IN  IF cors.credentials THEN SetHeader(r, "allow-credentials", "true") ELSE r

\* Mutant of CorsHeaders: the headers are for successful answers.
CorsHeadersOnSuccess(cors, res, origin) ==
    IF res.status >= 400 \/ Has(res, "allow-origin") THEN res ELSE SetOriginHeader(cors, res, origin)

\* set_cors_headers(): each header unless the response has it.
CorsHeaders(cors, res, origin) ==
    LET r1 == IF Has(res, "allow-origin") THEN res ELSE SetOriginHeader(cors, res, origin)
        r2 == IF cors.credentials THEN SetIfAbsent(r1, "allow-credentials", "true") ELSE r1
    IN  IF cors.expose THEN SetIfAbsent(r2, "expose-headers", "policy") ELSE r2

\* ---------------------------------------------------------- SecureHeaders

\* The headers there are to switch on.
SecurityHeaders == {"strict-transport-security", "x-content-type-options", "x-frame-options",
                    "content-security-policy", "referrer-policy", "permissions-policy"}

\* The headers switched on; each builder replaces or switches off one.
SecureHeaders(names) == [kind |-> "secure", names |-> names]

Secured(mw, res) ==
    [res EXCEPT !.headers = [n \in DOMAIN @ \cup mw.names |-> IF n \in DOMAIN @ THEN @[n] ELSE "default"]]

\* ----------------------------------------------------------- authentication

\* JwtAuth::hs256() and rs256(), with_issuer(), allow_no_expiry(): the Validation they set up.
Jwt(type) == [kind |-> "jwt", type |-> type, required |-> {"exp"}, expiry |-> TRUE, issuer |-> Absent]
WithIssuer(p, issuer) == [p EXCEPT !.issuer = issuer, !.required = @ \cup {"iss"}]
AllowNoExpiry(p) == [p EXCEPT !.required = @ \ {"exp"}, !.expiry = FALSE]

\* ApiKeyAuth::new() and key(): the user of each key.
ApiKeys(type, keys) == [kind |-> "key", type |-> type, keys |-> keys]

\* jsonwebtoken::decode(): the signature, the required claims, then the claims that are there.
Decodes(p, token) ==
    /\ token.good
    /\ p.required \subseteq DOMAIN token.claims
    /\ ("exp" \in DOMAIN token.claims /\ p.expiry) => token.claims["exp"] = "future"
    /\ ("iss" \in DOMAIN token.claims /\ p.issuer # Absent) => token.claims["iss"] = p.issuer

\* AuthProvider::authenticate() of JwtAuth (Authorization: Bearer) and of ApiKeyAuth.
Authenticates(p, req) ==
    IF p.kind = "jwt" THEN req.token.bearer /\ Decodes(p, req.token) ELSE req.key \in DOMAIN p.keys

Authenticated(p, req) == IF p.kind = "jwt" THEN req.token.user ELSE p.keys[req.key]

Guard(provider) == [kind |-> "guard", provider |-> provider]
RequireRole(type, role) == [kind |-> "role", type |-> type, role |-> role]
RequirePermission(type, permission) == [kind |-> "permission", type |-> type, permission |-> permission]

\* Rbac::has_permission(): "*" grants all, "a:*" what begins with "a:", else the same text.
Grants(pattern, permission) ==
    CASE pattern = <<"*">> -> TRUE
      [] Len(pattern) > 1 /\ Last(pattern) = "*" ->
            Len(permission) >= Len(pattern) /\ IsPrefix(Front(pattern), permission)
      [] OTHER -> pattern = permission

HasPermission(rbac, role, permission) ==
    role \in DOMAIN rbac /\ \E pattern \in rbac[role] : Grants(pattern, permission)

\* ------------------------------------------------------------- the chain

\* What a middleware's call() decides before next.run(): to go on, with what it adds to
\* the per-request state, or to answer itself.
Goes(per) == [go |-> TRUE, per |-> per, res |-> Ok(200)]
Answers(res) == [go |-> FALSE, per |-> <<>>, res |-> res]
Provide(per, type, value) == [t \in DOMAIN per \cup {type} |-> IF t = type THEN value ELSE per[t]]

\* AuthError::into_response(): missing, invalid and expired credentials, or forbidden.
AuthFailure(err) == Ok(IF err = "forbidden" THEN 403 ELSE 401)

\* AuthGuardMiddleware::call().
BeforeGuard(mw, req, per) ==
    IF Authenticates(mw.provider, req) THEN Goes(Provide(per, mw.provider.type, Authenticated(mw.provider, req)))
    ELSE Answers(AuthFailure("invalid"))

\* Mutant of BeforeRole: any authenticated user passes.
BeforeRoleAny(mw, per) == IF mw.type \in DOMAIN per THEN Goes(per) ELSE Answers(AuthFailure("missing"))

\* RequireRole::call().
BeforeRole(mw, per) ==
    CASE mw.type \notin DOMAIN per -> Answers(AuthFailure("missing"))
      [] mw.type \in DOMAIN per /\ mw.role \notin per[mw.type].roles -> Answers(AuthFailure("forbidden"))
      [] OTHER -> Goes(per)

\* RequirePermission::call(): the user, then the Rbac of the app's state.
BeforePermission(mw, per, app) ==
    CASE mw.type \notin DOMAIN per -> Answers(AuthFailure("missing"))
      [] mw.type \in DOMAIN per /\ "Rbac" \notin DOMAIN app.state -> Answers(Render(Err(500, "none"), app.dev))
      [] OTHER -> IF \E role \in per[mw.type].roles : HasPermission(app.state["Rbac"], role, mw.permission)
                  THEN Goes(per) ELSE Answers(AuthFailure("forbidden"))

\* Cors::call() answers a preflight itself.
BeforeCors(mw, req, per) ==
    IF Applies(mw, req) /\ req.method = "OPTIONS" /\ req.preflight
    THEN Answers(PreflightHeaders(mw, req.origin))
    ELSE Goes(per)

\* RequestIdMiddleware::call(): the client's id or a fresh one.
BeforeRequestId(req, per) == Goes(Provide(per, "RequestId", req.id))

\* The part of Middleware::call() before next.run().  A middleware of the application
\* may answer itself, Ok or Err.
Before(mw, req, per, app) ==
    CASE mw.kind = "guard" -> BeforeGuard(mw, req, per)
      [] mw.kind = "role" -> BeforeRole(mw, per)
      [] mw.kind = "permission" -> BeforePermission(mw, per, app)
      [] mw.kind = "cors" -> BeforeCors(mw, req, per)
      [] mw.kind = "request_id" -> BeforeRequestId(req, per)
      [] mw.kind = "custom" /\ mw.does = "refuses" -> Answers(Err(500, "inner"))
      [] OTHER -> Goes(per)

\* A middleware of the application may turn the result into an Err, or an Err into Ok.
AfterCustom(mw, res) ==
    CASE mw.does = "fails" -> Err(500, "inner")
      [] mw.does = "recovers" -> IF res.ok THEN res ELSE Ok(503)
      [] OTHER -> res

\* The part of Middleware::call() after next.run().
After(mw, req, res) ==
    IF mw.kind = "custom" THEN AfterCustom(mw, res)
    ELSE CASE ~res.ok -> res
           [] res.ok /\ mw.kind = "cors" -> IF Applies(mw, req) THEN CorsHeaders(mw, res, req.origin) ELSE res
           [] res.ok /\ mw.kind = "secure" -> Secured(mw, res)
           [] res.ok /\ mw.kind = "request_id" -> SetHeader(res, "request-id", req.id)
           [] OTHER -> res
================================================================================
