------------------------------ MODULE Gateway ------------------------------
(***************************************************************************)
(* A request's way through the router: the middleware around every route,  *)
(* the tenant, rate limit and JWT middleware of a group, the handler and   *)
(* the way back, on which a panic unwinds.                                 *)
(*                                                                         *)
(* Bodies and headers are abstracted to what the handlers tell apart, and  *)
(* a call of the service to the errors it can return.  Requests meet only  *)
(* in the database and Redis: here tenants are suspended and Redis fails   *)
(* while requests run.  Module Server adds the process they run in.        *)
(***************************************************************************)
EXTENDS Naturals, Sequences

CONSTANTS
    Request,  \* requests served at one time
    Tenant,   \* names in the tenants table
    None

Success == {200, 201, 204}
Status == Success \cup {400, 401, 403, 429, 500, 503}

ASSUME NoneIsFresh == None \notin Request \cup Tenant \cup Status \cup {0}

VARIABLES
    active,   \* tenants whose status is "active"
    redisUp,
    req       \* the request in each slot

vars == <<active, redisUp, req>>

----------------------------------------------------------------------------
(* The handlers: whether unknown fields are rejected, the status of a      *)
(* request that fails validation, of success (0: nothing is written), of   *)
(* an error (0: what mapAuthError says), and the errors of the service.    *)

Handler(strict, invalid, ok, fail, errors) ==
    [strict |-> strict, invalid |-> invalid, ok |-> ok, fail |-> fail, errors |-> errors]

signupHandler == Handler(TRUE, 400, 201, 0, {"ErrEmailAlreadyExists", "other"})
loginHandler == Handler(TRUE, 400, 200, 0, {"ErrInvalidCredentials", "ErrUserLockedout", "other"})
refreshHandler == Handler(FALSE, 400, 200, 0, {"ErrInvalidToken", "ErrRefreshReuse", "other"})
logoutHandler == Handler(FALSE, None, 204, 0, {"ErrInvalidToken", "other"})
verifyEmailHandler == Handler(FALSE, 500, 200, 0, {"ErrInvalidVerificationToken", "other"})
resendVerificationHandler == Handler(FALSE, 400, 204, 0, {"other"})
changePasswordHandler == Handler(TRUE, 400, 0, 400, {"ErrInvalidCredentials", "other"})
sendResetPasswordEmailHandler == Handler(TRUE, 400, 0, 400, {"other"})
resetPasswordHandler == Handler(TRUE, 400, 204, 400, {"ErrInvalidToken", "other"})
meHandler == Handler(FALSE, None, 200, 0, {})
revokeAllHandler == Handler(FALSE, None, 204, 0, {"other"})
healthhandler == Handler(FALSE, None, 200, 503, {"other"})

TenantGroup ==
    [signup |-> signupHandler, login |-> loginHandler, refresh |-> refreshHandler,
     logout |-> logoutHandler, verify |-> verifyEmailHandler,
     resend |-> resendVerificationHandler, change |-> changePasswordHandler,
     sendreset |-> sendResetPasswordEmailHandler, reset |-> resetPasswordHandler]

JWTGroup == [me |-> meHandler, revokeall |-> revokeAllHandler]

Open == [health |-> healthhandler]

TenantRoute == DOMAIN TenantGroup
JWTRoute == DOMAIN JWTGroup
Route == TenantRoute \cup JWTRoute \cup DOMAIN Open

HandlerOf(route) ==
    IF route \in TenantRoute THEN TenantGroup[route]
    ELSE IF route \in JWTRoute THEN JWTGroup[route] ELSE Open[route]

\* Routes that can be refused for their counters.  Those of signup and
\* send-resetemail are looked at as well, but nothing writes them.
Limited == {"login"}

\* Routes whose handler decodes a JSON body; the others have nothing to reject.
Decodes(route) == route \in TenantRoute \ {"verify"}

mapAuthError(e) ==
    CASE e \in {"ErrEmailAlreadyExists", "ErrInvalidCredentials", "ErrInvalidToken",
                "ErrRefreshReuse"} -> 401
      [] e = "ErrInvalidVerificationToken" -> 400
      [] e = "ErrEmailNotVerified" -> 403
      [] OTHER -> 500

----------------------------------------------------------------------------

Unordered == <<"recoverer", "metrics", "logging">>

\* The middleware of InitRouter that acts on the way back, outermost first.
Wrappers == <<"metrics", "logging", "recoverer">>

Bodies(route) ==
    (IF Decodes(route) THEN {"good", "unknown", "malformed"} ELSE {"good"})
        \cup (IF HandlerOf(route).invalid = None THEN {} ELSE {"invalid"})

NoRequest ==
    [pc |-> "idle", route |-> None, body |-> "good", tenant |-> None, bearer |-> FALSE,
     ctx |-> None, stack |-> <<>>, panic |-> FALSE,
     result |-> None, status |-> None, logged |-> None, counted |-> None]

Init ==
    /\ active = Tenant
    /\ redisUp = TRUE
    /\ req = [r \in Request |-> NoRequest]

\* The headers of interest: a tenant's name, the name of none, or no name at all;
\* a valid access token or not.
Arrive(r) ==
    /\ req[r].pc = "idle"
    /\ \E route \in Route, bearer \in BOOLEAN, tenant \in Tenant \cup {"unknown", None} :
         \E body \in Bodies(route) :
             /\ route \in TenantRoute => ~bearer
             /\ route \notin TenantRoute => tenant = None
             /\ req' = [req EXCEPT ![r] =
                    [NoRequest EXCEPT !.pc = "wrap", !.route = route, !.body = body,
                                      !.tenant = tenant, !.bearer = bearer]]
    /\ UNCHANGED <<active, redisUp>>

Enter(r) ==
    LET q == req[r] IN
    /\ q.pc = "wrap"
    /\ req' = [req EXCEPT ![r].stack = Wrappers,
                          ![r].pc = CASE q.route \in TenantRoute -> "tenant"
                                      [] q.route \in JWTRoute -> "jwt"
                                      [] OTHER -> "handler"]
    /\ UNCHANGED <<active, redisUp>>

\* The first status written is the one sent.
Write(q, status) == [q EXCEPT !.pc = "back", !.status = IF @ = None THEN status ELSE @]

Answer(r, status) == req' = [req EXCEPT ![r] = Write(@, status)]

----------------------------------------------------------------------------

IsActive(t) == t \in active

\* A failed query is answered as an unknown tenant.
TenantMiddleware(r) ==
    LET q == req[r] IN
    /\ q.pc = "tenant"
    /\ \/ q.tenant = None /\ Answer(r, 400)
       \/ q.tenant # None /\ Answer(r, 401)
       \/ q.tenant \in Tenant /\ ~IsActive(q.tenant) /\ Answer(r, 403)
       \/ /\ q.tenant \in Tenant /\ IsActive(q.tenant)
          /\ req' = [req EXCEPT ![r].pc = "limit", ![r].ctx = q.tenant]
    /\ UNCHANGED <<active, redisUp>>

\* A request is refused when Redis says so; when Redis fails it goes on.
RateLimitMiddleware(r) ==
    LET q == req[r] IN
    /\ q.pc = "limit"
    /\ \/ q.route \in Limited /\ redisUp /\ Answer(r, 429)
       \/ req' = [req EXCEPT ![r].pc = "handler"]
    /\ UNCHANGED <<active, redisUp>>

JWTMiddleware(r) ==
    LET q == req[r] IN
    /\ q.pc = "jwt"
    /\ IF q.bearer THEN req' = [req EXCEPT ![r].pc = "handler"] ELSE Answer(r, 401)
    /\ UNCHANGED <<active, redisUp>>

----------------------------------------------------------------------------

\* Decoding and validation.
Decode(r) ==
    LET q == req[r]
        h == HandlerOf(q.route)
    IN
    /\ q.pc = "handler"
    /\ CASE q.body = "malformed" \/ (q.body = "unknown" /\ h.strict) -> Answer(r, 400)
         [] q.body = "invalid" -> Answer(r, h.invalid)
         [] OTHER -> req' = [req EXCEPT ![r].pc = "service"]
    /\ UNCHANGED <<active, redisUp>>

\* RevokeAll asks the context for a tenant first; so do the others, which have one.
Results(q) ==
    IF q.route = "revokeall" /\ q.ctx = None THEN {"ErrTenantNotFound"}
    ELSE {"nil"} \cup HandlerOf(q.route).errors

StatusOf(h, e) ==
    IF e = "nil" THEN h.ok ELSE IF h.fail # 0 THEN h.fail ELSE mapAuthError(e)

\* The service is called and its answer written, if there is one to write.
Serve(r) ==
    /\ req[r].pc = "service"
    /\ \E e \in Results(req[r]) :
         LET s == StatusOf(HandlerOf(req[r].route), e)
             q == [req[r] EXCEPT !.result = e]
         IN  req' = [req EXCEPT ![r] = IF s = 0 THEN [q EXCEPT !.pc = "back"] ELSE Write(q, s)]
    /\ UNCHANGED <<active, redisUp>>

\* The middleware of a group, a handler or the service panics, before a status has
\* been written or after.
Panic(r) ==
    /\ \/ req[r].pc \in {"tenant", "limit", "jwt", "handler", "service"}
       \/ req[r].pc = "back" /\ req[r].stack = Wrappers
    /\ ~req[r].panic
    /\ req' = [req EXCEPT ![r].panic = TRUE, ![r].pc = "back"]
    /\ UNCHANGED <<active, redisUp>>

----------------------------------------------------------------------------
(* The way back, innermost first.  A panic skips what is not deferred.     *)

RecoverSilently(q) == [q EXCEPT !.panic = FALSE]
Recover(q) == [Write(q, IF q.panic THEN 500 ELSE None) EXCEPT !.panic = FALSE]

\* ww.Status() is 0 as long as nothing was written.
Seen(q) == IF q.status = None THEN 0 ELSE q.status

Log(q) == [q EXCEPT !.logged = Seen(q)]
Count(q) == [q EXCEPT !.counted = Seen(q)]

Leave(r) ==
    LET q == req[r]
        top == q.stack[Len(q.stack)]
        left == CASE top = "recoverer" -> Recover(q)
                  [] top # "recoverer" /\ q.panic -> q
                  [] top = "logging" /\ ~q.panic -> Log(q)
                  [] OTHER -> Count(q)
    IN
    /\ q.pc = "back" /\ q.stack # <<>>
    /\ req' = [req EXCEPT ![r] = [left EXCEPT !.stack = SubSeq(@, 1, Len(@) - 1)]]
    /\ UNCHANGED <<active, redisUp>>

\* net/http sends 200 for a handler that wrote nothing and drops the connection
\* of one that panicked.
Finish(r) ==
    LET q == req[r] IN
    /\ q.pc = "back" /\ q.stack = <<>>
    /\ req' = [req EXCEPT ![r].pc = "done",
                          ![r].status = IF @ = None /\ ~q.panic THEN 200 ELSE @]
    /\ UNCHANGED <<active, redisUp>>

\* The connection is used for another request.
Reuse(r) ==
    /\ req[r].pc = "done"
    /\ req' = [req EXCEPT ![r] = NoRequest]
    /\ UNCHANGED <<active, redisUp>>

\* An administrator suspends or reinstates a tenant.
SetStatus(t) ==
    /\ active' = IF t \in active THEN active \ {t} ELSE active \cup {t}
    /\ UNCHANGED <<redisUp, req>>

FlipRedis == redisUp' = ~redisUp /\ UNCHANGED <<active, req>>

\* What a request's goroutine does between its arrival and its end.
Handling(r) ==
    \/ Enter(r) \/ TenantMiddleware(r) \/ RateLimitMiddleware(r) \/ JWTMiddleware(r)
    \/ Decode(r) \/ Serve(r) \/ Panic(r) \/ Leave(r) \/ Reuse(r)

----------------------------------------------------------------------------
(* Properties                                                              *)

\* Every variable has its type; these are the statuses the service answers with.
TypeOK ==
    /\ active \in SUBSET Tenant /\ redisUp \in BOOLEAN
    /\ \A r \in Request :
         /\ req[r].status \in Status \cup {None}
         /\ req[r].logged \in Status \cup {0, None}
         /\ req[r].counted \in Status \cup {0, None}
         /\ req[r].ctx \in Tenant \cup {None}

Done(q) == q.pc = "done"

\* Every request is answered, logged once and counted once, under the status it
\* was answered with or 0 where its handler wrote none, also when its handler
\* panics: RecovererMiddleware runs inside the middleware that observes.
AnsweredAndObserved ==
    \A r \in Request : Done(req[r]) =>
        /\ req[r].status # None
        /\ req[r].logged = req[r].counted
        /\ req[r].counted \in {req[r].status, 0}

\* A client is told of success only if the service returned no error: neither a
\* handler that writes nothing nor a panic at any point ends in a 2xx by default.
\* It is about the error that is returned: RequestResetPassword returns nil also
\* when its commit fails.
SuccessIsReal ==
    \A r \in Request : Done(req[r]) /\ req[r].status \in Success => req[r].result = "nil"
=============================================================================
