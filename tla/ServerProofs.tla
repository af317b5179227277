---------------------------- MODULE ServerProofs ----------------------------
(***************************************************************************)
(* Proofs about Server for any number of requests, tenants and connection  *)
(* attempts.  The argument: where main is tells what it has opened and     *)
(* what the listener does, and a request is there only between the opening *)
(* of the listener and the end of the process.  On its way back a request  *)
(* leaves the middleware one by one, and which are left tells what has     *)
(* been written, logged and counted of it.                                 *)
(***************************************************************************)
EXTENDS Server, FiniteSetTheorems, SequenceTheorems, TLAPS

USE NoneIsFresh, SomeTry, FiniteRequests

Fields == {"pc", "route", "body", "tenant", "bearer", "ctx", "stack", "panic", "result", "status",
           "logged", "counted"}

Shaped ==
    /\ DOMAIN req = Request
    /\ \A r \in Request : DOMAIN req[r] = Fields

Late == {"wait", "drain", "close"}
WithRedis == {"scripts", "repos", "signals", "broker", "server"} \cup Late
WithDB == {"migrate", "redis"} \cup WithRedis

\* What main has done by the step it is at.
Booted ==
    /\ pc \in WithDB => "db" \in opened
    /\ pc \in WithRedis => "redis" \in opened
    /\ pc \in {"server", "wait", "drain"} => "broker" \in opened

\* When there are requests.
Busy ==
    /\ server = "listening" => pc = "wait"
    /\ server = "draining" => pc = "drain"
    /\ InFlight # {} => L!Running /\ pc \in Late
    /\ InFlight # {} /\ pc = "close" => overdue
    /\ cut # {} => ~L!Running /\ pc \in Late /\ (exit = "panic" \/ overdue)

IInv == Shaped /\ Booted /\ Busy

----------------------------------------------------------------------------
(* Requests                                                                *)

LEMMA NoRequestShape == DOMAIN NoRequest = Fields /\ NoRequest.pc = "idle"
  BY DEF NoRequest, Fields

LEMMA NoneInFlight == Cardinality(InFlight) = 0 => InFlight = {}
  <1>1. InFlight \subseteq Request
    BY DEF InFlight
  <1> QED
    BY <1>1, FS_Subset, FS_EmptySet

LEMMA ArriveStep ==
    ASSUME Shaped, NEW r \in Request, Arrive(r)
    PROVE  Shaped' /\ InFlight' \subseteq InFlight \cup {r}
  <1>1. Shaped'
    BY DEF Arrive, NoRequest, Shaped, Fields
  <1>2. InFlight' \subseteq InFlight \cup {r}
    BY DEF Arrive, Shaped, InFlight
  <1> QED
    BY <1>1, <1>2

\* The way in: a middleware or a handler passes the request on or answers it.
LEMMA EnteringStep ==
    ASSUME Shaped, NEW r \in Request,
           \/ Enter(r) \/ TenantMiddleware(r) \/ RateLimitMiddleware(r) \/ JWTMiddleware(r)
           \/ Decode(r)
    PROVE  Shaped' /\ InFlight' \subseteq InFlight
  <1> USE DEF Answer, Write, Shaped, Fields, InFlight
  <1>1. CASE Enter(r)
    BY <1>1 DEF Enter
  <1>2. CASE TenantMiddleware(r)
    BY <1>2 DEF TenantMiddleware
  <1>3. CASE RateLimitMiddleware(r)
    BY <1>3 DEF RateLimitMiddleware
  <1>4. CASE JWTMiddleware(r)
    BY <1>4 DEF JWTMiddleware
  <1>5. CASE Decode(r)
    BY <1>5 DEF Decode
  <1> QED
    BY <1>1, <1>2, <1>3, <1>4, <1>5

LEMMA LeaveStep ==
    ASSUME Shaped, NEW r \in Request, Leave(r)
    PROVE  Shaped' /\ InFlight' \subseteq InFlight
  <1> DEFINE q == req[r]
  <1>1. PICK left \in {Recover(q), q, Log(q), Count(q)} :
           /\ req' = [req EXCEPT ![r] = [left EXCEPT !.stack = SubSeq(@, 1, Len(@) - 1)]]
           /\ q.pc = "back"
    BY DEF Leave
  <1>2. DOMAIN q = Fields /\ DOMAIN req = Request
    BY DEF Shaped
  <1>3. DOMAIN left = Fields /\ left.pc = "back"
    BY <1>1, <1>2 DEF Recover, Write, Log, Count, Fields
  <1>4. /\ DOMAIN req'[r] = Fields /\ req'[r].pc = "back"
        /\ DOMAIN req' = Request /\ \A s \in Request : s # r => req'[s] = req[s]
    BY <1>1, <1>2, <1>3 DEF Fields
  <1>5. Shaped'
    BY <1>4 DEF Shaped
  <1>6. InFlight' \subseteq InFlight
    BY <1>1, <1>4 DEF InFlight
  <1> QED
    BY <1>5, <1>6

\* The handler's work and the way out.
LEMMA EndingRequestStep ==
    ASSUME Shaped, NEW r \in Request, Serve(r) \/ Panic(r) \/ Finish(r) \/ Reuse(r)
    PROVE  Shaped' /\ InFlight' \subseteq InFlight
  <1> USE NoRequestShape DEF Shaped, Fields, InFlight
  <1>1. CASE Serve(r)
    BY <1>1 DEF Serve, Write
  <1>2. CASE Panic(r)
    BY <1>2 DEF Panic
  <1>3. CASE Finish(r)
    BY <1>3 DEF Finish
  <1>4. CASE Reuse(r)
    BY <1>4 DEF Reuse
  <1> QED
    BY <1>1, <1>2, <1>3, <1>4

LEMMA HandlingStep ==
    ASSUME Shaped, NEW r \in Request, Handling(r)
    PROVE  Shaped' /\ InFlight' \subseteq InFlight
  BY EnteringStep, LeaveStep, EndingRequestStep DEF Handling

----------------------------------------------------------------------------
(* main                                                                    *)

LEMMA InitInv == ServerInit => IInv
  <1> SUFFICES ASSUME ServerInit PROVE IInv
    OBVIOUS
  <1>1. Shaped
    BY NoRequestShape DEF ServerInit, Init, Shaped
  <1>2. InFlight = {}
    BY NoRequestShape DEF ServerInit, Init, InFlight
  <1> QED
    BY <1>1, <1>2
    DEF ServerInit, L!Init, IInv, Booted, Busy, Late, WithRedis, WithDB

LEMMA Same ==
    ASSUME Shaped, UNCHANGED vars
    PROVE  Shaped' /\ InFlight' = InFlight
  BY DEF vars, Shaped, InFlight

LEMMA DriverLoaded ==
    ASSUME NEW env \in L!Environment, L!Load(env)
    PROVE  L!LoadDBconfigs(env) \in {"postgres", "sqlite"}
  BY DEF L!Load, L!LoadDBconfigs, L!PostgresConfLoader, L!getEnv

----------------------------------------------------------------------------

\* The process ends while no request is running.
LEMMA DieStep ==
    ASSUME IInv, NEW how, L!Running, L!Die(how), UNCHANGED <<vars, cut>>
    PROVE  IInv'
  <1>1. Shaped' /\ InFlight' = InFlight
    BY Same DEF IInv
  <1>2. InFlight' = {}
    BY <1>1, NoneInFlight DEF L!Die
  <1>3. Booted'
    BY DEF IInv, Booted, L!Die, L!bootVars
  <1>4. Busy'
    BY <1>2 DEF IInv, Busy, L!Die, L!Running, L!signalVars
  <1> QED
    BY <1>1, <1>3, <1>4 DEF IInv

\* It ends under running requests: the listener has failed, or Shutdown gave up.
LEMMA EndingStep ==
    ASSUME IInv, Ending(L!ListenFails) \/ Ending(L!Return)
    PROVE  IInv'
  <1>1. InFlight # {} /\ cut' = InFlight /\ req' = [r \in Request |-> NoRequest]
    BY DEF Ending
  <1>2. Shaped' /\ InFlight' = {}
    BY <1>1, NoRequestShape DEF Shaped, InFlight
  <1>3. /\ UNCHANGED <<pc, opened, overdue>> /\ server' = "stopped"
        /\ exit' = "panic" \/ (exit' = "ok" /\ pc = "close")
    BY DEF Ending, L!ListenFails, L!Return, L!At, L!Die, L!bootVars, L!signalVars
  <1>4. Booted'
    BY <1>3 DEF IInv, Booted
  <1>5. Busy'
    BY <1>1, <1>2, <1>3 DEF IInv, Busy, L!Running
  <1> QED
    BY <1>2, <1>4, <1>5 DEF IInv

\* One step of main, the signal handler or the worker.
LEMMA BootStep ==
    ASSUME IInv, UNCHANGED <<vars, cut>>, L!Running,
           \/ L!LoadConfig \/ L!LoadKeys \/ L!LoadTokenSecret \/ L!Connect \/ L!Migrate
           \/ L!PingRedis \/ L!LoadScripts \/ L!NewRepos \/ L!NotifyContext \/ L!StartWorker
           \/ L!StartServer
    PROVE  IInv'
  <1>1. Shaped' /\ InFlight' = InFlight
    BY Same DEF IInv
  <1> USE DEF IInv, Booted, Busy, L!At, L!Running, L!Proceed, L!bootVars, L!signalVars, L!taskVars,
              Late, WithRedis, WithDB
  <1>2. CASE L!LoadConfig
    BY <1>1, <1>2, DieStep DEF L!LoadConfig
  <1>3. CASE L!LoadKeys
    BY <1>1, <1>3, DieStep DEF L!LoadKeys
  <1>4. CASE L!LoadTokenSecret
    BY <1>1, <1>4, DieStep DEF L!LoadTokenSecret
  <1>5. CASE L!Connect
    BY <1>1, <1>5, DieStep DEF L!Connect
  <1>6. CASE L!Migrate
    BY <1>1, <1>6, DieStep DEF L!Migrate
  <1>7. CASE L!PingRedis
    BY <1>1, <1>7, DieStep DEF L!PingRedis
  <1>8. CASE L!LoadScripts
    BY <1>1, <1>8, DieStep DEF L!LoadScripts
  <1>9. CASE L!NewRepos
    BY <1>1, <1>9, DieStep DEF L!NewRepos
  <1>10. CASE L!NotifyContext
    BY <1>1, <1>10, DieStep DEF L!NotifyContext
  <1>11. CASE L!StartWorker
    BY <1>1, <1>11, DieStep DEF L!StartWorker
  <1>12. CASE L!StartServer
    BY <1>1, <1>12, DieStep DEF L!StartServer
  <1> QED
    BY <1>2, <1>3, <1>4, <1>5, <1>6, <1>7, <1>8, <1>9, <1>10, <1>11, <1>12

LEMMA RunStep ==
    ASSUME IInv, UNCHANGED <<vars, cut>>, L!Running,
           \/ L!Awaken \/ L!Drained \/ L!CloseBroker \/ L!Return \/ L!ShutdownTimeout \/ L!Work
           \/ L!Signal \/ L!ListenFails
    PROVE  IInv'
  <1>1. Shaped' /\ InFlight' = InFlight
    BY Same DEF IInv
  <1> USE DEF IInv, Booted, Busy, L!At, L!Running, L!bootVars, L!signalVars, L!taskVars,
              Late, WithRedis, WithDB
  <1>2. CASE L!Awaken
    BY <1>1, <1>2 DEF L!Awaken
  <1>3. CASE L!Drained
    BY <1>1, <1>3, NoneInFlight DEF L!Drained, L!EndDrain
  <1>4. CASE L!CloseBroker
    BY <1>1, <1>4 DEF L!CloseBroker
  <1>5. CASE L!Return
    BY <1>1, <1>5, DieStep DEF L!Return
  <1>6. CASE L!ShutdownTimeout
    BY <1>1, <1>6 DEF L!ShutdownTimeout
  <1>7. CASE L!Work
    BY <1>1, <1>7 DEF L!Work
  <1>8. CASE L!Signal
    BY <1>1, <1>8, DieStep DEF L!Signal
  <1>9. CASE L!ListenFails
    BY <1>1, <1>9, DieStep DEF L!ListenFails
  <1> QED
    BY <1>2, <1>3, <1>4, <1>5, <1>6, <1>7, <1>8, <1>9

\* A step of a request.  It leaves main alone, and main is listening when one arrives.
LEMMA ServingStep ==
    ASSUME IInv, Serving \/ \E r \in Request : Accept(r) \/ Complete(r)
    PROVE  IInv'
  <1>1. UNCHANGED <<pc, opened, overdue, server, exit, cut>> /\ L!Running
    BY DEF Serving, Accept, Complete, mainVars, L!Receive, L!Complete, L!bootVars, L!signalVars
  <1>2. /\ Shaped'
        /\ InFlight' \subseteq InFlight \/ server = "listening"
    <2>1. CASE Serving
      <3>1. ASSUME UNCHANGED req PROVE Shaped' /\ InFlight' = InFlight
        BY <3>1 DEF IInv, Shaped, InFlight
      <3> QED
        BY <2>1, <3>1, HandlingStep DEF IInv, Serving, SetStatus, FlipRedis
    <2>2. ASSUME NEW r \in Request, Accept(r) \/ Complete(r)
          PROVE  Shaped' /\ (InFlight' \subseteq InFlight \/ server = "listening")
      BY <2>2, ArriveStep, EndingRequestStep DEF IInv, Accept, Complete, L!Receive
    <2> QED
      BY <2>1, <2>2
  <1>3. Booted'
    BY <1>1 DEF IInv, Booted
  <1>4. Busy'
    BY <1>1, <1>2 DEF IInv, Busy, Late, L!Running
  <1> QED
    BY <1>2, <1>3, <1>4 DEF IInv

LEMMA NextInv == IInv /\ [ServerNext]_serverVars => IInv'
  <1> SUFFICES ASSUME IInv, [ServerNext]_serverVars PROVE IInv'
    OBVIOUS
  <1>1. CASE UNCHANGED serverVars
    <2>1. Shaped' /\ InFlight' = InFlight
      BY <1>1, Same DEF serverVars, IInv
    <2> QED
      BY <1>1, <2>1 DEF serverVars, mainVars, IInv, Booted, Busy, L!Running
  <1>2. CASE MainStep \/ Timeout \/ Runtime
    BY <1>2, BootStep, RunStep, EndingStep
    DEF MainStep, Timeout, Runtime, Undisturbed, L!Main, L!LoadConfig, L!LoadKeys,
        L!LoadTokenSecret, L!Connect, L!Migrate, L!PingRedis, L!LoadScripts, L!NewRepos,
        L!NotifyContext, L!StartWorker, L!StartServer, L!Awaken, L!Drained, L!CloseBroker,
        L!Return, L!ShutdownTimeout, L!Work, L!Signal, L!ListenFails, L!At
  <1>3. CASE Serving \/ \E r \in Request : Accept(r) \/ Complete(r)
    BY <1>3, ServingStep
  <1> QED
    BY <1>1, <1>2, <1>3 DEF ServerNext

----------------------------------------------------------------------------
(* The theorems                                                            *)

\* The invariant of the argument above holds of every execution.
THEOREM Inductive == ServerSpec => []IInv
  BY InitInv, NextInv, PTL DEF ServerSpec

\* The database, Redis and the broker are there from before main's listener opens
\* until the last request has ended or the ten seconds of Shutdown are over.
THEOREM Dependencies == ServerSpec => []DependenciesOutliveRequests
  <1>1. IInv => DependenciesOutliveRequests
    BY DEF IInv, Booted, Busy, DependenciesOutliveRequests, Late, WithRedis, WithDB
  <1> QED
    BY <1>1, Inductive, PTL

\* A request main's return cuts off has had the ten seconds of Shutdown.
THEOREM Grace == ServerSpec => []CutOffOnlyAfterGrace
  <1>1. IInv => CutOffOnlyAfterGrace
    BY DEF IInv, Busy, CutOffOnlyAfterGrace
  <1> QED
    BY <1>1, Inductive, PTL

----------------------------------------------------------------------------
(* The way of one request, as facts about its record.                      *)

Front == {"wrap", "tenant", "limit", "jwt", "handler", "service"}

Typed(q) ==
    /\ DOMAIN q = Fields
    /\ q.pc \in Front \cup {"idle", "back", "done"}
    /\ q.status \in Status \cup {None} /\ q.ctx \in Tenant \cup {None}
    /\ q.logged \in Status \cup {0, None} /\ q.counted \in Status \cup {0, None}

\* A request that can fail validation has an answer for it.
Routed(q) ==
    q.pc # "idle" =>
        q.route \in Route /\ (q.body = "invalid" => HandlerOf(q.route).invalid # None)

\* The middleware still to be left, and what those that were left have recorded.
OnStack(q) ==
    \/ q.stack = Wrappers
    \/ /\ q.panic = FALSE
       /\ \/ q.stack = <<"metrics", "logging">>
          \/ q.stack = <<"metrics">> /\ q.logged = Seen(q)
          \/ q.stack = <<>> /\ q.logged = Seen(q) /\ q.counted = Seen(q)

\* Nothing is written before the way back; there it is unless the service returned
\* nil or a panic is under way.
Answered(q) ==
    /\ q.pc \in Front \cup {"idle"} => q.status = None
    /\ q.pc \in Front \ {"wrap"} => q.stack = Wrappers
    /\ q.pc = "back" => OnStack(q) /\ (q.status = None => q.panic = TRUE \/ q.result = "nil")
    /\ q.pc = "done" => /\ q.status # None
                        /\ q.logged = q.counted /\ q.counted \in {q.status, 0}
    /\ q.status \in Success => q.result = "nil"
    /\ q.panic \in BOOLEAN

Sound(q) == Typed(q) /\ Routed(q) /\ Answered(q)

LEMMA HandlerStatuses ==
    ASSUME NEW route \in Route
    PROVE  /\ HandlerOf(route).invalid \in {400, 500, None}
           /\ HandlerOf(route).ok \in Success \cup {0}
           /\ HandlerOf(route).fail \in {0, 400, 503}
  <1> DEFINE Fits(h) == /\ h.invalid \in {400, 500, None} /\ h.ok \in Success \cup {0}
                        /\ h.fail \in {0, 400, 503}
  <1>1. /\ Fits(signupHandler) /\ Fits(loginHandler) /\ Fits(refreshHandler) /\ Fits(logoutHandler)
        /\ Fits(verifyEmailHandler) /\ Fits(resendVerificationHandler)
        /\ Fits(changePasswordHandler) /\ Fits(sendResetPasswordEmailHandler)
        /\ Fits(resetPasswordHandler) /\ Fits(meHandler) /\ Fits(revokeAllHandler)
        /\ Fits(healthhandler)
    BY DEF Handler, Success, signupHandler, loginHandler, refreshHandler, logoutHandler,
           verifyEmailHandler, resendVerificationHandler, changePasswordHandler,
           sendResetPasswordEmailHandler, resetPasswordHandler, meHandler, revokeAllHandler,
           healthhandler
  <1> HIDE DEF Fits
  <1>2. \A x \in TenantRoute : Fits(TenantGroup[x])
    BY <1>1 DEF TenantRoute, TenantGroup
  <1>3. \A x \in JWTRoute : Fits(JWTGroup[x])
    BY <1>1 DEF JWTRoute, JWTGroup
  <1>4. \A x \in DOMAIN Open : Fits(Open[x])
    BY <1>1 DEF Open
  <1>5. Fits(HandlerOf(route))
    BY <1>2, <1>3, <1>4 DEF Route, HandlerOf
  <1> QED
    BY <1>5 DEF Fits

LEMMA ErrorStatuses ==
    ASSUME NEW route \in Route, NEW e
    PROVE  LET s == StatusOf(HandlerOf(route), e) IN
           /\ e = "nil" => s \in Success \cup {0}
           /\ e # "nil" => s \in Status \ Success
  <1>1. mapAuthError(e) \in {400, 401, 403, 500}
    BY DEF mapAuthError
  <1> QED
    BY <1>1, HandlerStatuses DEF StatusOf, Status, Success

LEMMA StatusFacts ==
    /\ {400, 401, 403, 429, 500} \subseteq Status \ Success /\ 200 \in Status
    /\ Success \subseteq Status /\ None \notin Status /\ None # 0 /\ 0 \notin Status
  BY DEF Status, Success

LEMMA NoRequestSound == Sound(NoRequest)
  BY StatusFacts DEF Sound, Typed, Routed, Answered, NoRequest, Fields, Front, Success

\* A record with the pc changed, on the way in.
LEMMA PassSound ==
    ASSUME NEW q, Sound(q), q.pc \in Front \ {"wrap"}, NEW step \in Front \ {"wrap"}
    PROVE  Sound([q EXCEPT !.pc = step])
  BY DEF Sound, Typed, Routed, Answered, Front, Fields

\* A middleware or a handler answers with an error.
LEMMA WriteSound ==
    ASSUME NEW q, Sound(q), q.pc \in Front \ {"wrap"}, NEW status \in Status \ Success
    PROVE  Sound(Write(q, status))
  <1> DEFINE w == Write(q, status)
  <1>1. /\ DOMAIN w = Fields /\ w.pc = "back" /\ w.status = status /\ w.route = q.route
        /\ w.body = q.body /\ w.ctx = q.ctx /\ w.logged = q.logged /\ w.counted = q.counted
        /\ w.stack = q.stack /\ w.panic = q.panic
    BY DEF Sound, Typed, Answered, Front, Fields, Write
  <1> HIDE DEF w
  <1>2. Typed(w) /\ Routed(w)
    BY <1>1 DEF Sound, Typed, Routed, Front
  <1>3. /\ w.status # None /\ w.status \notin Success /\ w.stack = Wrappers
        /\ w.panic \in BOOLEAN
    BY <1>1, StatusFacts DEF Sound, Answered
  <1>4. Answered(w)
    BY <1>1, <1>3 DEF Answered, Front, OnStack
  <1> QED
    BY <1>2, <1>4 DEF Sound, w

\* The service is called.
LEMMA ServeSound ==
    ASSUME NEW q, Sound(q), q.pc = "service", NEW e,
           NEW s, s = StatusOf(HandlerOf(q.route), e)
    PROVE  Sound(IF s = 0 THEN [[q EXCEPT !.result = e] EXCEPT !.pc = "back"]
                 ELSE Write([q EXCEPT !.result = e], s))
  <1> DEFINE w == IF s = 0 THEN [[q EXCEPT !.result = e] EXCEPT !.pc = "back"]
                  ELSE Write([q EXCEPT !.result = e], s)
  <1>1. /\ e = "nil" => s \in Success \cup {0}
        /\ e # "nil" => s \in Status \ Success
    BY ErrorStatuses DEF Sound, Routed
  <1>2. /\ DOMAIN w = Fields /\ w.pc = "back" /\ w.result = e /\ w.route = q.route
        /\ w.body = q.body /\ w.ctx = q.ctx /\ w.logged = q.logged /\ w.counted = q.counted
        /\ w.stack = q.stack /\ w.panic = q.panic
    BY DEF Sound, Typed, Fields, Write
  <1>3. w.status = IF s = 0 THEN None ELSE s
    BY DEF Sound, Typed, Answered, Front, Fields, Write
  <1> HIDE DEF w
  <1>4. Typed(w) /\ Routed(w)
    BY <1>1, <1>2, <1>3, StatusFacts DEF Sound, Typed, Routed, Front
  <1>5. Answered(w)
    BY <1>1, <1>2, <1>3, StatusFacts DEF Sound, Answered, Front, OnStack
  <1> QED
    BY <1>4, <1>5 DEF Sound, w

\* A panic, before a status has been written or after.
LEMMA PanicSound ==
    ASSUME NEW q, Sound(q),
           q.pc \in Front \ {"wrap"} \/ (q.pc = "back" /\ q.stack = Wrappers)
    PROVE  Sound([q EXCEPT !.panic = TRUE, !.pc = "back"])
  <1> DEFINE w == [q EXCEPT !.panic = TRUE, !.pc = "back"]
  <1>1. /\ DOMAIN w = Fields /\ w.pc = "back" /\ w.result = q.result /\ w.route = q.route
        /\ w.body = q.body /\ w.ctx = q.ctx /\ w.logged = q.logged /\ w.counted = q.counted
        /\ w.stack = q.stack /\ w.panic = TRUE /\ w.status = q.status
    BY DEF Sound, Typed, Fields
  <1>2. q.stack = Wrappers
    BY DEF Sound, Answered, Front
  <1> HIDE DEF w
  <1>3. Typed(w) /\ Routed(w)
    BY <1>1 DEF Sound, Typed, Routed, Front
  <1>4. Answered(w)
    BY <1>1, <1>2 DEF Sound, Answered, Front, OnStack
  <1> QED
    BY <1>3, <1>4 DEF Sound, w

\* Leaving the innermost of the wrappers.
LEMMA PrefixOf ==
    ASSUME NEW S, NEW s \in Seq(S), NEW u \in Seq(S), Len(u) \in 0 .. Len(s),
           \A i \in 1 .. Len(u) : u[i] = s[i]
    PROVE  SubSeq(s, 1, Len(u)) = u
  <1> DEFINE n == Len(u)
             t == SubSeq(s, 1, n)
  <1>1. n \in Int /\ n \in Nat /\ \A i \in 1 .. n : s[i] \in S
    BY LenProperties
  <1> HIDE DEF n
  <1>2. /\ t \in Seq(S) /\ Len(t) = IF 1 <= n THEN n - 1 + 1 ELSE 0
        /\ \A i \in 1 .. n - 1 + 1 : t[i] = s[1 + i - 1]
    BY <1>1, SubSeqProperties
  <1> HIDE DEF t
  <1>3. Len(t) = n /\ \A i \in 1 .. n : t[i] = s[i]
    BY <1>1, <1>2
  <1>4. t = u
    BY <1>2, <1>3, SeqEqual DEF n
  <1> QED
    BY <1>4 DEF t, n

LEMMA PeelRecoverer ==
    /\ Wrappers[Len(Wrappers)] = "recoverer"
    /\ SubSeq(Wrappers, 1, Len(Wrappers) - 1) = <<"metrics", "logging">>
  <1> DEFINE s == <<"metrics", "logging", "recoverer">>
             u == <<"metrics", "logging">>
             S == {"metrics", "logging", "recoverer"}
  <1>1. s \in Seq(S) /\ u \in Seq(S)
    OBVIOUS
  <1>2. Len(u) = 2 /\ Len(s) = 3
    OBVIOUS
  <1>3. s[3] = "recoverer" /\ \A i \in 1 .. 2 : u[i] = s[i]
    OBVIOUS
  <1> HIDE DEF s, u, S
  <1>4. SubSeq(s, 1, Len(u)) = u
    BY <1>1, <1>2, <1>3, PrefixOf
  <1>5. s[Len(s)] = "recoverer" /\ SubSeq(s, 1, Len(s) - 1) = u
    BY <1>2, <1>3, <1>4
  <1> QED
    BY <1>5 DEF s, u, Wrappers

LEMMA PeelLogging ==
    ASSUME NEW s, s = <<"metrics", "logging">>
    PROVE  s[Len(s)] = "logging" /\ SubSeq(s, 1, Len(s) - 1) = <<"metrics">>
  <1> DEFINE u == <<"metrics">>
             S == {"metrics", "logging"}
  <1>1. s \in Seq(S) /\ u \in Seq(S)
    OBVIOUS
  <1>2. Len(u) = 1 /\ Len(s) = 2
    OBVIOUS
  <1>3. s[2] = "logging" /\ u[1] = s[1]
    OBVIOUS
  <1> HIDE DEF u, S
  <1>4. \A i \in 1 .. 1 : u[i] = s[i]
    BY <1>3
  <1>5. SubSeq(s, 1, Len(u)) = u
    BY <1>1, <1>2, <1>4, PrefixOf
  <1>6. s[Len(s)] = "logging" /\ SubSeq(s, 1, Len(s) - 1) = u
    BY <1>2, <1>3, <1>5
  <1> QED
    BY <1>6 DEF u

\* What leaves a middleware: the status and the panic are those of Recover in
\* RecovererMiddleware, and are seen by the others.
LEMMA LeaveSound ==
    ASSUME NEW q, Sound(q), q.pc = "back", q.stack # <<>>,
           NEW top, top = q.stack[Len(q.stack)],
           NEW left, left = CASE top = "recoverer" -> Recover(q)
                              [] top # "recoverer" /\ q.panic -> q
                              [] top = "logging" /\ ~q.panic -> Log(q)
                              [] OTHER -> Count(q)
    PROVE  Sound([left EXCEPT !.stack = SubSeq(@, 1, Len(@) - 1)])
  <1> DEFINE w == [left EXCEPT !.stack = SubSeq(@, 1, Len(@) - 1)]
  <1>0. /\ DOMAIN q = Fields /\ OnStack(q) /\ q.panic \in BOOLEAN
        /\ q.status \in Status \cup {None} /\ Seen(q) \in Status \cup {0}
    BY DEF Sound, Typed, Answered, Seen
  <1>1. CASE q.stack = Wrappers
    <2>1. top = "recoverer" /\ SubSeq(q.stack, 1, Len(q.stack) - 1) = <<"metrics", "logging">>
      BY <1>1, PeelRecoverer
    <2> DEFINE v == Write(q, IF q.panic THEN 500 ELSE None)
    <2>2. left = Recover(q)
      BY <2>1
    <2>3. left = [v EXCEPT !.panic = FALSE]
      BY <2>2 DEF Recover
    <2>4. /\ DOMAIN v = Fields /\ v.pc = "back" /\ v.result = q.result /\ v.route = q.route
          /\ v.body = q.body /\ v.ctx = q.ctx /\ v.logged = q.logged /\ v.counted = q.counted
          /\ v.stack = q.stack
          /\ v.status = IF q.status = None THEN IF q.panic THEN 500 ELSE None ELSE q.status
      BY <1>0 DEF Fields, Write
    <2> HIDE DEF v
    <2>5. /\ DOMAIN w = Fields /\ w.pc = "back" /\ w.result = q.result /\ w.route = q.route
          /\ w.body = q.body /\ w.ctx = q.ctx /\ w.logged = q.logged /\ w.counted = q.counted
          /\ w.stack = <<"metrics", "logging">> /\ w.panic = FALSE
      BY <2>3, <2>1, <2>4 DEF Fields
    <2>6. w.status = v.status
      BY <2>3, <2>4 DEF Fields
    <2>7. w.status = IF q.status = None THEN IF q.panic THEN 500 ELSE None ELSE q.status
      BY <2>4, <2>6, Zenon
    <2> HIDE DEF w
    <2>8. w.status \in Status \cup {None} /\ (w.status \in Success => q.status \in Success)
      BY <1>0, <2>7, StatusFacts
    <2>9. w.status = None => q.status = None /\ q.panic = FALSE
      BY <1>0, <2>7, StatusFacts
    <2>10. Typed(w) /\ Routed(w)
      BY <2>5, <2>8 DEF Sound, Typed, Routed
    <2>11. Answered(w)
      BY <2>5, <2>8, <2>9 DEF Sound, Answered, OnStack, Front
    <2> QED
      BY <2>10, <2>11 DEF Sound, w
  <1>2. CASE q.panic = FALSE /\ q.stack = <<"metrics", "logging">>
    <2>1. top = "logging" /\ SubSeq(q.stack, 1, Len(q.stack) - 1) = <<"metrics">>
      BY <1>2, PeelLogging
    <2>2. left = Log(q)
      BY <1>2, <2>1
    <2>3. /\ DOMAIN w = Fields /\ w.pc = "back" /\ w.result = q.result /\ w.route = q.route
          /\ w.body = q.body /\ w.ctx = q.ctx /\ w.logged = Seen(q) /\ w.counted = q.counted
          /\ w.stack = <<"metrics">> /\ w.panic = FALSE /\ w.status = q.status
      BY <1>0, <1>2, <2>1, <2>2 DEF Fields, Log
    <2> HIDE DEF w
    <2>4. Typed(w) /\ Routed(w)
      BY <1>0, <2>3 DEF Sound, Typed, Routed
    <2>5. Answered(w)
      BY <1>2, <2>3 DEF Sound, Answered, OnStack, Seen, Front
    <2> QED
      BY <2>4, <2>5 DEF Sound, w
  <1>3. CASE q.panic = FALSE /\ q.stack = <<"metrics">> /\ q.logged = Seen(q)
    <2>1. top = "metrics" /\ SubSeq(q.stack, 1, Len(q.stack) - 1) = <<>>
      BY <1>3
    <2>2. left = Count(q)
      BY <1>3, <2>1
    <2>3. /\ DOMAIN w = Fields /\ w.pc = "back" /\ w.result = q.result /\ w.route = q.route
          /\ w.body = q.body /\ w.ctx = q.ctx /\ w.logged = q.logged /\ w.counted = Seen(q)
          /\ w.stack = <<>> /\ w.panic = FALSE /\ w.status = q.status
      BY <1>0, <1>3, <2>1, <2>2 DEF Fields, Count
    <2> HIDE DEF w
    <2>4. Typed(w) /\ Routed(w)
      BY <1>0, <2>3 DEF Sound, Typed, Routed
    <2>5. Answered(w)
      BY <1>3, <2>3 DEF Sound, Answered, OnStack, Seen, Front
    <2> QED
      BY <2>4, <2>5 DEF Sound, w
  <1> QED
    BY <1>0, <1>1, <1>2, <1>3 DEF OnStack

\* The handler's return to net/http.
LEMMA FinishSound ==
    ASSUME NEW q, Sound(q), q.pc = "back", q.stack = <<>>
    PROVE  Sound([q EXCEPT !.pc = "done", !.status = IF @ = None /\ ~q.panic THEN 200 ELSE @])
  <1> DEFINE w == [q EXCEPT !.pc = "done", !.status = IF @ = None /\ ~q.panic THEN 200 ELSE @]
  <1>1. Wrappers # <<>>
    BY DEF Wrappers
  <1>2. /\ q.panic = FALSE /\ q.logged = Seen(q) /\ q.counted = Seen(q)
        /\ q.status = None => q.result = "nil"
    BY <1>1 DEF Sound, Answered, OnStack
  <1>3. /\ DOMAIN w = Fields /\ w.pc = "done" /\ w.result = q.result /\ w.route = q.route
        /\ w.body = q.body /\ w.ctx = q.ctx /\ w.logged = q.logged /\ w.counted = q.counted
        /\ w.stack = <<>> /\ w.panic = FALSE
    BY <1>2 DEF Sound, Typed, Fields
  <1>4. w.status = IF q.status = None THEN 200 ELSE q.status
    BY <1>2 DEF Sound, Typed, Fields
  <1> HIDE DEF w
  <1>5. Typed(w) /\ Routed(w)
    BY <1>3, <1>4, StatusFacts DEF Sound, Typed, Routed
  <1>6. w.status # None /\ w.logged = w.counted /\ w.counted \in {w.status, 0}
    BY <1>2, <1>3, <1>4, StatusFacts DEF Seen
  <1>7. w.status \in Success => w.result = "nil"
    BY <1>2, <1>3, <1>4 DEF Sound, Answered
  <1>8. Answered(w)
    BY <1>3, <1>6, <1>7 DEF Answered, Front
  <1> QED
    BY <1>5, <1>8 DEF Sound, w

----------------------------------------------------------------------------

Ways == \A r \in Request : Sound(req[r])

\* The request of one slot changes.
LEMMA OneSlot ==
    ASSUME Ways, DOMAIN req = Request, NEW r \in Request, NEW q, Sound(q),
           req' = [req EXCEPT ![r] = q]
    PROVE  Ways'
  BY DEF Ways

LEMMA ArriveWays ==
    ASSUME Ways, DOMAIN req = Request, NEW r \in Request, Arrive(r)
    PROVE  Ways'
  <1>1. PICK route \in Route, bearer \in BOOLEAN, tenant \in Tenant \cup {"unknown", None} :
           \E body \in Bodies(route) :
             req' = [req EXCEPT ![r] =
                    [NoRequest EXCEPT !.pc = "wrap", !.route = route, !.body = body,
                                      !.tenant = tenant, !.bearer = bearer]]
    BY DEF Arrive
  <1>2. PICK body \in Bodies(route) :
             req' = [req EXCEPT ![r] =
                    [NoRequest EXCEPT !.pc = "wrap", !.route = route, !.body = body,
                                      !.tenant = tenant, !.bearer = bearer]]
    BY <1>1
  <1> DEFINE q == [NoRequest EXCEPT !.pc = "wrap", !.route = route, !.body = body,
                                    !.tenant = tenant, !.bearer = bearer]
  <1>3. /\ DOMAIN q = Fields /\ q.pc = "wrap" /\ q.route = route /\ q.body = body /\ q.ctx = None
        /\ q.logged = None /\ q.counted = None /\ q.status = None /\ q.panic = FALSE
    BY DEF NoRequest, Fields
  <1>4. req' = [req EXCEPT ![r] = q]
    BY <1>2
  <1> HIDE DEF q
  <1>5. Routed(q)
    <2>1. body = "invalid" => HandlerOf(route).invalid # None
      BY DEF Bodies
    <2> QED
      BY <1>3, <2>1 DEF Routed
  <1>6. Typed(q)
    BY <1>3 DEF Typed, Front
  <1>7. Answered(q)
    <2>1. q.panic \in BOOLEAN
      BY <1>3, Zenon
    <2>2. q.pc \notin Front \ {"wrap"} /\ q.pc # "back" /\ q.pc # "done" /\ q.status \notin Success
      BY <1>3, StatusFacts
    <2> QED
      BY <1>3, <2>1, <2>2, Zenon DEF Answered
  <1> QED
    BY <1>4, <1>5, <1>6, <1>7, OneSlot DEF Sound

LEMMA EnterWays ==
    ASSUME Ways, DOMAIN req = Request, NEW r \in Request, Enter(r)
    PROVE  Ways'
  <1>1. Sound(req[r]) /\ req[r].pc = "wrap"
    BY DEF Ways, Enter
  <1>2. PICK next \in Front \ {"wrap"} :
            req' = [req EXCEPT ![r] = [req[r] EXCEPT !.stack = Wrappers, !.pc = next]]
    <2> DEFINE next == CASE req[r].route \in TenantRoute -> "tenant"
                         [] req[r].route \in JWTRoute -> "jwt"
                         [] OTHER -> "handler"
    <2>1. next \in Front \ {"wrap"}
      BY DEF Front
    <2>2. req' = [req EXCEPT ![r].stack = Wrappers, ![r].pc = next]
      BY DEF Enter
    <2> HIDE DEF next
    <2>3. req' = [req EXCEPT ![r] = [req[r] EXCEPT !.stack = Wrappers, !.pc = next]]
      BY <2>2
    <2> QED
      BY <2>1, <2>3
  <1>3. Sound([req[r] EXCEPT !.stack = Wrappers, !.pc = next])
    BY <1>1 DEF Sound, Typed, Routed, Answered, Front, Fields
  <1> QED
    BY <1>2, <1>3, OneSlot

LEMMA AnswerWays ==
    ASSUME Ways, DOMAIN req = Request, NEW r \in Request, req[r].pc \in Front \ {"wrap"},
           NEW status \in Status \ Success, Answer(r, status)
    PROVE  Ways'
  <1>1. req' = [req EXCEPT ![r] = Write(req[r], status)]
    BY DEF Answer
  <1>2. Sound(req[r])
    BY DEF Ways
  <1> QED
    BY <1>1, <1>2, WriteSound, OneSlot

LEMMA PassWays ==
    ASSUME Ways, DOMAIN req = Request, NEW r \in Request, req[r].pc \in Front \ {"wrap"},
           NEW step \in Front \ {"wrap"}, req' = [req EXCEPT ![r].pc = step]
    PROVE  Ways'
  <1>1. req' = [req EXCEPT ![r] = [req[r] EXCEPT !.pc = step]]
    OBVIOUS
  <1>2. Sound(req[r])
    BY DEF Ways
  <1> QED
    BY <1>1, <1>2, PassSound, OneSlot

LEMMA MiddlewareWays ==
    ASSUME Ways, DOMAIN req = Request, NEW r \in Request,
           TenantMiddleware(r) \/ RateLimitMiddleware(r) \/ JWTMiddleware(r) \/ Decode(r)
    PROVE  Ways'
  <1>1. req[r].pc \in Front \ {"wrap"}
    BY DEF TenantMiddleware, RateLimitMiddleware, JWTMiddleware, Decode, Front
  <1>2. "handler" \in Front \ {"wrap"} /\ "service" \in Front \ {"wrap"}
    BY DEF Front
  <1>3. CASE TenantMiddleware(r)
    <2>1. CASE \E status \in {400, 401, 403} : Answer(r, status)
      BY <1>1, <2>1, StatusFacts, AnswerWays
    <2>2. ASSUME NEW t \in Tenant, req' = [req EXCEPT ![r].pc = "limit", ![r].ctx = t] PROVE Ways'
      <3>1. req' = [req EXCEPT ![r] = [req[r] EXCEPT !.pc = "limit", !.ctx = t]]
        BY <2>2
      <3>2. Sound([req[r] EXCEPT !.pc = "limit", !.ctx = t])
        BY <1>1 DEF Ways, Sound, Typed, Routed, Answered, Front, Fields
      <3> QED
        BY <3>1, <3>2, OneSlot
    <2> QED
      BY <1>3, <2>1, <2>2 DEF TenantMiddleware
  <1>4. CASE RateLimitMiddleware(r)
    <2>1. CASE Answer(r, 429)
      BY <1>1, <2>1, StatusFacts, AnswerWays
    <2>2. CASE req' = [req EXCEPT ![r].pc = "handler"]
      BY <1>1, <1>2, <2>2, PassWays
    <2> QED
      BY <1>4, <2>1, <2>2 DEF RateLimitMiddleware
  <1>5. CASE JWTMiddleware(r)
    <2>1. CASE Answer(r, 401)
      BY <1>1, <2>1, StatusFacts, AnswerWays
    <2>2. CASE req' = [req EXCEPT ![r].pc = "handler"]
      BY <1>1, <1>2, <2>2, PassWays
    <2> QED
      BY <1>5, <2>1, <2>2 DEF JWTMiddleware
  <1>6. CASE Decode(r)
    <2>1. CASE Answer(r, 400)
      BY <1>1, <2>1, StatusFacts, AnswerWays
    <2>2. CASE req[r].body = "invalid" /\ Answer(r, HandlerOf(req[r].route).invalid)
      <3>1. Routed(req[r]) /\ req[r].pc # "idle"
        BY <1>1 DEF Ways, Sound, Front
      <3>2. HandlerOf(req[r].route).invalid \in {400, 500}
        BY <2>2, <3>1, HandlerStatuses DEF Routed
      <3>3. HandlerOf(req[r].route).invalid \in Status \ Success
        BY <3>2, StatusFacts
      <3> QED
        BY <1>1, <2>2, <3>3, AnswerWays
    <2>3. CASE req' = [req EXCEPT ![r].pc = "service"]
      BY <1>1, <1>2, <2>3, PassWays
    <2> QED
      BY <1>6, <2>1, <2>2, <2>3 DEF Decode
  <1> QED
    BY <1>3, <1>4, <1>5, <1>6

LEMMA ServeWays ==
    ASSUME Ways, DOMAIN req = Request, NEW r \in Request, Serve(r)
    PROVE  Ways'
  <1>1. PICK e \in Results(req[r]) :
           LET s == StatusOf(HandlerOf(req[r].route), e)
               q == [req[r] EXCEPT !.result = e]
           IN  req' = [req EXCEPT ![r] = IF s = 0 THEN [q EXCEPT !.pc = "back"] ELSE Write(q, s)]
    BY DEF Serve
  <1> DEFINE s == StatusOf(HandlerOf(req[r].route), e)
             w == IF s = 0 THEN [[req[r] EXCEPT !.result = e] EXCEPT !.pc = "back"]
                  ELSE Write([req[r] EXCEPT !.result = e], s)
  <1>2. req' = [req EXCEPT ![r] = w]
    BY <1>1
  <1>3. Sound(req[r]) /\ req[r].pc = "service"
    BY DEF Ways, Serve
  <1>4. Sound(w)
    BY <1>3, ServeSound
  <1> HIDE DEF w
  <1> QED
    BY <1>2, <1>4, OneSlot

LEMMA PanicWays ==
    ASSUME Ways, DOMAIN req = Request, NEW r \in Request, Panic(r)
    PROVE  Ways'
  <1>1. req' = [req EXCEPT ![r] = [req[r] EXCEPT !.panic = TRUE, !.pc = "back"]]
    BY DEF Panic
  <1>2. Sound(req[r])
    BY DEF Ways
  <1>3. Sound([req[r] EXCEPT !.panic = TRUE, !.pc = "back"])
    BY <1>2, PanicSound DEF Panic, Front
  <1> QED
    BY <1>1, <1>3, OneSlot

LEMMA LeaveWays ==
    ASSUME Ways, DOMAIN req = Request, NEW r \in Request, Leave(r)
    PROVE  Ways'
  <1> DEFINE q == req[r]
             top == q.stack[Len(q.stack)]
             left == CASE top = "recoverer" -> Recover(q)
                       [] top # "recoverer" /\ q.panic -> q
                       [] top = "logging" /\ ~q.panic -> Log(q)
                       [] OTHER -> Count(q)
  <1>1. /\ req' = [req EXCEPT ![r] = [left EXCEPT !.stack = SubSeq(@, 1, Len(@) - 1)]]
        /\ q.pc = "back" /\ q.stack # <<>>
    BY DEF Leave
  <1>2. Sound(q)
    BY DEF Ways
  <1>3. Sound([left EXCEPT !.stack = SubSeq(@, 1, Len(@) - 1)])
    BY <1>1, <1>2, LeaveSound
  <1> HIDE DEF left
  <1> QED
    BY <1>1, <1>3, OneSlot

LEMMA FinishWays ==
    ASSUME Ways, DOMAIN req = Request, NEW r \in Request, Finish(r)
    PROVE  Ways'
  <1> DEFINE q == req[r]
             w == [q EXCEPT !.pc = "done", !.status = IF @ = None /\ ~q.panic THEN 200 ELSE @]
  <1>1. Sound(q) /\ q.pc = "back" /\ q.stack = <<>>
    BY DEF Ways, Finish
  <1>2. req' = [req EXCEPT ![r] = w]
    BY DEF Finish
  <1>3. Sound(w)
    BY <1>1, FinishSound
  <1> HIDE DEF w
  <1> QED
    BY <1>2, <1>3, OneSlot

LEMMA ReuseWays ==
    ASSUME Ways, DOMAIN req = Request, NEW r \in Request, Reuse(r)
    PROVE  Ways'
  BY NoRequestSound, OneSlot DEF Reuse

\* The requests, in every step of the replica.
LEMMA NextWays == IInv /\ Ways /\ [ServerNext]_serverVars => Ways'
  <1> SUFFICES ASSUME IInv, Ways, [ServerNext]_serverVars PROVE Ways'
    OBVIOUS
  <1>0. DOMAIN req = Request
    BY DEF IInv, Shaped
  <1>1. CASE UNCHANGED req
    BY <1>1 DEF Ways
  <1>2. CASE UNCHANGED serverVars
    BY <1>1, <1>2 DEF serverVars, vars
  <1>3. CASE req' = [r \in Request |-> NoRequest]
    BY <1>3, NoRequestSound DEF Ways
  <1>4. CASE MainStep \/ Timeout \/ Runtime
    BY <1>1, <1>3, <1>4 DEF MainStep, Timeout, Runtime, Undisturbed, Ending, vars
  <1>5. CASE Serving
    <2>1. ASSUME NEW r \in Request, Handling(r) PROVE Ways'
      BY <1>0, <2>1, EnterWays, MiddlewareWays, ServeWays, PanicWays, LeaveWays, ReuseWays
      DEF Handling
    <2> QED
      BY <1>1, <1>5, <2>1 DEF Serving, SetStatus, FlipRedis
  <1>6. ASSUME NEW r \in Request, Accept(r) \/ Complete(r) PROVE Ways'
    BY <1>0, <1>6, ArriveWays, FinishWays DEF Accept, Complete
  <1> QED
    BY <1>2, <1>4, <1>5, <1>6 DEF ServerNext

LEMMA WaysInvariance == ServerSpec => []Ways
  <1>1. ServerInit => Ways
    BY NoRequestSound DEF ServerInit, Init, Ways
  <1> QED
    BY <1>1, NextWays, Inductive, PTL DEF ServerSpec

\* A request is answered, logged and counted once, also when its handler panics.
THEOREM Observed == ServerSpec => []AnsweredAndObserved
  <1>1. Ways => AnsweredAndObserved
    BY DEF Ways, Sound, Answered, AnsweredAndObserved, Done
  <1> QED
    BY <1>1, WaysInvariance, PTL

\* No panic, and no handler that writes nothing, becomes a success unless the
\* service returned nil.
THEOREM SuccessReal == ServerSpec => []SuccessIsReal
  <1>1. Ways => SuccessIsReal
    BY DEF Ways, Sound, Answered, SuccessIsReal, Done
  <1> QED
    BY <1>1, WaysInvariance, PTL

----------------------------------------------------------------------------

\* The types of what main has, flags apart.
Flags == handler \in BOOLEAN /\ cancelled \in BOOLEAN /\ overdue \in BOOLEAN

Places ==
    /\ driver \in {"none", "postgres", "sqlite"} /\ pc \in L!Boot
    /\ tries \in 0 .. MaxTries - 1
    /\ opened \in SUBSET {"db", "redis", "broker"}
    /\ server \in {"none", "listening", "draining", "stopped"}
    /\ worker \in {"none", "idle", "busy", "stopped"}
    /\ exit \in {"no", "ok", "fatal", "panic", "killed"}

TypeInv ==
    Flags /\ Places /\ active \subseteq Tenant /\ redisUp \in BOOLEAN /\ cut \subseteq Request

LEMMA DiePlaces ==
    ASSUME Places, NEW how \in {"ok", "fatal", "panic", "killed"}, L!Die(how)
    PROVE  Places'
  BY DEF Places, L!Die, L!bootVars

LEMMA ProceedPlaces ==
    ASSUME Places, NEW next \in L!Boot, NEW open \in SUBSET {"db", "redis", "broker"},
           L!Proceed(next, open)
    PROVE  Places'
  BY DEF Places, L!Proceed, L!bootVars, L!taskVars

LEMMA MainPlaces ==
    ASSUME Places, L!Main
    PROVE  Places'
  <1>0. opened \in SUBSET {"db", "redis", "broker"}
    BY DEF Places
  <1>1. CASE L!LoadConfig
    <2>1. PICK env \in L!Environment :
             \/ /\ L!Load(env) /\ driver' = L!LoadDBconfigs(env) /\ pc' = "keys"
                /\ UNCHANGED <<tries, opened, server, worker, exit>>
             \/ L!Die("fatal")
      BY <1>1 DEF L!LoadConfig, L!taskVars
    <2> QED
      BY <2>1, DiePlaces, DriverLoaded DEF Places, L!Boot
  <1>2. CASE L!LoadKeys
    BY <1>0, <1>2, DiePlaces, ProceedPlaces DEF L!LoadKeys, L!Boot
  <1>3. CASE L!LoadTokenSecret \/ L!Migrate \/ L!LoadScripts
    BY <1>0, <1>3, DiePlaces, ProceedPlaces DEF L!LoadTokenSecret, L!Migrate, L!LoadScripts, L!Boot
  <1>4. CASE L!Connect
    <2>1. CASE tries + 1 < L!Attempts /\ tries' = tries + 1
               /\ UNCHANGED <<driver, pc, opened, L!taskVars, exit>>
      BY <2>1 DEF Places, L!Attempts, L!taskVars
    <2>2. opened \cup {"db"} \in SUBSET {"db", "redis", "broker"} /\ "migrate" \in L!Boot
      BY <1>0 DEF L!Boot
    <2> QED
      BY <1>4, <2>1, <2>2, DiePlaces, ProceedPlaces DEF L!Connect
  <1>5. CASE L!PingRedis
    <2>1. opened \cup {"redis"} \in SUBSET {"db", "redis", "broker"} /\ "scripts" \in L!Boot
      BY <1>0 DEF L!Boot
    <2> QED
      BY <1>5, <2>1, DiePlaces, ProceedPlaces DEF L!PingRedis
  <1>6. CASE L!NewRepos
    BY <1>0, <1>6, DiePlaces, ProceedPlaces DEF L!NewRepos, L!Boot
  <1>7. CASE L!NotifyContext
    BY <1>7 DEF Places, L!NotifyContext, L!bootVars, L!taskVars, L!Boot
  <1>8. CASE L!StartWorker
    <2>1. CASE pc' = "server" /\ opened' = opened \cup {"broker"} /\ worker' = "idle"
               /\ UNCHANGED <<L!bootVars, L!signalVars, server, exit>>
      BY <2>1 DEF Places, L!bootVars, L!Boot
    <2> QED
      BY <1>8, <2>1, DiePlaces DEF L!StartWorker
  <1>9. CASE L!StartServer
    BY <1>9 DEF Places, L!StartServer, L!bootVars, L!Boot
  <1>10. CASE L!Awaken \/ L!Drained
    BY <1>10 DEF Places, L!Awaken, L!Drained, L!EndDrain, L!bootVars, L!Boot
  <1>11. CASE L!CloseBroker
    BY <1>11 DEF Places, L!CloseBroker, L!bootVars, L!taskVars
  <1>12. CASE L!Return
    BY <1>12, DiePlaces DEF L!Return
  <1> QED
    BY <1>1, <1>2, <1>3, <1>4, <1>5, <1>6, <1>7, <1>8, <1>9, <1>10, <1>11, <1>12 DEF L!Main

LEMMA RunPlaces ==
    ASSUME Places, L!ShutdownTimeout \/ L!Work \/ L!Signal \/ L!ListenFails
    PROVE  Places'
  <1>1. CASE L!ShutdownTimeout
    BY <1>1 DEF Places, L!ShutdownTimeout, L!bootVars, L!taskVars
  <1>2. CASE L!Work
    BY <1>2 DEF Places, L!Work, L!bootVars
  <1>3. CASE L!Signal
    BY <1>3, DiePlaces DEF Places, L!Signal, L!bootVars, L!taskVars
  <1>4. CASE L!ListenFails
    BY <1>4, DiePlaces DEF L!ListenFails
  <1> QED
    BY <1>1, <1>2, <1>3, <1>4

LEMMA MainFlags ==
    ASSUME Flags,
           L!Main \/ L!ShutdownTimeout \/ L!Work \/ L!Signal \/ L!ListenFails
    PROVE  Flags'
  <1>1. ASSUME NEW how, L!Die(how) PROVE Flags'
    BY <1>1, Zenon DEF Flags, L!Die, L!bootVars, L!signalVars
  <1>2. ASSUME NEW next, NEW open, L!Proceed(next, open) PROVE Flags'
    BY <1>2, Zenon DEF Flags, L!Proceed, L!bootVars, L!signalVars
  <1>3. CASE L!LoadConfig
    BY <1>1, <1>3, Zenon DEF L!LoadConfig, Flags, L!signalVars
  <1>4. CASE L!LoadKeys \/ L!LoadTokenSecret \/ L!Migrate \/ L!PingRedis \/ L!LoadScripts \/ L!NewRepos
    BY <1>1, <1>2, <1>4, Zenon
    DEF L!LoadKeys, L!LoadTokenSecret, L!Migrate, L!PingRedis, L!LoadScripts, L!NewRepos
  <1>5. CASE L!Connect
    BY <1>1, <1>2, <1>5, Zenon DEF L!Connect, Flags, L!signalVars
  <1>6. CASE L!NotifyContext \/ L!StartWorker \/ L!StartServer
    BY <1>1, <1>6, Zenon DEF L!NotifyContext, L!StartWorker, L!StartServer, Flags, L!bootVars, L!signalVars
  <1>7. CASE L!Awaken \/ L!Drained \/ L!CloseBroker \/ L!Return
    BY <1>1, <1>7, Zenon
    DEF L!Awaken, L!Drained, L!EndDrain, L!CloseBroker, L!Return, Flags, L!bootVars, L!signalVars
  <1>8. CASE L!ShutdownTimeout \/ L!Work \/ L!Signal \/ L!ListenFails
    BY <1>1, <1>8, Zenon
    DEF L!ShutdownTimeout, L!Work, L!Signal, L!ListenFails, Flags, L!bootVars, L!signalVars
  <1> QED
    BY <1>3, <1>4, <1>5, <1>6, <1>7, <1>8 DEF L!Main

LEMMA NextTypeInv == IInv /\ TypeInv /\ [ServerNext]_serverVars => TypeInv'
  <1> SUFFICES ASSUME IInv, TypeInv, [ServerNext]_serverVars PROVE TypeInv'
    OBVIOUS
  <1>1. ASSUME UNCHANGED mainVars PROVE Flags' /\ Places'
    <2>1. Flags'
      BY <1>1, Zenon DEF mainVars, TypeInv, Flags
    <2>2. Places'
      BY <1>1 DEF mainVars, TypeInv, Places
    <2> QED
      BY <2>1, <2>2
  <1>2. Flags' /\ Places'
    <2>1. CASE UNCHANGED serverVars \/ Serving
      BY <1>1, <2>1 DEF serverVars, Serving
    <2>2. CASE MainStep \/ Timeout \/ Runtime
      BY <2>2, MainPlaces, RunPlaces, MainFlags
      DEF TypeInv, MainStep, Timeout, Runtime, Undisturbed, Ending, L!Main
    <2>3. ASSUME NEW r \in Request, Accept(r) \/ Complete(r) PROVE Flags' /\ Places'
      BY <1>1, <2>3
      DEF Accept, Complete, L!Receive, L!Complete, mainVars, L!bootVars, L!signalVars
    <2> QED
      BY <2>1, <2>2, <2>3 DEF ServerNext
  <1>3. active' \subseteq Tenant
    <2>1. UNCHANGED active \/ \E t \in Tenant : SetStatus(t)
      BY DEF serverVars, vars, ServerNext, MainStep, Timeout, Runtime, Undisturbed, Ending, Serving,
             Accept, Complete, Handling, Arrive, Enter, TenantMiddleware, RateLimitMiddleware,
             JWTMiddleware, Decode, Serve, Panic, Leave, Reuse, Finish, FlipRedis
    <2> QED
      BY <2>1 DEF TypeInv, SetStatus
  <1>4. cut' \subseteq Request
    <2>1. cut' = cut \/ cut' = InFlight
      BY DEF serverVars, ServerNext, MainStep, Timeout, Runtime, Undisturbed, Ending, Serving, Accept,
             Complete
    <2> QED
      BY <2>1 DEF TypeInv, InFlight
  <1>5. redisUp' \in BOOLEAN
    <2>1. redisUp' = redisUp \/ FlipRedis
      BY DEF serverVars, vars, ServerNext, MainStep, Timeout, Runtime, Undisturbed, Ending, Serving,
             Accept, Complete, Handling, Arrive, Enter, TenantMiddleware, RateLimitMiddleware,
             JWTMiddleware, Decode, Serve, Panic, Leave, Reuse, Finish, SetStatus
    <2> QED
      BY <2>1, Zenon DEF TypeInv, FlipRedis
  <1> QED
    BY <1>2, <1>3, <1>4, <1>5 DEF TypeInv

LEMMA TypeInvariance == ServerSpec => []TypeInv
  <1>1. ServerInit => TypeInv
    <2> SUFFICES ASSUME ServerInit PROVE TypeInv
      OBVIOUS
    <2>1. Flags /\ redisUp \in BOOLEAN
      BY Zenon DEF ServerInit, Init, L!Init, Flags
    <2>2. Places
      BY DEF ServerInit, L!Init, Places, L!Boot
    <2> QED
      BY <2>1, <2>2 DEF ServerInit, Init, TypeInv
  <1> QED
    BY <1>1, NextTypeInv, Inductive, PTL DEF ServerSpec

\* Every variable of the replica keeps its type, the number of requests main counts
\* is never above the number it can have, and no other status is answered with.
THEOREM TypeCorrect == ServerSpec => []ServerTypeOK
  <1>1. Cardinality(InFlight) \in 0 .. Cardinality(Request)
    <2>1. InFlight \subseteq Request
      BY DEF InFlight
    <2>2. IsFiniteSet(InFlight) /\ Cardinality(InFlight) <= Cardinality(Request)
      BY <2>1, FS_Subset
    <2> QED
      BY <2>2, FS_CardinalityType
  <1>2. TypeInv => L!TypeOK
    <2> SUFFICES ASSUME TypeInv PROVE L!TypeOK
      OBVIOUS
    <2>1. Flags
      BY DEF TypeInv
    <2>2. Places
      BY DEF TypeInv
    <2> QED
      BY <1>1, <2>1, <2>2, Zenon DEF Flags, Places, L!TypeOK
  <1>3. TypeInv /\ Ways => TypeOK
    BY Zenon DEF TypeInv, Ways, Sound, Typed, TypeOK
  <1>4. TypeInv /\ Ways => ServerTypeOK
    BY <1>2, <1>3 DEF TypeInv, ServerTypeOK
  <1> QED
    BY <1>4, TypeInvariance, WaysInvariance, PTL
=============================================================================
