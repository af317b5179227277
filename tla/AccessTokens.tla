---------------------------- MODULE AccessTokens ----------------------------
(***************************************************************************)
(* Access tokens and the sessions they are issued in.  An access token is  *)
(* signed, not stored, so nothing withdraws it: what is accepted after a   *)
(* session has ended follows from when Login, SignupService and Refresh    *)
(* sign it, relative to the transaction that changes the session.  The     *)
(* sessions are those of Sessions, which RefreshTokens implements.         *)
(*                                                                         *)
(* Of the access tokens a session has been given only the one that expires *)
(* last matters.  Time is counted in ticks, and a request may take any     *)
(* number of them.                                                         *)
(***************************************************************************)
EXTENDS Integers

CONSTANTS
    Token,      \* refresh tokens; a session is named by its first one
    Request,    \* requests served at one time
    AccessTTL,  \* the 15 minutes of an access token
    None

ASSUME TTLIsPositive == AccessTTL \in Nat \ {0}
ASSUME NoneIsFresh == None \notin Token

VARIABLES
    session,  \* Sessions: the session of each refresh token handed out
    valid,    \* Sessions: the refresh tokens that can be exchanged
    req,      \* the request in each slot
    left,     \* time left of the session's last access token
    since,    \* time since the session ended, counted to AccessTTL
    late      \* history: sessions that ended while one of their requests had
              \* committed but not yet signed

S == INSTANCE Sessions

vars == <<session, valid, req, left, since, late>>

Remaining == 0 .. AccessTTL

\* left: what remains of the access token the request has signed.
RequestState ==
    [pc : {"idle", "login", "find", "sign", "respond"},
     session : Token \cup {None}, left : Remaining]

NoRequest == [pc |-> "idle", session |-> None, left |-> 0]

Init ==
    /\ S!Init
    /\ req = [r \in Request |-> NoRequest]
    /\ left = [s \in Token |-> 0] /\ since = [s \in Token |-> 0] /\ late = {}

Alive(s) == \E t \in valid : session[t] = s
Ended(s) == session[s] = s /\ ~Alive(s)

\* Requests of a session that will sign an access token for it.
Unsigned(s) == \E r \in Request : req[r].session = s /\ req[r].pc \in {"find", "sign"}

TooLong == AccessTTL + 1

\* ExpiresAt
GenerateAccessToken == AccessTTL

\* The signature is right, so what decides is exp.
ParseAnyway(remaining) == TRUE
ParseWithClaims(remaining) == remaining > 0

----------------------------------------------------------------------------
(* Login signs first and commits then; signup and refresh the other way.   *)

Login(r) ==
    /\ req[r].pc = "idle"
    /\ req' = [req EXCEPT ![r] = [NoRequest EXCEPT !.pc = "login", !.left = GenerateAccessToken]]
    /\ UNCHANGED <<session, valid, left, since, late>>

CommitLogin(r, t) ==
    /\ req[r].pc = "login"
    /\ S!Open(t)
    /\ req' = [req EXCEPT ![r].pc = "respond", ![r].session = t]
    /\ UNCHANGED <<left, since, late>>

Signup(r, t) ==
    /\ req[r].pc = "idle"
    /\ S!Open(t)
    /\ req' = [req EXCEPT ![r] = [NoRequest EXCEPT !.pc = "sign", !.session = t]]
    /\ UNCHANGED <<left, since, late>>

\* rotateHelper, by whoever holds the token.
Refresh(r, old, new) ==
    /\ req[r].pc = "idle"
    /\ S!Exchange(old, new)
    /\ req' = [req EXCEPT ![r] = [NoRequest EXCEPT !.pc = "find", !.session = session[old]]]
    /\ UNCHANGED <<left, since, late>>

\* The user is read without regard to the session.
FindByID(r) ==
    /\ req[r].pc = "find"
    /\ req' = [req EXCEPT ![r].pc = "sign"]
    /\ UNCHANGED <<session, valid, left, since, late>>

Sign(r) ==
    /\ req[r].pc = "sign"
    /\ req' = [req EXCEPT ![r].pc = "respond", ![r].left = GenerateAccessToken]
    /\ UNCHANGED <<session, valid, left, since, late>>

Later(a, b) == IF a > b THEN a ELSE b

Respond(r) ==
    LET s == req[r].session IN
    /\ req[r].pc = "respond"
    /\ left' = [left EXCEPT ![s] = Later(@, req[r].left)]
    /\ req' = [req EXCEPT ![r] = NoRequest]
    /\ UNCHANGED <<session, valid, since, late>>

\* FindByID or the signing fails, the commit of a login does, or the replica
\* stops: the session stays as it is, and nobody gets the access token.
Fail(r) ==
    /\ req[r].pc # "idle"
    /\ req' = [req EXCEPT ![r] = NoRequest]
    /\ UNCHANGED <<session, valid, left, since, late>>

----------------------------------------------------------------------------

\* Logout, a detected reuse or ResetPassword.
Close(T) ==
    /\ S!Close(T)
    /\ late' = late \cup {s \in Token : Alive(s) /\ Unsigned(s) /\ ~ \E t \in valid \ T : session[t] = s}
    /\ UNCHANGED <<req, left, since>>

Less(n) == IF n > 0 THEN n - 1 ELSE 0

Tick ==
    /\ left' = [s \in Token |-> Less(left[s])]
    /\ since' = [s \in Token |-> IF Ended(s) /\ since[s] < AccessTTL THEN since[s] + 1 ELSE since[s]]
    /\ req' = [r \in Request |-> [req[r] EXCEPT !.left = Less(@)]]
    /\ UNCHANGED <<session, valid, late>>

----------------------------------------------------------------------------

Answering(r) == FindByID(r) \/ Sign(r) \/ Respond(r) \/ Fail(r)

Next ==
    \/ \E r \in Request :
         \/ Login(r) \/ Answering(r)
         \/ \E t \in Token : CommitLogin(r, t) \/ Signup(r, t)
         \/ \E old, new \in Token : Refresh(r, old, new)
    \/ \E T \in SUBSET valid : Close(T)
    \/ Tick

\* Time passes.  A request need never end.
Spec == Init /\ [][Next]_vars /\ WF_vars(Tick)

----------------------------------------------------------------------------
(* Properties                                                              *)

\* Every variable has its type.
TypeOK ==
    /\ session \in [Token -> Token \cup {None}] /\ valid \in SUBSET Token
    /\ req \in [Request -> RequestState]
    /\ left \in [Token -> Remaining] /\ since \in [Token -> Remaining]
    /\ late \in SUBSET Token

Accepted(s) == session[s] = s /\ ParseWithClaims(left[s])

\* An access token outlives its session by less than its own lifetime, unless a
\* refresh or a signup of the session had committed and not yet signed when the
\* session ended.  A login, which signs before it commits, makes no exception.
AccessOutlivesBriefly ==
    \A s \in Token : Ended(s) /\ Accepted(s) => s \in late \/ since[s] < AccessTTL

\* JWTMiddleware in the end refuses whatever was issued in a session that has
\* ended, also what a late refresh signed.
AccessEnds == \A s \in Token : Ended(s) ~> [](~Accepted(s))
=============================================================================
