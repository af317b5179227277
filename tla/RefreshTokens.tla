--------------------------- MODULE RefreshTokens ---------------------------
(***************************************************************************)
(* The refresh_tokens table and the requests that read and write it:       *)
(* Login (a new session), Refresh (rotation and reuse detection), Logout   *)
(* and RevokeAllForUser (called by ResetPassword and RevokeAll).           *)
(*                                                                         *)
(* Requests run concurrently, in one process or in several replicas, and   *)
(* meet only in Postgres.  BeginTx(ctx, nil) gives READ COMMITTED:         *)
(*   - a statement sees the rows committed when it starts;                 *)
(*   - FOR UPDATE and UPDATE lock a row until the transaction ends, wait   *)
(*     for the current holder, and then look at the row's latest committed *)
(*     version, dropping it if it no longer satisfies the WHERE clause;    *)
(*   - what a transaction wrote becomes visible when it commits.           *)
(* An action is one statement, a commit or a rollback.                     *)
(***************************************************************************)
EXTENDS Naturals, FiniteSets

CONSTANTS
    Token,     \* identifiers of refresh_tokens rows, also the secrets themselves
    User,
    Tenant,
    TenantOf,  \* users.tenant_id
    Request,   \* request slots: the number of requests served at one time
    None       \* SQL NULL, a free lock

ASSUME TenantOfType == TenantOf \in [User -> Tenant]
ASSUME NoneIsFresh == None \notin Token \cup Request \cup User \cup Tenant

VARIABLES
    issued,    \* committed rows
    revoked,   \* committed rows with revoked_at set
    expired,   \* committed rows whose expires_at has passed
    row,       \* the columns fixed by INSERT, also of rows not yet committed
    lock,      \* the request whose transaction holds the row's lock
    req,       \* the state of the request in each slot
    held,      \* tokens some client has received in a response
    reuse,     \* history: families for which reuse was detected and committed
    clean,     \* history: those whose revocation found every row as it saw it
    loggedOut  \* history: tokens for which a Logout committed

tableVars == <<issued, revoked, expired, row, lock>>
historyVars == <<reuse, clean, loggedOut>>
vars == <<tableVars, req, held, historyVars>>

Columns == [user : User \cup {None}, tenant : Tenant \cup {None},
            family : Token \cup {None}, parent : Token \cup {None}]

NoRow == [user |-> None, tenant |-> None, family |-> None, parent |-> None]

Ops == {"none", "login", "refresh", "logout", "revokeAll"}
Pcs == {"idle", "find", "reuse", "scan", "rotate", "logout", "commit", "respond"}

\* A request: what it was called with, where it is, and its transaction.
RequestState ==
    [op : Ops, pc : Pcs,
     arg : Token \cup {None},      \* the token presented
     tenant : Tenant \cup {None},  \* TenantFromContext
     todo : SUBSET Token,          \* rows the bulk UPDATE has still to visit
     skipped : SUBSET Token,       \* rows it found revoked when it got to them
     writes : SUBSET Token,        \* rows it has set revoked_at of
     fresh : Token \cup {None}]    \* the row it has inserted

NoRequest == [op |-> "none", pc |-> "idle", arg |-> None, tenant |-> None,
              todo |-> {}, skipped |-> {}, writes |-> {}, fresh |-> None]

----------------------------------------------------------------------------

Live(t) == t \in issued /\ t \notin revoked

SameFamily(t, u) == row[t].family = row[u].family

\* WHERE ... AND revoked_at IS NULL
AnyRow(S) == S
Unrevoked(S) == S \ revoked

\* uuid.NewV7 and 32 random bytes: never an identifier in use.
Unused(t) == t \notin issued /\ \A r \in Request : req[r].fresh # t

\* WHERE token_hash = $1 AND tenant_id = $2
FoundInAnyTenant(t, n) == t \in issued
Found(t, n) == t \in issued /\ row[t].tenant = n

\* The WHERE clauses of the two bulk revocations, without revoked_at IS NULL.
ChildrenScope(f, n) == {t \in issued : row[t].parent = f /\ row[t].tenant = n}
FamilyScope(f, n) == {t \in issued : row[t].family = f /\ row[t].tenant = n}
UserScope(u, n) == {t \in issued : row[t].user = u /\ row[t].tenant = n}

\* A row lock: taken by FOR UPDATE and UPDATE, given back when the transaction ends.
Take(r, t) == lock' = [lock EXCEPT ![t] = r]
NoWait(r, t) == TRUE
CanTake(r, t) == lock[t] \in {None, r}
Released(r) == [t \in Token |-> IF lock[t] = r THEN None ELSE lock[t]]

Init ==
    /\ issued = {} /\ revoked = {} /\ expired = {}
    /\ row = [t \in Token |-> NoRow]
    /\ lock = [t \in Token |-> None]
    /\ req = [r \in Request |-> NoRequest]
    /\ held = {}
    /\ reuse = {} /\ clean = {} /\ loggedOut = {}

----------------------------------------------------------------------------
(* Login, after the credentials were accepted: a token of a new family is  *)
(* inserted with the login event.  A family is named by its first token.   *)
(* SignupService inserts the first token of a new user in the same way.    *)

Login(r, u, t) ==
    /\ req[r].pc = "idle"
    /\ Unused(t)
    /\ row' = [row EXCEPT ![t] = [user |-> u, tenant |-> TenantOf[u],
                                  family |-> t, parent |-> None]]
    /\ req' = [req EXCEPT ![r] = [NoRequest EXCEPT !.op = "login",
                                                   !.pc = "commit",
                                                   !.fresh = t]]
    /\ UNCHANGED <<issued, revoked, expired, lock, held, historyVars>>

----------------------------------------------------------------------------
(* Refresh and rotateHelper                                                *)

RefreshStart(r, t, n) ==
    /\ req[r].pc = "idle"
    /\ t \in held
    /\ req' = [req EXCEPT ![r] = [NoRequest EXCEPT !.op = "refresh",
                                                   !.pc = "find",
                                                   !.arg = t, !.tenant = n]]
    /\ UNCHANGED <<tableVars, held, historyVars>>

\* ErrInvalidToken: no such row in this tenant, or the row has expired.  The
\* deferred Rollback releases the lock at once.
RefreshInvalid(r) ==
    LET t == req[r].arg IN
    /\ req[r].pc = "find"
    /\ \/ ~Found(t, req[r].tenant)
       \/ CanTake(r, t) /\ t \in expired
    /\ req' = [req EXCEPT ![r] = NoRequest]
    /\ UNCHANGED <<tableVars, held, historyVars>>

\* old.RevokedAt != nil
AlwaysRotate(t) == "rotate"
BranchOnRevoked(t) == IF t \in revoked THEN "reuse" ELSE "rotate"

\* SELECT ... FOR UPDATE: wait for the row, then branch on its revoked_at.
FindbyHash(r) ==
    LET t == req[r].arg IN
    /\ req[r].pc = "find"
    /\ Found(t, req[r].tenant)
    /\ CanTake(r, t)
    /\ t \notin expired
    /\ Take(r, t)
    /\ req' = [req EXCEPT ![r].pc = BranchOnRevoked(t)]
    /\ UNCHANGED <<issued, revoked, expired, row, held, historyVars>>

\* Revoke(old), GenerateRefreshToken, CreateTx(new)
Rotate(r, t) ==
    LET old == req[r].arg IN
    /\ req[r].pc = "rotate"
    /\ Unused(t)
    /\ row' = [row EXCEPT ![t] = [user |-> row[old].user,
                                  tenant |-> req[r].tenant,
                                  family |-> row[old].family, parent |-> old]]
    /\ req' = [req EXCEPT ![r].pc = "commit", ![r].writes = {old},
                          ![r].fresh = t]
    /\ UNCHANGED <<issued, revoked, expired, lock, held, historyVars>>

----------------------------------------------------------------------------
(* The bulk UPDATEs: the rows visible when the statement starts are        *)
(* visited one by one; a row revoked meanwhile by a transaction that has   *)
(* committed is locked and skipped.                                        *)

RevokeAllForFamily(r) ==
    /\ req[r].pc = "reuse"
    /\ req' = [req EXCEPT
                 ![r].pc = "scan",
                 ![r].todo = Unrevoked(FamilyScope(row[req[r].arg].family, req[r].tenant))]
    /\ UNCHANGED <<tableVars, held, historyVars>>

RevokeAllForUser(r, u) ==
    /\ req[r].pc = "idle"
    /\ req' = [req EXCEPT ![r] = [NoRequest EXCEPT !.op = "revokeAll",
                                                   !.pc = "scan",
                                                   !.tenant = TenantOf[u],
                                                   !.todo = Unrevoked(UserScope(u, TenantOf[u]))]]
    /\ UNCHANGED <<tableVars, held, historyVars>>

ScanRow(r, t) ==
    /\ req[r].pc = "scan"
    /\ t \in req[r].todo
    /\ CanTake(r, t)
    /\ Take(r, t)
    /\ req' = [req EXCEPT
                 ![r].todo = @ \ {t},
                 ![r].skipped = IF t \in revoked THEN @ \cup {t} ELSE @,
                 ![r].writes = IF t \in revoked THEN @ ELSE @ \cup {t}]
    /\ UNCHANGED <<issued, revoked, expired, row, held, historyVars>>

ScanDone(r) ==
    /\ req[r].pc = "scan"
    /\ req[r].todo = {}
    /\ req' = [req EXCEPT ![r].pc = "commit"]
    /\ UNCHANGED <<tableVars, held, historyVars>>

----------------------------------------------------------------------------
(* Logout: FindValidByHash runs before the transaction and takes no lock.  *)
(* A token it does not find is ErrInvalidToken and changes nothing.        *)

LogoutStart(r, t, n) ==
    /\ req[r].pc = "idle"
    /\ t \in held
    /\ Found(t, n) /\ Live(t) /\ t \notin expired
    /\ req' = [req EXCEPT ![r] = [NoRequest EXCEPT !.op = "logout",
                                                   !.pc = "logout",
                                                   !.arg = t, !.tenant = n]]
    /\ UNCHANGED <<tableVars, held, historyVars>>

RevokeNoRow(r) ==
    LET t == req[r].arg IN
    /\ req[r].pc = "logout"
    /\ CanTake(r, t)
    /\ Take(r, t)
    /\ req' = [req EXCEPT ![r].pc = "commit"]
    /\ UNCHANGED <<issued, revoked, expired, row, held, historyVars>>

\* UPDATE ... WHERE token_id = $2 AND tenant_id = $3, whatever revoked_at is now.
Revoke(r) ==
    LET t == req[r].arg IN
    /\ req[r].pc = "logout"
    /\ CanTake(r, t)
    /\ Take(r, t)
    /\ req' = [req EXCEPT ![r].pc = "commit", ![r].writes = {t}]
    /\ UNCHANGED <<issued, revoked, expired, row, held, historyVars>>

----------------------------------------------------------------------------
(* The end of a transaction and of a request                               *)

\* The INSERT of the transaction, if it made one.
Inserted(r) == {req[r].fresh} \ {None}

IsReuse(r) == req[r].op = "refresh" /\ req[r].fresh = None

Commit(r) ==
    LET q == req[r]
        burnt == IF IsReuse(r) THEN {row[q.arg].family} ELSE {} IN
    /\ q.pc = "commit"
    /\ issued' = issued \cup Inserted(r)
    /\ revoked' = revoked \cup q.writes
    /\ lock' = Released(r)
    /\ req' = [req EXCEPT ![r].pc = "respond"]
    /\ reuse' = reuse \cup burnt
    /\ clean' = IF q.skipped = {} THEN clean \cup burnt ELSE clean
    /\ loggedOut' = IF q.op = "logout" THEN loggedOut \cup {q.arg} ELSE loggedOut
    /\ UNCHANGED <<expired, row, held>>

\* A failed statement, a cancelled request context, a deadlock broken by
\* Postgres or a crash of the replica: nothing of the transaction remains.
Rollback(r) ==
    /\ req[r].pc \in {"find", "reuse", "scan", "rotate", "logout", "commit"}
    /\ lock' = Released(r)
    /\ row' = [t \in Token |-> IF t = req[r].fresh THEN NoRow ELSE row[t]]
    /\ req' = [req EXCEPT ![r] = NoRequest]
    /\ UNCHANGED <<issued, revoked, expired, held, historyVars>>

Respond(r) ==
    /\ req[r].pc = "respond"
    /\ held' = held \cup Inserted(r)
    /\ req' = [req EXCEPT ![r] = NoRequest]
    /\ UNCHANGED <<tableVars, historyVars>>

\* After the commit: FindByID or GenerateAccessToken fails, the replica stops,
\* or the connection to the client is gone.
ResponseLost(r) ==
    /\ req[r].pc = "respond"
    /\ req' = [req EXCEPT ![r] = NoRequest]
    /\ UNCHANGED <<tableVars, held, historyVars>>

\* ExpiresAt = CreatedAt + 30 days: a token never outlives its successor.
Expire(t) ==
    /\ t \in issued \ expired
    /\ row[t].parent \in expired \cup {None}
    /\ expired' = expired \cup {t}
    /\ UNCHANGED <<issued, revoked, row, lock, req, held, historyVars>>

Step(r) ==
    \/ \E t \in Token : Rotate(r, t) \/ ScanRow(r, t)
    \/ RefreshInvalid(r) \/ FindbyHash(r)
    \/ RevokeAllForFamily(r) \/ ScanDone(r)
    \/ Revoke(r)
    \/ Commit(r) \/ Respond(r)

Arrive(r) ==
    \/ \E u \in User : RevokeAllForUser(r, u) \/ \E t \in Token : Login(r, u, t)
    \/ \E t \in Token, n \in Tenant : RefreshStart(r, t, n) \/ LogoutStart(r, t, n)

Next ==
    \/ \E r \in Request : Arrive(r) \/ Step(r) \/ Rollback(r) \/ ResponseLost(r)
    \/ \E t \in Token : Expire(t)

Spec == Init /\ [][Next]_vars

----------------------------------------------------------------------------
(* Waiting for row locks                                                   *)

\* The rows a request is waiting for, or has still to lock in its statement.
Wants(r) ==
    CASE req[r].pc \in {"find", "logout"} -> {req[r].arg} \cap issued
      [] req[r].pc = "scan" -> req[r].todo
      [] OTHER -> {}

WaitsFor(r, s) == r # s /\ \E t \in Wants(r) : lock[t] = s

\* S is a set of requests each of which waits for another one of S.
WaitingRing(S) == S # {} /\ \A r \in S : \E s \in S : WaitsFor(r, s)

----------------------------------------------------------------------------
(* Properties                                                              *)

\* Every variable has its type (the columns of models.RefreshToken and the
\* transaction state of a request).
TypeOK ==
    /\ issued \in SUBSET Token
    /\ revoked \in SUBSET Token
    /\ expired \in SUBSET Token
    /\ row \in [Token -> Columns]
    /\ lock \in [Token -> Request \cup {None}]
    /\ req \in [Request -> RequestState]
    /\ held \in SUBSET Token
    /\ reuse \in SUBSET Token
    /\ clean \in SUBSET Token
    /\ loggedOut \in SUBSET Token

\* A session has at most one usable refresh token: whatever refreshes, logouts
\* and revocations overlap, rotateHelper never leaves two unrevoked tokens in
\* one family.
OneLivePerFamily ==
    \A t, u \in Token : Live(t) /\ Live(u) /\ SameFamily(t, u) => t = u

\* A token is exchanged at most once: of all the Refresh calls that present one
\* token, at most one commits a successor for it.
ExchangedOnce ==
    \A t, u \in issued : row[t].parent # None /\ row[t].parent = row[u].parent => t = u

\* A successor belongs to the user, tenant and family of the token it replaces,
\* and that token is revoked; the tenant of every token is that of its user.
Lineage ==
    \A t \in issued :
        /\ row[t].tenant = TenantOf[row[t].user]
        /\ row[t].parent # None =>
              /\ row[t].parent \in revoked
              /\ row[t] = [row[row[t].parent] EXCEPT !.parent = row[t].parent]

\* Reuse detection ends the session unless a rotation overtook it: when
\* RevokeAllForFamily found every row as its snapshot showed it, no token of
\* the family is, or will ever be, live.
CleanReuseEndsSession ==
    \A t \in issued : row[t].family \in clean => t \in revoked

\* Reuse detection ends the session, always.
ReuseEndsSession ==
    \A t \in issued : row[t].family \in reuse => t \in revoked

\* Logout ends the session unless its token was exchanged first: after Logout
\* of a token, a token of the family is live only if that token has a successor.
LogoutEndsSession ==
    \A t \in loggedOut :
        /\ t \in revoked
        /\ (\E u \in issued : SameFamily(t, u) /\ Live(u)) =>
              \E u \in issued : row[u].parent = t

Ended(t) == \A u \in issued : SameFamily(t, u) => ~Live(u)

\* A session that has ended stays ended: a rotation that is under way when the last
\* token of its family is revoked does not bring the family back.
EndedStaysEnded == [][\A t \in issued : Ended(t) => Ended(t)']_vars

\* Postgres has a lock cycle to break only when two RevokeAllForUser overlap:
\* refreshes, reuse detections, logouts and one RevokeAllForUser never wait for
\* each other in a ring.
DeadlockNeedsTwoBulkRevocations ==
    \A S \in SUBSET Request :
        WaitingRing(S) =>
            \E r, s \in S : r # s /\ req[r].op = "revokeAll" /\ req[s].op = "revokeAll"

----------------------------------------------------------------------------
(* The promise: a token's session is its family, from the commit on; the   *)
(* valid tokens are the committed rows that are not revoked.               *)

SessionOf == [t \in Token |-> IF t \in issued THEN row[t].family ELSE None]

Promise == INSTANCE Sessions WITH session <- SessionOf, valid <- issued \ revoked

\* Every commit of a Login, Refresh, Logout or bulk revocation is one step of
\* Sessions, and nothing else changes what callers can observe.
ImplementsSessions == Promise!Spec
=============================================================================
