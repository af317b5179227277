---------------------------- MODULE Credentials ----------------------------
(***************************************************************************)
(* The password of one account and what follows from it: Login,            *)
(* ChangePassword, RequestResetPassword and ResetPassword running          *)
(* concurrently with refreshes of the account's sessions.                  *)
(*                                                                         *)
(* Passwords are numbered in the order they are chosen.  A session is its  *)
(* live refresh token; its rows behave as in module RefreshTokens, reuse   *)
(* detection left out.  users and refresh_tokens rows are                  *)
(* locked as READ COMMITTED locks them; the foreign-key lock an INSERT     *)
(* takes on the users row does not conflict with an UPDATE of its password.*)
(***************************************************************************)
EXTENDS Naturals, FiniteSets

CONSTANTS
    Token,        \* refresh tokens
    ResetToken,
    Request,      \* requests served at one time
    MaxPassword,  \* bound: passwords ever chosen
    None

ASSUME NoneIsFresh == None \notin Token \cup ResetToken \cup Request
ASSUME SomePassword == MaxPassword \in Nat \ {0}

VARIABLES
    password,  \* users.password_hash, committed
    chosen,    \* passwords chosen so far
    userLock,  \* the request whose transaction holds the users row
    reset,     \* password_reset_tokens: "none", "valid", "used" or "expired"
    live,      \* refresh tokens neither revoked nor expired
    cred,      \* the password each was obtained with
    tokLock,   \* the request that holds its row
    req,       \* the request in each slot
    uses,      \* history: reset tokens with a committed ResetPassword, and with two
    era,       \* history: passwords valid since the last committed reset
    suspect    \* history: tokens obtained by a request that overlapped a reset

rowVars == <<password, chosen, userLock, reset, live, cred, tokLock>>
historyVars == <<uses, era, suspect>>
vars == <<rowVars, req, historyVars>>

Password == 1 .. MaxPassword

\* pc "revoke" is reached with the users row locked and the token marked used in
\* the transaction; "scan" is RevokeAllForUser on a connection of its own.
Pcs == {"idle", "insert", "change", "commitChange", "reset", "revoke", "scan", "confirm",
        "rotate"}

RequestState ==
    [pc : Pcs,
     old : Password \cup {None},                \* the password compared
     new : Password \cup {None},                \* the one to be set
     tok : Token \cup ResetToken \cup {None},   \* the token presented
     todo : SUBSET Token, done : SUBSET Token,  \* rows of the bulk UPDATE
     overlap : BOOLEAN]                         \* history: a reset ran meanwhile

NoRequest == [pc |-> "idle", old |-> None, new |-> None, tok |-> None, todo |-> {},
              done |-> {}, overlap |-> FALSE]

Init ==
    /\ password = 1 /\ chosen = 1
    /\ userLock = None
    /\ reset = [t \in ResetToken |-> "none"]
    /\ live = {}
    /\ cred = [t \in Token |-> None]
    /\ tokLock = [t \in Token |-> None]
    /\ req = [r \in Request |-> NoRequest]
    /\ uses = [once |-> {}, twice |-> {}]
    /\ era = {1}
    /\ suspect = {}

----------------------------------------------------------------------------

\* A reset has revoked the sessions it saw and has not committed.
ResetRunning == \E r \in Request : req[r].pc \in {"scan", "confirm"}

Begin(r, pc, old, new, tok) ==
    /\ req[r].pc = "idle"
    /\ req' = [req EXCEPT ![r] = [NoRequest EXCEPT !.pc = pc, !.old = old, !.new = new,
                                                   !.tok = tok, !.overlap = ResetRunning]]

Advance(r, pc) == req' = [req EXCEPT ![r].pc = pc]

\* An identifier no row and no request refers to.
Fresh(t) ==
    /\ t \notin live /\ tokLock[t] = None
    /\ \A r \in Request : t # req[r].tok /\ t \notin req[r].todo \cup req[r].done

Insert(r, t, p, tainted) ==
    /\ Fresh(t)
    /\ cred' = [cred EXCEPT ![t] = p]
    /\ suspect' = IF tainted \/ req[r].overlap THEN suspect \cup {t} ELSE suspect \ {t}
    /\ req' = [req EXCEPT ![r] = NoRequest]

CanLockUser(r) == userLock = None

Unlocked(r) == [t \in Token |-> IF tokLock[t] = r THEN None ELSE tokLock[t]]

----------------------------------------------------------------------------
(* Login: the hash is read and compared, and the session is committed      *)
(* later.  A wrong password has no effect here.                            *)

Compare(r) ==
    /\ Begin(r, "insert", password, None, None)
    /\ UNCHANGED <<rowVars, historyVars>>

InsertSession(r, t) ==
    /\ req[r].pc = "insert"
    /\ Insert(r, t, req[r].old, FALSE)
    /\ live' = live \cup {t}
    /\ UNCHANGED <<password, chosen, userLock, reset, tokLock, uses, era>>

----------------------------------------------------------------------------
(* ChangePassword: the current password is verified outside the            *)
(* transaction that replaces it.                                           *)

Choose == chosen < MaxPassword /\ chosen' = chosen + 1

VerifyCurrent(r) ==
    /\ Choose
    /\ Begin(r, "change", password, chosen + 1, None)
    /\ UNCHANGED <<password, userLock, reset, live, cred, tokLock, historyVars>>

\* users.ChangePassword, then the outbox event.
UpdateUser(r) ==
    /\ req[r].pc = "change" /\ CanLockUser(r)
    /\ userLock' = r
    /\ Advance(r, "commitChange")
    /\ UNCHANGED <<password, chosen, reset, live, cred, tokLock, historyVars>>

CommitChange(r) ==
    /\ req[r].pc = "commitChange"
    /\ password' = req[r].new /\ userLock' = None
    /\ era' = era \cup {req[r].new}
    /\ req' = [req EXCEPT ![r] = NoRequest]
    /\ UNCHANGED <<chosen, reset, live, cred, tokLock, uses, suspect>>

----------------------------------------------------------------------------
(* RequestResetPassword: the new row, the event with the link and          *)
(* RevokePreviousResetTokens in one transaction.  It sets revoked_at,      *)
(* which no statement reads, on every unused row: a reset that has marked  *)
(* one is waited for.                                                      *)

\* used_at IS NULL AND expires_at > CURRENT_TIMESTAMP
Acceptable(t) == reset[t] = "valid"

Marked(r) == req[r].pc \in {"revoke", "scan", "confirm"}

RequestResetPassword(t) ==
    /\ reset[t] = "none"
    /\ \A r \in Request : Marked(r) => ~Acceptable(req[r].tok)
    /\ reset' = [reset EXCEPT ![t] = "valid"]
    /\ UNCHANGED <<password, chosen, userLock, live, cred, tokLock, req, historyVars>>

ExpireReset(t) ==
    /\ reset[t] = "valid"
    /\ reset' = [reset EXCEPT ![t] = "expired"]
    /\ UNCHANGED <<password, chosen, userLock, live, cred, tokLock, req, historyVars>>

----------------------------------------------------------------------------
(* ResetPassword                                                           *)

\* The token row is read without a lock.
FindValidResetToken(r, t) ==
    /\ Acceptable(t)
    /\ Choose
    /\ Begin(r, "reset", None, chosen + 1, t)
    /\ UNCHANGED <<password, userLock, reset, live, cred, tokLock, historyVars>>

MarkUsedAtOnce(r) ==
    /\ req[r].pc = "reset" /\ CanLockUser(r)
    /\ userLock' = r
    /\ reset' = [reset EXCEPT ![req[r].tok] = "used"]
    /\ Advance(r, "revoke")
    /\ UNCHANGED <<password, chosen, live, cred, tokLock, historyVars>>

\* users.ChangePassword locks the row; MarkResetTokenUsedTx follows in the
\* same transaction, whatever used_at is by now.
ReplacePassword(r) ==
    /\ req[r].pc = "reset" /\ CanLockUser(r)
    /\ userLock' = r
    /\ Advance(r, "revoke")
    /\ UNCHANGED <<password, chosen, reset, live, cred, tokLock, historyVars>>

SeesNothing(r) == {}

\* WHERE user_id = $1 AND revoked_at IS NULL
Sees(r) == live

\* RevokeAllForUser on another connection, committed by itself.  Every request
\* in flight now overlaps the reset.
RevokeAllForUser(r) ==
    /\ req[r].pc = "revoke"
    /\ req' = [q \in Request |->
                  IF q = r THEN [req[r] EXCEPT !.pc = "scan", !.todo = Sees(r)]
                  ELSE [req[q] EXCEPT !.overlap = req[q].pc # "idle"]]
    /\ UNCHANGED <<rowVars, historyVars>>

ScanRow(r, t) ==
    /\ req[r].pc = "scan" /\ t \in req[r].todo
    /\ tokLock[t] = None
    /\ tokLock' = [tokLock EXCEPT ![t] = r]
    /\ req' = [req EXCEPT ![r].todo = @ \ {t}, ![r].done = @ \cup {t}]
    /\ UNCHANGED <<password, chosen, userLock, reset, live, cred, historyVars>>

ScanDone(r) ==
    /\ req[r].pc = "scan" /\ req[r].todo = {}
    /\ live' = live \ req[r].done
    /\ tokLock' = Unlocked(r)
    /\ req' = [req EXCEPT ![r].pc = "confirm", ![r].done = {}]
    /\ UNCHANGED <<password, chosen, userLock, reset, cred, historyVars>>

\* FindByID on another connection, a read that takes no lock, the event and the
\* commit.
CommitReset(r) ==
    LET t == req[r].tok IN
    /\ req[r].pc = "confirm"
    /\ password' = req[r].new /\ userLock' = None
    /\ reset' = [reset EXCEPT ![t] = "used"]
    /\ era' = {req[r].new}
    /\ uses' = [once |-> uses.once \cup {t},
                twice |-> IF t \in uses.once THEN uses.twice \cup {t} ELSE uses.twice]
    /\ req' = [q \in Request |->
                  IF q = r THEN NoRequest
                  ELSE [req[q] EXCEPT !.overlap = req[q].pc # "idle"]]
    /\ UNCHANGED <<chosen, live, cred, tokLock, suspect>>

----------------------------------------------------------------------------
(* Refresh of a session: the row is locked, then replaced.                 *)

LockRow(r, t) ==
    /\ t \in live /\ tokLock[t] = None
    /\ Begin(r, "rotate", cred[t], None, t)
    /\ tokLock' = [tokLock EXCEPT ![t] = r]
    /\ UNCHANGED <<password, chosen, userLock, reset, live, cred, historyVars>>

\* The foreign key check of the INSERT does not wait for the users row.
WaitForUser(r) == userLock = None
ForeignKeyFree(r) == TRUE

Rotate(r, t) ==
    LET old == req[r].tok IN
    /\ req[r].pc = "rotate" /\ ForeignKeyFree(r)
    /\ Insert(r, t, cred[old], old \in suspect)
    /\ live' = (live \ {old}) \cup {t}
    /\ tokLock' = Unlocked(r)
    /\ UNCHANGED <<password, chosen, userLock, reset, uses, era>>

\* A logout or the end of its 30 days.
EndSession(t) ==
    /\ t \in live /\ tokLock[t] = None
    /\ live' = live \ {t}
    /\ UNCHANGED <<password, chosen, userLock, reset, cred, tokLock, req, historyVars>>

----------------------------------------------------------------------------

\* An error, a cancelled request or a crash: the open transaction is undone,
\* what RevokeAllForUser has committed is not.
Fail(r) ==
    /\ req[r].pc # "idle"
    /\ req' = [req EXCEPT ![r] = NoRequest]
    /\ userLock' = IF userLock = r THEN None ELSE userLock
    /\ tokLock' = Unlocked(r)
    /\ UNCHANGED <<password, chosen, reset, live, cred, historyVars>>

Step(r) ==
    \/ UpdateUser(r) \/ CommitChange(r)
    \/ ReplacePassword(r) \/ RevokeAllForUser(r) \/ ScanDone(r) \/ CommitReset(r)
    \/ \E t \in Token : InsertSession(r, t) \/ ScanRow(r, t) \/ Rotate(r, t)

Arrive(r) ==
    \/ Compare(r) \/ VerifyCurrent(r)
    \/ \E t \in ResetToken : FindValidResetToken(r, t)
    \/ \E t \in Token : LockRow(r, t)

Next ==
    \/ \E r \in Request : Arrive(r) \/ Step(r) \/ Fail(r)
    \/ \E t \in ResetToken : RequestResetPassword(t) \/ ExpireReset(t)
    \/ \E t \in Token : EndSession(t)

Spec == Init /\ [][Next]_vars

(* Fairness: requests run, and row locks are handed to waiters in turn.    *)
(* Token is finite: an INSERT that finds no identifier fails.              *)
NoIdentifierLeft(r) ==
    /\ req[r].pc \in {"insert", "rotate"} /\ \A t \in Token : ~Fresh(t)
    /\ Fail(r)

FairSpec ==
    /\ Spec
    /\ \A r \in Request : SF_vars(Step(r)) /\ WF_vars(NoIdentifierLeft(r))

----------------------------------------------------------------------------
(* Properties                                                              *)

\* Every variable has its type.
TypeOK ==
    /\ password \in Password /\ chosen \in Password
    /\ userLock \in Request \cup {None}
    /\ reset \in [ResetToken -> {"none", "valid", "used", "expired"}]
    /\ live \in SUBSET Token
    /\ cred \in [Token -> Password \cup {None}]
    /\ \A t \in live : cred[t] \in Password
    /\ tokLock \in [Token -> Request \cup {None}]
    /\ req \in [Request -> RequestState]
    /\ uses \in [once : SUBSET ResetToken, twice : SUBSET ResetToken]
    /\ era \in SUBSET Password /\ password \in era
    /\ suspect \in SUBSET Token

\* After a password reset, a session obtained with a password from before it is
\* live only if the login or refresh that committed it, or an ancestor, overlapped
\* the reset: ResetPassword ends every other one.
SurvivorsOverlapped == \A t \in live : cred[t] \in era \/ t \in suspect

\* A reset token is spent only by a reset that took effect: one that fails after
\* MarkResetTokenUsedTx leaves the link usable.
SpentMeansReset == \A t \in ResetToken : reset[t] = "used" <=> t \in uses.once

\* Every request ends, although ResetPassword waits for refresh_tokens rows on one
\* connection while it holds the users row on another, where Postgres cannot see
\* a cycle.
EveryRequestEnds == \A r \in Request : req[r].pc # "idle" ~> req[r].pc = "idle"

\* A reset token is used once.
ResetTokenOnce == uses.twice = {}
=============================================================================
