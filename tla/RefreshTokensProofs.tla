------------------------ MODULE RefreshTokensProofs ------------------------
(***************************************************************************)
(* Proofs about RefreshTokens for any number of tokens, users, tenants and *)
(* concurrent requests.  The argument: between FindbyHash and the end of   *)
(* its transaction a rotation owns the row lock of the token it presented, *)
(* and a transaction only writes rows it has locked; so the token is still *)
(* unrevoked when the rotation commits, and the commit swaps the one live  *)
(* token of the family for another.                                        *)
(***************************************************************************)
EXTENDS RefreshTokens, TLAPS

\* The table: revoked, expired and handed-out tokens are committed rows, and
\* so is the first token of every committed family.
TableInv ==
    /\ revoked \subseteq issued
    /\ expired \subseteq issued
    /\ held \subseteq issued
    /\ \A t \in issued : row[t].family \in issued /\ row[t].user \in User

\* A row is being inserted by at most one transaction.
InsertedByOne ==
    \A r, s \in Request : req[r].fresh # None /\ req[r].fresh = req[s].fresh => r = s

\* Request r has inserted a row only in the steps after its INSERT, and the row
\* is not visible before the commit.
InsertInv(r) ==
    /\ req[r].fresh # None => req[r].pc \in {"commit", "respond"}
    /\ req[r].pc = "commit" => req[r].fresh \notin issued
    /\ req[r].pc = "respond" => Inserted(r) \subseteq issued

\* A transaction has locked every row it has written, and writes only
\* committed rows.
WriteInv(r) ==
    /\ req[r].writes \cup req[r].todo \subseteq issued
    /\ req[r].pc \in {"find", "reuse"} => req[r].writes = {}
    /\ req[r].pc \in {"scan", "commit"} => \A t \in req[r].writes : lock[t] = r

\* Refresh and Logout present a committed token.
PresentedInv(r) ==
    /\ req[r].pc \in {"find", "reuse", "rotate"} => req[r].op = "refresh"
    /\ req[r].pc = "logout" => req[r].op = "logout"
    /\ req[r].op \in {"refresh", "logout"} => req[r].arg \in issued

\* A transaction that is about to commit a new row.
Inserting(r) == req[r].pc = "commit" /\ req[r].fresh # None

\* From FindbyHash to its commit, a rotation presented a token that is locked,
\* unrevoked and in the tenant of the request.
RotateInv(r) ==
    req[r].pc = "rotate" \/ (Inserting(r) /\ req[r].op = "refresh") =>
        /\ req[r].arg \notin revoked
        /\ lock[req[r].arg] = r
        /\ row[req[r].arg].tenant = req[r].tenant

\* The columns of a row whose INSERT is not committed yet: the first token of a
\* family, or a successor of the token that the same transaction revokes.
PendingRowInv(r) ==
    Inserting(r) =>
        LET new == row[req[r].fresh] IN
        \/ /\ req[r].op = "login" /\ req[r].writes = {}
           /\ new.user \in User
           /\ new.tenant = TenantOf[new.user]
           /\ new.family = req[r].fresh /\ new.parent = None
        \/ /\ req[r].op = "refresh" /\ req[r].writes = {req[r].arg}
           /\ new = [row[req[r].arg] EXCEPT !.parent = req[r].arg]

RequestInv(r) ==
    InsertInv(r) /\ WriteInv(r) /\ PresentedInv(r) /\ RotateInv(r) /\ PendingRowInv(r)

IInv ==
    /\ TypeOK
    /\ TableInv
    /\ InsertedByOne
    /\ \A r \in Request : RequestInv(r)
    /\ OneLivePerFamily /\ ExchangedOnce /\ Lineage

\* What a step of request r leaves alone: the state, the locks and the pending
\* row of every other request, the columns of committed rows, and revoked_at of
\* rows that r has not locked.
Frame(r) ==
    /\ \A s \in Request : s # r => req'[s] = req[s]
    /\ \A s \in Request, t \in Token : s # r /\ lock[t] = s => lock'[t] = s
    /\ \A t \in issued : row'[t] = row[t]
    /\ \A s \in Request : s # r /\ Inserting(s) => row'[req[s].fresh] = row[req[s].fresh]
    /\ issued \subseteq issued' /\ issued' \subseteq issued \cup Inserted(r)
    /\ revoked \subseteq revoked' /\ \A t \in revoked' : t \in revoked \/ lock[t] = r

----------------------------------------------------------------------------

USE TenantOfType, NoneIsFresh

LEMMA NoRequestType == NoRequest \in RequestState
  BY DEF NoRequest, RequestState, Ops, Pcs

\* The updates a statement makes to its request.
LEMMA UpdateWrites ==
    ASSUME NEW q \in RequestState, NEW p \in Pcs, NEW X \in SUBSET Token
    PROVE  [q EXCEPT !.pc = p, !.writes = X] \in RequestState
  BY DEF RequestState

LEMMA UpdateInsert ==
    ASSUME NEW q \in RequestState, NEW p \in Pcs, NEW X \in SUBSET Token, NEW t \in Token
    PROVE  [q EXCEPT !.pc = p, !.writes = X, !.fresh = t] \in RequestState
  BY DEF RequestState

LEMMA UpdateScan ==
    ASSUME NEW q \in RequestState, NEW X \in SUBSET Token, NEW Y \in SUBSET Token,
           NEW Z \in SUBSET Token
    PROVE  [q EXCEPT !.todo = X, !.skipped = Y, !.writes = Z] \in RequestState
  BY DEF RequestState

\* Every statement, commit, rollback and response of a request, and the passing
\* of time, keeps the variables in their types.
LEMMA TypeStep == IInv /\ [Next]_vars => TypeOK'
  <1> SUFFICES ASSUME TypeOK, TableInv, \A r \in Request : PresentedInv(r), [Next]_vars
               PROVE  TypeOK'
    BY DEF IInv, RequestInv
  <1> USE NoRequestType DEF TypeOK
  <1>1. CASE UNCHANGED vars
    BY <1>1 DEF vars, tableVars, historyVars
  <1>2. ASSUME NEW r \in Request, NEW u \in User, NEW t \in Token, Login(r, u, t)
        PROVE  TypeOK'
    BY <1>2 DEF Login, historyVars, Columns, RequestState, NoRequest, Ops, Pcs
  <1>3. ASSUME NEW r \in Request, NEW u \in User, RevokeAllForUser(r, u)
        PROVE  TypeOK'
    BY <1>3 DEF RevokeAllForUser, tableVars, historyVars, UserScope, Unrevoked,
                RequestState, NoRequest, Ops, Pcs
  <1>4. ASSUME NEW r \in Request, NEW t \in Token, NEW n \in Tenant, RefreshStart(r, t, n)
        PROVE  TypeOK'
    BY <1>4 DEF RefreshStart, tableVars, historyVars, RequestState, NoRequest, Ops, Pcs
  <1>5. ASSUME NEW r \in Request, NEW t \in Token, NEW n \in Tenant, LogoutStart(r, t, n)
        PROVE  TypeOK'
    BY <1>5 DEF LogoutStart, tableVars, historyVars, RequestState, NoRequest, Ops, Pcs
  <1>6. ASSUME NEW r \in Request, NEW t \in Token, Rotate(r, t)
        PROVE  TypeOK'
    <2>1. [req[r] EXCEPT !.pc = "commit", !.writes = {req[r].arg}, !.fresh = t] \in RequestState
      <3>1. {req[r].arg} \in SUBSET Token /\ "commit" \in Pcs /\ req[r] \in RequestState
        BY <1>6 DEF Rotate, PresentedInv, Pcs
      <3>2. QED
        BY <3>1, UpdateInsert
    <2>2. QED
      BY <1>6, <2>1 DEF Rotate, historyVars, Columns, RequestState
  <1>7. ASSUME NEW r \in Request, NEW t \in Token, ScanRow(r, t)
        PROVE  TypeOK'
    <2>1. [req[r] EXCEPT !.todo = @ \ {t},
                         !.skipped = IF t \in revoked THEN @ \cup {t} ELSE @,
                         !.writes = IF t \in revoked THEN @ ELSE @ \cup {t}] \in RequestState
      <3>1. /\ req[r].todo \ {t} \in SUBSET Token
            /\ (IF t \in revoked THEN req[r].skipped \cup {t} ELSE req[r].skipped) \in SUBSET Token
            /\ (IF t \in revoked THEN req[r].writes ELSE req[r].writes \cup {t}) \in SUBSET Token
            /\ req[r] \in RequestState
        BY DEF RequestState
      <3>2. QED
        BY <3>1, UpdateScan
    <2>2. QED
      BY <1>7, <2>1 DEF ScanRow, Take, historyVars
  <1>8. ASSUME NEW r \in Request, RefreshInvalid(r)
        PROVE  TypeOK'
    BY <1>8 DEF RefreshInvalid, tableVars, historyVars
  <1>9. ASSUME NEW r \in Request, FindbyHash(r)
        PROVE  TypeOK'
    <2>1. [req[r] EXCEPT !.pc = BranchOnRevoked(req[r].arg)] \in RequestState
      BY <1>9 DEF BranchOnRevoked, RequestState, Ops, Pcs
    <2>2. QED
      BY <1>9, <2>1 DEF FindbyHash, Found, Take, historyVars
  <1>10. ASSUME NEW r \in Request, RevokeAllForFamily(r)
        PROVE  TypeOK'
    <2>1. [req[r] EXCEPT !.pc = "scan",
                         !.todo = Unrevoked(FamilyScope(row[req[r].arg].family, req[r].tenant))] \in RequestState
      BY <1>10 DEF FamilyScope, Unrevoked, RequestState, Ops, Pcs
    <2>2. QED
      BY <1>10, <2>1 DEF RevokeAllForFamily, tableVars, historyVars
  <1>11. ASSUME NEW r \in Request, ScanDone(r)
        PROVE  TypeOK'
    <2>1. [req[r] EXCEPT !.pc = "commit"] \in RequestState
      BY <1>11 DEF RequestState, Ops, Pcs
    <2>2. QED
      BY <1>11, <2>1 DEF ScanDone, tableVars, historyVars
  <1>12. ASSUME NEW r \in Request, Revoke(r)
        PROVE  TypeOK'
    <2>1. [req[r] EXCEPT !.pc = "commit", !.writes = {req[r].arg}] \in RequestState
      <3>1. {req[r].arg} \in SUBSET Token /\ "commit" \in Pcs /\ req[r] \in RequestState
        BY <1>12 DEF Revoke, PresentedInv, Pcs
      <3>2. QED
        BY <3>1, UpdateWrites
    <2>2. QED
      BY <1>12, <2>1 DEF Revoke, Take, historyVars
  <1>13. ASSUME NEW r \in Request, Commit(r)
        PROVE  TypeOK'
    <2>1. [req[r] EXCEPT !.pc = "respond"] \in RequestState
      BY <1>13 DEF RequestState, Ops, Pcs
    <2>2. Inserted(r) \subseteq Token /\ req[r].writes \subseteq Token
      BY DEF Inserted, RequestState
    <2>3. req[r].op \in {"refresh", "logout"} => req[r].arg \in issued
      BY DEF PresentedInv
    <2>4. IsReuse(r) => row[req[r].arg].family \in Token
      BY <2>3 DEF IsReuse, TableInv
    <2>5. (reuse \in SUBSET Token /\ clean \in SUBSET Token /\ loggedOut \in SUBSET Token)'
      BY <1>13, <2>3, <2>4 DEF Commit
    <2>6. (lock \in [Token -> Request \cup {None}])'
      BY <1>13 DEF Commit, Released
    <2>7. (issued \in SUBSET Token /\ revoked \in SUBSET Token /\ req \in [Request -> RequestState])'
      BY <1>13, <2>1, <2>2 DEF Commit
    <2>8. QED
      BY <1>13, <2>5, <2>6, <2>7 DEF Commit
  <1>14. ASSUME NEW r \in Request, Respond(r)
        PROVE  TypeOK'
    BY <1>14 DEF Respond, Inserted, tableVars, historyVars, RequestState
  <1>15. ASSUME NEW r \in Request, Rollback(r)
        PROVE  TypeOK'
    BY <1>15 DEF Rollback, Released, historyVars, Columns, NoRow
  <1>16. ASSUME NEW r \in Request, ResponseLost(r)
        PROVE  TypeOK'
    BY <1>16 DEF ResponseLost, tableVars, historyVars
  <1>17. ASSUME NEW t \in Token, Expire(t)
        PROVE  TypeOK'
    BY <1>17 DEF Expire, historyVars
  <1>18. QED
    BY <1>1, <1>2, <1>3, <1>4, <1>5, <1>6, <1>7, <1>8, <1>9, <1>10, <1>11, <1>12,
       <1>13, <1>14, <1>15, <1>16, <1>17 DEF Next, Arrive, Step

\* What one request can do.
RequestStep(r) == Arrive(r) \/ Step(r) \/ Rollback(r) \/ ResponseLost(r)

\* No step of a request reaches past its own transaction: it writes under its
\* own row locks, and frees no other locks.
LEMMA FrameStep == ASSUME IInv, NEW r \in Request, RequestStep(r) PROVE Frame(r)
  <1> USE DEF Frame
  <1> TypeOK /\ InsertedByOne /\ \A s \in Request : InsertInv(s) /\ WriteInv(s)
    BY DEF IInv, RequestInv
  <1> USE DEF TypeOK
  <1>1. ASSUME NEW u \in User, NEW t \in Token, Login(r, u, t) PROVE Frame(r)
    BY <1>1 DEF Login, historyVars, Unused, Inserting
  <1>2. ASSUME NEW u \in User, RevokeAllForUser(r, u) PROVE Frame(r)
    BY <1>2 DEF RevokeAllForUser, tableVars, historyVars
  <1>3. ASSUME NEW t \in Token, NEW n \in Tenant, RefreshStart(r, t, n) PROVE Frame(r)
    BY <1>3 DEF RefreshStart, tableVars, historyVars
  <1>4. ASSUME NEW t \in Token, NEW n \in Tenant, LogoutStart(r, t, n) PROVE Frame(r)
    BY <1>4 DEF LogoutStart, tableVars, historyVars
  <1>5. ASSUME NEW t \in Token, Rotate(r, t) PROVE Frame(r)
    BY <1>5 DEF Rotate, historyVars, Unused, Inserting
  <1>6. ASSUME NEW t \in Token, ScanRow(r, t) PROVE Frame(r)
    BY <1>6 DEF ScanRow, historyVars, CanTake, Take
  <1>7. CASE RefreshInvalid(r)
    BY <1>7 DEF RefreshInvalid, tableVars, historyVars
  <1>8. CASE FindbyHash(r)
    BY <1>8 DEF FindbyHash, historyVars, CanTake, Take, Found
  <1>9. CASE RevokeAllForFamily(r)
    BY <1>9 DEF RevokeAllForFamily, tableVars, historyVars
  <1>10. CASE ScanDone(r)
    BY <1>10 DEF ScanDone, tableVars, historyVars
  <1>11. CASE Revoke(r)
    BY <1>11 DEF Revoke, historyVars, CanTake, Take
  <1>12. CASE Commit(r)
    BY <1>12 DEF Commit, Released, Inserted, WriteInv
  <1>13. CASE Respond(r)
    BY <1>13 DEF Respond, tableVars, historyVars
  <1>14. CASE Rollback(r)
    <2>1. req[r].fresh \notin issued
      BY <1>14 DEF Rollback, InsertInv
    <2>2. \A s \in Request : s # r /\ Inserting(s) => req[s].fresh \in Token \ {req[r].fresh}
      BY DEF Inserting, InsertedByOne, RequestState
    <2>3. QED
      BY <1>14, <2>1, <2>2 DEF Rollback, historyVars, Released
  <1>15. CASE ResponseLost(r)
    BY <1>15 DEF ResponseLost, tableVars, historyVars
  <1>16. QED
    BY <1>1, <1>2, <1>3, <1>4, <1>5, <1>6, <1>7, <1>8, <1>9, <1>10, <1>11, <1>12,
       <1>13, <1>14, <1>15 DEF RequestStep, Arrive, Step

\* What holds of a request keeps holding while another request steps.
LEMMA OthersStep ==
    ASSUME IInv, NEW r \in Request, Frame(r), TypeOK', NEW s \in Request, s # r
    PROVE  RequestInv(s)'
  <1> TypeOK /\ InsertedByOne /\ RequestInv(s)
    BY DEF IInv
  <1> USE DEF TypeOK, RequestInv, Frame
  <1>1. req'[s] = req[s] /\ req[s] \in RequestState
    OBVIOUS
  <1>2. InsertInv(s)'
    BY <1>1 DEF InsertInv, InsertedByOne, Inserted, RequestState
  <1>3. WriteInv(s)'
    BY <1>1 DEF WriteInv, RequestState
  <1>4. PresentedInv(s)'
    BY <1>1 DEF PresentedInv
  <1>5. RotateInv(s)'
    BY <1>1 DEF RotateInv, Inserting, PresentedInv
  <1>6. PendingRowInv(s)'
    BY <1>1 DEF PendingRowInv, Inserting, PresentedInv
  <1>7. QED
    BY <1>2, <1>3, <1>4, <1>5, <1>6

\* Every step of a request keeps what holds of the request itself.
LEMMA OwnStep ==
    ASSUME IInv, NEW r \in Request, RequestStep(r), TypeOK'
    PROVE  RequestInv(r)'
  <1> TypeOK /\ TableInv /\ RequestInv(r) /\ req[r] \in RequestState
    BY DEF IInv, TypeOK
  <1> USE DEF TypeOK, RequestInv, InsertInv, WriteInv, PresentedInv, RotateInv,
              PendingRowInv, Inserting, Inserted
  <1>1. ASSUME NEW u \in User, NEW t \in Token, Login(r, u, t) PROVE RequestInv(r)'
    BY <1>1 DEF Login, historyVars, Unused, NoRequest
  <1>2. ASSUME NEW u \in User, RevokeAllForUser(r, u) PROVE RequestInv(r)'
    BY <1>2 DEF RevokeAllForUser, tableVars, historyVars, UserScope, Unrevoked, NoRequest
  <1>3. ASSUME NEW t \in Token, NEW n \in Tenant, RefreshStart(r, t, n) PROVE RequestInv(r)'
    BY <1>3 DEF RefreshStart, tableVars, historyVars, NoRequest, TableInv
  <1>4. ASSUME NEW t \in Token, NEW n \in Tenant, LogoutStart(r, t, n) PROVE RequestInv(r)'
    BY <1>4 DEF LogoutStart, tableVars, historyVars, NoRequest, Found
  <1>5. ASSUME NEW t \in Token, Rotate(r, t) PROVE RequestInv(r)'
    <2> DEFINE old == req[r].arg
    <2>1. /\ req'[r].pc = "commit" /\ req'[r].op = "refresh" /\ req'[r].arg = old
          /\ req'[r].writes = {old} /\ req'[r].fresh = t /\ req'[r].todo = req[r].todo
          /\ req'[r].tenant = req[r].tenant
          /\ t \notin issued /\ old \in issued \ revoked /\ lock[old] = r
          /\ UNCHANGED <<issued, revoked, lock>>
      BY <1>5 DEF Rotate, Unused, RequestState
    <2>2. row'[old] = row[old] /\ row'[t] = [row[old] EXCEPT !.parent = old]
      <3>1. row[old].tenant = req[r].tenant /\ row[old] \in Columns /\ row[t] \in Columns
        BY <1>5, <2>1 DEF Rotate
      <3>2. row'[t] = [user |-> row[old].user, tenant |-> row[old].tenant,
                       family |-> row[old].family, parent |-> old]
        BY <1>5, <3>1 DEF Rotate
      <3>3. QED
        BY <1>5, <2>1, <3>1, <3>2 DEF Rotate, Columns
    <2> HIDE DEF old
    <2>3. (InsertInv(r) /\ PresentedInv(r))'
      BY <2>1 DEF old
    <2>4. WriteInv(r)'
      BY <2>1 DEF old
    <2>5. (RotateInv(r) /\ PendingRowInv(r))'
      <3>1. row[old].tenant = req[r].tenant
        BY <1>5 DEF Rotate, old
      <3>2. QED
        BY <2>1, <2>2, <3>1
    <2>6. QED
      BY <2>3, <2>4, <2>5
  <1>6. ASSUME NEW t \in Token, ScanRow(r, t) PROVE RequestInv(r)'
    <2>1. /\ req'[r].writes \subseteq req[r].writes \cup {t}
          /\ req'[r].todo \subseteq req[r].todo
          /\ req'[r].pc = "scan" /\ req'[r].fresh = req[r].fresh
          /\ req'[r].op = req[r].op /\ req'[r].arg = req[r].arg
      BY <1>6 DEF ScanRow, RequestState
    <2>2. t \in issued /\ lock' = [lock EXCEPT ![t] = r] /\ issued' = issued
      BY <1>6 DEF ScanRow, Take
    <2>3. WriteInv(r)'
      BY <1>6, <2>1, <2>2 DEF ScanRow
    <2>4. QED
      BY <1>6, <2>1, <2>2, <2>3 DEF ScanRow
  <1>7. CASE RefreshInvalid(r)
    BY <1>7 DEF RefreshInvalid, tableVars, historyVars, NoRequest
  <1>8. CASE FindbyHash(r)
    BY <1>8 DEF FindbyHash, historyVars, CanTake, Take, Found, BranchOnRevoked, RequestState
  <1>9. CASE RevokeAllForFamily(r)
    BY <1>9 DEF RevokeAllForFamily, tableVars, historyVars, FamilyScope, Unrevoked, RequestState
  <1>10. CASE ScanDone(r)
    BY <1>10 DEF ScanDone, tableVars, historyVars, RequestState
  <1>11. CASE Revoke(r)
    BY <1>11 DEF Revoke, historyVars, CanTake, Take, RequestState
  <1>12. CASE Commit(r)
    BY <1>12 DEF Commit, Released, Inserted, RequestState
  <1>13. CASE Respond(r)
    BY <1>13 DEF Respond, tableVars, historyVars, NoRequest
  <1>14. CASE Rollback(r)
    BY <1>14 DEF Rollback, historyVars, NoRequest
  <1>15. CASE ResponseLost(r)
    BY <1>15 DEF ResponseLost, tableVars, historyVars, NoRequest
  <1>16. QED
    BY <1>1, <1>2, <1>3, <1>4, <1>5, <1>6, <1>7, <1>8, <1>9, <1>10, <1>11, <1>12,
       <1>13, <1>14, <1>15 DEF RequestStep, Arrive, Step

\* The identifier of an INSERT is one that nobody uses.
LEMMA InsertedByOneStep ==
    ASSUME IInv, NEW r \in Request, RequestStep(r), TypeOK'
    PROVE  InsertedByOne'
  <1> TypeOK /\ InsertedByOne /\ Frame(r) /\ req[r] \in RequestState
    BY FrameStep DEF IInv, TypeOK
  <1>1. req'[r].fresh \in {None, req[r].fresh} \/ Unused(req'[r].fresh)
    <2> USE DEF TypeOK
    <2>1. CASE Arrive(r)
      <3>1. ASSUME NEW u \in User, RevokeAllForUser(r, u) PROVE req'[r].fresh = None
        BY <3>1 DEF RevokeAllForUser, NoRequest
      <3>2. ASSUME NEW u \in User, NEW t \in Token, Login(r, u, t)
            PROVE  req'[r].fresh = t /\ Unused(t)
        BY <3>2 DEF Login, NoRequest
      <3>3. ASSUME NEW t \in Token, NEW n \in Tenant, RefreshStart(r, t, n)
            PROVE  req'[r].fresh = None
        BY <3>3 DEF RefreshStart, NoRequest
      <3>4. ASSUME NEW t \in Token, NEW n \in Tenant, LogoutStart(r, t, n)
            PROVE  req'[r].fresh = None
        BY <3>4 DEF LogoutStart, NoRequest
      <3>5. QED
        BY <2>1, <3>1, <3>2, <3>3, <3>4 DEF Arrive
    <2>2. CASE RefreshInvalid(r) \/ Respond(r) \/ Rollback(r) \/ ResponseLost(r)
      BY <2>2 DEF RefreshInvalid, Respond, Rollback, ResponseLost, NoRequest
    <2>3. CASE FindbyHash(r) \/ ScanDone(r) \/ Revoke(r) \/ Commit(r)
      BY <2>3 DEF FindbyHash, ScanDone, Revoke, Commit, RequestState
    <2>6. CASE RevokeAllForFamily(r)
      BY <2>6 DEF RevokeAllForFamily, RequestState
    <2>4. CASE \E t \in Token : ScanRow(r, t)
      BY <2>4 DEF ScanRow
    <2>5. CASE \E t \in Token : Rotate(r, t)
      BY <2>5 DEF Rotate
    <2>7. QED
      BY <2>1, <2>2, <2>3, <2>4, <2>5, <2>6 DEF RequestStep, Step
  <1>2. QED
    BY <1>1 DEF InsertedByOne, Frame, Unused

\* Only a commit changes which rows exist and which are revoked.
LEMMA TableUnchanged ==
    ASSUME IInv, NEW r \in Request, RequestStep(r), ~Commit(r)
    PROVE  /\ issued' = issued /\ revoked' = revoked /\ expired' = expired
           /\ held' \subseteq issued
           /\ historyVars' = historyVars
  <1> TableInv /\ \A s \in Request : InsertInv(s)
    BY DEF IInv, RequestInv
  <1> USE DEF tableVars, historyVars, TableInv
  <1>1. CASE Arrive(r)
    BY <1>1 DEF Arrive, Login, RevokeAllForUser, RefreshStart, LogoutStart
  <1>2. CASE Respond(r)
    BY <1>2 DEF Respond, InsertInv
  <1>3. CASE Step(r) /\ ~Respond(r)
    BY <1>3 DEF Step, Rotate, ScanRow, RefreshInvalid, FindbyHash, RevokeAllForFamily,
                ScanDone, Revoke
  <1>4. CASE Rollback(r) \/ ResponseLost(r)
    BY <1>4 DEF Rollback, ResponseLost
  <1>5. QED
    BY <1>1, <1>2, <1>3, <1>4 DEF RequestStep

\* The table, in the words of the properties.
TableSafe == TableInv /\ OneLivePerFamily /\ ExchangedOnce /\ Lineage

LEMMA TableSafeStep ==
    ASSUME IInv, NEW r \in Request, RequestStep(r), TypeOK', ~Commit(r)
    PROVE  TableSafe'
  <1> TypeOK /\ TableSafe /\ Frame(r)
    BY FrameStep DEF IInv, TableSafe
  <1>1. /\ issued' = issued /\ revoked' = revoked /\ expired' = expired
        /\ held' \subseteq issued /\ \A t \in issued : row'[t] = row[t]
    BY TableUnchanged DEF Frame
  <1> USE DEF TableSafe
  <1>2. TableInv'
    BY <1>1 DEF TableInv
  <1>3. OneLivePerFamily'
    BY <1>1 DEF OneLivePerFamily, Live, SameFamily
  <1>4. ExchangedOnce'
    BY <1>1 DEF ExchangedOnce
  <1>5. Lineage'
    <2> SUFFICES ASSUME NEW t \in issued
                 PROVE  /\ row[t].tenant = TenantOf[row[t].user]
                        /\ row[t].parent # None =>
                              /\ row[t].parent \in revoked
                              /\ row[t] = [row'[row[t].parent] EXCEPT !.parent = row[t].parent]
      BY <1>1 DEF Lineage
    <2> row[t].parent # None => row'[row[t].parent] = row[row[t].parent]
      BY <1>1 DEF Lineage, TableInv
    <2> QED
      BY DEF Lineage
  <1>6. QED
    BY <1>2, <1>3, <1>4, <1>5

\* A commit of revocations only.
LEMMA CommitRevocations ==
    ASSUME IInv, NEW r \in Request, Commit(r), req[r].fresh = None
    PROVE  TableSafe'
  <1> TypeOK /\ TableSafe /\ WriteInv(r)
    BY DEF IInv, TableSafe, RequestInv
  <1>1. /\ issued' = issued /\ revoked' = revoked \cup req[r].writes
        /\ UNCHANGED <<expired, row, held>>
    BY DEF Commit, Inserted
  <1> USE DEF TableSafe
  <1>2. TableInv'
    BY <1>1 DEF TableInv, WriteInv
  <1>3. OneLivePerFamily'
    BY <1>1 DEF OneLivePerFamily, Live, SameFamily
  <1>4. ExchangedOnce'
    BY <1>1 DEF ExchangedOnce
  <1>5. Lineage'
    BY <1>1 DEF Lineage
  <1>6. QED
    BY <1>2, <1>3, <1>4, <1>5

\* The commit of a Login: a family of its own.
LEMMA CommitLogin ==
    ASSUME IInv, NEW r \in Request, Commit(r), req[r].fresh # None, req[r].op = "login"
    PROVE  TableSafe'
  <1> DEFINE new == req[r].fresh
  <1> TypeOK /\ TableSafe /\ RequestInv(r)
    BY DEF IInv, TableSafe
  <1>1. /\ issued' = issued \cup {new} /\ revoked' = revoked
        /\ UNCHANGED <<expired, row, held>>
    BY DEF Commit, Inserted, RequestInv, PendingRowInv, Inserting
  <1>2. /\ row[new].user \in User /\ row[new].tenant = TenantOf[row[new].user]
        /\ row[new].family = new /\ row[new].parent = None
        /\ new \in Token /\ new \notin issued
    BY DEF Commit, RequestInv, PendingRowInv, Inserting, InsertInv, TypeOK, RequestState
  <1> HIDE DEF new
  <1> USE DEF TableSafe
  <1>3. TableInv'
    BY <1>1, <1>2 DEF TableInv
  <1>4. OneLivePerFamily'
    BY <1>1, <1>2 DEF OneLivePerFamily, Live, SameFamily, TableInv
  <1>5. ExchangedOnce'
    BY <1>1, <1>2 DEF ExchangedOnce
  <1>6. Lineage'
    BY <1>1, <1>2 DEF Lineage
  <1>7. QED
    BY <1>3, <1>4, <1>5, <1>6

\* The commit of a rotation: the presented token, live until now, is replaced
\* by its successor.
LEMMA CommitRotation ==
    ASSUME IInv, NEW r \in Request, Commit(r), req[r].fresh # None, req[r].op # "login"
    PROVE  TableSafe'
  <1> DEFINE new == req[r].fresh
             old == req[r].arg
  <1> TypeOK /\ TableSafe /\ RequestInv(r)
    BY DEF IInv, TableSafe
  <1>1. /\ issued' = issued \cup {new} /\ revoked' = revoked \cup {old}
        /\ UNCHANGED <<expired, row, held>>
    BY DEF Commit, Inserted, RequestInv, PendingRowInv, Inserting
  <1>2. /\ old \in issued \ revoked /\ old \in Token /\ old # None
        /\ new \in Token /\ new \notin issued
    BY DEF Commit, RequestInv, PendingRowInv, Inserting, InsertInv, RotateInv,
           PresentedInv, TypeOK, RequestState
  <1>r. row[new] = [row[old] EXCEPT !.parent = old]
    BY DEF Commit, RequestInv, PendingRowInv, Inserting
  <1>3. /\ row[new].user = row[old].user /\ row[new].tenant = row[old].tenant
        /\ row[new].family = row[old].family /\ row[new].parent = old
    BY <1>2, <1>r DEF TypeOK, Columns
  <1> HIDE DEF new, old
  <1> USE DEF TableSafe
  <1>4. TableInv'
    BY <1>1, <1>2, <1>3 DEF TableInv
  <1>5. OneLivePerFamily'
    BY <1>1, <1>2, <1>3 DEF OneLivePerFamily, Live, SameFamily, TableInv, TypeOK
  <1>6. ExchangedOnce'
    <2>1. \A t \in issued : row[t].parent # old
      BY <1>2 DEF Lineage
    <2>2. QED
      BY <1>1, <1>2, <1>3, <2>1 DEF ExchangedOnce
  <1>7. Lineage'
    <2>1. row[new].tenant = TenantOf[row[new].user]
      BY <1>2, <1>3 DEF Lineage
    <2> SUFFICES ASSUME NEW t \in issued'
                 PROVE  /\ row[t].tenant = TenantOf[row[t].user]
                        /\ row[t].parent # None =>
                              /\ row[t].parent \in revoked'
                              /\ row[t] = [row[row[t].parent] EXCEPT !.parent = row[t].parent]
      BY <1>1 DEF Lineage
    <2>2. CASE t \in issued
      BY <1>1, <2>2 DEF Lineage
    <2>3. CASE t = new
      BY <1>1, <1>2, <1>3, <1>r, <2>1, <2>3
    <2>4. QED
      BY <1>1, <2>2, <2>3
  <1>8. QED
    BY <1>4, <1>5, <1>6, <1>7

LEMMA InitIInv == Init => IInv
  <1> SUFFICES ASSUME Init PROVE IInv
    OBVIOUS
  <1> USE DEF Init
  <1>1. TypeOK
    BY NoRequestType DEF TypeOK, Columns, NoRow
  <1>2. TableInv /\ OneLivePerFamily /\ ExchangedOnce /\ Lineage
    BY DEF TableInv, OneLivePerFamily, ExchangedOnce, Lineage, Live
  <1>3. InsertedByOne /\ \A r \in Request : RequestInv(r)
    BY DEF InsertedByOne, RequestInv, InsertInv, WriteInv, PresentedInv, RotateInv,
           PendingRowInv, Inserting, Inserted, NoRequest
  <1>4. QED
    BY <1>1, <1>2, <1>3 DEF IInv

\* IInv is inductive.
LEMMA NextIInv == IInv /\ [Next]_vars => IInv'
  <1> SUFFICES ASSUME IInv, [Next]_vars PROVE IInv'
    OBVIOUS
  <1>1. TypeOK'
    BY TypeStep
  <1>2. CASE UNCHANGED vars
    BY <1>2 DEF vars, tableVars, historyVars, IInv, TypeOK, TableInv, InsertedByOne,
                RequestInv, InsertInv, WriteInv, PresentedInv, RotateInv, PendingRowInv,
                Inserting, Inserted, OneLivePerFamily, ExchangedOnce, Lineage, Live, SameFamily
  <1>3. ASSUME NEW t \in Token, Expire(t) PROVE IInv'
    BY <1>1, <1>3 DEF Expire, historyVars, IInv, TableInv, InsertedByOne,
                RequestInv, InsertInv, WriteInv, PresentedInv, RotateInv, PendingRowInv,
                Inserting, Inserted, OneLivePerFamily, ExchangedOnce, Lineage, Live, SameFamily
  <1>4. ASSUME NEW r \in Request, RequestStep(r) PROVE IInv'
    <2>1. TableSafe'
      BY <1>1, <1>4, TableSafeStep, CommitRevocations, CommitLogin, CommitRotation
    <2>2. InsertedByOne'
      BY <1>1, <1>4, InsertedByOneStep
    <2>3. ASSUME NEW s \in Request PROVE RequestInv(s)'
      BY <1>1, <1>4, FrameStep, OthersStep, OwnStep
    <2>4. QED
      BY <1>1, <2>1, <2>2, <2>3 DEF IInv, TableSafe
  <1>5. QED
    BY <1>2, <1>3, <1>4 DEF Next, RequestStep

\* The inductive invariant holds in every reachable state.
THEOREM Invariance == Spec => []IInv
  BY InitIInv, NextIInv, PTL DEF Spec

\* However many requests overlap, every variable keeps its type.
THEOREM TypeCorrect == Spec => []TypeOK
  <1>1. IInv => TypeOK
    BY DEF IInv
  <1>2. QED
    BY <1>1, Invariance, PTL

\* However many refreshes, logouts and revocations overlap, a session never has
\* two usable refresh tokens.
THEOREM OneLiveToken == Spec => []OneLivePerFamily
  <1>1. IInv => OneLivePerFamily
    BY DEF IInv
  <1>2. QED
    BY <1>1, Invariance, PTL

\* However many Refresh calls present one token, at most one successor of it is
\* ever committed.
THEOREM SingleExchange == Spec => []ExchangedOnce
  <1>1. IInv => ExchangedOnce
    BY DEF IInv
  <1>2. QED
    BY <1>1, Invariance, PTL

\* A successor stays in the user, tenant and family of the token that it
\* replaced, and that token stays revoked.
THEOREM LineageHolds == Spec => []Lineage
  <1>1. IInv => Lineage
    BY DEF IInv
  <1>2. QED
    BY <1>1, Invariance, PTL

----------------------------------------------------------------------------
(* The refinement: only commits are visible, and each is one step of       *)
(* Sessions.                                                               *)

LEMMA CommitIsClose ==
    ASSUME IInv, NEW r \in Request, Commit(r), req[r].fresh = None
    PROVE  Promise!Next
  <1>1. issued' = issued /\ row' = row /\ revoked' = revoked \cup req[r].writes
    BY DEF Commit, Inserted
  <1>2. Promise!Close((issued \ revoked) \cap req[r].writes)
    BY <1>1 DEF Promise!Close, SessionOf
  <1>3. QED
    BY <1>2 DEF Promise!Next

LEMMA CommitIsOpen ==
    ASSUME IInv, NEW r \in Request, Commit(r), req[r].fresh # None, req[r].op = "login"
    PROVE  Promise!Next
  <1> DEFINE new == req[r].fresh
  <1> TypeOK /\ TableInv /\ RequestInv(r)
    BY DEF IInv
  <1>1. /\ issued' = issued \cup {new} /\ revoked' = revoked /\ row' = row
        /\ row[new].family = new /\ new \in Token /\ new \notin issued
    BY DEF Commit, Inserted, RequestInv, PendingRowInv, Inserting, InsertInv, TypeOK,
           RequestState
  <1>2. Promise!Open(new)
    BY <1>1 DEF Promise!Open, SessionOf, TableInv
  <1>3. QED
    BY <1>1, <1>2 DEF Promise!Next

LEMMA CommitIsExchange ==
    ASSUME IInv, NEW r \in Request, Commit(r), req[r].fresh # None, req[r].op # "login"
    PROVE  Promise!Next
  <1> DEFINE new == req[r].fresh
             old == req[r].arg
  <1> TypeOK /\ TableInv /\ RequestInv(r)
    BY DEF IInv
  <1>1. /\ issued' = issued \cup {new} /\ revoked' = revoked \cup {old} /\ row' = row
        /\ old \in issued \ revoked /\ old \in Token
        /\ new \in Token /\ new \notin issued
    BY DEF Commit, Inserted, RequestInv, PendingRowInv, Inserting, InsertInv, RotateInv,
           PresentedInv, TypeOK, RequestState
  <1>2. row[new].family = row[old].family
    BY <1>1 DEF Commit, RequestInv, PendingRowInv, Inserting, TypeOK, Columns
  <1> HIDE DEF new, old
  <1>3. Promise!Exchange(old, new)
    <2>1. SessionOf[new] = None /\ SessionOf[old] = row[old].family
      BY <1>1 DEF SessionOf
    <2>2. SessionOf' = [SessionOf EXCEPT ![new] = row[old].family]
      BY <1>1, <1>2 DEF SessionOf
    <2>3. (issued \ revoked)' = ((issued \ revoked) \ {old}) \cup {new}
      BY <1>1 DEF TableInv
    <2>4. QED
      BY <1>1, <2>1, <2>2, <2>3 DEF Promise!Exchange
  <1>4. QED
    BY <1>1, <1>3 DEF Promise!Next

\* The store implements Sessions for any number of tokens and requests: every
\* commit opens a session, exchanges one valid token or closes some, and no
\* other statement, rollback or response is visible.
THEOREM Refinement == Spec => ImplementsSessions
  <1>1. Init => Promise!Init
    BY DEF Init, Promise!Init, SessionOf
  <1>2. IInv /\ [Next]_vars => [Promise!Next]_(Promise!vars)
    <2> SUFFICES ASSUME IInv, [Next]_vars
                 PROVE  Promise!Next \/ UNCHANGED <<SessionOf, issued \ revoked>>
      BY DEF Promise!vars
    <2>1. CASE UNCHANGED vars
      BY <2>1 DEF vars, tableVars, SessionOf
    <2>2. ASSUME NEW t \in Token, Expire(t) PROVE UNCHANGED <<SessionOf, issued \ revoked>>
      BY <2>2 DEF Expire, SessionOf
    <2>3. ASSUME NEW r \in Request, RequestStep(r), ~Commit(r)
          PROVE  UNCHANGED <<SessionOf, issued \ revoked>>
      BY <2>3, TableUnchanged, FrameStep DEF Frame, SessionOf
    <2>4. ASSUME NEW r \in Request, Commit(r) PROVE Promise!Next
      BY <2>4, CommitIsClose, CommitIsOpen, CommitIsExchange
    <2>5. QED
      BY <2>1, <2>2, <2>3, <2>4 DEF Next, RequestStep
  <1>3. QED
    BY <1>1, <1>2, Invariance, PTL DEF Spec, ImplementsSessions, Promise!Spec

\* No commit gives a live token to a session that has none: a rotation replaces a
\* token that is still live, and a login starts a family of its own.
THEOREM EndedForGood == Spec => EndedStaysEnded
  <1>1. IInv /\ [Next]_vars => [\A t \in issued : Ended(t) => Ended(t)']_vars
    <2> SUFFICES ASSUME IInv, [Next]_vars, NEW t \in issued, Ended(t), NEW u \in issued',
                        SameFamily(t, u)', Live(u)'
                 PROVE  FALSE
      BY DEF Ended
    <2>1. CASE UNCHANGED <<issued, revoked>> /\ \A x \in issued : row'[x] = row[x]
      BY <2>1 DEF Ended, SameFamily, Live
    <2>2. CASE UNCHANGED vars \/ \E x \in Token : Expire(x)
      <3>1. UNCHANGED <<issued, revoked, row>>
        BY <2>2 DEF vars, tableVars, Expire
      <3> QED
        BY <2>1, <3>1
    <2>3. ASSUME NEW r \in Request, RequestStep(r), ~Commit(r) PROVE FALSE
      BY <2>1, <2>3, TableUnchanged, FrameStep DEF Frame
    <2>4. ASSUME NEW r \in Request, Commit(r) PROVE FALSE
      <3>1. /\ issued' = issued \cup Inserted(r) /\ revoked \subseteq revoked' /\ row' = row
            /\ TypeOK /\ TableInv /\ RequestInv(r) /\ req[r].pc = "commit"
        BY <2>4 DEF Commit, IInv
      <3>2. u \notin issued
        BY <3>1 DEF Ended, SameFamily, Live
      <3>3. u = req[r].fresh /\ u # None /\ Inserting(r)
        BY <3>1, <3>2 DEF Inserted, Inserting
      <3>4. CASE req[r].op = "login"
        <4>1. row[u].family = u
          BY <3>1, <3>3, <3>4 DEF RequestInv, PendingRowInv
        <4>2. row[t].family \in issued
          BY <3>1 DEF TableInv
        <4> QED
          BY <3>1, <3>2, <4>1, <4>2 DEF SameFamily
      <3>5. CASE req[r].op # "login"
        <4> DEFINE old == req[r].arg
        <4>1. old \in issued \ revoked /\ row[u] = [row[old] EXCEPT !.parent = old]
          BY <3>1, <3>3, <3>5 DEF RequestInv, PendingRowInv, RotateInv, PresentedInv
        <4>2. row[u].family = row[old].family
          BY <3>1, <4>1 DEF TypeOK, Columns
        <4> QED
          BY <3>1, <4>1, <4>2 DEF Ended, SameFamily, Live
      <3> QED
        BY <3>4, <3>5
    <2> QED
      BY <2>2, <2>3, <2>4 DEF Next, RequestStep
  <1> QED
    BY <1>1, Invariance, PTL DEF Spec, EndedStaysEnded

----------------------------------------------------------------------------
(* Logout and reuse detection end a session.  A family whose last token    *)
(* was revoked without a successor has none that is live, and will have    *)
(* none; a bulk revocation either visits the live token of the family or   *)
(* meets, revoked, the one that it has replaced.                           *)

\* A family is of one tenant.
FamilyTenant == \A t \in issued : row[row[t].family].tenant = row[t].tenant

HasSuccessor(t) == \E u \in issued : row[u].parent = t

\* The family of a token that was revoked and not replaced is dead.
DeadEnds ==
    \A t \in revoked : HasSuccessor(t) \/ \A u \in issued : SameFamily(t, u) => u \in revoked

\* A Refresh that has detected reuse and is revoking the family.
Burning(r) == req[r].pc \in {"scan", "commit"} /\ IsReuse(r)

EndInv(r) ==
    /\ req[r].op = "logout" /\ req[r].pc = "commit" => req[r].writes = {req[r].arg}
    /\ req[r].pc # "scan" => req[r].todo = {}
    /\ req[r].pc = "scan" => req[r].op # "logout"
    /\ req[r].pc = "reuse" \/ Burning(r) => row[req[r].arg].tenant = req[r].tenant
    /\ Burning(r) /\ req[r].skipped = {} =>
          \/ req[r].todo \cap revoked # {}
          \/ \A u \in issued \ revoked :
                SameFamily(req[r].arg, u) => u \in req[r].todo \cup req[r].writes

EndTable ==
    /\ FamilyTenant /\ DeadEnds
    /\ clean \subseteq issued /\ CleanReuseEndsSession
    /\ loggedOut \subseteq revoked

JInv == EndTable /\ \A r \in Request : EndInv(r)

\* A step that commits nothing leaves the table as it is.
LEMMA EndTableSame ==
    ASSUME IInv, JInv, NEW r \in Request, RequestStep(r), ~Commit(r)
    PROVE  EndTable'
  <1>1. /\ issued' = issued /\ revoked' = revoked /\ \A t \in issued : row'[t] = row[t]
        /\ loggedOut' = loggedOut /\ clean' = clean
    BY TableUnchanged, FrameStep DEF Frame, historyVars
  <1>2. \A t \in issued : row[t].family \in issued
    BY DEF IInv, TableInv
  <1>3. revoked \subseteq issued
    BY DEF IInv, TableInv
  <1> QED
    BY <1>1, <1>2, <1>3
    DEF JInv, EndTable, FamilyTenant, DeadEnds, HasSuccessor, SameFamily, CleanReuseEndsSession

\* A commit of revocations: what was live was alone in its family.
LEMMA EndRevocations ==
    ASSUME IInv, JInv, NEW r \in Request, Commit(r), req[r].fresh = None
    PROVE  EndTable'
  <1>1. /\ issued' = issued /\ revoked' = revoked \cup req[r].writes /\ row' = row
        /\ req[r].pc = "commit" /\ req[r].writes \subseteq issued
        /\ issued \subseteq Token
    BY DEF Commit, Inserted, IInv, RequestInv, WriteInv, TypeOK
  <1>2. FamilyTenant'
    BY <1>1 DEF JInv, EndTable, FamilyTenant
  <1>3. DeadEnds'
    <2> SUFFICES ASSUME NEW t \in revoked', ~HasSuccessor(t), NEW u \in issued, SameFamily(t, u)
                 PROVE  u \in revoked'
      BY <1>1 DEF DeadEnds, HasSuccessor, SameFamily
    <2>1. CASE t \in revoked
      BY <1>1, <2>1 DEF JInv, EndTable, DeadEnds
    <2>2. CASE t \notin revoked
      BY <1>1, <2>2 DEF IInv, OneLivePerFamily, Live
    <2> QED
      BY <2>1, <2>2
  <1>4. (loggedOut \subseteq revoked)'
    BY <1>1 DEF Commit, JInv, EndTable, EndInv
  <1>5. CleanReuseEndsSession'
    <2> SUFFICES ASSUME NEW u \in issued, row[u].family \in clean' PROVE u \in revoked'
      BY <1>1 DEF CleanReuseEndsSession
    <2>1. CASE row[u].family \in clean
      BY <1>1, <2>1 DEF JInv, EndTable, CleanReuseEndsSession
    <2>2. CASE row[u].family \notin clean
      <3>1. Burning(r) /\ req[r].skipped = {} /\ row[u].family = row[req[r].arg].family
        BY <1>1, <2>2 DEF Commit, Burning
      <3>2. req[r].todo = {}
        BY <1>1 DEF JInv, EndInv
      <3> QED
        BY <1>1, <3>1, <3>2 DEF JInv, EndInv, SameFamily
    <2> QED
      BY <2>1, <2>2
  <1>6. (clean \subseteq issued)'
    BY <1>1 DEF Commit, IsReuse, JInv, EndTable, IInv, TableInv, RequestInv, PresentedInv
  <1> QED
    BY <1>2, <1>3, <1>4, <1>5, <1>6 DEF EndTable

\* A commit of a new token: of a new family, or in place of the live one.
LEMMA EndInsertion ==
    ASSUME IInv, JInv, NEW r \in Request, Commit(r), req[r].fresh # None
    PROVE  EndTable'
  <1> DEFINE new == req[r].fresh
             old == req[r].arg
  <1>1. /\ req[r].pc = "commit" /\ Inserting(r) /\ issued' = issued \cup {new} /\ row' = row
        /\ revoked' = revoked \cup req[r].writes /\ clean' = clean
    BY DEF Commit, Inserted, Inserting, IsReuse
  <1>2. /\ new \in Token /\ new \notin issued /\ issued \subseteq Token
        /\ revoked \subseteq issued /\ \A t \in issued : row[t].family \in issued
    BY <1>1 DEF IInv, RequestInv, InsertInv, TypeOK, TableInv, RequestState
  <1>3. (loggedOut \subseteq revoked)'
    BY <1>1 DEF Commit, JInv, EndTable, EndInv
  <1>4. CASE req[r].op = "login"
    <2>1. revoked' = revoked /\ row[new].family = new
      BY <1>1, <1>4 DEF IInv, RequestInv, PendingRowInv
    <2>2. new \notin clean
      BY <1>2 DEF JInv, EndTable
    <2> HIDE DEF new
    <2>3. FamilyTenant'
      BY <1>1, <1>2, <2>1 DEF JInv, EndTable, FamilyTenant
    <2>4. DeadEnds'
      BY <1>1, <1>2, <2>1 DEF JInv, EndTable, DeadEnds, HasSuccessor, SameFamily
    <2>5. CleanReuseEndsSession'
      BY <1>1, <1>2, <2>1, <2>2 DEF JInv, EndTable, CleanReuseEndsSession
    <2> QED
      BY <1>1, <1>3, <2>3, <2>4, <2>5 DEF JInv, EndTable
  <1>5. CASE req[r].op # "login"
    <2>1. /\ revoked' = revoked \cup {old} /\ old \in issued \ revoked
          /\ row[new] = [row[old] EXCEPT !.parent = old]
      BY <1>1, <1>5 DEF IInv, RequestInv, PendingRowInv, RotateInv, PresentedInv
    <2>2. /\ row[new].tenant = row[old].tenant /\ row[new].family = row[old].family
          /\ row[new].parent = old
      BY <1>2, <2>1 DEF IInv, TypeOK, Columns
    <2> HIDE DEF new, old
    <2>3. FamilyTenant'
      <3>1. row[row[new].family].tenant = row[new].tenant
        BY <2>1, <2>2 DEF JInv, EndTable, FamilyTenant
      <3> QED
        BY <1>1, <3>1 DEF JInv, EndTable, FamilyTenant
    <2>4. DeadEnds'
      <3> SUFFICES ASSUME NEW t \in revoked', ~HasSuccessor(t)', NEW u \in issued', SameFamily(t, u)'
                   PROVE  u \in revoked'
        BY DEF DeadEnds
      <3>1. t \in revoked /\ ~HasSuccessor(t)
        BY <1>1, <2>1, <2>2 DEF HasSuccessor
      <3>2. \A v \in issued : SameFamily(t, v) => v \in revoked
        BY <3>1 DEF JInv, EndTable, DeadEnds
      <3>3. u # new
        BY <1>1, <2>1, <2>2, <3>2 DEF SameFamily
      <3> QED
        BY <1>1, <3>2, <3>3 DEF SameFamily
    <2>5. CleanReuseEndsSession'
      BY <1>1, <1>2, <2>1, <2>2 DEF JInv, EndTable, CleanReuseEndsSession
    <2> QED
      BY <1>1, <1>3, <2>3, <2>4, <2>5 DEF JInv, EndTable
  <1> QED
    BY <1>4, <1>5

\* What holds of a request is not disturbed by another one.
LEMMA EndOthers ==
    ASSUME IInv, JInv, NEW r \in Request, RequestStep(r), NEW s \in Request, s # r
    PROVE  EndInv(s)'
  <1>1. Frame(r) /\ req'[s] = req[s]
    BY FrameStep DEF Frame
  <1>2. req[s].op \in {"refresh", "logout"} => req[s].arg \in issued /\ row'[req[s].arg] = row[req[s].arg]
    BY <1>1 DEF Frame, IInv, RequestInv, PresentedInv
  <1>3. req[s].pc = "reuse" => req[s].op = "refresh"
    BY DEF IInv, RequestInv, PresentedInv
  <1>4. ASSUME Burning(s), req[s].skipped = {}
        PROVE  \/ req[s].todo \cap revoked' # {}
               \/ \A u \in issued' \ revoked' :
                     row'[req[s].arg].family = row'[u].family => u \in req[s].todo \cup req[s].writes
    <2>1. \/ req[s].todo \cap revoked # {}
          \/ \A u \in issued \ revoked :
                SameFamily(req[s].arg, u) => u \in req[s].todo \cup req[s].writes
      BY <1>4 DEF JInv, EndInv
    <2>2. CASE req[s].todo \cap revoked # {}
      BY <1>1, <2>2 DEF Frame
    <2>3. CASE ~Commit(r) /\ req[s].todo \cap revoked = {}
      <3>1. issued' = issued /\ revoked' = revoked
        BY <2>3, TableUnchanged
      <3> QED
        BY <1>1, <1>2, <1>4, <2>1, <2>3, <3>1 DEF Frame, SameFamily, Burning, IsReuse
    <2>4. CASE Commit(r) /\ req[s].todo \cap revoked = {}
      <3>1. issued' = issued \cup Inserted(r) /\ revoked' = revoked \cup req[r].writes /\ row' = row
            /\ req[r].pc = "commit"
        BY <2>4 DEF Commit
      <3>2. CASE req[r].fresh = None
        BY <2>1, <2>4, <3>1, <3>2 DEF Inserted, SameFamily
      <3>3. CASE req[r].fresh # None /\ req[r].op = "login"
        <4>1. row[req[r].fresh].family = req[r].fresh /\ req[r].fresh \notin issued
          BY <3>1, <3>3 DEF IInv, RequestInv, PendingRowInv, Inserting, InsertInv
        <4>3. issued' = issued \cup {req[r].fresh}
          BY <3>1, <3>3 DEF Inserted
        <4>2. row[req[s].arg].family \in issued
          BY <1>2, <1>4 DEF Burning, IsReuse, IInv, TableInv
        <4> QED
          BY <2>1, <2>4, <3>1, <4>1, <4>2, <4>3 DEF SameFamily
      <3>4. CASE req[r].fresh # None /\ req[r].op # "login"
        <4> DEFINE new == req[r].fresh
                   old == req[r].arg
        <4>1. /\ req[r].writes = {old} /\ old \in issued \ revoked /\ lock[old] = r /\ old \in Token
              /\ row[new] = [row[old] EXCEPT !.parent = old]
          BY <3>1, <3>4 DEF IInv, RequestInv, PendingRowInv, Inserting, RotateInv, PresentedInv, TypeOK
        <4>2. row[new].family = row[old].family
          BY <4>1 DEF IInv, TypeOK, Columns
        <4>3. old \notin req[s].writes
          BY <1>4, <4>1 DEF Burning, IInv, RequestInv, WriteInv
        <4>4. CASE SameFamily(req[s].arg, old)
          BY <2>1, <2>4, <3>1, <4>1, <4>3, <4>4
        <4>5. CASE ~SameFamily(req[s].arg, old)
          BY <2>1, <2>4, <3>1, <4>2, <4>5 DEF Inserted, SameFamily
        <4> QED
          BY <4>4, <4>5
      <3> QED
        BY <3>2, <3>3, <3>4
    <2> QED
      BY <2>1, <2>2, <2>3, <2>4
  <1> QED
    BY <1>1, <1>2, <1>3, <1>4 DEF JInv, EndInv, Burning, IsReuse, SameFamily

LEMMA EndOwn ==
    ASSUME IInv, JInv, NEW r \in Request, RequestStep(r)
    PROVE  EndInv(r)'
  <1> TypeOK /\ EndInv(r) /\ PresentedInv(r)
    BY DEF IInv, JInv, RequestInv
  <1> USE DEF TypeOK, EndInv, Burning, IsReuse, NoRequest, RequestState, historyVars, tableVars
  <1>1. CASE Arrive(r)
    <2>1. \/ /\ req'[r].op \in {"login", "revokeAll"} /\ req'[r].pc \in {"commit", "scan"}
             /\ req'[r].pc = "commit" => req'[r].todo = {}
          \/ req'[r].pc \in {"find", "logout"} /\ req'[r].todo = {}
      <3>1. ASSUME NEW u \in User, NEW t \in Token, Login(r, u, t)
            PROVE  req'[r].op = "login" /\ req'[r].pc = "commit" /\ req'[r].todo = {}
        BY <3>1 DEF Login
      <3>2. ASSUME NEW u \in User, RevokeAllForUser(r, u)
            PROVE  req'[r].op = "revokeAll" /\ req'[r].pc = "scan"
        BY <3>2 DEF RevokeAllForUser
      <3>3. ASSUME NEW t \in Token, NEW n \in Tenant, RefreshStart(r, t, n)
            PROVE  req'[r].pc = "find" /\ req'[r].todo = {}
        BY <3>3 DEF RefreshStart
      <3>4. ASSUME NEW t \in Token, NEW n \in Tenant, LogoutStart(r, t, n)
            PROVE  req'[r].pc = "logout" /\ req'[r].todo = {}
        BY <3>4 DEF LogoutStart
      <3> QED
        BY <1>1, <3>1, <3>2, <3>3, <3>4 DEF Arrive
    <2> QED
      BY <2>1
  <1>2. CASE RefreshInvalid(r) \/ Rollback(r) \/ ResponseLost(r) \/ Respond(r) \/ Commit(r)
    BY <1>2 DEF RefreshInvalid, Rollback, ResponseLost, Respond, Commit
  <1>3. ASSUME NEW t \in Token, Rotate(r, t) PROVE EndInv(r)'
    <2>1. /\ req'[r].op = "refresh" /\ req'[r].pc = "commit" /\ req'[r].fresh = t
          /\ req'[r].todo = {}
      BY <1>3 DEF Rotate, PresentedInv
    <2> QED
      BY <2>1
  <1>4. CASE FindbyHash(r)
    BY <1>4 DEF FindbyHash, Found, BranchOnRevoked, Take
  <1>5. CASE Revoke(r)
    <2>1. /\ req'[r].op = "logout" /\ req'[r].pc = "commit" /\ req'[r].writes = {req[r].arg}
          /\ req'[r].arg = req[r].arg /\ req'[r].todo = {}
      BY <1>5 DEF Revoke, PresentedInv, Take
    <2> QED
      BY <2>1
  <1>6. CASE ScanDone(r)
    <2>1. req'[r] = [req[r] EXCEPT !.pc = "commit"] /\ UNCHANGED <<issued, revoked, row>>
      BY <1>6 DEF ScanDone
    <2>2. /\ req[r].pc = "scan" /\ req[r].todo = {} /\ req[r].op # "logout" /\ req'[r].pc = "commit"
          /\ UNCHANGED <<req[r].op, req[r].arg, req[r].tenant, req[r].todo, req[r].skipped>>
          /\ UNCHANGED <<req[r].writes, req[r].fresh>>
      BY <1>6, <2>1 DEF ScanDone
    <2> QED
      BY <2>1, <2>2 DEF SameFamily
  <1>7. CASE RevokeAllForFamily(r)
    <2>1. /\ req'[r].todo = Unrevoked(FamilyScope(row[req[r].arg].family, req[r].tenant))
          /\ req'[r].arg = req[r].arg /\ req'[r].tenant = req[r].tenant /\ req'[r].pc = "scan"
          /\ req'[r].op = "refresh"
          /\ UNCHANGED <<issued, revoked, row>>
      BY <1>7 DEF RevokeAllForFamily, PresentedInv
    <2>2. row[req[r].arg].tenant = req[r].tenant /\ req[r].arg \in issued
      BY <1>7 DEF RevokeAllForFamily, PresentedInv
    <2>3. \A u \in issued \ revoked : SameFamily(req[r].arg, u) => u \in req'[r].todo
      <3>1. FamilyTenant /\ issued \subseteq Token
        BY DEF JInv, EndTable
      <3> HIDE DEF TypeOK, EndInv, Burning, IsReuse, NoRequest, RequestState
      <3> QED
        BY <2>1, <2>2, <3>1 DEF FamilyTenant, SameFamily, Unrevoked, FamilyScope
    <2> QED
      BY <2>1, <2>2, <2>3 DEF SameFamily
  <1>8. ASSUME NEW t \in Token, ScanRow(r, t) PROVE EndInv(r)'
    <2>1. /\ req[r].pc = "scan" /\ t \in req[r].todo
          /\ req'[r] = [req[r] EXCEPT
                          !.todo = @ \ {t},
                          !.skipped = IF t \in revoked THEN @ \cup {t} ELSE @,
                          !.writes = IF t \in revoked THEN @ ELSE @ \cup {t}]
          /\ UNCHANGED <<issued, revoked, row>>
      BY <1>8 DEF ScanRow
    <2>2. UNCHANGED <<req[r].op, req[r].pc, req[r].arg, req[r].tenant, req[r].fresh>>
      BY <2>1
    <2>3. CASE t \in revoked
      <3>1. req'[r].skipped # {}
        BY <2>1, <2>3
      <3> QED
        BY <2>1, <2>2, <3>1
    <2>4. CASE t \notin revoked
      <3>1. /\ req'[r].todo = req[r].todo \ {t} /\ req'[r].writes = req[r].writes \cup {t}
            /\ req'[r].skipped = req[r].skipped
        BY <2>1, <2>4
      <3> QED
        BY <2>1, <2>2, <2>4, <3>1 DEF SameFamily
    <2> QED
      BY <2>3, <2>4
  <1> QED
    BY <1>1, <1>2, <1>3, <1>4, <1>5, <1>6, <1>7, <1>8 DEF RequestStep, Step

LEMMA InitJInv == Init => JInv
  <1> SUFFICES ASSUME Init PROVE JInv
    OBVIOUS
  <1>1. EndTable
    BY DEF Init, EndTable, FamilyTenant, DeadEnds, CleanReuseEndsSession
  <1>2. ASSUME NEW r \in Request PROVE EndInv(r)
    <2>1. req[r].op = "none" /\ req[r].pc = "idle" /\ req[r].todo = {}
      BY DEF Init, NoRequest
    <2>2. QED
      BY <2>1 DEF EndInv, Burning
  <1>3. QED
    BY <1>1, <1>2 DEF JInv

LEMMA NextJInv == IInv /\ JInv /\ [Next]_vars => JInv'
  <1> SUFFICES ASSUME IInv, JInv, [Next]_vars PROVE JInv'
    OBVIOUS
  <1>1. CASE UNCHANGED vars \/ \E t \in Token : Expire(t)
    <2>1. UNCHANGED <<issued, revoked, row, req, loggedOut, clean>>
      BY <1>1 DEF Expire, vars, tableVars, historyVars
    <2>2. EndTable'
      BY <2>1 DEF JInv, EndTable, FamilyTenant, DeadEnds, HasSuccessor, SameFamily,
                  CleanReuseEndsSession
    <2>3. ASSUME NEW r \in Request PROVE EndInv(r)'
      BY <2>1 DEF JInv, EndInv, Burning, IsReuse, SameFamily
    <2>4. QED
      BY <2>2, <2>3 DEF JInv
  <1>2. ASSUME NEW r \in Request, RequestStep(r) PROVE JInv'
    <2>1. EndTable'
      BY <1>2, EndTableSame, EndRevocations, EndInsertion
    <2>2. ASSUME NEW s \in Request PROVE EndInv(s)'
      BY <1>2, EndOthers, EndOwn
    <2> QED
      BY <2>1, <2>2 DEF JInv
  <1> QED
    BY <1>1, <1>2 DEF Next, RequestStep

LEMMA JInvariance == Spec => []JInv
  BY InitJInv, NextJInv, Invariance, PTL DEF Spec

\* After Logout a token of the family is live only if the token that was logged out
\* had been exchanged before: whatever else overlapped the Logout.
THEOREM LogoutEnds == Spec => []LogoutEndsSession
  <1>1. IInv /\ JInv => LogoutEndsSession
    BY DEF IInv, TableInv, JInv, EndTable, DeadEnds, HasSuccessor, LogoutEndsSession, Live
  <1> QED
    BY <1>1, Invariance, JInvariance, PTL

\* Reuse detection that met no row revoked under it ends the session for good.
THEOREM CleanReuseEnds == Spec => []CleanReuseEndsSession
  <1>1. JInv => CleanReuseEndsSession
    BY DEF JInv, EndTable
  <1> QED
    BY <1>1, JInvariance, PTL

----------------------------------------------------------------------------
(* Waiting for row locks.  A request that waits and is waited for is in a  *)
(* bulk UPDATE.  That of a reuse detection has one row to visit, the live  *)
(* token of its family, so while it waits it holds its own token only, and *)
(* its own token was revoked before the one it waits for was presented:    *)
(* reuse detections wait for later ones.  A RevokeAllForUser visits one    *)
(* row of a family, so it cannot both wait for a reuse detection of a      *)
(* family and hold a row that one waits for.                               *)

\* The rows a bulk UPDATE has visited.
Met(r) == req[r].skipped \cup req[r].writes

\* A request has no locks before its first statement and after its end, the one of
\* the token presented before a bulk UPDATE, and in it those of the rows visited too.
LockInv(r) ==
    /\ req[r].pc \in {"idle", "find", "logout", "respond"} => \A t \in Token : lock[t] # r
    /\ req[r].pc = "reuse" => \A t \in Token : lock[t] = r => t = req[r].arg
    /\ req[r].pc = "scan" => \A t \in Token : lock[t] = r => t \in Met(r) \cup {req[r].arg}

\* A bulk UPDATE visits one row of a family at most, and that of a reuse detection
\* rows of the family of its token only, which is revoked.
ScanInv(r) ==
    /\ req[r].pc \in {"find", "reuse"} => req[r].skipped = {}
    /\ req[r].pc \in {"reuse", "scan"} => req[r].arg \in revoked \cup {None}
    /\ req[r].pc = "scan" =>
         /\ req[r].op \in {"refresh", "revokeAll"}
         /\ req[r].op = "revokeAll" => req[r].arg = None
         /\ req[r].todo \cap Met(r) = {} /\ Met(r) \subseteq issued
         /\ \A t, u \in req[r].todo \cup Met(r) : SameFamily(t, u) => t = u
         /\ req[r].op = "refresh" =>
               \A t \in req[r].todo \cup Met(r) : SameFamily(t, req[r].arg)

Reusing == {r \in Request : req[r].pc = "scan" /\ req[r].op = "refresh"}

\* Of any reuse detections, the last to start its UPDATE has not to visit the token
\* of another one.
LastComer ==
    \A S \in SUBSET Reusing : S # {} => \E r \in S : \A s \in S : req[s].arg \notin req[r].todo

KInv == LastComer /\ \A r \in Request : LockInv(r) /\ ScanInv(r)

\* A step of a request takes or frees locks of its own only.
LEMMA LockFrame ==
    ASSUME IInv, NEW r \in Request, RequestStep(r)
    PROVE  \A t \in Token : lock'[t] \in {lock[t], r, None}
  <1> lock \in [Token -> Request \cup {None}]
    BY DEF IInv, TypeOK
  <1>1. CASE lock' = lock \/ lock' = Released(r)
    BY <1>1 DEF Released
  <1>2. CASE \E t \in Token : Take(r, t)
    BY <1>2 DEF Take
  <1>3. CASE Arrive(r)
    BY <1>1, <1>3 DEF Arrive, RevokeAllForUser, Login, RefreshStart, LogoutStart, tableVars
  <1>4. CASE FindbyHash(r) \/ Revoke(r)
    <2>1. req[r].arg \in Token
      BY <1>4 DEF FindbyHash, Revoke, IInv, RequestInv, PresentedInv, TypeOK
    <2> QED
      BY <1>2, <1>4, <2>1 DEF FindbyHash, Revoke
  <1>5. CASE Rollback(r) \/ ResponseLost(r)
    BY <1>1, <1>5 DEF Rollback, ResponseLost, tableVars
  <1>6. CASE \E t \in Token : Rotate(r, t) \/ ScanRow(r, t)
    BY <1>1, <1>2, <1>6 DEF Rotate, ScanRow
  <1>7. CASE RefreshInvalid(r) \/ RevokeAllForFamily(r) \/ ScanDone(r) \/ Commit(r) \/ Respond(r)
    BY <1>1, <1>7 DEF RefreshInvalid, RevokeAllForFamily, ScanDone, Commit, Respond, tableVars
  <1> QED
    BY <1>3, <1>4, <1>5, <1>6, <1>7 DEF RequestStep, Step

\* What is true of a request stays true while others only add rows and revoke.
LEMMA WaitSame ==
    ASSUME IInv, NEW s \in Request, LockInv(s), ScanInv(s), req'[s] = req[s],
           revoked \subseteq revoked', issued \subseteq issued',
           \A t \in issued : row'[t] = row[t],
           \A t \in Token : lock'[t] = s => lock[t] = s
    PROVE  LockInv(s)' /\ ScanInv(s)'
  <1>1. Met(s)' = Met(s)
    BY DEF Met
  <1>2. LockInv(s)'
    BY <1>1 DEF LockInv
  <1>3. req[s].todo \subseteq issued /\ (req[s].op = "refresh" => req[s].arg \in issued)
    BY DEF IInv, RequestInv, WriteInv, PresentedInv
  <1>4. \A t, u \in issued : SameFamily(t, u)' <=> SameFamily(t, u)
    BY DEF SameFamily
  <1>5. /\ (req[s].pc \in {"find", "reuse"} => req[s].skipped = {})'
        /\ (req[s].pc \in {"reuse", "scan"} => req[s].arg \in revoked \cup {None})'
    BY DEF ScanInv
  <1>6. ASSUME req[s].pc = "scan"
        PROVE  /\ req[s].op \in {"refresh", "revokeAll"}
               /\ req[s].op = "revokeAll" => req[s].arg = None
               /\ req[s].todo \cap Met(s) = {} /\ Met(s) \subseteq issued
               /\ \A t, u \in req[s].todo \cup Met(s) : SameFamily(t, u) => t = u
               /\ req[s].op = "refresh" =>
                     \A t \in req[s].todo \cup Met(s) : SameFamily(t, req[s].arg)
    BY <1>6 DEF ScanInv
  <1>7. ASSUME req[s].pc = "scan"
        PROVE  /\ (\A t, u \in req[s].todo \cup Met(s) : SameFamily(t, u) => t = u)'
               /\ (req[s].op = "refresh" =>
                     \A t \in req[s].todo \cup Met(s) : SameFamily(t, req[s].arg))'
    <2> DEFINE V == req[s].todo \cup Met(s)
    <2>1. V \subseteq issued /\ (\A t, u \in V : SameFamily(t, u) => t = u)
      BY <1>3, <1>6, <1>7
    <2>2. req[s].op = "refresh" => \A t \in V : SameFamily(t, req[s].arg)
      BY <1>6, <1>7
    <2>3. V' = V /\ req'[s] = req[s]
      BY <1>1
    <2> HIDE DEF V
    <2>4. (\A t, u \in V : SameFamily(t, u) => t = u)'
      BY <1>4, <2>1, <2>3
    <2>5. (req[s].op = "refresh" => \A t \in V : SameFamily(t, req[s].arg))'
      BY <1>3, <1>4, <2>1, <2>2, <2>3
    <2> QED
      BY <2>4, <2>5 DEF V
  <1>8. ScanInv(s)'
    BY <1>1, <1>5, <1>6, <1>7 DEF ScanInv
  <1> QED
    BY <1>2, <1>8

LEMMA WaitOthers ==
    ASSUME IInv, KInv, NEW r \in Request, RequestStep(r), NEW s \in Request, s # r
    PROVE  LockInv(s)' /\ ScanInv(s)'
  <1>1. /\ req'[s] = req[s] /\ revoked \subseteq revoked' /\ issued \subseteq issued'
        /\ \A t \in issued : row'[t] = row[t]
    BY FrameStep DEF Frame
  <1>2. \A t \in Token : lock'[t] = s => lock[t] = s
    BY LockFrame, NoneIsFresh
  <1>3. LockInv(s) /\ ScanInv(s)
    BY DEF KInv
  <1> QED
    BY <1>1, <1>2, <1>3, WaitSame

\* What a statement before or after the bulk UPDATE leaves true of its request.
LEMMA WaitOwn ==
    ASSUME IInv, KInv, NEW r \in Request, RequestStep(r), ~RevokeAllForFamily(r),
           \A u \in User : ~RevokeAllForUser(r, u), \A t \in Token : ~ScanRow(r, t)
    PROVE  LockInv(r)' /\ ScanInv(r)'
  <1> /\ TypeOK /\ PresentedInv(r) /\ LockInv(r) /\ ScanInv(r) /\ r # None
    BY NoneIsFresh DEF IInv, KInv, RequestInv
  <1> USE DEF TypeOK, LockInv, ScanInv, NoRequest, RequestState, Met
  <1>1. ASSUME NEW u \in User, NEW t \in Token, Login(r, u, t) PROVE LockInv(r)' /\ ScanInv(r)'
    BY <1>1 DEF Login
  <1>2. ASSUME NEW t \in Token, NEW n \in Tenant, RefreshStart(r, t, n) \/ LogoutStart(r, t, n)
        PROVE  LockInv(r)' /\ ScanInv(r)'
    <2>1. CASE RefreshStart(r, t, n)
      BY <1>2, <2>1 DEF RefreshStart, tableVars
    <2>2. CASE LogoutStart(r, t, n)
      BY <1>2, <2>2 DEF LogoutStart, tableVars
    <2> QED
      BY <1>2, <2>1, <2>2
  <1>3. CASE RefreshInvalid(r) \/ Respond(r) \/ ResponseLost(r)
    <2>1. req[r].pc \in {"find", "respond"} /\ lock' = lock
      BY <1>3 DEF RefreshInvalid, Respond, ResponseLost, tableVars
    <2>2. req' = [req EXCEPT ![r] = NoRequest]
      BY <1>3 DEF RefreshInvalid, Respond, ResponseLost
    <2>3. req'[r].pc = "idle"
      BY <2>2
    <2> QED
      BY <2>1, <2>3
  <1>4. CASE Rollback(r) \/ Commit(r)
    <2>1. /\ req'[r].pc \in {"idle", "respond"}
          /\ \A t \in Token : lock'[t] # r
      BY <1>4 DEF Rollback, Commit, Released
    <2> QED
      BY <2>1
  <1>5. CASE FindbyHash(r)
    <2>1. /\ req'[r].pc \in {"reuse", "rotate"} /\ (req'[r].pc = "reuse" => req[r].arg \in revoked)
          /\ req'[r].arg = req[r].arg /\ req'[r].skipped = {} /\ revoked' = revoked
          /\ \A t \in Token : lock'[t] = r => t = req[r].arg
      BY <1>5 DEF FindbyHash, BranchOnRevoked, Take
    <2> QED
      BY <2>1
  <1>6. CASE Revoke(r) \/ ScanDone(r) \/ \E t \in Token : Rotate(r, t)
    <2>1. req'[r].pc = "commit"
      BY <1>6 DEF Revoke, ScanDone, Rotate
    <2> QED
      BY <2>1
  <1> QED
    BY <1>1, <1>2, <1>3, <1>4, <1>5, <1>6 DEF RequestStep, Arrive, Step

\* The UPDATE starts: its snapshot has one live row of a family.
LEMMA WaitStart ==
    ASSUME IInv, KInv, NEW r \in Request,
           RevokeAllForFamily(r) \/ \E u \in User : RevokeAllForUser(r, u)
    PROVE  /\ LockInv(r)' /\ ScanInv(r)'
           /\ req'[r].todo \cap revoked = {} /\ revoked' = revoked
  <1> /\ TypeOK /\ PresentedInv(r) /\ WriteInv(r) /\ LockInv(r) /\ ScanInv(r) /\ OneLivePerFamily
    BY DEF IInv, KInv, RequestInv
  <1>0. UNCHANGED <<issued, revoked, row, lock>>
    BY DEF RevokeAllForFamily, RevokeAllForUser, tableVars
  <1>1. /\ req'[r].pc = "scan" /\ req'[r].skipped = {} /\ req'[r].writes = {}
        /\ req'[r].todo \subseteq issued \ revoked
        /\ \/ req'[r].op = "revokeAll" /\ req'[r].arg = None /\ \A t \in Token : lock[t] # r
           \/ /\ req'[r].op = "refresh" /\ req'[r].arg = req[r].arg /\ req[r].arg \in revoked \cup {None}
              /\ \A t \in Token : lock[t] = r => t = req[r].arg
              /\ \A t \in req'[r].todo : SameFamily(t, req[r].arg)
    <2>1. CASE RevokeAllForFamily(r)
      <3>1. req'[r] = [req[r] EXCEPT !.pc = "scan",
                          !.todo = Unrevoked(FamilyScope(row[req[r].arg].family, req[r].tenant))]
            /\ req[r] \in RequestState
        BY <2>1 DEF RevokeAllForFamily, TypeOK
      <3>2. /\ req[r].pc = "reuse" /\ req[r].op = "refresh" /\ req[r].skipped = {} /\ req[r].writes = {}
            /\ req[r].arg \in revoked \cup {None} /\ \A t \in Token : lock[t] = r => t = req[r].arg
        BY <2>1 DEF RevokeAllForFamily, PresentedInv, WriteInv, ScanInv, LockInv
      <3> QED
        BY <3>1, <3>2 DEF RequestState, Unrevoked, FamilyScope, SameFamily
    <2>2. ASSUME NEW u \in User, RevokeAllForUser(r, u)
          PROVE  /\ req'[r].pc = "scan" /\ req'[r].skipped = {} /\ req'[r].writes = {}
                 /\ req'[r].todo \subseteq issued \ revoked
                 /\ req'[r].op = "revokeAll" /\ req'[r].arg = None /\ \A t \in Token : lock[t] # r
      BY <2>2 DEF RevokeAllForUser, NoRequest, TypeOK, Unrevoked, UserScope, LockInv
    <2> QED
      BY <2>1, <2>2
  <1>2. LockInv(r)'
    <2>1. CASE req'[r].op = "revokeAll" /\ \A t \in Token : lock[t] # r
      BY <1>0, <1>1, <2>1 DEF LockInv
    <2>2. CASE req'[r].op = "refresh"
      BY <1>0, <1>1, <2>2 DEF LockInv
    <2> QED
      BY <1>1, <2>1, <2>2
  <1>3. ScanInv(r)'
    <2>1. \A t, u \in req'[r].todo : SameFamily(t, u) => t = u
      BY <1>1 DEF OneLivePerFamily, Live, TypeOK
    <2> QED
      BY <1>0, <1>1, <2>1 DEF ScanInv, Met, SameFamily
  <1> QED
    BY <1>0, <1>1, <1>2, <1>3

\* The UPDATE visits a row: it moves from those to visit to those visited.
LEMMA WaitRow ==
    ASSUME IInv, KInv, NEW r \in Request, NEW t \in Token, ScanRow(r, t)
    PROVE  LockInv(r)' /\ ScanInv(r)'
  <1> /\ TypeOK /\ LockInv(r) /\ ScanInv(r) /\ req[r].todo \subseteq issued
    BY DEF IInv, KInv, RequestInv, WriteInv
  <1>1. /\ req[r].pc = "scan" /\ req'[r].pc = "scan"
        /\ req'[r].op = req[r].op /\ req'[r].arg = req[r].arg
        /\ t \in req[r].todo /\ req'[r].todo = req[r].todo \ {t}
        /\ UNCHANGED <<issued, revoked, row>> /\ lock' = [lock EXCEPT ![t] = r]
    BY DEF ScanRow, Take, TypeOK, RequestState
  <1>2. Met(r)' = Met(r) \cup {t}
    <2>1. req'[r].skipped = IF t \in revoked THEN req[r].skipped \cup {t} ELSE req[r].skipped
      BY DEF ScanRow, TypeOK, RequestState
    <2>2. req'[r].writes = IF t \in revoked THEN req[r].writes ELSE req[r].writes \cup {t}
      BY DEF ScanRow, TypeOK, RequestState
    <2> QED
      BY <2>1, <2>2 DEF Met
  <1>3. LockInv(r)'
    BY <1>1, <1>2 DEF LockInv, TypeOK
  <1>4. (req[r].todo \cup Met(r))' = req[r].todo \cup Met(r)
    BY <1>1, <1>2
  <1>5. /\ req[r].op \in {"refresh", "revokeAll"}
        /\ req[r].op = "revokeAll" => req[r].arg = None
        /\ req[r].todo \cap Met(r) = {} /\ Met(r) \subseteq issued
        /\ \A u, v \in req[r].todo \cup Met(r) : SameFamily(u, v) => u = v
        /\ req[r].op = "refresh" =>
              \A u \in req[r].todo \cup Met(r) : SameFamily(u, req[r].arg)
        /\ req[r].arg \in revoked \cup {None}
    BY <1>1 DEF ScanInv
  <1>6. (req[r].todo \cap Met(r) = {})'
    BY <1>1, <1>2, <1>5
  <1>7. (Met(r) \subseteq issued)'
    <2>1. Met(r) \cup {t} \subseteq issued /\ issued' = issued
      BY <1>1, <1>5
    <2> QED
      BY <1>2, <2>1
  <1>8. /\ (\A u, v \in req[r].todo \cup Met(r) : SameFamily(u, v) => u = v)'
        /\ (req[r].op = "refresh" =>
              \A u \in req[r].todo \cup Met(r) : SameFamily(u, req[r].arg))'
    BY <1>1, <1>4, <1>5 DEF SameFamily
  <1> QED
    BY <1>1, <1>3, <1>5, <1>6, <1>7, <1>8 DEF ScanInv

\* A reuse detection that starts its UPDATE has no revoked token to visit, and the
\* tokens of all reuse detections are revoked: it is the last to come.
LEMMA LastComerStep ==
    ASSUME IInv, KInv, NEW r \in Request, RequestStep(r)
    PROVE  LastComer'
  <1> SUFFICES ASSUME NEW S \in SUBSET Reusing', S # {}
               PROVE  \E q \in S : \A s \in S : req'[s].arg \notin req'[q].todo
    BY DEF LastComer
  <1>0. /\ TypeOK /\ S \subseteq Request
        /\ \A s \in Request : s # r => req'[s] = req[s]
    BY FrameStep DEF Frame, IInv, Reusing
  <1>1. CASE RevokeAllForFamily(r) /\ r \in S
    <2>1. req'[r].todo \cap revoked = {} /\ revoked' = revoked
      BY <1>1, WaitStart
    <2>2. \A s \in S : req'[s].arg \in revoked
      <3> TAKE s \in S
      <3>1. ScanInv(s)'
        BY <1>0, <1>1, WaitStart, WaitOthers
      <3>2. req'[s].pc = "scan" /\ req'[s].op = "refresh"
        BY DEF Reusing
      <3>3. req'[s].arg \in revoked \cup {None}
        BY <2>1, <3>1, <3>2 DEF ScanInv
      <3>4. req'[s].arg # None
        <4>1. PresentedInv(s)' /\ TypeOK'
          BY <1>0, NextIInv DEF IInv, RequestInv, Next, RequestStep
        <4> QED
          BY <3>2, <4>1, NoneIsFresh DEF PresentedInv, TypeOK
      <3> QED
        BY <3>3, <3>4
    <2> QED
      BY <1>1, <2>1, <2>2
  <1>2. CASE ~(RevokeAllForFamily(r) /\ r \in S)
    <2>1. r \in S => /\ req[r].pc = "scan" /\ req[r].op = "refresh"
                      /\ req'[r].arg = req[r].arg /\ req'[r].todo \subseteq req[r].todo
      <3> SUFFICES ASSUME r \in S, req'[r].pc = "scan", req'[r].op = "refresh", ~RevokeAllForFamily(r)
                   PROVE  /\ req[r].pc = "scan" /\ req[r].op = "refresh"
                          /\ req'[r].arg = req[r].arg /\ req'[r].todo \subseteq req[r].todo
        BY <1>2 DEF Reusing
      <3> req \in [Request -> RequestState]
        BY <1>0 DEF TypeOK
      <3>1. ~Arrive(r)
        <4>1. ASSUME NEW u \in User, RevokeAllForUser(r, u) PROVE FALSE
          BY <4>1 DEF RevokeAllForUser, NoRequest
        <4>2. ASSUME NEW u \in User, NEW t \in Token, Login(r, u, t) PROVE FALSE
          BY <4>2 DEF Login, NoRequest
        <4>3. ASSUME NEW t \in Token, NEW n \in Tenant, RefreshStart(r, t, n) PROVE FALSE
          BY <4>3 DEF RefreshStart, NoRequest
        <4>4. ASSUME NEW t \in Token, NEW n \in Tenant, LogoutStart(r, t, n) PROVE FALSE
          BY <4>4 DEF LogoutStart, NoRequest
        <4> QED
          BY <4>1, <4>2, <4>3, <4>4 DEF Arrive
      <3>2. ~Rollback(r) /\ ~ResponseLost(r) /\ ~RefreshInvalid(r) /\ ~Respond(r)
        <4>1. req' # [req EXCEPT ![r] = NoRequest]
          BY DEF NoRequest
        <4> QED
          BY <4>1 DEF Rollback, ResponseLost, RefreshInvalid, Respond
      <3>3. ~ScanDone(r) /\ ~Commit(r) /\ ~Revoke(r) /\ ~FindbyHash(r) /\ \A t \in Token : ~Rotate(r, t)
        <4>1. ~ScanDone(r) /\ ~Commit(r)
          BY DEF ScanDone, Commit, RequestState
        <4>2. ~FindbyHash(r)
          BY DEF FindbyHash, BranchOnRevoked, RequestState
        <4>3. ~Revoke(r) /\ \A t \in Token : ~Rotate(r, t)
          BY DEF Revoke, Rotate, RequestState
        <4> QED
          BY <4>1, <4>2, <4>3
      <3>4. PICK t \in Token : ScanRow(r, t)
        BY <3>1, <3>2, <3>3 DEF RequestStep, Step
      <3> QED
        BY <3>4 DEF ScanRow, RequestState
    <2>2. S \in SUBSET Reusing
      BY <1>0, <2>1 DEF Reusing
    <2>3. PICK q \in S : \A s \in S : req[s].arg \notin req[q].todo
      BY <2>2 DEF KInv, LastComer
    <2>4. \A s \in S : req'[s].arg = req[s].arg /\ req'[s].todo \subseteq req[s].todo
      BY <1>0, <2>1
    <2> QED
      BY <2>3, <2>4
  <1> QED
    BY <1>1, <1>2

LEMMA InitKInv == Init => KInv
  <1> SUFFICES ASSUME Init PROVE KInv
    OBVIOUS
  <1>1. /\ \A r \in Request : req[r].pc = "idle"
        /\ \A t \in Token, r \in Request : lock[t] # r
    BY DEF Init, NoRequest
  <1>2. LastComer
    BY <1>1 DEF LastComer, Reusing
  <1>3. ASSUME NEW r \in Request PROVE LockInv(r) /\ ScanInv(r)
    BY <1>1 DEF LockInv, ScanInv
  <1> QED
    BY <1>2, <1>3 DEF KInv

LEMMA NextKInv == IInv /\ KInv /\ [Next]_vars => KInv'
  <1> SUFFICES ASSUME IInv, KInv, [Next]_vars PROVE KInv'
    OBVIOUS
  <1>1. CASE UNCHANGED vars \/ \E t \in Token : Expire(t)
    <2>1. UNCHANGED <<issued, revoked, row, lock, req>>
      BY <1>1 DEF Expire, vars, tableVars
    <2>2. LastComer'
      BY <2>1 DEF KInv, LastComer, Reusing
    <2>3. ASSUME NEW s \in Request PROVE LockInv(s)' /\ ScanInv(s)'
      <3>1. LockInv(s) /\ ScanInv(s)
        BY DEF KInv
      <3> QED
        BY <2>1, <3>1, WaitSame
    <2> QED
      BY <2>2, <2>3 DEF KInv
  <1>2. ASSUME NEW r \in Request, RequestStep(r) PROVE KInv'
    <2>1. ASSUME NEW s \in Request PROVE LockInv(s)' /\ ScanInv(s)'
      BY <1>2, WaitOthers, WaitOwn, WaitStart, WaitRow
    <2> QED
      BY <1>2, <2>1, LastComerStep DEF KInv
  <1> QED
    BY <1>1, <1>2 DEF Next, RequestStep

LEMMA KInvariance == Spec => []KInv
  BY InitKInv, NextKInv, Invariance, PTL DEF Spec

\* Who is waited for and waits is in a bulk UPDATE with rows to visit.
LEMMA WaitsInScan ==
    ASSUME IInv, KInv, NEW r \in Request, NEW s \in Request, NEW q \in Request,
           WaitsFor(r, s), WaitsFor(s, q)
    PROVE  /\ req[s].pc = "scan" /\ req[s].todo # {}
           /\ req[s].op \in {"refresh", "revokeAll"}
  <1>1. PICK t \in Wants(r) : lock[t] = s
    BY DEF WaitsFor
  <1>2. t \in Token
    BY <1>1 DEF Wants, IInv, TypeOK, RequestState
  <1>3. req[s].pc \notin {"find", "logout"}
    BY <1>1, <1>2 DEF KInv, LockInv
  <1>4. Wants(s) # {}
    BY DEF WaitsFor
  <1>5. req[s].pc = "scan" /\ req[s].todo # {}
    BY <1>3, <1>4 DEF Wants
  <1> QED
    BY <1>5 DEF KInv, ScanInv

\* A waiting reuse detection is waited for because of its own token.
LEMMA WaitsForReuse ==
    ASSUME IInv, KInv, NEW r \in Request, req[r].pc = "scan",
           NEW s \in Reusing, req[s].todo # {}, WaitsFor(r, s)
    PROVE  req[s].arg \in req[r].todo
  <1>1. PICK t \in req[r].todo : lock[t] = s
    BY DEF WaitsFor, Wants
  <1>2. PICK u \in req[s].todo : TRUE
    OBVIOUS
  <1>3. t \in Token
    BY <1>1 DEF IInv, TypeOK, RequestState
  <1>4. s \in Request /\ req[s].pc = "scan" /\ req[s].op = "refresh"
    BY DEF Reusing
  <1>5. LockInv(s) /\ ScanInv(s)
    BY <1>4 DEF KInv
  <1>6. t \in Met(s) \cup {req[s].arg}
    BY <1>1, <1>3, <1>4, <1>5 DEF LockInv
  <1>7. t \notin Met(s)
    <2> SUFFICES ASSUME t \in Met(s) PROVE FALSE
      OBVIOUS
    <2>1. SameFamily(t, req[s].arg) /\ SameFamily(u, req[s].arg)
      BY <1>4, <1>5, <1>2 DEF ScanInv
    <2>2. SameFamily(t, u)
      BY <2>1 DEF SameFamily
    <2>3. t = u
      BY <1>4, <1>5, <1>2, <2>2 DEF ScanInv
    <2> QED
      BY <1>4, <1>5, <1>2, <2>3 DEF ScanInv
  <1> QED
    BY <1>1, <1>6, <1>7

\* A RevokeAllForUser is waited for because of a row that it has visited.
LEMMA WaitsForBulk ==
    ASSUME IInv, KInv, NEW r \in Request, req[r].pc = "scan",
           NEW s \in Request, req[s].pc = "scan", req[s].op = "revokeAll", WaitsFor(r, s)
    PROVE  \E t \in req[r].todo : t \in Met(s)
  <1>1. PICK t \in req[r].todo : lock[t] = s
    BY DEF WaitsFor, Wants
  <1>2. t \in Token
    BY <1>1 DEF IInv, TypeOK, RequestState
  <1>3. LockInv(s) /\ ScanInv(s)
    BY DEF KInv
  <1>4. t \in Met(s) \cup {req[s].arg}
    BY <1>1, <1>2, <1>3 DEF LockInv
  <1>5. req[s].arg = None
    BY <1>3 DEF ScanInv
  <1> QED
    BY <1>1, <1>2, <1>4, <1>5

\* Postgres has a cycle of row locks to break only when two RevokeAllForUser
\* overlap, whatever the number of requests, tokens and families.
THEOREM DeadlockOnlyBetweenBulk == Spec => []DeadlockNeedsTwoBulkRevocations
  <1>1. IInv /\ KInv => DeadlockNeedsTwoBulkRevocations
    <2> SUFFICES ASSUME IInv, KInv, NEW S \in SUBSET Request, WaitingRing(S),
                        \A r, s \in S : req[r].op = "revokeAll" /\ req[s].op = "revokeAll" => r = s
                 PROVE  FALSE
      BY DEF DeadlockNeedsTwoBulkRevocations
    <2> DEFINE T == {s \in S : \E r \in S : WaitsFor(r, s)}
    <2>1. /\ T # {} /\ T \subseteq S
          /\ \A r \in T : \E s \in T : WaitsFor(r, s)
      BY DEF WaitingRing
    <2>2. \A s \in T : /\ s \in Request /\ req[s].pc = "scan" /\ req[s].todo # {}
                       /\ req[s].op = "revokeAll" \/ s \in Reusing
      <3> TAKE s \in T
      <3>1. PICK r \in S, q \in S : WaitsFor(r, s) /\ WaitsFor(s, q)
        BY <2>1
      <3>2. r \in Request /\ s \in Request /\ q \in Request
        BY <2>1
      <3> HIDE DEF T
      <3> QED
        BY <3>1, <3>2, WaitsInScan DEF Reusing
    <2> HIDE DEF T
    <2>3. \A r \in T, s \in T : s \in Reusing /\ WaitsFor(r, s) => req[s].arg \in req[r].todo
      BY <2>2, WaitsForReuse
    <2>4. CASE T \subseteq Reusing
      <3>1. PICK r \in T : \A s \in T : req[s].arg \notin req[r].todo
        BY <2>1, <2>4 DEF KInv, LastComer
      <3> QED
        BY <2>1, <2>3, <2>4, <3>1
    <2>5. CASE ~(T \subseteq Reusing)
      <3>1. PICK b \in T : req[b].op = "revokeAll"
        BY <2>2, <2>5
      <3>2. \A s \in T : s # b => s \in Reusing
        BY <2>1, <2>2, <3>1
      <3>3. PICK a \in T : WaitsFor(b, a)
        BY <2>1, <3>1
      <3>4. a \in Reusing /\ req[a].arg \in req[b].todo
        BY <2>3, <3>2, <3>3 DEF WaitsFor
      <3> DEFINE F == {s \in T : s \in Reusing /\ SameFamily(req[s].arg, req[a].arg)}
      <3>5. PICK r \in F : \A s \in F : req[s].arg \notin req[r].todo
        <4>1. a \in F /\ F \in SUBSET Reusing
          BY <3>3, <3>4 DEF SameFamily
        <4> QED
          BY <4>1 DEF KInv, LastComer
      <3>6. PICK s \in T : WaitsFor(r, s)
        BY <2>1, <3>5
      <3>7. /\ \A t \in req[r].todo : SameFamily(t, req[a].arg)
            /\ r \in Request /\ req[r].pc = "scan"
        <4>1. \A t \in req[r].todo : SameFamily(t, req[r].arg)
          BY <2>2, <3>5 DEF KInv, ScanInv, Reusing
        <4> QED
          BY <2>2, <3>5, <4>1 DEF SameFamily
      <3>8. s = b
        BY <2>3, <3>2, <3>5, <3>6, <3>7
      <3>9. PICK t \in req[r].todo : t \in Met(b)
        BY <2>2, <3>1, <3>6, <3>7, <3>8, WaitsForBulk
      <3>10. /\ req[b].todo \cap Met(b) = {}
             /\ \A u, v \in req[b].todo \cup Met(b) : SameFamily(u, v) => u = v
        BY <2>2, <3>1 DEF KInv, ScanInv
      <3>11. t = req[a].arg
        BY <3>4, <3>7, <3>9, <3>10
      <3> QED
        BY <3>4, <3>9, <3>10, <3>11
    <2> QED
      BY <2>4, <2>5
  <1> QED
    BY <1>1, Invariance, KInvariance, PTL
=============================================================================
