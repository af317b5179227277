------------------------- MODULE CredentialsProofs -------------------------
(***************************************************************************)
(* Proofs about Credentials for any number of tokens, requests and         *)
(* passwords.  The argument: while a reset revokes sessions and until it   *)
(* commits it holds the users row, so there is one at most, and every      *)
(* request in flight overlaps it.  What such a request commits is suspect, *)
(* and everything else that was live when the revocation began is visited. *)
(***************************************************************************)
EXTENDS Credentials, TLAPS

Holding == {"commitChange", "revoke", "scan", "confirm"}

\* The users row is held from its UPDATE to the end of the transaction.
RowHeld == \A r \in Request : req[r].pc \in Holding => userLock = r

\* What a request has been given for the step it is at.
Given ==
    \A r \in Request :
        /\ req[r].pc \in {"change", "commitChange", "reset", "revoke", "scan", "confirm"} =>
              req[r].new \in Password
        /\ req[r].pc \in {"insert", "change", "commitChange"} =>
              req[r].old \in Password /\ (req[r].old \in era \/ req[r].overlap)
        /\ req[r].pc \in {"reset", "revoke", "scan", "confirm"} => req[r].tok \in ResetToken
        /\ req[r].pc = "rotate" =>
              /\ req[r].tok \in Token /\ cred[req[r].tok] \in Password
              /\ cred[req[r].tok] \in era \/ req[r].tok \in suspect \/ req[r].overlap

\* A reset that is revoking or has revoked overlaps every other request.
Overlapping ==
    \A r, q \in Request :
        req[r].pc \in {"scan", "confirm"} /\ q # r /\ req[q].pc # "idle" => req[q].overlap

\* What the revocation has not seen was committed by a request that overlaps it.
Visited ==
    \A r \in Request :
        /\ req[r].pc = "scan" => live \subseteq req[r].todo \cup req[r].done \cup suspect
        /\ req[r].pc = "confirm" => live \subseteq suspect

IInv ==
    /\ TypeOK /\ RowHeld /\ Given /\ Overlapping /\ Visited
    /\ SurvivorsOverlapped /\ SpentMeansReset

USE NoneIsFresh, SomePassword

----------------------------------------------------------------------------

LEMMA FirstPassword == 1 \in Password
  BY DEF Password

LEMMA NoRequestType == NoRequest \in RequestState
  BY DEF NoRequest, RequestState, Pcs

LEMMA ScanningType ==
    ASSUME NEW s \in RequestState, NEW rows \in SUBSET Token
    PROVE  [s EXCEPT !.pc = "scan", !.todo = rows] \in RequestState
  BY DEF RequestState, Pcs

LEMMA InitInv == Init => IInv
  BY FirstPassword, NoRequestType
  DEF Init, NoRequest, IInv, TypeOK, RowHeld, Holding, Given, Overlapping, Visited, SurvivorsOverlapped,
      SpentMeansReset

LEMMA CompareStep ==
    ASSUME IInv, NEW r \in Request, Compare(r)
    PROVE  IInv'
  <1> USE DEF IInv, TypeOK, Compare, Begin, NoRequest, rowVars, historyVars
  <1>1. TypeOK'
    <2> ResetRunning \in BOOLEAN
      BY DEF ResetRunning
    <2>1. req'[r] \in RequestState
      BY DEF RequestState, Pcs
    <2>2. req' \in [Request -> RequestState]
      BY <2>1
    <2>3. cred' \in [Token -> Password \cup {None}] /\ tokLock' \in [Token -> Request \cup {None}]
      OBVIOUS
    <2> QED
      BY <2>2, <2>3
  <1>2. RowHeld'
    BY DEF RowHeld, Holding, RequestState
  <1>3. Given'
    BY DEF Given, RequestState, SurvivorsOverlapped
  <1>4. Overlapping'
    BY DEF Overlapping, ResetRunning, RequestState
  <1>5. Visited'
    BY DEF Visited, Overlapping, RequestState
  <1>6. SurvivorsOverlapped' /\ SpentMeansReset'
    BY DEF SurvivorsOverlapped, SpentMeansReset, Given, Visited
  <1> QED
    BY <1>1, <1>2, <1>3, <1>4, <1>5, <1>6

LEMMA InsertStep ==
    ASSUME IInv, NEW r \in Request, NEW t \in Token, InsertSession(r, t)
    PROVE  IInv'
  <1> USE DEF IInv, TypeOK, InsertSession, Insert, Fresh, NoRequest, historyVars
  <1>1. TypeOK'
    <2>1. req'[r] \in RequestState
      BY NoRequestType DEF RequestState, Pcs
    <2>2. req' \in [Request -> RequestState]
      BY <2>1, NoRequestType
    <2>3. cred' \in [Token -> Password \cup {None}] /\ tokLock' \in [Token -> Request \cup {None}]
      BY DEF Given
    <2>4. \A s \in live' : cred'[s] \in Password
      BY DEF Given
    <2> QED
      BY <2>2, <2>3, <2>4
  <1>2. RowHeld'
    BY DEF RowHeld, Holding, RequestState
  <1>3. Given'
    BY DEF Given, RequestState, SurvivorsOverlapped
  <1>4. Overlapping'
    BY DEF Overlapping, ResetRunning, RequestState
  <1>5. Visited'
    BY DEF Visited, Overlapping, RequestState
  <1>6. SurvivorsOverlapped' /\ SpentMeansReset'
    BY DEF SurvivorsOverlapped, SpentMeansReset, Given, Visited
  <1> QED
    BY <1>1, <1>2, <1>3, <1>4, <1>5, <1>6

LEMMA VerifyStep ==
    ASSUME IInv, NEW r \in Request, VerifyCurrent(r)
    PROVE  IInv'
  <1> USE DEF IInv, TypeOK, VerifyCurrent, Choose, Begin, NoRequest, historyVars
  <1>1. TypeOK'
    <2> chosen' \in Password /\ chosen + 1 \in Password
      BY DEF Password
    <2> ResetRunning \in BOOLEAN
      BY DEF ResetRunning
    <2>1. req'[r] \in RequestState
      BY DEF RequestState, Pcs
    <2>2. req' \in [Request -> RequestState]
      BY <2>1
    <2>3. cred' \in [Token -> Password \cup {None}] /\ tokLock' \in [Token -> Request \cup {None}]
      OBVIOUS
    <2> QED
      BY <2>2, <2>3
  <1>2. RowHeld'
    BY DEF RowHeld, Holding, RequestState
  <1>3. Given'
    <2>1. chosen + 1 \in Password
      BY DEF Password
    <2> QED
      BY <2>1 DEF Given, RequestState
  <1>4. Overlapping'
    BY DEF Overlapping, ResetRunning, RequestState
  <1>5. Visited'
    BY DEF Visited, Overlapping, RequestState
  <1>6. SurvivorsOverlapped' /\ SpentMeansReset'
    BY DEF SurvivorsOverlapped, SpentMeansReset, Given, Visited
  <1> QED
    BY <1>1, <1>2, <1>3, <1>4, <1>5, <1>6

LEMMA UpdateStep ==
    ASSUME IInv, NEW r \in Request, UpdateUser(r)
    PROVE  IInv'
  <1> USE DEF IInv, TypeOK, UpdateUser, CanLockUser, Advance, historyVars
  <1>1. TypeOK'
    BY NoRequestType DEF RequestState, Pcs, Given
  <1>2. RowHeld'
    BY DEF RowHeld, Holding, RequestState
  <1>3. Given'
    BY DEF Given, RequestState, SurvivorsOverlapped
  <1>4. Overlapping'
    BY DEF Overlapping, ResetRunning, RequestState
  <1>5. Visited'
    BY DEF Visited, Overlapping, RequestState
  <1>6. SurvivorsOverlapped' /\ SpentMeansReset'
    BY DEF SurvivorsOverlapped, SpentMeansReset, Given, Visited
  <1> QED
    BY <1>1, <1>2, <1>3, <1>4, <1>5, <1>6

LEMMA CommitChangeStep ==
    ASSUME IInv, NEW r \in Request, CommitChange(r)
    PROVE  IInv'
  <1> USE DEF IInv, TypeOK, CommitChange, NoRequest, historyVars
  <1>1. TypeOK'
    BY NoRequestType DEF RequestState, Pcs, Given
  <1>2. RowHeld'
    BY DEF RowHeld, Holding, RequestState
  <1>3. Given'
    BY DEF Given, RequestState, SurvivorsOverlapped
  <1>4. Overlapping'
    BY DEF Overlapping, ResetRunning, RequestState
  <1>5. Visited'
    BY DEF Visited, Overlapping, RequestState
  <1>6. SurvivorsOverlapped' /\ SpentMeansReset'
    BY DEF SurvivorsOverlapped, SpentMeansReset, Given, Visited
  <1> QED
    BY <1>1, <1>2, <1>3, <1>4, <1>5, <1>6

LEMMA RequestResetStep ==
    ASSUME IInv, NEW t \in ResetToken, RequestResetPassword(t)
    PROVE  IInv'
  <1> USE DEF IInv, TypeOK, RequestResetPassword, Acceptable, historyVars
  <1>1. TypeOK'
    BY NoRequestType DEF RequestState, Pcs, Given
  <1>2. RowHeld'
    BY DEF RowHeld, Holding, RequestState
  <1>3. Given'
    BY DEF Given, RequestState, SurvivorsOverlapped
  <1>4. Overlapping'
    BY DEF Overlapping, ResetRunning, RequestState
  <1>5. Visited'
    BY DEF Visited, Overlapping, RequestState
  <1>6. SurvivorsOverlapped' /\ SpentMeansReset'
    BY DEF SurvivorsOverlapped, SpentMeansReset, Given, Visited
  <1> QED
    BY <1>1, <1>2, <1>3, <1>4, <1>5, <1>6

LEMMA ExpireResetStep ==
    ASSUME IInv, NEW t \in ResetToken, ExpireReset(t)
    PROVE  IInv'
  <1> USE DEF IInv, TypeOK, ExpireReset, historyVars
  <1>1. TypeOK'
    BY NoRequestType DEF RequestState, Pcs, Given
  <1>2. RowHeld'
    BY DEF RowHeld, Holding, RequestState
  <1>3. Given'
    BY DEF Given, RequestState, SurvivorsOverlapped
  <1>4. Overlapping'
    BY DEF Overlapping, ResetRunning, RequestState
  <1>5. Visited'
    BY DEF Visited, Overlapping, RequestState
  <1>6. SurvivorsOverlapped' /\ SpentMeansReset'
    BY DEF SurvivorsOverlapped, SpentMeansReset, Given, Visited
  <1> QED
    BY <1>1, <1>2, <1>3, <1>4, <1>5, <1>6

LEMMA FindResetStep ==
    ASSUME IInv, NEW r \in Request, NEW t \in ResetToken, FindValidResetToken(r, t)
    PROVE  IInv'
  <1> USE DEF IInv, TypeOK, FindValidResetToken, Acceptable, Choose, Begin, NoRequest, historyVars
  <1>1. TypeOK'
    <2> chosen' \in Password /\ chosen + 1 \in Password
      BY DEF Password
    <2> ResetRunning \in BOOLEAN
      BY DEF ResetRunning
    <2>1. req'[r] \in RequestState
      BY DEF RequestState, Pcs
    <2>2. req' \in [Request -> RequestState]
      BY <2>1
    <2>3. cred' \in [Token -> Password \cup {None}] /\ tokLock' \in [Token -> Request \cup {None}]
      OBVIOUS
    <2> QED
      BY <2>2, <2>3
  <1>2. RowHeld'
    BY DEF RowHeld, Holding, RequestState
  <1>3. Given'
    <2>1. chosen + 1 \in Password
      BY DEF Password
    <2> QED
      BY <2>1 DEF Given, RequestState
  <1>4. Overlapping'
    BY DEF Overlapping, ResetRunning, RequestState
  <1>5. Visited'
    BY DEF Visited, Overlapping, RequestState
  <1>6. SurvivorsOverlapped' /\ SpentMeansReset'
    BY DEF SurvivorsOverlapped, SpentMeansReset, Given, Visited
  <1> QED
    BY <1>1, <1>2, <1>3, <1>4, <1>5, <1>6

LEMMA ReplaceStep ==
    ASSUME IInv, NEW r \in Request, ReplacePassword(r)
    PROVE  IInv'
  <1> USE DEF IInv, TypeOK, ReplacePassword, CanLockUser, Advance, historyVars
  <1>1. TypeOK'
    BY NoRequestType DEF RequestState, Pcs, Given
  <1>2. RowHeld'
    BY DEF RowHeld, Holding, RequestState
  <1>3. Given'
    BY DEF Given, RequestState, SurvivorsOverlapped
  <1>4. Overlapping'
    BY DEF Overlapping, ResetRunning, RequestState
  <1>5. Visited'
    BY DEF Visited, Overlapping, RequestState
  <1>6. SurvivorsOverlapped' /\ SpentMeansReset'
    BY DEF SurvivorsOverlapped, SpentMeansReset, Given, Visited
  <1> QED
    BY <1>1, <1>2, <1>3, <1>4, <1>5, <1>6

LEMMA RevokeAllStep ==
    ASSUME IInv, NEW r \in Request, RevokeAllForUser(r)
    PROVE  IInv'
  <1> USE DEF IInv, TypeOK, RevokeAllForUser, Sees, rowVars, historyVars
  <1>1. TypeOK'
    <2>1. ASSUME NEW q \in Request PROVE req'[q] \in RequestState
      <3>1. CASE q = r
        <4>1. req[r] \in RequestState /\ req'[q] = [req[r] EXCEPT !.pc = "scan", !.todo = live]
          BY <3>1
        <4>2. live \in SUBSET Token
          OBVIOUS
        <4> QED
          BY <4>1, <4>2, ScanningType
      <3>2. CASE q # r
        <4> DEFINE b == req[q].pc # "idle"
        <4>1. req[q] \in RequestState /\ b \in BOOLEAN /\ req'[q] = [req[q] EXCEPT !.overlap = b]
          BY <3>2
        <4> HIDE DEF b
        <4> QED
          BY <4>1 DEF RequestState
      <3> QED
        BY <3>1, <3>2
    <2>2. req' \in [Request -> RequestState]
      BY <2>1
    <2>3. cred' \in [Token -> Password \cup {None}] /\ tokLock' \in [Token -> Request \cup {None}]
      OBVIOUS
    <2> QED
      BY <2>2, <2>3
  <1>2. RowHeld'
    BY DEF RowHeld, Holding, RequestState
  <1>3. Given'
    BY DEF Given, RequestState, SurvivorsOverlapped
  <1>4. Overlapping'
    <2>1. ASSUME NEW q \in Request, q # r PROVE
              req'[q].pc = req[q].pc /\ (req[q].pc # "idle" => req'[q].overlap)
      <3> DEFINE b == req[q].pc # "idle"
      <3>1. req[q] \in RequestState /\ req'[q] = [req[q] EXCEPT !.overlap = b]
        BY <2>1
      <3>2. req'[q].overlap = b
        BY <3>1 DEF RequestState
      <3>3. /\ req'[q].pc = req[q].pc /\ req'[q].old = req[q].old /\ req'[q].new = req[q].new
            /\ req'[q].tok = req[q].tok
        BY <3>1 DEF RequestState
      <3> QED
        BY <3>1, <3>2, <3>3, Zenon
    <2>2. \A q \in Request : q # r => req[q].pc \notin {"scan", "confirm"}
      BY DEF RowHeld, Holding
    <2> QED
      BY <2>1, <2>2 DEF Overlapping
  <1>5. Visited'
    BY DEF Visited, Overlapping, RequestState
  <1>6. SurvivorsOverlapped' /\ SpentMeansReset'
    BY DEF SurvivorsOverlapped, SpentMeansReset, Given, Visited
  <1> QED
    BY <1>1, <1>2, <1>3, <1>4, <1>5, <1>6

LEMMA ScanRowStep ==
    ASSUME IInv, NEW r \in Request, NEW t \in Token, ScanRow(r, t)
    PROVE  IInv'
  <1> USE DEF IInv, TypeOK, ScanRow, historyVars
  <1>1. TypeOK'
    <2>1. req'[r] \in RequestState
      <3>1. /\ req[r] \in RequestState
            /\ req'[r] = [req[r] EXCEPT !.todo = @ \ {t}, !.done = @ \cup {t}]
        OBVIOUS
      <3> HIDE DEF IInv, TypeOK, ScanRow, historyVars
      <3>2. req[r].todo \ {t} \in SUBSET Token /\ req[r].done \cup {t} \in SUBSET Token
        BY <3>1 DEF RequestState
      <3> QED
        BY <3>1, <3>2 DEF RequestState
    <2>2. req' \in [Request -> RequestState]
      BY <2>1, NoRequestType
    <2>3. cred' \in [Token -> Password \cup {None}] /\ tokLock' \in [Token -> Request \cup {None}]
      BY DEF RequestState
    <2> QED
      BY <2>2, <2>3
  <1>2. RowHeld'
    BY DEF RowHeld, Holding, RequestState
  <1>3. Given'
    BY DEF Given, RequestState, SurvivorsOverlapped
  <1>4. Overlapping'
    BY DEF Overlapping, ResetRunning, RequestState
  <1>5. Visited'
    BY DEF Visited, Overlapping, RequestState
  <1>6. SurvivorsOverlapped' /\ SpentMeansReset'
    BY DEF SurvivorsOverlapped, SpentMeansReset, Given, Visited
  <1> QED
    BY <1>1, <1>2, <1>3, <1>4, <1>5, <1>6

LEMMA ScanDoneStep ==
    ASSUME IInv, NEW r \in Request, ScanDone(r)
    PROVE  IInv'
  <1> USE DEF IInv, TypeOK, ScanDone, Unlocked, historyVars
  <1>1. TypeOK'
    <2>1. req'[r] \in RequestState
      <3>1. req[r] \in RequestState /\ req'[r] = [req[r] EXCEPT !.pc = "confirm", !.done = {}]
        OBVIOUS
      <3> HIDE DEF IInv, TypeOK, ScanDone, Unlocked, historyVars
      <3> QED
        BY <3>1 DEF RequestState, Pcs
    <2>2. req' \in [Request -> RequestState]
      BY <2>1, NoRequestType
    <2>3. cred' \in [Token -> Password \cup {None}] /\ tokLock' \in [Token -> Request \cup {None}]
      OBVIOUS
    <2> QED
      BY <2>2, <2>3 DEF RequestState
  <1>2. RowHeld'
    BY DEF RowHeld, Holding, RequestState
  <1>3. Given'
    BY DEF Given, RequestState, SurvivorsOverlapped
  <1>4. Overlapping'
    BY DEF Overlapping, ResetRunning, RequestState
  <1>5. Visited'
    BY DEF Visited, Overlapping, RequestState
  <1>6. SurvivorsOverlapped' /\ SpentMeansReset'
    BY DEF SurvivorsOverlapped, SpentMeansReset, Given, Visited
  <1> QED
    BY <1>1, <1>2, <1>3, <1>4, <1>5, <1>6

LEMMA CommitResetStep ==
    ASSUME IInv, NEW r \in Request, CommitReset(r)
    PROVE  IInv'
  <1> USE DEF IInv, TypeOK, CommitReset, NoRequest, historyVars
  <1>1. TypeOK'
    <2>1. ASSUME NEW q \in Request PROVE req'[q] \in RequestState
      <3> DEFINE b == req[q].pc # "idle"
      <3>1. q = r => req'[q] = NoRequest
        OBVIOUS
      <3>2. q # r => req'[q] = [req[q] EXCEPT !.overlap = b]
        OBVIOUS
      <3>3. req[q] \in RequestState /\ b \in BOOLEAN
        OBVIOUS
      <3> HIDE DEF b, IInv, TypeOK, CommitReset, NoRequest, historyVars
      <3>4. [req[q] EXCEPT !.overlap = b] \in RequestState
        BY <3>3 DEF RequestState
      <3> QED
        BY <3>1, <3>2, <3>4, NoRequestType
    <2>2. req' \in [Request -> RequestState]
      BY <2>1
    <2>3. cred' \in [Token -> Password \cup {None}] /\ tokLock' \in [Token -> Request \cup {None}]
      OBVIOUS
    <2>4. password' \in Password /\ era' \in SUBSET Password /\ password' \in era'
      BY DEF Given
    <2>5. reset' \in [ResetToken -> {"none", "valid", "used", "expired"}]
      OBVIOUS
    <2>6. uses' \in [once : SUBSET ResetToken, twice : SUBSET ResetToken]
      <3>1. req[r].tok \in ResetToken /\ uses.once \in SUBSET ResetToken /\ uses.twice \in SUBSET ResetToken
        BY DEF Given
      <3> QED
        BY <3>1
    <2>7. UNCHANGED <<chosen, live, cred, suspect>> /\ userLock' = None
      OBVIOUS
    <2>8. TypeOK
      OBVIOUS
    <2> HIDE DEF IInv, CommitReset
    <2> QED
      BY <2>2, <2>3, <2>4, <2>5, <2>6, <2>7, <2>8
  <1>2. RowHeld'
    BY DEF RowHeld, Holding, RequestState
  <1>3. Given'
    <2>1. ASSUME NEW q \in Request, q # r PROVE
              /\ req'[q].pc = req[q].pc /\ req'[q].old = req[q].old /\ req'[q].new = req[q].new
              /\ req'[q].tok = req[q].tok /\ (req[q].pc # "idle" => req'[q].overlap)
      <3> DEFINE b == req[q].pc # "idle"
      <3>1. req[q] \in RequestState /\ req'[q] = [req[q] EXCEPT !.overlap = b]
        BY <2>1
      <3>2. req'[q].overlap = b
        BY <3>1 DEF RequestState
      <3>3. /\ req'[q].pc = req[q].pc /\ req'[q].old = req[q].old /\ req'[q].new = req[q].new
            /\ req'[q].tok = req[q].tok
        BY <3>1 DEF RequestState
      <3> QED
        BY <3>1, <3>2, <3>3, Zenon
    <2>2. req'[r].pc = "idle" /\ cred' = cred /\ Given
      OBVIOUS
    <2> HIDE DEF IInv, TypeOK, CommitReset, NoRequest, historyVars
    <2>3. ASSUME NEW q \in Request, q # r, req'[q].pc # "idle" PROVE
              /\ req'[q].overlap
              /\ req'[q].pc \in {"change", "commitChange", "reset", "revoke", "scan", "confirm"} =>
                    req'[q].new \in Password
              /\ req'[q].pc \in {"insert", "change", "commitChange"} => req'[q].old \in Password
              /\ req'[q].pc \in {"reset", "revoke", "scan", "confirm"} => req'[q].tok \in ResetToken
              /\ req'[q].pc = "rotate" => req'[q].tok \in Token /\ cred'[req'[q].tok] \in Password
      BY <2>1, <2>2, <2>3 DEF Given
    <2> QED
      BY <2>2, <2>3 DEF Given
  <1>4. Overlapping'
    BY DEF Overlapping, ResetRunning, RequestState
  <1>5. Visited'
    BY DEF Visited, Overlapping, RequestState
  <1>6. SurvivorsOverlapped' /\ SpentMeansReset'
    BY DEF SurvivorsOverlapped, SpentMeansReset, Given, Visited
  <1> QED
    BY <1>1, <1>2, <1>3, <1>4, <1>5, <1>6

LEMMA LockRowStep ==
    ASSUME IInv, NEW r \in Request, NEW t \in Token, LockRow(r, t)
    PROVE  IInv'
  <1> USE DEF IInv, TypeOK, LockRow, Begin, NoRequest, historyVars
  <1>1. TypeOK'
    <2> ResetRunning \in BOOLEAN
      BY DEF ResetRunning
    <2>1. req'[r] \in RequestState
      <3>1. /\ cred[t] \in Password
            /\ req'[r] = [NoRequest EXCEPT !.pc = "rotate", !.old = cred[t], !.new = None, !.tok = t,
                                           !.overlap = ResetRunning]
        OBVIOUS
      <3> HIDE DEF IInv, TypeOK, LockRow, Begin
      <3> QED
        BY <3>1 DEF RequestState, Pcs
    <2>2. req' \in [Request -> RequestState]
      BY <2>1
    <2>3. cred' \in [Token -> Password \cup {None}] /\ tokLock' \in [Token -> Request \cup {None}]
      OBVIOUS
    <2> QED
      BY <2>2, <2>3
  <1>2. RowHeld'
    BY DEF RowHeld, Holding, RequestState
  <1>3. Given'
    BY DEF Given, RequestState, SurvivorsOverlapped
  <1>4. Overlapping'
    BY DEF Overlapping, ResetRunning, RequestState
  <1>5. Visited'
    BY DEF Visited, Overlapping, RequestState
  <1>6. SurvivorsOverlapped' /\ SpentMeansReset'
    BY DEF SurvivorsOverlapped, SpentMeansReset, Given, Visited
  <1> QED
    BY <1>1, <1>2, <1>3, <1>4, <1>5, <1>6

LEMMA RotateStep ==
    ASSUME IInv, NEW r \in Request, NEW t \in Token, Rotate(r, t)
    PROVE  IInv'
  <1> USE DEF IInv, TypeOK, Rotate, Insert, Fresh, Unlocked, NoRequest, historyVars
  <1>1. TypeOK'
    <2>1. req'[r] \in RequestState
      BY NoRequestType DEF RequestState, Pcs
    <2>2. req' \in [Request -> RequestState]
      BY <2>1, NoRequestType
    <2>3. cred' \in [Token -> Password \cup {None}] /\ tokLock' \in [Token -> Request \cup {None}]
      BY DEF Given
    <2>4. \A s \in live' : cred'[s] \in Password
      BY DEF Given
    <2> QED
      BY <2>2, <2>3, <2>4
  <1>2. RowHeld'
    BY DEF RowHeld, Holding, RequestState
  <1>3. Given'
    BY DEF Given, RequestState, SurvivorsOverlapped
  <1>4. Overlapping'
    BY DEF Overlapping, ResetRunning, RequestState
  <1>5. Visited'
    BY DEF Visited, Overlapping, RequestState
  <1>6. SurvivorsOverlapped' /\ SpentMeansReset'
    BY DEF SurvivorsOverlapped, SpentMeansReset, Given, Visited
  <1> QED
    BY <1>1, <1>2, <1>3, <1>4, <1>5, <1>6

LEMMA EndSessionStep ==
    ASSUME IInv, NEW t \in Token, EndSession(t)
    PROVE  IInv'
  <1> USE DEF IInv, TypeOK, EndSession, historyVars
  <1>1. TypeOK'
    BY NoRequestType DEF RequestState, Pcs, Given
  <1>2. RowHeld'
    BY DEF RowHeld, Holding, RequestState
  <1>3. Given'
    BY DEF Given, RequestState, SurvivorsOverlapped
  <1>4. Overlapping'
    BY DEF Overlapping, ResetRunning, RequestState
  <1>5. Visited'
    BY DEF Visited, Overlapping, RequestState
  <1>6. SurvivorsOverlapped' /\ SpentMeansReset'
    BY DEF SurvivorsOverlapped, SpentMeansReset, Given, Visited
  <1> QED
    BY <1>1, <1>2, <1>3, <1>4, <1>5, <1>6

LEMMA FailStep ==
    ASSUME IInv, NEW r \in Request, Fail(r)
    PROVE  IInv'
  <1> USE DEF IInv, TypeOK, Fail, Unlocked, NoRequest, historyVars
  <1>1. TypeOK'
    BY NoRequestType DEF RequestState, Pcs, Given
  <1>2. RowHeld'
    BY DEF RowHeld, Holding, RequestState
  <1>3. Given'
    BY DEF Given, RequestState, SurvivorsOverlapped
  <1>4. Overlapping'
    BY DEF Overlapping, ResetRunning, RequestState
  <1>5. Visited'
    BY DEF Visited, Overlapping, RequestState
  <1>6. SurvivorsOverlapped' /\ SpentMeansReset'
    BY DEF SurvivorsOverlapped, SpentMeansReset, Given, Visited
  <1> QED
    BY <1>1, <1>2, <1>3, <1>4, <1>5, <1>6

----------------------------------------------------------------------------
(* The theorems                                                            *)

LEMMA NextInv == IInv /\ [Next]_vars => IInv'
  <1> SUFFICES ASSUME IInv, [Next]_vars PROVE IInv'
    OBVIOUS
  <1>1. CASE UNCHANGED vars
    BY <1>1
    DEF vars, rowVars, historyVars, IInv, TypeOK, RowHeld, Given, Overlapping, Visited,
        SurvivorsOverlapped, SpentMeansReset
  <1>2. ASSUME NEW r \in Request, Arrive(r) PROVE IInv'
    BY <1>2, CompareStep, VerifyStep, FindResetStep, LockRowStep DEF Arrive
  <1>3. ASSUME NEW r \in Request, Step(r) PROVE IInv'
    BY <1>3, UpdateStep, CommitChangeStep, ReplaceStep, RevokeAllStep, ScanDoneStep,
       CommitResetStep, InsertStep, ScanRowStep, RotateStep
    DEF Step
  <1> QED
    BY <1>1, <1>2, <1>3, FailStep, RequestResetStep, ExpireResetStep, EndSessionStep DEF Next

\* The invariant of the argument above holds of every execution.
THEOREM Inductive == Spec => []IInv
  BY InitInv, NextInv, PTL DEF Spec

\* Every variable has its type in every execution: rows and requests hold what the
\* statements that read them expect.
THEOREM TypeCorrect == Spec => []TypeOK
  BY Inductive, PTL DEF IInv

\* After ResetPassword the only sessions obtained with an older password are those
\* committed by requests that overlapped it, and their descendants.
THEOREM Survivors == Spec => []SurvivorsOverlapped
  BY Inductive, PTL DEF IInv

\* used_at is set exactly by the resets that committed.
THEOREM Spent == Spec => []SpentMeansReset
  BY Inductive, PTL DEF IInv
=============================================================================
