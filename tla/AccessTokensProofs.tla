------------------------- MODULE AccessTokensProofs -------------------------
(***************************************************************************)
(* Proofs about AccessTokens, for every set of tokens and requests and any *)
(* lifetime of an access token.  The argument: once a session has ended,   *)
(* Sessions gives it no refresh token again, so no request of it will sign *)
(* unless one had committed already (the session is late); from then on    *)
(* what has been signed grows old as fast as the end of the session does.  *)
(***************************************************************************)
EXTENDS AccessTokens, TLAPS

\* A refresh token that was handed out belongs to a session that was opened.
Named == \A t \in Token : session[t] # None => session[session[t]] = session[t]

\* So does a valid one, and a request that has committed.
Known ==
    /\ \A t \in valid : session[t] # None
    /\ \A r \in Request :
         /\ req[r].session # None => session[req[r].session] = req[r].session
         /\ req[r].pc \in {"find", "sign", "respond"} => req[r].session # None

\* A session that ended without being late has nothing left to sign.
Signed == \A s \in Token : Ended(s) /\ s \notin late => ~Unsigned(s)

\* What was signed for it, delivered or not, and its end have the same age.
Aged ==
    \A s \in Token : Ended(s) /\ s \notin late =>
        /\ left[s] > 0 => left[s] + since[s] <= AccessTTL
        /\ \A r \in Request : req[r].session = s /\ req[r].left > 0 =>
               req[r].left + since[s] <= AccessTTL

\* The clock of a session starts when the session ends.
Stopped == \A s \in Token : since[s] > 0 => Ended(s)

IInv == TypeOK /\ Named /\ Known /\ Signed /\ Aged /\ Stopped

USE TTLIsPositive, NoneIsFresh

----------------------------------------------------------------------------

LEMMA InitInv == Init => IInv
  BY DEF Init, S!Init, IInv, TypeOK, RequestState, NoRequest, Remaining, Named, Known, Signed, Aged,
         Stopped, Ended, Alive, Unsigned

LEMMA RangeType == 0 \in Remaining /\ AccessTTL \in Remaining
  BY DEF Remaining

LEMMA RequestType == NoRequest \in RequestState
  BY RangeType DEF NoRequest, RequestState

LEMMA LoginStep ==
    ASSUME IInv, NEW r \in Request, Login(r)
    PROVE  IInv'
  <1> USE DEF IInv, TypeOK, Login, GenerateAccessToken
  <1>1. TypeOK'
    <2>1. [NoRequest EXCEPT !.pc = "login", !.left = AccessTTL] \in RequestState
      BY RangeType, RequestType DEF RequestState
    <2> QED
      BY <2>1
  <1>2. Named' /\ Known'
    BY <1>1 DEF RequestState, NoRequest, Remaining, Named, Known
  <1>3. Signed'
    BY <1>1 DEF RequestState, NoRequest, Remaining, Signed, Named, Known, Ended, Alive, Unsigned
  <1>4. Aged'
    BY <1>1 DEF RequestState, NoRequest, Remaining, Aged, Signed, Stopped, Named, Known, Ended, Alive, Unsigned
  <1>5. Stopped'
    BY <1>1 DEF RequestState, NoRequest, Remaining, Stopped, Named, Known, Ended, Alive
  <1> QED
    BY <1>1, <1>2, <1>3, <1>4, <1>5

LEMMA CommitLoginStep ==
    ASSUME IInv, NEW r \in Request, NEW t \in Token, CommitLogin(r, t)
    PROVE  IInv'
  <1> USE DEF IInv, TypeOK, CommitLogin, S!Open
  <1>1. TypeOK'
    <2>1. [req[r] EXCEPT !.pc = "respond", !.session = t] \in RequestState
      BY RangeType, RequestType DEF RequestState
    <2> QED
      BY <2>1
  <1>2. Named' /\ Known'
    BY <1>1 DEF RequestState, Remaining, Named, Known
  <1>3. Signed'
    BY <1>1 DEF RequestState, Remaining, Signed, Named, Known, Ended, Alive, Unsigned
  <1>4. Aged'
    BY <1>1 DEF RequestState, Remaining, Aged, Signed, Stopped, Named, Known, Ended, Alive, Unsigned
  <1>5. Stopped'
    BY <1>1 DEF RequestState, Remaining, Stopped, Named, Known, Ended, Alive
  <1> QED
    BY <1>1, <1>2, <1>3, <1>4, <1>5

LEMMA SignupStep ==
    ASSUME IInv, NEW r \in Request, NEW t \in Token, Signup(r, t)
    PROVE  IInv'
  <1> USE DEF IInv, TypeOK, Signup, S!Open
  <1>1. TypeOK'
    <2>1. [NoRequest EXCEPT !.pc = "sign", !.session = t] \in RequestState
      BY RangeType, RequestType DEF RequestState
    <2> QED
      BY <2>1
  <1>2. Named' /\ Known'
    BY <1>1 DEF RequestState, NoRequest, Remaining, Named, Known
  <1>3. Signed'
    BY <1>1 DEF RequestState, NoRequest, Remaining, Signed, Named, Known, Ended, Alive, Unsigned
  <1>4. Aged'
    BY <1>1 DEF RequestState, NoRequest, Remaining, Aged, Signed, Stopped, Named, Known, Ended, Alive, Unsigned
  <1>5. Stopped'
    BY <1>1 DEF RequestState, NoRequest, Remaining, Stopped, Named, Known, Ended, Alive
  <1> QED
    BY <1>1, <1>2, <1>3, <1>4, <1>5

LEMMA RefreshStep ==
    ASSUME IInv, NEW r \in Request, NEW old \in Token, NEW new \in Token, Refresh(r, old, new)
    PROVE  IInv'
  <1> USE DEF IInv, TypeOK, Refresh, S!Exchange
  <1>1. TypeOK'
    <2>1. session[old] \in Token
      BY DEF Known
    <2>2. [NoRequest EXCEPT !.pc = "find", !.session = session[old]] \in RequestState
      BY <2>1, RequestType DEF RequestState
    <2> QED
      BY <2>2
  <1>2. Named' /\ Known'
    BY <1>1 DEF RequestState, NoRequest, Remaining, Named, Known
  <1>3. Signed'
    BY <1>1 DEF RequestState, NoRequest, Remaining, Signed, Named, Known, Ended, Alive, Unsigned
  <1>4. Aged'
    BY <1>1 DEF RequestState, NoRequest, Remaining, Aged, Signed, Stopped, Named, Known, Ended, Alive, Unsigned
  <1>5. Stopped'
    BY <1>1 DEF RequestState, NoRequest, Remaining, Stopped, Named, Known, Ended, Alive
  <1> QED
    BY <1>1, <1>2, <1>3, <1>4, <1>5

LEMMA FindByIDStep ==
    ASSUME IInv, NEW r \in Request, FindByID(r)
    PROVE  IInv'
  <1> USE DEF IInv, TypeOK, FindByID
  <1>1. TypeOK'
    <2>1. [req[r] EXCEPT !.pc = "sign"] \in RequestState
      BY RangeType, RequestType DEF RequestState
    <2> QED
      BY <2>1
  <1>2. Named' /\ Known'
    BY <1>1 DEF RequestState, Remaining, Named, Known
  <1>3. Signed'
    BY <1>1 DEF RequestState, Remaining, Signed, Named, Known, Ended, Alive, Unsigned
  <1>4. Aged'
    BY <1>1 DEF RequestState, Remaining, Aged, Signed, Stopped, Named, Known, Ended, Alive, Unsigned
  <1>5. Stopped'
    BY <1>1 DEF RequestState, Remaining, Stopped, Named, Known, Ended, Alive
  <1> QED
    BY <1>1, <1>2, <1>3, <1>4, <1>5

LEMMA SignStep ==
    ASSUME IInv, NEW r \in Request, Sign(r)
    PROVE  IInv'
  <1> USE DEF IInv, TypeOK, Sign, GenerateAccessToken
  <1>1. TypeOK'
    <2>1. [req[r] EXCEPT !.pc = "respond", !.left = AccessTTL] \in RequestState
      BY RangeType, RequestType DEF RequestState
    <2> QED
      BY <2>1
  <1>2. Named' /\ Known'
    BY <1>1 DEF RequestState, Remaining, Named, Known
  <1>3. Signed'
    BY <1>1 DEF RequestState, Remaining, Signed, Named, Known, Ended, Alive, Unsigned
  <1>4. Aged'
    BY <1>1 DEF RequestState, Remaining, Aged, Signed, Stopped, Named, Known, Ended, Alive, Unsigned
  <1>5. Stopped'
    BY <1>1 DEF RequestState, Remaining, Stopped, Named, Known, Ended, Alive
  <1> QED
    BY <1>1, <1>2, <1>3, <1>4, <1>5

LEMMA RespondStep ==
    ASSUME IInv, NEW r \in Request, Respond(r)
    PROVE  IInv'
  <1> USE DEF IInv, TypeOK, Respond, Later
  <1>1. TypeOK'
    <2>1. req[r].session \in Token /\ req[r].left \in Remaining
      BY DEF RequestState, Known
    <2> QED
      BY <2>1, RequestType
  <1>2. Named' /\ Known'
    BY <1>1 DEF RequestState, NoRequest, Remaining, Named, Known
  <1>3. Signed'
    BY <1>1 DEF RequestState, NoRequest, Remaining, Signed, Named, Known, Ended, Alive, Unsigned
  <1>4. Aged'
    BY <1>1 DEF RequestState, NoRequest, Remaining, Aged, Signed, Stopped, Named, Known, Ended, Alive, Unsigned
  <1>5. Stopped'
    BY <1>1 DEF RequestState, NoRequest, Remaining, Stopped, Named, Known, Ended, Alive
  <1> QED
    BY <1>1, <1>2, <1>3, <1>4, <1>5

LEMMA FailStep ==
    ASSUME IInv, NEW r \in Request, Fail(r)
    PROVE  IInv'
  <1> USE DEF IInv, TypeOK, Fail
  <1>1. TypeOK'
    BY RequestType
  <1>2. Named' /\ Known'
    BY <1>1 DEF RequestState, NoRequest, Remaining, Named, Known
  <1>3. Signed'
    BY <1>1 DEF RequestState, NoRequest, Remaining, Signed, Named, Known, Ended, Alive, Unsigned
  <1>4. Aged'
    BY <1>1 DEF RequestState, NoRequest, Remaining, Aged, Signed, Stopped, Named, Known, Ended, Alive, Unsigned
  <1>5. Stopped'
    BY <1>1 DEF RequestState, NoRequest, Remaining, Stopped, Named, Known, Ended, Alive
  <1> QED
    BY <1>1, <1>2, <1>3, <1>4, <1>5

LEMMA CloseStep ==
    ASSUME IInv, NEW T \in SUBSET valid, Close(T)
    PROVE  IInv'
  <1> USE DEF IInv, TypeOK, Close, S!Close
  <1>1. TypeOK'
    OBVIOUS
  <1>2. Named' /\ Known'
    BY <1>1 DEF RequestState, Remaining, Named, Known
  <1>3. Signed'
    BY <1>1 DEF RequestState, Remaining, Signed, Named, Known, Ended, Alive, Unsigned
  <1>4. Aged'
    BY <1>1 DEF RequestState, Remaining, Aged, Signed, Stopped, Named, Known, Ended, Alive, Unsigned
  <1>5. Stopped'
    BY <1>1 DEF RequestState, Remaining, Stopped, Named, Known, Ended, Alive
  <1> QED
    BY <1>1, <1>2, <1>3, <1>4, <1>5

LEMMA TickStep ==
    ASSUME IInv, Tick
    PROVE  IInv'
  <1> USE DEF IInv, TypeOK, Tick
  <1>1. TypeOK'
    <2>1. \A n \in Remaining : Less(n) \in Remaining
      BY DEF Remaining, Less
    <2>2. \A r \in Request : [req[r] EXCEPT !.left = Less(@)] \in RequestState
      BY <2>1 DEF RequestState
    <2>3. since' \in [Token -> Remaining]
      BY DEF Remaining
    <2> QED
      BY <2>1, <2>2, <2>3
  <1>2. Named' /\ Known'
    BY <1>1 DEF RequestState, Less, Remaining, Named, Known
  <1>3. Signed'
    <2>1. \A r \in Request : req'[r].pc = req[r].pc /\ req'[r].session = req[r].session
      BY DEF RequestState
    <2> QED
      BY <2>1 DEF Signed, Ended, Alive, Unsigned
  <1>4. Aged'
    BY <1>1 DEF RequestState, Less, Remaining, Aged, Signed, Stopped, Named, Known, Ended, Alive, Unsigned
  <1>5. Stopped'
    BY <1>1 DEF RequestState, Less, Remaining, Stopped, Named, Known, Ended, Alive
  <1> QED
    BY <1>1, <1>2, <1>3, <1>4, <1>5

----------------------------------------------------------------------------

\* Every step of the service and of time keeps the ages of sessions and of what was
\* signed for them in step.
THEOREM Inductive == Spec => []IInv
  <1>1. ASSUME IInv, [Next]_vars PROVE IInv'
    <2>1. CASE UNCHANGED vars
      BY <1>1, <2>1 DEF vars, IInv, TypeOK, Named, Known, Signed, Aged, Stopped, Ended, Alive, Unsigned
    <2>2. ASSUME NEW r \in Request, Login(r) \/ Answering(r) PROVE IInv'
      BY <1>1, <2>2, LoginStep, FindByIDStep, SignStep, RespondStep, FailStep DEF Answering
    <2>3. ASSUME NEW r \in Request, NEW t \in Token, CommitLogin(r, t) \/ Signup(r, t) PROVE IInv'
      BY <1>1, <2>3, CommitLoginStep, SignupStep
    <2>4. ASSUME NEW r \in Request, NEW old \in Token, NEW new \in Token, Refresh(r, old, new)
          PROVE  IInv'
      BY <1>1, <2>4, RefreshStep
    <2>5. ASSUME NEW T \in SUBSET valid, Close(T) PROVE IInv'
      BY <1>1, <2>5, CloseStep
    <2> QED
      BY <1>1, <2>1, <2>2, <2>3, <2>4, <2>5, TickStep DEF Next
  <1> QED
    BY <1>1, InitInv, PTL DEF Spec

\* Login, SignupService, Refresh, the ends of sessions and time keep every variable
\* in its type.
THEOREM TypeCorrect == Spec => []TypeOK
  BY Inductive, PTL DEF IInv

\* JWTMiddleware accepts an access token of a session that has ended for less than
\* the lifetime of the token, unless Refresh or SignupService signed it late.
THEOREM OutlivesBriefly == Spec => []AccessOutlivesBriefly
  <1>1. IInv => AccessOutlivesBriefly
    BY DEF IInv, TypeOK, Remaining, Aged, AccessOutlivesBriefly, Accepted, ParseWithClaims
  <1> QED
    BY <1>1, Inductive, PTL
=============================================================================
