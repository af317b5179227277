--------------------------- MODULE AccountsProofs ---------------------------
(***************************************************************************)
(* Proofs about Accounts for any number of links, requests and failures.   *)
(* The argument: the unique index lets one uncommitted users row exist and *)
(* only while there is no committed one.  Until a statement fails, an      *)
(* account that is not verified has a link that works, or a request that   *)
(* will make one or that will verify the account.                          *)
(***************************************************************************)
EXTENDS Accounts, TLAPS

\* The uncommitted row is that of the request about to commit.
Inserting ==
    /\ inserter # None => user = "none"
    /\ \A r \in Request : req[r].pc = "commit" <=> inserter = r

\* Requests about links run only for an account that exists.
Exists ==
    /\ \A r \in Request :
         /\ req[r].pc \in {"mark", "activate", "delete", "link", "send"} => user # "none"
         /\ req[r].pc \in {"mark", "activate", "send"} => req[r].link # None

\* The mailbox has no deleted links.  One that has not been sent is known to the
\* request that will send it only.
Posted ==
    /\ \A l \in mailbox : links[l] \in {"valid", "used", "expired"}
    /\ \A r \in Request : req[r].pc = "send" =>
         /\ links[req[r].link] \in {"valid", "deleted"} /\ req[r].link \notin mailbox
         /\ \A s \in Request : req[s].link = req[r].link => s = r

Promising(r) ==
    \/ req[r].pc \in {"activate", "link"}
    \/ req[r].pc = "send" /\ links[req[r].link] = "valid"

\* A link that works, or a request that promises one or the verification.
Hopeful ==
    faults = 0 /\ user = "inactive" =>
        \/ \E l \in mailbox : links[l] \in {"valid", "expired"}
        \/ \E r \in Request : Promising(r)

IInv == TypeOK /\ OneSignup /\ Inserting /\ Exists /\ Posted /\ Hopeful

USE NoneIsFresh, FaultsBounded

----------------------------------------------------------------------------

LEMMA InitInv == Init => IInv
  BY DEF Init, NoRequest, Pcs, IInv, TypeOK, OneSignup, Inserting, Exists, Posted, Hopeful

LEMMA SignupStep ==
    ASSUME IInv, NEW r \in Request, Signup(r)
    PROVE  IInv'
  <1> USE DEF IInv, TypeOK, Signup, Go
  <1>1. TypeOK'
    BY DEF Pcs, Exists, Inserting
  <1>2. OneSignup' /\ Inserting' /\ Exists'
    BY DEF OneSignup, Inserting, Exists
  <1>3. Posted'
    BY DEF Posted, Exists
  <1>4. Hopeful'
    BY DEF Hopeful, Promising, Posted, Exists, Inserting
  <1> QED
    BY <1>1, <1>2, <1>3, <1>4

LEMMA CreateUserStep ==
    ASSUME IInv, NEW r \in Request, CreateUser(r)
    PROVE  IInv'
  <1> USE DEF IInv, TypeOK, CreateUser, Go, End, NoRequest
  <1>1. TypeOK'
    BY DEF Pcs, Exists, Inserting
  <1>2. OneSignup' /\ Inserting' /\ Exists'
    BY DEF OneSignup, Inserting, Exists
  <1>3. Posted'
    BY DEF Posted, Exists
  <1>4. Hopeful'
    BY DEF Hopeful, Promising, Posted, Exists, Inserting
  <1> QED
    BY <1>1, <1>2, <1>3, <1>4

LEMMA CommitSignupStep ==
    ASSUME IInv, NEW r \in Request, NEW l \in Link, CommitSignup(r, l)
    PROVE  IInv'
  <1> USE DEF IInv, TypeOK, CommitSignup, Fresh, End, NoRequest
  <1>1. TypeOK'
    BY DEF Pcs, Exists, Inserting
  <1>2. OneSignup' /\ Inserting' /\ Exists'
    BY DEF OneSignup, Inserting, Exists
  <1>3. Posted'
    BY DEF Posted, Exists
  <1>4. Hopeful'
    BY DEF Hopeful, Promising, Posted, Exists, Inserting
  <1> QED
    BY <1>1, <1>2, <1>3, <1>4

LEMMA FindLinkStep ==
    ASSUME IInv, NEW r \in Request, NEW l \in Link, FindLink(r, l)
    PROVE  IInv'
  <1> USE DEF IInv, TypeOK, FindLink, FindValidByHash, Go
  <1>1. TypeOK'
    BY DEF Pcs, Exists, Inserting
  <1>2. OneSignup' /\ Inserting' /\ Exists'
    BY DEF OneSignup, Inserting, Exists
  <1>3. Posted'
    BY DEF Posted, Exists
  <1>4. Hopeful'
    BY DEF Hopeful, Promising, Posted, Exists, Inserting
  <1> QED
    BY <1>1, <1>2, <1>3, <1>4

LEMMA MarkUsedStep ==
    ASSUME IInv, NEW r \in Request, MarkUsed(r)
    PROVE  IInv'
  <1> USE DEF IInv, TypeOK, MarkUsed, Go
  <1>1. TypeOK'
    BY DEF Pcs, Exists, Inserting
  <1>2. OneSignup' /\ Inserting' /\ Exists'
    BY DEF OneSignup, Inserting, Exists
  <1>3. Posted'
    BY DEF Posted, Exists
  <1>4. Hopeful'
    BY DEF Hopeful, Promising, Posted, Exists, Inserting
  <1> QED
    BY <1>1, <1>2, <1>3, <1>4

LEMMA ActivateUserStep ==
    ASSUME IInv, NEW r \in Request, ActivateUser(r)
    PROVE  IInv'
  <1> USE DEF IInv, TypeOK, ActivateUser, End, NoRequest
  <1>1. TypeOK'
    BY DEF Pcs, Exists, Inserting
  <1>2. OneSignup' /\ Inserting' /\ Exists'
    BY DEF OneSignup, Inserting, Exists
  <1>3. Posted'
    BY DEF Posted, Exists
  <1>4. Hopeful'
    BY DEF Hopeful, Promising, Posted, Exists, Inserting
  <1> QED
    BY <1>1, <1>2, <1>3, <1>4

LEMMA ResendStep ==
    ASSUME IInv, NEW r \in Request, ResendVerification(r)
    PROVE  IInv'
  <1> USE DEF IInv, TypeOK, ResendVerification, Go
  <1>1. TypeOK'
    BY DEF Pcs, Exists, Inserting
  <1>2. OneSignup' /\ Inserting' /\ Exists'
    BY DEF OneSignup, Inserting, Exists
  <1>3. Posted'
    BY DEF Posted, Exists
  <1>4. Hopeful'
    BY DEF Hopeful, Promising, Posted, Exists, Inserting
  <1> QED
    BY <1>1, <1>2, <1>3, <1>4

LEMMA DeleteStep ==
    ASSUME IInv, NEW r \in Request, DeleteByUserID(r)
    PROVE  IInv'
  <1> USE DEF IInv, TypeOK, DeleteByUserID, DeleteRows, Rows, Go
  <1>1. TypeOK'
    BY DEF Pcs, Exists, Inserting
  <1>2. OneSignup' /\ Inserting' /\ Exists'
    BY DEF OneSignup, Inserting, Exists
  <1>3. Posted'
    BY DEF Posted, Exists
  <1>4. Hopeful'
    BY DEF Hopeful, Promising, Posted, Exists, Inserting
  <1> QED
    BY <1>1, <1>2, <1>3, <1>4

LEMMA CreateLinkStep ==
    ASSUME IInv, NEW r \in Request, NEW l \in Link, CreateLink(r, l)
    PROVE  IInv'
  <1> USE DEF IInv, TypeOK, CreateLink, Fresh, Go
  <1>1. TypeOK'
    BY DEF Pcs, Exists, Inserting
  <1>2. OneSignup' /\ Inserting' /\ Exists'
    BY DEF OneSignup, Inserting, Exists
  <1>3. Posted'
    BY DEF Posted, Exists
  <1>4. Hopeful'
    BY DEF Hopeful, Promising, Posted, Exists, Inserting
  <1> QED
    BY <1>1, <1>2, <1>3, <1>4

LEMMA SendStep ==
    ASSUME IInv, NEW r \in Request, SendVerificationEmail(r)
    PROVE  IInv'
  <1> USE DEF IInv, TypeOK, SendVerificationEmail, End, NoRequest
  <1>1. TypeOK'
    BY DEF Pcs, Exists, Inserting
  <1>2. OneSignup' /\ Inserting' /\ Exists'
    BY DEF OneSignup, Inserting, Exists
  <1>3. Posted'
    BY DEF Posted, Exists
  <1>4. Hopeful'
    BY DEF Hopeful, Promising, Posted, Exists, Inserting
  <1> QED
    BY <1>1, <1>2, <1>3, <1>4

LEMMA ExpireStep ==
    ASSUME IInv, NEW l \in Link, Expire(l)
    PROVE  IInv'
  <1> USE DEF IInv, TypeOK, Expire
  <1>1. TypeOK'
    BY DEF Pcs, Exists, Inserting
  <1>2. OneSignup' /\ Inserting' /\ Exists'
    BY DEF OneSignup, Inserting, Exists
  <1>3. Posted'
    BY DEF Posted, Exists
  <1>4. Hopeful'
    BY DEF Hopeful, Promising, Posted, Exists, Inserting
  <1> QED
    BY <1>1, <1>2, <1>3, <1>4

LEMMA FailStep ==
    ASSUME IInv, NEW r \in Request, Fail(r)
    PROVE  IInv'
  <1> USE DEF IInv, TypeOK, Fail, End, NoRequest
  <1>1. TypeOK'
    BY DEF Pcs, Exists, Inserting
  <1>2. OneSignup' /\ Inserting' /\ Exists'
    BY DEF OneSignup, Inserting, Exists
  <1>3. Posted'
    BY DEF Posted, Exists
  <1>4. Hopeful'
    BY DEF Hopeful, Promising, Posted, Exists, Inserting
  <1> QED
    BY <1>1, <1>2, <1>3, <1>4

----------------------------------------------------------------------------

LEMMA NextStep == ASSUME IInv, [Next]_vars PROVE IInv'
  <1>1. CASE UNCHANGED vars
    BY <1>1 DEF vars, IInv, TypeOK, OneSignup, Inserting, Exists, Posted, Hopeful, Promising
  <1>2. ASSUME NEW r \in Request, Step(r) PROVE IInv'
    BY <1>2, CreateUserStep, MarkUsedStep, ActivateUserStep, DeleteStep, SendStep, CommitSignupStep,
       CreateLinkStep DEF Step
  <1>3. ASSUME NEW r \in Request, Signup(r) \/ ResendVerification(r) \/ Fail(r) PROVE IInv'
    BY <1>3, SignupStep, ResendStep, FailStep
  <1>4. ASSUME NEW r \in Request, NEW l \in Link, FindLink(r, l) PROVE IInv'
    BY <1>4, FindLinkStep
  <1>5. ASSUME NEW l \in Link, Expire(l) PROVE IInv'
    BY <1>5, ExpireStep
  <1> QED
    BY <1>1, <1>2, <1>3, <1>4, <1>5 DEF Next

\* Every statement of SignupService, VerifyEmail and ResendVerification, and its
\* failure, keeps rows, links and requests in step.
THEOREM Inductive == Spec => []IInv
  BY InitInv, NextStep, PTL DEF Spec

\* The three services keep every variable in its type.
THEOREM TypeCorrect == Spec => []TypeOK
  BY Inductive, PTL DEF IInv

\* SignupService commits at most one account for an address.
THEOREM SignedUpOnce == Spec => []OneSignup
  BY Inductive, PTL DEF IInv

\* Without failures, resends that race leave an unverified account a link.
THEOREM LinkRemains == Spec => []WorkingLinkRemains
  <1>1. IInv => WorkingLinkRemains
    BY DEF IInv, Hopeful, Promising, WorkingLinkRemains, Quiet
  <1> QED
    BY <1>1, Inductive, PTL
=============================================================================
