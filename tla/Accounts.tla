------------------------------ MODULE Accounts ------------------------------
(***************************************************************************)
(* Signing up with one email address of one tenant, and verifying it:      *)
(* SignupService, VerifyEmail and ResendVerification running concurrently. *)
(*                                                                         *)
(* SignupService is one transaction, whose INSERT INTO users waits for     *)
(* another uncommitted one with the same (tenant_id, email).  VerifyEmail  *)
(* and ResendVerification are separate autocommitted statements between    *)
(* which anything may happen, a failure included.  A link stands for an    *)
(* email verification token.                                               *)
(***************************************************************************)
EXTENDS Naturals, FiniteSets

CONSTANTS
    Link,       \* email verification tokens
    Request,    \* requests served at one time
    MaxFaults,  \* bound: statements and requests that fail
    None

ASSUME NoneIsFresh == None \notin Link \cup Request
ASSUME FaultsBounded == MaxFaults \in Nat

VARIABLES
    user,      \* the committed users row: "none", "inactive" or "active"
    inserter,  \* the request with an uncommitted users row for the address
    links,     \* email_verification_tokens: "none", "valid", "used", "expired", "deleted"
    mailbox,   \* the links sent by SMTP or handed to the outbox, but the deleted ones
    req,       \* the request in each slot
    signups,   \* history: committed signups, at most 2 counted
    faults     \* history: failures so far

vars == <<user, inserter, links, mailbox, req, signups, faults>>

Pcs == {"idle", "create", "commit", "mark", "activate", "delete", "link", "send"}

NoRequest == [pc |-> "idle", link |-> None]

Init ==
    /\ user = "none" /\ inserter = None
    /\ links = [l \in Link |-> "none"]
    /\ mailbox = {}
    /\ req = [r \in Request |-> NoRequest]
    /\ signups = 0 /\ faults = 0

Go(r, pc, link) == req' = [req EXCEPT ![r] = [pc |-> pc, link |-> link]]
End(r) == req' = [req EXCEPT ![r] = NoRequest]

\* Identifiers of rows nothing refers to any more are taken again.
Fresh(l) ==
    /\ links[l] \in {"none", "deleted"}
    /\ \A r \in Request : req[r].link # l

----------------------------------------------------------------------------
(* SignupService                                                           *)

Signup(r) ==
    /\ req[r].pc = "idle"
    /\ Go(r, "create", None)
    /\ UNCHANGED <<user, inserter, links, mailbox, signups, faults>>

CheckOnly(r) ==
    /\ req[r].pc = "create"
    /\ IF user = "none"
       THEN Go(r, "commit", None) /\ inserter' = r
       ELSE End(r) /\ UNCHANGED inserter
    /\ UNCHANGED <<user, links, mailbox, signups, faults>>

\* users.CreateTx: a duplicate ends the request with ErrEmailAlreadyExists.
CreateUser(r) ==
    /\ req[r].pc = "create" /\ inserter = None
    /\ IF user = "none"
       THEN Go(r, "commit", None) /\ inserter' = r
       ELSE End(r) /\ UNCHANGED inserter
    /\ UNCHANGED <<user, links, mailbox, signups, faults>>

\* The token, the first refresh token, both events and the commit.
CommitSignup(r, l) ==
    /\ req[r].pc = "commit" /\ Fresh(l)
    /\ user' = "inactive" /\ inserter' = None
    /\ links' = [links EXCEPT ![l] = "valid"]
    /\ mailbox' = mailbox \cup {l}
    /\ signups' = IF signups < 2 THEN signups + 1 ELSE signups
    /\ End(r)
    /\ UNCHANGED faults

----------------------------------------------------------------------------
(* VerifyEmail                                                             *)

\* used_at IS NULL AND expires_at > CURRENT_TIMESTAMP
FindValidByHash(l) == links[l] = "valid"

\* Any other link ends the request.  The link in the mail is a page below
\* APP_BASE_URL.  What serves that page is not in the repository: it is taken to
\* call /auth/verify-email with the token and the tenant's name.
FindLink(r, l) ==
    /\ req[r].pc = "idle"
    /\ l \in mailbox /\ FindValidByHash(l)
    /\ Go(r, "mark", l)
    /\ UNCHANGED <<user, inserter, links, mailbox, signups, faults>>

\* An UPDATE of a row that is gone is no error.
MarkUsed(r) ==
    /\ req[r].pc = "mark"
    /\ links' = [links EXCEPT ![req[r].link] = IF @ = "deleted" THEN @ ELSE "used"]
    /\ Go(r, "activate", req[r].link)
    /\ UNCHANGED <<user, inserter, mailbox, signups, faults>>

ActivateUser(r) ==
    /\ req[r].pc = "activate"
    /\ user' = "active"
    /\ End(r)
    /\ UNCHANGED <<inserter, links, mailbox, signups, faults>>

----------------------------------------------------------------------------
(* ResendVerification                                                      *)

ResendIfUnused(r) ==
    /\ req[r].pc = "idle" /\ user = "inactive"
    /\ \A l \in Link : links[l] # "used"
    /\ Go(r, "delete", None)
    /\ UNCHANGED <<user, inserter, links, mailbox, signups, faults>>

\* FindByEmail: no row, or a verified one, is answered as if it had been sent.
ResendVerification(r) ==
    /\ req[r].pc = "idle" /\ user = "inactive"
    /\ Go(r, "delete", None)
    /\ UNCHANGED <<user, inserter, links, mailbox, signups, faults>>

Rows == {l \in Link : links[l] \in {"valid", "used", "expired"}}

DeleteRows(r) == links' = [l \in Link |-> IF l \in Rows THEN "deleted" ELSE links[l]]

\* DeleteByUserID, whose error is ignored.
DeleteByUserID(r) ==
    /\ req[r].pc = "delete"
    /\ \/ DeleteRows(r) /\ mailbox' = mailbox \ Rows /\ UNCHANGED faults
       \/ faults < MaxFaults /\ faults' = faults + 1 /\ UNCHANGED <<links, mailbox>>
    /\ Go(r, "link", None)
    /\ UNCHANGED <<user, inserter, signups>>

CreateLink(r, l) ==
    /\ req[r].pc = "link" /\ Fresh(l)
    /\ links' = [links EXCEPT ![l] = "valid"]
    /\ Go(r, "send", l)
    /\ UNCHANGED <<user, inserter, mailbox, signups, faults>>

DeleteAfterSend(r) ==
    /\ req[r].pc = "send"
    /\ DeleteRows(r)
    /\ mailbox' = (mailbox \cup {req[r].link}) \ Rows
    /\ End(r)
    /\ UNCHANGED <<user, inserter, signups, faults>>

\* The link may have been deleted by another resend since.
SendVerificationEmail(r) ==
    /\ req[r].pc = "send"
    /\ mailbox' = IF links[req[r].link] = "deleted" THEN mailbox
                  ELSE mailbox \cup {req[r].link}
    /\ End(r)
    /\ UNCHANGED <<user, inserter, links, signups, faults>>

----------------------------------------------------------------------------

\* A link lives a day, longer than the request that sends it.
Expire(l) ==
    /\ links[l] = "valid"
    /\ \A r \in Request : req[r] # [pc |-> "send", link |-> l]
    /\ links' = [links EXCEPT ![l] = "expired"]
    /\ UNCHANGED <<user, inserter, mailbox, req, signups, faults>>

\* A statement fails, the request is cancelled or the process dies: an open
\* transaction is undone, statements before it are not.
Fail(r) ==
    /\ req[r].pc # "idle" /\ faults < MaxFaults
    /\ faults' = faults + 1
    /\ inserter' = IF inserter = r THEN None ELSE inserter
    /\ End(r)
    /\ UNCHANGED <<user, links, mailbox, signups>>

Step(r) ==
    \/ CreateUser(r) \/ MarkUsed(r) \/ ActivateUser(r) \/ DeleteByUserID(r)
    \/ SendVerificationEmail(r)
    \/ \E l \in Link : CommitSignup(r, l) \/ CreateLink(r, l)

Next ==
    \/ \E r \in Request : Signup(r) \/ ResendVerification(r) \/ Step(r) \/ Fail(r)
    \/ \E r \in Request, l \in Link : FindLink(r, l)
    \/ \E l \in Link : Expire(l)

Spec == Init /\ [][Next]_vars

\* Requests run to their end, and the person behind the address keeps asking for
\* links and opening the ones that arrive.
FairSpec ==
    /\ Spec
    /\ \A r \in Request : WF_vars(Step(r))
    /\ SF_vars(\E r \in Request : ResendVerification(r))
    /\ SF_vars(\E r \in Request, l \in Link : FindLink(r, l))

----------------------------------------------------------------------------
(* Properties                                                              *)

\* Every variable has its type; a used or expired link belongs to an account.
TypeOK ==
    /\ user \in {"none", "inactive", "active"}
    /\ inserter \in Request \cup {None}
    /\ links \in [Link -> {"none", "valid", "used", "expired", "deleted"}]
    /\ mailbox \in SUBSET Link
    /\ req \in [Request -> [pc : Pcs, link : Link \cup {None}]]
    /\ signups \in 0 .. 2 /\ faults \in 0 .. MaxFaults
    /\ \A l \in Link : links[l] \in {"valid", "used", "expired"} => user # "none"

\* One signup of an address commits however many run, and the account exists
\* exactly if one has: the unique index decides, not what a request saw before.
OneSignup == signups <= 1 /\ (signups = 1 <=> user # "none")

Quiet == \A r \in Request : req[r].pc = "idle"

\* When no statement has failed and no request is running, an account that is not
\* verified has a link on its way that works or has expired: resends that race
\* do not delete each other's links and leave the person with dead ones only.
WorkingLinkRemains ==
    Quiet /\ faults = 0 /\ user = "inactive" =>
        \E l \in mailbox : links[l] \in {"valid", "expired"}

Resending(r) == req[r].pc \in {"delete", "link", "send"}
OneAtATime == \A r, s \in Request : Resending(r) /\ Resending(s) => r = s

\* An account is never stuck: wherever requests fail, between MarkUsed and
\* ActivateUser included, one who keeps asking for links, in the end one at a time,
\* gets it activated.  (Resends that overlap for ever delete each other's links
\* before they are sent.)
EventuallyActive == <>[]OneAtATime => (user = "inactive" ~> user = "active")
=============================================================================
