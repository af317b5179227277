--------------------------- MODULE LoginThrottle ---------------------------
(***************************************************************************)
(* Brute-force protection of POST /auth/login: RateLimitMiddleware asks    *)
(* Redis before the handler runs, and Login records a failure after it has *)
(* compared the password.  Each Lua script is atomic; between the two      *)
(* scripts of one request any number of other requests may run.            *)
(*                                                                         *)
(* The hash of a key holds failures and next_try and expires; both times   *)
(* are kept as time left, and Tick takes one off.  The keys do not name    *)
(* the tenant: one email in two tenants is one account here.               *)
(***************************************************************************)
EXTENDS Naturals, FiniteSets

CONSTANTS
    Ip, Email,
    NoEmail,               \* the empty string, which no user has
    Registered,            \* emails with a user
    Request,               \* login requests served at one time
    SoftLimit, HardLimit,  \* failures from which the blocks start
    NotifyAt,              \* suspiciousLoginNotifyAt
    ShortBlock, LongBlock, Ttl,
    None

ASSUME Limits == /\ SoftLimit \in Nat \ {0} /\ HardLimit \in Nat /\ SoftLimit < HardLimit
                 /\ NotifyAt \in Nat \ {0}
ASSUME Times == /\ ShortBlock \in Nat \ {0} /\ LongBlock \in Nat /\ Ttl \in Nat
                /\ ShortBlock <= LongBlock /\ LongBlock = Ttl
ASSUME Names == /\ Registered \subseteq Email /\ IsFiniteSet(Request) /\ Request # {}
                /\ NoEmail \notin Email /\ None \notin Email \cup {NoEmail}

VARIABLES
    failures,   \* HGET key failures
    blockLeft,  \* time left to next_try
    ttlLeft,    \* time left to the expiry of the key, 0 when there is no key
    up,         \* Redis answers
    req,        \* the login request in each slot
    age,        \* history: time since the key's last counted failure, up to LongBlock
    promised,   \* history: time left of the block the last counted failure earned
    sneaked     \* history: passwords compared during the block by requests whose check
                \* asked about the key

redisVars == <<failures, blockLeft, ttlLeft>>
historyVars == <<age, promised, sneaked>>
vars == <<redisVars, up, req, historyVars>>

\* RedisKeyBuilder
KeysOf(i, e) == {<<"ip", i>>, <<"account", e>>, <<"pair", i, e>>}

Key == UNION {KeysOf(i, e) : i \in Ip, e \in Email \cup {NoEmail}}

\* asked: the account the check was passed for, None if Redis did not answer.
Idle == [pc |-> "idle", ip |-> None, email |-> None, right |-> FALSE, asked |-> None]

Init ==
    /\ failures = [k \in Key |-> 0]
    /\ blockLeft = [k \in Key |-> 0]
    /\ ttlLeft = [k \in Key |-> 0]
    /\ up = TRUE
    /\ req = [r \in Request |-> Idle]
    /\ age = [k \in Key |-> LongBlock]
    /\ promised = [k \in Key |-> 0]
    /\ sneaked = [k \in Key |-> 0]

----------------------------------------------------------------------------
(* RateLimitMiddleware and login_check.lua.  A blocked request is answered *)
(* 429 and changes nothing.                                                *)

Blocked(k) == blockLeft[k] > 0

AnyBlocked(i, e) == \E k \in KeysOf(i, e) : Blocked(k)

OnlyPairBlocked(i, e) == Blocked(<<"pair", i, e>>)

CheckBlocks(i, e) == AnyBlocked(i, e)

\* The account asked about, for a body from which loginHandler decodes e: none if
\* the body is not read to its end or is not one JSON value, where the handler
\* decodes its first value.
peekEmail(e) == {e, NoEmail}

Admit(r, i, e, right, asked) ==
    /\ req[r].pc = "idle"
    /\ req' = [req EXCEPT ![r] = [pc |-> "login", ip |-> i, email |-> e,
                                  right |-> right, asked |-> asked]]
    /\ UNCHANGED <<redisVars, up, historyVars>>

CheckLogin(r, i, e, right) ==
    /\ up
    /\ \E asked \in peekEmail(e) : ~CheckBlocks(i, asked) /\ Admit(r, i, e, right, asked)

\* The error is logged and the request goes through.
FailOpen(r, i, e, right) == ~up /\ Admit(r, i, e, right, None)

----------------------------------------------------------------------------
(* Login: the password is compared whatever the check said.  Success       *)
(* touches no key (its session is in module Credentials).                  *)

Keys(r) == KeysOf(req[r].ip, req[r].email)

Accepts(r) == req[r].right /\ req[r].email \in Registered

\* The keys of the login that its check has looked at.
AskedKeys(r) ==
    IF req[r].asked = None THEN {} ELSE Keys(r) \cap KeysOf(req[r].ip, req[r].asked)

Sneak(r) ==
    [k \in Key |-> IF k \in AskedKeys(r) /\ Blocked(k) THEN sneaked[k] + 1 ELSE sneaked[k]]

LoginSucceeds(r) ==
    /\ req[r].pc = "login" /\ Accepts(r)
    /\ req' = [req EXCEPT ![r] = Idle]
    /\ sneaked' = Sneak(r)
    /\ UNCHANGED <<redisVars, up, age, promised>>

\* RecordLoginFailure fails: the error is the answer.
RecordError(r) ==
    /\ req[r].pc = "login" /\ ~Accepts(r) /\ ~up
    /\ req' = [req EXCEPT ![r] = Idle]
    /\ sneaked' = Sneak(r)
    /\ UNCHANGED <<redisVars, up, age, promised>>

\* The script returns 1 and counts nothing; Login answers as for 0.
RecordBlocked(r) ==
    /\ req[r].pc = "login" /\ ~Accepts(r) /\ up /\ AnyBlocked(req[r].ip, req[r].email)
    /\ req' = [req EXCEPT ![r] = Idle]
    /\ sneaked' = Sneak(r)
    /\ UNCHANGED <<redisVars, up, age, promised>>

BlockFor(n) == IF n >= HardLimit THEN LongBlock ELSE IF n >= SoftLimit THEN ShortBlock ELSE 0

ExpireEarly(n) == Ttl - 1

ExpireIn(n) == Ttl

\* HINCRBY; bound: counted up to HardLimit + 1.
Increment(n) == IF n <= HardLimit THEN n + 1 ELSE n

Counted(r) ==
    LET ks == Keys(r)
        more == [k \in ks |-> Increment(failures[k])]
        notify == \E k \in ks : failures[k] + 1 = NotifyAt IN
    /\ failures' = [k \in Key |-> IF k \in ks THEN more[k] ELSE failures[k]]
    /\ blockLeft' = [k \in Key |-> IF k \in ks THEN BlockFor(more[k]) ELSE blockLeft[k]]
    /\ ttlLeft' = [k \in Key |-> IF k \in ks THEN ExpireIn(more[k]) ELSE ttlLeft[k]]
    /\ promised' = [k \in Key |-> IF k \in ks THEN BlockFor(more[k]) ELSE promised[k]]
    /\ age' = [k \in Key |-> IF k \in ks THEN 0 ELSE age[k]]
    /\ sneaked' = Sneak(r)
    /\ req' = IF notify /\ req[r].email \in Registered
              THEN [req EXCEPT ![r].pc = "notify"] ELSE [req EXCEPT ![r] = Idle]
    /\ UNCHANGED up

RecordAnyway(r) == req[r].pc = "login" /\ ~Accepts(r) /\ up /\ Counted(r)

\* login_recordfailure.lua, past its first loop.
RecordLoginFailure(r) ==
    /\ req[r].pc = "login" /\ ~Accepts(r) /\ up /\ ~AnyBlocked(req[r].ip, req[r].email)
    /\ Counted(r)

\* The script returned 2: the event is inserted in a transaction that is never
\* committed; the deferred Rollback takes it back.
RollbackNotification(r) ==
    /\ req[r].pc = "notify"
    /\ req' = [req EXCEPT ![r] = Idle]
    /\ UNCHANGED <<redisVars, up, historyVars>>

----------------------------------------------------------------------------
(* Redis and time                                                          *)

RedisFails == up /\ up' = FALSE /\ UNCHANGED <<redisVars, req, historyVars>>

RedisRecovers == ~up /\ up' = TRUE /\ UNCHANGED <<redisVars, req, historyVars>>

Less(n) == IF n = 0 THEN 0 ELSE n - 1

\* A key whose time is over is gone, with its counter and its next_try.
Tick ==
    /\ ttlLeft' = [k \in Key |-> Less(ttlLeft[k])]
    /\ failures' = [k \in Key |-> IF ttlLeft[k] <= 1 THEN 0 ELSE failures[k]]
    /\ blockLeft' = [k \in Key |-> IF ttlLeft[k] <= 1 THEN 0 ELSE Less(blockLeft[k])]
    /\ age' = [k \in Key |-> IF age[k] = LongBlock THEN age[k] ELSE age[k] + 1]
    /\ promised' = [k \in Key |-> Less(promised[k])]
    /\ sneaked' = [k \in Key |-> IF promised[k] <= 1 THEN 0 ELSE sneaked[k]]
    /\ UNCHANGED <<up, req>>

Login(r) ==
    \/ LoginSucceeds(r) \/ RecordError(r) \/ RecordBlocked(r) \/ RecordLoginFailure(r)
    \/ RollbackNotification(r)

Next ==
    \/ \E r \in Request : \/ Login(r)
                          \/ \E i \in Ip, e \in Email, right \in BOOLEAN :
                                CheckLogin(r, i, e, right) \/ FailOpen(r, i, e, right)
    \/ RedisFails \/ RedisRecovers
    \/ Tick

Spec == Init /\ [][Next]_vars

(* Fairness: time passes.                                                  *)
FairSpec == Spec /\ WF_vars(Tick)

----------------------------------------------------------------------------
\* Every variable has its type; no key counts past the hard limit.
TypeOK ==
    /\ failures \in [Key -> 0 .. HardLimit]
    /\ blockLeft \in [Key -> 0 .. LongBlock]
    /\ ttlLeft \in [Key -> 0 .. Ttl]
    /\ up \in BOOLEAN
    /\ req \in [Request -> [pc : {"idle", "login", "notify"}, ip : Ip \cup {None},
                            email : Email \cup {None}, right : BOOLEAN,
                            asked : Email \cup {NoEmail, None}]]
    /\ \A r \in Request : req[r].pc # "idle" => req[r].ip \in Ip /\ req[r].email \in Email
    /\ age \in [Key -> 0 .. LongBlock]
    /\ promised \in [Key -> 0 .. LongBlock]
    /\ sneaked \in [Key -> Nat]

\* A block lasts its full length: neither the expiry of the key nor a later
\* failure of another key lifts it early.
BlockLasts == \A k \in Key : promised[k] > 0 => Blocked(k)

\* Counted failures are spaced: past the soft limit two failures of one key are
\* at least the short block apart, past the hard limit the long block, although
\* requests that passed the check before the block report theirs during it.
FailuresSpaced ==
    [][\A k \in Key : failures'[k] = failures[k] + 1 /\ failures[k] > 0
                         => age[k] >= BlockFor(failures[k])]_vars

\* During a block of an address, or of an account or pair RateLimitMiddleware asked
\* about, at most as many passwords are compared as requests were past their check
\* when it began: one less than the requests served at one time.  Whatever peekEmail
\* reads, the address is asked about.
FewSneakPast == \A k \in Key : sneaked[k] < Cardinality(Request)

\* A lockout ends: no attempt made during a block prolongs it.
LockoutEnds == \A k \in Key : Blocked(k) ~> ~Blocked(k)
=============================================================================
