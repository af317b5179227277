------------------------ MODULE LoginThrottleProofs ------------------------
(***************************************************************************)
(* Proofs about LoginThrottle for any limits, durations, addresses and     *)
(* number of requests.  The argument: a key outlives the block it carries, *)
(* so the block is what its last counted failure earned; from the hard     *)
(* limit on block and key end together, so nothing is counted past it; and *)
(* during a block no request passes its check, so those that compare a     *)
(* password then had passed it before.                                     *)
(***************************************************************************)
EXTENDS LoginThrottle, FiniteSetTheorems, TLAPS

\* The block of a key is what was promised and ends no later than the key; at
\* the hard limit together with it.
Kept ==
    \A k \in Key :
        /\ promised[k] = blockLeft[k]
        /\ blockLeft[k] <= ttlLeft[k]
        /\ ttlLeft[k] = 0 => failures[k] = 0
        /\ failures[k] >= HardLimit => blockLeft[k] = ttlLeft[k]

\* What a key has left of its block and the time since its last failure make up
\* at least the block that the failure earned.
Spaced ==
    \A k \in Key : failures[k] > 0 => age[k] + blockLeft[k] >= BlockFor(failures[k])

\* Requests past their check that will compare a password for key k.
Past(k) == {r \in Request : req[r].pc = "login" /\ k \in AskedKeys(r)}

\* Outside a block nothing is counted as sneaked; in one, with those still to come,
\* all but the request whose failure began it.
Few ==
    \A k \in Key :
        /\ ~Blocked(k) => sneaked[k] = 0
        /\ Blocked(k) => sneaked[k] + Cardinality(Past(k)) < Cardinality(Request)

IInv == TypeOK /\ Kept /\ Spaced

USE Limits, Times, Names

----------------------------------------------------------------------------

LEMMA KeysInKey == \A i \in Ip, e \in Email \cup {NoEmail} : KeysOf(i, e) \subseteq Key
  BY DEF Key

LEMMA BlockForType == \A n \in Nat : BlockFor(n) \in 0 .. LongBlock
  BY DEF BlockFor

\* With every tick the time since a failure grows as its block shrinks.
LEMMA OlderAndShorter ==
    \A a, b, f, m \in Nat : f <= m /\ a <= m /\ a + b >= f =>
        (IF a = m THEN a ELSE a + 1) + (IF b = 0 THEN 0 ELSE b - 1) >= f
  OBVIOUS

LEMMA InitInv == Init => IInv
  BY DEF Init, Idle, IInv, TypeOK, Kept, Spaced

LEMMA AdmitStep ==
    ASSUME IInv, NEW r \in Request, NEW i \in Ip, NEW e \in Email, NEW right \in BOOLEAN,
           NEW asked \in {e, NoEmail, None}, Admit(r, i, e, right, asked)
    PROVE  IInv'
  <1> USE DEF IInv, TypeOK, Admit, redisVars, historyVars
  <1>1. TypeOK'
    OBVIOUS
  <1>2. Kept'
    BY DEF Kept
  <1>3. Spaced'
    BY DEF Spaced
  <1> QED
    BY <1>1, <1>2, <1>3

LEMMA EndStep ==
    ASSUME IInv, NEW r \in Request, req' = [req EXCEPT ![r] = Idle], sneaked' \in [Key -> Nat],
           UNCHANGED <<redisVars, up, age, promised>>
    PROVE  IInv'
  <1> USE DEF IInv, TypeOK, Idle, redisVars
  <1>1. TypeOK'
    OBVIOUS
  <1>2. Kept'
    BY DEF Kept
  <1>3. Spaced'
    BY DEF Spaced
  <1> QED
    BY <1>1, <1>2, <1>3

LEMMA CountStep ==
    ASSUME IInv, NEW r \in Request, RecordLoginFailure(r)
    PROVE  IInv'
  <1> USE DEF IInv, TypeOK, RecordLoginFailure, Counted
  <1>1. Keys(r) \subseteq Key /\ \A k \in Keys(r) : blockLeft[k] = 0
    BY KeysInKey DEF Keys, AnyBlocked, Blocked
  <1>2. \A k \in Keys(r) : Increment(failures[k]) = failures[k] + 1 /\ failures[k] + 1 \in 1 .. HardLimit
    BY <1>1 DEF Kept, Increment
  <1> DEFINE n(k) == failures[k] + 1
  <1>3. \A k \in Keys(r) : /\ failures'[k] = n(k) /\ blockLeft'[k] = BlockFor(n(k))
                          /\ promised'[k] = BlockFor(n(k)) /\ ttlLeft'[k] = Ttl /\ age'[k] = 0
    BY <1>1, <1>2 DEF ExpireIn
  <1>4. \A k \in Key \ Keys(r) : /\ failures'[k] = failures[k] /\ blockLeft'[k] = blockLeft[k]
                                /\ promised'[k] = promised[k] /\ ttlLeft'[k] = ttlLeft[k]
                                /\ age'[k] = age[k]
    OBVIOUS
  <1>5. \A k \in Keys(r) : BlockFor(n(k)) \in 0 .. LongBlock
    BY <1>2, BlockForType
  <1>6. TypeOK'
    <2>0. \A k \in Key : /\ failures'[k] \in 0 .. HardLimit /\ blockLeft'[k] \in 0 .. LongBlock
                        /\ promised'[k] \in 0 .. LongBlock /\ ttlLeft'[k] \in 0 .. Ttl
                        /\ age'[k] \in 0 .. LongBlock
      <3> SUFFICES ASSUME NEW k \in Key
                   PROVE  /\ failures'[k] \in 0 .. HardLimit /\ blockLeft'[k] \in 0 .. LongBlock
                          /\ promised'[k] \in 0 .. LongBlock /\ ttlLeft'[k] \in 0 .. Ttl
                          /\ age'[k] \in 0 .. LongBlock
        OBVIOUS
      <3>1. CASE k \in Keys(r)
        <4>1. n(k) \in 0 .. HardLimit
          BY <1>2, <3>1
        <4>2. BlockFor(n(k)) \in 0 .. LongBlock
          BY <1>5, <3>1
        <4>3. /\ failures'[k] = n(k) /\ blockLeft'[k] = BlockFor(n(k))
              /\ promised'[k] = BlockFor(n(k)) /\ ttlLeft'[k] = Ttl /\ age'[k] = 0
          BY <1>3, <3>1
        <4> HIDE DEF n
        <4> QED
          BY <4>1, <4>2, <4>3
      <3>2. CASE k \notin Keys(r)
        BY <1>4, <3>2
      <3> QED
        BY <3>1, <3>2
    <2>1. /\ failures' \in [Key -> 0 .. HardLimit] /\ blockLeft' \in [Key -> 0 .. LongBlock]
          /\ promised' \in [Key -> 0 .. LongBlock] /\ ttlLeft' \in [Key -> 0 .. Ttl]
          /\ age' \in [Key -> 0 .. LongBlock]
      BY <2>0
    <2>2. sneaked' \in [Key -> Nat]
      BY DEF Sneak
    <2>3. req' = [req EXCEPT ![r].pc = "notify"] \/ req' = [req EXCEPT ![r] = Idle]
      OBVIOUS
    <2>4. /\ req' \in [Request -> [pc : {"idle", "login", "notify"}, ip : Ip \cup {None},
                                  email : Email \cup {None}, right : BOOLEAN,
                                  asked : Email \cup {NoEmail, None}]]
          /\ \A q \in Request : req'[q].pc # "idle" => req'[q].ip \in Ip /\ req'[q].email \in Email
      BY <2>3 DEF Idle
    <2> QED
      BY <2>1, <2>2, <2>4
  <1>7. Kept'
    <2> SUFFICES ASSUME NEW k \in Key
                 PROVE  /\ promised'[k] = blockLeft'[k] /\ blockLeft'[k] <= ttlLeft'[k]
                        /\ ttlLeft'[k] = 0 => failures'[k] = 0
                        /\ failures'[k] >= HardLimit => blockLeft'[k] = ttlLeft'[k]
      BY DEF Kept
    <2>1. CASE k \in Keys(r)
      <3>1. n(k) >= HardLimit => BlockFor(n(k)) = Ttl
        BY DEF BlockFor
      <3>2. BlockFor(n(k)) \in 0 .. Ttl
        BY <1>5, <2>1
      <3>3. /\ failures'[k] = n(k) /\ blockLeft'[k] = BlockFor(n(k))
            /\ promised'[k] = BlockFor(n(k)) /\ ttlLeft'[k] = Ttl
        BY <1>3, <2>1
      <3>4. n(k) \in Nat /\ Ttl > 0
        BY <1>2, <2>1
      <3> HIDE DEF n
      <3> QED
        BY <3>1, <3>2, <3>3, <3>4
    <2>2. CASE k \notin Keys(r)
      BY <1>4, <2>2 DEF Kept
    <2> QED
      BY <2>1, <2>2
  <1>8. Spaced'
    BY <1>1, <1>2, <1>3, <1>4, <1>5 DEF Spaced
  <1> QED
    BY <1>6, <1>7, <1>8

LEMMA RedisStep ==
    ASSUME IInv, RedisFails \/ RedisRecovers
    PROVE  IInv'
  <1> USE DEF IInv, TypeOK, RedisFails, RedisRecovers, redisVars, historyVars
  <1>1. TypeOK'
    OBVIOUS
  <1>2. Kept'
    BY DEF Kept
  <1>3. Spaced'
    BY DEF Spaced
  <1> QED
    BY <1>1, <1>2, <1>3

LEMMA TickStep ==
    ASSUME IInv, Tick
    PROVE  IInv'
  <1> USE DEF IInv, TypeOK, Tick
  <1>0. /\ ttlLeft' \in [Key -> 0 .. Ttl] /\ failures' \in [Key -> 0 .. HardLimit]
        /\ blockLeft' \in [Key -> 0 .. LongBlock] /\ promised' \in [Key -> 0 .. LongBlock]
        /\ age' \in [Key -> 0 .. LongBlock] /\ sneaked' \in [Key -> Nat]
    <2>1. /\ \A n \in 0 .. Ttl : Less(n) \in 0 .. Ttl
          /\ \A n \in 0 .. LongBlock : Less(n) \in 0 .. LongBlock /\ (n # LongBlock => n + 1 \in 0 .. LongBlock)
      BY DEF Less
    <2>2. ttlLeft' \in [Key -> 0 .. Ttl] /\ failures' \in [Key -> 0 .. HardLimit]
      BY <2>1
    <2>3. blockLeft' \in [Key -> 0 .. LongBlock] /\ promised' \in [Key -> 0 .. LongBlock]
      BY <2>1
    <2>4. age' \in [Key -> 0 .. LongBlock]
      BY <2>1
    <2>5. sneaked' \in [Key -> Nat]
      OBVIOUS
    <2> QED
      BY <2>2, <2>3, <2>4, <2>5
  <1>1. TypeOK'
    BY <1>0
  <1> USE DEF Less
  <1>2. Kept'
    <2> SUFFICES ASSUME NEW k \in Key
                 PROVE  /\ promised'[k] = blockLeft'[k] /\ blockLeft'[k] <= ttlLeft'[k]
                        /\ ttlLeft'[k] = 0 => failures'[k] = 0
                        /\ failures'[k] >= HardLimit => blockLeft'[k] = ttlLeft'[k]
      BY DEF Kept
    <2>1. /\ promised[k] = blockLeft[k] /\ blockLeft[k] <= ttlLeft[k]
          /\ failures[k] >= HardLimit => blockLeft[k] = ttlLeft[k]
      BY DEF Kept
    <2>2. /\ promised[k] \in Nat /\ blockLeft[k] \in Nat /\ ttlLeft[k] \in Nat /\ failures[k] \in Nat
      OBVIOUS
    <2> QED
      BY <2>1, <2>2
  <1>3. Spaced'
    <2> SUFFICES ASSUME NEW k \in Key, failures'[k] > 0
                 PROVE  age'[k] + blockLeft'[k] >= BlockFor(failures'[k])
      BY DEF Spaced
    <2>1. failures'[k] = failures[k] /\ failures[k] > 0 /\ ttlLeft[k] > 1
      OBVIOUS
    <2>2. age[k] + blockLeft[k] >= BlockFor(failures[k])
      BY <2>1 DEF Spaced
    <2>3. BlockFor(failures[k]) \in 0 .. LongBlock
      BY BlockForType
    <2>4. /\ age[k] \in 0 .. LongBlock /\ blockLeft[k] \in Nat
          /\ age'[k] = IF age[k] = LongBlock THEN age[k] ELSE age[k] + 1
          /\ blockLeft'[k] = Less(blockLeft[k])
      BY <2>1
    <2>5. BlockFor(failures[k]) \in Nat /\ age[k] \in Nat /\ LongBlock \in Nat
      BY <2>3, <2>4
    <2> HIDE DEF IInv, TypeOK, Tick
    <2>6. (IF age[k] = LongBlock THEN age[k] ELSE age[k] + 1)
            + (IF blockLeft[k] = 0 THEN 0 ELSE blockLeft[k] - 1) >= BlockFor(failures[k])
      BY <2>2, <2>3, <2>4, <2>5, OlderAndShorter
    <2> QED
      BY <2>1, <2>4, <2>6
  <1> QED
    BY <1>1, <1>2, <1>3

LEMMA SneakType == ASSUME TypeOK, NEW r \in Request PROVE Sneak(r) \in [Key -> Nat]
  BY DEF TypeOK, Sneak

LEMMA NextStep == ASSUME IInv, [Next]_vars PROVE IInv'
  <1>1. CASE UNCHANGED vars
    BY <1>1 DEF vars, redisVars, historyVars, IInv, TypeOK, Kept, Spaced
  <1>2. ASSUME NEW r \in Request, Login(r) PROVE IInv'
    <2>1. CASE LoginSucceeds(r) \/ RecordError(r) \/ RecordBlocked(r) \/ RollbackNotification(r)
      <3>1. /\ req' = [req EXCEPT ![r] = Idle] /\ sneaked' \in {Sneak(r), sneaked}
            /\ UNCHANGED <<redisVars, up, age, promised>>
        BY <2>1 DEF LoginSucceeds, RecordError, RecordBlocked, RollbackNotification, historyVars
      <3>2. sneaked' \in [Key -> Nat]
        BY <3>1, SneakType DEF IInv, TypeOK
      <3> QED
        BY <3>1, <3>2, EndStep
    <2> QED
      BY <1>2, <2>1, CountStep DEF Login
  <1>3. ASSUME NEW r \in Request, NEW i \in Ip, NEW e \in Email, NEW right \in BOOLEAN,
               CheckLogin(r, i, e, right) \/ FailOpen(r, i, e, right)
        PROVE  IInv'
    BY <1>3, AdmitStep DEF CheckLogin, FailOpen, peekEmail
  <1> QED
    BY <1>1, <1>2, <1>3, RedisStep, TickStep DEF Next

----------------------------------------------------------------------------
(* The requests that get past a block                                      *)

LEMMA PastFinite ==
    /\ \A k : IsFiniteSet(Past(k)) /\ Cardinality(Past(k)) \in Nat
    /\ Cardinality(Request) \in Nat
  <1>1. \A k : Past(k) \in SUBSET Request
    BY DEF Past
  <1>2. Cardinality(Request) \in Nat
    BY FS_CardinalityType
  <1>3. \A k : IsFiniteSet(Past(k))
    BY <1>1, FS_Subset
  <1> QED
    BY <1>2, <1>3, FS_CardinalityType

LEMMA InitFew == Init => Few
  BY DEF Init, Few, Blocked

\* A check is passed only where there is no block.
LEMMA AdmitFew ==
    ASSUME TypeOK, Few, NEW r \in Request, NEW i \in Ip, NEW e \in Email, NEW right \in BOOLEAN,
           CheckLogin(r, i, e, right) \/ FailOpen(r, i, e, right)
    PROVE  Few'
  <1> SUFFICES ASSUME NEW k \in Key, Blocked(k)
               PROVE  Past(k)' = Past(k)
    BY DEF Few, Blocked, CheckLogin, FailOpen, Admit, redisVars, historyVars
  <1>1. PICK asked \in {e, NoEmail, None} :
          /\ req[r].pc = "idle"
          /\ req' = [req EXCEPT ![r] = [pc |-> "login", ip |-> i, email |-> e, right |-> right,
                                        asked |-> asked]]
          /\ asked # None => ~AnyBlocked(i, asked)
    BY DEF CheckLogin, FailOpen, Admit, CheckBlocks, peekEmail
  <1>2. asked # None => k \notin KeysOf(i, asked)
    BY <1>1 DEF AnyBlocked
  <1>3. r \notin Past(k)
    BY <1>1 DEF Past
  <1>4. req'[r].ip = i /\ req'[r].asked = asked
    BY <1>1 DEF TypeOK
  <1>5. r \notin Past(k)'
    BY <1>2, <1>4 DEF Past, AskedKeys
  <1>6. \A q \in Request : q # r => req'[q] = req[q]
    BY <1>1 DEF TypeOK
  <1> QED
    BY <1>3, <1>5, <1>6 DEF Past, AskedKeys, Keys

\* A request that compares a password during a block was past its check.
LEMMA EndFew ==
    ASSUME TypeOK, Few, NEW r \in Request, req[r].pc = "login",
           req' = [req EXCEPT ![r] = Idle], sneaked' = Sneak(r), UNCHANGED redisVars
    PROVE  Few'
  <1> SUFFICES ASSUME NEW k \in Key
               PROVE  /\ ~Blocked(k) => sneaked'[k] = 0
                      /\ Blocked(k) => sneaked'[k] + Cardinality(Past(k)') < Cardinality(Request)
    BY DEF Few, Blocked, redisVars
  <1>1. CASE ~Blocked(k)
    BY <1>1 DEF Few, Sneak
  <1>2. CASE Blocked(k)
    <2>1. Past(k)' = Past(k) \ {r}
      BY DEF Past, AskedKeys, Keys, Idle, TypeOK
    <2>2. sneaked'[k] = IF r \in Past(k) THEN sneaked[k] + 1 ELSE sneaked[k]
      BY <1>2 DEF Sneak, Past
    <2>3. sneaked[k] + Cardinality(Past(k)) < Cardinality(Request)
      BY <1>2 DEF Few
    <2>4. Cardinality(Past(k)') = IF r \in Past(k) THEN Cardinality(Past(k)) - 1 ELSE Cardinality(Past(k))
      BY <2>1, PastFinite, FS_RemoveElement
    <2>5. sneaked[k] \in Nat
      BY DEF TypeOK
    <2> QED
      BY <1>2, <2>2, <2>3, <2>4, <2>5, PastFinite
  <1> QED
    BY <1>1, <1>2

\* The request whose failure begins a block is not among those that sneak past.
LEMMA CountFew ==
    ASSUME TypeOK, Few, NEW r \in Request, RecordLoginFailure(r)
    PROVE  Few'
  <1>1. /\ req[r].pc = "login" /\ sneaked' = Sneak(r)
        /\ \A k \in Key \ Keys(r) : blockLeft'[k] = blockLeft[k]
        /\ \A k \in Keys(r) : ~Blocked(k)
        /\ \A q \in Request : q # r => req'[q] = req[q]
        /\ req'[r].pc # "login"
    BY DEF RecordLoginFailure, Counted, Keys, AnyBlocked, Idle, TypeOK
  <1> SUFFICES ASSUME NEW k \in Key
               PROVE  /\ ~Blocked(k)' => sneaked'[k] = 0
                      /\ Blocked(k)' => sneaked'[k] + Cardinality(Past(k)') < Cardinality(Request)
    BY DEF Few
  <1>2. CASE k \in Keys(r)
    <2>1. sneaked'[k] = 0
      BY <1>1, <1>2 DEF Few, Sneak
    <2>2. Past(k)' \in SUBSET (Request \ {r})
      BY <1>1 DEF Past
    <2>3. IsFiniteSet(Request \ {r}) /\ Cardinality(Request \ {r}) = Cardinality(Request) - 1
      BY FS_RemoveElement
    <2>4. Cardinality(Past(k)') <= Cardinality(Request) - 1 /\ Cardinality(Past(k)') \in Nat
      BY <2>2, <2>3, FS_Subset, FS_CardinalityType
    <2> QED
      BY <2>1, <2>4, PastFinite
  <1>3. CASE k \notin Keys(r)
    <2>1. sneaked'[k] = sneaked[k] /\ (Blocked(k)' <=> Blocked(k))
      BY <1>1, <1>3 DEF Sneak, AskedKeys, Blocked
    <2>2. Past(k)' = Past(k)
      BY <1>1, <1>3 DEF Past, AskedKeys, Keys
    <2> QED
      BY <2>1, <2>2 DEF Few
  <1> QED
    BY <1>2, <1>3

\* The count starts again when the block is over.
LEMMA TickFew ==
    ASSUME IInv, IInv', Few, Tick
    PROVE  Few'
  <1> SUFFICES ASSUME NEW k \in Key
               PROVE  /\ ~Blocked(k)' => sneaked'[k] = 0
                      /\ Blocked(k)' => sneaked'[k] + Cardinality(Past(k)') < Cardinality(Request)
    BY DEF Few
  <1>1. /\ promised[k] = blockLeft[k] /\ promised'[k] = blockLeft'[k]
        /\ promised[k] \in Nat /\ promised'[k] = Less(promised[k])
        /\ sneaked'[k] = IF promised[k] <= 1 THEN 0 ELSE sneaked[k]
    BY DEF IInv, TypeOK, Kept, Tick
  <1>2. Past(k)' = Past(k)
    BY DEF Past, AskedKeys, Keys, Tick
  <1>3. Blocked(k)' => Blocked(k) /\ promised[k] > 1
    BY <1>1 DEF Blocked, Less
  <1>4. ~Blocked(k)' => promised[k] <= 1
    BY <1>1 DEF Blocked, Less, IInv, TypeOK
  <1> QED
    BY <1>1, <1>2, <1>3, <1>4 DEF Few

LEMMA NextFew == ASSUME IInv, IInv', Few, [Next]_vars PROVE Few'
  <1>1. CASE UNCHANGED <<redisVars, req, sneaked>>
    BY <1>1 DEF Few, Blocked, Past, AskedKeys, Keys, redisVars
  <1>2. ASSUME NEW r \in Request, Login(r) PROVE Few'
    <2>1. CASE LoginSucceeds(r) \/ RecordError(r) \/ RecordBlocked(r)
      BY <2>1, EndFew DEF LoginSucceeds, RecordError, RecordBlocked, IInv
    <2>2. CASE RollbackNotification(r)
      <3>1. \A k : Past(k)' = Past(k)
        BY <2>2 DEF RollbackNotification, Past, AskedKeys, Keys, Idle, IInv, TypeOK
      <3> QED
        BY <2>2, <3>1 DEF RollbackNotification, Few, Blocked, redisVars, historyVars
    <2> QED
      BY <1>2, <2>1, <2>2, CountFew DEF Login, IInv
  <1>3. ASSUME NEW r \in Request, NEW i \in Ip, NEW e \in Email, NEW right \in BOOLEAN,
               CheckLogin(r, i, e, right) \/ FailOpen(r, i, e, right)
        PROVE  Few'
    BY <1>3, AdmitFew DEF IInv
  <1>4. CASE RedisFails \/ RedisRecovers \/ UNCHANGED vars
    BY <1>1, <1>4 DEF RedisFails, RedisRecovers, vars, historyVars
  <1> QED
    BY <1>2, <1>3, <1>4, TickFew DEF Next

----------------------------------------------------------------------------

\* The scripts, Login and time keep keys, blocks and what was promised in step.
THEOREM Inductive == Spec => [](IInv /\ Few)
  BY InitInv, InitFew, NextStep, NextFew, PTL DEF Spec

\* The scripts keep every variable in its type; HINCRBY never counts past HardLimit.
THEOREM TypeCorrect == Spec => []TypeOK
  BY Inductive, PTL DEF IInv

\* A block written by login_recordfailure.lua lasts as long as it says.
THEOREM Lasting == Spec => []BlockLasts
  <1>1. IInv => BlockLasts
    BY DEF IInv, Kept, BlockLasts, Blocked
  <1> QED
    BY <1>1, Inductive, PTL

\* During a block of a key, fewer passwords are compared by requests that
\* RateLimitMiddleware checked against this key than are served at one time; against
\* the key of the address it checks every request.
THEOREM Sneaking == Spec => []FewSneakPast
  <1>1. IInv /\ Few => FewSneakPast
    <2> SUFFICES ASSUME IInv, Few, NEW k \in Key
                 PROVE  sneaked[k] < Cardinality(Request)
      BY DEF FewSneakPast
    <2>1. Cardinality(Request) # 0
      BY FS_EmptySet
    <2> QED
      BY <2>1, PastFinite DEF Few, IInv, TypeOK
  <1> QED
    BY <1>1, Inductive, PTL

\* login_recordfailure.lua counts a failure only after the block of the one before.
THEOREM Spacing == Spec => FailuresSpaced
  <1>1. ASSUME IInv, [Next]_vars, NEW k \in Key, failures'[k] = failures[k] + 1, failures[k] > 0
        PROVE  age[k] >= BlockFor(failures[k])
    <2>1. PICK r \in Request : RecordLoginFailure(r)
      <3>1. failures'[k] # failures[k]
        BY <1>1 DEF IInv, TypeOK
      <3>2. ~(UNCHANGED redisVars)
        BY <3>1 DEF redisVars
      <3>3. ~Tick
        BY <1>1 DEF Tick, IInv, TypeOK
      <3> QED
        BY <1>1, <3>2, <3>3
           DEF Next, Login, vars, LoginSucceeds, RecordError, RecordBlocked, RollbackNotification,
               CheckLogin, FailOpen, Admit, RedisFails, RedisRecovers
    <2>2. k \in Keys(r)
      BY <1>1, <2>1 DEF RecordLoginFailure, Counted, IInv, TypeOK
    <2>3. blockLeft[k] = 0
      BY <1>1, <2>1, <2>2 DEF RecordLoginFailure, AnyBlocked, Blocked, Keys, IInv, TypeOK
    <2> QED
      BY <1>1, <2>3 DEF IInv, TypeOK, Spaced
  <1>2. IInv /\ [Next]_vars =>
          [\A k \in Key : failures'[k] = failures[k] + 1 /\ failures[k] > 0
                             => age[k] >= BlockFor(failures[k])]_vars
    BY <1>1
  <1> QED
    BY <1>2, Inductive, PTL DEF Spec, FailuresSpaced
=============================================================================
