------------------------------- MODULE Outbox -------------------------------
(***************************************************************************)
(* The transactional outbox: rows of outbox_events are recorded by request *)
(* transactions and published by one polling worker per replica.  A worker *)
(* claims a batch with a single UPDATE, publishes its events one after the *)
(* other with no lock held, and records each outcome with a statement of   *)
(* its own.  A claim is a lease: it ends after claimLockDuration whether   *)
(* the worker has crashed or is merely slow.                               *)
(*                                                                         *)
(* Time is kept as time left: a timer is set to its duration, each Tick    *)
(* takes one off, and it has run out at zero.                              *)
(***************************************************************************)
EXTENDS Naturals, FiniteSets

CONSTANTS
    Event,         \* outbox_events.id, in the order of created_at
    Worker,        \* the worker of each replica
    BatchSize,     \* WorkerConfig.BatchSize
    LockDuration,  \* claimLockDuration
    BaseBackoff,   \* baseBackoff
    MaxBackoff,    \* maxBackoff
    MaxRetries,    \* maxRetries
    RetryCap,      \* bound: retry_count is counted up to here, "RetryCap or more"
    None

\* 2^n is only ever compared with the cap.
backoffFor(n) ==
    IF BaseBackoff * 2^n \in 0 .. MaxBackoff THEN BaseBackoff * 2^n ELSE MaxBackoff

ASSUME EventOrder == Event \subseteq Nat /\ None \notin Event
ASSUME Durations == LockDuration \in Nat \ {0} /\ MaxBackoff \in Nat
ASSUME Counts == MaxRetries \in Nat /\ RetryCap \in Nat
\* Counting no further than RetryCap loses nothing: the backoff is at its cap.
ASSUME CapIsExact == backoffFor(RetryCap) = MaxBackoff

VARIABLES
    status,      \* outbox_events.status, "none" before the INSERT is committed
    retries,     \* outbox_events.retry_count
    lockLeft,    \* time left to locked_until
    retryLeft,   \* time left to next_retry_at
    batch,       \* events a worker has claimed and not finished
    known,       \* retry_count as RETURNING gave it to the worker
    pc,          \* what the worker does next
    cur,         \* the event it is recording the outcome of
    connected,   \* its RabbitMQ connection is up
    delivered,   \* events the broker has accepted
    duplicated,  \* events the broker has accepted twice
    claimLeft,   \* history: time left of the worker's claim
    overrun,     \* history: events a worker still held when its claim ran out
    faulty       \* history: events whose acceptance the database never learnt of

rowVars == <<status, retries, lockLeft, retryLeft>>
workerVars == <<batch, known, pc, cur, connected>>
brokerVars == <<delivered, duplicated>>
historyVars == <<claimLeft, overrun, faulty>>
vars == <<rowVars, workerVars, brokerVars, historyVars>>

Init ==
    /\ status = [e \in Event |-> "none"]
    /\ retries = [e \in Event |-> 0]
    /\ lockLeft = [e \in Event |-> 0]
    /\ retryLeft = [e \in Event |-> 0]
    /\ batch = [w \in Worker |-> {}]
    /\ known = [w \in Worker |-> [e \in Event |-> 0]]
    /\ pc = [w \in Worker |-> "poll"]
    /\ cur = [w \in Worker |-> None]
    /\ connected = [w \in Worker |-> TRUE]
    /\ delivered = {} /\ duplicated = {}
    /\ claimLeft = [w \in Worker |-> 0]
    /\ overrun = {} /\ faulty = {}

----------------------------------------------------------------------------
(* The requests: CreateTx, visible when the request's transaction commits. *)
(* created_at is set before, so rows may appear out of order.              *)

CreateTx(e) ==
    /\ status[e] = "none"
    /\ status' = [status EXCEPT ![e] = "pending"]
    /\ UNCHANGED <<retries, lockLeft, retryLeft, workerVars, brokerVars, historyVars>>

----------------------------------------------------------------------------
(* ClaimBatch                                                              *)

ProcessingIsClaimable(e) ==
    \/ status[e] \in {"pending", "processing"}
    \/ status[e] = "failed" /\ retryLeft[e] = 0

UnlockedIsClaimable(e) == status[e] # "none" /\ lockLeft[e] = 0 /\ retryLeft[e] = 0

Claimable(e) ==
    \/ status[e] = "pending"
    \/ status[e] = "processing" /\ lockLeft[e] = 0
    \/ status[e] = "failed" /\ retryLeft[e] = 0

\* ORDER BY created_at ASC LIMIT $1
Oldest(S) == {e \in S : Cardinality({d \in S : d < e}) < BatchSize}

\* Rows that a statement of another worker may have locked at this moment.
BeingMarked(w) == {cur[v] : v \in {v \in Worker \ {w} : pc[v] \in {"mark", "fail"}}}

\* FOR UPDATE SKIP LOCKED passes over the rows of skip.
ClaimBatch(w, skip) ==
    LET S == Oldest({e \in Event \ skip : Claimable(e)}) IN
    /\ pc[w] = "poll" /\ batch[w] = {} /\ S # {}
    /\ status' = [e \in Event |-> IF e \in S THEN "processing" ELSE status[e]]
    /\ lockLeft' = [e \in Event |-> IF e \in S THEN LockDuration ELSE lockLeft[e]]
    /\ batch' = [batch EXCEPT ![w] = S]
    /\ known' = [known EXCEPT ![w] = [e \in Event |-> IF e \in S THEN retries[e] ELSE 0]]
    /\ claimLeft' = [claimLeft EXCEPT ![w] = LockDuration]
    /\ UNCHANGED <<retries, retryLeft, pc, cur, connected, brokerVars, overrun, faulty>>

----------------------------------------------------------------------------
(* processOne: Publish returns nil only for an acknowledged message; an    *)
(* error may come with or without the broker having taken it.              *)

Accept(e) ==
    /\ delivered' = delivered \cup {e}
    /\ duplicated' = IF e \in delivered THEN duplicated \cup {e} ELSE duplicated

Published(w, e, next) ==
    /\ pc[w] = "poll" /\ e \in batch[w]
    /\ pc' = [pc EXCEPT ![w] = next]
    /\ cur' = [cur EXCEPT ![w] = e]
    /\ UNCHANGED <<rowVars, batch, known, connected, claimLeft, overrun>>

MarkAnyway(w, e) == Published(w, e, "mark") /\ UNCHANGED <<brokerVars, faulty>>

PublishConfirmed(w, e) ==
    /\ connected[w]
    /\ Published(w, e, "mark")
    /\ Accept(e)
    /\ UNCHANGED faulty

PublishRefused(w, e) ==
    /\ Published(w, e, "fail")
    /\ UNCHANGED <<brokerVars, faulty>>

\* A timeout, a lost connection or a cancelled context after the broker took
\* the message.
PublishUnconfirmed(w, e) ==
    /\ connected[w]
    /\ Published(w, e, "fail")
    /\ Accept(e)
    /\ faulty' = faulty \cup {e}

----------------------------------------------------------------------------
(* The outcome: UPDATE ... WHERE id, whoever holds the claim by now.       *)

Finish(w) ==
    /\ batch' = [batch EXCEPT ![w] = @ \ {cur[w]}]
    /\ pc' = [pc EXCEPT ![w] = "poll"]
    /\ cur' = [cur EXCEPT ![w] = None]
    /\ UNCHANGED <<known, connected, brokerVars, claimLeft, overrun>>

MarkNoRow(w) == pc[w] = "mark" /\ Finish(w) /\ UNCHANGED <<rowVars, faulty>>

MarkPublished(w) ==
    /\ pc[w] = "mark"
    /\ status' = [status EXCEPT ![cur[w]] = "published"]
    /\ Finish(w)
    /\ UNCHANGED <<retries, lockLeft, retryLeft, faulty>>

\* fail: the delay comes from the retry_count of the claim.
MarkFailed(w) ==
    LET e == cur[w] IN
    /\ pc[w] = "fail"
    /\ status' = [status EXCEPT ![e] = "failed"]
    /\ retries' = [retries EXCEPT ![e] = IF @ < RetryCap THEN @ + 1 ELSE @]
    /\ retryLeft' = [retryLeft EXCEPT ![e] = backoffFor(known[w][e])]
    /\ Finish(w)
    /\ UNCHANGED <<lockLeft, faulty>>

\* The statement fails: the error is logged and the next event follows.
MarkError(w) ==
    /\ pc[w] \in {"mark", "fail"}
    /\ Finish(w)
    /\ faulty' = IF pc[w] = "mark" THEN faulty \cup {cur[w]} ELSE faulty
    /\ UNCHANGED rowVars

Drop(w) ==
    /\ batch' = [batch EXCEPT ![w] = {}]
    /\ pc' = [pc EXCEPT ![w] = "poll"]
    /\ cur' = [cur EXCEPT ![w] = None]
    /\ faulty' = IF pc[w] = "mark" THEN faulty \cup {cur[w]} ELSE faulty
    /\ UNCHANGED <<rowVars, known, brokerVars, claimLeft, overrun>>

\* A shutdown in the middle of a batch (Publish and the statements fail with
\* the cancelled context) or an error while reading the rows of RETURNING: the
\* claimed rows stay as they are.
Abandon(w) == batch[w] # {} /\ Drop(w) /\ UNCHANGED connected

\* A crash; the new process dials the broker again.
Restart(w) == Drop(w) /\ connected' = [connected EXCEPT ![w] = TRUE]

\* The connection is dialled once, in main: nothing re-establishes it.
ConnectionLost(w) ==
    /\ connected[w]
    /\ connected' = [connected EXCEPT ![w] = FALSE]
    /\ UNCHANGED <<rowVars, batch, known, pc, cur, brokerVars, historyVars>>

Less(timer) == [x \in DOMAIN timer |-> IF timer[x] = 0 THEN 0 ELSE timer[x] - 1]

Tick ==
    /\ lockLeft' = Less(lockLeft)
    /\ retryLeft' = Less(retryLeft)
    /\ claimLeft' = Less(claimLeft)
    /\ overrun' = overrun \cup UNION {batch[w] : w \in {w \in Worker : claimLeft[w] <= 1}}
    /\ UNCHANGED <<status, retries, workerVars, brokerVars, faulty>>

Step(w) ==
    \/ \E skip \in SUBSET BeingMarked(w) : ClaimBatch(w, skip)
    \/ \E e \in Event : \/ PublishConfirmed(w, e)
                        \/ PublishRefused(w, e)
                        \/ PublishUnconfirmed(w, e)
    \/ MarkPublished(w) \/ MarkFailed(w) \/ MarkError(w)
    \/ Abandon(w) \/ Restart(w) \/ ConnectionLost(w)

Next == (\E e \in Event : CreateTx(e)) \/ (\E w \in Worker : Step(w)) \/ Tick

Spec == Init /\ [][Next]_vars

----------------------------------------------------------------------------
(* Fairness: time passes and the worker goroutine keeps running; a claim   *)
(* that is possible again and again is made without a row being skipped,   *)
(* and a connected broker, the database and the replica do not fail, or    *)
(* hang, at the same place every time.                                     *)

Fairness ==
    /\ WF_vars(Tick)
    /\ \A w \in Worker :
          /\ SF_vars(ClaimBatch(w, {}))
          /\ WF_vars(MarkFailed(w) \/ MarkError(w))
          /\ \A e \in Event : /\ SF_vars(PublishConfirmed(w, e))
                              /\ SF_vars(cur[w] = e /\ MarkPublished(w))

FairSpec == Spec /\ Fairness

----------------------------------------------------------------------------
(* Properties                                                              *)

Statuses == {"none", "pending", "processing", "failed", "published"}

\* Every variable has its type; a worker that records an outcome records that
\* of an event of its batch.
TypeOK ==
    /\ status \in [Event -> Statuses]
    /\ retries \in [Event -> 0 .. RetryCap]
    /\ lockLeft \in [Event -> 0 .. LockDuration]
    /\ retryLeft \in [Event -> 0 .. MaxBackoff]
    /\ batch \in [Worker -> SUBSET Event]
    /\ known \in [Worker -> [Event -> 0 .. RetryCap]]
    /\ pc \in [Worker -> {"poll", "mark", "fail"}]
    /\ cur \in [Worker -> Event \cup {None}]
    /\ connected \in [Worker -> BOOLEAN]
    /\ \A w \in Worker : pc[w] # "poll" => cur[w] \in batch[w]
    /\ delivered \in SUBSET Event /\ duplicated \in SUBSET delivered
    /\ claimLeft \in [Worker -> 0 .. LockDuration]
    /\ overrun \in SUBSET Event /\ faulty \in SUBSET Event

\* An event is marked published only when the broker has accepted it, whatever
\* crashes, lost confirmations and overlapping claims came before.
PublishedWasDelivered ==
    \A e \in Event : status[e] = "published" => e \in delivered

\* Claims exclude each other as leases do: two workers hold an event at the
\* same time only after some worker kept it past claimLockDuration.
ExclusiveUntilOverrun ==
    \A w, v \in Worker : w # v => batch[w] \cap batch[v] \subseteq overrun

\* Delivery is exactly once when nothing goes wrong: an event reaches the broker
\* twice only if a claim was overrun, or its acceptance was never recorded.
OnceWithoutFault == duplicated \subseteq overrun \cup faulty

\* While an event has not been overrun, published is final: no retry takes it
\* back to failed or hands it out again.
PublishedIsFinal ==
    [][\A e \in Event : status[e] = "published" /\ e \notin overrun'
                           => status'[e] = "published"]_vars

Promise == INSTANCE Delivery
    WITH recorded <- {e \in Event : status[e] # "none"},
         accepted <- delivered,
         twice <- duplicated,
         settled <- {e \in Event : status[e] = "published"},
         late <- overrun,
         unrecorded <- faulty

\* The rows, claims and workers together deliver as promised: an event goes out
\* again only when it is late, or unsettled with its acceptance unrecorded at that
\* moment, and an event settled in time is never touched again.
ImplementsDelivery == Promise!Spec

\* Every recorded event is published, or has failed more than maxRetries times, as
\* long as some worker keeps its broker connection: crashes, failed publishes and
\* failed statements only delay it.  Past maxRetries, where Processor.fail goes on
\* and the documentation gives up, nothing is claimed.
EventuallyPublished ==
    \/ \A w \in Worker : []<>(~connected[w])
    \/ \A e \in Event :
         status[e] = "pending" ~> status[e] = "published" \/ retries[e] > MaxRetries
=============================================================================
