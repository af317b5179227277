---------------------------- MODULE OutboxProofs ----------------------------
(***************************************************************************)
(* Proofs about Outbox for any number of events and workers and any        *)
(* durations.  The argument: until a claim has been overrun, the row it    *)
(* covers is in status processing and its lock runs out together with the  *)
(* claim, so no statement but the holder's can touch it; an accepted event *)
(* is therefore either published or about to be marked by its one holder.  *)
(***************************************************************************)
EXTENDS Outbox, TLAPS

\* A worker marks an event published only after the broker took it.
MarkInv == \A w \in Worker : pc[w] = "mark" => cur[w] \in delivered

\* A claim that has not been overrun covers its rows.
ClaimInv ==
    \A w \in Worker : \A e \in batch[w] \ overrun :
        status[e] = "processing" /\ lockLeft[e] = claimLeft[w] /\ claimLeft[w] > 0

\* An accepted event is published, or its holder is about to mark it.
AcceptedInv ==
    \A e \in delivered \ (overrun \cup faulty) :
        status[e] = "published" \/ \E w \in Worker : pc[w] = "mark" /\ cur[w] = e

IInv ==
    /\ TypeOK
    /\ MarkInv /\ ClaimInv /\ AcceptedInv
    /\ PublishedWasDelivered /\ ExclusiveUntilOverrun /\ OnceWithoutFault

USE EventOrder, Durations, Counts

LEMMA BackoffType == \A n : backoffFor(n) \in 0 .. MaxBackoff
  BY DEF backoffFor

\* What a claim takes was claimable.
LEMMA OldestIsSubset == \A S : Oldest(S) \subseteq S
  BY DEF Oldest

\* A timer that runs keeps its range.
LEMMA LessType ==
    ASSUME NEW X, NEW k \in Nat, NEW f \in [X -> 0 .. k]
    PROVE  Less(f) \in [X -> 0 .. k]
  BY DEF Less

----------------------------------------------------------------------------

LEMMA InitIInv == Init => IInv
  BY DEF Init, IInv, TypeOK, Statuses, MarkInv, ClaimInv, AcceptedInv,
         PublishedWasDelivered, ExclusiveUntilOverrun, OnceWithoutFault

LEMMA CreateStep ==
    ASSUME IInv, NEW e \in Event, CreateTx(e)
    PROVE  IInv'
  <1> USE DEF IInv, CreateTx, workerVars, brokerVars, historyVars
  <1>1. TypeOK'
    BY DEF TypeOK, Statuses
  <1>2. MarkInv' /\ ExclusiveUntilOverrun' /\ OnceWithoutFault'
    BY DEF MarkInv, ExclusiveUntilOverrun, OnceWithoutFault
  <1>3. ClaimInv'
    BY DEF ClaimInv, TypeOK
  <1>4. AcceptedInv' /\ PublishedWasDelivered'
    BY DEF AcceptedInv, PublishedWasDelivered, TypeOK
  <1>5. QED
    BY <1>1, <1>2, <1>3, <1>4

LEMMA ClaimStep ==
    ASSUME IInv, NEW w \in Worker, NEW skip, ClaimBatch(w, skip)
    PROVE  IInv'
  <1> DEFINE S == Oldest({e \in Event \ skip : Claimable(e)})
  <1>1. /\ S \subseteq Event /\ \A e \in S : Claimable(e)
    BY OldestIsSubset
  <1>2. /\ pc[w] = "poll" /\ batch[w] = {}
        /\ status' = [e \in Event |-> IF e \in S THEN "processing" ELSE status[e]]
        /\ lockLeft' = [e \in Event |-> IF e \in S THEN LockDuration ELSE lockLeft[e]]
        /\ batch' = [batch EXCEPT ![w] = S]
        /\ known' = [known EXCEPT ![w] = [e \in Event |-> IF e \in S THEN retries[e] ELSE 0]]
        /\ claimLeft' = [claimLeft EXCEPT ![w] = LockDuration]
        /\ UNCHANGED <<retries, retryLeft, pc, cur, connected, delivered, duplicated, overrun, faulty>>
    BY DEF ClaimBatch, brokerVars
  <1> HIDE DEF S
  <1>3. TypeOK'
    BY <1>1, <1>2 DEF IInv, TypeOK, Statuses
  <1>4. \A v \in Worker : \A e \in batch[v] \ overrun : e \notin S
    BY <1>1 DEF IInv, ClaimInv, Claimable, TypeOK
  <1>5. ClaimInv'
    <2> SUFFICES ASSUME NEW v \in Worker, NEW e \in batch'[v] \ overrun
                 PROVE  status'[e] = "processing" /\ lockLeft'[e] = claimLeft'[v] /\ claimLeft'[v] > 0
      BY <1>2 DEF ClaimInv
    <2>1. CASE v = w
      BY <1>1, <1>2, <2>1 DEF IInv, TypeOK
    <2>2. CASE v # w
      <3>1. e \in batch[v] \ overrun /\ e \notin S /\ e \in Event /\ claimLeft'[v] = claimLeft[v]
        BY <1>2, <1>4, <2>2 DEF IInv, TypeOK
      <3>2. QED
        BY <1>2, <3>1 DEF IInv, ClaimInv
    <2>3. QED
      BY <2>1, <2>2
  <1>6. ExclusiveUntilOverrun'
    BY <1>1, <1>2, <1>4 DEF IInv, ExclusiveUntilOverrun, TypeOK
  <1>7. AcceptedInv'
    <2>1. \A e \in Event : e \in S => status[e] # "published"
      BY <1>1 DEF Claimable
    <2>2. \A v \in Worker : pc[v] = "mark" => cur[v] \in batch[v]
      BY DEF IInv, TypeOK
    <2>3. QED
      BY <1>1, <1>2, <2>1, <2>2 DEF IInv, AcceptedInv, TypeOK
  <1>8. MarkInv' /\ PublishedWasDelivered' /\ OnceWithoutFault'
    BY <1>2 DEF IInv, MarkInv, PublishedWasDelivered, OnceWithoutFault
  <1>9. QED
    BY <1>3, <1>5, <1>6, <1>7, <1>8 DEF IInv

----------------------------------------------------------------------------
(* Publish: the second acceptance of an event is the only delicate case.   *)

LEMMA PublishStep ==
    ASSUME IInv, NEW w \in Worker, NEW e \in Event,
           PublishConfirmed(w, e) \/ PublishRefused(w, e) \/ PublishUnconfirmed(w, e)
    PROVE  IInv'
  <1>1. /\ pc[w] = "poll" /\ e \in batch[w]
        /\ \E next \in {"mark", "fail"} : pc' = [pc EXCEPT ![w] = next]
        /\ cur' = [cur EXCEPT ![w] = e]
        /\ UNCHANGED <<status, retries, lockLeft, retryLeft, batch, known, connected, claimLeft,
                       overrun>>
    BY DEF PublishConfirmed, PublishRefused, PublishUnconfirmed, Published, rowVars
  <1>2. /\ delivered' \in {delivered, delivered \cup {e}}
        /\ faulty' \in {faulty, faulty \cup {e}}
        /\ pc'[w] = "mark" => e \in delivered'
        /\ e \in delivered' => e \in delivered \/ e \in faulty' \/ pc'[w] = "mark"
        /\ duplicated' \in {duplicated, duplicated \cup {e}}
        /\ e \in duplicated' => e \in duplicated \/ e \in delivered
        /\ duplicated' \subseteq delivered'
    BY DEF PublishConfirmed, PublishRefused, PublishUnconfirmed, Published, Accept,
           brokerVars, IInv, TypeOK
  <1>3. TypeOK'
    BY <1>1, <1>2 DEF IInv, TypeOK
  <1>4. MarkInv'
    BY <1>1, <1>2 DEF IInv, MarkInv, TypeOK
  <1>5. ClaimInv' /\ ExclusiveUntilOverrun'
    BY <1>1 DEF IInv, ClaimInv, ExclusiveUntilOverrun
  <1>6. PublishedWasDelivered'
    BY <1>1, <1>2 DEF IInv, PublishedWasDelivered
  <1>7. e \in delivered => e \in overrun \cup faulty
    <2>1. e \notin overrun => status[e] = "processing"
      BY <1>1 DEF IInv, ClaimInv
    <2>2. ASSUME NEW v \in Worker, pc[v] = "mark", cur[v] = e PROVE e \in overrun
      BY <1>1, <2>2 DEF IInv, TypeOK, ExclusiveUntilOverrun
    <2>3. QED
      BY <2>1, <2>2 DEF IInv, AcceptedInv
  <1>8. OnceWithoutFault'
    BY <1>1, <1>2, <1>7 DEF IInv, OnceWithoutFault
  <1>9. AcceptedInv'
    BY <1>1, <1>2, <1>7 DEF IInv, AcceptedInv, TypeOK
  <1>10. QED
    BY <1>3, <1>4, <1>5, <1>6, <1>8, <1>9 DEF IInv

----------------------------------------------------------------------------
(* The outcome of an event.  Unless its claim was overrun, the worker that *)
(* records it is the only one that holds it.                               *)

LEMMA FinishStep ==
    ASSUME IInv, NEW w \in Worker, MarkPublished(w) \/ MarkFailed(w) \/ MarkError(w)
    PROVE  IInv'
  <1> DEFINE e == cur[w]
  <1>1. /\ pc[w] \in {"mark", "fail"}
        /\ batch' = [batch EXCEPT ![w] = @ \ {e}]
        /\ pc' = [pc EXCEPT ![w] = "poll"] /\ cur' = [cur EXCEPT ![w] = None]
        /\ UNCHANGED <<lockLeft, known, connected, delivered, duplicated, claimLeft, overrun>>
    BY DEF MarkPublished, MarkFailed, MarkError, Finish, brokerVars, rowVars
  <1>2. e \in Event /\ e \in batch[w]
    BY <1>1 DEF IInv, TypeOK
  <1>3. /\ \/ status' = [status EXCEPT ![e] = "published"] /\ pc[w] = "mark" /\ faulty' = faulty
           \/ status' = [status EXCEPT ![e] = "failed"] /\ pc[w] = "fail" /\ faulty' = faulty
           \/ status' = status /\ faulty' = IF pc[w] = "mark" THEN faulty \cup {e} ELSE faulty
        /\ faulty \subseteq faulty'
    BY DEF MarkPublished, MarkFailed, MarkError, rowVars
  <1>4. TypeOK'
    <2>1. retries' \in [Event -> 0 .. RetryCap] /\ retryLeft' \in [Event -> 0 .. MaxBackoff]
      <3>1. CASE MarkFailed(w)
        <4>1. retries' = [retries EXCEPT ![e] = IF retries[e] < RetryCap THEN retries[e] + 1
                                                                      ELSE retries[e]]
          BY <1>2, <3>1 DEF MarkFailed, IInv, TypeOK
        <4>2. (IF retries[e] < RetryCap THEN retries[e] + 1 ELSE retries[e]) \in 0 .. RetryCap
          <5>1. retries[e] \in 0 .. RetryCap
            BY <1>2 DEF IInv, TypeOK
          <5>2. QED
            BY <5>1
        <4>3. retryLeft' = [retryLeft EXCEPT ![e] = backoffFor(known[w][e])]
          BY <3>1 DEF MarkFailed
        <4>4. QED
          BY <4>1, <4>2, <4>3, BackoffType DEF IInv, TypeOK
      <3>2. CASE MarkPublished(w) \/ MarkError(w)
        BY <3>2 DEF IInv, TypeOK, MarkPublished, MarkError, rowVars
      <3>3. QED
        BY <3>1, <3>2
    <2>2. QED
      BY <1>1, <1>2, <1>3, <2>1 DEF IInv, TypeOK, Statuses
  <1> HIDE DEF e
  <1>5. MarkInv'
    BY <1>1 DEF IInv, MarkInv, TypeOK
  <1>6. \A v \in Worker : v # w => e \notin batch[v] \ overrun
    BY <1>2 DEF IInv, ExclusiveUntilOverrun
  <1>7. ClaimInv'
    <2> SUFFICES ASSUME NEW v \in Worker, NEW d \in batch'[v] \ overrun
                 PROVE  status'[d] = "processing" /\ lockLeft[d] = claimLeft[v] /\ claimLeft[v] > 0
      BY <1>1 DEF ClaimInv
    <2>1. d \in batch[v] \ overrun /\ d # e
      BY <1>1, <1>6 DEF IInv, TypeOK
    <2>2. QED
      BY <1>2, <1>3, <2>1 DEF IInv, ClaimInv, TypeOK
  <1>8. ExclusiveUntilOverrun'
    BY <1>1 DEF IInv, ExclusiveUntilOverrun, TypeOK
  <1>9. PublishedWasDelivered'
    BY <1>1, <1>2, <1>3 DEF IInv, PublishedWasDelivered, MarkInv, TypeOK, e
  <1>10. OnceWithoutFault'
    BY <1>1, <1>3 DEF IInv, OnceWithoutFault
  <1>11. AcceptedInv'
    <2> SUFFICES ASSUME NEW d \in delivered \ (overrun \cup faulty')
                 PROVE  status'[d] = "published" \/ \E v \in Worker : pc'[v] = "mark" /\ cur'[v] = d
      BY <1>1 DEF AcceptedInv
    <2>1. CASE d = e
      <3>1. status[e] = "processing"
        BY <1>2, <1>3, <2>1 DEF IInv, ClaimInv
      <3>2. PICK v \in Worker : pc[v] = "mark" /\ cur[v] = e
        BY <1>3, <2>1, <3>1 DEF IInv, AcceptedInv
      <3>3. v = w
        BY <1>6, <2>1, <3>2 DEF IInv, TypeOK
      <3>4. QED
        BY <1>2, <1>3, <2>1, <3>2, <3>3 DEF IInv, TypeOK
    <2>2. CASE d # e
      <3>1. d \in Event /\ status'[d] = status[d]
        BY <1>2, <1>3, <2>2 DEF IInv, TypeOK
      <3>2. \A v \in Worker : cur[v] = d => v # w
        BY <2>2 DEF e
      <3>3. QED
        BY <1>1, <1>3, <3>1, <3>2 DEF IInv, AcceptedInv, TypeOK
    <2>3. QED
      BY <2>1, <2>2
  <1>12. QED
    BY <1>4, <1>5, <1>7, <1>8, <1>9, <1>10, <1>11 DEF IInv

LEMMA DropStep ==
    ASSUME IInv, NEW w \in Worker, Abandon(w) \/ Restart(w)
    PROVE  IInv'
  <1>1. /\ batch' = [batch EXCEPT ![w] = {}]
        /\ pc' = [pc EXCEPT ![w] = "poll"] /\ cur' = [cur EXCEPT ![w] = None]
        /\ faulty' = IF pc[w] = "mark" THEN faulty \cup {cur[w]} ELSE faulty
        /\ UNCHANGED <<status, retries, lockLeft, retryLeft, known, delivered, duplicated,
                       claimLeft, overrun>>
        /\ connected' \in [Worker -> BOOLEAN]
    BY DEF IInv, TypeOK, Abandon, Restart, Drop, rowVars, brokerVars
  <1>2. TypeOK'
    BY <1>1 DEF IInv, TypeOK
  <1>3. MarkInv' /\ ClaimInv' /\ ExclusiveUntilOverrun'
    BY <1>1 DEF IInv, MarkInv, ClaimInv, ExclusiveUntilOverrun, TypeOK
  <1>4. PublishedWasDelivered' /\ OnceWithoutFault'
    BY <1>1 DEF IInv, PublishedWasDelivered, OnceWithoutFault
  <1>5. AcceptedInv'
    BY <1>1 DEF IInv, AcceptedInv, TypeOK
  <1>6. QED
    BY <1>2, <1>3, <1>4, <1>5 DEF IInv

LEMMA ConnectionStep ==
    ASSUME IInv, NEW w \in Worker, ConnectionLost(w)
    PROVE  IInv'
  <1> USE DEF IInv, ConnectionLost, rowVars, brokerVars, historyVars
  <1>1. TypeOK'
    BY DEF TypeOK
  <1>2. MarkInv' /\ ClaimInv' /\ AcceptedInv'
    BY DEF MarkInv, ClaimInv, AcceptedInv
  <1>3. PublishedWasDelivered' /\ ExclusiveUntilOverrun' /\ OnceWithoutFault'
    BY DEF PublishedWasDelivered, ExclusiveUntilOverrun, OnceWithoutFault
  <1>4. QED
    BY <1>1, <1>2, <1>3

\* Time: a claim and the locks of its rows run down together, and what a worker
\* still holds when they run out is overrun.
LEMMA TickStep ==
    ASSUME IInv, Tick
    PROVE  IInv'
  <1>1. /\ lockLeft' = Less(lockLeft) /\ retryLeft' = Less(retryLeft)
        /\ claimLeft' = Less(claimLeft)
        /\ UNCHANGED <<status, retries, batch, known, pc, cur, connected, delivered, duplicated,
                       faulty>>
    BY DEF Tick, workerVars, brokerVars
  <1>2. overrun \subseteq overrun' /\ overrun' \in SUBSET Event
    <2>1. \A w \in Worker : batch[w] \subseteq Event
      BY DEF IInv, TypeOK
    <2>2. UNION {batch[w] : w \in {w \in Worker : claimLeft[w] <= 1}} \subseteq Event
      BY <2>1
    <2>3. QED
      BY <2>2 DEF Tick, IInv, TypeOK
  <1>3. \A w \in Worker : \A e \in batch[w] \ overrun' : claimLeft[w] > 1
    BY DEF Tick, IInv, TypeOK
  <1>4. TypeOK'
    BY <1>1, <1>2, LessType DEF IInv, TypeOK
  <1>5. ClaimInv'
    <2> SUFFICES ASSUME NEW w \in Worker, NEW e \in batch[w] \ overrun'
                 PROVE  status[e] = "processing" /\ lockLeft'[e] = claimLeft'[w] /\ claimLeft'[w] > 0
      BY <1>1 DEF ClaimInv
    <2>1. e \in Event /\ claimLeft[w] > 1 /\ lockLeft[e] = claimLeft[w] /\ status[e] = "processing"
      BY <1>2, <1>3 DEF IInv, ClaimInv, TypeOK
    <2>2. QED
      BY <1>1, <2>1 DEF Less, IInv, TypeOK
  <1>6. MarkInv' /\ PublishedWasDelivered' /\ OnceWithoutFault' /\ ExclusiveUntilOverrun'
    BY <1>1, <1>2 DEF IInv, MarkInv, PublishedWasDelivered, OnceWithoutFault,
                      ExclusiveUntilOverrun
  <1>7. AcceptedInv'
    BY <1>1, <1>2 DEF IInv, AcceptedInv
  <1>8. QED
    BY <1>4, <1>5, <1>6, <1>7 DEF IInv

LEMMA NextIInv == IInv /\ [Next]_vars => IInv'
  <1> SUFFICES ASSUME IInv, [Next]_vars PROVE IInv'
    OBVIOUS
  <1>1. CASE UNCHANGED vars
    BY <1>1 DEF vars, rowVars, workerVars, brokerVars, historyVars, IInv, TypeOK, MarkInv,
                ClaimInv, AcceptedInv, PublishedWasDelivered, ExclusiveUntilOverrun,
                OnceWithoutFault
  <1>2. ASSUME NEW w \in Worker, Step(w) PROVE IInv'
    BY <1>2, ClaimStep, PublishStep, FinishStep, DropStep,
       ConnectionStep DEF Step
  <1>3. QED
    BY <1>1, <1>2, CreateStep, TickStep DEF Next

\* The inductive invariant holds in every reachable state.
THEOREM Invariance == Spec => []IInv
  BY InitIInv, NextIInv, PTL DEF Spec

\* Every variable keeps its type, for any number of events and workers.
THEOREM TypeCorrect == Spec => []TypeOK
  <1>1. IInv => TypeOK
    BY DEF IInv
  <1>2. QED
    BY <1>1, Invariance, PTL

\* No event is marked published that the broker has not accepted.
THEOREM NoFalsePublished == Spec => []PublishedWasDelivered
  <1>1. IInv => PublishedWasDelivered
    BY DEF IInv
  <1>2. QED
    BY <1>1, Invariance, PTL

\* Claims of any number of workers are exclusive until one is overrun.
THEOREM ClaimsExclusive == Spec => []ExclusiveUntilOverrun
  <1>1. IInv => ExclusiveUntilOverrun
    BY DEF IInv
  <1>2. QED
    BY <1>1, Invariance, PTL

\* An event is delivered twice only after an overrun claim or an acceptance that
\* the database did not learn of.
THEOREM ExactlyOnce == Spec => []OnceWithoutFault
  <1>1. IInv => OnceWithoutFault
    BY DEF IInv
  <1>2. QED
    BY <1>1, Invariance, PTL

\* Without an overrun, a published event is never handed out again.
THEOREM FinalPublished == Spec => PublishedIsFinal
  <1> DEFINE Final == \A e \in Event : status[e] = "published" /\ e \notin overrun'
                                          => status'[e] = "published"
  <1>1. ASSUME IInv, [Next]_vars, NEW e \in Event, status[e] = "published", e \notin overrun'
        PROVE  status'[e] = "published"
    <2> e \notin overrun
      BY <1>1 DEF Next, Step, CreateTx, ClaimBatch, PublishConfirmed, PublishRefused,
                  PublishUnconfirmed, Published, MarkPublished, MarkFailed, MarkError,
                  Finish, Abandon, Restart, Drop, ConnectionLost, Tick, vars, historyVars
    <2>1. ASSUME NEW w \in Worker, MarkFailed(w) PROVE cur[w] # e
      BY <1>1, <2>1 DEF IInv, TypeOK, ClaimInv, MarkFailed
    <2>2. ASSUME NEW w \in Worker, NEW skip, ClaimBatch(w, skip) PROVE status'[e] = "published"
      <3>1. e \notin Oldest({d \in Event \ skip : Claimable(d)})
        BY <1>1, OldestIsSubset DEF Claimable
      <3>2. QED
        BY <1>1, <2>2, <3>1 DEF ClaimBatch
    <2>3. ASSUME NEW w \in Worker, Step(w) PROVE status'[e] = "published"
      BY <1>1, <2>1, <2>2, <2>3 DEF Step, PublishConfirmed, PublishRefused,
         PublishUnconfirmed, Published, MarkPublished, MarkFailed, MarkError, Abandon,
         Restart, Drop, ConnectionLost, rowVars, IInv, TypeOK
    <2>4. QED
      BY <1>1, <2>3 DEF Next, CreateTx, Tick, vars, rowVars, IInv, TypeOK
  <1>2. IInv /\ [Next]_vars => [Final]_vars
    BY <1>1
  <1>3. QED
    BY <1>2, Invariance, PTL DEF Spec, PublishedIsFinal

----------------------------------------------------------------------------
(* The outbox delivers as Delivery promises.  One more fact is needed:     *)
(* what a worker holds has been recorded, even when it is late with it.    *)

HeldInv == \A w \in Worker : \A e \in batch[w] : status[e] # "none"

LEMMA NextHeldInv == IInv /\ HeldInv /\ [Next]_vars => HeldInv'
  <1> SUFFICES ASSUME IInv, HeldInv, [Next]_vars PROVE HeldInv'
    OBVIOUS
  <1>1. CASE UNCHANGED <<status, batch>>
    BY <1>1 DEF HeldInv
  <1>2. ASSUME NEW e \in Event, CreateTx(e) PROVE HeldInv'
    BY <1>2 DEF CreateTx, workerVars, HeldInv, IInv, TypeOK
  <1>3. ASSUME NEW w \in Worker, NEW skip, ClaimBatch(w, skip) PROVE HeldInv'
    <2> DEFINE S == Oldest({e \in Event \ skip : Claimable(e)})
    <2>1. /\ status' = [e \in Event |-> IF e \in S THEN "processing" ELSE status[e]]
          /\ batch' = [batch EXCEPT ![w] = S]
      BY <1>3 DEF ClaimBatch
    <2>2. S \subseteq Event
      BY OldestIsSubset
    <2> HIDE DEF S
    <2>3. QED
      BY <2>1, <2>2 DEF HeldInv, IInv, TypeOK
  <1>4. ASSUME NEW w \in Worker, MarkPublished(w) \/ MarkFailed(w) \/ MarkError(w)
        PROVE  HeldInv'
    <2>1. /\ batch' = [batch EXCEPT ![w] = @ \ {cur[w]}]
          /\ \/ status' = [status EXCEPT ![cur[w]] = "published"]
             \/ status' = [status EXCEPT ![cur[w]] = "failed"]
             \/ status' = status
      BY <1>4 DEF MarkPublished, MarkFailed, MarkError, Finish, rowVars
    <2>2. QED
      BY <2>1 DEF HeldInv, IInv, TypeOK
  <1>5. ASSUME NEW w \in Worker, Abandon(w) \/ Restart(w) PROVE HeldInv'
    BY <1>5 DEF Abandon, Restart, Drop, rowVars, HeldInv, IInv, TypeOK
  <1>6. ASSUME NEW w \in Worker, NEW e \in Event,
               PublishConfirmed(w, e) \/ PublishRefused(w, e) \/ PublishUnconfirmed(w, e)
        PROVE  HeldInv'
    BY <1>1, <1>6 DEF PublishConfirmed, PublishRefused, PublishUnconfirmed, Published, rowVars
  <1>7. ASSUME NEW w \in Worker, ConnectionLost(w) PROVE HeldInv'
    BY <1>1, <1>7 DEF ConnectionLost, rowVars
  <1>8. ASSUME NEW w \in Worker, Step(w) PROVE HeldInv'
    BY <1>3, <1>4, <1>5, <1>6, <1>7, <1>8 DEF Step
  <1>9. CASE Tick \/ UNCHANGED vars
    BY <1>1, <1>9 DEF Tick, vars, rowVars, workerVars
  <1>10. QED
    BY <1>2, <1>8, <1>9 DEF Next

\* What a worker holds has been recorded, in every reachable state.
THEOREM HeldInvariance == Spec => []HeldInv
  <1>1. Init => HeldInv
    BY DEF Init, HeldInv
  <1>2. QED
    BY <1>1, NextHeldInv, Invariance, PTL DEF Spec

Recorded == {e \in Event : status[e] # "none"}
Settled == {e \in Event : status[e] = "published"}

\* An event that a worker holds and that is not late has not been settled.
LEMMA HeldNotDone ==
    ASSUME IInv, HeldInv, NEW w \in Worker, NEW e \in batch[w]
    PROVE  e \in Event /\ e \in Recorded /\ ~(e \in Settled /\ e \notin overrun)
  BY DEF IInv, TypeOK, ClaimInv, HeldInv, Recorded, Settled

Delivers == [Promise!Next]_(Promise!vars)

LEMMA CreateDelivers ==
    ASSUME IInv, NEW e \in Event, CreateTx(e)
    PROVE  Delivers
  <1>1. Recorded' = Recorded \cup {e} /\ Settled' = Settled
    BY DEF CreateTx, Recorded, Settled, IInv, TypeOK
  <1>2. Promise!Record(e)
    BY <1>1 DEF CreateTx, brokerVars, historyVars, Recorded, Settled, Promise!Record
  <1>3. QED
    BY <1>2 DEF Delivers, Promise!Next

LEMMA ClaimDelivers ==
    ASSUME IInv, NEW w \in Worker, NEW skip, ClaimBatch(w, skip)
    PROVE  Delivers
  <1> DEFINE S == Oldest({e \in Event \ skip : Claimable(e)})
  <1>1. /\ status' = [e \in Event |-> IF e \in S THEN "processing" ELSE status[e]]
        /\ UNCHANGED <<delivered, duplicated, overrun, faulty>>
    BY DEF ClaimBatch, brokerVars
  <1>2. S \subseteq Event /\ \A e \in S : status[e] # "none" /\ status[e] # "published"
    BY OldestIsSubset DEF Claimable
  <1> HIDE DEF S
  <1>3. UNCHANGED Promise!vars
    BY <1>1, <1>2 DEF Promise!vars
  <1>4. QED
    BY <1>3 DEF Delivers

\* A second acceptance has an excuse at that moment.
LEMMA PublishDelivers ==
    ASSUME IInv, HeldInv, NEW w \in Worker, NEW e \in Event,
           PublishConfirmed(w, e) \/ PublishUnconfirmed(w, e)
    PROVE  Delivers
  <1>1. /\ e \in batch[w] /\ pc[w] = "poll"
        /\ UNCHANGED <<status, overrun>>
        /\ delivered' = delivered \cup {e}
        /\ duplicated' = IF e \in delivered THEN duplicated \cup {e} ELSE duplicated
        /\ faulty' \in {faulty, faulty \cup {e}}
    BY DEF PublishConfirmed, PublishUnconfirmed, Published, Accept, rowVars
  <1>2. e \in Recorded /\ ~(e \in Settled /\ e \notin overrun)
    BY <1>1, HeldNotDone
  <1>3. CASE e \notin delivered
    <2>1. Promise!Deliver(e)
      BY <1>1, <1>2, <1>3 DEF Promise!Deliver, Recorded
    <2>2. QED
      BY <2>1 DEF Delivers, Promise!Next
  <1>4. CASE e \in delivered
    <2>1. e \in overrun \cup faulty
      <3>1. e \notin overrun => status[e] = "processing"
        BY <1>1 DEF IInv, ClaimInv
      <3>2. ASSUME NEW v \in Worker, pc[v] = "mark", cur[v] = e PROVE e \in overrun
        BY <1>1, <3>2 DEF IInv, TypeOK, ExclusiveUntilOverrun
      <3>3. QED
        BY <1>4, <3>1, <3>2 DEF IInv, AcceptedInv
    <2>2. Promise!Redeliver(e)
      BY <1>1, <1>2, <1>4, <2>1 DEF Promise!Redeliver, Promise!DoneWith, Settled
    <2>3. QED
      BY <2>2 DEF Delivers, Promise!Next
  <1>5. QED
    BY <1>3, <1>4

LEMMA FinishDelivers ==
    ASSUME IInv, HeldInv, NEW w \in Worker, MarkPublished(w) \/ MarkFailed(w)
    PROVE  Delivers
  <1> PICK e : e = cur[w]
    OBVIOUS
  <1>1. /\ UNCHANGED <<delivered, duplicated, overrun, faulty>>
        /\ pc[w] \in {"mark", "fail"}
    BY DEF MarkPublished, MarkFailed, Finish, brokerVars
  <1>2. e \in batch[w]
    BY <1>1 DEF IInv, TypeOK
  <1>3. e \in Event /\ e \in Recorded /\ ~(e \in Settled /\ e \notin overrun)
    BY <1>2, HeldNotDone
  <1>4. CASE MarkPublished(w)
    <2>1. e \in delivered /\ status' = [status EXCEPT ![e] = "published"]
      BY <1>4 DEF MarkPublished, IInv, MarkInv
    <2>2. Recorded' = Recorded /\ Settled' = Settled \cup {e}
      BY <1>3, <2>1 DEF Recorded, Settled, IInv, TypeOK
    <2>3. Promise!Settle(e)
      BY <1>1, <2>1, <2>2 DEF Promise!Settle, Recorded, Settled
    <2>4. QED
      BY <1>3, <2>3 DEF Delivers, Promise!Next
  <1>5. CASE MarkFailed(w)
    <2>1. status' = [status EXCEPT ![e] = "failed"]
      BY <1>5 DEF MarkFailed
    <2>2. Recorded' = Recorded /\ Settled' = Settled \ {e}
      BY <1>3, <2>1 DEF Recorded, Settled, IInv, TypeOK
    <2>3. CASE e \in Settled
      <3>1. Promise!Reopen(e)
        BY <1>1, <1>3, <2>2, <2>3 DEF Promise!Reopen, Recorded, Settled
      <3>2. QED
        BY <1>3, <3>1 DEF Delivers, Promise!Next
    <2>4. CASE e \notin Settled
      <3>1. UNCHANGED <<Recorded, Settled>>
        BY <2>2, <2>4
      <3>2. UNCHANGED Promise!vars
        BY <1>1, <3>1 DEF Promise!vars, Recorded, Settled
      <3>3. QED
        BY <3>2 DEF Delivers
    <2>5. QED
      BY <2>3, <2>4
  <1>6. QED
    BY <1>4, <1>5

\* Nothing is written: an acceptance that was to be recorded is forgotten.
LEMMA ForgetDelivers ==
    ASSUME IInv, HeldInv, NEW w \in Worker, MarkError(w) \/ Abandon(w) \/ Restart(w)
    PROVE  Delivers
  <1>1. /\ UNCHANGED <<status, delivered, duplicated, overrun>>
        /\ faulty' = IF pc[w] = "mark" THEN faulty \cup {cur[w]} ELSE faulty
    BY DEF MarkError, Finish, Abandon, Restart, Drop, rowVars, brokerVars
  <1>2. CASE pc[w] = "mark"
    <2>1. cur[w] \in batch[w] /\ cur[w] \in delivered
      BY <1>2 DEF IInv, TypeOK, MarkInv
    <2>2. cur[w] \in Event /\ ~(cur[w] \in Settled /\ cur[w] \notin overrun)
      BY <2>1, HeldNotDone
    <2>3. Promise!Forget(cur[w])
      BY <1>1, <1>2, <2>1, <2>2 DEF Promise!Forget, Promise!DoneWith, Settled
    <2>4. QED
      BY <2>2, <2>3 DEF Delivers, Promise!Next
  <1>3. CASE pc[w] # "mark"
    <2>1. UNCHANGED Promise!vars
      BY <1>1, <1>3 DEF Promise!vars
    <2>2. QED
      BY <2>1 DEF Delivers
  <1>4. QED
    BY <1>2, <1>3

\* Only what is not settled can become late.
LEMMA TickDelivers ==
    ASSUME IInv, HeldInv, Tick
    PROVE  Delivers
  <1> DEFINE S == overrun' \ overrun
  <1>1. UNCHANGED <<status, delivered, duplicated, faulty>> /\ overrun' = overrun \cup S
    BY DEF Tick, brokerVars
  <1>2. S \subseteq Recorded \ Settled
    <2> SUFFICES ASSUME NEW e \in S PROVE e \in Recorded \ Settled
      OBVIOUS
    <2>1. PICK w \in Worker : e \in batch[w]
      BY DEF Tick
    <2>2. QED
      BY <2>1, HeldNotDone
  <1> HIDE DEF S
  <1>3. Promise!Delay(S)
    BY <1>1 DEF Promise!Delay
  <1>4. QED
    BY <1>2, <1>3 DEF Delivers, Promise!Next, Recorded, Settled

\* The outbox implements Delivery: each step of a request, of a worker or of time
\* is one of its steps or leaves its state alone.
THEOREM Refinement == Spec => ImplementsDelivery
  <1>1. Init => Promise!Init
    BY DEF Init, Promise!Init
  <1>2. IInv /\ HeldInv /\ [Next]_vars => [Promise!Next]_(Promise!vars)
    <2> SUFFICES ASSUME IInv, HeldInv, [Next]_vars PROVE Delivers
      BY DEF Delivers
    <2>1. CASE UNCHANGED <<status, delivered, duplicated, overrun, faulty>>
      BY <2>1 DEF Delivers, Promise!vars
    <2>2. ASSUME NEW w \in Worker, Step(w) PROVE Delivers
      <3>1. ASSUME NEW e \in Event, PublishRefused(w, e) PROVE Delivers
        BY <2>1, <3>1 DEF PublishRefused, Published, rowVars, brokerVars
      <3>2. CASE ConnectionLost(w)
        BY <2>1, <3>2 DEF ConnectionLost, rowVars, brokerVars, historyVars
      <3>3. QED
        BY <2>2, <3>1, <3>2, ClaimDelivers, PublishDelivers, FinishDelivers,
           ForgetDelivers DEF Step
    <2>3. CASE UNCHANGED vars
      BY <2>1, <2>3 DEF vars, rowVars, brokerVars, historyVars
    <2>4. QED
      BY <2>2, <2>3, CreateDelivers, TickDelivers DEF Next
  <1>3. QED
    BY <1>1, <1>2, Invariance, HeldInvariance, PTL DEF Spec, ImplementsDelivery, Promise!Spec
=============================================================================
