------------------------------- MODULE Broker -------------------------------
(***************************************************************************)
(* broker.RabbitMQ: concurrent Publish calls over one AMQP channel in      *)
(* confirm mode, the goroutine that hands each confirmation to the call    *)
(* waiting for its sequence number, and Close.  The channel, its           *)
(* confirmation queue and the broker behind it are amqp091-go and RabbitMQ:*)
(* they are modelled from what this code relies on.                        *)
(***************************************************************************)
EXTENDS Naturals, Sequences

CONSTANTS Call, None, MaxSeq  \* bound: sequence numbers go up to MaxSeq

ASSUME NoneIsNoCall == None \notin Call
ASSUME MaxSeqIsNat == MaxSeq \in Nat

VARIABLES
    pc,         \* where each Publish call is
    seqNo,      \* the sequence number it read
    result,     \* its resultCh, of capacity one
    returned,   \* what it returned
    publishMu,  \* who holds publishMu
    pending,    \* r.pending
    loop,       \* confirmationLoop: "select", "deliver" or "stopped"
    target,     \* handleConfirmation's p
    closer,     \* Close: "open" until it is called, then its steps
    open,       \* the AMQP channel is open
    sent,       \* message number n on the channel is that of call sent[n]
    accepted,   \* numbers of the messages the broker has taken
    nacked,     \* and of those it has refused
    sequenced,  \* confirmations put on r.confirms, in order
    read        \* and read from it

callVars == <<pc, seqNo, result, returned, publishMu>>
loopVars == <<loop, target, read>>
linkVars == <<open, sent, accepted, nacked, sequenced>>
vars == <<callVars, pending, loopVars, closer, linkVars>>

Seq1 == 1 .. MaxSeq

\* NewRabbitMQ has returned.
Init ==
    /\ pc = [c \in Call |-> "idle"]
    /\ seqNo = [c \in Call |-> 0]
    /\ result = [c \in Call |-> "none"]
    /\ returned = [c \in Call |-> "none"]
    /\ publishMu = None
    /\ pending = [n \in Seq1 |-> None]
    /\ loop = "select" /\ target = None /\ read = 0
    /\ closer = "open"
    /\ open = TRUE
    /\ sent = << >> /\ accepted = {} /\ nacked = {} /\ sequenced = 0

----------------------------------------------------------------------------
(* Publish                                                                 *)

Go(c, next) == pc' = [pc EXCEPT ![c] = next]

Return(c, answer) ==
    /\ Go(c, "done")
    /\ returned' = [returned EXCEPT ![c] = answer]

\* closed is read under closeMu and used after it is released.
Check(c) ==
    /\ pc[c] = "idle"
    /\ IF closer = "open"
          THEN Go(c, "checked") /\ UNCHANGED returned
          ELSE Return(c, "err")
    /\ UNCHANGED <<seqNo, result, publishMu, pending, loopVars, closer, linkVars>>

Registered(c) ==
    /\ pc[c] = "checked" /\ Len(sent) < MaxSeq
    /\ seqNo' = [seqNo EXCEPT ![c] = Len(sent) + 1]
    /\ pending' = [pending EXCEPT ![Len(sent) + 1] = c]
    /\ Go(c, "registered")
    /\ UNCHANGED <<result, returned, loopVars, closer, linkVars>>

RegisterUnlocked(c) == Registered(c) /\ UNCHANGED publishMu

\* GetNextPublishSeqNo and the entry in pending, with publishMu held.
Register(c) ==
    /\ publishMu = None
    /\ Registered(c)
    /\ publishMu' = c

UnlockOnSuccess == publishMu' = IF open THEN None ELSE publishMu

Unlock == publishMu' = None

\* PublishWithContext numbers the message and writes it, or fails on a dead
\* channel and takes the number back; publishMu is released.  The write has no
\* deadline and heeds no context: a broker that stops reading holds it up.
Send(c) ==
    /\ pc[c] = "registered"
    /\ IF open
          THEN sent' = Append(sent, c) /\ Go(c, "wait")
          ELSE Go(c, "giveup") /\ UNCHANGED sent
    /\ Unlock
    /\ UNCHANGED <<seqNo, result, returned, pending, loopVars, closer, open, accepted,
                   nacked, sequenced>>

Receive(c) ==
    /\ pc[c] = "wait" /\ result[c] # "none"
    /\ Return(c, result[c])
    /\ result' = [result EXCEPT ![c] = "none"]
    /\ UNCHANGED <<seqNo, publishMu, pending, loopVars, closer, linkVars>>

\* The ten seconds are over, or the context is cancelled.
Timeout(c) ==
    /\ pc[c] = "wait"
    /\ Go(c, "giveup")
    /\ UNCHANGED <<seqNo, result, returned, publishMu, pending, loopVars, closer, linkVars>>

\* delete(r.pending, seqNo), and the error.
GiveUp(c) ==
    /\ pc[c] = "giveup"
    /\ pending' = [pending EXCEPT ![seqNo[c]] = None]
    /\ Return(c, "err")
    /\ UNCHANGED <<seqNo, result, publishMu, loopVars, closer, linkVars>>

----------------------------------------------------------------------------
(* confirmationLoop                                                        *)

KeepEntry(n) == UNCHANGED pending

Forget(n) == pending' = [pending EXCEPT ![n] = None]

\* A confirmation nobody waits for is dropped.
Dispatch(n) == IF pending[n] = None THEN "select" ELSE "deliver"

\* handleConfirmation up to the unlock: the entry is taken out of pending.
TakeConfirmation ==
    /\ loop = "select" /\ read < sequenced
    /\ read' = read + 1
    /\ Forget(read + 1)
    /\ target' = pending[read + 1]
    /\ loop' = Dispatch(read + 1)
    /\ UNCHANGED <<callVars, closer, linkVars>>

\* nil for an ack, an error for a nack.
Verdict(n) == IF n \in accepted THEN "ok" ELSE "err"

\* p.result <- ...: waits while the channel is full.
Deliver ==
    /\ loop = "deliver" /\ result[target] = "none"
    /\ result' = [result EXCEPT ![target] = Verdict(read)]
    /\ loop' = "select" /\ target' = None
    /\ UNCHANGED <<pc, seqNo, returned, publishMu, pending, read, closer, linkVars>>

Waiting == {pending[n] : n \in Seq1} \ {None}

StopOnly ==
    /\ loop' = "stopped"
    /\ UNCHANGED <<callVars, pending, target, read, closer, linkVars>>

\* failAllPending and return; each send waits while that channel is full.
FailAllPending ==
    /\ \A c \in Waiting : result[c] = "none"
    /\ result' = [c \in Call |-> IF c \in Waiting THEN "err" ELSE result[c]]
    /\ pending' = [n \in Seq1 |-> None]
    /\ loop' = "stopped"
    /\ UNCHANGED <<pc, seqNo, returned, publishMu, target, read, closer, linkVars>>

DoneAfterWait == closer = "closed"

\* r.done is closed.
Done == closer \in {"waiting", "closing", "closed"}

\* select may as well prefer a confirmation that is also there.
LoopDone == loop = "select" /\ Done /\ FailAllPending

\* r.confirms is closed with the channel, and drained.
LoopClosed == loop = "select" /\ ~open /\ read = sequenced /\ FailAllPending

----------------------------------------------------------------------------
(* Close                                                                   *)

CloseFlag ==
    /\ closer = "open"
    /\ closer' = "flagged"
    /\ UNCHANGED <<callVars, pending, loopVars, linkVars>>

CloseDone ==
    /\ closer = "flagged"
    /\ closer' = "waiting"
    /\ UNCHANGED <<callVars, pending, loopVars, linkVars>>

\* wg.Wait
CloseWait ==
    /\ closer = "waiting" /\ loop = "stopped"
    /\ closer' = "closing"
    /\ UNCHANGED <<callVars, pending, loopVars, linkVars>>

\* channel.Close and conn.Close return: the broker has answered, or the connection
\* is gone.
CloseChannel ==
    /\ closer = "closing"
    /\ closer' = "closed" /\ open' = FALSE
    /\ UNCHANGED <<callVars, pending, loopVars, sent, accepted, nacked, sequenced>>

----------------------------------------------------------------------------
(* The library and the broker                                              *)

\* The broker stores a message or refuses it, in any order, and even when the
\* answer can no longer be delivered.
Answer(n) ==
    /\ n \in 1 .. Len(sent) /\ n \notin accepted \cup nacked
    /\ \/ accepted' = accepted \cup {n} /\ UNCHANGED nacked
       \/ nacked' = nacked \cup {n} /\ UNCHANGED accepted
    /\ UNCHANGED <<callVars, pending, loopVars, closer, open, sent, sequenced>>

\* Answers reach r.confirms in the order of their numbers.
Resequence ==
    /\ open /\ sequenced + 1 \in accepted \cup nacked
    /\ sequenced' = sequenced + 1
    /\ UNCHANGED <<callVars, pending, loopVars, closer, open, sent, accepted, nacked>>

ConnectionLost ==
    /\ open
    /\ open' = FALSE
    /\ UNCHANGED <<callVars, pending, loopVars, closer, sent, accepted, nacked, sequenced>>

----------------------------------------------------------------------------
Publish(c) ==
    Check(c) \/ Register(c) \/ Send(c) \/ Receive(c) \/ Timeout(c) \/ GiveUp(c)

confirmationLoop == TakeConfirmation \/ Deliver \/ LoopDone \/ LoopClosed

Close == CloseFlag \/ CloseDone \/ CloseWait \/ CloseChannel

Next ==
    \/ \E c \in Call : Publish(c)
    \/ confirmationLoop
    \/ Close
    \/ \E n \in Seq1 : Answer(n)
    \/ Resequence
    \/ ConnectionLost

Spec == Init /\ [][Next]_vars

(* Goroutines run, timers fire and locks are handed over.  What waits for  *)
(* the broker on an open connection, a write or close-ok, may wait for     *)
(* ever; on a dead one it fails.  Close need not be called.                *)
LocalStep(c) == Check(c) \/ Register(c) \/ Receive(c) \/ Timeout(c) \/ GiveUp(c)

Fairness ==
    /\ \A c \in Call :
         /\ WF_vars(LocalStep(c)) /\ WF_vars(Timeout(c))
         /\ WF_vars(~open /\ Send(c))
    /\ WF_vars(confirmationLoop) /\ WF_vars(LoopDone)
    /\ WF_vars(CloseDone) /\ WF_vars(CloseWait) /\ WF_vars(~open /\ CloseChannel)

FairSpec == Spec /\ Fairness

----------------------------------------------------------------------------
\* Every variable has its type.
TypeOK ==
    /\ pc \in [Call -> {"idle", "checked", "registered", "wait", "giveup", "done"}]
    /\ seqNo \in [Call -> 0 .. MaxSeq]
    /\ result \in [Call -> {"none", "ok", "err"}]
    /\ returned \in [Call -> {"none", "ok", "err"}]
    /\ publishMu \in Call \cup {None}
    /\ pending \in [Seq1 -> Call \cup {None}]
    /\ loop \in {"select", "deliver", "stopped"}
    /\ target \in Call \cup {None} /\ (loop = "deliver" => target # None)
    /\ closer \in {"open", "flagged", "waiting", "closing", "closed"}
    /\ open \in BOOLEAN
    /\ sent \in Seq(Call) /\ Len(sent) <= MaxSeq
    /\ accepted \subseteq 1 .. Len(sent) /\ nacked \subseteq 1 .. Len(sent)
    /\ sequenced \in 0 .. Len(sent) /\ read \in 0 .. sequenced

\* A resultCh has room for one result and is never sent a second: an entry of
\* pending, and the entry handleConfirmation has just taken out, have had none.
\* So neither the loop nor failAllPending, which holds pendingMu, ever blocks.
OneResultEach ==
    /\ \A n \in Seq1 : pending[n] # None => result[pending[n]] = "none"
    /\ loop = "deliver" => result[target] = "none"

\* A call waiting in Publish's select has a result, or someone who will send it
\* one, unless Close is tearing the loop down: a lost connection answers every
\* waiting call at once instead of leaving it to its timeout.
NobodyStranded ==
    \A c \in Call :
        pc[c] = "wait" =>
            \/ result[c] # "none"
            \/ loop = "deliver" /\ target = c
            \/ loop # "stopped" /\ pending[seqNo[c]] = c
            \/ Done

\* A call that has returned leaves nothing behind in pending, whichever of the
\* confirmation, the timeout and the shutdown came first.
NothingLeft ==
    \A n \in Seq1 : pending[n] # None => pc[pending[n]] \in {"registered", "wait", "giveup"}

\* Every Publish returns, whatever becomes of confirmations and whenever Close is
\* called, unless the broker keeps the connection open and never lets the write of
\* one call return: publishMu is held over it, and all later calls wait.
EveryPublishReturns ==
    \A c \in Call :
        pc[c] = "checked" ~> \/ pc[c] = "done"
                             \/ \E d \in Call : [](open /\ pc[d] = "registered")

\* Close returns once it is called, unless the broker keeps the connection open and
\* never answers channel.Close: the loop it waits for before that stops.
CloseReturns ==
    closer = "flagged" ~> closer = "closed" \/ [](open /\ closer = "closing")

\* The promise the outbox worker relies on: a call's state and the calls whose
\* message the broker has.
StateOf ==
    [c \in Call |-> CASE pc[c] = "idle" -> "idle"
                     [] pc[c] = "done" -> returned[c]
                     [] OTHER -> "called"]

Taken == {sent[n] : n \in accepted}

P == INSTANCE Publishing WITH state <- StateOf, taken <- Taken

\* Publish implements Publishing: it returns nil only to the call whose own message
\* the broker has acknowledged.  No confirmation reaches another call's resultCh,
\* although the sequence number is read in one library call and consumed in the
\* next, and a call returns once.
ImplementsPublishing == P!Spec
=============================================================================
