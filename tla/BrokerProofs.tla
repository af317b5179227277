---------------------------- MODULE BrokerProofs ----------------------------
(***************************************************************************)
(* Proofs about Broker for any number of Publish calls.  The argument:     *)
(* publishMu makes the number a call has read the number its message gets, *)
(* so an entry of pending, a message and a confirmation that carry one     *)
(* number belong to one call.  A number is given back only on a dead       *)
(* channel, where two calls may share it, but then no message follows.     *)
(***************************************************************************)
EXTENDS Broker, TLAPS

\* publishMu is held from the reading of a number to the write of its message.
Mutex == \A c \in Call : pc[c] = "registered" <=> publishMu = c

\* The number of a call is that of its message, or the next one, or one that
\* was given back when the channel was dead.
Numbered ==
    \A c \in Call :
        /\ pc[c] = "registered" => seqNo[c] = Len(sent) + 1 /\ Len(sent) < MaxSeq
        /\ pc[c] = "wait" => seqNo[c] \in 1 .. Len(sent) /\ sent[seqNo[c]] = c
        /\ pc[c] = "giveup" =>
              /\ seqNo[c] \in Seq1
              /\ seqNo[c] <= Len(sent) => sent[seqNo[c]] = c
              /\ seqNo[c] > Len(sent) => ~open

\* A call writes at most one message.
SentOnce ==
    \A n \in 1 .. Len(sent) :
        pc[sent[n]] \in {"wait", "giveup", "done"} /\ seqNo[sent[n]] = n

\* An entry of pending is under the number of its call, which has no result yet
\* and whose confirmation has not been read.
Entries ==
    \A n \in Seq1 : pending[n] # None =>
        /\ pc[pending[n]] \in {"registered", "wait", "giveup"}
        /\ seqNo[pending[n]] = n
        /\ result[pending[n]] = "none"
        /\ n > read

\* The entry in the hands of handleConfirmation is that of the confirmation read.
InHand ==
    loop = "deliver" =>
        read \in 1 .. Len(sent) /\ sent[read] = target /\ result[target] = "none"

\* nil is sent, and returned, only to a call whose message was accepted.
Truthful ==
    \A c \in Call :
        /\ "ok" \in {result[c], returned[c]} => seqNo[c] \in accepted /\ sent[seqNo[c]] = c
        /\ returned[c] # "none" <=> pc[c] = "done"
        /\ pc[c] \in {"idle", "checked"} => result[c] = "none"

\* A call that is about to wait is in pending as long as an answer can come.
Attended ==
    /\ loop = "stopped" => Done \/ ~open
    /\ \A c \in Call :
         pc[c] = "registered" => loop = "stopped" \/ ~open \/ pending[seqNo[c]] = c

IInv ==
    /\ TypeOK /\ Mutex /\ Numbered /\ SentOnce
    /\ Entries /\ InHand /\ Truthful /\ Attended /\ NobodyStranded

USE NoneIsNoCall, MaxSeqIsNat DEF Seq1

----------------------------------------------------------------------------

LEMMA InitInv == Init => IInv
  BY DEF Init, IInv, TypeOK, Mutex, Numbered, SentOnce, Entries, InHand, Truthful, Attended,
         NobodyStranded

\* A call that has not written its message is not among those that have.
LEMMA NotSent ==
    ASSUME TypeOK, SentOnce, NEW c \in Call, pc[c] \in {"idle", "checked", "registered"}
    PROVE  \A n \in 1 .. Len(sent) : sent[n] \in Call /\ sent[n] # c
  <1>1. sent \in Seq(Call)
    BY DEF TypeOK
  <1>2. \A n \in 1 .. Len(sent) : sent[n] \in Call
    BY <1>1
  <1>3. \A n \in 1 .. Len(sent) : pc[sent[n]] \notin {"idle", "checked", "registered"}
    BY DEF SentOnce
  <1> QED
    BY <1>2, <1>3

\* What PublishWithContext adds to the messages on the channel.
LEMMA AppendFacts ==
    ASSUME NEW s \in Seq(Call), NEW c \in Call
    PROVE  /\ Append(s, c) \in Seq(Call) /\ Len(Append(s, c)) = Len(s) + 1
           /\ \A n \in 1 .. Len(s) : Append(s, c)[n] = s[n]
  OBVIOUS

\* failAllPending finds only calls that have registered.
LEMMA WaitingFacts ==
    ASSUME Entries
    PROVE  \A c \in Waiting : pc[c] \in {"registered", "wait", "giveup"}
  BY DEF Waiting, Entries

LEMMA CheckStep ==
    ASSUME IInv, NEW c \in Call, Check(c)
    PROVE  IInv'
  <1> USE DEF IInv, TypeOK, Check, Go, Return, callVars, loopVars, linkVars
  <1>1. TypeOK'
    <2>1. pc' \in [Call -> {"idle", "checked", "registered", "wait", "giveup", "done"}]
      OBVIOUS
    <2>2. returned' \in [Call -> {"none", "ok", "err"}]
      OBVIOUS
    <2> QED
      BY <2>1, <2>2
  <1>2. Mutex'
    BY DEF Mutex
  <1>3. Numbered'
    BY DEF Numbered, Mutex
  <1>4. SentOnce'
    <2>1. \A n \in 1 .. Len(sent) : sent[n] \in Call /\ sent[n] # c
      BY NotSent
    <2>2. \A d \in Call : d # c => pc'[d] = pc[d]
      OBVIOUS
    <2> QED
      BY <2>1, <2>2 DEF SentOnce
  <1>5. Entries'
    BY DEF Entries, Numbered, SentOnce, Mutex, InHand
  <1>6. InHand'
    BY DEF InHand, Entries, Numbered, SentOnce
  <1>7. Truthful'
    BY DEF Truthful, InHand, SentOnce, Numbered, Entries, Mutex
  <1>8. Attended'
    BY DEF Attended, Numbered, Done, Entries, Mutex
  <1>9. NobodyStranded'
    BY DEF NobodyStranded, Attended, Numbered, Entries, Mutex, SentOnce, InHand, Done
  <1> QED
    BY <1>1, <1>2, <1>3, <1>4, <1>5, <1>6, <1>7, <1>8, <1>9

LEMMA RegisterStep ==
    ASSUME IInv, NEW c \in Call, Register(c)
    PROVE  IInv'
  <1> USE DEF IInv, TypeOK, Register, Registered, Go, callVars, loopVars, linkVars
  <1>1. TypeOK'
    BY DEF Entries, InHand, Numbered
  <1>2. Mutex'
    BY DEF Mutex
  <1>3. Numbered'
    BY DEF Numbered, Mutex
  <1>4. SentOnce'
    BY DEF SentOnce, Numbered, Mutex
  <1>5. Entries'
    <2>1. \A n \in Seq1 : pending[n] # c
      BY DEF Entries
    <2>2. result[c] = "none" /\ Len(sent) + 1 > read /\ Len(sent) + 1 \in Seq1
      BY DEF Truthful
    <2>3. /\ pending'[Len(sent) + 1] = c /\ pc'[c] = "registered" /\ seqNo'[c] = Len(sent) + 1
          /\ \A n \in Seq1 : n # Len(sent) + 1 => pending'[n] = pending[n]
          /\ \A d \in Call : d # c => pc'[d] = pc[d] /\ seqNo'[d] = seqNo[d]
      BY <2>2
    <2> QED
      BY <2>1, <2>2, <2>3 DEF Entries
  <1>6. InHand'
    BY DEF InHand, Entries, Numbered, SentOnce
  <1>7. Truthful'
    BY DEF Truthful, InHand, SentOnce, Numbered, Entries, Mutex
  <1>8. Attended'
    BY DEF Attended, Numbered, Done, Entries, Mutex
  <1>9. NobodyStranded'
    BY DEF NobodyStranded, Attended, Numbered, Entries, Mutex, SentOnce, InHand, Done
  <1> QED
    BY <1>1, <1>2, <1>3, <1>4, <1>5, <1>6, <1>7, <1>8, <1>9

LEMMA SendStep ==
    ASSUME IInv, NEW c \in Call, Send(c)
    PROVE  IInv'
  <1> USE DEF IInv, TypeOK, Send, Go, Unlock, callVars, loopVars, linkVars
  <1>0. /\ sent' \in Seq(Call) /\ Len(sent') \in {Len(sent), Len(sent) + 1}
        /\ \A n \in 1 .. Len(sent) : sent'[n] = sent[n]
    <2>1. CASE open
      <3>1. sent' = Append(sent, c) /\ sent \in Seq(Call)
        BY <2>1
      <3> QED
        BY <3>1, AppendFacts
    <2>2. CASE ~open
      BY <2>2
    <2> QED
      BY <2>1, <2>2
  <1>1. TypeOK'
    <2>1. sent' \in Seq(Call) /\ Len(sent') <= MaxSeq /\ Len(sent) <= Len(sent')
      BY <1>0 DEF Numbered
    <2>2. pc' \in [Call -> {"idle", "checked", "registered", "wait", "giveup", "done"}]
      OBVIOUS
    <2> QED
      BY <2>1, <2>2
  <1>2. Mutex'
    BY DEF Mutex
  <1>a. /\ pc[c] = "registered" /\ pc'[c] = (IF open THEN "wait" ELSE "giveup")
        /\ \A d \in Call : d # c => pc'[d] = pc[d]
        /\ UNCHANGED <<seqNo, result, pending, read, open>>
    OBVIOUS
  <1>b. open => Len(sent') = Len(sent) + 1 /\ sent'[Len(sent) + 1] = c
    OBVIOUS
  <1>c. ~open => sent' = sent
    OBVIOUS
  <1>d. /\ Len(sent) \in Nat /\ seqNo[c] = Len(sent) + 1 /\ Len(sent) < MaxSeq
        /\ \A n \in 1 .. Len(sent) : sent[n] \in Call /\ sent[n] # c
        /\ \A d \in Call : d # c => pc[d] # "registered" /\ seqNo[d] \in Nat
    <2>1. \A n \in 1 .. Len(sent) : sent[n] \in Call /\ sent[n] # c
      BY <1>a, NotSent
    <2>2. Len(sent) \in Nat /\ seqNo[c] = Len(sent) + 1 /\ Len(sent) < MaxSeq
      BY <1>a DEF Numbered
    <2>3. \A d \in Call : d # c => pc[d] # "registered" /\ seqNo[d] \in Nat
      BY <1>a DEF Mutex
    <2> QED
      BY <2>1, <2>2, <2>3
  <1>3. Numbered'
    <2> SUFFICES ASSUME NEW d \in Call
                 PROVE  /\ pc'[d] = "registered" => seqNo'[d] = Len(sent') + 1 /\ Len(sent') < MaxSeq
                        /\ pc'[d] = "wait" => seqNo'[d] \in 1 .. Len(sent') /\ sent'[seqNo'[d]] = d
                        /\ pc'[d] = "giveup" =>
                              /\ seqNo'[d] \in Seq1
                              /\ seqNo'[d] <= Len(sent') => sent'[seqNo'[d]] = d
                              /\ seqNo'[d] > Len(sent') => ~open'
      BY DEF Numbered
    <2> HIDE DEF IInv, TypeOK, Send
    <2>1. CASE d = c
      BY <1>a, <1>b, <1>c, <1>d, <2>1
    <2>2. CASE d # c
      <3>1. Numbered
        BY DEF IInv
      <3> QED
        BY <1>0, <1>a, <1>b, <1>c, <1>d, <2>2, <3>1 DEF Numbered
    <2> QED
      BY <2>1, <2>2
  <1>4. SentOnce'
    <2> HIDE DEF IInv, TypeOK, Send
    <2>1. SentOnce
      BY DEF IInv
    <2>2. \A n \in 1 .. Len(sent) :
            pc'[sent'[n]] \in {"wait", "giveup", "done"} /\ seqNo'[sent'[n]] = n
      BY <1>0, <1>a, <1>d, <2>1 DEF SentOnce
    <2>3. CASE open
      BY <1>a, <1>b, <1>d, <2>2, <2>3 DEF SentOnce
    <2>4. CASE ~open
      BY <1>c, <2>2, <2>4 DEF SentOnce
    <2> QED
      BY <2>3, <2>4
  <1>5. Entries'
    <2>1. \A n \in Seq1 : pending[n] # None => pending[n] \in Call
      OBVIOUS
    <2> HIDE DEF IInv, TypeOK, Send
    <2>2. Entries
      BY DEF IInv
    <2> QED
      BY <1>a, <2>1, <2>2 DEF Entries
  <1>6. InHand'
    <2> HIDE DEF IInv, TypeOK, Send
    <2>1. UNCHANGED <<loop, target, read, result>>
      BY DEF Send
    <2>2. InHand
      BY DEF IInv
    <2>3. Len(sent) \in Nat /\ Len(sent') \in Nat /\ Len(sent) <= Len(sent')
      <3>1. sent \in Seq(Call)
        BY DEF IInv, TypeOK
      <3> QED
        BY <1>0, <3>1
    <2> QED
      BY <1>0, <2>1, <2>2, <2>3 DEF InHand
  <1>7. Truthful'
    <2>1. \A n \in 1 .. Len(sent) : sent'[n] = sent[n]
      BY <1>0
    <2>2. \A d \in Call : (pc'[d] = "done" <=> pc[d] = "done") /\ (pc'[d] \in {"idle", "checked"} => pc[d] \in {"idle", "checked"})
      OBVIOUS
    <2> QED
      BY <2>1, <2>2 DEF Truthful
  <1>8. Attended'
    BY DEF Attended, Numbered, Done, Entries, Mutex
  <1>9. NobodyStranded'
    BY DEF NobodyStranded, Attended, Numbered, Entries, Mutex, SentOnce, InHand, Done
  <1> QED
    BY <1>1, <1>2, <1>3, <1>4, <1>5, <1>6, <1>7, <1>8, <1>9

LEMMA ReceiveStep ==
    ASSUME IInv, NEW c \in Call, Receive(c)
    PROVE  IInv'
  <1> USE DEF IInv, TypeOK, Receive, Go, Return, callVars, loopVars, linkVars
  <1>1. TypeOK'
    BY DEF Entries, InHand, Numbered
  <1>2. Mutex'
    BY DEF Mutex
  <1>3. Numbered'
    BY DEF Numbered, Mutex
  <1>4. SentOnce'
    BY DEF SentOnce, Numbered, Mutex
  <1>5. Entries'
    BY DEF Entries, Numbered, SentOnce, Mutex, InHand
  <1>6. InHand'
    BY DEF InHand, Entries, Numbered, SentOnce
  <1>7. Truthful'
    BY DEF Truthful, InHand, SentOnce, Numbered, Entries, Mutex
  <1>8. Attended'
    BY DEF Attended, Numbered, Done, Entries, Mutex
  <1>9. NobodyStranded'
    BY DEF NobodyStranded, Attended, Numbered, Entries, Mutex, SentOnce, InHand, Done
  <1> QED
    BY <1>1, <1>2, <1>3, <1>4, <1>5, <1>6, <1>7, <1>8, <1>9

LEMMA TimeoutStep ==
    ASSUME IInv, NEW c \in Call, Timeout(c)
    PROVE  IInv'
  <1> USE DEF IInv, TypeOK, Timeout, Go, callVars, loopVars, linkVars
  <1>1. TypeOK'
    BY DEF Entries, InHand, Numbered
  <1>2. Mutex'
    BY DEF Mutex
  <1>3. Numbered'
    BY DEF Numbered, Mutex
  <1>4. SentOnce'
    BY DEF SentOnce, Numbered, Mutex
  <1>5. Entries'
    BY DEF Entries, Numbered, SentOnce, Mutex, InHand
  <1>6. InHand'
    BY DEF InHand, Entries, Numbered, SentOnce
  <1>7. Truthful'
    BY DEF Truthful, InHand, SentOnce, Numbered, Entries, Mutex
  <1>8. Attended'
    BY DEF Attended, Numbered, Done, Entries, Mutex
  <1>9. NobodyStranded'
    BY DEF NobodyStranded, Attended, Numbered, Entries, Mutex, SentOnce, InHand, Done
  <1> QED
    BY <1>1, <1>2, <1>3, <1>4, <1>5, <1>6, <1>7, <1>8, <1>9

LEMMA GiveUpStep ==
    ASSUME IInv, NEW c \in Call, GiveUp(c)
    PROVE  IInv'
  <1> USE DEF IInv, TypeOK, GiveUp, Go, Return, callVars, loopVars, linkVars
  <1>1. TypeOK'
    BY DEF Entries, InHand, Numbered
  <1>2. Mutex'
    BY DEF Mutex
  <1>3. Numbered'
    BY DEF Numbered, Mutex
  <1>4. SentOnce'
    BY DEF SentOnce, Numbered, Mutex
  <1>5. Entries'
    BY DEF Entries, Numbered, SentOnce, Mutex, InHand
  <1>6. InHand'
    BY DEF InHand, Entries, Numbered, SentOnce
  <1>7. Truthful'
    BY DEF Truthful, InHand, SentOnce, Numbered, Entries, Mutex
  <1>8. Attended'
    BY DEF Attended, Numbered, Done, Entries, Mutex
  <1>9. NobodyStranded'
    BY DEF NobodyStranded, Attended, Numbered, Entries, Mutex, SentOnce, InHand, Done
  <1> QED
    BY <1>1, <1>2, <1>3, <1>4, <1>5, <1>6, <1>7, <1>8, <1>9

LEMMA TakeStep ==
    ASSUME IInv, TakeConfirmation
    PROVE  IInv'
  <1> USE DEF IInv, TypeOK, TakeConfirmation, Forget, Dispatch, callVars, loopVars, linkVars
  <1>1. TypeOK'
    <2>1. read' \in 0 .. sequenced /\ read + 1 \in Seq1
      OBVIOUS
    <2>2. pending' \in [Seq1 -> Call \cup {None}] /\ target' \in Call \cup {None}
      BY <2>1
    <2>3. loop' \in {"select", "deliver", "stopped"} /\ (loop' = "deliver" => target' # None)
      OBVIOUS
    <2> QED
      BY <2>1, <2>2, <2>3
  <1>2. Mutex'
    BY DEF Mutex
  <1>3. Numbered'
    BY DEF Numbered, Mutex
  <1>4. SentOnce'
    BY DEF SentOnce, Numbered, Mutex
  <1>5. Entries'
    BY DEF Entries, Numbered, SentOnce, Mutex, InHand
  <1>6. InHand'
    BY DEF InHand, Entries, Numbered, SentOnce
  <1>7. Truthful'
    BY DEF Truthful, InHand, SentOnce, Numbered, Entries, Mutex
  <1>8. Attended'
    BY DEF Attended, Numbered, Done, Entries, Mutex
  <1>9. NobodyStranded'
    BY DEF NobodyStranded, Attended, Numbered, Entries, Mutex, SentOnce, InHand, Done
  <1> QED
    BY <1>1, <1>2, <1>3, <1>4, <1>5, <1>6, <1>7, <1>8, <1>9

LEMMA DeliverStep ==
    ASSUME IInv, Deliver
    PROVE  IInv'
  <1> USE DEF IInv, TypeOK, Deliver, Verdict, callVars, loopVars, linkVars
  <1>1. TypeOK'
    BY DEF Entries, InHand, Numbered
  <1>2. Mutex'
    BY DEF Mutex
  <1>3. Numbered'
    BY DEF Numbered, Mutex
  <1>4. SentOnce'
    BY DEF SentOnce, Numbered, Mutex
  <1>5. Entries'
    BY DEF Entries, Numbered, SentOnce, Mutex, InHand
  <1>6. InHand'
    BY DEF InHand, Entries, Numbered, SentOnce
  <1>7. Truthful'
    BY DEF Truthful, InHand, SentOnce, Numbered, Entries, Mutex
  <1>8. Attended'
    BY DEF Attended, Numbered, Done, Entries, Mutex
  <1>9. NobodyStranded'
    BY DEF NobodyStranded, Attended, Numbered, Entries, Mutex, SentOnce, InHand, Done
  <1> QED
    BY <1>1, <1>2, <1>3, <1>4, <1>5, <1>6, <1>7, <1>8, <1>9

LEMMA StopStep ==
    ASSUME IInv, loop = "select" /\ (Done \/ ~open) /\ FailAllPending
    PROVE  IInv'
  <1> USE DEF IInv, TypeOK, FailAllPending, Waiting, callVars, loopVars, linkVars
  <1>1. TypeOK'
    BY DEF Entries, InHand, Numbered
  <1>2. Mutex'
    BY DEF Mutex
  <1>3. Numbered'
    BY DEF Numbered, Mutex
  <1>4. SentOnce'
    BY DEF SentOnce, Numbered, Mutex
  <1>5. Entries'
    BY DEF Entries, Numbered, SentOnce, Mutex, InHand
  <1>6. InHand'
    BY DEF InHand, Entries, Numbered, SentOnce
  <1>7. Truthful'
    <2>1. \A d \in Call : result'[d] = "ok" => result[d] = "ok"
      OBVIOUS
    <2>2. \A d \in Call : pc[d] \in {"idle", "checked"} => d \notin Waiting
      BY WaitingFacts
    <2>3. \A d \in Call : pc[d] \in {"idle", "checked"} => result'[d] = result[d]
      BY <2>2
    <2> QED
      BY <2>1, <2>2, <2>3 DEF Truthful
  <1>8. Attended'
    BY DEF Attended, Numbered, Done, Entries, Mutex
  <1>9. NobodyStranded'
    BY DEF NobodyStranded, Attended, Numbered, Entries, Mutex, SentOnce, InHand, Done
  <1> QED
    BY <1>1, <1>2, <1>3, <1>4, <1>5, <1>6, <1>7, <1>8, <1>9

LEMMA CloseStepsStep ==
    ASSUME IInv, Close
    PROVE  IInv'
  <1> USE DEF IInv, TypeOK, Close, CloseFlag, CloseDone, CloseWait, CloseChannel, callVars, loopVars, linkVars
  <1>1. TypeOK'
    <2>1. closer' \in {"open", "flagged", "waiting", "closing", "closed"} /\ open' \in BOOLEAN
      OBVIOUS
    <2> QED
      BY <2>1
  <1>2. Mutex'
    BY DEF Mutex
  <1>3. Numbered'
    BY DEF Numbered, Mutex
  <1>4. SentOnce'
    BY DEF SentOnce, Numbered, Mutex
  <1>5. Entries'
    BY DEF Entries, Numbered, SentOnce, Mutex, InHand
  <1>6. InHand'
    BY DEF InHand, Entries, Numbered, SentOnce
  <1>7. Truthful'
    BY DEF Truthful, InHand, SentOnce, Numbered, Entries, Mutex
  <1>8. Attended'
    BY DEF Attended, Numbered, Done, Entries, Mutex
  <1>9. NobodyStranded'
    BY DEF NobodyStranded, Attended, Numbered, Entries, Mutex, SentOnce, InHand, Done
  <1> QED
    BY <1>1, <1>2, <1>3, <1>4, <1>5, <1>6, <1>7, <1>8, <1>9

LEMMA AnswerStep ==
    ASSUME IInv, NEW n \in Seq1, Answer(n)
    PROVE  IInv'
  <1> USE DEF IInv, TypeOK, Answer, callVars, loopVars, linkVars
  <1>1. TypeOK'
    <2>1. accepted' \subseteq 1 .. Len(sent) /\ nacked' \subseteq 1 .. Len(sent)
      OBVIOUS
    <2> QED
      BY <2>1
  <1>2. Mutex'
    BY DEF Mutex
  <1>3. Numbered'
    BY DEF Numbered, Mutex
  <1>4. SentOnce'
    BY DEF SentOnce, Numbered, Mutex
  <1>5. Entries'
    BY DEF Entries, Numbered, SentOnce, Mutex, InHand
  <1>6. InHand'
    BY DEF InHand, Entries, Numbered, SentOnce
  <1>7. Truthful'
    BY DEF Truthful, InHand, SentOnce, Numbered, Entries, Mutex
  <1>8. Attended'
    BY DEF Attended, Numbered, Done, Entries, Mutex
  <1>9. NobodyStranded'
    BY DEF NobodyStranded, Attended, Numbered, Entries, Mutex, SentOnce, InHand, Done
  <1> QED
    BY <1>1, <1>2, <1>3, <1>4, <1>5, <1>6, <1>7, <1>8, <1>9

LEMMA ResequenceStep ==
    ASSUME IInv, Resequence
    PROVE  IInv'
  <1> USE DEF IInv, TypeOK, Resequence, callVars, loopVars, linkVars
  <1>1. TypeOK'
    BY DEF Entries, InHand, Numbered
  <1>2. Mutex'
    BY DEF Mutex
  <1>3. Numbered'
    BY DEF Numbered, Mutex
  <1>4. SentOnce'
    BY DEF SentOnce, Numbered, Mutex
  <1>5. Entries'
    BY DEF Entries, Numbered, SentOnce, Mutex, InHand
  <1>6. InHand'
    BY DEF InHand, Entries, Numbered, SentOnce
  <1>7. Truthful'
    BY DEF Truthful, InHand, SentOnce, Numbered, Entries, Mutex
  <1>8. Attended'
    BY DEF Attended, Numbered, Done, Entries, Mutex
  <1>9. NobodyStranded'
    BY DEF NobodyStranded, Attended, Numbered, Entries, Mutex, SentOnce, InHand, Done
  <1> QED
    BY <1>1, <1>2, <1>3, <1>4, <1>5, <1>6, <1>7, <1>8, <1>9

LEMMA LostStep ==
    ASSUME IInv, ConnectionLost
    PROVE  IInv'
  <1> USE DEF IInv, TypeOK, ConnectionLost, callVars, loopVars, linkVars
  <1>1. TypeOK'
    BY DEF Entries, InHand, Numbered
  <1>2. Mutex'
    BY DEF Mutex
  <1>3. Numbered'
    BY DEF Numbered, Mutex
  <1>4. SentOnce'
    BY DEF SentOnce, Numbered, Mutex
  <1>5. Entries'
    BY DEF Entries, Numbered, SentOnce, Mutex, InHand
  <1>6. InHand'
    BY DEF InHand, Entries, Numbered, SentOnce
  <1>7. Truthful'
    BY DEF Truthful, InHand, SentOnce, Numbered, Entries, Mutex
  <1>8. Attended'
    BY DEF Attended, Numbered, Done, Entries, Mutex
  <1>9. NobodyStranded'
    BY DEF NobodyStranded, Attended, Numbered, Entries, Mutex, SentOnce, InHand, Done
  <1> QED
    BY <1>1, <1>2, <1>3, <1>4, <1>5, <1>6, <1>7, <1>8, <1>9

----------------------------------------------------------------------------

LEMMA NextStep == ASSUME IInv, [Next]_vars PROVE IInv'
  <1>1. CASE UNCHANGED vars
    BY <1>1 DEF vars, callVars, loopVars, linkVars, IInv, TypeOK, Mutex, Numbered, SentOnce, Entries,
                InHand, Truthful, Attended, NobodyStranded, Done
  <1>2. ASSUME NEW c \in Call, Publish(c) PROVE IInv'
    BY <1>2, CheckStep, RegisterStep, SendStep, ReceiveStep, TimeoutStep, GiveUpStep DEF Publish
  <1>3. CASE confirmationLoop
    BY <1>3, TakeStep, DeliverStep, StopStep DEF confirmationLoop, LoopDone, LoopClosed
  <1>4. ASSUME NEW n \in Seq1, Answer(n) PROVE IInv'
    BY <1>4, AnswerStep
  <1> QED
    BY <1>1, <1>2, <1>3, <1>4, CloseStepsStep, ResequenceStep, LostStep DEF Next

\* Publish, confirmationLoop, Close and whatever the broker does keep numbers,
\* entries and results of the calls in step.
THEOREM Inductive == Spec => []IInv
  BY InitInv, NextStep, PTL DEF Spec

\* Publish, confirmationLoop and Close keep every variable in its type.
THEOREM TypeCorrect == Spec => []TypeOK
  BY Inductive, PTL DEF IInv

\* handleConfirmation and failAllPending never send to a resultCh that is full.
THEOREM OneResult == Spec => []OneResultEach
  <1>1. IInv => OneResultEach
    BY DEF IInv, Entries, InHand, OneResultEach
  <1> QED
    BY <1>1, Inductive, PTL

\* A call waiting in Publish is answered or in pending, unless Close is under way.
THEOREM Attending == Spec => []NobodyStranded
  BY Inductive, PTL DEF IInv

\* A call that has returned has no entry in pending.
THEOREM Clean == Spec => []NothingLeft
  <1>1. IInv => NothingLeft
    BY DEF IInv, Entries, NothingLeft
  <1> QED
    BY <1>1, Inductive, PTL

----------------------------------------------------------------------------
(* The refinement: only Check, Receive and GiveUp change the state of a    *)
(* call, and only Answer what the broker has.                              *)

\* A step that neither begins nor ends a call and takes no message.
LEMMA Stutter ==
    ASSUME pc' = pc, returned' = returned, Taken' = Taken
    PROVE  UNCHANGED P!vars
  BY DEF P!vars, StateOf

\* A step of call c changes the state of c only.
LEMMA OwnState ==
    ASSUME TypeOK, NEW c \in Call, NEW p, NEW a,
           pc' = [pc EXCEPT ![c] = p], returned' = [returned EXCEPT ![c] = a]
    PROVE  StateOf' = [StateOf EXCEPT ![c] = CASE p = "idle" -> "idle"
                                               [] p = "done" -> a
                                               [] OTHER -> "called"]
  BY DEF StateOf, TypeOK

LEMMA CheckRefines ==
    ASSUME IInv, NEW c \in Call, Check(c)
    PROVE  P!Next
  <1>1. StateOf[c] = "idle" /\ Taken' = Taken
    BY DEF Check, StateOf, Taken, linkVars
  <1>2. CASE closer = "open"
    <2>1. pc' = [pc EXCEPT ![c] = "checked"] /\ returned' = returned
      BY <1>2 DEF Check, Go
    <2>2. StateOf' = [StateOf EXCEPT ![c] = "called"]
      BY <2>1 DEF StateOf, IInv, TypeOK
    <2> QED
      BY <1>1, <2>2 DEF P!Next, P!Begin
  <1>3. CASE closer # "open"
    <2>1. pc' = [pc EXCEPT ![c] = "done"] /\ returned' = [returned EXCEPT ![c] = "err"]
      BY <1>3 DEF Check, Go, Return
    <2>2. StateOf' = [StateOf EXCEPT ![c] = "err"]
      BY <2>1, OwnState DEF IInv
    <2> QED
      BY <1>1, <2>2 DEF P!Next, P!Refuse
  <1> QED
    BY <1>2, <1>3

\* Registering, sending and the timeout happen within a call.
LEMMA InnerRefines ==
    ASSUME IInv, NEW c \in Call, Register(c) \/ Send(c) \/ Timeout(c)
    PROVE  UNCHANGED P!vars
  <1>1. /\ pc[c] \in {"checked", "registered", "wait"}
        /\ \E p \in {"registered", "wait", "giveup"} : pc' = [pc EXCEPT ![c] = p]
        /\ returned' = returned /\ accepted' = accepted
    BY DEF Register, Registered, Send, Timeout, Go, linkVars, loopVars
  <1>2. StateOf' = StateOf
    BY <1>1 DEF StateOf, IInv, TypeOK
  <1>3. \A n \in accepted : sent'[n] = sent[n]
    <2>1. CASE sent' = sent
      BY <2>1
    <2>2. CASE sent' = Append(sent, c)
      BY <2>2, AppendFacts DEF IInv, TypeOK
    <2> QED
      BY <2>1, <2>2 DEF Register, Registered, Send, Timeout, linkVars
  <1>4. Taken' = Taken
    BY <1>1, <1>3 DEF Taken
  <1> QED
    BY <1>2, <1>4 DEF P!vars

LEMMA ReturnRefines ==
    ASSUME IInv, NEW c \in Call, Receive(c) \/ GiveUp(c)
    PROVE  P!Next
  <1>1. StateOf[c] = "called" /\ Taken' = Taken
    BY DEF Receive, GiveUp, StateOf, Taken, linkVars
  <1>2. PICK a \in {"ok", "err"} :
          /\ pc' = [pc EXCEPT ![c] = "done"] /\ returned' = [returned EXCEPT ![c] = a]
          /\ a = "ok" => result[c] = "ok"
    BY DEF Receive, GiveUp, Go, Return, IInv, TypeOK
  <1>3. StateOf' = [StateOf EXCEPT ![c] = a]
    BY <1>2, OwnState DEF IInv
  <1>4. a = "ok" => c \in Taken
    BY <1>2 DEF IInv, Truthful, Taken
  <1> QED
    BY <1>1, <1>2, <1>3, <1>4 DEF P!Next, P!Return

\* The broker takes a message of a call that has not returned nil.
LEMMA AnswerRefines ==
    ASSUME IInv, NEW n \in Seq1, Answer(n)
    PROVE  P!Next \/ UNCHANGED P!vars
  <1> DEFINE c == sent[n]
  <1>1. /\ n \in 1 .. Len(sent) /\ n \notin accepted /\ c \in Call
        /\ StateOf' = StateOf /\ sent' = sent /\ accepted \subseteq 1 .. Len(sent)
    BY DEF Answer, StateOf, callVars, IInv, TypeOK
  <1>2. CASE accepted' = accepted
    BY <1>1, <1>2 DEF P!vars, Taken
  <1>3. CASE accepted' = accepted \cup {n}
    <2>1. pc[c] \in {"wait", "giveup", "done"} /\ seqNo[c] = n
      BY <1>1 DEF IInv, SentOnce
    <2>2. c \notin Taken
      <3>1. ASSUME NEW m \in accepted, sent[m] = c PROVE m = n
        BY <1>1, <2>1, <3>1 DEF IInv, SentOnce
      <3> QED
        BY <1>1, <3>1 DEF Taken
    <2>3. StateOf[c] \in {"called", "err"}
      BY <1>1, <2>1 DEF StateOf, IInv, TypeOK, Truthful
    <2>4. Taken' = Taken \cup {c}
      BY <1>1, <1>3 DEF Taken
    <2> QED
      BY <1>1, <2>2, <2>3, <2>4 DEF P!Next, P!Take
  <1> QED
    BY <1>2, <1>3 DEF Answer

LEMMA StepRefines ==
    ASSUME IInv, [Next]_vars
    PROVE  P!Next \/ UNCHANGED P!vars
  <1>1. ASSUME pc' = pc, returned' = returned, sent' = sent, accepted' = accepted
        PROVE  UNCHANGED P!vars
    BY <1>1, Stutter DEF Taken
  <1>2. CASE UNCHANGED vars
    BY <1>1, <1>2 DEF vars, callVars, linkVars
  <1>3. ASSUME NEW c \in Call, Publish(c) PROVE P!Next \/ UNCHANGED P!vars
    BY <1>3, CheckRefines, InnerRefines, ReturnRefines DEF Publish
  <1>4. CASE confirmationLoop
    BY <1>1, <1>4 DEF confirmationLoop, TakeConfirmation, Deliver, LoopDone, LoopClosed, FailAllPending,
                      callVars, linkVars
  <1>5. CASE Close \/ Resequence \/ ConnectionLost
    BY <1>1, <1>5 DEF Close, CloseFlag, CloseDone, CloseWait, CloseChannel, Resequence, ConnectionLost, callVars,
                      linkVars
  <1> QED
    BY <1>2, <1>3, <1>4, <1>5, AnswerRefines DEF Next

\* broker.Publish keeps the promise of Publishing: nil only for a message the broker
\* has taken, and one return per call.
THEOREM Implements == Spec => ImplementsPublishing
  <1>1. Init => P!Init
    BY DEF Init, P!Init, StateOf, Taken
  <1>2. IInv /\ [Next]_vars => [P!Next]_(P!vars)
    BY StepRefines
  <1> QED
    BY <1>1, <1>2, Inductive, PTL DEF Spec, ImplementsPublishing, P!Spec
=============================================================================
