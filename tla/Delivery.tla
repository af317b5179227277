------------------------------ MODULE Delivery ------------------------------
(***************************************************************************)
(* What the outbox promises, without rows, claims or workers.  A recorded  *)
(* event reaches the broker and is then settled.  It reaches the broker    *)
(* again only with an excuse: it is late (somebody held it longer than a   *)
(* claim lasts), or its acceptance went unrecorded and it is not settled.  *)
(* An event settled in time is done with: it does not become late, it is   *)
(* not reopened and not sent again.                                        *)
(***************************************************************************)
CONSTANT Event

VARIABLES
    recorded,   \* events that a committed request asked for
    accepted,   \* events the broker has taken
    twice,      \* events the broker has taken more than once
    settled,    \* events known to be accepted
    late,       \* events held past the end of a claim
    unrecorded  \* events whose acceptance went unrecorded

vars == <<recorded, accepted, twice, settled, late, unrecorded>>

Init ==
    /\ recorded = {} /\ accepted = {} /\ twice = {}
    /\ settled = {} /\ late = {} /\ unrecorded = {}

DoneWith(e) == e \in settled \ late

Record(e) ==
    /\ recorded' = recorded \cup {e}
    /\ UNCHANGED <<accepted, twice, settled, late, unrecorded>>

Deliver(e) ==
    /\ e \in recorded \ accepted
    /\ accepted' = accepted \cup {e}
    /\ unrecorded' \in {unrecorded, unrecorded \cup {e}}
    /\ UNCHANGED <<recorded, twice, settled, late>>

Redeliver(e) ==
    /\ e \in accepted \cap (late \cup unrecorded) /\ ~DoneWith(e)
    /\ twice' = twice \cup {e}
    /\ unrecorded' \in {unrecorded, unrecorded \cup {e}}
    /\ UNCHANGED <<recorded, accepted, settled, late>>

Settle(e) ==
    /\ e \in accepted
    /\ settled' = settled \cup {e}
    /\ UNCHANGED <<recorded, accepted, twice, late, unrecorded>>

\* The outcome of an acceptance cannot be written down.
Forget(e) ==
    /\ e \in accepted /\ ~DoneWith(e)
    /\ unrecorded' = unrecorded \cup {e}
    /\ UNCHANGED <<recorded, accepted, twice, settled, late>>

\* A late holder records a failure over the success of another.
Reopen(e) ==
    /\ e \in settled \cap late
    /\ settled' = settled \ {e}
    /\ UNCHANGED <<recorded, accepted, twice, late, unrecorded>>

Delay(S) ==
    /\ late' = late \cup S
    /\ UNCHANGED <<recorded, accepted, twice, settled, unrecorded>>

Next ==
    \/ \E e \in Event : \/ Record(e) \/ Deliver(e) \/ Redeliver(e)
                        \/ Settle(e) \/ Forget(e) \/ Reopen(e)
    \/ \E S \in SUBSET (recorded \ settled) : Delay(S)

Spec == Init /\ [][Next]_vars
=============================================================================
