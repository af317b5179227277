----------------------------- MODULE Publishing -----------------------------
(***************************************************************************)
(* What Broker.Publish promises the outbox worker: a call returns once,    *)
(* and nil only when the broker has the message.  An error says nothing:   *)
(* the message may have been taken, or be taken after the return.          *)
(***************************************************************************)
CONSTANT Call

VARIABLES
    state,  \* of each call: "idle", "called", "ok" or "err"
    taken   \* calls whose message the broker has

vars == <<state, taken>>

Init == state = [c \in Call |-> "idle"] /\ taken = {}

Begin(c) ==
    /\ state[c] = "idle"
    /\ state' = [state EXCEPT ![c] = "called"]
    /\ UNCHANGED taken

Take(c) ==
    /\ state[c] \in {"called", "err"} /\ c \notin taken
    /\ taken' = taken \cup {c}
    /\ UNCHANGED state

Return(c) ==
    /\ state[c] = "called"
    /\ \/ c \in taken /\ state' = [state EXCEPT ![c] = "ok"]
       \/ state' = [state EXCEPT ![c] = "err"]
    /\ UNCHANGED taken

\* A call on a closed broker returns at once.
Refuse(c) ==
    /\ state[c] = "idle"
    /\ state' = [state EXCEPT ![c] = "err"]
    /\ UNCHANGED taken

Next == \E c \in Call : Begin(c) \/ Take(c) \/ Return(c) \/ Refuse(c)

Spec == Init /\ [][Next]_vars
=============================================================================
