------------------------------ MODULE Sessions ------------------------------
(***************************************************************************)
(* What the refresh-token store promises its callers, without transactions *)
(* or locks.  A session is opened with one valid token; a valid token can  *)
(* be exchanged, once, for a new token of the same session; any set of     *)
(* valid tokens can be closed at once.  Nothing else happens: no token     *)
(* becomes valid again, and a session never gains a second valid token.    *)
(***************************************************************************)
CONSTANTS Token, None

VARIABLES
    session,  \* the session of each token handed out, None for the others
    valid     \* the tokens that can be exchanged

vars == <<session, valid>>

Init == session = [t \in Token |-> None] /\ valid = {}

\* A login: the session is named by its first token.
Open(t) ==
    /\ session[t] = None
    /\ session' = [session EXCEPT ![t] = t]
    /\ valid' = valid \cup {t}

\* A rotation.
Exchange(old, new) ==
    /\ old \in valid
    /\ session[new] = None
    /\ session' = [session EXCEPT ![new] = session[old]]
    /\ valid' = (valid \ {old}) \cup {new}

\* A logout, or a revocation of a family or of a user.
Close(S) ==
    /\ valid' = valid \ S
    /\ UNCHANGED session

Next ==
    \/ \E t \in Token : Open(t)
    \/ \E old, new \in Token : Exchange(old, new)
    \/ \E S \in SUBSET valid : Close(S)

Spec == Init /\ [][Next]_vars
=============================================================================
