-------------------------- MODULE MCRefreshTokens --------------------------
(***************************************************************************)
(* Instances of RefreshTokens for TLC: from the empty table, and from a    *)
(* table in which one session has been refreshed once, so that three       *)
(* requests can meet in it.                                                *)
(***************************************************************************)
EXTENDS RefreshTokens, TLC

CONSTANTS t1, t2, t3, t4, r1, r2, r3, u1, n1, n2,
          MaxExpired  \* bound: how many tokens may expire

MCTenantOf == u1 :> n1

Bounds == Cardinality(expired) <= MaxExpired

Symmetry == Permutations(Token) \cup Permutations(Request)

\* Login and one Refresh, both answered.
RotatedOnce ==
    LET seed(parent) == [user |-> u1, tenant |-> n1, family |-> t1, parent |-> parent] IN
    /\ issued = {t1, t2} /\ revoked = {t1} /\ expired = {}
    /\ row = (t1 :> seed(None)) @@ (t2 :> seed(t1)) @@ [t \in Token |-> NoRow]
    /\ lock = [t \in Token |-> None]
    /\ req = [r \in Request |-> NoRequest]
    /\ held = {t1, t2}
    /\ reuse = {} /\ clean = {} /\ loggedOut = {}

RotatedOnceSpec == RotatedOnce /\ [][Next]_vars

SymmetryRest == Permutations(Token \ {t1, t2}) \cup Permutations(Request)
=============================================================================
