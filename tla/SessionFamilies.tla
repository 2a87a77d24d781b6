-------------------------- MODULE SessionFamilies --------------------------
(***************************************************************************)
(* What the auth service promises about refresh-token families, whatever   *)
(* its SQL: a family is opened with one usable session, a session is       *)
(* replaced by one never issued before, and a family that was closed stays *)
(* closed.                                                                 *)
(***************************************************************************)
CONSTANT Session    \* all the sessions there could be

VARIABLES
    heads,    \* [family -> set of its usable sessions], a family once opened
    issued    \* sessions ever issued

vars == <<heads, issued>>

TypeOK ==
    /\ heads \in [DOMAIN heads -> SUBSET issued]
    /\ issued \subseteq Session

Init ==
    /\ heads = [f \in {} |-> {}]
    /\ issued = {}

\* A login or a code exchange: the first session names the family.
Open(i) ==
    /\ i \in Session \ (issued \cup DOMAIN heads)
    /\ heads' = [f \in DOMAIN heads \cup {i} |-> IF f = i THEN {i} ELSE heads[f]]
    /\ issued' = issued \cup {i}

\* A refresh: one use of the usable session of f, and of no other.
Replace(f, old, new) ==
    /\ heads[f] = {old}
    /\ new \in Session \ issued
    /\ heads' = [heads EXCEPT ![f] = {new}]
    /\ issued' = issued \cup {new}

\* Logout, reuse, expiry, revocation and deactivation close families for good.
Close(F) ==
    /\ heads' = [f \in DOMAIN heads |-> IF f \in F THEN {} ELSE heads[f]]
    /\ UNCHANGED issued

Next ==
    \/ \E i \in issued' : Open(i)
    \/ \E f \in DOMAIN heads, new \in issued' :
            \E old \in heads[f] : Replace(f, old, new)
    \/ \E F \in SUBSET DOMAIN heads : Close(F)

Spec == Init /\ [][Next]_vars

=============================================================================
