---------------------------- MODULE OneTimeGrants ---------------------------
(***************************************************************************)
(* What the provider promises about an authorization request, whatever its *)
(* SQL and its handlers: its client is answered once, by an error or by a  *)
(* code of its own; the code stands for one user, who may sign in when it  *)
(* is sent; and it yields one session, while that user may sign in, or     *)
(* lapses for good.                                                        *)
(***************************************************************************)
EXTENDS Naturals

CONSTANTS Grant, User, Code

VARIABLES
    grant,      \* what the client of a request knows of it
    sessions,   \* sessions issued for a request
    eligible    \* the users who may sign in

vars == <<grant, sessions, eligible>>

New == [stage |-> "new"]
Asked == [stage |-> "asked"]
Refused == [stage |-> "refused"]
Sent(stage, c, u) == [stage |-> stage, code |-> c, user |-> u]

IsSent(g) == grant[g].stage \in {"open", "redeemed", "lapsed"}

TypeOK ==
    /\ \A g \in Grant :
          \/ grant[g] \in {New, Asked, Refused}
          \/ \E stage \in {"open", "redeemed", "lapsed"}, c \in Code, u \in User :
                grant[g] = Sent(stage, c, u)
    /\ sessions \in [Grant -> Nat]
    /\ eligible \subseteq User

Init ==
    /\ grant = [g \in Grant |-> New]
    /\ sessions = [g \in Grant |-> 0]
    /\ eligible \subseteq User

Opened == {h \in Grant : grant[h].stage = "open"}

\* A request is made.  Old codes may lapse on the occasion: they are worth
\* nothing any more.
Ask(g) ==
    /\ grant[g] = New
    /\ \E old \in SUBSET Opened :
          grant' = [h \in Grant |->
                      IF h = g THEN Asked
                      ELSE IF h \in old THEN Sent("lapsed", grant[h].code, grant[h].user)
                      ELSE grant[h]]
    /\ UNCHANGED <<sessions, eligible>>

\* The client is told that there will be no code.
Refuse(g) ==
    /\ grant[g] = Asked
    /\ grant' = [grant EXCEPT ![g] = Refused]
    /\ UNCHANGED <<sessions, eligible>>

\* The client is sent a code that no client was sent before.
Send(g, c, u) ==
    /\ grant[g] = Asked
    /\ u \in eligible
    /\ \A h \in Grant : IsSent(h) => grant[h].code # c
    /\ grant' = [grant EXCEPT ![g] = Sent("open", c, u)]
    /\ UNCHANGED <<sessions, eligible>>

\* The one exchange of the code that succeeds.
Redeem(g) ==
    /\ grant[g].stage = "open"
    /\ grant[g].user \in eligible
    /\ grant' = [grant EXCEPT ![g] = Sent("redeemed", grant[g].code, grant[g].user)]
    /\ sessions' = [sessions EXCEPT ![g] = @ + 1]
    /\ UNCHANGED eligible

\* Users are verified and deactivated.
UsersChange ==
    /\ eligible' \subseteq User
    /\ UNCHANGED <<grant, sessions>>

Next ==
    \/ UsersChange
    \/ \E g \in Grant :
          \/ Ask(g) \/ Refuse(g) \/ Redeem(g)
          \/ \E c \in Code, u \in User : Send(g, c, u)

Spec == Init /\ [][Next]_vars

=============================================================================
