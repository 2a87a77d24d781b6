------------------------- MODULE AuthSessionsProofs -------------------------
(***************************************************************************)
(* Machine-checked properties of AuthSessions, for any number of subjects, *)
(* clients, requests in flight and sessions.                               *)
(***************************************************************************)
EXTENDS AuthSessions, SequenceTheorems, WellFoundedInduction, TLAPS

-----------------------------------------------------------------------------
(* Type correctness *)

LEMMA InFlightIsRequest ==
    ASSUME TypeOK, NEW t \in Tx, tx[t].pc # "idle"
    PROVE  tx[t] \in Request
  BY DEF TypeOK, Idle

LEMMA FinishType ==
    ASSUME TypeOK, NEW t \in Tx, NEW rows \in SUBSET Ids, Finish(t, rows)
    PROVE  tx' \in [Tx -> Request \cup {Idle}]
  <1> SUFFICES ASSUME NEW u \in Tx
               PROVE  tx'[u] \in Request \cup {Idle}
    BY DEF Finish
  <1>1. CASE u = t \/ tx[u] = Idle
    BY <1>1 DEF Finish
  <1>2. CASE ~(u = t \/ tx[u] = Idle)
    <2>1. tx[u] \in Request
      BY <1>2 DEF TypeOK
    <2>2. tx'[u] = [tx[u] EXCEPT !.elders = @ \ {t},
                       !.younger = IF u \in tx[t].elders THEN @ \cup rows ELSE @]
      BY <1>2 DEF Finish
    <2> QED
      BY <2>1, <2>2 DEF Request
  <1> QED
    BY <1>1, <1>2

LEMMA StartType ==
    ASSUME TypeOK, NEW t \in Tx, NEW o \in Op, NEW p \in PC, NEW s \in Subject,
           NEW c \in Binding, NEW i \in Nat, Start(t, o, p, s, c, i)
    PROVE  tx' \in [Tx -> Request \cup {Idle}]
  <1> DEFINE r == [op |-> o, pc |-> p, subject |-> s, client |-> c, row |-> i,
                   held |-> {}, todo |-> {}, younger |-> {},
                   elders |-> IF p \in {"lockUser", "lockSession"}
                              THEN {u \in Tx : Begun(u)} ELSE {}]
  <1>1. r \in Request
    BY DEF Request
  <1>2. tx' = [tx EXCEPT ![t] = r]
    BY DEF Start
  <1> QED
    BY <1>1, <1>2 DEF TypeOK

LEMMA GotoType ==
    ASSUME TypeOK, NEW t \in Tx, NEW p \in PC, tx[t].pc # "idle", Goto(t, p)
    PROVE  tx' \in [Tx -> Request \cup {Idle}]
  <1>1. tx[t] \in Request
    BY InFlightIsRequest
  <1>2. [tx[t] EXCEPT !.pc = p] \in Request
    BY <1>1 DEF Request
  <1>3. tx' = [tx EXCEPT ![t] = [tx[t] EXCEPT !.pc = p]]
    BY DEF Goto
  <1> QED
    BY <1>2, <1>3 DEF TypeOK

LEMMA UpdateType ==
    ASSUME TypeOK, NEW t \in Tx, NEW r \in Request, tx' = [tx EXCEPT ![t] = r]
    PROVE  tx' \in [Tx -> Request \cup {Idle}]
  BY DEF TypeOK

LEMMA LockStepType ==
    ASSUME NEW r \in Request, NEW p \in PC, NEW S \in SUBSET Ids, NEW T \in SUBSET Ids,
           NEW E \in SUBSET Tx
    PROVE  /\ [r EXCEPT !.pc = p, !.held = S] \in Request
           /\ [r EXCEPT !.pc = p, !.todo = T] \in Request
           /\ [r EXCEPT !.pc = p, !.elders = E] \in Request
  BY DEF Request

LEMMA LockRowType ==
    ASSUME NEW r \in Request, NEW S \in SUBSET Ids, NEW T \in SUBSET Ids
    PROVE  [r EXCEPT !.held = S, !.todo = T] \in Request
  BY DEF Request

LEMMA YoungerType ==
    ASSUME NEW r \in Request, NEW S \in SUBSET Ids
    PROVE  [r EXCEPT !.younger = S] \in Request
  BY DEF Request

LEMMA RowType ==
    ASSUME TypeOK, NEW i \in Rows
    PROVE  /\ i \in Ids
           /\ sess[i] \in Session
           /\ sess[i].subject \in Subject
           /\ sess[i].client \in Binding
           /\ sess[i].family \in Ids
  <1>1. i \in 1 .. Len(sess) /\ sess \in Seq(Session)
    BY LenProperties DEF TypeOK, Rows
  <1>2. sess[i] \in Session
    BY <1>1, ElementOfSeq
  <1>3. i \in Ids
    BY <1>1, LenProperties DEF Ids
  <1> QED
    BY <1>2, <1>3 DEF Session

LEMMA AppendType ==
    ASSUME TypeOK, NEW s \in Subject, NEW f \in Ids, NEW c \in Binding
    PROVE  /\ NewSession(s, f, c) \in Session
           /\ Append(sess, NewSession(s, f, c)) \in Seq(Session)
  <1>1. NewSession(s, f, c) \in Session
    BY DEF NewSession, Session
  <1> QED
    BY <1>1 DEF TypeOK

LEMMA RevokeType ==
    ASSUME TypeOK, NEW S, NEW why \in Reason
    PROVE  Revoke(S, why) \in Seq(Session)
  <1>1. \A i \in Rows : Revoke(S, why)[i] \in Session
    <2> TAKE i \in Rows
    <2>1. sess[i] \in Session
      BY RowType
    <2>2. [sess[i] EXCEPT !.reason = why] \in Session
      BY <2>1 DEF Session
    <2> QED
      BY <2>1, <2>2 DEF Revoke
  <1>2. Rows = 1 .. Len(sess) /\ Len(sess) \in Nat
    BY DEF Rows, TypeOK
  <1>3. Revoke(S, why) = [i \in 1 .. Len(sess) |-> Revoke(S, why)[i]]
    BY <1>2 DEF Revoke
  <1> QED
    BY <1>1, <1>2, <1>3, IsASeq

LEMMA RotatedSession ==
    ASSUME NEW r \in Session, NEW n \in Nat, NEW why \in Reason
    PROVE  [r EXCEPT !.reason = why, !.replacedBy = n] \in Session
  BY DEF Session

LEMMA RotatedFields ==
    ASSUME NEW r \in Session, NEW n
    PROVE  LET q == [r EXCEPT !.reason = "rotated", !.replacedBy = n] IN
           /\ q.subject = r.subject /\ q.family = r.family /\ q.client = r.client
           /\ q.reason = "rotated" /\ q.replacedBy = n
  BY DEF Session

\* What Rotate makes of the sequence: row i becomes rotated, new is appended.
LEMMA RotateType ==
    ASSUME TypeOK, NEW t \in Tx, Rotate(t), tx[t].row \in Rows
    PROVE  /\ sess' \in Seq(Session)
           /\ Len(sess') = Len(sess) + 1
           /\ sess'[tx[t].row] = [sess[tx[t].row] EXCEPT !.reason = "rotated",
                                                        !.replacedBy = Len(sess) + 1]
           /\ \A j \in Rows \ {tx[t].row} : sess'[j] = sess[j]
           /\ sess'[Len(sess) + 1] = NewSession(sess[tx[t].row].subject,
                                               sess[tx[t].row].family,
                                               sess[tx[t].row].client)
  <1> DEFINE i == tx[t].row
             old == [sess[i] EXCEPT !.reason = "rotated", !.replacedBy = Len(sess) + 1]
             new == NewSession(sess[i].subject, sess[i].family, sess[i].client)
             rest == [sess EXCEPT ![i] = old]
  <1>1. sess \in Seq(Session) /\ Len(sess) \in Nat /\ Rows = 1 .. Len(sess)
    BY LenProperties DEF TypeOK, Rows
  <1>2. sess[i] \in Session
    BY RowType
  <1>3. old \in Session
    <2>1. Len(sess) + 1 \in Nat /\ "rotated" \in Reason
      BY <1>1 DEF Reason
    <2> QED
      BY <1>2, <2>1, RotatedSession, Zenon
  <1>4. new \in Session
    BY AppendType, RowType
  <1>5. /\ rest \in Seq(Session)
        /\ Len(rest) = Len(sess)
        /\ rest[i] = old
        /\ \A j \in Rows \ {i} : rest[j] = sess[j]
    <2> HIDE DEF old, i
    <2> QED
      BY <1>1, <1>3, ExceptSeq DEF i
  <1>6. sess' = Append(rest, new)
    BY <1>2 DEF Rotate, Session
  <1>7. /\ sess' \in Seq(Session)
        /\ Len(sess') = Len(rest) + 1
        /\ \A j \in 1 .. Len(rest) : sess'[j] = rest[j]
        /\ sess'[Len(rest) + 1] = new
    BY <1>4, <1>5, <1>6, AppendProperties
  <1> QED
    BY <1>1, <1>5, <1>7

LEMMA ExpireType ==
    ASSUME TypeOK, NEW i \in Rows, Expire(i)
    PROVE  /\ sess' \in Seq(Session)
           /\ Len(sess') = Len(sess)
           /\ sess'[i] = [sess[i] EXCEPT !.expired = TRUE]
           /\ \A j \in Rows \ {i} : sess'[j] = sess[j]
  <1> DEFINE gone == [sess[i] EXCEPT !.expired = TRUE]
  <1>1. sess \in Seq(Session) /\ Rows = 1 .. Len(sess)
    BY LenProperties DEF TypeOK, Rows
  <1>2. gone \in Session
    BY RowType DEF Session
  <1>3. sess' = [sess EXCEPT ![i] = gone]
    BY DEF Expire
  <1> HIDE DEF gone
  <1>4. /\ sess' \in Seq(Session)
        /\ Len(sess') = Len(sess)
        /\ sess'[i] = gone
        /\ \A j \in Rows \ {i} : sess'[j] = sess[j]
    BY <1>1, <1>2, <1>3, ExceptSeq
  <1> QED
    BY <1>4 DEF gone

-----------------------------------------------------------------------------
(* The inductive invariant.                                                *)
(*                                                                         *)
(* RequestOK says where a request of each kind can be, and which locks it  *)
(* holds there; it makes TypeOK inductive (a rotation needs a row that     *)
(* exists) and is what the invariants about locks rest on.                 *)

OpAt(t, o, P) == tx[t].op = o => tx[t].pc \in P

RequestOK(t) ==
    tx[t].pc # "idle" =>
        /\ tx[t].held \subseteq Rows
        /\ tx[t].todo \subseteq Rows
        /\ OpAt(t, "login", {"insertSession"})
        /\ OpAt(t, "exchange", {"lockUser", "insertSession"})
        /\ OpAt(t, "refresh", {"lockSession", "lockSubject", "checkUser", "rotate",
                               "markExpired", "snapshot", "update"})
        /\ OpAt(t, "revokeFamily", {"lockSession", "snapshot", "update"})
        /\ OpAt(t, "revokeOne", {"liveChecked"})
        /\ OpAt(t, "revokeAll", {"liveChecked", "snapshot", "update"})
        /\ OpAt(t, "deactivate", {"liveChecked", "lockUser", "snapshot", "update"})
        /\ tx[t].op \in {"refresh", "revokeFamily", "revokeOne"} =>
                tx[t].row \in Rows /\ tx[t].subject = sess[tx[t].row].subject
        /\ tx[t].op \in {"refresh", "revokeFamily"} /\ tx[t].pc # "lockSession" =>
                tx[t].row \in tx[t].held
        /\ tx[t].pc \in {"lockSession", "lockUser", "liveChecked"} => tx[t].held = {}

RequestsOK == \A t \in Tx : RequestOK(t)

LEMMA TypeStep ==
    TypeOK /\ RequestsOK /\ [Next]_vars => TypeOK'
  <1> SUFFICES ASSUME TypeOK, RequestsOK, [Next]_vars
               PROVE  TypeOK'
    OBVIOUS
  <1>0. {} \in SUBSET Ids
    OBVIOUS
  <1> DEFINE TxOK == tx' \in [Tx -> Request \cup {Idle}]
  <1>1. ASSUME NEW t \in Tx, NEW s \in Subject, LoginVerified(t, s)
        PROVE  TypeOK'
    <2>1. TxOK
      BY <1>1, StartType DEF LoginVerified, Op, PC, Binding
    <2> QED
      BY <1>1, <2>1 DEF LoginVerified, TypeOK
  <1>2. ASSUME NEW t \in Tx, NEW s \in Subject, NEW c \in Client, ExchangeBegin(t, s, c)
        PROVE  TypeOK'
    <2>1. TxOK
      BY <1>2, StartType DEF ExchangeBegin, Op, PC, Binding
    <2> QED
      BY <1>2, <2>1 DEF ExchangeBegin, TypeOK
  <1>3. ASSUME NEW t \in Tx, NEW i \in Rows, NEW c \in Binding,
               RefreshBegin(t, i, c) \/ RevokeFamilyBegin(t, i, c)
        PROVE  TypeOK'
    <2>1. i \in Nat /\ sess[i].subject \in Subject
      BY RowType DEF Ids
    <2>2. TxOK
      BY <1>3, <2>1, StartType DEF RefreshBegin, RevokeFamilyBegin, Op, PC
    <2> QED
      BY <1>3, <2>2 DEF RefreshBegin, RevokeFamilyBegin, TypeOK
  <1>4. ASSUME NEW t \in Tx, NEW i \in Rows,
               NEW o \in {"revokeOne", "revokeAll", "deactivate"},
               NEW j \in Nat, RequireLiveSession(t, i, o, j)
        PROVE  TypeOK'
    <2>1. sess[i].subject \in Subject
      BY RowType
    <2>2. TxOK
      BY <1>4, <2>1, StartType DEF RequireLiveSession, Op, PC, Binding
    <2> QED
      BY <1>4, <2>2 DEF RequireLiveSession, TypeOK
  <1>5. ASSUME NEW t \in Tx, NEW p \in PC, tx[t].pc # "idle", Goto(t, p),
               UNCHANGED <<sess, active, closed>>
        PROVE  TypeOK'
    BY <1>5, GotoType DEF TypeOK
  <1>6. ASSUME NEW t \in Tx, Finish(t, {}), UNCHANGED <<sess, active, closed>>
        PROVE  TypeOK'
    BY <1>6, <1>0, FinishType DEF TypeOK
  <1>7. ASSUME NEW t \in Tx, LockSession(t)
        PROVE  TypeOK'
    <2>1. tx[t].pc # "idle" /\ tx[t].row \in Rows
      BY <1>7 DEF LockSession, At, RequestsOK, RequestOK
    <2>2. tx[t] \in Request /\ {tx[t].row} \in SUBSET Ids /\ "lockSubject" \in PC
      BY <2>1, InFlightIsRequest, RowType DEF PC
    <2>3. TxOK
      BY <1>7, <2>2, LockStepType, UpdateType DEF LockSession
    <2> QED
      BY <1>7, <2>3 DEF LockSession, TypeOK
  <1>8. ASSUME NEW t \in Tx, RevokeFamilyLock(t)
        PROVE  TypeOK'
    <2>1. tx[t].pc # "idle" /\ tx[t].row \in Rows
      BY <1>8 DEF RevokeFamilyLock, At, RequestsOK, RequestOK
    <2>2. tx[t] \in Request /\ {tx[t].row} \in SUBSET Ids /\ "snapshot" \in PC
      BY <2>1, InFlightIsRequest, RowType DEF PC
    <2>3. TxOK
      BY <1>8, <1>0, <2>2, LockStepType, UpdateType, FinishType DEF RevokeFamilyLock
    <2> QED
      BY <1>8, <2>3 DEF RevokeFamilyLock, TypeOK
  <1>9. ASSUME NEW t \in Tx, RevokeAllBegin(t) \/ DeactivateBegin(t)
        PROVE  TypeOK'
    <2>1. tx[t].pc # "idle"
      BY <1>9 DEF RevokeAllBegin, DeactivateBegin, BeginLiveChecked, At
    <2>2. tx[t] \in Request /\ "snapshot" \in PC /\ "lockUser" \in PC
      BY <2>1, InFlightIsRequest DEF PC
    <2>3. {u \in Tx : Begun(u)} \in SUBSET Tx
      OBVIOUS
    <2>4. TxOK
      BY <1>9, <1>0, <2>2, <2>3, LockStepType, UpdateType
         DEF RevokeAllBegin, DeactivateBegin, BeginLiveChecked
    <2> QED
      BY <1>9, <2>4 DEF RevokeAllBegin, DeactivateBegin, BeginLiveChecked, TypeOK
  <1>10. ASSUME NEW t \in Tx, Snapshot(t)
         PROVE  TypeOK'
    <2>1. tx[t] \in Request /\ "update" \in PC
      BY <1>10, InFlightIsRequest DEF Snapshot, PC
    <2>2. {i \in Rows : Matches(t, i)} \ tx[t].held \in SUBSET Ids
      <3>1. \A i \in Rows : i \in Ids
        BY RowType
      <3> QED
        BY <3>1
    <2>3. TxOK
      BY <1>10, <2>1, <2>2, LockStepType, UpdateType DEF Snapshot
    <2> QED
      BY <1>10, <2>3 DEF Snapshot, TypeOK
  <1>11. ASSUME NEW t \in Tx, NEW i \in Rows, LockRow(t, i)
         PROVE  TypeOK'
    <2>1. tx[t] \in Request
      BY <1>11, InFlightIsRequest DEF LockRow
    <2>2. tx[t].held \cup {i} \in SUBSET Ids /\ tx[t].todo \ {i} \in SUBSET Ids
      BY <2>1, RowType DEF Request
    <2>3. TxOK
      BY <1>11, <2>1, <2>2, LockRowType, UpdateType DEF LockRow
    <2> QED
      BY <1>11, <2>3 DEF LockRow, TypeOK
  <1>12. ASSUME NEW t \in Tx, InsertLoginSession(t)
         PROVE  TypeOK'
    <2> DEFINE new == Len(sess) + 1
    <2>1. tx[t] \in Request /\ tx[t].subject \in Subject
      BY <1>12, InFlightIsRequest DEF InsertLoginSession, At, Request
    <2>2. new \in Ids
      BY LenProperties DEF TypeOK, Ids
    <2>3. sess' \in Seq(Session)
      BY <1>12, <2>1, <2>2, AppendType DEF InsertLoginSession, Binding
    <2>4. ASSUME NEW u \in Tx
          PROVE  tx'[u] \in Request \cup {Idle}
      <3>1. CASE u = t \/ ~Begun(u)
        BY <1>12, <3>1 DEF InsertLoginSession, TypeOK
      <3>2. CASE u # t /\ Begun(u)
        <4>1. tx[u] \in Request /\ tx[u].younger \cup {new} \in SUBSET Ids
          BY <2>2, <3>2, InFlightIsRequest DEF Begun, Request
        <4>2. tx'[u] = [tx[u] EXCEPT !.younger = tx[u].younger \cup {new}]
          BY <1>12, <3>2 DEF InsertLoginSession
        <4> QED
          BY <4>1, <4>2, YoungerType
      <3> QED
        BY <3>1, <3>2
    <2>5. TxOK
      BY <1>12, <2>4 DEF InsertLoginSession
    <2> QED
      BY <1>12, <2>3, <2>5 DEF InsertLoginSession, TypeOK
  <1>13. ASSUME NEW t \in Tx, InsertOAuthSession(t)
         PROVE  TypeOK'
    <2>1. tx[t] \in Request /\ tx[t].subject \in Subject /\ tx[t].client \in Binding
      BY <1>13, InFlightIsRequest DEF InsertOAuthSession, At, Request
    <2>2. Len(sess) + 1 \in Ids
      BY LenProperties DEF TypeOK, Ids
    <2>3. sess' \in Seq(Session)
      BY <1>13, <2>1, <2>2, AppendType DEF InsertOAuthSession
    <2>4. TxOK
      <3>1. {Len(sess) + 1} \in SUBSET Ids
        BY <2>2
      <3> QED
        BY <1>13, <3>1, FinishType DEF InsertOAuthSession
    <2> QED
      BY <1>13, <2>3, <2>4 DEF InsertOAuthSession, TypeOK
  <1>14. ASSUME NEW t \in Tx, Rotate(t)
         PROVE  TypeOK'
    <2>1. tx[t].row \in Rows
      BY <1>14 DEF Rotate, At, RequestsOK, RequestOK
    <2>2. sess' \in Seq(Session)
      BY <1>14, <2>1, RotateType
    <2>3. TxOK
      <3>1. {Len(sess) + 1} \in SUBSET Ids
        BY LenProperties DEF TypeOK, Ids
      <3> QED
        BY <1>14, <3>1, FinishType DEF Rotate
    <2> QED
      BY <1>14, <2>2, <2>3 DEF Rotate, TypeOK
  <1>15. ASSUME NEW t \in Tx, MarkExpired(t) \/ RevokeOne(t)
         PROVE  TypeOK'
    <2>1. sess' \in Seq(Session)
      BY <1>15, RevokeType DEF MarkExpired, RevokeOne, Reason
    <2>2. TxOK
      BY <1>15, <1>0, FinishType DEF MarkExpired, RevokeOne
    <2> QED
      BY <1>15, <2>1, <2>2 DEF MarkExpired, RevokeOne, TypeOK
  <1>16. ASSUME NEW t \in Tx, CommitUpdate(t)
         PROVE  TypeOK'
    <2>1. tx[t] \in Request
      BY <1>16, InFlightIsRequest DEF CommitUpdate, UpdateDone
    <2>2. sess' \in Seq(Session)
      BY <1>16, RevokeType DEF CommitUpdate, UpdateReason, Reason
    <2>3. TxOK
      BY <1>16, <1>0, FinishType DEF CommitUpdate
    <2>4. active' \in [Subject -> BOOLEAN]
      BY <1>16 DEF CommitUpdate, TypeOK
    <2>5. closed' \in [{"reuse_detected", "oauth_client_revoke"} -> SUBSET Ids]
      <3>1. CASE tx[t].op \in {"refresh", "revokeFamily"}
        <4>1. tx[t].row \in Rows
          BY <1>16, <3>1 DEF CommitUpdate, UpdateDone, RequestsOK, RequestOK
        <4>2. sess[tx[t].row].family \in Ids
          BY <4>1, RowType
        <4>3. UpdateReason(t) \in {"reuse_detected", "oauth_client_revoke"}
          BY <3>1 DEF UpdateReason
        <4>4. closed' = [closed EXCEPT ![UpdateReason(t)] =
                           closed[UpdateReason(t)] \cup {sess[tx[t].row].family}]
          BY <1>16, <3>1 DEF CommitUpdate
        <4> QED
          BY <4>2, <4>3, <4>4 DEF TypeOK
      <3>2. CASE tx[t].op \notin {"refresh", "revokeFamily"}
        BY <1>16, <3>2 DEF CommitUpdate, TypeOK
      <3> QED
        BY <3>1, <3>2
    <2> QED
      BY <2>2, <2>3, <2>4, <2>5 DEF TypeOK
  <1>17. ASSUME NEW i \in Rows, Expire(i)
         PROVE  TypeOK'
    BY <1>17, ExpireType DEF Expire, TypeOK
  <1>18. ASSUME NEW t \in Tx, ExchangeLock(t) \/ LockSubject(t) \/ CheckUser(t) \/ DeactivateLock(t)
         PROVE  TypeOK'
    <2>1. tx[t].pc # "idle" /\ UNCHANGED <<sess, active, closed>>
      BY <1>18 DEF ExchangeLock, LockSubject, CheckUser, DeactivateLock, At
    <2>2. Finish(t, {}) \/ \E p \in PC : Goto(t, p)
      BY <1>18 DEF ExchangeLock, LockSubject, CheckUser, DeactivateLock, PC
    <2> QED
      BY <2>1, <2>2, <1>5, <1>6
  <1>19. ASSUME NEW t \in Tx, UpdateViolatesCheck(t) \/ Abort(t) \/ DeadlockAbort(t)
         PROVE  TypeOK'
    BY <1>19, <1>6 DEF UpdateViolatesCheck, Abort, DeadlockAbort
  <1>20. CASE UNCHANGED vars
    BY <1>20 DEF vars, TypeOK
  <1>21. ASSUME NEW t \in Tx, Begin(t)
         PROVE  TypeOK'
    <2>1. \A j \in Rows : j \in Nat
      BY RowType DEF Ids
    <2>2. Client \subseteq Binding
      BY DEF Binding
    <2> QED
      BY <1>21, <2>1, <2>2, <1>1, <1>2, <1>3, <1>4 DEF Begin, RevokeOneBegin
  <1>22. ASSUME NEW t \in Tx, Progress(t)
         PROVE  TypeOK'
    BY <1>22, <1>7, <1>8, <1>9, <1>10, <1>11, <1>12, <1>13, <1>14, <1>15, <1>16, <1>18, <1>19
       DEF Progress
  <1> QED
    BY <1>17, <1>19, <1>20, <1>21, <1>22 DEF Next

-----------------------------------------------------------------------------
(* What a step does to the rows, and to the requests. *)

LEMMA SessWriters ==
    ASSUME TypeOK, RequestsOK, [Next]_vars
    PROVE  \/ UNCHANGED sess
           \/ \E t \in Tx : \/ InsertLoginSession(t) \/ InsertOAuthSession(t) \/ Rotate(t)
                            \/ MarkExpired(t) \/ RevokeOne(t) \/ CommitUpdate(t)
           \/ \E i \in Rows : Expire(i)
  <1>1. ASSUME NEW t \in Tx, Begin(t)
        PROVE  UNCHANGED sess
    BY <1>1 DEF Begin, LoginVerified, ExchangeBegin, RefreshBegin, RevokeFamilyBegin,
                RevokeOneBegin, RequireLiveSession
  <1>2. ASSUME NEW t \in Tx, Progress(t)
        PROVE  \/ UNCHANGED sess
               \/ InsertLoginSession(t) \/ InsertOAuthSession(t) \/ Rotate(t)
               \/ MarkExpired(t) \/ RevokeOne(t) \/ CommitUpdate(t)
    BY <1>2 DEF Progress, ExchangeLock, LockSession, LockSubject, CheckUser, RevokeFamilyLock,
                RevokeAllBegin, DeactivateBegin, BeginLiveChecked, DeactivateLock, Snapshot,
                LockRow, UpdateViolatesCheck
  <1>3. ASSUME NEW t \in Tx, Abort(t) \/ DeadlockAbort(t)
        PROVE  UNCHANGED sess
    BY <1>3 DEF Abort, DeadlockAbort
  <1> QED
    BY <1>1, <1>2, <1>3 DEF Next, vars

LEMMA SessSteps ==
    ASSUME TypeOK, RequestsOK, [Next]_vars
    PROVE  \/ UNCHANGED sess
           \/ \E s \in Subject, c \in Binding :
                 sess' = Append(sess, NewSession(s, Len(sess) + 1, c))
           \/ \E t \in Tx : Rotate(t)
           \/ \E R \in SUBSET {i \in Rows : Unrevoked(i)}, why \in Reason \ {"rotated"} :
                 sess' = Revoke(R, why)
           \/ \E i \in Rows : Expire(i)
  <1>1. ASSUME NEW t \in Tx, InsertLoginSession(t) \/ InsertOAuthSession(t)
        PROVE  \E s \in Subject, c \in Binding :
                 sess' = Append(sess, NewSession(s, Len(sess) + 1, c))
    <2>1. tx[t] \in Request
      BY <1>1, InFlightIsRequest DEF InsertLoginSession, InsertOAuthSession, At
    <2>2. tx[t].subject \in Subject /\ tx[t].client \in Binding /\ Browser \in Binding
      BY <2>1 DEF Request, Binding
    <2> QED
      BY <1>1, <2>2 DEF InsertLoginSession, InsertOAuthSession
  <1>2. ASSUME NEW t \in Tx, MarkExpired(t) \/ RevokeOne(t) \/ CommitUpdate(t)
        PROVE  \E R \in SUBSET {i \in Rows : Unrevoked(i)}, why \in Reason \ {"rotated"} :
                 sess' = Revoke(R, why)
    <2> DEFINE own == {tx[t].row} \cap {j \in Rows : Unrevoked(j)}
    <2>1. own \in SUBSET {i \in Rows : Unrevoked(i)}
      OBVIOUS
    <2>2. {"expired", "logout", UpdateReason(t)} \subseteq Reason \ {"rotated"}
      BY DEF UpdateReason, Reason
    <2>3. CASE MarkExpired(t)
      BY <2>1, <2>2, <2>3 DEF MarkExpired
    <2>4. CASE RevokeOne(t)
      BY <2>1, <2>2, <2>4 DEF RevokeOne
    <2>5. CASE CommitUpdate(t)
      <3>1. RequestOK(t) /\ tx[t].pc # "idle"
        BY <2>5 DEF RequestsOK, CommitUpdate, UpdateDone
      <3>2. Revoked(t) \in SUBSET {i \in Rows : Unrevoked(i)}
        BY <3>1 DEF Revoked, RequestOK
      <3> QED
        BY <2>2, <2>5, <3>2 DEF CommitUpdate
    <2> QED
      BY <1>2, <2>3, <2>4, <2>5
  <1> QED
    BY <1>1, <1>2, SessWriters

\* The rows after each kind of step.
LEMMA RowsAre ==
    ASSUME TypeOK
    PROVE  Len(sess) \in Nat /\ Rows = 1 .. Len(sess) /\ Len(sess) + 1 \notin Rows
  BY LenProperties DEF TypeOK, Rows

LEMMA AppendRows ==
    ASSUME TypeOK, NEW s \in Subject, NEW c \in Binding,
           sess' = Append(sess, NewSession(s, Len(sess) + 1, c))
    PROVE  /\ Rows' = Rows \cup {Len(sess) + 1}
           /\ \A j \in Rows : sess'[j] = sess[j]
           /\ sess'[Len(sess) + 1] = NewSession(s, Len(sess) + 1, c)
  <1>1. sess \in Seq(Session) /\ Len(sess) + 1 \in Ids
    BY LenProperties DEF TypeOK, Ids
  <1>2. NewSession(s, Len(sess) + 1, c) \in Session
    BY <1>1, AppendType
  <1> QED
    BY <1>1, <1>2, AppendProperties, LenProperties, RowsAre DEF Rows

LEMMA RotateRows ==
    ASSUME TypeOK, RequestsOK, NEW t \in Tx, Rotate(t)
    PROVE  /\ tx[t].row \in Rows /\ Unrevoked(tx[t].row)
           /\ Rows' = Rows \cup {Len(sess) + 1}
           /\ \A j \in Rows \ {tx[t].row} : sess'[j] = sess[j]
           /\ sess'[tx[t].row] = [sess[tx[t].row] EXCEPT !.reason = "rotated",
                                                        !.replacedBy = Len(sess) + 1]
           /\ sess'[Len(sess) + 1] = NewSession(sess[tx[t].row].subject,
                                               sess[tx[t].row].family,
                                               sess[tx[t].row].client)
  <1>1. tx[t].row \in Rows /\ Unrevoked(tx[t].row)
    BY DEF Rotate, At, RequestsOK, RequestOK
  <1>2. Rows' = 1 .. Len(sess')
    BY <1>1, RotateType, LenProperties DEF Rows
  <1>3. Len(sess') = Len(sess) + 1
    BY <1>1, RotateType
  <1>4. Rows' = Rows \cup {Len(sess) + 1}
    BY <1>2, <1>3, RowsAre
  <1> QED
    BY <1>1, <1>4, RotateType

LEMMA RevokeRows ==
    ASSUME TypeOK, NEW R \in SUBSET {i \in Rows : Unrevoked(i)},
           NEW why \in Reason \ {"rotated"}, sess' = Revoke(R, why)
    PROVE  /\ Rows' = Rows
           /\ \A j \in Rows \ R : sess'[j] = sess[j]
           /\ \A j \in R : sess'[j] = [sess[j] EXCEPT !.reason = why]
  BY DEF Revoke, Rows

LEMMA ExpireRows ==
    ASSUME TypeOK, NEW i \in Rows, Expire(i)
    PROVE  /\ Rows' = Rows
           /\ \A j \in Rows \ {i} : sess'[j] = sess[j]
           /\ sess'[i] = [sess[i] EXCEPT !.expired = TRUE]
  BY ExpireType, LenProperties, RowsAre DEF Rows

\* Rows are never deleted, and keep their owner, family and client.
RowsKept ==
    \A i \in Rows : /\ i \in Rows'
                    /\ sess'[i].subject = sess[i].subject
                    /\ sess'[i].family = sess[i].family
                    /\ sess'[i].client = sess[i].client

LEMMA RowsAreKept ==
    ASSUME TypeOK, RequestsOK, [Next]_vars
    PROVE  RowsKept
  <1> SUFFICES ASSUME NEW i \in Rows
               PROVE  /\ i \in Rows'
                      /\ sess'[i].subject = sess[i].subject
                      /\ sess'[i].family = sess[i].family
                      /\ sess'[i].client = sess[i].client
    BY DEF RowsKept
  <1>0. sess[i] \in Session
    BY RowType
  <1>1. CASE UNCHANGED sess
    BY <1>1 DEF Rows
  <1>2. ASSUME NEW s \in Subject, NEW c \in Binding,
               sess' = Append(sess, NewSession(s, Len(sess) + 1, c))
        PROVE  i \in Rows' /\ sess'[i] = sess[i]
    BY <1>2, AppendRows
  <1>3. ASSUME NEW t \in Tx, Rotate(t)
        PROVE  i \in Rows' /\ (\/ sess'[i] = sess[i]
                               \/ sess'[i] = [sess[i] EXCEPT !.reason = "rotated",
                                                            !.replacedBy = Len(sess) + 1])
    BY <1>3, RotateRows
  <1>4. ASSUME NEW R \in SUBSET {j \in Rows : Unrevoked(j)},
               NEW why \in Reason \ {"rotated"}, sess' = Revoke(R, why)
        PROVE  i \in Rows' /\ (\/ sess'[i] = sess[i]
                               \/ sess'[i] = [sess[i] EXCEPT !.reason = why])
    BY <1>4, RevokeRows
  <1>5. ASSUME NEW j \in Rows, Expire(j)
        PROVE  i \in Rows' /\ (\/ sess'[i] = sess[i]
                               \/ sess'[i] = [sess[i] EXCEPT !.expired = TRUE])
    BY <1>5, ExpireRows
  <1> QED
    BY <1>0, <1>1, <1>2, <1>3, <1>4, <1>5, SessSteps DEF Session

\* A request keeps everything but what it knows of the others' begin times.
Untouched(u) ==
    /\ tx'[u].pc = tx[u].pc
    /\ tx'[u].held = tx[u].held
    /\ tx[u].pc # "idle" => /\ tx'[u].op = tx[u].op
                            /\ tx'[u].subject = tx[u].subject
                            /\ tx'[u].client = tx[u].client
                            /\ tx'[u].row = tx[u].row
                            /\ tx'[u].todo = tx[u].todo

LEMMA FinishTx ==
    ASSUME TypeOK, NEW t \in Tx, NEW rows, Finish(t, rows)
    PROVE  /\ tx'[t] = Idle
           /\ \A u \in Tx \ {t} : Untouched(u)
  <1>1. tx'[t] = Idle
    BY DEF Finish
  <1>2. ASSUME NEW u \in Tx \ {t}
        PROVE  Untouched(u)
    <2>1. CASE tx[u] = Idle
      BY <1>2, <2>1 DEF Finish, Untouched, Idle
    <2>2. CASE tx[u] # Idle
      <3>1. tx[u] \in Request
        BY <2>2 DEF TypeOK
      <3>2. tx'[u] = [tx[u] EXCEPT !.elders = @ \ {t},
                         !.younger = IF u \in tx[t].elders THEN @ \cup rows ELSE @]
        BY <1>2, <2>2 DEF Finish
      <3> QED
        BY <3>1, <3>2 DEF Untouched, Request
    <2> QED
      BY <2>1, <2>2
  <1> QED
    BY <1>1, <1>2

LEMMA UpdateTx ==
    ASSUME TypeOK, NEW t \in Tx, NEW r, tx' = [tx EXCEPT ![t] = r]
    PROVE  /\ tx'[t] = r
           /\ \A u \in Tx \ {t} : Untouched(u)
  BY DEF TypeOK, Untouched

LEMMA GotoTx ==
    ASSUME TypeOK, NEW t \in Tx, NEW p, tx[t].pc # "idle", Goto(t, p)
    PROVE  /\ tx'[t] = [tx[t] EXCEPT !.pc = p]
           /\ tx[t] \in Request
           /\ \A u \in Tx \ {t} : Untouched(u)
  BY UpdateTx, InFlightIsRequest DEF Goto

LEMMA InsertLoginTx ==
    ASSUME TypeOK, NEW t \in Tx, InsertLoginSession(t)
    PROVE  /\ tx'[t] = Idle
           /\ \A u \in Tx \ {t} : Untouched(u)
  <1>1. tx'[t] = Idle
    BY DEF InsertLoginSession
  <1>2. ASSUME NEW u \in Tx \ {t}
        PROVE  Untouched(u)
    <2>1. CASE ~Begun(u)
      BY <2>1 DEF InsertLoginSession, Untouched
    <2>2. CASE Begun(u)
      <3>1. tx[u] \in Request
        BY <2>2, InFlightIsRequest DEF Begun
      <3>2. tx'[u] = [tx[u] EXCEPT !.younger = @ \cup {Len(sess) + 1}]
        BY <2>2 DEF InsertLoginSession
      <3> QED
        BY <3>1, <3>2 DEF Untouched, Request
    <2> QED
      BY <2>1, <2>2
  <1> QED
    BY <1>1, <1>2

\* The request that starts, as a record.
LEMMA StartTx ==
    ASSUME TypeOK, NEW t \in Tx, NEW o, NEW p, NEW s, NEW c, NEW i, Start(t, o, p, s, c, i)
    PROVE  /\ tx[t] = Idle
           /\ tx'[t].op = o /\ tx'[t].pc = p /\ tx'[t].subject = s /\ tx'[t].client = c
           /\ tx'[t].row = i /\ tx'[t].held = {} /\ tx'[t].todo = {}
           /\ \A u \in Tx \ {t} : Untouched(u)
  <1> DEFINE r == [op |-> o, pc |-> p, subject |-> s, client |-> c, row |-> i,
                   held |-> {}, todo |-> {}, younger |-> {},
                   elders |-> IF p \in {"lockUser", "lockSession"}
                              THEN {u \in Tx : Begun(u)} ELSE {}]
  <1>1. tx[t] = Idle /\ tx' = [tx EXCEPT ![t] = r]
    BY DEF Start
  <1>2. tx'[t] = r /\ \A u \in Tx \ {t} : Untouched(u)
    BY <1>1, UpdateTx
  <1> QED
    BY <1>1, <1>2

\* An acting request leaves the locks and the place of the others alone.
LEMMA OthersUntouched ==
    ASSUME TypeOK, NEW t \in Tx, Begin(t) \/ Progress(t) \/ Abort(t) \/ DeadlockAbort(t)
    PROVE  \A u \in Tx \ {t} : Untouched(u)
  <1> DEFINE Others == \A u \in Tx \ {t} : Untouched(u)
  <1>1. ASSUME Begin(t)
        PROVE  Others
    BY <1>1, StartTx DEF Begin, LoginVerified, ExchangeBegin, RefreshBegin, RevokeFamilyBegin,
                         RevokeOneBegin, RequireLiveSession
  <1>2. ASSUME Abort(t) \/ DeadlockAbort(t)
        PROVE  Others
    BY <1>2, FinishTx DEF Abort, DeadlockAbort
  <1>3. ASSUME ExchangeLock(t) \/ LockSubject(t) \/ CheckUser(t) \/ DeactivateLock(t)
        PROVE  Others
    BY <1>3, FinishTx, GotoTx DEF ExchangeLock, LockSubject, CheckUser, DeactivateLock, At
  <1>4. ASSUME \/ InsertOAuthSession(t) \/ MarkExpired(t) \/ Rotate(t) \/ RevokeOne(t)
               \/ CommitUpdate(t) \/ UpdateViolatesCheck(t)
        PROVE  Others
    BY <1>4, FinishTx DEF InsertOAuthSession, MarkExpired, Rotate, RevokeOne, CommitUpdate,
                          UpdateViolatesCheck
  <1>5. ASSUME \/ LockSession(t) \/ RevokeFamilyLock(t) \/ RevokeAllBegin(t) \/ DeactivateBegin(t)
               \/ Snapshot(t) \/ \E i \in Rows : LockRow(t, i)
        PROVE  Others
    BY <1>5, FinishTx, UpdateTx DEF LockSession, RevokeFamilyLock, RevokeAllBegin,
             DeactivateBegin, BeginLiveChecked, Snapshot, LockRow
  <1>6. ASSUME InsertLoginSession(t)
        PROVE  Others
    BY <1>6, InsertLoginTx
  <1> QED
    BY <1>1, <1>2, <1>3, <1>4, <1>5, <1>6 DEF Progress

LEMMA UntouchedOK ==
    ASSUME TypeOK, RequestsOK, RowsKept, NEW u \in Tx, Untouched(u)
    PROVE  RequestOK(u)'
  <1>1. RequestOK(u)
    BY DEF RequestsOK
  <1> QED
    BY <1>1 DEF RequestOK, OpAt, Untouched, RowsKept

LEMMA IdleOK ==
    ASSUME NEW t \in Tx, tx'[t] = Idle
    PROVE  RequestOK(t)'
  BY DEF RequestOK, Idle

LEMMA RequestsStep ==
    TypeOK /\ RequestsOK /\ [Next]_vars => RequestsOK'
  <1> SUFFICES ASSUME TypeOK, RequestsOK, [Next]_vars
               PROVE  RequestsOK'
    OBVIOUS
  <1>0. RowsKept
    BY RowsAreKept
  <1>1. ASSUME NEW t \in Tx, Begin(t)
        PROVE  RequestOK(t)'
    <2>1. ASSUME NEW s \in Subject, LoginVerified(t, s)
          PROVE  RequestOK(t)'
      BY <2>1, StartTx DEF LoginVerified, RequestOK, OpAt
    <2>2. ASSUME NEW s \in Subject, NEW c \in Client, ExchangeBegin(t, s, c)
          PROVE  RequestOK(t)'
      BY <2>2, StartTx DEF ExchangeBegin, RequestOK, OpAt
    <2>3. ASSUME NEW i \in Rows, NEW c \in Binding, RefreshBegin(t, i, c) \/ RevokeFamilyBegin(t, i, c)
          PROVE  RequestOK(t)'
      BY <2>3, <1>0, StartTx DEF RefreshBegin, RevokeFamilyBegin, RequestOK, OpAt, RowsKept
    <2>4. ASSUME NEW i \in Rows, NEW j \in Rows, RevokeOneBegin(t, i, j)
          PROVE  RequestOK(t)'
      BY <2>4, <1>0, StartTx DEF RevokeOneBegin, RequireLiveSession, RequestOK, OpAt, RowsKept
    <2>5. ASSUME NEW i \in Rows, NEW o \in {"revokeAll", "deactivate"},
                 RequireLiveSession(t, i, o, 0)
          PROVE  RequestOK(t)'
      BY <2>5, StartTx DEF RequireLiveSession, RequestOK, OpAt
    <2> QED
      BY <1>1, <2>1, <2>2, <2>3, <2>4, <2>5 DEF Begin, Binding
  <1>2. ASSUME NEW t \in Tx,
               \/ InsertLoginSession(t) \/ InsertOAuthSession(t) \/ MarkExpired(t) \/ Rotate(t)
               \/ RevokeOne(t) \/ CommitUpdate(t) \/ UpdateViolatesCheck(t)
               \/ Abort(t) \/ DeadlockAbort(t)
        PROVE  RequestOK(t)'
    <2>1. tx'[t] = Idle
      BY <1>2 DEF InsertLoginSession, InsertOAuthSession, MarkExpired, Rotate, RevokeOne,
         CommitUpdate, UpdateViolatesCheck, Abort, DeadlockAbort, Finish
    <2> QED
      BY <2>1, IdleOK
  <1>3. ASSUME NEW t \in Tx,
               \/ ExchangeLock(t) \/ LockSession(t) \/ LockSubject(t) \/ CheckUser(t)
               \/ RevokeFamilyLock(t) \/ RevokeAllBegin(t) \/ DeactivateBegin(t)
               \/ DeactivateLock(t) \/ Snapshot(t) \/ \E i \in Rows : LockRow(t, i)
        PROVE  RequestOK(t)'
    <2>1. tx[t].pc # "idle" /\ tx[t] \in Request /\ RequestOK(t) /\ UNCHANGED sess
      BY <1>3, InFlightIsRequest DEF ExchangeLock, LockSession, LockSubject, CheckUser,
         RevokeFamilyLock, RevokeAllBegin, DeactivateBegin, BeginLiveChecked, DeactivateLock,
         Snapshot, LockRow, At, RequestsOK
    <2>2. ASSUME NEW p \in PC, Goto(t, p), p \notin {"lockSession", "lockUser", "liveChecked"},
                 \/ tx[t].op = "refresh" /\ tx[t].pc # "lockSession" /\
                    p \in {"checkUser", "rotate", "markExpired", "snapshot"}
                 \/ tx[t].op = "exchange" /\ p = "insertSession"
                 \/ tx[t].op = "deactivate" /\ p = "snapshot"
          PROVE  RequestOK(t)'
      <3>1. tx'[t] = [tx[t] EXCEPT !.pc = p]
        BY <2>1, <2>2, GotoTx
      <3>2. /\ tx'[t].pc = p /\ tx'[t].op = tx[t].op /\ tx'[t].held = tx[t].held
            /\ tx'[t].todo = tx[t].todo /\ tx'[t].row = tx[t].row
            /\ tx'[t].subject = tx[t].subject
        BY <2>1, <3>1 DEF Request
      <3> QED
        BY <2>1, <2>2, <3>2 DEF RequestOK, OpAt, Rows
    <2>3. CASE ExchangeLock(t) \/ LockSubject(t) \/ CheckUser(t) \/ DeactivateLock(t)
      BY <2>2, <2>3, FinishTx, IdleOK
         DEF ExchangeLock, LockSubject, CheckUser, DeactivateLock, At, PC
    <2>4. CASE LockSession(t)
      <3>1. tx'[t] = [tx[t] EXCEPT !.pc = "lockSubject", !.held = {tx[t].row}]
        BY <2>4, UpdateTx DEF LockSession
      <3> QED
        BY <2>1, <2>4, <3>1 DEF LockSession, At, RequestOK, OpAt, Request, Rows
    <2>5. CASE RevokeFamilyLock(t)
      <3>1. CASE Finish(t, {})
        BY <3>1, FinishTx, IdleOK
      <3>2. CASE ~Finish(t, {})
        <4>1. tx'[t] = [tx[t] EXCEPT !.pc = "snapshot", !.held = {tx[t].row}]
          BY <2>5, <3>2, UpdateTx DEF RevokeFamilyLock
        <4> QED
          BY <2>1, <2>5, <4>1 DEF RevokeFamilyLock, At, RequestOK, OpAt, Request, Rows
      <3> QED
        BY <3>1, <3>2
    <2>6. CASE RevokeAllBegin(t) \/ DeactivateBegin(t)
      <3>1. PICK p \in {"snapshot", "lockUser"} :
              /\ tx'[t] = [tx[t] EXCEPT !.pc = p, !.elders = {u \in Tx : Begun(u)}]
              /\ tx[t].pc = "liveChecked"
              /\ \/ tx[t].op = "revokeAll" /\ p = "snapshot"
                 \/ tx[t].op = "deactivate" /\ p = "lockUser"
        BY <2>6, UpdateTx DEF RevokeAllBegin, DeactivateBegin, BeginLiveChecked, At
      <3> QED
        BY <2>1, <3>1 DEF RequestOK, OpAt, Request, Rows
    <2>7. CASE Snapshot(t)
      <3>1. tx'[t] = [tx[t] EXCEPT !.pc = "update",
                                  !.todo = {i \in Rows : Matches(t, i)} \ tx[t].held]
        BY <2>7, UpdateTx DEF Snapshot
      <3> QED
        BY <2>1, <2>7, <3>1 DEF Snapshot, RequestOK, OpAt, Request, Rows
    <2>8. CASE \E i \in Rows : LockRow(t, i)
      <3>1. PICK i \in Rows : LockRow(t, i)
        BY <2>8
      <3>2. tx'[t] = [tx[t] EXCEPT !.held = tx[t].held \cup {i}, !.todo = tx[t].todo \ {i}]
        BY <3>1, UpdateTx DEF LockRow
      <3> QED
        BY <2>1, <3>1, <3>2 DEF LockRow, RequestOK, OpAt, Request, Rows
    <2> QED
      BY <1>3, <2>3, <2>4, <2>5, <2>6, <2>7, <2>8
  <1>4. ASSUME NEW t \in Tx, Begin(t) \/ Progress(t) \/ Abort(t) \/ DeadlockAbort(t)
        PROVE  RequestsOK'
    <2>1. RequestOK(t)'
      BY <1>4, <1>1, <1>2, <1>3 DEF Progress
    <2>2. \A u \in Tx \ {t} : RequestOK(u)'
      BY <1>0, <1>4, OthersUntouched, UntouchedOK
    <2> QED
      BY <2>1, <2>2 DEF RequestsOK
  <1>5. ASSUME UNCHANGED tx
        PROVE  RequestsOK'
    <2>1. \A u \in Tx : Untouched(u)
      BY <1>5 DEF Untouched
    <2> QED
      BY <1>0, <2>1, UntouchedOK DEF RequestsOK
  <1> QED
    BY <1>4, <1>5 DEF Next, Expire, vars

LEMMA InitOK ==
    Init => TypeOK /\ RequestsOK
  <1> SUFFICES ASSUME Init
               PROVE  TypeOK /\ RequestsOK
    OBVIOUS
  <1>1. sess \in Seq(Session)
    BY EmptySeq DEF Init
  <1> QED
    BY <1>1 DEF Init, TypeOK, RequestsOK, RequestOK, Idle

(* Every reachable state is well typed: no request acts on a row that does *)
(* not exist, and no column gets a value outside its domain.               *)
THEOREM Typing ==
    Spec => [](TypeOK /\ RequestsOK)
  BY InitOK, TypeStep, RequestsStep, PTL DEF Spec

-----------------------------------------------------------------------------
(* The rows: families and rotation chains. *)

\* A family is named by its first row, and has one owner.
FamiliesOwned ==
    /\ \A i \in Rows : sess[i].family \in Rows
    /\ \A i, j \in Rows : sess[i].family = sess[j].family => sess[i].subject = sess[j].subject

RowsInv == FamiliesOwned /\ OneUnrevokedPerFamily /\ RotationChain

LEMMA NewRow ==
    ASSUME NEW s, NEW f, NEW c
    PROVE  /\ NewSession(s, f, c).subject = s /\ NewSession(s, f, c).family = f
           /\ NewSession(s, f, c).client = c /\ NewSession(s, f, c).reason = "none"
           /\ NewSession(s, f, c).replacedBy = 0
  BY DEF NewSession

LEMMA RowsInvStep ==
    TypeOK /\ RequestsOK /\ RowsInv /\ [Next]_vars => RowsInv'
  <1> SUFFICES ASSUME TypeOK, RequestsOK, RowsInv, [Next]_vars
               PROVE  RowsInv'
    OBVIOUS
  <1> DEFINE new == Len(sess) + 1
  <1>0. /\ new \notin Rows /\ new # 0 /\ new \in Nat
        /\ \A j \in Rows : j \in Nat /\ j < new /\ j # 0
    BY RowsAre
  <1>00. FamiliesOwned /\ OneUnrevokedPerFamily /\ RotationChain
    BY DEF RowsInv
  <1>1. CASE UNCHANGED sess
    BY <1>1 DEF RowsInv, FamiliesOwned, OneUnrevokedPerFamily, RotationChain, LinkIsSound,
                Rows, Unrevoked
  <1>2. ASSUME NEW s \in Subject, NEW c \in Binding, sess' = Append(sess, NewSession(s, new, c))
        PROVE  RowsInv'
    <2>1. /\ Rows' = Rows \cup {new}
          /\ \A j \in Rows : sess'[j] = sess[j]
          /\ sess'[new] = NewSession(s, new, c)
      BY <1>2, AppendRows
    <2> HIDE DEF new
    <2>2. /\ sess'[new].subject = s /\ sess'[new].family = new /\ sess'[new].client = c
          /\ sess'[new].reason = "none" /\ sess'[new].replacedBy = 0
      BY <2>1, NewRow
    <2>3. FamiliesOwned'
      BY <1>0, <1>00, <2>1, <2>2 DEF FamiliesOwned
    <2>4. OneUnrevokedPerFamily'
      BY <1>0, <1>00, <2>1, <2>2 DEF FamiliesOwned, OneUnrevokedPerFamily, Unrevoked
    <2>5. RotationChain'
      BY <1>0, <1>00, <2>1, <2>2 DEF RotationChain, LinkIsSound
    <2> QED
      BY <2>3, <2>4, <2>5 DEF RowsInv
  <1>3. ASSUME NEW t \in Tx, Rotate(t)
        PROVE  RowsInv'
    <2>1. PICK i \in Rows :
            /\ sess[i].reason = "none"
            /\ Rows' = Rows \cup {new}
            /\ \A j \in Rows \ {i} : sess'[j] = sess[j]
            /\ sess'[i] = [sess[i] EXCEPT !.reason = "rotated", !.replacedBy = new]
            /\ sess'[new] = NewSession(sess[i].subject, sess[i].family, sess[i].client)
      BY <1>3, RotateRows DEF Unrevoked
    <2> HIDE DEF new
    <2>2. /\ sess'[i].subject = sess[i].subject /\ sess'[i].family = sess[i].family
          /\ sess'[i].client = sess[i].client
          /\ sess'[i].reason = "rotated" /\ sess'[i].replacedBy = new
      BY <2>1, RowType, RotatedFields
    <2>3. /\ sess'[new].subject = sess[i].subject /\ sess'[new].family = sess[i].family
          /\ sess'[new].client = sess[i].client
          /\ sess'[new].reason = "none" /\ sess'[new].replacedBy = 0
      BY <2>1, NewRow
    <2>4. /\ i \in Rows /\ sess[i].reason = "none" /\ Rows' = Rows \cup {new}
          /\ \A j \in Rows : /\ sess'[j].subject = sess[j].subject
                             /\ sess'[j].family = sess[j].family
                             /\ sess'[j].client = sess[j].client
          /\ \A j \in Rows : j # i => /\ sess'[j].reason = sess[j].reason
                                      /\ sess'[j].replacedBy = sess[j].replacedBy
      BY <2>1, <2>2
    <2>5. FamiliesOwned'
      BY <1>0, <1>00, <2>3, <2>4 DEF FamiliesOwned
    <2>6. OneUnrevokedPerFamily'
      BY <1>0, <1>00, <2>2, <2>3, <2>4 DEF OneUnrevokedPerFamily, Unrevoked
    <2>7. RotationChain'
      <3>1. \A j \in Rows' : sess'[j].replacedBy # 0 <=> sess'[j].reason = "rotated"
        BY <1>0, <1>00, <2>2, <2>3, <2>4 DEF RotationChain
      <3>2. ASSUME NEW j \in Rows', sess'[j].replacedBy # 0
            PROVE  LinkIsSound(j)'
        BY <1>0, <1>00, <2>2, <2>3, <2>4, <3>2 DEF RotationChain, LinkIsSound
      <3>3. \A j, k \in Rows' : /\ sess'[j].replacedBy # 0
                               /\ sess'[j].replacedBy = sess'[k].replacedBy
                               => j = k
        BY <1>0, <1>00, <2>2, <2>3, <2>4 DEF RotationChain, LinkIsSound
      <3>4. \A j \in Rows' : sess'[j].family # j => \E k \in Rows' : sess'[k].replacedBy = j
        <4>1. ASSUME NEW j \in Rows, sess[j].family # j
              PROVE  \E k \in Rows' : sess'[k].replacedBy = j
          <5>1. PICK k \in Rows : sess[k].replacedBy = j
            BY <1>00, <4>1 DEF RotationChain
          <5>2. k # i
            BY <1>0, <1>00, <2>4, <5>1 DEF RotationChain
          <5> QED
            BY <2>4, <5>1, <5>2
        <4> QED
          BY <2>2, <2>3, <2>4, <4>1
      <3> QED
        BY <3>1, <3>2, <3>3, <3>4 DEF RotationChain
    <2> QED
      BY <2>5, <2>6, <2>7 DEF RowsInv
  <1>4. ASSUME NEW R \in SUBSET {j \in Rows : Unrevoked(j)},
               NEW why \in Reason \ {"rotated"}, sess' = Revoke(R, why)
        PROVE  RowsInv'
    <2>0. "none" \notin Reason
      BY DEF Reason
    <2>1. Rows' = Rows
      BY <1>4, RevokeRows
    <2>2. ASSUME NEW j \in Rows
          PROVE  /\ sess'[j].subject = sess[j].subject
                 /\ sess'[j].family = sess[j].family
                 /\ sess'[j].client = sess[j].client
                 /\ sess'[j].replacedBy = sess[j].replacedBy
                 /\ \/ sess'[j].reason = sess[j].reason
                    \/ sess[j].reason = "none" /\ sess'[j].reason \notin {"rotated", "none"}
      <3>1. sess[j] \in Session
        BY RowType
      <3>2. \/ sess'[j] = sess[j]
            \/ sess[j].reason = "none" /\ sess'[j] = [sess[j] EXCEPT !.reason = why]
        BY <1>4, RevokeRows DEF Unrevoked
      <3> QED
        BY <2>0, <3>1, <3>2 DEF Session
    <2>3. FamiliesOwned'
      BY <1>00, <2>1, <2>2 DEF FamiliesOwned
    <2>4. OneUnrevokedPerFamily'
      BY <1>00, <2>1, <2>2 DEF OneUnrevokedPerFamily, Unrevoked
    <2>5. RotationChain'
      BY <1>0, <1>00, <2>1, <2>2 DEF RotationChain, LinkIsSound
    <2> QED
      BY <2>3, <2>4, <2>5 DEF RowsInv
  <1>5. ASSUME NEW i \in Rows, Expire(i)
        PROVE  RowsInv'
    <2>1. Rows' = Rows
      BY <1>5, ExpireRows
    <2>2. ASSUME NEW j \in Rows
          PROVE  /\ sess'[j].subject = sess[j].subject
                 /\ sess'[j].family = sess[j].family
                 /\ sess'[j].client = sess[j].client
                 /\ sess'[j].replacedBy = sess[j].replacedBy
                 /\ sess'[j].reason = sess[j].reason
      <3>1. sess[j] \in Session
        BY RowType
      <3>2. sess'[j] = sess[j] \/ sess'[j] = [sess[j] EXCEPT !.expired = TRUE]
        BY <1>5, ExpireRows
      <3> QED
        BY <3>1, <3>2 DEF Session
    <2>3. FamiliesOwned'
      BY <1>00, <2>1, <2>2 DEF FamiliesOwned
    <2>4. OneUnrevokedPerFamily'
      BY <1>00, <2>1, <2>2 DEF OneUnrevokedPerFamily, Unrevoked
    <2>5. RotationChain'
      BY <1>00, <2>1, <2>2 DEF RotationChain, LinkIsSound
    <2> QED
      BY <2>3, <2>4, <2>5 DEF RowsInv
  <1> QED
    BY <1>1, <1>2, <1>3, <1>4, <1>5, SessSteps

LEMMA RowsInvInit ==
    Init => RowsInv
  BY DEF Init, RowsInv, FamiliesOwned, OneUnrevokedPerFamily, RotationChain, Rows

LEMMA RowsInvariant ==
    Spec => []RowsInv
  BY Typing, RowsInvInit, RowsInvStep, PTL DEF Spec

(* No interleaving of refreshes gives a family two unrevoked rows: the     *)
(* partial unique index is never what stops one.                           *)
THEOREM NoSecondUnrevokedRow ==
    Spec => []OneUnrevokedPerFamily
  BY RowsInvariant, PTL DEF RowsInv

(* replaced_by always links the rows of a family into one chain that       *)
(* starts at its login.                                                    *)
THEOREM ChainIsSound ==
    Spec => []RotationChain
  BY RowsInvariant, PTL DEF RowsInv

-----------------------------------------------------------------------------
(* The walk back along replaced_by *)

\* The rows that a step of the recursive query joins to row i.
Predecessors(i) ==
    {j \in Rows : /\ j < i
                  /\ sess[j].replacedBy = i
                  /\ sess[j].family = sess[i].family
                  /\ sess[j].subject = sess[i].subject}

\* What the query computes, as the least set that holds i and the
\* predecessors of its members.
Reached(i) ==
    {k \in Ids : \A P \in SUBSET Ids :
        i \in P /\ (\A a \in P : Predecessors(a) \subseteq P) => k \in P}

LEMMA RowsAreIds ==
    TypeOK => Rows \subseteq Ids
  BY DEF TypeOK, Rows, Ids

LEMMA ReachedIsWalk ==
    ASSUME TypeOK, NEW i \in Ids
    PROVE  Reached(i) = {i} \cup UNION {Reached(j) : j \in Predecessors(i)}
  <1> DEFINE W == {i} \cup UNION {Reached(j) : j \in Predecessors(i)}
  <1>1. \A a : Predecessors(a) \subseteq Ids
    BY RowsAreIds DEF Predecessors
  <1>2. \A a \in Ids : a \in Reached(a)
    BY DEF Reached
  <1>3. \A a, b : a \in Reached(b) => Predecessors(a) \subseteq Reached(b)
    <2> SUFFICES ASSUME NEW b, NEW a \in Reached(b), NEW c \in Predecessors(a)
                 PROVE  c \in Reached(b)
      OBVIOUS
    <2>1. c \in Ids
      BY <1>1
    <2>2. ASSUME NEW P \in SUBSET Ids, b \in P, \A d \in P : Predecessors(d) \subseteq P
          PROVE  c \in P
      <3>1. a \in P
        BY <2>2 DEF Reached
      <3> QED
        BY <2>2, <3>1
    <2> QED
      BY <2>1, <2>2 DEF Reached
  <1>4. W \subseteq Reached(i)
    <2>1. ASSUME NEW j \in Predecessors(i), NEW k \in Reached(j)
          PROVE  k \in Reached(i)
      <3>1. k \in Ids
        BY DEF Reached
      <3>2. ASSUME NEW P \in SUBSET Ids, i \in P, \A a \in P : Predecessors(a) \subseteq P
            PROVE  k \in P
        <4>1. j \in P
          BY <3>2
        <4> QED
          BY <3>2, <4>1 DEF Reached
      <3> QED
        BY <3>1, <3>2 DEF Reached
    <2> QED
      BY <1>2, <2>1
  <1>5. W \in SUBSET Ids
    BY DEF Reached
  <1>6. i \in W
    OBVIOUS
  <1>7. \A a \in W : Predecessors(a) \subseteq W
    <2> SUFFICES ASSUME NEW a \in W, NEW c \in Predecessors(a)
                 PROVE  c \in W
      OBVIOUS
    <2>1. CASE a = i
      BY <1>1, <1>2, <2>1
    <2>2. ASSUME NEW j \in Predecessors(i), a \in Reached(j)
          PROVE  c \in W
      BY <1>3, <2>2
    <2> QED
      BY <2>1, <2>2
  <1>8. Reached(i) \subseteq W
    <2> HIDE DEF W
    <2> QED
      BY <1>5, <1>6, <1>7 DEF Reached
  <1> QED
    BY <1>4, <1>8

\* The recursive definition has a solution, and so satisfies its equation.
LEMMA WalkBackIs ==
    ASSUME TypeOK, NEW i \in Ids
    PROVE  WalkBack[i] = {i} \cup UNION {WalkBack[j] : j \in Predecessors(i)}
  <1> DEFINE Walks(f) ==
        [k \in Ids |-> {k} \cup UNION {f[j] : j \in Predecessors(k)}]
             reached == [k \in Ids |-> Reached(k)]
  <1>1. reached = Walks(reached)
    <2> SUFFICES ASSUME NEW k \in Ids
                 PROVE  Reached(k) = {k} \cup UNION {reached[j] : j \in Predecessors(k)}
      OBVIOUS
    <2>1. Predecessors(k) \subseteq Ids
      BY RowsAreIds DEF Predecessors
    <2>2. \A j \in Predecessors(k) : reached[j] = Reached(j)
      BY <2>1
    <2>3. {reached[j] : j \in Predecessors(k)} = {Reached(j) : j \in Predecessors(k)}
      BY <2>2
    <2> QED
      BY <2>3, ReachedIsWalk
  <1>2. WalkBack = CHOOSE f : f = Walks(f)
    BY DEF WalkBack, Predecessors
  <1>3. WalkBack = Walks(WalkBack)
    <2> HIDE DEF Walks, reached
    <2> QED
      BY <1>1, <1>2
  <1> QED
    BY <1>3

\* The least row of a set of rows.
LEMMA LeastRow ==
    ASSUME TypeOK, NEW S \in SUBSET Rows, S # {}
    PROVE  \E i \in S : \A j \in S : ~(j < i)
  <1> DEFINE R == OpToRel(<, Nat)
  <1>1. R = {ss \in Nat \X Nat : ss[1] < ss[2]}
    BY Zenon DEF OpToRel
  <1>2. IsWellFoundedOn(R, Nat)
    BY NatLessThanWellFounded, Zenon
  <1> HIDE DEF R
  <1>3. S \subseteq Nat
    BY RowsAreIds DEF Ids
  <1>4. PICK i \in S : \A j \in S : <<j, i>> \notin R
    BY <1>2, <1>3, WFMin
  <1>5. \A j \in S : j < i => <<j, i>> \in R
    BY <1>1, <1>3
  <1> QED
    BY <1>4, <1>5

\* What the walk back from a row finds.
WalkEndsAtLogin(i) ==
    /\ sess[i].family <= i
    /\ sess[i].family \in WalkBack[i]
    /\ \A k \in WalkBack[i] : sess[i].family <= k

LEMMA WalkStep ==
    ASSUME TypeOK, RowsInv, NEW i \in Rows,
           \A j \in Rows : j < i => WalkEndsAtLogin(j)
    PROVE  WalkEndsAtLogin(i)
  <1>1. i \in Ids /\ sess[i].family \in Ids
    BY RowsAreIds DEF RowsInv, FamiliesOwned
  <1>2. WalkBack[i] = {i} \cup UNION {WalkBack[j] : j \in Predecessors(i)}
    BY <1>1, WalkBackIs
  <1>3. \A j \in Predecessors(i) : /\ WalkEndsAtLogin(j)
                                   /\ j \in Rows /\ j < i
                                   /\ sess[j].family = sess[i].family
    BY DEF Predecessors
  <1>4. sess[i].family # i => \E j \in Predecessors(i) : TRUE
    <2> SUFFICES ASSUME sess[i].family # i PROVE \E j \in Predecessors(i) : TRUE
      OBVIOUS
    <2>1. PICK j \in Rows : sess[j].replacedBy = i
      BY DEF RowsInv, RotationChain
    <2>2. i # 0
      BY <1>1 DEF Ids
    <2>3. LinkIsSound(j)
      BY <2>1, <2>2 DEF RowsInv, RotationChain
    <2> QED
      BY <2>1, <2>3 DEF LinkIsSound, Predecessors
  <1>5. sess[i].family <= i
    <2>1. CASE sess[i].family = i
      BY <1>1, <2>1 DEF Ids
    <2>2. CASE sess[i].family # i
      <3>1. PICK j \in Predecessors(i) : TRUE
        BY <1>4, <2>2
      <3>2. j \in Ids /\ j < i /\ sess[i].family <= j
        BY <1>3, RowsAreIds DEF WalkEndsAtLogin
      <3> QED
        BY <1>1, <3>2 DEF Ids
    <2> QED
      BY <2>1, <2>2
  <1>6. sess[i].family \in WalkBack[i]
    <2>1. CASE sess[i].family = i
      BY <1>2, <2>1
    <2>2. CASE sess[i].family # i
      <3>1. PICK j \in Predecessors(i) : TRUE
        BY <1>4, <2>2
      <3>2. sess[i].family \in WalkBack[j]
        BY <1>3 DEF WalkEndsAtLogin
      <3> QED
        BY <1>2, <3>2
    <2> QED
      BY <2>1, <2>2
  <1>7. ASSUME NEW k \in WalkBack[i] PROVE sess[i].family <= k
    <2>1. CASE k = i
      BY <1>5, <2>1
    <2>2. ASSUME NEW j \in Predecessors(i), k \in WalkBack[j] PROVE sess[i].family <= k
      BY <1>3, <2>2 DEF WalkEndsAtLogin
    <2> QED
      BY <1>2, <2>1, <2>2
  <1> QED
    BY <1>5, <1>6, <1>7 DEF WalkEndsAtLogin

LEMMA WalkBackEnds ==
    TypeOK /\ RowsInv => AuthTimeIsLogin
  <1> SUFFICES ASSUME TypeOK, RowsInv PROVE AuthTimeIsLogin
    OBVIOUS
  <1> DEFINE S == {i \in Rows : ~WalkEndsAtLogin(i)}
  <1>1. CASE S = {}
    BY <1>1 DEF AuthTimeIsLogin, WalkEndsAtLogin
  <1>2. CASE S # {}
    <2>1. PICK i \in S : \A j \in S : ~(j < i)
      <3> HIDE DEF S
      <3>1. S \in SUBSET Rows
        BY DEF S
      <3> QED
        BY <1>2, <3>1, LeastRow
    <2>2. \A j \in Rows : j < i => WalkEndsAtLogin(j)
      BY <2>1
    <2> QED
      BY <2>1, <2>2, WalkStep
  <1> QED
    BY <1>1, <1>2

(* The authentication time that rotation hands on is that of the login:    *)
(* the walk back from any row reaches the row that opened its family, and  *)
(* no older one, however long the chain.                                   *)
THEOREM WalkFindsLogin ==
    Spec => []AuthTimeIsLogin
  BY WalkBackEnds, Typing, RowsInvariant, PTL

-----------------------------------------------------------------------------
(* Revocation is final *)

LEMMA RowIsFinalStep ==
    ASSUME TypeOK, RequestsOK, [Next]_vars, NEW i \in Rows
    PROVE  RowIsFinal(i)
  <1> SUFFICES ASSUME ~Unrevoked(i)
               PROVE  /\ i \in Rows'
                      /\ sess'[i].reason = sess[i].reason
                      /\ sess'[i].replacedBy = sess[i].replacedBy
    BY DEF RowIsFinal, Rows
  <1>0. sess[i] \in Session
    BY RowType
  <1>1. CASE UNCHANGED sess
    BY <1>1 DEF Rows
  <1>2. ASSUME NEW s \in Subject, NEW c \in Binding,
               sess' = Append(sess, NewSession(s, Len(sess) + 1, c))
        PROVE  i \in Rows' /\ sess'[i] = sess[i]
    BY <1>2, AppendRows
  <1>3. ASSUME NEW t \in Tx, Rotate(t)
        PROVE  i \in Rows' /\ sess'[i] = sess[i]
    BY <1>3, RotateRows
  <1>4. ASSUME NEW R \in SUBSET {j \in Rows : Unrevoked(j)},
               NEW why \in Reason \ {"rotated"}, sess' = Revoke(R, why)
        PROVE  i \in Rows' /\ sess'[i] = sess[i]
    BY <1>4, RevokeRows
  <1>5. ASSUME NEW j \in Rows, Expire(j)
        PROVE  i \in Rows' /\ (\/ sess'[i] = sess[i]
                               \/ sess'[i] = [sess[i] EXCEPT !.expired = TRUE])
    BY <1>5, ExpireRows
  <1> QED
    BY <1>0, <1>1, <1>2, <1>3, <1>4, <1>5, SessSteps DEF Session

(* A revoked row stays revoked, for its first reason and with its first    *)
(* successor: no race of revocations overwrites or undoes one.             *)
THEOREM RevokedForGood ==
    Spec => RevocationIsFinal
  <1>1. TypeOK /\ RequestsOK /\ [Next]_vars => [\A i \in Rows : RowIsFinal(i)]_vars
    BY RowIsFinalStep
  <1> QED
    BY <1>1, Typing, PTL DEF Spec, RevocationIsFinal

-----------------------------------------------------------------------------
(* The row locks, and what a refresh has read under them. *)

LocksExclusive ==
    \A t, u \in Tx : t # u => tx[t].held \cap tx[u].held = {}

LocksInv == LocksExclusive /\ BranchStaysCurrent

\* A step of t locks only a row that no other request holds.
LEMMA HeldSteps ==
    ASSUME TypeOK, RequestsOK, NEW t \in Tx,
           Begin(t) \/ Progress(t) \/ Abort(t) \/ DeadlockAbort(t)
    PROVE  \/ tx'[t].held \subseteq tx[t].held
           \/ \E i \in Rows : RowFree(t, i) /\ tx'[t].held \subseteq tx[t].held \cup {i}
  <1>1. ASSUME Begin(t)
        PROVE  tx'[t].held = {}
    BY <1>1, StartTx DEF Begin, LoginVerified, ExchangeBegin, RefreshBegin, RevokeFamilyBegin,
                         RevokeOneBegin, RequireLiveSession
  <1>2. ASSUME \/ InsertLoginSession(t) \/ InsertOAuthSession(t) \/ MarkExpired(t) \/ Rotate(t)
               \/ RevokeOne(t) \/ CommitUpdate(t) \/ UpdateViolatesCheck(t)
               \/ Abort(t) \/ DeadlockAbort(t)
        PROVE  tx'[t].held = {}
    <2>1. InsertLoginSession(t) \/ \E rows : Finish(t, rows)
      BY <1>2 DEF InsertOAuthSession, MarkExpired, Rotate, RevokeOne,
         CommitUpdate, UpdateViolatesCheck, Abort, DeadlockAbort
    <2>2. tx'[t] = Idle
      BY <2>1, FinishTx, InsertLoginTx
    <2> QED
      BY <2>2 DEF Idle
  <1>3. ASSUME ExchangeLock(t) \/ LockSubject(t) \/ CheckUser(t) \/ DeactivateLock(t)
        PROVE  tx'[t].held \subseteq tx[t].held
    <2>1. tx[t].pc # "idle"
      BY <1>3 DEF ExchangeLock, LockSubject, CheckUser, DeactivateLock, At
    <2>2. Finish(t, {}) \/ \E p \in PC : Goto(t, p)
      BY <1>3 DEF ExchangeLock, LockSubject, CheckUser, DeactivateLock, PC
    <2>3. CASE Finish(t, {})
      BY <2>3, FinishTx DEF Idle
    <2>4. ASSUME NEW p \in PC, Goto(t, p)
          PROVE  tx'[t].held = tx[t].held
      BY <2>1, <2>4, GotoTx DEF Request
    <2> QED
      BY <2>2, <2>3, <2>4
  <1>4. ASSUME RevokeAllBegin(t) \/ DeactivateBegin(t) \/ Snapshot(t)
        PROVE  tx'[t].held = tx[t].held
    <2>1. tx[t] \in Request
      BY <1>4, InFlightIsRequest DEF RevokeAllBegin, DeactivateBegin, BeginLiveChecked, At, Snapshot
    <2>2. CASE RevokeAllBegin(t) \/ DeactivateBegin(t)
      <3>1. \E p : tx'[t] = [tx[t] EXCEPT !.pc = p, !.elders = {u \in Tx : Begun(u)}]
        BY <2>2, UpdateTx DEF RevokeAllBegin, DeactivateBegin, BeginLiveChecked
      <3> QED
        BY <2>1, <3>1 DEF Request
    <2>3. CASE Snapshot(t)
      <3>1. tx'[t] = [tx[t] EXCEPT !.pc = "update",
                                  !.todo = {i \in Rows : Matches(t, i)} \ tx[t].held]
        BY <2>3, UpdateTx DEF Snapshot
      <3> QED
        BY <2>1, <3>1 DEF Request
    <2> QED
      BY <1>4, <2>2, <2>3
  <1>5. ASSUME LockSession(t) \/ RevokeFamilyLock(t)
        PROVE  \/ tx'[t].held = {}
               \/ \E i \in Rows : RowFree(t, i) /\ tx'[t].held \subseteq tx[t].held \cup {i}
    <2>1. tx[t] \in Request /\ tx[t].row \in Rows
      BY <1>5, InFlightIsRequest DEF LockSession, RevokeFamilyLock, At, RequestsOK, RequestOK
    <2>2. CASE Finish(t, {})
      BY <2>2, FinishTx DEF Idle
    <2>3. CASE ~Finish(t, {})
      <3>1. RowFree(t, tx[t].row)
        BY <1>5 DEF LockSession, RevokeFamilyLock
      <3>2. \E p : tx'[t] = [tx[t] EXCEPT !.pc = p, !.held = {tx[t].row}]
        BY <1>5, <2>3, UpdateTx DEF LockSession, RevokeFamilyLock
      <3>3. tx'[t].held = {tx[t].row}
        BY <2>1, <3>2 DEF Request
      <3> QED
        BY <2>1, <3>1, <3>3
    <2> QED
      BY <2>2, <2>3
  <1>6. ASSUME NEW i \in Rows, LockRow(t, i)
        PROVE  RowFree(t, i) /\ tx'[t].held \subseteq tx[t].held \cup {i}
    <2>1. tx[t] \in Request
      BY <1>6, InFlightIsRequest DEF LockRow
    <2>2. tx'[t] = [tx[t] EXCEPT !.held = tx[t].held \cup {i}, !.todo = tx[t].todo \ {i}]
      BY <1>6, UpdateTx DEF LockRow
    <2> QED
      BY <1>6, <2>1, <2>2 DEF LockRow, Request
  <1> QED
    BY <1>1, <1>2, <1>3, <1>4, <1>5, <1>6 DEF Progress

LEMMA LocksExclusiveStep ==
    TypeOK /\ RequestsOK /\ LocksExclusive /\ [Next]_vars => LocksExclusive'
  <1> SUFFICES ASSUME TypeOK, RequestsOK, LocksExclusive, [Next]_vars
               PROVE  LocksExclusive'
    OBVIOUS
  <1>1. ASSUME NEW t \in Tx, Begin(t) \/ Progress(t) \/ Abort(t) \/ DeadlockAbort(t)
        PROVE  LocksExclusive'
    <2>1. ASSUME NEW u \in Tx \ {t}
          PROVE  tx'[t].held \cap tx'[u].held = {}
      <3>1. tx'[u].held = tx[u].held
        BY <1>1, OthersUntouched DEF Untouched
      <3>2. tx[t].held \cap tx[u].held = {}
        BY DEF LocksExclusive
      <3> QED
        BY <1>1, <3>1, <3>2, HeldSteps DEF RowFree
    <2>2. ASSUME NEW u \in Tx \ {t}, NEW w \in Tx \ {t}, u # w
          PROVE  tx'[u].held \cap tx'[w].held = {}
      BY <1>1, <2>2, OthersUntouched DEF Untouched, LocksExclusive
    <2> QED
      BY <2>1, <2>2 DEF LocksExclusive
  <1>2. CASE UNCHANGED tx
    BY <1>2 DEF LocksExclusive
  <1> QED
    BY <1>1, <1>2 DEF Next, Expire, vars

\* A step of t revokes only rows that t has locked, or that nobody has.
LEMMA RevokesLocked ==
    ASSUME TypeOK, RequestsOK, NEW t \in Tx, NEW i \in Rows,
           Begin(t) \/ Progress(t) \/ Abort(t) \/ DeadlockAbort(t),
           Unrevoked(i), sess'[i].reason # "none"
    PROVE  i \in tx[t].held \/ RowFree(t, i)
  <1>0. sess' # sess
    BY DEF Unrevoked
  <1>1. \/ InsertLoginSession(t) \/ InsertOAuthSession(t) \/ MarkExpired(t) \/ Rotate(t)
        \/ RevokeOne(t) \/ CommitUpdate(t)
    BY <1>0 DEF Begin, Progress, Abort, DeadlockAbort, LoginVerified, ExchangeBegin, RefreshBegin,
       RevokeFamilyBegin, RevokeOneBegin, RequireLiveSession, ExchangeLock, LockSession,
       LockSubject, CheckUser, RevokeFamilyLock, RevokeAllBegin, DeactivateBegin,
       BeginLiveChecked, DeactivateLock, Snapshot, LockRow, UpdateViolatesCheck
  <1>2. ASSUME NEW s \in Subject, NEW c \in Binding,
               sess' = Append(sess, NewSession(s, Len(sess) + 1, c))
        PROVE  FALSE
    BY <1>2, AppendRows DEF Unrevoked
  <1>3. CASE InsertLoginSession(t) \/ InsertOAuthSession(t)
    <2>1. tx[t] \in Request
      BY <1>3, InFlightIsRequest DEF InsertLoginSession, InsertOAuthSession, At
    <2>2. tx[t].subject \in Subject /\ tx[t].client \in Binding /\ Browser \in Binding
      BY <2>1 DEF Request, Binding
    <2> QED
      BY <1>2, <1>3, <2>2 DEF InsertLoginSession, InsertOAuthSession
  <1>4. CASE Rotate(t)
    <2>1. i = tx[t].row
      BY <1>4, RotateRows DEF Unrevoked
    <2> QED
      BY <1>4, <2>1 DEF Rotate, At, RequestsOK, RequestOK
  <1>5. ASSUME NEW R, NEW why, sess' = Revoke(R, why)
        PROVE  i \in R
    BY <1>5 DEF Revoke, Unrevoked, Rows
  <1>6. CASE MarkExpired(t) \/ RevokeOne(t)
    <2>1. i = tx[t].row
      BY <1>5, <1>6 DEF MarkExpired, RevokeOne
    <2> QED
      BY <1>6, <2>1 DEF MarkExpired, RevokeOne, At, RequestsOK, RequestOK
  <1>7. CASE CommitUpdate(t)
    BY <1>5, <1>7 DEF CommitUpdate, Revoked
  <1> QED
    BY <1>1, <1>3, <1>4, <1>6, <1>7

BranchOK(t) ==
    tx[t] # Idle /\ tx[t].op = "refresh" =>
        /\ tx[t].pc \in {"checkUser", "rotate", "markExpired"} => Unrevoked(tx[t].row)
        /\ tx[t].pc \in {"snapshot", "update"} => ~Unrevoked(tx[t].row)

LEMMA BranchStep ==
    TypeOK /\ RequestsOK /\ LocksInv /\ [Next]_vars => BranchStaysCurrent'
  <1> SUFFICES ASSUME TypeOK, RequestsOK, LocksInv, [Next]_vars
               PROVE  BranchStaysCurrent'
    OBVIOUS
  <1>0. \A t \in Tx : BranchOK(t)
    BY DEF LocksInv, BranchStaysCurrent, BranchOK
  <1>1. ASSUME NEW u \in Tx, Untouched(u), sess' = sess
        PROVE  BranchOK(u)'
    BY <1>0, <1>1 DEF BranchOK, Untouched, Unrevoked, Idle
  <1>2. ASSUME NEW t \in Tx, Begin(t) \/ Progress(t) \/ Abort(t) \/ DeadlockAbort(t),
               NEW u \in Tx \ {t}
        PROVE  BranchOK(u)'
    <2> SUFFICES ASSUME tx[u].pc # "idle", tx[u].op = "refresh",
                        tx[u].pc \notin {"lockSession", "lockSubject"}
                 PROVE  BranchOK(u)'
      BY <1>2, OthersUntouched, InFlightIsRequest DEF BranchOK, Untouched, RequestsOK, RequestOK, OpAt, TypeOK, Request, Idle
    <2> DEFINE i == tx[u].row
    <2>1. i \in Rows /\ i \in tx[u].held
      BY DEF RequestsOK, RequestOK
    <2>2. /\ tx'[u].pc = tx[u].pc /\ tx'[u].op = "refresh" /\ tx'[u].row = i
          /\ tx[u] # Idle
      BY <1>2, OthersUntouched DEF Untouched, Idle
    <2>3. i \notin tx[t].held /\ ~RowFree(t, i)
      BY <2>1 DEF LocksInv, LocksExclusive, RowFree
    <2>4. Unrevoked(i) <=> sess'[i].reason = "none"
      <3>1. CASE Unrevoked(i)
        BY <1>2, <2>1, <2>3, <3>1, RevokesLocked
      <3>2. CASE ~Unrevoked(i)
        BY <2>1, <3>2, RowIsFinalStep DEF RowIsFinal, Unrevoked
      <3> QED
        BY <3>1, <3>2
    <2> QED
      BY <1>0, <2>2, <2>4 DEF BranchOK, Unrevoked
  <1>3. ASSUME NEW t \in Tx, Begin(t) \/ Progress(t) \/ Abort(t) \/ DeadlockAbort(t)
        PROVE  BranchOK(t)'
    <2>1. CASE tx'[t] = Idle
      BY <2>1 DEF BranchOK
    <2>2. CASE Begin(t)
      <3>1. tx'[t].pc \in {"insertSession", "lockUser", "lockSession", "liveChecked"}
        BY <2>2, StartTx DEF Begin, LoginVerified, ExchangeBegin, RefreshBegin, RevokeFamilyBegin,
                         RevokeOneBegin, RequireLiveSession
      <3> QED
        BY <3>1 DEF BranchOK
    <2>3. ASSUME NEW p, Goto(t, p), tx[t].pc # "idle"
          PROVE  tx'[t].pc = p /\ tx'[t].op = tx[t].op /\ tx'[t].row = tx[t].row
      <3>1. tx'[t] = [tx[t] EXCEPT !.pc = p] /\ tx[t] \in Request
        BY <2>3, GotoTx
      <3> QED
        BY <3>1 DEF Request
    <2>4. CASE LockSubject(t)
      BY <2>1, <2>3, <2>4, FinishTx DEF LockSubject, At, BranchOK, Unrevoked
    <2>5. CASE CheckUser(t)
      <3>1. tx[t] # Idle /\ BranchOK(t)
        BY <1>0, <2>5 DEF CheckUser, At, Idle
      <3> QED
        BY <2>1, <2>3, <2>5, <3>1, FinishTx DEF CheckUser, At, BranchOK, Unrevoked
    <2>6. CASE ExchangeLock(t) \/ DeactivateLock(t)
      BY <2>1, <2>3, <2>6, FinishTx DEF ExchangeLock, DeactivateLock, At, BranchOK
    <2>7. CASE Snapshot(t) \/ \E i \in Rows : LockRow(t, i)
      <3>1. tx[t].pc \in {"snapshot", "update"} /\ sess' = sess
        BY <2>7 DEF Snapshot, LockRow
      <3>2. tx[t] \in Request /\ tx[t] # Idle
        BY <3>1, InFlightIsRequest DEF Idle
      <3>3. ASSUME Snapshot(t)
            PROVE  tx'[t].pc = "update" /\ tx'[t].op = tx[t].op /\ tx'[t].row = tx[t].row
        <4>1. tx'[t] = [tx[t] EXCEPT !.pc = "update",
                                    !.todo = {i \in Rows : Matches(t, i)} \ tx[t].held]
          BY <3>3, UpdateTx DEF Snapshot
        <4> QED
          BY <3>2, <4>1 DEF Request
      <3>4. ASSUME NEW i \in Rows, LockRow(t, i)
            PROVE  tx'[t].pc = "update" /\ tx'[t].op = tx[t].op /\ tx'[t].row = tx[t].row
        <4>1. tx'[t] = [tx[t] EXCEPT !.held = tx[t].held \cup {i}, !.todo = tx[t].todo \ {i}]
          BY <3>4, UpdateTx DEF LockRow
        <4>2. tx[t].pc = "update"
          BY <3>4 DEF LockRow
        <4> QED
          BY <3>2, <4>1, <4>2 DEF Request
      <3>5. tx'[t].pc = "update" /\ tx'[t].op = tx[t].op /\ tx'[t].row = tx[t].row
        BY <2>7, <3>3, <3>4
      <3> QED
        BY <1>0, <3>1, <3>2, <3>5 DEF BranchOK, Unrevoked
    <2>8. CASE LockSession(t) \/ RevokeFamilyLock(t) \/ RevokeAllBegin(t) \/ DeactivateBegin(t)
      <3>1. tx[t] \in Request
        BY <2>8, InFlightIsRequest DEF LockSession, RevokeFamilyLock, RevokeAllBegin,
           DeactivateBegin, BeginLiveChecked, At
      <3>2. CASE LockSession(t)
        <4>1. tx'[t] = [tx[t] EXCEPT !.pc = "lockSubject", !.held = {tx[t].row}]
          BY <3>2, UpdateTx DEF LockSession
        <4> QED
          BY <3>1, <4>1 DEF BranchOK, Request
      <3>3. CASE RevokeFamilyLock(t) /\ tx'[t] # Idle
        <4>1. /\ tx[t].op = "revokeFamily"
              /\ tx'[t] = [tx[t] EXCEPT !.pc = "snapshot", !.held = {tx[t].row}]
          BY <3>3, UpdateTx, FinishTx DEF RevokeFamilyLock, At
        <4> QED
          BY <3>1, <4>1 DEF BranchOK, Request
      <3>4. CASE RevokeAllBegin(t) \/ DeactivateBegin(t)
        <4>1. /\ tx[t].op # "refresh"
              /\ \E p : tx'[t] = [tx[t] EXCEPT !.pc = p, !.elders = {u \in Tx : Begun(u)}]
          BY <3>4, UpdateTx DEF RevokeAllBegin, DeactivateBegin, BeginLiveChecked, At
        <4> QED
          BY <3>1, <4>1 DEF BranchOK, Request
      <3> QED
        BY <2>1, <2>8, <3>2, <3>3, <3>4
    <2>9. ASSUME \/ InsertLoginSession(t) \/ InsertOAuthSession(t) \/ MarkExpired(t) \/ Rotate(t)
                 \/ RevokeOne(t) \/ CommitUpdate(t) \/ UpdateViolatesCheck(t)
                 \/ Abort(t) \/ DeadlockAbort(t)
          PROVE  tx'[t] = Idle
      <3>1. InsertLoginSession(t) \/ \E rows : Finish(t, rows)
        BY <2>9 DEF InsertOAuthSession, MarkExpired, Rotate, RevokeOne,
           CommitUpdate, UpdateViolatesCheck, Abort, DeadlockAbort
      <3> QED
        BY <3>1, FinishTx, InsertLoginTx
    <2> QED
      BY <1>3, <2>1, <2>2, <2>4, <2>5, <2>6, <2>7, <2>8, <2>9 DEF Progress
  <1>4. ASSUME UNCHANGED tx, UNCHANGED sess \/ \E i \in Rows : Expire(i)
        PROVE  BranchStaysCurrent'
    <2>1. ASSUME NEW t \in Tx, tx[t] # Idle, tx[t].op = "refresh",
                 tx[t].pc \notin {"lockSession", "lockSubject"}
          PROVE  Unrevoked(tx[t].row) <=> sess'[tx[t].row].reason = "none"
      <3>1. tx[t].row \in Rows
        BY <2>1 DEF RequestsOK, RequestOK, TypeOK, Request, PC
      <3>2. sess[tx[t].row] \in Session
        BY <3>1, RowType
      <3>3. CASE UNCHANGED sess
        BY <3>3 DEF Unrevoked
      <3>4. ASSUME NEW i \in Rows, Expire(i)
            PROVE  sess'[tx[t].row].reason = sess[tx[t].row].reason
        <4>1. \/ sess'[tx[t].row] = sess[tx[t].row]
              \/ sess'[tx[t].row] = [sess[tx[t].row] EXCEPT !.expired = TRUE]
          BY <3>1, <3>4, ExpireRows
        <4> QED
          BY <3>2, <4>1 DEF Session
      <3> QED
        BY <1>4, <3>3, <3>4 DEF Unrevoked
    <2> QED
      BY <1>0, <1>4, <2>1 DEF BranchStaysCurrent, BranchOK, Unrevoked
  <1> QED
    BY <1>2, <1>3, <1>4 DEF Next, vars, BranchStaysCurrent, BranchOK, Expire

LEMMA LocksInvariant ==
    Spec => []LocksInv
  <1>1. Init => LocksInv
    BY DEF Init, LocksInv, LocksExclusive, BranchStaysCurrent, Idle
  <1>2. TypeOK /\ RequestsOK /\ LocksInv /\ [Next]_vars => LocksInv'
    BY LocksExclusiveStep, BranchStep DEF LocksInv
  <1> QED
    BY <1>1, <1>2, Typing, PTL DEF Spec

(* What a refresh has read of its row under SELECT ... FOR UPDATE is still *)
(* true at the statement that acts on it.                                  *)
THEOREM RefreshIsCurrent ==
    Spec => []BranchStaysCurrent
  BY LocksInvariant, PTL DEF LocksInv

-----------------------------------------------------------------------------
(* Reuse detection.  The refresh holds the subjects row from the moment it *)
(* has read its session, so no rotation of the family commits between the  *)
(* snapshot of its UPDATE and its own commit: the candidates of the UPDATE *)
(* are all the unrevoked rows that the family will have.                   *)

SubjectsExclusive ==
    \A t, u \in Tx : \A s \in Subject :
        t # u => ~(HoldsSubject(t, s) /\ HoldsSubject(u, s))

CandidatesOf(t) ==
    tx[t].pc = "update" /\ tx[t].op = "refresh" =>
        UnrevokedOf(sess[tx[t].row].family) \subseteq tx[t].held \cup tx[t].todo
ReuseCandidates == \A t \in Tx : CandidatesOf(t)

ClosedFamilies == closed["reuse_detected"] \subseteq Rows

ReuseInv ==
    /\ SubjectsExclusive
    /\ ReuseCandidates
    /\ ClosedFamilies
    /\ ReuseEndsFamily

\* A request stays the request it is until it ends.
LEMMA KeepsIdentity ==
    ASSUME TypeOK, NEW t \in Tx, Progress(t), tx'[t] # Idle
    PROVE  /\ tx[t] \in Request /\ tx[t].pc # "idle"
           /\ tx'[t].op = tx[t].op
           /\ tx'[t].subject = tx[t].subject
           /\ tx'[t].row = tx[t].row
  <1> DEFINE Same == /\ tx[t] \in Request /\ tx[t].pc # "idle"
                     /\ tx'[t].op = tx[t].op
                     /\ tx'[t].subject = tx[t].subject
                     /\ tx'[t].row = tx[t].row
  <1>1. ~InsertLoginSession(t) /\ \A rows : ~Finish(t, rows)
    BY FinishTx, InsertLoginTx
  <1>2. ASSUME NEW p, Goto(t, p), tx[t].pc # "idle"
        PROVE  Same
    <2>1. tx'[t] = [tx[t] EXCEPT !.pc = p] /\ tx[t] \in Request
      BY <1>2, GotoTx
    <2> QED
      BY <1>2, <2>1 DEF Request
  <1>3. CASE ExchangeLock(t) \/ LockSubject(t) \/ CheckUser(t) \/ DeactivateLock(t)
    BY <1>1, <1>2, <1>3 DEF ExchangeLock, LockSubject, CheckUser, DeactivateLock, At
  <1>4. CASE LockSession(t) \/ RevokeFamilyLock(t)
    <2>1. tx[t] \in Request /\ tx[t].pc # "idle"
      BY <1>4, InFlightIsRequest DEF LockSession, RevokeFamilyLock, At
    <2>2. \E p : tx'[t] = [tx[t] EXCEPT !.pc = p, !.held = {tx[t].row}]
      BY <1>1, <1>4, UpdateTx DEF LockSession, RevokeFamilyLock
    <2> QED
      BY <2>1, <2>2 DEF Request
  <1>5. CASE RevokeAllBegin(t) \/ DeactivateBegin(t)
    <2>1. tx[t] \in Request /\ tx[t].pc # "idle"
      BY <1>5, InFlightIsRequest DEF RevokeAllBegin, DeactivateBegin, BeginLiveChecked, At
    <2>2. \E p : tx'[t] = [tx[t] EXCEPT !.pc = p, !.elders = {u \in Tx : Begun(u)}]
      BY <1>5, UpdateTx DEF RevokeAllBegin, DeactivateBegin, BeginLiveChecked
    <2> QED
      BY <2>1, <2>2 DEF Request
  <1>6. CASE Snapshot(t)
    <2>1. tx[t] \in Request /\ tx[t].pc # "idle"
      BY <1>6, InFlightIsRequest DEF Snapshot
    <2>2. tx'[t] = [tx[t] EXCEPT !.pc = "update",
                                !.todo = {i \in Rows : Matches(t, i)} \ tx[t].held]
      BY <1>6, UpdateTx DEF Snapshot
    <2> QED
      BY <2>1, <2>2 DEF Request
  <1>7. ASSUME NEW i \in Rows, LockRow(t, i)
        PROVE  Same
    <2>1. tx[t] \in Request /\ tx[t].pc # "idle"
      BY <1>7, InFlightIsRequest DEF LockRow
    <2>2. tx'[t] = [tx[t] EXCEPT !.held = tx[t].held \cup {i}, !.todo = tx[t].todo \ {i}]
      BY <1>7, UpdateTx DEF LockRow
    <2> QED
      BY <2>1, <2>2 DEF Request
  <1> QED
    BY <1>1, <1>3, <1>4, <1>5, <1>6, <1>7
       DEF Progress, InsertOAuthSession, MarkExpired, Rotate, RevokeOne, CommitUpdate,
           UpdateViolatesCheck

\* The subjects row is locked by LockSubject alone, and when it is free.
LEMMA HoldsSteps ==
    ASSUME TypeOK, RequestsOK, NEW t \in Tx, NEW s \in Subject, HoldsSubject(t, s)',
           Begin(t) \/ Progress(t) \/ Abort(t) \/ DeadlockAbort(t)
    PROVE  HoldsSubject(t, s) \/ SubjectFree(t, s)
  <1>1. tx'[t] # Idle
    BY DEF HoldsSubject, Idle
  <1>2. ~Begin(t)
    <2> SUFFICES ASSUME Begin(t)
                 PROVE  FALSE
      OBVIOUS
    <2>1. tx'[t].pc \in {"insertSession", "lockUser", "lockSession", "liveChecked"}
      BY StartTx DEF Begin, LoginVerified, ExchangeBegin, RefreshBegin, RevokeFamilyBegin,
                     RevokeOneBegin, RequireLiveSession
    <2> QED
      BY <2>1 DEF HoldsSubject
  <1>3. Progress(t)
    BY <1>1, <1>2, FinishTx DEF Abort, DeadlockAbort
  <1>4. /\ tx[t] \in Request /\ tx[t].pc # "idle" /\ tx[t].op = "refresh" /\ tx[t].subject = s
    BY <1>1, <1>3, KeepsIdentity DEF HoldsSubject
  <1>5. CASE tx[t].pc \notin {"lockSession", "lockSubject"}
    BY <1>4, <1>5 DEF RequestsOK, RequestOK, OpAt, HoldsSubject
  <1>6. CASE tx[t].pc = "lockSubject"
    <2>1. LockSubject(t)
      BY <1>1, <1>3, <1>4, <1>6, FinishTx, InsertLoginTx
         DEF Progress, ExchangeLock, LockSession, CheckUser, RevokeFamilyLock,
             RevokeAllBegin, DeactivateBegin, BeginLiveChecked, DeactivateLock, Snapshot, LockRow,
             UpdateViolatesCheck, CommitUpdate, UpdateDone, InsertLoginSession,
             InsertOAuthSession, MarkExpired, Rotate, RevokeOne, At
    <2> QED
      BY <1>4, <2>1 DEF LockSubject
  <1>7. CASE tx[t].pc = "lockSession"
    <2>1. LockSession(t)
      BY <1>1, <1>3, <1>4, <1>7, FinishTx, InsertLoginTx
         DEF Progress, ExchangeLock, LockSubject, CheckUser, RevokeFamilyLock,
             RevokeAllBegin, DeactivateBegin, BeginLiveChecked, DeactivateLock, Snapshot, LockRow,
             UpdateViolatesCheck, CommitUpdate, UpdateDone, InsertLoginSession,
             InsertOAuthSession, MarkExpired, Rotate, RevokeOne, At
    <2>2. tx'[t] = [tx[t] EXCEPT !.pc = "lockSubject", !.held = {tx[t].row}]
      BY <2>1, UpdateTx DEF LockSession
    <2> QED
      BY <1>4, <2>2 DEF HoldsSubject, Request
  <1> QED
    BY <1>5, <1>6, <1>7

LEMMA SubjectsExclusiveStep ==
    TypeOK /\ RequestsOK /\ SubjectsExclusive /\ [Next]_vars => SubjectsExclusive'
  <1> SUFFICES ASSUME TypeOK, RequestsOK, SubjectsExclusive, [Next]_vars
               PROVE  SubjectsExclusive'
    OBVIOUS
  <1>1. ASSUME NEW t \in Tx, Begin(t) \/ Progress(t) \/ Abort(t) \/ DeadlockAbort(t)
        PROVE  SubjectsExclusive'
    <2>1. ASSUME NEW u \in Tx \ {t}, NEW s \in Subject, HoldsSubject(u, s)'
          PROVE  HoldsSubject(u, s)
      BY <1>1, <2>1, OthersUntouched DEF Untouched, HoldsSubject
    <2>2. ASSUME NEW s \in Subject, HoldsSubject(t, s)', NEW u \in Tx \ {t}
          PROVE  ~HoldsSubject(u, s)
      BY <1>1, <2>2, HoldsSteps DEF SubjectFree, SubjectsExclusive
    <2> QED
      BY <2>1, <2>2 DEF SubjectsExclusive
  <1>2. CASE UNCHANGED tx
    BY <1>2 DEF SubjectsExclusive, HoldsSubject
  <1> QED
    BY <1>1, <1>2 DEF Next, Expire, vars

\* Only a rotation within a family adds an unrevoked row to it.
LEMMA UnrevokedGrows ==
    ASSUME TypeOK, RequestsOK, FamiliesOwned, [Next]_vars, NEW f \in Rows,
           ~ \E t \in Tx : Rotate(t) /\ sess[tx[t].row].family = f
    PROVE  UnrevokedOf(f)' \subseteq UnrevokedOf(f)
  <1> SUFFICES ASSUME NEW i \in Rows', sess'[i].family = f, sess'[i].reason = "none"
               PROVE  i \in Rows /\ sess[i].family = f /\ sess[i].reason = "none"
    BY DEF UnrevokedOf, Unrevoked
  <1>1. ASSUME i \in Rows
        PROVE  sess[i].family = f /\ sess[i].reason = "none"
    BY <1>1, RowsAreKept, RowIsFinalStep DEF RowsKept, RowIsFinal, Unrevoked
  <1>2. i \in Rows
    <2>1. CASE UNCHANGED sess
      BY <2>1 DEF Rows
    <2>2. ASSUME NEW s \in Subject, NEW c \in Binding,
                 sess' = Append(sess, NewSession(s, Len(sess) + 1, c))
          PROVE  i \in Rows
      <3>1. Rows' = Rows \cup {Len(sess) + 1} /\ sess'[Len(sess) + 1].family = Len(sess) + 1
        BY <2>2, AppendRows, NewRow
      <3> QED
        BY <3>1, RowsAre
    <2>3. ASSUME NEW t \in Tx, Rotate(t)
          PROVE  i \in Rows
      <3>1. /\ Rows' = Rows \cup {Len(sess) + 1}
            /\ sess'[Len(sess) + 1] = NewSession(sess[tx[t].row].subject,
                                                sess[tx[t].row].family,
                                                sess[tx[t].row].client)
        BY <2>3, RotateRows
      <3>2. sess'[Len(sess) + 1].family = sess[tx[t].row].family
        BY <3>1, NewRow
      <3> QED
        BY <2>3, <3>1, <3>2
    <2>4. ASSUME NEW R \in SUBSET {j \in Rows : Unrevoked(j)},
                 NEW why \in Reason \ {"rotated"}, sess' = Revoke(R, why)
          PROVE  i \in Rows
      BY <2>4, RevokeRows
    <2>5. ASSUME NEW j \in Rows, Expire(j)
          PROVE  i \in Rows
      BY <2>5, ExpireRows
    <2> QED
      BY <2>1, <2>2, <2>3, <2>4, <2>5, SessSteps
  <1> QED
    BY <1>1, <1>2

LEMMA CandidatesStep ==
    TypeOK /\ RequestsOK /\ FamiliesOwned /\ ReuseInv /\ [Next]_vars => ReuseCandidates'
  <1> SUFFICES ASSUME TypeOK, RequestsOK, FamiliesOwned, ReuseInv, [Next]_vars,
                      NEW u \in Tx, tx'[u].pc = "update", tx'[u].op = "refresh",
                      NEW i \in Rows', sess'[i].family = sess'[tx'[u].row].family,
                      sess'[i].reason = "none"
               PROVE  i \in tx'[u].held \cup tx'[u].todo
    BY DEF ReuseCandidates, CandidatesOf, UnrevokedOf, Unrevoked
  \* A refresh that is already at its UPDATE, when no rotation of its family commits.
  <1>1. ASSUME tx[u].pc = "update", tx[u].op = "refresh", Untouched(u),
               ~ \E t \in Tx : Rotate(t) /\ sess[tx[t].row].family = sess[tx[u].row].family
        PROVE  i \in tx'[u].held \cup tx'[u].todo
    <2>1. tx[u].row \in Rows
      BY <1>1 DEF RequestsOK, RequestOK
    <2>2. PICK f \in Rows : f = sess[tx[u].row].family
      BY <2>1 DEF FamiliesOwned
    <2>3. tx'[u].row = tx[u].row /\ tx'[u].held = tx[u].held /\ tx'[u].todo = tx[u].todo
      BY <1>1 DEF Untouched
    <2>4. sess'[tx'[u].row].family = f
      BY <2>1, <2>2, <2>3, RowsAreKept DEF RowsKept
    <2>5. UnrevokedOf(f)' \subseteq UnrevokedOf(f)
      BY <1>1, <2>2, UnrevokedGrows
    <2>6. UnrevokedOf(f) \subseteq tx[u].held \cup tx[u].todo
      BY <1>1, <2>2 DEF ReuseInv, ReuseCandidates, CandidatesOf
    <2>7. i \in UnrevokedOf(f)'
      BY <2>4 DEF UnrevokedOf, Unrevoked
    <2> QED
      BY <2>3, <2>5, <2>6, <2>7
  <1>2. ASSUME NEW t \in Tx, t # u, Begin(t) \/ Progress(t) \/ Abort(t) \/ DeadlockAbort(t)
        PROVE  i \in tx'[u].held \cup tx'[u].todo
    <2>1. Untouched(u)
      BY <1>2, OthersUntouched
    <2>2. tx[u].pc = "update" /\ tx[u].op = "refresh" /\ tx[u].row \in Rows
      BY <2>1 DEF Untouched, RequestsOK, RequestOK
    <2>3. ASSUME NEW v \in Tx, Rotate(v), sess[tx[v].row].family = sess[tx[u].row].family
          PROVE  FALSE
      <3>1. /\ tx[v].row \in Rows /\ tx[v].op = "refresh" /\ tx[v].pc = "rotate"
            /\ tx[v].subject = sess[tx[v].row].subject
        BY <2>3 DEF Rotate, At, RequestsOK, RequestOK
      <3>2. tx[u].subject = sess[tx[u].row].subject
        BY <2>2 DEF RequestsOK, RequestOK
      <3>3. tx[v].subject = tx[u].subject /\ tx[u].subject \in Subject
        BY <2>2, <2>3, <3>1, <3>2, RowType DEF FamiliesOwned
      <3>4. HoldsSubject(v, tx[u].subject) /\ HoldsSubject(u, tx[u].subject) /\ u # v
        BY <2>2, <3>1, <3>3 DEF HoldsSubject
      <3> QED
        BY <3>3, <3>4 DEF ReuseInv, SubjectsExclusive
    <2> QED
      BY <1>1, <2>1, <2>2, <2>3
  <1>3. ASSUME Begin(u) \/ Progress(u) \/ Abort(u) \/ DeadlockAbort(u)
        PROVE  i \in tx'[u].held \cup tx'[u].todo
    <2>0. tx'[u] # Idle
      BY DEF Idle
    <2>1. Progress(u)
      <3>1. ~Abort(u) /\ ~DeadlockAbort(u)
        BY <2>0, FinishTx DEF Abort, DeadlockAbort
      <3>2. ASSUME Begin(u)
            PROVE  tx'[u].pc \in {"insertSession", "lockUser", "lockSession", "liveChecked"}
        BY <3>2, StartTx DEF Begin, LoginVerified, ExchangeBegin, RefreshBegin,
                             RevokeFamilyBegin, RevokeOneBegin, RequireLiveSession
      <3> QED
        BY <1>3, <3>1, <3>2
    <2>2. /\ tx[u] \in Request /\ tx[u].pc # "idle" /\ tx[u].op = "refresh"
          /\ tx'[u].row = tx[u].row
      BY <2>0, <2>1, KeepsIdentity
    <2>3. tx[u].row \in Rows
      BY <2>2 DEF RequestsOK, RequestOK
    <2>4. CASE Snapshot(u)
      <3>1. sess' = sess
        BY <2>4 DEF Snapshot
      <3>2. tx'[u] = [tx[u] EXCEPT !.pc = "update",
                                  !.todo = {j \in Rows : Matches(u, j)} \ tx[u].held]
        BY <2>4, UpdateTx DEF Snapshot
      <3>3. tx'[u].held = tx[u].held /\ tx'[u].todo = {j \in Rows : Matches(u, j)} \ tx[u].held
        BY <2>2, <3>2 DEF Request
      <3>4. i \in Rows /\ Matches(u, i)
        BY <2>2, <3>1 DEF Matches, FamilyOf, Unrevoked, Rows
      <3> QED
        BY <3>3, <3>4
    <2>5. ASSUME NEW j \in Rows, LockRow(u, j)
          PROVE  i \in tx'[u].held \cup tx'[u].todo
      <3>1. sess' = sess /\ tx[u].pc = "update"
        BY <2>5 DEF LockRow
      <3>2. tx'[u] = [tx[u] EXCEPT !.held = tx[u].held \cup {j}, !.todo = tx[u].todo \ {j}]
        BY <2>5, UpdateTx DEF LockRow
      <3>3. tx'[u].held = tx[u].held \cup {j} /\ tx'[u].todo = tx[u].todo \ {j}
        BY <2>2, <3>2 DEF Request
      <3>4. i \in UnrevokedOf(sess[tx[u].row].family)
        BY <2>2, <3>1 DEF UnrevokedOf, Unrevoked, Rows
      <3>5. i \in tx[u].held \cup tx[u].todo
        BY <2>2, <3>1, <3>4 DEF ReuseInv, ReuseCandidates, CandidatesOf
      <3> QED
        BY <3>3, <3>5
    <2>6. CASE LockSession(u)
      <3>1. tx'[u] = [tx[u] EXCEPT !.pc = "lockSubject", !.held = {tx[u].row}]
        BY <2>6, UpdateTx DEF LockSession
      <3> QED
        BY <2>2, <3>1 DEF Request
    <2>7. CASE LockSubject(u) \/ CheckUser(u)
      <3>1. PICK p : Goto(u, p) /\ p # "update"
        BY <2>0, <2>7, FinishTx DEF LockSubject, CheckUser
      <3>2. tx'[u] = [tx[u] EXCEPT !.pc = p]
        BY <2>2, <3>1, GotoTx
      <3> QED
        BY <2>2, <3>1, <3>2 DEF Request
    <2> QED
      BY <2>0, <2>1, <2>2, <2>4, <2>5, <2>6, <2>7, FinishTx, InsertLoginTx
         DEF Progress, ExchangeLock, RevokeFamilyLock, RevokeAllBegin, DeactivateBegin,
             BeginLiveChecked, DeactivateLock, UpdateViolatesCheck, CommitUpdate,
             InsertOAuthSession, MarkExpired, Rotate, RevokeOne, At
  <1>4. ASSUME UNCHANGED tx, ~ \E t \in Tx : Rotate(t)
        PROVE  i \in tx'[u].held \cup tx'[u].todo
    BY <1>1, <1>4 DEF Untouched
  <1>5. ASSUME UNCHANGED tx
        PROVE  ~ \E t \in Tx : Rotate(t)
    <2> SUFFICES ASSUME NEW t \in Tx, Rotate(t)
                 PROVE  FALSE
      OBVIOUS
    <2>1. tx'[t] = Idle
      BY FinishTx DEF Rotate
    <2> QED
      BY <1>5, <2>1 DEF Rotate, At, Idle
  <1> QED
    BY <1>2, <1>3, <1>4, <1>5 DEF Next, Expire, vars

LEMMA ReuseEndsStep ==
    TypeOK /\ RequestsOK /\ FamiliesOwned /\ ReuseInv /\ [Next]_vars
    => ClosedFamilies' /\ ReuseEndsFamily'
  <1> SUFFICES ASSUME TypeOK, RequestsOK, FamiliesOwned, ReuseInv, [Next]_vars,
                      NEW f \in closed'["reuse_detected"]
               PROVE  f \in Rows' /\ UnrevokedOf(f)' = {}
    BY DEF ClosedFamilies, ReuseEndsFamily
  <1>1. CASE f \in closed["reuse_detected"]
    <2>1. f \in Rows /\ UnrevokedOf(f) = {}
      BY <1>1 DEF ReuseInv, ClosedFamilies, ReuseEndsFamily
    <2>2. ~ \E t \in Tx : Rotate(t) /\ sess[tx[t].row].family = f
      <3> SUFFICES ASSUME NEW t \in Tx, Rotate(t), sess[tx[t].row].family = f
                   PROVE  FALSE
        OBVIOUS
      <3>1. tx[t].row \in UnrevokedOf(f)
        BY RotateRows DEF UnrevokedOf
      <3> QED
        BY <2>1, <3>1
    <2>3. UnrevokedOf(f)' \subseteq UnrevokedOf(f)
      BY <2>1, <2>2, UnrevokedGrows
    <2> QED
      BY <2>1, <2>3, RowsAreKept DEF RowsKept
  <1>2. CASE f \notin closed["reuse_detected"]
    <2>1. PICK t \in Tx : CommitUpdate(t)
      BY <1>2 DEF Next, Begin, Progress, Abort, DeadlockAbort, LoginVerified, ExchangeBegin, RefreshBegin,
       RevokeFamilyBegin, RevokeOneBegin, RequireLiveSession, ExchangeLock, LockSession,
       LockSubject, CheckUser, RevokeFamilyLock, RevokeAllBegin, DeactivateBegin,
       BeginLiveChecked, DeactivateLock, Snapshot, LockRow, UpdateViolatesCheck,
       InsertLoginSession, InsertOAuthSession, MarkExpired, Rotate, RevokeOne, Expire, vars
    <2>2. tx[t].op = "refresh" /\ f = sess[tx[t].row].family
      <3>1. CASE tx[t].op \notin {"refresh", "revokeFamily"}
        BY <1>2, <2>1, <3>1 DEF CommitUpdate
      <3>2. CASE tx[t].op \in {"refresh", "revokeFamily"}
        <4>1. closed' = [closed EXCEPT ![UpdateReason(t)] =
                           closed[UpdateReason(t)] \cup {sess[tx[t].row].family}]
          BY <2>1, <3>2 DEF CommitUpdate
        <4> QED
          BY <1>2, <3>2, <4>1 DEF UpdateReason, TypeOK
      <3> QED
        BY <3>1, <3>2
    <2>3. tx[t].row \in Rows /\ tx[t].pc = "update" /\ tx[t].todo = {}
      BY <2>1, <2>2 DEF CommitUpdate, UpdateDone, RequestsOK, RequestOK
    <2>4. f \in Rows
      BY <2>2, <2>3 DEF FamiliesOwned
    <2>5. ASSUME NEW i \in Rows, sess[i].family = f, Unrevoked(i)
          PROVE  i \in Revoked(t)
      <3>1. i \in tx[t].held
        BY <2>2, <2>3, <2>5 DEF ReuseInv, ReuseCandidates, CandidatesOf, UnrevokedOf
      <3> QED
        BY <2>2, <2>5, <3>1 DEF Revoked, Matches, FamilyOf
    <2>6. sess' = Revoke(Revoked(t), "reuse_detected")
      BY <2>1, <2>2 DEF CommitUpdate, UpdateReason
    <2>7. Rows' = Rows
      BY <2>6 DEF Revoke, Rows
    <2>8. ASSUME NEW i \in Rows, sess'[i].family = f
          PROVE  sess'[i].reason # "none"
      <3>1. sess[i] \in Session
        BY RowType
      <3>2. CASE i \in Revoked(t)
        <4>1. sess'[i] = [sess[i] EXCEPT !.reason = "reuse_detected"]
          BY <2>6, <3>2 DEF Revoke
        <4> QED
          BY <3>1, <4>1 DEF Session
      <3>3. CASE i \notin Revoked(t)
        BY <2>5, <2>6, <2>8, <3>3 DEF Revoke, Unrevoked
      <3> QED
        BY <3>2, <3>3
    <2> QED
      BY <2>4, <2>7, <2>8 DEF UnrevokedOf, Unrevoked
  <1> QED
    BY <1>1, <1>2

LEMMA ReuseInvariant ==
    Spec => []ReuseInv
  <1>1. Init => ReuseInv
    BY DEF Init, ReuseInv, SubjectsExclusive, HoldsSubject, ReuseCandidates, CandidatesOf,
           ClosedFamilies, ReuseEndsFamily, Idle
  <1>2. TypeOK /\ RequestsOK /\ RowsInv /\ ReuseInv /\ [Next]_vars => ReuseInv'
    BY SubjectsExclusiveStep, CandidatesStep, ReuseEndsStep DEF ReuseInv, RowsInv
  <1> QED
    BY <1>1, <1>2, Typing, RowsInvariant, PTL DEF Spec

(* A refresh that has answered the reuse of a token leaves no usable row   *)
(* in its family, and none ever comes back.                                *)
THEOREM ReuseEnds ==
    Spec => []ReuseEndsFamily
  BY ReuseInvariant, PTL DEF ReuseInv

-----------------------------------------------------------------------------
(* Deactivation.  An exchange holds the users row from its check of        *)
(* is_active to its commit, so the user is active when it inserts.         *)

UsersExclusive ==
    \A t, u \in Tx : \A s \in Subject : t # u => ~(HoldsUser(t, s) /\ HoldsUser(u, s))

ExchangerActive ==
    \A t \in Tx : tx[t].pc = "insertSession" /\ tx[t].op = "exchange" => active[tx[t].subject]

UsersInv == UsersExclusive /\ ExchangerActive

LEMMA HoldsUserSteps ==
    ASSUME TypeOK, RequestsOK, NEW t \in Tx, NEW s \in Subject, HoldsUser(t, s)',
           Begin(t) \/ Progress(t) \/ Abort(t) \/ DeadlockAbort(t)
    PROVE  \/ HoldsUser(t, s) /\ tx'[t].pc # "insertSession" /\ UNCHANGED active
           \/ UserFree(t, s) /\ active[s] /\ UNCHANGED active
  <1>1. tx'[t] # Idle
    BY DEF HoldsUser, Idle
  <1>2. ~Begin(t)
    <2> SUFFICES ASSUME Begin(t)
                 PROVE  FALSE
      OBVIOUS
    <2>1. /\ tx'[t].pc \in {"insertSession", "lockUser", "lockSession", "liveChecked"}
          /\ tx'[t].pc = "insertSession" => tx'[t].op = "login"
      BY StartTx DEF Begin, LoginVerified, ExchangeBegin, RefreshBegin, RevokeFamilyBegin,
                     RevokeOneBegin, RequireLiveSession
    <2> QED
      BY <2>1 DEF HoldsUser
  <1>3. Progress(t)
    BY <1>1, <1>2, FinishTx DEF Abort, DeadlockAbort
  <1>4. /\ tx[t] \in Request /\ tx[t].pc # "idle" /\ tx[t].subject = s
        /\ tx[t].op \in {"deactivate", "exchange"}
    BY <1>1, <1>3, KeepsIdentity DEF HoldsUser
  <1>5. CASE ExchangeLock(t) \/ DeactivateLock(t)
    BY <1>1, <1>4, <1>5, FinishTx DEF ExchangeLock, DeactivateLock
  <1>6. CASE Snapshot(t)
    <2>1. tx'[t] = [tx[t] EXCEPT !.pc = "update",
                                !.todo = {i \in Rows : Matches(t, i)} \ tx[t].held]
      BY <1>6, UpdateTx DEF Snapshot
    <2> QED
      BY <1>4, <1>6, <2>1 DEF Snapshot, HoldsUser, Request
  <1>7. ASSUME NEW i \in Rows, LockRow(t, i)
        PROVE  HoldsUser(t, s) /\ tx'[t].pc # "insertSession" /\ UNCHANGED active
    <2>1. tx'[t] = [tx[t] EXCEPT !.held = tx[t].held \cup {i}, !.todo = tx[t].todo \ {i}]
      BY <1>7, UpdateTx DEF LockRow
    <2> QED
      BY <1>4, <1>7, <2>1 DEF LockRow, HoldsUser, Request
  <1>8. CASE DeactivateBegin(t)
    <2>1. tx'[t] = [tx[t] EXCEPT !.pc = "lockUser", !.elders = {u \in Tx : Begun(u)}]
      BY <1>8, UpdateTx DEF DeactivateBegin, BeginLiveChecked
    <2> QED
      BY <1>4, <2>1 DEF HoldsUser, Request
  <1> QED
    BY <1>1, <1>3, <1>4, <1>5, <1>6, <1>7, <1>8, FinishTx, InsertLoginTx
       DEF Progress, LockSession, LockSubject, CheckUser, RevokeFamilyLock, RevokeAllBegin,
           BeginLiveChecked, UpdateViolatesCheck, CommitUpdate, InsertOAuthSession, MarkExpired,
           Rotate, RevokeOne, At

\* is_active is written by the commit of a deactivation alone.
LEMMA ActiveSteps ==
    ASSUME TypeOK, RequestsOK, [Next]_vars, NEW s \in Subject
    PROVE  \/ active'[s] = active[s]
           \/ /\ active'[s] = FALSE
              /\ \E t \in Tx : CommitUpdate(t) /\ HoldsUser(t, s)
  <1>1. CASE UNCHANGED active
    BY <1>1
  <1>2. CASE ~UNCHANGED active
    <2>1. PICK t \in Tx : CommitUpdate(t)
      BY <1>2 DEF Next, Begin, Progress, Abort, DeadlockAbort, LoginVerified, ExchangeBegin, RefreshBegin,
       RevokeFamilyBegin, RevokeOneBegin, RequireLiveSession, ExchangeLock, LockSession,
       LockSubject, CheckUser, RevokeFamilyLock, RevokeAllBegin, DeactivateBegin,
       BeginLiveChecked, DeactivateLock, Snapshot, LockRow, UpdateViolatesCheck,
       InsertLoginSession, InsertOAuthSession, MarkExpired, Rotate, RevokeOne, Expire, vars
    <2>2. tx[t].op = "deactivate" /\ active' = [active EXCEPT ![tx[t].subject] = FALSE]
      BY <1>2, <2>1 DEF CommitUpdate
    <2>3. CASE s = tx[t].subject
      BY <2>1, <2>2, <2>3 DEF CommitUpdate, UpdateDone, HoldsUser, TypeOK
    <2>4. CASE s # tx[t].subject
      BY <2>2, <2>4 DEF TypeOK
    <2> QED
      BY <2>3, <2>4
  <1> QED
    BY <1>1, <1>2

LEMMA UsersInvStep ==
    TypeOK /\ RequestsOK /\ UsersInv /\ [Next]_vars => UsersInv'
  <1> SUFFICES ASSUME TypeOK, RequestsOK, UsersInv, [Next]_vars
               PROVE  UsersInv'
    OBVIOUS
  <1>1. ASSUME NEW t \in Tx, Begin(t) \/ Progress(t) \/ Abort(t) \/ DeadlockAbort(t)
        PROVE  UsersInv'
    <2>1. ASSUME NEW u \in Tx \ {t}, NEW s \in Subject, HoldsUser(u, s)'
          PROVE  HoldsUser(u, s)
      BY <1>1, <2>1, OthersUntouched DEF Untouched, HoldsUser
    <2>2. ASSUME NEW s \in Subject, HoldsUser(t, s)', NEW u \in Tx \ {t}
          PROVE  ~HoldsUser(u, s)
      <3>1. HoldsUser(t, s) \/ UserFree(t, s)
        BY <1>1, <2>2, HoldsUserSteps
      <3> QED
        BY <2>2, <3>1 DEF UserFree, UsersInv, UsersExclusive
    <2>3. UsersExclusive'
      BY <2>1, <2>2 DEF UsersInv, UsersExclusive
    <2>4. ASSUME NEW u \in Tx, tx'[u].pc = "insertSession", tx'[u].op = "exchange"
          PROVE  active'[tx'[u].subject]
      <3>1. tx'[u].subject \in Subject
        <4>1. TypeOK'
          BY TypeStep
        <4>2. tx'[u] \in Request
          BY <2>4, <4>1 DEF TypeOK, Idle
        <4> QED
          BY <4>2 DEF Request
      <3>2. PICK s \in Subject : s = tx'[u].subject
        BY <3>1
      <3>3. HoldsUser(u, s)'
        BY <2>4, <3>2 DEF HoldsUser
      <3>4. CASE u = t
        BY <1>1, <2>4, <3>2, <3>3, <3>4, HoldsUserSteps
      <3>5. CASE u # t
        <4>1. tx[u].pc = "insertSession" /\ tx[u].op = "exchange" /\ tx[u].subject = s
          BY <1>1, <2>4, <3>2, <3>5, OthersUntouched DEF Untouched
        <4>2. active[s] /\ HoldsUser(u, s)
          BY <4>1 DEF UsersInv, ExchangerActive, HoldsUser
        <4>3. ~ \E w \in Tx : CommitUpdate(w) /\ HoldsUser(w, s)
          <5> SUFFICES ASSUME NEW w \in Tx, CommitUpdate(w), HoldsUser(w, s)
                       PROVE  FALSE
            OBVIOUS
          <5>1. w # u
            BY <4>1 DEF CommitUpdate, UpdateDone
          <5> QED
            BY <4>2, <5>1 DEF UsersInv, UsersExclusive
        <4> QED
          BY <3>2, <4>2, <4>3, ActiveSteps
      <3> QED
        BY <3>4, <3>5
    <2> QED
      BY <2>3, <2>4 DEF UsersInv, ExchangerActive
  <1>2. CASE UNCHANGED <<tx, active>>
    BY <1>2 DEF UsersInv, UsersExclusive, ExchangerActive, HoldsUser
  <1> QED
    BY <1>1, <1>2 DEF Next, Expire, vars

LEMMA UsersInvariant ==
    Spec => []UsersInv
  <1>1. Init => UsersInv
    BY DEF Init, UsersInv, UsersExclusive, ExchangerActive, HoldsUser, Idle
  <1> QED
    BY <1>1, UsersInvStep, Typing, PTL DEF Spec

\* A request that has checked is_active got there from an active user.
LEMMA PassesCheck ==
    ASSUME TypeOK, NEW t \in Tx, Begin(t) \/ Progress(t) \/ Abort(t) \/ DeadlockAbort(t),
           tx'[t] # Idle, tx'[t].op \in {"login", "refresh"},
           tx'[t].pc \in {"insertSession", "rotate"}
    PROVE  active[tx'[t].subject] /\ UNCHANGED active
  <1>1. CASE Begin(t)
    <2>1. \A s, i, c, o, p : Start(t, o, p, s, c, i) => tx'[t].pc = p /\ tx'[t].subject = s
      BY StartTx
    <2> QED
      BY <1>1, <2>1 DEF Begin, LoginVerified, ExchangeBegin, RefreshBegin, RevokeFamilyBegin,
                        RevokeOneBegin, RequireLiveSession
  <1>2. CASE CheckUser(t)
    <2>1. active[tx[t].subject] /\ UNCHANGED active
      BY <1>2, FinishTx DEF CheckUser
    <2> QED
      BY <1>2, <2>1, KeepsIdentity DEF Progress
  <1>3. CASE Progress(t) /\ ~CheckUser(t)
    <2>1. tx'[t].op = tx[t].op /\ tx[t] \in Request
      BY <1>3, KeepsIdentity
    <2>2. ~LockSubject(t) /\ ~ExchangeLock(t) /\ ~DeactivateLock(t)
      <3>1. ~Finish(t, {})
        BY FinishTx
      <3>2. ASSUME NEW p, Goto(t, p)
            PROVE  tx'[t].pc = p
        <4>1. tx[t].pc # "idle"
          BY <1>3, KeepsIdentity
        <4>2. tx'[t] = [tx[t] EXCEPT !.pc = p]
          BY <3>2, <4>1, GotoTx
        <4> QED
          BY <2>1, <4>2 DEF Request
      <3> QED
        BY <2>1, <3>1, <3>2 DEF LockSubject, ExchangeLock, DeactivateLock, At
    <2>3. ~LockSession(t) /\ ~RevokeFamilyLock(t)
      <3> SUFFICES ASSUME LockSession(t) \/ RevokeFamilyLock(t)
                   PROVE  FALSE
        OBVIOUS
      <3>1. \E p \in {"lockSubject", "snapshot"} :
               tx'[t] = [tx[t] EXCEPT !.pc = p, !.held = {tx[t].row}]
        BY UpdateTx, FinishTx DEF LockSession, RevokeFamilyLock
      <3> QED
        BY <2>1, <3>1 DEF Request
    <2>4. ~RevokeAllBegin(t) /\ ~DeactivateBegin(t)
      BY <2>1 DEF RevokeAllBegin, DeactivateBegin, BeginLiveChecked, At
    <2>5. ~Snapshot(t)
      <3> SUFFICES ASSUME Snapshot(t)
                   PROVE  FALSE
        OBVIOUS
      <3>1. tx'[t] = [tx[t] EXCEPT !.pc = "update",
                                  !.todo = {i \in Rows : Matches(t, i)} \ tx[t].held]
        BY UpdateTx DEF Snapshot
      <3> QED
        BY <2>1, <3>1 DEF Request
    <2>6. ASSUME NEW i \in Rows, LockRow(t, i)
          PROVE  FALSE
      <3>1. tx'[t] = [tx[t] EXCEPT !.held = tx[t].held \cup {i}, !.todo = tx[t].todo \ {i}]
        BY <2>6, UpdateTx DEF LockRow
      <3> QED
        BY <2>1, <2>6, <3>1 DEF LockRow, Request
    <2> QED
      BY <1>3, <2>2, <2>3, <2>4, <2>5, <2>6, FinishTx, InsertLoginTx
         DEF Progress, InsertOAuthSession, MarkExpired, Rotate, RevokeOne, CommitUpdate,
             UpdateViolatesCheck
  <1> QED
    BY <1>1, <1>2, <1>3, FinishTx DEF Abort, DeadlockAbort

LEMMA SettledStays ==
    ASSUME TypeOK, RequestsOK, [Next]_vars, NEW s \in Subject, Settled(s)
    PROVE  Settled(s)'
  <1>1. ~active'[s]
    BY ActiveSteps DEF Settled
  <1>2. ASSUME NEW u \in Tx, tx'[u] # Idle, tx'[u].op \in {"login", "refresh"},
               tx'[u].subject = s
        PROVE  tx'[u].pc \notin {"insertSession", "rotate"}
    <2>1. CASE UNCHANGED tx
      BY <1>2, <2>1 DEF Settled
    <2>2. ASSUME NEW t \in Tx, Begin(t) \/ Progress(t) \/ Abort(t) \/ DeadlockAbort(t)
          PROVE  tx'[u].pc \notin {"insertSession", "rotate"}
      <3>1. CASE u = t
        BY <1>2, <2>2, <3>1, PassesCheck DEF Settled
      <3>2. CASE u # t
        <4>1. Untouched(u)
          BY <2>2, <3>2, OthersUntouched
        <4>2. CASE tx[u].pc = "idle"
          BY <4>1, <4>2 DEF Untouched
        <4>3. CASE tx[u].pc # "idle"
          BY <1>2, <4>1, <4>3 DEF Untouched, Settled, Idle
        <4> QED
          BY <4>2, <4>3
      <3> QED
        BY <3>1, <3>2
    <2> QED
      BY <2>1, <2>2 DEF Next, Expire, vars
  <1> QED
    BY <1>1, <1>2 DEF Settled

LEMMA SettledGetsNoRow ==
    ASSUME TypeOK, RequestsOK, UsersInv, [Next]_vars, NEW s \in Subject, Settled(s),
           NEW i \in Rows' \ Rows
    PROVE  sess'[i].subject # s
  <1>1. ASSUME NEW t \in Tx, InsertLoginSession(t)
        PROVE  sess'[i].subject # s
    <2>1. /\ tx[t] \in Request /\ tx[t].subject \in Subject
          /\ sess' = Append(sess, NewSession(tx[t].subject, Len(sess) + 1, Browser))
      BY <1>1, InFlightIsRequest DEF InsertLoginSession, At, Request
    <2>2. sess'[i].subject = tx[t].subject
      BY <2>1, AppendRows DEF NewSession, Binding
    <2>3. tx[t].subject # s
      BY <1>1, <2>1 DEF InsertLoginSession, At, Settled, Request, Idle
    <2> QED
      BY <2>2, <2>3
  <1>2. ASSUME NEW t \in Tx, InsertOAuthSession(t)
        PROVE  sess'[i].subject # s
    <2>1. /\ tx[t] \in Request /\ tx[t].subject \in Subject /\ tx[t].client \in Binding
          /\ sess' = Append(sess, NewSession(tx[t].subject, Len(sess) + 1, tx[t].client))
      BY <1>2, InFlightIsRequest DEF InsertOAuthSession, At, Request
    <2>2. sess'[i].subject = tx[t].subject
      BY <2>1, AppendRows DEF NewSession
    <2>3. tx[t].subject # s
      BY <1>2 DEF InsertOAuthSession, At, Settled, UsersInv, ExchangerActive
    <2> QED
      BY <2>2, <2>3
  <1>3. ASSUME NEW t \in Tx, Rotate(t)
        PROVE  sess'[i].subject # s
    <2>1. sess'[i].subject = sess[tx[t].row].subject
      <3>1. i = Len(sess) + 1
        BY <1>3, RotateRows
      <3>2. sess'[i] = NewSession(sess[tx[t].row].subject, sess[tx[t].row].family,
                                  sess[tx[t].row].client)
        BY <1>3, <3>1, RotateRows
      <3> QED
        BY <3>2 DEF NewSession
    <2>2. tx[t] \in Request /\ sess[tx[t].row].subject = tx[t].subject
      BY <1>3, InFlightIsRequest DEF Rotate, At, RequestsOK, RequestOK
    <2>3. tx[t].subject # s
      BY <1>3, <2>2 DEF Rotate, At, Settled, Request, Idle
    <2> QED
      BY <2>1, <2>2, <2>3
  <1>4. ASSUME NEW t \in Tx, MarkExpired(t) \/ RevokeOne(t) \/ CommitUpdate(t)
        PROVE  Rows' = Rows
    BY <1>4 DEF MarkExpired, RevokeOne, CommitUpdate, Revoke, Rows
  <1>5. ASSUME NEW j \in Rows, Expire(j)
        PROVE  Rows' = Rows
    BY <1>5, ExpireRows
  <1>6. CASE UNCHANGED sess
    BY <1>6 DEF Rows
  <1> QED
    BY <1>1, <1>2, <1>3, <1>4, <1>5, <1>6, SessWriters

(* After a deactivation, and once the logins and refreshes that had        *)
(* checked is_active are over, no step gives the user a session.           *)
THEOREM NoSessionForInactive ==
    Spec => InactiveCannotRenew
  <1>1. ASSUME TypeOK, RequestsOK, UsersInv, [Next]_vars, NEW s \in Subject, Settled(s)
        PROVE  Settled(s)' /\ \A i \in DOMAIN sess' \ Rows : sess'[i].subject # s
    BY <1>1, SettledStays, SettledGetsNoRow DEF Rows
  <1>2. TypeOK /\ RequestsOK /\ UsersInv /\ [Next]_vars =>
          [\A s \in Subject :
              Settled(s) => /\ Settled(s)'
                            /\ \A i \in DOMAIN sess' \ Rows : sess'[i].subject # s]_vars
    BY <1>1
  <1> QED
    BY <1>2, Typing, UsersInvariant, PTL DEF Spec, InactiveCannotRenew

-----------------------------------------------------------------------------
(* Refinement: auth_sessions keeps the promise of SessionFamilies.         *)

Heads == [f \in Families |-> UnrevokedOf(f)]

\* One unrevoked row of a family is all of them.
LEMMA OneHead ==
    ASSUME RowsInv, NEW i \in Rows, Unrevoked(i)
    PROVE  UnrevokedOf(sess[i].family) = {i}
  BY DEF RowsInv, OneUnrevokedPerFamily, UnrevokedOf

LEMMA InitRefines ==
    Init => Promise!Init
  BY DEF Init, Promise!Init, Families, UnrevokedOf, Rows

LEMMA LoginRefines ==
    ASSUME TypeOK, RequestsOK, RowsInv, NEW s \in Subject, NEW c \in Binding,
           sess' = Append(sess, NewSession(s, Len(sess) + 1, c))
    PROVE  Promise!Next
  <1>1. PICK new : /\ new = Len(sess) + 1
                   /\ new \notin Rows /\ new \in Ids
    BY RowsAre DEF Ids
  <1>2. /\ Rows' = Rows \cup {new}
        /\ \A j \in Rows : sess'[j] = sess[j]
        /\ sess'[new].family = new /\ sess'[new].reason = "none"
    <2>1. /\ Rows' = Rows \cup {new}
          /\ \A j \in Rows : sess'[j] = sess[j]
          /\ sess'[new] = NewSession(s, new, c)
      BY <1>1, AppendRows
    <2>2. NewSession(s, new, c).family = new /\ NewSession(s, new, c).reason = "none"
      BY NewRow
    <2> QED
      BY <2>1, <2>2
  <1>3. \A j \in Rows : sess[j].family \in Rows
    BY DEF RowsInv, FamiliesOwned
  <1>4. new \notin Families /\ Families' = Families \cup {new}
    <2>1. new \notin Families
      BY <1>1, <1>3 DEF Families
    <2>2. Families' = {sess'[j].family : j \in Rows \cup {new}}
      BY <1>2 DEF Families
    <2>3. {sess'[j].family : j \in Rows \cup {new}} = {sess[j].family : j \in Rows} \cup {new}
      BY <1>1, <1>2
    <2> QED
      BY <2>1, <2>2, <2>3 DEF Families
  <1>5. \A f \in Families : UnrevokedOf(f)' = UnrevokedOf(f)
    BY <1>1, <1>2, <1>4 DEF UnrevokedOf, Unrevoked
  <1>6. UnrevokedOf(new)' = {new}
    <2>1. UnrevokedOf(new)' = {j \in Rows \cup {new} : sess'[j].family = new
                                                       /\ sess'[j].reason = "none"}
      BY <1>2 DEF UnrevokedOf, Unrevoked
    <2>2. \A j \in Rows : sess'[j].family # new
      BY <1>1, <1>2, <1>3
    <2> QED
      BY <1>2, <2>1, <2>2
  <1>7. Heads' = [f \in Families \cup {new} |-> IF f = new THEN {new} ELSE UnrevokedOf(f)]
    BY <1>4, <1>5, <1>6 DEF Heads
  <1>8. Promise!Open(new)
    BY <1>1, <1>2, <1>4, <1>7 DEF Promise!Open, Heads
  <1> QED
    BY <1>2, <1>8 DEF Promise!Next

LEMMA RotateRefines ==
    ASSUME TypeOK, RequestsOK, RowsInv, NEW t \in Tx, Rotate(t)
    PROVE  Promise!Next
  <1>1. PICK new : /\ new = Len(sess) + 1
                   /\ new \notin Rows /\ new \in Ids
    BY RowsAre DEF Ids
  <1>2. PICK i \in Rows :
          /\ Unrevoked(i)
          /\ Rows' = Rows \cup {new}
          /\ \A j \in Rows \ {i} : sess'[j] = sess[j]
          /\ sess'[i] = [sess[i] EXCEPT !.reason = "rotated", !.replacedBy = new]
          /\ sess'[new] = NewSession(sess[i].subject, sess[i].family, sess[i].client)
    BY <1>1, RotateRows
  <1>3. /\ sess'[i].family = sess[i].family /\ sess'[i].reason = "rotated"
        /\ sess'[new].family = sess[i].family /\ sess'[new].reason = "none"
    BY <1>2, RowType, RotatedFields, NewRow
  <1>4. PICK f : f = sess[i].family
    OBVIOUS
  <1>5. f \in Families /\ UnrevokedOf(f) = {i}
    BY <1>2, <1>4, OneHead DEF Families
  <1>6. Families' = Families
    <2>1. \A j \in Rows : sess'[j].family = sess[j].family
      BY <1>2, <1>3
    <2>2. Families' = {sess'[j].family : j \in Rows \cup {new}}
      BY <1>2 DEF Families
    <2> QED
      BY <1>3, <2>1, <2>2 DEF Families
  <1>6a. ASSUME NEW g
         PROVE  UnrevokedOf(g)' = {j \in Rows \cup {new} : sess'[j].family = g
                                                           /\ sess'[j].reason = "none"}
    BY <1>2 DEF UnrevokedOf, Unrevoked
  <1>7. UnrevokedOf(f)' = {new}
    <2>1. ASSUME NEW j \in Rows, sess'[j].family = f, sess'[j].reason = "none"
          PROVE  FALSE
      <3>1. j # i
        BY <1>3, <2>1
      <3>2. j \in UnrevokedOf(f)
        BY <1>2, <2>1, <3>1 DEF UnrevokedOf, Unrevoked
      <3> QED
        BY <1>5, <3>1, <3>2
    <2> QED
      BY <1>3, <1>4, <1>6a, <2>1
  <1>8. \A g \in Families \ {f} : UnrevokedOf(g)' = UnrevokedOf(g)
    <2> SUFFICES ASSUME NEW g \in Families \ {f}
                 PROVE  UnrevokedOf(g)' = UnrevokedOf(g)
      OBVIOUS
    <2>1. sess'[i].family # g /\ sess[i].family # g /\ sess'[new].family # g
      BY <1>3, <1>4
    <2>2. UnrevokedOf(g)' = {j \in Rows \cup {new} : sess'[j].family = g
                                                     /\ sess'[j].reason = "none"}
      BY <1>6a
    <2> QED
      BY <1>2, <2>1, <2>2 DEF UnrevokedOf, Unrevoked
  <1>9. Heads' = [Heads EXCEPT ![f] = {new}]
    BY <1>5, <1>6, <1>7, <1>8 DEF Heads
  <1>10. Promise!Replace(f, i, new)
    BY <1>1, <1>2, <1>5, <1>9 DEF Promise!Replace, Heads
  <1>11. new \in Rows'
    BY <1>2
  <1> QED
    BY <1>5, <1>10, <1>11 DEF Promise!Next

LEMMA RevokeRefines ==
    ASSUME TypeOK, RowsInv, NEW R \in SUBSET {i \in Rows : Unrevoked(i)},
           NEW why \in Reason \ {"rotated"}, sess' = Revoke(R, why)
    PROVE  Promise!Next
  <1>1. Rows' = Rows
    BY RevokeRows
  <1>2. ASSUME NEW j \in Rows
        PROVE  /\ sess'[j].family = sess[j].family
               /\ Unrevoked(j)' <=> Unrevoked(j) /\ j \notin R
    <2>1. sess[j] \in Session /\ "none" \notin Reason
      BY RowType DEF Reason
    <2>2. sess'[j] = IF j \in R THEN [sess[j] EXCEPT !.reason = why] ELSE sess[j]
      BY RevokeRows
    <2> QED
      BY <2>1, <2>2 DEF Unrevoked, Session
  <1>3. PICK F : F = {sess[i].family : i \in R}
    OBVIOUS
  <1>4. F \in SUBSET Families /\ Families' = Families
    BY <1>1, <1>2, <1>3 DEF Families
  <1>5. ASSUME NEW f \in Families
        PROVE  UnrevokedOf(f)' = IF f \in F THEN {} ELSE UnrevokedOf(f)
    <2>1. UnrevokedOf(f)' = {j \in Rows : sess[j].family = f /\ Unrevoked(j) /\ j \notin R}
      BY <1>1, <1>2 DEF UnrevokedOf
    <2>2. CASE f \in F
      <3>1. PICK i \in R : sess[i].family = f
        BY <1>3, <2>2
      <3>2. UnrevokedOf(f) = {i}
        BY <3>1, OneHead
      <3> QED
        BY <2>1, <2>2, <3>1, <3>2 DEF UnrevokedOf
    <2>3. CASE f \notin F
      BY <1>3, <2>1, <2>3 DEF UnrevokedOf
    <2> QED
      BY <2>2, <2>3
  <1>6. Heads' = [f \in Families |-> IF f \in F THEN {} ELSE UnrevokedOf(f)]
    BY <1>4, <1>5 DEF Heads
  <1>7. Promise!Close(F)
    BY <1>1, <1>6 DEF Promise!Close, Heads
  <1> QED
    BY <1>4, <1>7 DEF Promise!Next

LEMMA ExpireRefines ==
    ASSUME TypeOK, NEW i \in Rows, Expire(i)
    PROVE  UNCHANGED Promise!vars
  <1>1. Rows' = Rows
    BY ExpireRows
  <1>2. ASSUME NEW j \in Rows
        PROVE  sess'[j].family = sess[j].family /\ sess'[j].reason = sess[j].reason
    <2>1. sess[j] \in Session
      BY RowType
    <2>2. sess'[j] = sess[j] \/ sess'[j] = [sess[j] EXCEPT !.expired = TRUE]
      BY ExpireRows
    <2> QED
      BY <2>1, <2>2 DEF Session
  <1>3. Families' = Families
    BY <1>1, <1>2 DEF Families
  <1>4. \A f \in Families : UnrevokedOf(f)' = UnrevokedOf(f)
    BY <1>1, <1>2 DEF UnrevokedOf, Unrevoked
  <1> QED
    BY <1>1, <1>3, <1>4 DEF Promise!vars

LEMMA StepRefines ==
    TypeOK /\ RequestsOK /\ RowsInv /\ [Next]_vars => [Promise!Next]_(Promise!vars)
  <1> SUFFICES ASSUME TypeOK, RequestsOK, RowsInv, [Next]_vars
               PROVE  Promise!Next \/ UNCHANGED Promise!vars
    OBVIOUS
  <1>1. CASE UNCHANGED sess
    BY <1>1 DEF Promise!vars, Families, UnrevokedOf, Unrevoked, Rows
  <1> QED
    BY <1>1, SessSteps, LoginRefines, RotateRefines, RevokeRefines, ExpireRefines

(* Every behaviour of the table is a behaviour of SessionFamilies: clients *)
(* may reason about families, and forget rows, locks and transactions.     *)
THEOREM KeepsPromise ==
    Spec => FamiliesSpec
  BY InitRefines, StepRefines, Typing, RowsInvariant, PTL
     DEF Spec, FamiliesSpec, Promise!Spec

=============================================================================
