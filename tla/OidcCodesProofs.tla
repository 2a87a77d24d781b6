--------------------------- MODULE OidcCodesProofs --------------------------
(***************************************************************************)
(* Proofs of the safety properties of OidcCodes, for any number of         *)
(* requests, users, handlers and codes.  The inductive invariant Inv says  *)
(* what a handler knows between its statements: a continuation that will   *)
(* answer the client is the only one that can, a code that is not yet      *)
(* installed is known to nobody, and an exchange holds a code that was the *)
(* answer of its request.  The last part proves that OidcCodes implements  *)
(* OneTimeGrants, action by action.                                        *)
(***************************************************************************)
EXTENDS OidcCodes, SequenceTheorems, TLAPS

Answers == Code \cup {Denied}

Continuing(t) == tx[t].pc \in {"checkUser", "authorize", "cancel"}
Exchanging(t) == tx[t].pc \in {"lock", "validate", "consume"}

Unanswered(g) == answers[g] = <<>>

\* A code that no row stores and no client was sent.
Unused(c) == \A g \in Grant : row[g].code # c /\ answers[g] # <<c>>

ContinuationOK(t) ==
    Continuing(t) => /\ row[tx[t].grant].status # "unborn"
                     /\ tx[t].user \in User
                     /\ Direct(t) => Unanswered(tx[t].grant)
                     /\ At(t, "authorize") => /\ tx[t].code \in 1..lastCode
                                              /\ Unused(tx[t].code)

ExchangeOK(t) ==
    Exchanging(t) => /\ tx[t].code \in Code
                     /\ answers[tx[t].grant] = <<tx[t].code>>

LockedOK(t) ==
    tx[t].pc \in {"validate", "consume"} =>
        /\ tx[t].user \in User
        /\ Has(tx[t].grant, tx[t].code) => row[tx[t].grant].user = tx[t].user
        /\ At(t, "consume") => account[tx[t].user] = "verified"

SlotsOK == \A t \in Tx : ContinuationOK(t) /\ ExchangeOK(t) /\ LockedOK(t)

\* A request that was not shown has one continuation, and codes do not repeat.
Alone(t, u) ==
    Continuing(t) /\ Continuing(u) =>
        /\ tx[t].grant = tx[u].grant /\ Direct(t) => t = u
        /\ At(t, "authorize") /\ At(u, "authorize") /\ tx[t].code = tx[u].code => t = u

Apart == \A t, u \in Tx : Alone(t, u)

AnswerOK(g) ==
    /\ Unanswered(g) \/ \E a \in Answers : answers[g] = <<a>>
    /\ row[g].status = "unborn" => ~row[g].shown /\ Unanswered(g)
    /\ row[g].status = "pending" /\ row[g].shown => Unanswered(g)

IssueOK(g) ==
    /\ issued[g] # 0 => \E c \in Code : answers[g] = <<c>>
    /\ \/ issued[g] = 0
       \/ issued[g] = 1 /\ row[g].status \in {"consumed", "deleted"}

CodeOK(g) ==
    /\ row[g].code <= lastCode
    /\ \A c \in Code : answers[g] = <<c>> => c <= lastCode
    /\ \A c \in Code, h \in Grant : answers[g] = <<c>> /\ row[h].code = c => g = h

RequestsOK == \A g \in Grant : AnswerOK(g) /\ IssueOK(g) /\ CodeOK(g)

Inv == TypeOK /\ SlotsOK /\ Apart /\ RequestsOK

-----------------------------------------------------------------------------
(* What a step does to the handlers *)

LEMMA StartStep ==
    ASSUME TypeOK, NEW t \in Tx, NEW p \in PC, NEW g \in Grant, NEW u \in User \cup {Nobody},
           NEW c \in Answers, NEW f \in BOOLEAN, Start(t, p, g, u, c, f)
    PROVE  /\ tx' \in [Tx -> Request \cup {Idle}]
           /\ tx'[t].pc = p /\ tx'[t].grant = g /\ tx'[t].user = u /\ tx'[t].code = c
           /\ tx[t].pc = "idle"
           /\ \A q \in Tx \ {t} : tx'[q] = tx[q]
<1> DEFINE R == [pc |-> p, grant |-> g, user |-> u, code |-> c, fits |-> f]
<1>1. R \in Request
  BY DEF Request, Answers
<1>2. tx' = [tx EXCEPT ![t] = R] /\ tx[t] = Idle
  BY DEF Start
<1>3. tx'[t] = R /\ \A q \in Tx \ {t} : tx'[q] = tx[q]
  BY <1>2 DEF TypeOK
<1>4. tx' \in [Tx -> Request \cup {Idle}]
  BY <1>1, <1>2 DEF TypeOK
<1> QED
  BY <1>2, <1>3, <1>4 DEF Idle

LEMMA GotoStep ==
    ASSUME TypeOK, NEW t \in Tx, NEW p \in PC, tx[t].pc # "idle", Goto(t, p)
    PROVE  /\ tx[t] \in Request
           /\ tx' \in [Tx -> Request \cup {Idle}]
           /\ tx'[t].pc = p /\ tx'[t].grant = tx[t].grant
           /\ tx'[t].user = tx[t].user /\ tx'[t].code = tx[t].code
           /\ \A q \in Tx \ {t} : tx'[q] = tx[q]
<1>1. tx[t] \in Request
  BY DEF TypeOK, Idle
<1>2. tx' = [tx EXCEPT ![t] = [tx[t] EXCEPT !.pc = p]]
  BY DEF Goto
<1>3. tx'[t] = [tx[t] EXCEPT !.pc = p] /\ \A q \in Tx \ {t} : tx'[q] = tx[q]
  BY <1>2 DEF TypeOK
<1>4. /\ tx'[t] \in Request
      /\ tx'[t].pc = p /\ tx'[t].grant = tx[t].grant
      /\ tx'[t].user = tx[t].user /\ tx'[t].code = tx[t].code
  BY <1>1, <1>3 DEF Request
<1>5. tx' \in [Tx -> Request \cup {Idle}]
  BY <1>2, <1>3, <1>4 DEF TypeOK
<1> QED
  BY <1>1, <1>3, <1>4, <1>5

LEMMA FinishStep ==
    ASSUME TypeOK, NEW t \in Tx, Finish(t)
    PROVE  /\ tx' \in [Tx -> Request \cup {Idle}]
           /\ tx'[t].pc = "idle"
           /\ \A q \in Tx \ {t} : tx'[q] = tx[q]
BY DEF Finish, TypeOK, Idle

\* A handler that is not idle is a request, and its program counter is in PC.
LEMMA BusySlot ==
    ASSUME TypeOK, NEW t \in Tx, tx[t].pc # "idle"
    PROVE  /\ tx[t] \in Request
           /\ tx[t].pc \in PC /\ tx[t].grant \in Grant
           /\ tx[t].user \in User \cup {Nobody} /\ tx[t].code \in Answers
BY DEF TypeOK, Idle, Request, Answers

-----------------------------------------------------------------------------
(* What a step does to the rows *)

LEMMA RowField ==
    ASSUME TypeOK, NEW g \in Grant
    PROVE  /\ row[g] \in Row
           /\ row[g].status \in Status /\ row[g].user \in User \cup {Nobody}
           /\ row[g].code \in Answers /\ row[g].expired \in BOOLEAN
           /\ row[g].shown \in BOOLEAN
BY DEF TypeOK, Row, Answers

LEMMA CreateStep ==
    ASSUME TypeOK, NEW g \in Grant, NEW b \in BOOLEAN, Create(g, b)
    PROVE  /\ row' \in [Grant -> Row]
           /\ row[g].status = "unborn" /\ ~row[g].shown
           /\ row'[g].status = "pending" /\ row'[g].shown = b /\ row'[g].code = Denied
           /\ \A h \in Grant \ {g} :
                \/ row'[h] = row[h]
                \/ /\ Exists(h) /\ row[h].expired
                   /\ row'[h].status = "deleted" /\ row'[h].code = Denied
                   /\ row'[h].shown = row[h].shown /\ row'[h].user = row[h].user
<1>1. Unborn \in Row /\ Pending(b) \in Row
  BY ConstantsAssumption DEF Unborn, Pending, Row, Status
<1>2. row[g].status = "unborn" /\ ~row[g].shown
  <2>1. Unborn.status = "unborn" /\ Unborn.shown = FALSE
    BY DEF Unborn
  <2> QED
    BY <2>1 DEF Create
<1>3. Pending(b).status = "pending" /\ Pending(b).shown = b /\ Pending(b).code = Denied
  BY DEF Pending, Unborn
<1> DEFINE D(h) == [row[h] EXCEPT !.status = "deleted", !.code = Denied]
<1>4. \A h \in Grant : /\ D(h) \in Row
                       /\ D(h).status = "deleted" /\ D(h).code = Denied
                       /\ D(h).shown = row[h].shown /\ D(h).user = row[h].user
  BY RowField DEF Row, Status, Denied
<1>0. PICK gone \in SUBSET Stale :
         row' = [h \in Grant |->
                   IF h = g THEN Pending(b) ELSE IF h \in gone THEN D(h) ELSE row[h]]
  BY DEF Create
<1>5. /\ \A h \in Grant : row'[h] = IF h = g THEN Pending(b)
                                    ELSE IF h \in gone THEN D(h) ELSE row[h]
      /\ \A h \in gone : Exists(h) /\ row[h].expired
  BY <1>0 DEF Stale
<1>6. row' \in [Grant -> Row]
  <2>1. \A h \in Grant : row'[h] \in Row
    BY <1>1, <1>4, <1>5, RowField
  <2> QED
    BY <1>0, <2>1
<1> HIDE DEF D
<1>7. row'[g] = Pending(b)
  BY <1>5
<1>8. ASSUME NEW h \in Grant \ {g}
      PROVE  \/ row'[h] = row[h]
             \/ /\ Exists(h) /\ row[h].expired
                /\ row'[h].status = "deleted" /\ row'[h].code = Denied
                /\ row'[h].shown = row[h].shown /\ row'[h].user = row[h].user
  BY <1>4, <1>5
<1> QED
  BY <1>2, <1>3, <1>6, <1>7, <1>8

LEMMA BoundStep ==
    ASSUME TypeOK, NEW t \in Tx, NEW g \in Grant, g = tx[t].grant,
           tx[t].user \in User, tx[t].code \in Code, row' = Bound(t)
    PROVE  /\ row' \in [Grant -> Row]
           /\ row'[g].status = "authorized" /\ row'[g].user = tx[t].user
           /\ row'[g].code = tx[t].code /\ row'[g].shown = row[g].shown
           /\ \A h \in Grant \ {g} : row'[h] = row[h]
<1> DEFINE B == [row[g] EXCEPT !.status = "authorized", !.user = tx[t].user,
                               !.code = tx[t].code]
<1>1. /\ B \in Row
      /\ B.status = "authorized" /\ B.user = tx[t].user
      /\ B.code = tx[t].code /\ B.shown = row[g].shown
  BY RowField DEF Row, Status
<1>2. row' = [row EXCEPT ![g] = B]
  BY DEF Bound, TypeOK
<1> HIDE DEF B
<1>3. row'[g] = B /\ \A h \in Grant \ {g} : row'[h] = row[h]
  BY <1>2 DEF TypeOK
<1>4. row' \in [Grant -> Row]
  BY <1>1, <1>2 DEF TypeOK
<1> QED
  BY <1>1, <1>3, <1>4

-----------------------------------------------------------------------------
(* Answers *)

LEMMA OneElement ==
    ASSUME NEW a, NEW b
    PROVE  <<a>> # <<>> /\ (<<a>> = <<b>> => a = b)
<1>1. Len(<<a>>) = 1 /\ Len(<<>>) = 0
  OBVIOUS
<1>2. <<a>>[1] = a /\ <<b>>[1] = b
  OBVIOUS
<1> QED
  BY <1>1, <1>2

LEMMA CodeRange ==
    ASSUME TypeOK
    PROVE  /\ lastCode \in Nat /\ lastCode <= MaxCode /\ MaxCode \in Nat
           /\ 1..lastCode \subseteq Code
           /\ \A c \in Code : c \in Nat /\ c # Denied /\ c >= 1
BY ConstantsAssumption DEF TypeOK, Code, Denied

LEMMA AnswerStep ==
    ASSUME TypeOK, NEW g \in Grant, NEW a \in Answers, Unanswered(g), Answer(g, a)
    PROVE  /\ answers' \in [Grant -> Seq(Answers)]
           /\ answers'[g] = <<a>>
           /\ \A h \in Grant \ {g} : answers'[h] = answers[h]
<1>1. answers' = [answers EXCEPT ![g] = Append(answers[g], a)]
  BY DEF Answer
<1>2. Append(answers[g], a) = <<a>>
  BY DEF Unanswered
<1>3. <<a>> \in Seq(Answers)
  OBVIOUS
<1>4. answers \in [Grant -> Seq(Answers)]
  BY DEF TypeOK, Answers
<1> QED
  BY <1>1, <1>2, <1>3, <1>4

\* Whoever redirects the client is the first to do it.
LEMMA FirstAnswer ==
    ASSUME Inv, NEW t \in Tx, Continuing(t),
           Direct(t) \/ row[tx[t].grant].status = "pending"
    PROVE  Unanswered(tx[t].grant)
<1>1. tx[t].grant \in Grant
  BY BusySlot DEF Inv, Continuing
<1>2. CASE Direct(t)
  BY <1>2 DEF Inv, SlotsOK, ContinuationOK
<1>3. CASE ~Direct(t)
  BY <1>1, <1>3 DEF Direct, Inv, RequestsOK, AnswerOK
<1> QED
  BY <1>2, <1>3

-----------------------------------------------------------------------------
(* The invariant *)

\* A handler that does not move keeps what it knows while the rows stay.
LEMMA Undisturbed ==
    ASSUME NEW q \in Tx, tx'[q] = tx[q], UNCHANGED <<account, row, answers>>, SlotsOK,
           lastCode \in Nat, lastCode' \in Nat, lastCode <= lastCode'
    PROVE  (ContinuationOK(q) /\ ExchangeOK(q) /\ LockedOK(q))'
<1>1. ContinuationOK(q) /\ ExchangeOK(q) /\ LockedOK(q)
  BY DEF SlotsOK
<1> QED
  BY <1>1 DEF ContinuationOK, ExchangeOK, LockedOK, Continuing, Exchanging, Direct,
              Unanswered, At, Unused, Has

\* A handler that ends takes nothing with it.
LEMMA EndedInv ==
    ASSUME Inv, NEW t \in Tx, Finish(t), UNCHANGED <<account, row, lastCode, answers, issued>>
    PROVE  Inv'
<1> USE DEF Inv
<1>1. /\ tx' \in [Tx -> Request \cup {Idle}]
      /\ tx'[t].pc = "idle" /\ \A q \in Tx \ {t} : tx'[q] = tx[q]
  BY FinishStep
<1>2. TypeOK'
  BY <1>1 DEF TypeOK
<1>3. SlotsOK'
  <2> SUFFICES ASSUME NEW q \in Tx
               PROVE  (ContinuationOK(q) /\ ExchangeOK(q) /\ LockedOK(q))'
    BY DEF SlotsOK
  <2>1. CASE q = t
    BY <1>1, <2>1 DEF ContinuationOK, ExchangeOK, LockedOK, Continuing, Exchanging
  <2>2. CASE q # t
    BY <1>1, <2>2, Undisturbed DEF TypeOK
  <2> QED
    BY <2>1, <2>2
<1>4. Apart'
  BY <1>1 DEF Apart, Alone, Continuing, Direct, At
<1>5. RequestsOK'
  BY DEF RequestsOK, AnswerOK, IssueOK, CodeOK, Unanswered
<1> QED
  BY <1>2, <1>3, <1>4, <1>5

\* The end of a continuation: what Authorize, Cancel and Abort may do.
LEMMA ContinuationEnds ==
    ASSUME Inv, NEW t \in Tx, NEW g \in Grant, g = tx[t].grant, Continuing(t), Finish(t),
           UNCHANGED <<account, lastCode, issued>>,
           row' \in [Grant -> Row], row'[g].shown = row[g].shown,
           \A h \in Grant \ {g} : row'[h] = row[h],
           \/ row'[g] = row[g]
           \/ /\ row[g].status = "pending" /\ row'[g].status = "deleted"
              /\ row'[g].code = Denied
           \/ /\ row[g].status = "pending" /\ row'[g].status = "authorized"
              /\ At(t, "authorize")
              /\ row'[g].code = tx[t].code /\ row'[g].user = tx[t].user,
           answers' \in [Grant -> Seq(Answers)],
           \A h \in Grant \ {g} : answers'[h] = answers[h],
           \/ answers'[g] = answers[g]
           \/ /\ Unanswered(g)
              /\ ~row[g].shown \/ row'[g].status # "pending"
              /\ \/ answers'[g] = <<Denied>>
                 \/ row'[g].code = tx[t].code /\ answers'[g] = <<tx[t].code>>
                    /\ At(t, "authorize")
    PROVE  Inv'
<1> USE DEF Inv
<1>1. /\ tx' \in [Tx -> Request \cup {Idle}]
      /\ tx'[t].pc = "idle" /\ \A q \in Tx \ {t} : tx'[q] = tx[q]
  BY FinishStep
<1>2. ContinuationOK(t) /\ tx[t].user \in User /\ row[g].status # "unborn"
  BY DEF SlotsOK, ContinuationOK
<1>3. At(t, "authorize") => /\ tx[t].code \in 1..lastCode /\ tx[t].code \in Code
                            /\ Unused(tx[t].code)
  BY <1>2, CodeRange DEF ContinuationOK
<1>4. TypeOK'
  <2>1. ASSUME NEW h \in Grant
        PROVE  /\ row'[h].status = "authorized" <=> row'[h].code # Denied
               /\ row'[h].status \in {"authorized", "consumed"} => row'[h].user # Nobody
    <3>1. /\ row[h].status = "authorized" <=> row[h].code # Denied
          /\ row[h].status \in {"authorized", "consumed"} => row[h].user # Nobody
      BY DEF TypeOK
    <3>2. At(t, "authorize") => tx[t].code # Denied /\ tx[t].user # Nobody
      BY <1>2, <1>3, CodeRange, ConstantsAssumption
    <3>3. CASE row'[h] = row[h]
      BY <3>1, <3>3
    <3>4. CASE row'[h] # row[h]
      BY <3>2, <3>4
    <3> QED
      BY <3>3, <3>4
  <2> QED
    BY <1>1, <2>1 DEF TypeOK, Answers
<1>5. SlotsOK'
  <2> SUFFICES ASSUME NEW q \in Tx
               PROVE  (ContinuationOK(q) /\ ExchangeOK(q) /\ LockedOK(q))'
    BY DEF SlotsOK
  <2>1. CASE q = t
    BY <1>1, <2>1 DEF ContinuationOK, ExchangeOK, LockedOK, Continuing, Exchanging
  <2>2. CASE q # t
    <3>1. tx'[q] = tx[q] /\ ContinuationOK(q) /\ ExchangeOK(q) /\ LockedOK(q) /\ Alone(q, t)
      BY <1>1, <2>2 DEF SlotsOK, Apart
    <3>2. ContinuationOK(q)'
      <4> SUFFICES ASSUME Continuing(q)
                   PROVE  ContinuationOK(q)'
        BY <3>1 DEF ContinuationOK, Continuing
      <4>1. tx[q].grant \in Grant
        BY BusySlot DEF Continuing
      <4>2. row'[tx[q].grant].status # "unborn"
        BY <3>1, <4>1 DEF ContinuationOK
      <4>3. row'[tx[q].grant].shown = row[tx[q].grant].shown
        BY <4>1
      <4>4. Direct(q) => tx[q].grant # g /\ Unanswered(tx[q].grant)
        BY <2>2, <3>1 DEF Alone, ContinuationOK
      <4>5. Direct(q)' => Unanswered(tx[q].grant)'
        BY <3>1, <4>1, <4>3, <4>4 DEF Direct, Unanswered
      <4>6. ASSUME At(q, "authorize") PROVE Unused(tx[q].code)'
        <5>1. /\ tx[q].code \in 1..lastCode /\ Unused(tx[q].code)
              /\ At(t, "authorize") => tx[q].code # tx[t].code
          BY <2>2, <3>1, <4>6 DEF ContinuationOK, Alone
        <5>2. tx[q].code # Denied
          BY <5>1, CodeRange
        <5>3. \A h \in Grant : row'[h].code # tx[q].code
          BY <5>1, <5>2 DEF Unused
        <5>4. answers'[g] # <<tx[q].code>>
          BY <5>1, <5>2 DEF Unused
        <5>5. \A h \in Grant : answers'[h] # <<tx[q].code>>
          BY <5>1, <5>4 DEF Unused
        <5> QED
          BY <3>1, <5>3, <5>5 DEF Unused
      <4> QED
        BY <3>1, <4>2, <4>5, <4>6 DEF ContinuationOK, Continuing, At
    <3>3. ExchangeOK(q)'
      <4> SUFFICES ASSUME Exchanging(q)
                   PROVE  ExchangeOK(q)'
        BY <3>1 DEF ExchangeOK, Exchanging
      <4>1. tx[q].grant \in Grant
        BY BusySlot DEF Exchanging
      <4>2. answers[tx[q].grant] = <<tx[q].code>> /\ tx[q].code \in Code
        BY <3>1 DEF ExchangeOK
      <4>3. answers'[tx[q].grant] = answers[tx[q].grant]
        BY <4>1, <4>2, OneElement DEF Unanswered
      <4> QED
        BY <3>1, <4>2, <4>3 DEF ExchangeOK, Exchanging
    <3>4. LockedOK(q)'
      <4> SUFFICES ASSUME tx[q].pc \in {"validate", "consume"}
                   PROVE  LockedOK(q)'
        BY <3>1 DEF LockedOK
      <4>1. tx[q].grant \in Grant
        BY BusySlot
      <4>2. answers[tx[q].grant] = <<tx[q].code>> /\ tx[q].code \in Code
        BY <3>1 DEF ExchangeOK, Exchanging
      <4>3. At(t, "authorize") => tx[q].code # tx[t].code
        BY <1>3, <4>1, <4>2 DEF Unused
      <4>4. tx[q].code # Denied
        BY <4>2 DEF Code, Denied
      <4>5. Has(tx[q].grant, tx[q].code)'
               => Has(tx[q].grant, tx[q].code) /\ row'[tx[q].grant] = row[tx[q].grant]
        BY <3>1, <4>1, <4>3, <4>4 DEF Has
      <4> QED
        BY <3>1, <4>5 DEF LockedOK, At
    <3> QED
      BY <3>2, <3>3, <3>4
  <2> QED
    BY <2>1, <2>2
<1>6. Apart'
  <2> SUFFICES ASSUME NEW q \in Tx, NEW u \in Tx, Continuing(q)', Continuing(u)'
               PROVE  Alone(q, u)'
    BY DEF Apart, Alone
  <2>1. q # t /\ u # t /\ tx'[q] = tx[q] /\ tx'[u] = tx[u]
    BY <1>1 DEF Continuing
  <2>2. Alone(q, u) /\ Continuing(q) /\ Continuing(u)
    BY <2>1 DEF Apart, Continuing
  <2>3. tx[q].grant \in Grant
    BY <2>2, BusySlot DEF Continuing
  <2>4. row'[tx[q].grant].shown = row[tx[q].grant].shown
    BY <2>3
  <2> QED
    BY <2>1, <2>2, <2>4 DEF Alone, Direct, At
<1>7. RequestsOK'
  <2> SUFFICES ASSUME NEW h \in Grant PROVE (AnswerOK(h) /\ IssueOK(h) /\ CodeOK(h))'
    BY DEF RequestsOK
  <2>1. AnswerOK(h) /\ IssueOK(h) /\ CodeOK(h) /\ IssueOK(g)
    BY DEF RequestsOK
  <2>2. AnswerOK(h)'
    <3>1. CASE h # g
      BY <2>1, <3>1 DEF AnswerOK, Unanswered
    <3>2. CASE h = g
      <4>1. Denied \in Answers /\ (At(t, "authorize") => tx[t].code \in Answers)
        BY <1>3 DEF Answers
      <4>2. Unanswered(g)' \/ \E a \in Answers : answers'[g] = <<a>>
        BY <2>1, <3>2, <4>1 DEF AnswerOK, Unanswered
      <4>3. row'[g].status = "pending" /\ row'[g].shown => Unanswered(g)'
        BY <2>1, <3>2 DEF AnswerOK, Unanswered
      <4>4. row'[g].status # "unborn"
        BY <1>2
      <4> QED
        BY <3>2, <4>2, <4>3, <4>4 DEF AnswerOK
    <3> QED
      BY <3>1, <3>2
  <2>3. IssueOK(h)'
    <3>1. CASE h # g
      BY <2>1, <3>1 DEF IssueOK
    <3>2. CASE h = g
      <4>1. Unanswered(g) => issued[g] = 0
        <5> SUFFICES ASSUME Unanswered(g), NEW c \in Code, answers[g] = <<c>>
                     PROVE  FALSE
          BY <2>1 DEF IssueOK
        <5> QED
          BY OneElement DEF Unanswered
      <4>2. row[g].status = "pending" => issued[g] = 0
        BY <2>1 DEF IssueOK
      <4> QED
        BY <2>1, <3>2, <4>1, <4>2 DEF IssueOK
    <3> QED
      BY <3>1, <3>2
  <2>4. CodeOK(h)'
    <3>1. row'[h].code <= lastCode
      <4>1. row[h].code <= lastCode
        BY <2>1 DEF CodeOK
      <4>2. Denied <= lastCode /\ (At(t, "authorize") => tx[t].code <= lastCode)
        BY <1>3, CodeRange DEF Denied
      <4> QED
        BY <4>1, <4>2
    <3>2. ASSUME NEW c \in Code, answers'[h] = <<c>>
          PROVE  /\ c <= lastCode
                 /\ \A k \in Grant : row'[k].code = c => h = k
      <4>1. CASE answers'[h] = answers[h]
        <5>1. c <= lastCode /\ \A k \in Grant : row[k].code = c => h = k
          BY <2>1, <3>2, <4>1 DEF CodeOK
        <5>2. At(t, "authorize") => c # tx[t].code
          BY <1>3, <3>2, <4>1 DEF Unused
        <5>3. c # Denied
          BY DEF Code, Denied
        <5>4. ASSUME NEW k \in Grant, row'[k].code = c PROVE h = k
          <6>1. row[k].code = c
            BY <5>2, <5>3, <5>4
          <6> QED
            BY <5>1, <6>1
        <5> QED
          BY <5>1, <5>4
      <4>2. CASE answers'[h] # answers[h]
        <5>1. h = g
          BY <4>2
        <5>2. c # Denied
          BY DEF Code, Denied
        <5>3. At(t, "authorize") /\ c = tx[t].code
          BY <3>2, <4>2, <5>1, <5>2
        <5> QED
          BY <1>3, <5>1, <5>3 DEF Unused, TypeOK
      <4> QED
        BY <4>1, <4>2
    <3> QED
      BY <3>1, <3>2 DEF CodeOK
  <2> QED
    BY <2>2, <2>3, <2>4
<1> QED
  BY <1>4, <1>5, <1>6, <1>7

\* A handler that moves, and what it must know afterwards.
LEMMA MoveInv ==
    ASSUME Inv, NEW t \in Tx, UNCHANGED <<account, row, answers, issued>>,
           tx' \in [Tx -> Request \cup {Idle}], \A q \in Tx \ {t} : tx'[q] = tx[q],
           lastCode' \in 0..MaxCode, lastCode <= lastCode',
           (ContinuationOK(t) /\ ExchangeOK(t) /\ LockedOK(t))',
           \A q \in Tx : (Alone(t, q) /\ Alone(q, t))'
    PROVE  Inv'
<1> USE DEF Inv
<1>1. lastCode \in Nat /\ lastCode' \in Nat
  BY CodeRange, ConstantsAssumption
<1>2. TypeOK'
  BY DEF TypeOK
<1>3. SlotsOK'
  BY <1>1, Undisturbed DEF SlotsOK
<1>4. Apart'
  <2> SUFFICES ASSUME NEW q \in Tx, NEW u \in Tx
               PROVE  Alone(q, u)'
    BY DEF Apart
  <2>1. CASE q = t \/ u = t
    BY <2>1
  <2>2. CASE q # t /\ u # t
    BY <2>2 DEF Apart, Alone, Continuing, Direct, At
  <2> QED
    BY <2>1, <2>2
<1>5. RequestsOK'
  <2> SUFFICES ASSUME NEW g \in Grant PROVE (AnswerOK(g) /\ IssueOK(g) /\ CodeOK(g))'
    BY DEF RequestsOK
  <2>1. AnswerOK(g) /\ IssueOK(g) /\ CodeOK(g)
    BY DEF RequestsOK
  <2>2. AnswerOK(g)' /\ IssueOK(g)'
    BY <2>1 DEF AnswerOK, IssueOK, Unanswered
  <2>3. CodeOK(g)'
    <3>1. row[g].code \in Nat
      BY RowField, CodeRange DEF Answers, Denied
    <3>2. row[g].code <= lastCode'
      BY <1>1, <2>1, <3>1 DEF CodeOK
    <3>3. \A c \in Code : answers[g] = <<c>> => c <= lastCode'
      BY <1>1, <2>1, CodeRange DEF CodeOK
    <3> QED
      BY <2>1, <3>2, <3>3 DEF CodeOK
  <2> QED
    BY <2>2, <2>3
<1> QED
  BY <1>2, <1>3, <1>4, <1>5

LEMMA ContinueInv ==
    ASSUME Inv, NEW t \in Tx, NEW g \in Grant, NEW u \in User, Continue(t, g, u)
    PROVE  Inv'
<1> USE DEF Inv
<1>1. /\ tx' \in [Tx -> Request \cup {Idle}]
      /\ tx'[t].pc = "checkUser" /\ tx'[t].grant = g /\ tx'[t].user = u
      /\ \A q \in Tx \ {t} : tx'[q] = tx[q]
  BY StartStep DEF Continue, PC, Answers
<1>2. UNCHANGED <<account, row, lastCode, answers, issued>> /\ row[g].shown
  BY DEF Continue
<1>3. row[g].status # "unborn"
  BY <1>2 DEF RequestsOK, AnswerOK
<1>4. (ContinuationOK(t) /\ ExchangeOK(t) /\ LockedOK(t))'
  BY <1>1, <1>2, <1>3 DEF ContinuationOK, ExchangeOK, LockedOK, Exchanging, Direct, At
<1>5. \A q \in Tx : (Alone(t, q) /\ Alone(q, t))'
  BY <1>1, <1>2 DEF Alone, Direct, At
<1>6. lastCode' \in 0..MaxCode /\ lastCode <= lastCode'
  BY <1>2, CodeRange
<1> QED
  BY <1>1, <1>2, <1>4, <1>5, <1>6, MoveInv

LEMMA CheckUserInv ==
    ASSUME Inv, NEW t \in Tx, CheckUser(t)
    PROVE  Inv'
<1> USE DEF Inv
<1>1. UNCHANGED <<account, row, answers, issued>> /\ tx[t].pc = "checkUser"
  BY DEF CheckUser, At
<1>2. tx[t] \in Request /\ Continuing(t) /\ tx[t].grant \in Grant
  BY <1>1, BusySlot DEF Continuing
<1>3. ContinuationOK(t) /\ \A q \in Tx : Alone(t, q) /\ Alone(q, t)
  BY DEF SlotsOK, Apart
<1>4. CASE /\ lastCode < MaxCode
           /\ lastCode' = lastCode + 1
           /\ tx' = [tx EXCEPT ![t] = [@ EXCEPT !.pc = "authorize", !.code = lastCode + 1]]
  <2> DEFINE R == [tx[t] EXCEPT !.pc = "authorize", !.code = lastCode + 1]
  <2>1. /\ lastCode + 1 \in Code /\ lastCode' \in 0..MaxCode /\ lastCode <= lastCode'
        /\ lastCode' \in 1..lastCode'
    BY <1>4, CodeRange DEF Code
  <2>2. /\ R \in Request
        /\ R.pc = "authorize" /\ R.code = lastCode + 1
        /\ R.grant = tx[t].grant /\ R.user = tx[t].user
    BY <1>2, <2>1 DEF Request, PC
  <2>3. tx' = [tx EXCEPT ![t] = R]
    BY <1>4
  <2> HIDE DEF R
  <2>4. tx'[t] = R /\ \A q \in Tx \ {t} : tx'[q] = tx[q]
    BY <2>3 DEF TypeOK
  <2>5. tx' \in [Tx -> Request \cup {Idle}]
    BY <2>2, <2>3 DEF TypeOK
  <2>6. Unused(lastCode + 1)
    <3>1. \A h \in Grant : row[h].code # lastCode + 1
      <4> SUFFICES ASSUME NEW h \in Grant PROVE row[h].code # lastCode + 1
        OBVIOUS
      <4>1. row[h].code <= lastCode
        BY DEF RequestsOK, CodeOK
      <4> QED
        BY <4>1, CodeRange
    <3>2. \A h \in Grant : answers[h] # <<lastCode + 1>>
      <4> SUFFICES ASSUME NEW h \in Grant, answers[h] = <<lastCode + 1>> PROVE FALSE
        OBVIOUS
      <4>1. lastCode + 1 <= lastCode
        BY <2>1 DEF RequestsOK, CodeOK
      <4> QED
        BY <4>1, CodeRange
    <3> QED
      BY <3>1, <3>2 DEF Unused
  <2>7. (ContinuationOK(t) /\ ExchangeOK(t) /\ LockedOK(t))'
    <3>1. Unused(tx[t].code)'
      BY <1>1, <2>2, <2>4, <2>6 DEF Unused
    <3>2. tx'[t].code \in 1..lastCode'
      BY <1>4, <2>1, <2>2, <2>4
    <3> QED
      BY <1>1, <1>2, <1>3, <2>2, <2>4, <3>1, <3>2
      DEF ContinuationOK, ExchangeOK, LockedOK, Exchanging, Continuing, Direct, Unanswered, At
  <2>8. ASSUME NEW q \in Tx PROVE (Alone(t, q) /\ Alone(q, t))'
    <3>1. CASE q = t
      BY <3>1 DEF Alone
    <3>2. CASE q # t
      <4>1. At(q, "authorize") => tx[q].code # lastCode + 1
        <5> SUFFICES ASSUME At(q, "authorize") PROVE tx[q].code # lastCode + 1
          OBVIOUS
        <5>1. tx[q].code \in 1..lastCode
          BY DEF SlotsOK, ContinuationOK, Continuing, At
        <5> QED
          BY <5>1, CodeRange
      <4>2. tx'[q] = tx[q] /\ tx'[t] = R
        BY <2>4, <3>2
      <4> QED
        BY <1>1, <1>2, <1>3, <2>2, <4>1, <4>2 DEF Alone, Continuing, Direct, At
    <3> QED
      BY <3>1, <3>2
  <2> QED
    BY <1>1, <2>1, <2>4, <2>5, <2>7, <2>8, MoveInv
<1>5. CASE Goto(t, "cancel") /\ UNCHANGED lastCode
  <2>1. /\ tx' \in [Tx -> Request \cup {Idle}]
        /\ tx'[t].pc = "cancel" /\ tx'[t].grant = tx[t].grant
        /\ tx'[t].user = tx[t].user
        /\ \A q \in Tx \ {t} : tx'[q] = tx[q]
    BY <1>1, <1>5, GotoStep DEF PC
  <2>2. (ContinuationOK(t) /\ ExchangeOK(t) /\ LockedOK(t))'
    BY <1>1, <1>2, <1>3, <1>5, <2>1
    DEF ContinuationOK, ExchangeOK, LockedOK, Exchanging, Continuing, Direct, Unanswered, At
  <2>3. \A q \in Tx : (Alone(t, q) /\ Alone(q, t))'
    BY <1>1, <1>2, <1>3, <2>1 DEF Alone, Continuing, Direct, At
  <2>4. lastCode' \in 0..MaxCode /\ lastCode <= lastCode'
    BY <1>5, CodeRange
  <2> QED
    BY <1>1, <2>1, <2>2, <2>3, <2>4, MoveInv
<1> QED
  BY <1>4, <1>5 DEF CheckUser

LEMMA ExchangeInv ==
    ASSUME Inv, NEW t \in Tx, NEW g \in Grant, NEW c \in Code, NEW f \in BOOLEAN,
           Exchange(t, g, c, f)
    PROVE  Inv'
<1> USE DEF Inv
<1>1. /\ tx' \in [Tx -> Request \cup {Idle}]
      /\ tx'[t].pc = "lock" /\ tx'[t].grant = g /\ tx'[t].code = c
      /\ \A q \in Tx \ {t} : tx'[q] = tx[q]
  BY StartStep DEF Exchange, PC, Answers
<1>2. UNCHANGED <<account, row, lastCode, answers, issued>> /\ answers[g] = <<c>>
  BY DEF Exchange
<1>3. (ContinuationOK(t) /\ ExchangeOK(t) /\ LockedOK(t))'
  BY <1>1, <1>2 DEF ContinuationOK, ExchangeOK, LockedOK, Continuing
<1>4. \A q \in Tx : (Alone(t, q) /\ Alone(q, t))'
  BY <1>1 DEF Alone, Continuing
<1>5. lastCode' \in 0..MaxCode /\ lastCode <= lastCode'
  BY <1>2, CodeRange
<1> QED
  BY <1>1, <1>2, <1>3, <1>4, <1>5, MoveInv

LEMMA LockCodeInv ==
    ASSUME Inv, NEW t \in Tx, LockCode(t)
    PROVE  Inv'
<1> USE DEF Inv
<1>1. UNCHANGED <<account, row, lastCode, answers, issued>> /\ tx[t].pc = "lock"
  BY DEF LockCode, At
<1>2. tx[t] \in Request /\ tx[t].grant \in Grant
  BY <1>1, BusySlot
<1>3. tx[t].code \in Code /\ answers[tx[t].grant] = <<tx[t].code>>
  BY <1>1 DEF SlotsOK, ExchangeOK, Exchanging
<1>4. ASSUME NEW g \in Grant, Has(g, tx[t].code),
             tx' = [tx EXCEPT ![t] = [@ EXCEPT !.pc = "validate", !.grant = g,
                                              !.user = row[g].user]]
      PROVE  Inv'
  <2>1. tx[t].grant = g
    BY <1>2, <1>3, <1>4 DEF Has, RequestsOK, CodeOK
  <2>2. row[g].user \in User
    BY <1>4, RowField DEF Has, TypeOK
  <2> DEFINE R == [tx[t] EXCEPT !.pc = "validate", !.grant = g, !.user = row[g].user]
  <2>3. /\ R \in Request /\ R.pc = "validate" /\ R.grant = g
        /\ R.user = row[g].user /\ R.code = tx[t].code
    BY <1>2, <2>2 DEF Request, PC
  <2>4. tx' = [tx EXCEPT ![t] = R]
    BY <1>4
  <2> HIDE DEF R
  <2>5. tx'[t] = R /\ \A q \in Tx \ {t} : tx'[q] = tx[q]
    BY <2>4 DEF TypeOK
  <2>6. tx' \in [Tx -> Request \cup {Idle}]
    BY <2>3, <2>4 DEF TypeOK
  <2>7. (ContinuationOK(t) /\ ExchangeOK(t) /\ LockedOK(t))'
    BY <1>1, <1>3, <2>1, <2>2, <2>3, <2>5
    DEF ContinuationOK, ExchangeOK, LockedOK, Continuing, At
  <2>8. \A q \in Tx : (Alone(t, q) /\ Alone(q, t))'
    BY <2>3, <2>5 DEF Alone, Continuing
  <2>9. lastCode' \in 0..MaxCode /\ lastCode <= lastCode'
    BY <1>1, CodeRange
  <2> QED
    BY <1>1, <2>5, <2>6, <2>7, <2>8, <2>9, MoveInv
<1>5. CASE Finish(t)
  BY <1>1, <1>5, EndedInv
<1> QED
  BY <1>4, <1>5 DEF LockCode

LEMMA ValidateInv ==
    ASSUME Inv, NEW t \in Tx, Validate(t)
    PROVE  Inv'
<1> USE DEF Inv
<1>1. UNCHANGED <<account, row, lastCode, answers, issued>> /\ tx[t].pc = "validate"
  BY DEF Validate, At
<1>2. CASE Goto(t, "consume") /\ account[tx[t].user] = "verified"
  <2>1. /\ tx' \in [Tx -> Request \cup {Idle}]
        /\ tx'[t].pc = "consume" /\ tx'[t].grant = tx[t].grant
        /\ tx'[t].user = tx[t].user /\ tx'[t].code = tx[t].code
        /\ \A q \in Tx \ {t} : tx'[q] = tx[q]
    BY <1>1, <1>2, GotoStep DEF PC
  <2>2. ExchangeOK(t) /\ LockedOK(t)
    BY DEF SlotsOK
  <2>3. (ContinuationOK(t) /\ ExchangeOK(t) /\ LockedOK(t))'
    BY <1>1, <1>2, <2>1, <2>2
    DEF ContinuationOK, ExchangeOK, LockedOK, Continuing, Exchanging, At, Has
  <2>4. \A q \in Tx : (Alone(t, q) /\ Alone(q, t))'
    BY <2>1 DEF Alone, Continuing
  <2>5. lastCode' \in 0..MaxCode /\ lastCode <= lastCode'
    BY <1>1, CodeRange
  <2> QED
    BY <1>1, <2>1, <2>3, <2>4, <2>5, MoveInv
<1>3. CASE Finish(t)
  BY <1>1, <1>3, EndedInv
<1> QED
  BY <1>2, <1>3 DEF Validate

\* The failure of a handler, which is answered when it is direct.
LEMMA FailInv ==
    ASSUME Inv, NEW t \in Tx, tx[t].pc # "idle", Fail(t),
           UNCHANGED <<account, row, lastCode, issued>>
    PROVE  Inv'
<1>1. CASE UNCHANGED answers
  BY <1>1, EndedInv DEF Fail
<1>2. CASE Continuing(t) /\ Direct(t) /\ Answer(tx[t].grant, Denied)
  <2> DEFINE g == tx[t].grant
  <2>1. TypeOK /\ g \in Grant /\ Denied \in Answers
    BY BusySlot DEF Inv, Answers
  <2>2. Unanswered(g)
    BY <1>2, FirstAnswer
  <2>3. /\ answers' \in [Grant -> Seq(Answers)]
        /\ answers'[g] = <<Denied>>
        /\ \A h \in Grant \ {g} : answers'[h] = answers[h]
    BY <1>2, <2>1, <2>2, AnswerStep
  <2>4. ~row[g].shown
    BY <1>2 DEF Direct
  <2>5. row \in [Grant -> Row]
    BY <2>1 DEF TypeOK
  <2>6. Finish(t)
    BY DEF Fail
  <2> HIDE DEF g
  <2>7. g = tx[t].grant
    BY DEF g
  <2> QED
    BY <1>2, <2>1, <2>2, <2>3, <2>4, <2>5, <2>6, <2>7, ContinuationEnds
<1> QED
  BY <1>1, <1>2 DEF Fail, Continuing

LEMMA AuthorizeInv ==
    ASSUME Inv, NEW t \in Tx, Authorize(t)
    PROVE  Inv'
<1> DEFINE g == tx[t].grant
<1>1. /\ UNCHANGED <<account, lastCode, issued>>
      /\ tx[t].pc = "authorize" /\ At(t, "authorize") /\ Continuing(t)
  BY DEF Authorize, At, Continuing
<1>2. TypeOK /\ g \in Grant
  BY <1>1, BusySlot DEF Inv
<1>3. tx[t].user \in User /\ tx[t].code \in Code
  BY <1>1, <1>2, CodeRange DEF Inv, SlotsOK, ContinuationOK
<1>4. CASE MayBind(t) /\ row' = Bound(t)
  <2>1. /\ row' \in [Grant -> Row]
        /\ row'[g].status = "authorized" /\ row'[g].user = tx[t].user
        /\ row'[g].code = tx[t].code /\ row'[g].shown = row[g].shown
        /\ \A h \in Grant \ {g} : row'[h] = row[h]
    BY <1>2, <1>3, <1>4, BoundStep
  <2>2. row[g].status = "pending" /\ Unanswered(g)
    BY <1>1, <1>4, FirstAnswer DEF MayBind
  <2>3. Denied \in Answers /\ tx[t].code \in Answers
    BY <1>3 DEF Answers
  <2>4. Finish(t) /\ \/ Answer(g, tx[t].code) \/ Answer(g, Denied) \/ UNCHANGED answers
    BY <1>4 DEF Authorize, Fail
  <2>5. answers \in [Grant -> Seq(Answers)]
    BY <1>2 DEF TypeOK, Answers
  <2>6. /\ answers' \in [Grant -> Seq(Answers)]
        /\ \A h \in Grant \ {g} : answers'[h] = answers[h]
        /\ \/ answers'[g] = answers[g]
           \/ answers'[g] = <<Denied>>
           \/ answers'[g] = <<tx[t].code>>
    BY <1>2, <2>2, <2>3, <2>4, <2>5, AnswerStep
  <2> HIDE DEF g
  <2>7. g = tx[t].grant
    BY DEF g
  <2>8. row'[g].status # "pending"
    BY <2>1
  <2> QED
    BY <1>1, <1>2, <2>1, <2>2, <2>4, <2>6, <2>7, <2>8, ContinuationEnds
<1>5. CASE Fail(t) /\ UNCHANGED row
  BY <1>1, <1>5, FailInv
<1> QED
  BY <1>4, <1>5 DEF Authorize

LEMMA CancelInv ==
    ASSUME Inv, NEW t \in Tx, Cancel(t)
    PROVE  Inv'
<1> DEFINE g == tx[t].grant
<1>1. /\ UNCHANGED <<account, lastCode, issued>>
      /\ tx[t].pc = "cancel" /\ Continuing(t)
  BY DEF Cancel, At, Continuing
<1>2. TypeOK /\ g \in Grant
  BY <1>1, BusySlot DEF Inv
<1>3. CASE row[g].status = "pending" /\ row' = [row EXCEPT ![g].status = "deleted"]
  <2>1. row[g].code = Denied
    BY <1>2, <1>3 DEF TypeOK
  <2>2. row' = [row EXCEPT ![g] = [row[g] EXCEPT !.status = "deleted"]]
    BY <1>3
  <2> DEFINE B == [row[g] EXCEPT !.status = "deleted"]
  <2>3. B \in Row /\ B.status = "deleted" /\ B.code = row[g].code /\ B.shown = row[g].shown
    BY <1>2, RowField DEF Row, Status
  <2> HIDE DEF B
  <2>4. row'[g] = B /\ \A h \in Grant \ {g} : row'[h] = row[h]
    BY <1>2, <2>2 DEF TypeOK, B
  <2>5. row' \in [Grant -> Row]
    BY <1>2, <2>2, <2>3 DEF TypeOK, B
  <2>6. Unanswered(g) /\ Denied \in Answers
    BY <1>1, <1>3, FirstAnswer DEF Answers
  <2>7. Finish(t) /\ (Answer(g, Denied) \/ UNCHANGED answers)
    BY <1>3 DEF Cancel, Fail
  <2>8. answers \in [Grant -> Seq(Answers)]
    BY <1>2 DEF TypeOK, Answers
  <2>9. /\ answers' \in [Grant -> Seq(Answers)]
        /\ \A h \in Grant \ {g} : answers'[h] = answers[h]
        /\ \/ answers'[g] = answers[g]
           \/ answers'[g] = <<Denied>>
    BY <1>2, <2>6, <2>7, <2>8, AnswerStep
  <2>10. /\ row'[g].status = "deleted" /\ row'[g].status # "pending"
         /\ row'[g].code = Denied /\ row'[g].shown = row[g].shown
    BY <2>1, <2>3, <2>4
  <2> HIDE DEF g
  <2>11. g = tx[t].grant
    BY DEF g
  <2> QED
    BY <1>1, <1>2, <1>3, <2>4, <2>5, <2>6, <2>7, <2>9, <2>10, <2>11, ContinuationEnds
<1>4. CASE Fail(t) /\ UNCHANGED row
  BY <1>1, <1>4, FailInv
<1> QED
  BY <1>3, <1>4 DEF Cancel

-----------------------------------------------------------------------------
(* Rows that are created, consumed, deleted or expire *)

Born(h) ==
    /\ row[h].status = "unborn"
    /\ row'[h].status = "pending"
    /\ row'[h].code = Denied

Fades(h) ==
    /\ row'[h].shown = row[h].shown
    /\ \/ /\ row'[h].status = row[h].status
          /\ row'[h].code = row[h].code
          /\ row'[h].user = row[h].user
       \/ /\ row[h].status # "unborn"
          /\ row'[h].status \in {"consumed", "deleted"}
          /\ row'[h].code = Denied

\* The handlers that do not move keep what they know.
LEMMA Bystander ==
    ASSUME Inv, NEW q \in Tx, tx'[q] = tx[q], UNCHANGED <<account, lastCode, answers>>,
           \A h \in Grant : Born(h) \/ Fades(h)
    PROVE  (ContinuationOK(q) /\ ExchangeOK(q) /\ LockedOK(q))'
<1> USE DEF Inv
<1>1. ContinuationOK(q) /\ ExchangeOK(q) /\ LockedOK(q)
  BY DEF SlotsOK
<1>2. ContinuationOK(q)'
  <2> SUFFICES ASSUME Continuing(q) PROVE ContinuationOK(q)'
    BY DEF ContinuationOK, Continuing
  <2>1. tx[q].grant \in Grant /\ row[tx[q].grant].status # "unborn"
    BY <1>1, BusySlot DEF Continuing, ContinuationOK
  <2>2. Fades(tx[q].grant)
    BY <2>1 DEF Born
  <2>3. /\ row'[tx[q].grant].status # "unborn"
        /\ row'[tx[q].grant].shown = row[tx[q].grant].shown
    BY <2>1, <2>2 DEF Fades
  <2>4. ASSUME At(q, "authorize") PROVE Unused(tx[q].code)'
    <3>1. tx[q].code # Denied /\ Unused(tx[q].code)
      BY <1>1, <2>4, CodeRange DEF ContinuationOK, Continuing
    <3>2. \A h \in Grant : row'[h].code # tx[q].code
      BY <3>1 DEF Unused, Born, Fades
    <3> QED
      BY <3>1, <3>2 DEF Unused
  <2> QED
    BY <1>1, <2>3, <2>4 DEF ContinuationOK, Continuing, Direct, Unanswered, At
<1>3. ExchangeOK(q)'
  BY <1>1 DEF ExchangeOK, Exchanging
<1>4. LockedOK(q)'
  <2> SUFFICES ASSUME tx[q].pc \in {"validate", "consume"} PROVE LockedOK(q)'
    BY DEF LockedOK
  <2>1. tx[q].grant \in Grant /\ tx[q].code # Denied
    BY <1>1, BusySlot, CodeRange DEF ExchangeOK, Exchanging
  <2>2. Has(tx[q].grant, tx[q].code)'
           => /\ Has(tx[q].grant, tx[q].code)
              /\ row'[tx[q].grant].user = row[tx[q].grant].user
    BY <2>1 DEF Has, Born, Fades
  <2> QED
    BY <1>1, <2>2 DEF LockedOK, At
<1> QED
  BY <1>2, <1>3, <1>4

LEMMA BystandersApart ==
    ASSUME Inv, NEW q \in Tx, NEW u \in Tx, tx'[q] = tx[q], tx'[u] = tx[u],
           \A h \in Grant : Born(h) \/ Fades(h)
    PROVE  Alone(q, u)'
<1> USE DEF Inv
<1> SUFFICES ASSUME Continuing(q), Continuing(u) PROVE Alone(q, u)'
  BY DEF Alone, Continuing
<1>1. tx[q].grant \in Grant /\ row[tx[q].grant].status # "unborn" /\ Alone(q, u)
  BY BusySlot DEF Continuing, ContinuationOK, SlotsOK, Apart
<1>2. row'[tx[q].grant].shown = row[tx[q].grant].shown
  BY <1>1 DEF Born, Fades
<1> QED
  BY <1>1, <1>2 DEF Alone, Direct, At

LEMMA RowsFade ==
    ASSUME Inv, NEW h \in Grant, UNCHANGED <<lastCode, answers>>,
           \A k \in Grant : Born(k) \/ Fades(k)
    PROVE  AnswerOK(h)' /\ CodeOK(h)'
<1> USE DEF Inv
<1>1. AnswerOK(h) /\ CodeOK(h)
  BY DEF RequestsOK
<1>2. Born(h) \/ Fades(h)
  OBVIOUS
<1>3. AnswerOK(h)'
  BY <1>1, <1>2 DEF AnswerOK, Born, Fades, Unanswered
<1>4. row'[h].code <= lastCode
  BY <1>1, <1>2, CodeRange DEF CodeOK, Born, Fades, Denied
<1>5. \A c \in Code, k \in Grant : answers[h] = <<c>> /\ row'[k].code = c => h = k
  BY <1>1, CodeRange DEF CodeOK, Born, Fades
<1>6. CodeOK(h)'
  BY <1>1, <1>4, <1>5 DEF CodeOK
<1> QED
  BY <1>3, <1>6

\* A row that is not consumed keeps its session, or has none yet.
LEMMA IssueFades ==
    ASSUME Inv, NEW h \in Grant, UNCHANGED <<issued, answers>>, Born(h) \/ Fades(h)
    PROVE  IssueOK(h)'
BY DEF Inv, RequestsOK, IssueOK, Born, Fades

LEMMA CreateFades ==
    ASSUME Inv, NEW g \in Grant, NEW b \in BOOLEAN, Create(g, b)
    PROVE  /\ row' \in [Grant -> Row] /\ Born(g) /\ row'[g].shown = b
           /\ \A h \in Grant : Born(h) \/ Fades(h)
           /\ \A h \in Grant : /\ row'[h].status = "authorized" <=> row'[h].code # Denied
                               /\ row'[h].status \in {"authorized", "consumed"}
                                    => row'[h].user # Nobody
<1>1. /\ row' \in [Grant -> Row]
      /\ row[g].status = "unborn" /\ ~row[g].shown
      /\ row'[g].status = "pending" /\ row'[g].shown = b /\ row'[g].code = Denied
      /\ \A h \in Grant \ {g} :
           \/ row'[h] = row[h]
           \/ /\ Exists(h) /\ row[h].expired
              /\ row'[h].status = "deleted" /\ row'[h].code = Denied
              /\ row'[h].shown = row[h].shown
  BY CreateStep DEF Inv
<1>2. Born(g)
  BY <1>1 DEF Born
<1>3. \A h \in Grant \ {g} : Fades(h)
  BY <1>1 DEF Fades, Exists
<1>4. ASSUME NEW h \in Grant
      PROVE  /\ row'[h].status = "authorized" <=> row'[h].code # Denied
             /\ row'[h].status \in {"authorized", "consumed"} => row'[h].user # Nobody
  <2>1. /\ row[h].status = "authorized" <=> row[h].code # Denied
        /\ row[h].status \in {"authorized", "consumed"} => row[h].user # Nobody
    BY DEF Inv, TypeOK
  <2> QED
    BY <1>1, <2>1
<1> QED
  BY <1>1, <1>2, <1>3, <1>4

LEMMA AnonymousInv ==
    ASSUME Inv, NEW g \in Grant, AuthorizeAnonymous(g)
    PROVE  Inv'
<1>1. UNCHANGED <<account, tx, lastCode, answers, issued>> /\ Create(g, TRUE)
  BY DEF AuthorizeAnonymous
<1>2. /\ row' \in [Grant -> Row]
      /\ \A h \in Grant : Born(h) \/ Fades(h)
      /\ \A h \in Grant : /\ row'[h].status = "authorized" <=> row'[h].code # Denied
                          /\ row'[h].status \in {"authorized", "consumed"}
                               => row'[h].user # Nobody
  BY <1>1, CreateFades
<1>3. TypeOK'
  BY <1>1, <1>2 DEF Inv, TypeOK
<1>4. SlotsOK'
  BY <1>1, <1>2, Bystander DEF SlotsOK
<1>5. Apart'
  BY <1>1, <1>2, BystandersApart DEF Apart
<1>6. RequestsOK'
  BY <1>1, <1>2, RowsFade, IssueFades DEF RequestsOK
<1> QED
  BY <1>3, <1>4, <1>5, <1>6 DEF Inv

LEMMA SignedInInv ==
    ASSUME Inv, NEW t \in Tx, NEW g \in Grant, NEW u \in User, AuthorizeSignedIn(t, g, u)
    PROVE  Inv'
<1>1. /\ UNCHANGED <<account, lastCode, answers, issued>> /\ Create(g, FALSE)
      /\ Start(t, "checkUser", g, u, Denied, FALSE)
  BY DEF AuthorizeSignedIn
<1>2. /\ row' \in [Grant -> Row] /\ Born(g) /\ row'[g].shown = FALSE
      /\ \A h \in Grant : Born(h) \/ Fades(h)
      /\ \A h \in Grant : /\ row'[h].status = "authorized" <=> row'[h].code # Denied
                          /\ row'[h].status \in {"authorized", "consumed"}
                               => row'[h].user # Nobody
  BY <1>1, CreateFades
<1>3. /\ tx' \in [Tx -> Request \cup {Idle}]
      /\ tx'[t].pc = "checkUser" /\ tx'[t].grant = g /\ tx'[t].user = u
      /\ \A q \in Tx \ {t} : tx'[q] = tx[q]
  BY <1>1, StartStep DEF Inv, PC, Answers
<1>4. Unanswered(g)
  BY <1>2 DEF Inv, RequestsOK, AnswerOK, Born
<1>5. TypeOK'
  BY <1>1, <1>2, <1>3 DEF Inv, TypeOK
<1>6. SlotsOK'
  <2>1. (ContinuationOK(t) /\ ExchangeOK(t) /\ LockedOK(t))'
    BY <1>1, <1>2, <1>3, <1>4
    DEF ContinuationOK, ExchangeOK, LockedOK, Exchanging, Unanswered, At, Born
  <2> QED
    BY <1>1, <1>2, <1>3, <2>1, Bystander DEF SlotsOK
<1>7. Apart'
  <2> SUFFICES ASSUME NEW q \in Tx, NEW x \in Tx PROVE Alone(q, x)'
    BY DEF Apart
  <2>1. ASSUME NEW y \in Tx \ {t}, Continuing(y)' PROVE tx'[y].grant # g
    <3>1. tx'[y] = tx[y] /\ ContinuationOK(y)
      BY <1>3 DEF Inv, SlotsOK
    <3> QED
      BY <1>2, <2>1, <3>1 DEF ContinuationOK, Continuing, Born
  <2>2. CASE q # t /\ x # t
    BY <1>2, <1>3, <2>2, BystandersApart
  <2>3. CASE q = t \/ x = t
    BY <1>3, <2>1, <2>3 DEF Alone, At
  <2> QED
    BY <2>2, <2>3
<1>8. RequestsOK'
  BY <1>1, <1>2, RowsFade, IssueFades DEF RequestsOK
<1> QED
  BY <1>5, <1>6, <1>7, <1>8 DEF Inv

\* A row whose status, code or expiry is written, and no other.
LEMMA WriteStep ==
    ASSUME TypeOK, NEW g \in Grant,
           NEW B \in Row, row' = [row EXCEPT ![g] = B]
    PROVE  row' \in [Grant -> Row] /\ row'[g] = B /\ \A h \in Grant \ {g} : row'[h] = row[h]
BY DEF TypeOK

LEMMA ConsumedRow ==
    ASSUME TypeOK, NEW g \in Grant
    PROVE  LET B == [row[g] EXCEPT !.status = "consumed", !.code = Denied] IN
           /\ B \in Row /\ B.status = "consumed" /\ B.code = Denied
           /\ B.user = row[g].user /\ B.shown = row[g].shown
BY RowField DEF Row, Status, Denied

\* The exchange that consumes its code.
LEMMA Consumed ==
    ASSUME Inv, NEW t \in Tx, tx[t].pc = "consume", NEW g \in Grant, g = tx[t].grant,
           Has(g, tx[t].code),
           row' = [row EXCEPT ![g].status = "consumed", ![g].code = Denied]
    PROVE  /\ row' \in [Grant -> Row] /\ \A h \in Grant : Fades(h)
           /\ row'[g].status = "consumed" /\ row'[g].code = Denied
           /\ row'[g].user = row[g].user /\ row[g].user # Nobody
           /\ \A h \in Grant \ {g} : row'[h] = row[h]
<1> DEFINE B == [row[g] EXCEPT !.status = "consumed", !.code = Denied]
<1>0. TypeOK
  BY DEF Inv
<1>1. /\ B \in Row /\ B.status = "consumed" /\ B.code = Denied
      /\ B.user = row[g].user /\ B.shown = row[g].shown
  BY <1>0, ConsumedRow
<1>2. row' = [row EXCEPT ![g] = B]
  BY DEF Inv, TypeOK
<1>3. row[g].status = "authorized" /\ row[g].user # Nobody
  BY DEF Has, Inv, TypeOK
<1> HIDE DEF B
<1>4. row' \in [Grant -> Row] /\ row'[g] = B /\ \A h \in Grant \ {g} : row'[h] = row[h]
  BY <1>1, <1>2, WriteStep DEF Inv
<1>5. \A h \in Grant : Fades(h)
  BY <1>1, <1>3, <1>4 DEF Fades
<1> QED
  BY <1>1, <1>3, <1>4, <1>5

LEMMA ConsumeInv ==
    ASSUME Inv, NEW t \in Tx, Consume(t)
    PROVE  Inv'
<1> DEFINE g == tx[t].grant
<1>1. UNCHANGED <<account, lastCode, answers>> /\ tx[t].pc = "consume" /\ Finish(t)
  BY DEF Consume, At
<1>2. TypeOK /\ g \in Grant
  BY <1>1, BusySlot DEF Inv
<1>3. CASE UNCHANGED <<row, issued>>
  BY <1>1, <1>3, EndedInv
<1>4. CASE /\ Has(g, tx[t].code)
           /\ row' = [row EXCEPT ![g].status = "consumed", ![g].code = Denied]
           /\ issued' = [issued EXCEPT ![g] = @ + 1]
  <2>1. /\ row' \in [Grant -> Row] /\ \A h \in Grant : Fades(h)
        /\ row'[g].status = "consumed" /\ row'[g].code = Denied
        /\ row'[g].user = row[g].user /\ row[g].user # Nobody
        /\ \A h \in Grant \ {g} : row'[h] = row[h]
    BY <1>1, <1>2, <1>4, Consumed
  <2>2. /\ tx' \in [Tx -> Request \cup {Idle}]
        /\ tx'[t].pc = "idle" /\ \A q \in Tx \ {t} : tx'[q] = tx[q]
    BY <1>1, <1>2, FinishStep
  <2>3. /\ issued' \in [Grant -> Nat] /\ issued'[g] = issued[g] + 1
        /\ \A h \in Grant \ {g} : issued'[h] = issued[h]
    BY <1>2, <1>4 DEF TypeOK
  <2>4. issued[g] = 0
    BY <1>2, <1>4 DEF Inv, RequestsOK, IssueOK, Has
  <2>5. tx[t].code \in Code /\ answers[g] = <<tx[t].code>>
    BY <1>1 DEF Inv, SlotsOK, ExchangeOK, Exchanging
  <2> HIDE DEF g
  <2>6. TypeOK'
    <3>1. ASSUME NEW h \in Grant
          PROVE  /\ row'[h].status = "authorized" <=> row'[h].code # Denied
                 /\ row'[h].status \in {"authorized", "consumed"} => row'[h].user # Nobody
      <4>1. /\ row[h].status = "authorized" <=> row[h].code # Denied
            /\ row[h].status \in {"authorized", "consumed"} => row[h].user # Nobody
        BY <1>2 DEF TypeOK
      <4> QED
        BY <2>1, <4>1
    <3> QED
      BY <1>1, <1>2, <2>1, <2>2, <2>3, <3>1 DEF TypeOK
  <2>7. SlotsOK'
    <3>1. (ContinuationOK(t) /\ ExchangeOK(t) /\ LockedOK(t))'
      BY <2>2 DEF ContinuationOK, ExchangeOK, LockedOK, Continuing, Exchanging
    <3> QED
      BY <1>1, <2>1, <2>2, <3>1, Bystander DEF SlotsOK
  <2>8. Apart'
    <3> SUFFICES ASSUME NEW q \in Tx, NEW u \in Tx PROVE Alone(q, u)'
      BY DEF Apart
    <3>1. CASE q = t \/ u = t
      BY <2>2, <3>1 DEF Alone, Continuing
    <3>2. CASE q # t /\ u # t
      BY <2>1, <2>2, <3>2, BystandersApart
    <3> QED
      BY <3>1, <3>2
  <2>9. RequestsOK'
    <3> SUFFICES ASSUME NEW h \in Grant PROVE (AnswerOK(h) /\ IssueOK(h) /\ CodeOK(h))'
      BY DEF RequestsOK
    <3>1. AnswerOK(h)' /\ CodeOK(h)'
      BY <1>1, <2>1, RowsFade
    <3>2. IssueOK(h)'
      <4>1. CASE h = g
        BY <1>1, <2>1, <2>3, <2>4, <2>5, <4>1 DEF IssueOK
      <4>2. CASE h # g
        BY <1>1, <2>1, <2>3, <4>2 DEF Inv, RequestsOK, IssueOK
      <4> QED
        BY <4>1, <4>2
    <3> QED
      BY <3>1, <3>2
  <2> QED
    BY <2>6, <2>7, <2>8, <2>9 DEF Inv
<1> QED
  BY <1>3, <1>4 DEF Consume

LEMMA ExpireInv ==
    ASSUME Inv, NEW g \in Grant, Expire(g)
    PROVE  Inv'
<1>1. /\ UNCHANGED <<account, tx, lastCode, answers, issued>>
      /\ row' = [row EXCEPT ![g].expired = TRUE]
  BY DEF Expire
<1> DEFINE B == [row[g] EXCEPT !.expired = TRUE]
<1>2. /\ B \in Row /\ B.status = row[g].status /\ B.code = row[g].code
      /\ B.user = row[g].user /\ B.shown = row[g].shown
  BY RowField DEF Inv, Row
<1>3. row' = [row EXCEPT ![g] = B]
  BY <1>1
<1> HIDE DEF B
<1>4. row' \in [Grant -> Row] /\ row'[g] = B /\ \A h \in Grant \ {g} : row'[h] = row[h]
  BY <1>2, <1>3, WriteStep DEF Inv
<1>5. \A h \in Grant : /\ row'[h].status = row[h].status /\ row'[h].code = row[h].code
                       /\ row'[h].user = row[h].user /\ row'[h].shown = row[h].shown
  BY <1>2, <1>4
<1>6. \A h \in Grant : Fades(h)
  BY <1>5 DEF Fades
<1>7. TypeOK'
  BY <1>1, <1>4, <1>5 DEF Inv, TypeOK
<1>8. SlotsOK'
  BY <1>1, <1>6, Bystander DEF SlotsOK
<1>9. Apart'
  BY <1>1, <1>6, BystandersApart DEF Apart
<1>10. RequestsOK'
  BY <1>1, <1>6, RowsFade, IssueFades DEF RequestsOK
<1> QED
  BY <1>7, <1>8, <1>9, <1>10 DEF Inv

\* A users row is written while no exchange has it locked.
LEMMA AccountInv ==
    ASSUME Inv, NEW u \in User, UserFree(u), NEW a \in Account,
           account' = [account EXCEPT ![u] = a],
           UNCHANGED <<row, tx, lastCode, answers, issued>>
    PROVE  Inv'
<1>1. account' \in [User -> Account] /\ \A x \in User \ {u} : account'[x] = account[x]
  BY DEF Inv, TypeOK
<1>2. TypeOK'
  BY <1>1 DEF Inv, TypeOK
<1>3. SlotsOK'
  <2> SUFFICES ASSUME NEW q \in Tx
               PROVE  (ContinuationOK(q) /\ ExchangeOK(q) /\ LockedOK(q))'
    BY DEF SlotsOK
  <2>1. ContinuationOK(q) /\ ExchangeOK(q) /\ LockedOK(q)
    BY DEF Inv, SlotsOK
  <2>2. ContinuationOK(q)' /\ ExchangeOK(q)'
    BY <2>1 DEF ContinuationOK, ExchangeOK, Continuing, Exchanging, Direct, Unanswered, At, Unused
  <2>3. LockedOK(q)'
    BY <1>1, <2>1 DEF LockedOK, UserFree, Has, At
  <2> QED
    BY <2>2, <2>3
<1>4. Apart'
  BY DEF Inv, Apart, Alone, Continuing, Direct, At
<1>5. RequestsOK'
  BY DEF Inv, RequestsOK, AnswerOK, IssueOK, CodeOK, Unanswered
<1> QED
  BY <1>2, <1>3, <1>4, <1>5 DEF Inv

LEMMA InitInv == Init => Inv
<1> SUFFICES ASSUME Init PROVE Inv
  OBVIOUS
<1>1. /\ Unborn \in Row /\ Unborn.status = "unborn" /\ Unborn.code = Denied
      /\ Unborn.shown = FALSE
  BY ConstantsAssumption DEF Unborn, Row, Status
<1>2. Idle.pc = "idle"
  BY DEF Idle
<1>3. <<>> \in Seq(Code \cup {Denied})
  OBVIOUS
<1>4. TypeOK
  BY <1>1, <1>3, ConstantsAssumption DEF Init, TypeOK, Account
<1>5. SlotsOK
  BY <1>2 DEF Init, SlotsOK, ContinuationOK, ExchangeOK, LockedOK, Continuing, Exchanging
<1>6. Apart
  BY <1>2 DEF Init, Apart, Alone, Continuing
<1>7. RequestsOK
  BY <1>1, OneElement DEF Init, RequestsOK, AnswerOK, IssueOK, CodeOK, Unanswered, Denied
<1> QED
  BY <1>4, <1>5, <1>6, <1>7 DEF Inv

LEMMA NextInv == Inv /\ [Next]_vars => Inv'
<1> SUFFICES ASSUME Inv, [Next]_vars PROVE Inv'
  OBVIOUS
<1>1. ASSUME NEW t \in Tx, Browse(t) PROVE Inv'
  BY <1>1, SignedInInv, ContinueInv, CheckUserInv, AuthorizeInv, CancelInv DEF Browse
<1>2. ASSUME NEW t \in Tx, Redeem(t) PROVE Inv'
  BY <1>2, ExchangeInv, LockCodeInv, ValidateInv, ConsumeInv DEF Redeem
<1>3. ASSUME NEW t \in Tx, Abort(t) PROVE Inv'
  <2>1. tx[t].pc # "idle"
    BY <1>3 DEF Abort, Inv, TypeOK, Request, PC, Idle
  <2> QED
    BY <1>3, <2>1, FailInv DEF Abort
<1>4. ASSUME NEW g \in Grant, AuthorizeAnonymous(g) \/ Expire(g) PROVE Inv'
  BY <1>4, AnonymousInv, ExpireInv
<1>5. ASSUME NEW u \in User, VerifyEmail(u) \/ Deactivate(u) PROVE Inv'
  <2>1. CASE VerifyEmail(u)
    <3>1. "verified" \in Account
      BY DEF Account
    <3> QED
      BY <2>1, <3>1, AccountInv DEF VerifyEmail
  <2>2. CASE Deactivate(u)
    <3>1. "inactive" \in Account
      BY DEF Account
    <3> QED
      BY <2>2, <3>1, AccountInv DEF Deactivate
  <2> QED
    BY <1>5, <2>1, <2>2
<1>6. CASE UNCHANGED vars
  <2>1. UNCHANGED <<account, row, tx, lastCode, answers, issued>>
    BY <1>6 DEF vars
  <2>2. TypeOK'
    BY <2>1 DEF Inv, TypeOK
  <2>3. SlotsOK'
    BY <2>1, Undisturbed, CodeRange DEF Inv, SlotsOK
  <2>4. Apart'
    BY <2>1 DEF Inv, Apart, Alone, Continuing, Direct, At
  <2>5. RequestsOK'
    BY <2>1 DEF Inv, RequestsOK, AnswerOK, IssueOK, CodeOK, Unanswered
  <2> QED
    BY <2>2, <2>3, <2>4, <2>5 DEF Inv
<1> QED
  BY <1>1, <1>2, <1>3, <1>4, <1>5, <1>6 DEF Next

-----------------------------------------------------------------------------
(* The theorems *)

\* Every reachable state satisfies the inductive invariant.
THEOREM Reachable == Spec => []Inv
BY InitInv, NextInv, PTL DEF Spec

\* Rows, handlers and answers keep their types, and a row has a code exactly
\* while it is authorized (oidc.go AuthorizeOIDC, ExchangeOIDCCode).
THEOREM Typing == Spec => []TypeOK
<1>1. Inv => TypeOK
  BY DEF Inv
<1> QED
  BY <1>1, Reachable, PTL

\* However many browsers continue an authorization request, its client gets one
\* redirect, and no session follows an error (handler.go completeAuthorization);
\* however many exchanges of a code race or are retried, one session is issued
\* (oidc.go ExchangeOIDCCode).
THEOREM AnsweredOnce == Spec => []OneAnswer
<1>1. Inv => OneAnswer
  <2> SUFFICES ASSUME Inv, NEW g \in Grant
               PROVE  /\ Len(answers[g]) <= 1
                      /\ issued[g] <= 1
                      /\ issued[g] # 0 => \E c \in Code : answers[g] = <<c>>
    BY DEF OneAnswer
  <2>1. AnswerOK(g) /\ IssueOK(g)
    BY DEF Inv, RequestsOK
  <2>2. Len(answers[g]) <= 1
    <3>1. CASE answers[g] = <<>>
      BY <3>1
    <3>2. ASSUME NEW a \in Answers, answers[g] = <<a>> PROVE Len(answers[g]) <= 1
      BY <3>2
    <3> QED
      BY <2>1, <3>1, <3>2 DEF AnswerOK, Unanswered
  <2> QED
    BY <2>1, <2>2 DEF IssueOK
<1> QED
  BY <1>1, Reachable, PTL

\* The steps that write rows or sessions.
LEMMA WhoWrites ==
    ASSUME Inv, [Next]_vars, NEW g \in Grant
    PROVE  \/ UNCHANGED <<row, issued>>
           \/ UNCHANGED issued /\ \E h \in Grant, b \in BOOLEAN : Create(h, b)
           \/ UNCHANGED issued /\ \E t \in Tx : Authorize(t) \/ Cancel(t)
           \/ UNCHANGED issued /\ \E h \in Grant : Expire(h)
           \/ \E t \in Tx : Consume(t)
<1>1. ASSUME NEW t \in Tx, Browse(t)
      PROVE  \/ UNCHANGED <<row, issued>>
             \/ UNCHANGED issued /\ \E h \in Grant, b \in BOOLEAN : Create(h, b)
             \/ UNCHANGED issued /\ (Authorize(t) \/ Cancel(t))
  BY <1>1 DEF Browse, AuthorizeSignedIn, Continue, CheckUser, Authorize, Cancel
<1>2. ASSUME NEW t \in Tx, Redeem(t)
      PROVE  UNCHANGED <<row, issued>> \/ Consume(t)
  BY <1>2 DEF Redeem, Exchange, LockCode, Validate
<1>3. ASSUME NEW t \in Tx, Abort(t) PROVE UNCHANGED <<row, issued>>
  BY <1>3 DEF Abort
<1>4. ASSUME NEW h \in Grant, AuthorizeAnonymous(h) \/ Expire(h)
      PROVE  UNCHANGED issued /\ ((\E b \in BOOLEAN : Create(h, b)) \/ Expire(h))
  BY <1>4 DEF AuthorizeAnonymous, Expire
<1>5. ASSUME NEW u \in User, VerifyEmail(u) \/ Deactivate(u) PROVE UNCHANGED <<row, issued>>
  BY <1>5 DEF VerifyEmail, Deactivate
<1>6. CASE UNCHANGED vars
  BY <1>6 DEF vars
<1> QED
  BY <1>1, <1>2, <1>3, <1>4, <1>5, <1>6 DEF Next

\* A failed exchange or a later continuation leaves the code as it is
\* (oidc.go:232).
THEOREM CodeSurvivesFailure == Spec => FailureKeepsCode
<1> DEFINE Kept(g) ==
             row[g].status = "authorized" /\ row'[g].code # row[g].code
                => \/ issued'[g] = issued[g] + 1 /\ row'[g].status = "consumed"
                   \/ row[g].expired /\ row'[g].status = "deleted"
<1>1. ASSUME Inv, [Next]_vars, NEW g \in Grant PROVE Kept(g)
  <2> SUFFICES ASSUME row[g].status = "authorized", row'[g].code # row[g].code
               PROVE  \/ issued'[g] = issued[g] + 1 /\ row'[g].status = "consumed"
                      \/ row[g].expired /\ row'[g].status = "deleted"
    OBVIOUS
  <2>0. TypeOK
    BY <1>1 DEF Inv
  <2>1. ASSUME NEW h \in Grant, NEW b \in BOOLEAN, Create(h, b)
        PROVE  row[g].expired /\ row'[g].status = "deleted"
    BY <2>0, <2>1, CreateStep
  <2>2. ASSUME NEW t \in Tx, Authorize(t) PROVE FALSE
    <3>1. tx[t].grant \in Grant /\ row[tx[t].grant].status = "pending" /\ row' = Bound(t)
      BY <2>0, <2>2, BusySlot DEF Authorize, At, MayBind
    <3> QED
      BY <2>0, <3>1 DEF Bound, TypeOK
  <2>3. ASSUME NEW t \in Tx, Cancel(t) PROVE FALSE
    BY <2>0, <2>3 DEF Cancel, TypeOK
  <2>4. ASSUME NEW h \in Grant, Expire(h) PROVE FALSE
    <3>1. row' = [row EXCEPT ![h] = [row[h] EXCEPT !.expired = TRUE]]
      BY <2>4 DEF Expire
    <3>2. [row[h] EXCEPT !.expired = TRUE].code = row[h].code
      BY <2>0, RowField DEF Row
    <3> QED
      BY <2>0, <3>1, <3>2 DEF TypeOK
  <2>5. ASSUME NEW t \in Tx, Consume(t)
        PROVE  issued'[g] = issued[g] + 1 /\ row'[g].status = "consumed"
    <3> DEFINE k == tx[t].grant
    <3>1. tx[t].pc = "consume" /\ k \in Grant
      BY <2>0, <2>5, BusySlot DEF Consume, At
    <3>2. /\ Has(k, tx[t].code)
          /\ row' = [row EXCEPT ![k].status = "consumed", ![k].code = Denied]
          /\ issued' = [issued EXCEPT ![k] = @ + 1]
      BY <2>5 DEF Consume
    <3>3. row'[k].status = "consumed" /\ \A h \in Grant \ {k} : row'[h] = row[h]
      BY <1>1, <3>1, <3>2, Consumed
    <3>4. g = k
      BY <3>3
    <3> HIDE DEF k
    <3> QED
      BY <2>0, <3>2, <3>3, <3>4 DEF TypeOK
  <2> QED
    BY <1>1, <2>1, <2>2, <2>3, <2>4, <2>5, WhoWrites
<1>2. Inv /\ [Next]_vars => [\A g \in Grant : Kept(g)]_vars
  BY <1>1
<1> QED
  BY <1>2, Reachable, PTL DEF Spec, FailureKeepsCode

\* A session goes to a user who is active and verified when it is issued, though
\* the user may be deactivated while the exchange runs (oidc.go FOR UPDATE).
THEOREM OnlyActiveUsers == Spec => IssuedToActive
<1> DEFINE Allowed(g) == issued'[g] # issued[g] => account[row[g].user] = "verified"
<1>1. ASSUME Inv, [Next]_vars, NEW g \in Grant PROVE Allowed(g)
  <2> SUFFICES ASSUME issued'[g] # issued[g] PROVE account[row[g].user] = "verified"
    OBVIOUS
  <2>1. PICK t \in Tx : Consume(t)
    BY <1>1, WhoWrites
  <2>2. tx[t].pc = "consume" /\ At(t, "consume") /\ LockedOK(t)
    BY <1>1, <2>1 DEF Consume, At, Inv, SlotsOK
  <2>3. Has(tx[t].grant, tx[t].code) /\ g = tx[t].grant
    BY <1>1, <2>1 DEF Consume, Inv, TypeOK
  <2> QED
    BY <2>2, <2>3 DEF LockedOK
<1>2. Inv /\ [Next]_vars => [\A g \in Grant : Allowed(g)]_vars
  BY <1>1
<1> QED
  BY <1>2, Reachable, PTL DEF Spec, IssuedToActive

-----------------------------------------------------------------------------
(* Refinement: the rows and the redirects implement OneTimeGrants.         *)

Views == [g \in Grant |-> ClientView(g)]
Eligible == {u \in User : account[u] = "verified"}

\* Between GetOIDCActiveUser and AuthorizeOIDC a user may be deactivated, but no
\* address loses its verification.
Checked == \A t \in Tx : At(t, "authorize") => account[tx[t].user] \in {"verified", "inactive"}

LEMMA CheckedKept ==
    ASSUME Inv, Checked, [Next]_vars
    PROVE  Checked'
<1> USE DEF Checked, At
<1>0. TypeOK
  BY DEF Inv
<1>1. ASSUME UNCHANGED account, NEW t \in Tx, \A q \in Tx \ {t} : tx'[q] = tx[q],
             tx'[t].pc = "authorize" => tx[t].pc = "authorize" /\ tx'[t].user = tx[t].user
      PROVE  Checked'
  BY <1>1
<1>2. ASSUME NEW t \in Tx, UNCHANGED account, Finish(t) PROVE Checked'
  <2>1. tx'[t].pc = "idle" /\ \A q \in Tx \ {t} : tx'[q] = tx[q]
    BY <1>0, <1>2, FinishStep
  <2> QED
    BY <1>1, <1>2, <2>1
<1>3. ASSUME NEW t \in Tx, NEW p \in PC, NEW g \in Grant, NEW u \in User \cup {Nobody},
             NEW c \in Answers, NEW f \in BOOLEAN, Start(t, p, g, u, c, f), p # "authorize",
             UNCHANGED account
      PROVE  Checked'
  <2>1. tx'[t].pc = p /\ \A q \in Tx \ {t} : tx'[q] = tx[q]
    BY <1>0, <1>3, StartStep
  <2> QED
    BY <1>1, <1>3, <2>1
<1>4. ASSUME NEW t \in Tx, Browse(t) PROVE Checked'
  <2>1. ASSUME NEW g \in Grant, NEW u \in User, AuthorizeSignedIn(t, g, u) \/ Continue(t, g, u)
        PROVE  Checked'
    <3>1. Start(t, "checkUser", g, u, Denied, FALSE) /\ UNCHANGED account
      BY <2>1 DEF AuthorizeSignedIn, Continue
    <3>2. "checkUser" \in PC /\ Denied \in Answers
      BY DEF PC, Answers
    <3> QED
      BY <1>3, <3>1, <3>2
  <2>2. CASE CheckUser(t)
    <3>1. tx[t].pc = "checkUser" /\ UNCHANGED account
      BY <2>2 DEF CheckUser
    <3>2. tx[t] \in Request
      BY <1>0, <3>1, BusySlot
    <3>3. CASE /\ account[tx[t].user] = "verified"
               /\ tx' = [tx EXCEPT ![t] = [tx[t] EXCEPT !.pc = "authorize",
                                                        !.code = lastCode + 1]]
      <4>1. tx'[t].user = tx[t].user /\ \A q \in Tx \ {t} : tx'[q] = tx[q]
        BY <1>0, <3>2, <3>3 DEF TypeOK, Request
      <4> QED
        BY <3>1, <3>3, <4>1
    <3>4. CASE Goto(t, "cancel")
      <4>1. "cancel" \in PC /\ tx[t].pc # "idle"
        BY <3>1 DEF PC
      <4>2. tx'[t].pc = "cancel" /\ \A q \in Tx \ {t} : tx'[q] = tx[q]
        BY <1>0, <3>4, <4>1, GotoStep
      <4> QED
        BY <1>1, <3>1, <4>2
    <3> QED
      BY <1>0, <2>2, <3>3, <3>4 DEF CheckUser, TypeOK
  <2>3. CASE Authorize(t) \/ Cancel(t)
    <3>1. Finish(t) /\ UNCHANGED account
      BY <2>3 DEF Authorize, Cancel, Fail
    <3> QED
      BY <1>2, <3>1
  <2> QED
    BY <1>4, <2>1, <2>2, <2>3 DEF Browse
<1>5. ASSUME NEW t \in Tx, Redeem(t) PROVE Checked'
  <2>1. ASSUME NEW g \in Grant, NEW c \in Code, NEW f \in BOOLEAN, Exchange(t, g, c, f)
        PROVE  Checked'
    <3>1. Start(t, "lock", g, Nobody, c, f) /\ UNCHANGED account
      BY <2>1 DEF Exchange
    <3>2. "lock" \in PC /\ c \in Answers /\ Nobody \in User \cup {Nobody}
      BY DEF PC, Answers
    <3> QED
      BY <1>3, <3>1, <3>2
  <2>2. CASE LockCode(t)
    <3>1. tx[t].pc = "lock" /\ UNCHANGED account
      BY <2>2 DEF LockCode
    <3>2. CASE Finish(t)
      BY <1>2, <3>1, <3>2
    <3>3. ASSUME NEW g \in Grant,
                 tx' = [tx EXCEPT ![t] = [tx[t] EXCEPT !.pc = "validate", !.grant = g,
                                                       !.user = row[g].user]]
          PROVE  Checked'
      <4>1. tx'[t].pc = "validate" /\ \A q \in Tx \ {t} : tx'[q] = tx[q]
        <5>1. tx[t] \in Request
          BY <1>0, <3>1, BusySlot
        <5> QED
          BY <1>0, <3>3, <5>1 DEF TypeOK, Request
      <4> QED
        BY <1>1, <3>1, <4>1
    <3> QED
      BY <1>0, <2>2, <3>2, <3>3 DEF LockCode, TypeOK
  <2>3. CASE Validate(t)
    <3>1. tx[t].pc = "validate" /\ UNCHANGED account
      BY <2>3 DEF Validate
    <3>2. CASE Finish(t)
      BY <1>2, <3>1, <3>2
    <3>3. CASE Goto(t, "consume")
      <4>1. "consume" \in PC /\ tx[t].pc # "idle"
        BY <3>1 DEF PC
      <4>2. tx'[t].pc = "consume" /\ \A q \in Tx \ {t} : tx'[q] = tx[q]
        BY <1>0, <3>3, <4>1, GotoStep
      <4> QED
        BY <1>1, <3>1, <4>2
    <3> QED
      BY <2>3, <3>2, <3>3 DEF Validate
  <2>4. CASE Consume(t)
    BY <1>2, <2>4 DEF Consume
  <2> QED
    BY <1>5, <2>1, <2>2, <2>3, <2>4 DEF Redeem
<1>6. ASSUME NEW t \in Tx, Abort(t) PROVE Checked'
  BY <1>2, <1>6 DEF Abort, Fail
<1>7. ASSUME NEW u \in User, VerifyEmail(u) \/ Deactivate(u) PROVE Checked'
  <2>1. UNCHANGED tx /\ \A x \in User : account'[x] = account[x] \/ account'[x] = "inactive"
                                        \/ account[x] = "unverified"
    BY <1>0, <1>7 DEF VerifyEmail, Deactivate, TypeOK
  <2>2. \A t \in Tx : At(t, "authorize") => tx[t].user \in User
    BY DEF Inv, SlotsOK, ContinuationOK, Continuing
  <2> QED
    BY <2>1, <2>2
<1>8. ASSUME NEW g \in Grant, AuthorizeAnonymous(g) \/ Expire(g) PROVE Checked'
  BY <1>8 DEF AuthorizeAnonymous, Expire
<1>9. CASE UNCHANGED vars
  BY <1>9 DEF vars
<1> QED
  BY <1>4, <1>5, <1>6, <1>7, <1>8, <1>9 DEF Next

\* What the client sees of a row, its redirects and its sessions.
ViewOf(status, user, sent, n) ==
    IF status = "unborn" THEN [stage |-> "new"]
    ELSE IF sent = <<>> THEN [stage |-> "asked"]
    ELSE IF sent = <<Denied>> THEN [stage |-> "refused"]
    ELSE [stage |-> IF n # 0 THEN "redeemed" ELSE IF status = "authorized" THEN "open"
                    ELSE "lapsed",
          code |-> sent[1], user |-> user]

LEMMA ViewIs ==
    ASSUME NEW g \in Grant
    PROVE  /\ ClientView(g) = ViewOf(row[g].status, row[g].user, answers[g], issued[g])
           /\ ClientView(g)' = ViewOf(row'[g].status, row'[g].user, answers'[g], issued'[g])
<1>1. ASSUME row[g].status = "unborn"
      PROVE  ClientView(g) = ViewOf(row[g].status, row[g].user, answers[g], issued[g])
  BY <1>1 DEF ClientView, Stage, ViewOf
<1>2. ASSUME row[g].status # "unborn"
      PROVE  ClientView(g) = ViewOf(row[g].status, row[g].user, answers[g], issued[g])
  BY <1>2 DEF ClientView, Stage, ViewOf
<1>3. ASSUME row'[g].status = "unborn"
      PROVE  ClientView(g)' = ViewOf(row'[g].status, row'[g].user, answers'[g], issued'[g])
  BY <1>3 DEF ClientView, Stage, ViewOf
<1>4. ASSUME row'[g].status # "unborn"
      PROVE  ClientView(g)' = ViewOf(row'[g].status, row'[g].user, answers'[g], issued'[g])
  BY <1>4 DEF ClientView, Stage, ViewOf
<1> QED
  BY <1>1, <1>2, <1>3, <1>4

LEMMA ViewsAre ==
    ASSUME NEW status, NEW u, NEW n
    PROVE  /\ ViewOf("unborn", u, <<>>, n) = Promise!New
           /\ status # "unborn" => /\ ViewOf(status, u, <<>>, n) = Promise!Asked
                                   /\ ViewOf(status, u, <<Denied>>, n) = Promise!Refused
           /\ status # "unborn" =>
                \A c \in Code : ViewOf(status, u, <<c>>, n) =
                    Promise!Sent(IF n # 0 THEN "redeemed" ELSE IF status = "authorized" THEN "open"
                                 ELSE "lapsed", c, u)
<1>1. <<Denied>> # <<>>
  BY OneElement
<1>2. ASSUME NEW c \in Code PROVE <<c>> # <<>> /\ <<c>> # <<Denied>> /\ <<c>>[1] = c
  <2>1. c # Denied
    BY <1>2 DEF Code, Denied
  <2> QED
    BY <2>1, OneElement
<1> QED
  BY <1>1, <1>2 DEF ViewOf, Promise!New, Promise!Asked, Promise!Refused, Promise!Sent

StageOf(status, n) ==
    IF n # 0 THEN "redeemed" ELSE IF status = "authorized" THEN "open" ELSE "lapsed"

LEMMA SentView ==
    ASSUME NEW g \in Grant, NEW c \in Code
    PROVE  /\ row[g].status # "unborn" /\ answers[g] = <<c>> =>
                ClientView(g) =
                    Promise!Sent(StageOf(row[g].status, issued[g]), c, row[g].user)
           /\ row'[g].status # "unborn" /\ answers'[g] = <<c>> =>
                ClientView(g)' =
                    Promise!Sent(StageOf(row'[g].status, issued'[g]), c, row'[g].user)
<1>1. ASSUME NEW status, NEW u, NEW n, status # "unborn"
      PROVE  ViewOf(status, u, <<c>>, n) = Promise!Sent(StageOf(status, n), c, u)
  BY <1>1, ViewsAre DEF StageOf
<1>2. /\ ClientView(g) = ViewOf(row[g].status, row[g].user, answers[g], issued[g])
      /\ ClientView(g)' = ViewOf(row'[g].status, row'[g].user, answers'[g], issued'[g])
  BY ViewIs
<1> QED
  BY <1>1, <1>2

\* The stages that the client tells apart are different.
LEMMA Stages ==
    ASSUME NEW stage \in {"open", "redeemed", "lapsed"}, NEW c, NEW u
    PROVE  /\ Promise!Sent(stage, c, u).stage = stage
           /\ Promise!Sent(stage, c, u).code = c /\ Promise!Sent(stage, c, u).user = u
           /\ Promise!New.stage = "new" /\ Promise!Asked.stage = "asked"
           /\ Promise!Refused.stage = "refused"
BY DEF Promise!New, Promise!Asked, Promise!Refused, Promise!Sent

\* A request that was answered: by an error, or by a code.
LEMMA AnsweredBy ==
    ASSUME Inv, NEW g \in Grant
    PROVE  \/ Unanswered(g)
           \/ row[g].status # "unborn"
              /\ (answers[g] = <<Denied>> \/ \E c \in Code : answers[g] = <<c>>)
BY DEF Inv, RequestsOK, AnswerOK, Answers

\* The steps that the client sees are steps of one request, beside lapses.
LEMMA OneView ==
    ASSUME NEW g \in Grant, NEW v, ClientView(g)' = v,
           \A h \in Grant \ {g} : ClientView(h)' = ClientView(h)
    PROVE  Views' = [Views EXCEPT ![g] = v]
BY DEF Views

LEMMA ViewKept ==
    ASSUME NEW g \in Grant, row'[g].status = row[g].status, row'[g].user = row[g].user,
           answers'[g] = answers[g], issued'[g] = issued[g]
    PROVE  ClientView(g)' = ClientView(g)
BY ViewIs

LEMMA InitPromises == Init => Promise!Init
<1> SUFFICES ASSUME Init PROVE Promise!Init
  OBVIOUS
<1>1. Unborn.status = "unborn"
  BY DEF Unborn
<1>2. \A g \in Grant : ClientView(g) = Promise!New
  BY <1>1, ViewIs, ViewsAre DEF Init
<1>3. Views = [g \in Grant |-> Promise!New]
  BY <1>2 DEF Views
<1>4. issued = [g \in Grant |-> 0] /\ Eligible \subseteq User
  BY DEF Init, Eligible
<1> QED
  BY <1>3, <1>4 DEF Promise!Init, Views, Eligible

\* A new request is asked, and the codes of the expired rows that are deleted on
\* the occasion lapse.
LEMMA CreateAsks ==
    ASSUME Inv, NEW g \in Grant, NEW b \in BOOLEAN, Create(g, b),
           UNCHANGED <<account, answers, issued>>
    PROVE  Promise!Ask(g)
<1>0. TypeOK
  BY DEF Inv
<1>1. /\ row[g].status = "unborn"
      /\ row'[g].status = "pending"
      /\ \A h \in Grant \ {g} :
           \/ row'[h] = row[h]
           \/ /\ Exists(h) /\ row'[h].status = "deleted" /\ row'[h].user = row[h].user
  BY <1>0, CreateStep
<1>2. answers[g] = <<>>
  BY <1>1 DEF Inv, RequestsOK, AnswerOK, Unanswered
<1>3. ClientView(g) = Promise!New /\ ClientView(g)' = Promise!Asked
  BY <1>1, <1>2, ViewIs, ViewsAre
<1> DEFINE old == {h \in Grant \ {g} : ClientView(h)' # ClientView(h)}
<1>4. ASSUME NEW h \in old
      PROVE  /\ ClientView(h).stage = "open"
             /\ ClientView(h)' =
                  Promise!Sent("lapsed", ClientView(h).code, ClientView(h).user)
  <2>0. h \in Grant \ {g}
    OBVIOUS
  <2>1. /\ row[h].status # "unborn" /\ row'[h].status = "deleted"
        /\ row'[h].user = row[h].user
    BY <1>1, <2>0, ViewKept DEF Exists
  <2>2. CASE answers[h] = <<>> \/ answers[h] = <<Denied>>
    <3>1. ClientView(h)' = ClientView(h)
      BY <2>0, <2>1, <2>2, ViewIs, ViewsAre
    <3> QED
      BY <3>1
  <2>3. ASSUME NEW c \in Code, answers[h] = <<c>>
        PROVE  /\ ClientView(h).stage = "open"
               /\ ClientView(h)' =
                    Promise!Sent("lapsed", ClientView(h).code, ClientView(h).user)
    <3> DEFINE stage == StageOf(row[h].status, issued[h])
    <3>1. ClientView(h) = Promise!Sent(stage, c, row[h].user)
      BY <2>0, <2>1, <2>3, SentView
    <3>2. ClientView(h)' = Promise!Sent(IF issued[h] # 0 THEN "redeemed" ELSE "lapsed",
                                        c, row[h].user)
      BY <2>0, <2>1, <2>3, SentView DEF StageOf
    <3>3. stage \in {"open", "redeemed", "lapsed"}
      BY DEF StageOf
    <3>4. ClientView(h)' # ClientView(h)
      OBVIOUS
    <3>5. issued[h] = 0 /\ stage = "open"
      BY <3>1, <3>2, <3>4 DEF StageOf
    <3> HIDE DEF stage
    <3>6. /\ ClientView(h).stage = "open" /\ ClientView(h).code = c
          /\ ClientView(h).user = row[h].user
      BY <3>1, <3>3, <3>5, Stages
    <3> QED
      BY <3>2, <3>5, <3>6
  <2> QED
    BY <2>0, <2>2, <2>3, AnsweredBy DEF Unanswered
<1>5. old \subseteq {h \in Grant : Views[h].stage = "open"}
  BY <1>4 DEF Views
<1>6. Views' = [h \in Grant |->
                  IF h = g THEN Promise!Asked
                  ELSE IF h \in old THEN Promise!Sent("lapsed", Views[h].code, Views[h].user)
                  ELSE Views[h]]
  <2>1. ASSUME NEW h \in Grant
        PROVE  ClientView(h)' =
                  IF h = g THEN Promise!Asked
                  ELSE IF h \in old THEN Promise!Sent("lapsed", Views[h].code, Views[h].user)
                  ELSE Views[h]
    <3>1. Views[h] = ClientView(h)
      BY DEF Views
    <3>2. CASE h = g
      BY <1>3, <3>2
    <3>3. CASE h # g /\ h \in old
      BY <1>4, <3>1, <3>3
    <3>4. CASE h # g /\ h \notin old
      BY <3>1, <3>4
    <3> QED
      BY <3>2, <3>3, <3>4
  <2> QED
    BY <2>1 DEF Views
<1>7. Views[g] = Promise!New
  BY <1>3 DEF Views
<1> HIDE DEF old
<1> QED
  BY <1>5, <1>6, <1>7 DEF Promise!Ask, Promise!Opened, Views

\* A continuation that ends with a redirect answers the client, and one that ends
\* without shows the client nothing.
LEMMA EndsAsked ==
    ASSUME Inv, NEW t \in Tx, Continuing(t), NEW g \in Grant, g = tx[t].grant,
           Unanswered(g), UNCHANGED <<account, issued>>,
           \A h \in Grant \ {g} : row'[h] = row[h],
           row'[g].status # "unborn",
           answers' = answers \/ Answer(g, Denied)
    PROVE  Promise!Refuse(g) \/ UNCHANGED Promise!vars
<1>0. TypeOK /\ Denied \in Answers
  BY DEF Inv, Answers
<1>1. row[g].status # "unborn"
  BY DEF Inv, SlotsOK, ContinuationOK
<1>2. Views[g] = Promise!Asked
  BY <1>1, ViewIs, ViewsAre DEF Unanswered, Views
<1>3. CASE answers' = answers
  <2>1. ClientView(g)' = ClientView(g)
    BY <1>1, <1>3, ViewIs, ViewsAre DEF Unanswered
  <2>2. \A h \in Grant \ {g} : ClientView(h)' = ClientView(h)
    BY <1>3, ViewKept
  <2>3. Views' = Views
    BY <2>1, <2>2 DEF Views
  <2> QED
    BY <2>3 DEF Promise!vars, Views
<1>4. CASE Answer(g, Denied)
  <2>1. answers'[g] = <<Denied>> /\ \A h \in Grant \ {g} : answers'[h] = answers[h]
    BY <1>0, <1>4, AnswerStep
  <2>2. ClientView(g)' = Promise!Refused
    BY <2>1, ViewIs, ViewsAre
  <2>3. \A h \in Grant \ {g} : ClientView(h)' = ClientView(h)
    BY <2>1, ViewKept
  <2>4. Views' = [Views EXCEPT ![g] = Promise!Refused]
    BY <2>2, <2>3, OneView
  <2> QED
    BY <1>2, <2>4 DEF Promise!Refuse, Views
<1> QED
  BY <1>3, <1>4

LEMMA FailRefuses ==
    ASSUME Inv, NEW t \in Tx, tx[t].pc # "idle", Fail(t), UNCHANGED <<account, row, issued>>
    PROVE  Promise!Next \/ UNCHANGED Promise!vars
<1>1. CASE UNCHANGED answers
  <2>1. Views' = Views
    BY <1>1, ViewKept DEF Views
  <2> QED
    BY <2>1 DEF Promise!vars, Views
<1>2. CASE Continuing(t) /\ Direct(t) /\ Answer(tx[t].grant, Denied)
  <2>1. PICK g \in Grant : g = tx[t].grant
    BY BusySlot DEF Inv
  <2>2. Unanswered(g) /\ row[g].status # "unborn"
    BY <1>2, <2>1, FirstAnswer DEF Inv, SlotsOK, ContinuationOK
  <2>3. Promise!Refuse(g) \/ UNCHANGED Promise!vars
    BY <1>2, <2>1, <2>2, EndsAsked
  <2> QED
    BY <2>3 DEF Promise!Next
<1> QED
  BY <1>1, <1>2 DEF Fail, Continuing

\* AuthorizeOIDC sends a code that no client was sent, to a user who may sign in.
LEMMA AuthorizeSends ==
    ASSUME Inv, Checked, NEW t \in Tx, Authorize(t)
    PROVE  Promise!Next \/ UNCHANGED Promise!vars
<1>1. /\ UNCHANGED <<account, issued>> /\ tx[t].pc = "authorize" /\ At(t, "authorize")
      /\ Continuing(t) /\ tx[t].pc # "idle"
  BY DEF Authorize, At, Continuing
<1>2. PICK g \in Grant : g = tx[t].grant
  BY <1>1, BusySlot DEF Inv
<1>3. PICK u \in User : u = tx[t].user
  BY <1>1 DEF Inv, SlotsOK, ContinuationOK
<1>4. PICK c \in Code : c = tx[t].code /\ Unused(c)
  BY <1>1, CodeRange DEF Inv, SlotsOK, ContinuationOK
<1>5. CASE Fail(t) /\ UNCHANGED row
  BY <1>1, <1>5, FailRefuses
<1>6. CASE MayBind(t) /\ row' = Bound(t)
  <2>1. /\ row'[g].status = "authorized" /\ row'[g].user = u
        /\ \A h \in Grant \ {g} : row'[h] = row[h]
    BY <1>2, <1>3, <1>4, <1>6, BoundStep DEF Inv
  <2>2. row[g].status = "pending" /\ Unanswered(g)
    BY <1>1, <1>2, <1>6, FirstAnswer DEF MayBind
  <2>3. CASE Answer(g, c)
    <3>0. TypeOK /\ c \in Answers
      BY DEF Inv, Answers
    <3>1. answers'[g] = <<c>> /\ \A h \in Grant \ {g} : answers'[h] = answers[h]
      BY <2>2, <2>3, <3>0, AnswerStep
    <3>2. issued'[g] = 0
      <4>1. IssueOK(g) /\ answers[g] = <<>>
        BY <2>2 DEF Inv, RequestsOK, Unanswered
      <4> QED
        BY <1>1, <4>1, OneElement DEF IssueOK
    <3>3. ClientView(g)' = Promise!Sent("open", c, u)
      <4>1. StageOf("authorized", 0) = "open"
        BY DEF StageOf
      <4> QED
        BY <2>1, <3>1, <3>2, <4>1, SentView
    <3>4. \A h \in Grant \ {g} : ClientView(h)' = ClientView(h)
      BY <1>1, <2>1, <3>1, ViewKept
    <3>5. Views' = [Views EXCEPT ![g] = Promise!Sent("open", c, u)]
      BY <3>3, <3>4, OneView
    <3>6. Views[g] = Promise!Asked
      BY <2>2, ViewIs, ViewsAre DEF Unanswered, Views
    <3>7. u \in Eligible
      BY <1>1, <1>2, <1>3, <1>6 DEF Checked, MayBind, Eligible
    <3>8. ASSUME NEW h \in Grant, Views[h].stage \in {"open", "redeemed", "lapsed"}
          PROVE  Views[h].code # c
      <4>0. Views[h] = ClientView(h)
        BY DEF Views
      <4>1. /\ Promise!New.stage = "new" /\ Promise!Asked.stage = "asked"
            /\ Promise!Refused.stage = "refused"
        BY DEF Promise!New, Promise!Asked, Promise!Refused
      <4>2. ~Unanswered(h) /\ answers[h] # <<Denied>>
        <5>1. row[h].status = "unborn" => Unanswered(h)
          BY DEF Inv, RequestsOK, AnswerOK
        <5> QED
          BY <3>8, <4>0, <4>1, <5>1, ViewIs, ViewsAre DEF Unanswered
      <4>3. PICK d \in Code : answers[h] = <<d>> /\ row[h].status # "unborn"
        BY <4>2, AnsweredBy
      <4>4. ClientView(h) = Promise!Sent(StageOf(row[h].status, issued[h]), d, row[h].user)
        BY <4>3, SentView
      <4>5. StageOf(row[h].status, issued[h]) \in {"open", "redeemed", "lapsed"}
        BY DEF StageOf
      <4>6. ClientView(h).code = d
        BY <4>4, <4>5, Stages
      <4> QED
        BY <1>4, <4>0, <4>3, <4>6 DEF Unused
    <3>9. Promise!Send(g, c, u)
      BY <1>1, <3>5, <3>6, <3>7, <3>8
         DEF Promise!Send, Promise!IsSent, Views, Eligible
    <3> QED
      BY <3>9 DEF Promise!Next
  <2>4. CASE Fail(t)
    <3>1. answers' = answers \/ Answer(g, Denied)
      BY <1>2, <2>4 DEF Fail
    <3>2. Promise!Refuse(g) \/ UNCHANGED Promise!vars
      BY <1>1, <1>2, <2>1, <2>2, <3>1, EndsAsked
    <3> QED
      BY <3>2 DEF Promise!Next
  <2> QED
    BY <1>2, <1>4, <1>6, <2>3, <2>4 DEF Authorize, MayBind
<1> QED
  BY <1>5, <1>6 DEF Authorize

LEMMA CancelRefuses ==
    ASSUME Inv, NEW t \in Tx, Cancel(t)
    PROVE  Promise!Next \/ UNCHANGED Promise!vars
<1>1. /\ UNCHANGED <<account, issued>> /\ tx[t].pc = "cancel" /\ Continuing(t)
      /\ tx[t].pc # "idle"
  BY DEF Cancel, At, Continuing
<1>2. PICK g \in Grant : g = tx[t].grant
  BY <1>1, BusySlot DEF Inv
<1>3. CASE Fail(t) /\ UNCHANGED row
  BY <1>1, <1>3, FailRefuses
<1>4. CASE row[g].status = "pending" /\ row' = [row EXCEPT ![g].status = "deleted"]
  <2>1. row'[g].status = "deleted" /\ \A h \in Grant \ {g} : row'[h] = row[h]
    BY <1>4, RowField DEF Inv, TypeOK, Row
  <2>2. Unanswered(g)
    BY <1>1, <1>2, <1>4, FirstAnswer
  <2>3. answers' = answers \/ Answer(g, Denied)
    BY <1>2, <1>4 DEF Cancel, Fail
  <2>4. Promise!Refuse(g) \/ UNCHANGED Promise!vars
    BY <1>1, <1>2, <2>1, <2>2, <2>3, EndsAsked
  <2> QED
    BY <2>4 DEF Promise!Next
<1> QED
  BY <1>2, <1>3, <1>4 DEF Cancel

LEMMA ConsumeRedeems ==
    ASSUME Inv, NEW t \in Tx, Consume(t)
    PROVE  Promise!Next \/ UNCHANGED Promise!vars
<1>1. UNCHANGED <<account, answers>> /\ tx[t].pc = "consume" /\ At(t, "consume")
  BY DEF Consume, At
<1>2. PICK g \in Grant : g = tx[t].grant
  BY <1>1, BusySlot DEF Inv
<1>3. CASE UNCHANGED <<row, issued>>
  <2>1. Views' = Views
    BY <1>1, <1>3, ViewKept DEF Views
  <2> QED
    BY <1>1, <1>3, <2>1 DEF Promise!vars, Views
<1>4. CASE /\ Has(g, tx[t].code)
           /\ row' = [row EXCEPT ![g].status = "consumed", ![g].code = Denied]
           /\ issued' = [issued EXCEPT ![g] = @ + 1]
  <2>1. /\ row'[g].status = "consumed" /\ row'[g].user = row[g].user
        /\ \A h \in Grant \ {g} : row'[h] = row[h]
    BY <1>1, <1>2, <1>4, Consumed
  <2>2. row[g].status = "authorized"
    BY <1>4 DEF Has
  <2>3. /\ issued'[g] = issued[g] + 1 /\ \A h \in Grant \ {g} : issued'[h] = issued[h]
        /\ issued[g] = 0
    BY <1>4, <2>2 DEF Inv, TypeOK, RequestsOK, IssueOK
  <2>4. PICK c \in Code : answers[g] = <<c>> /\ answers'[g] = <<c>>
    BY <1>1, <1>2 DEF Inv, SlotsOK, ExchangeOK, Exchanging
  <2>5. ClientView(g) = Promise!Sent("open", c, row[g].user)
    <3>1. StageOf("authorized", 0) = "open"
      BY DEF StageOf
    <3> QED
      BY <2>2, <2>3, <2>4, <3>1, SentView
  <2>6. ClientView(g)' = Promise!Sent("redeemed", c, row[g].user)
    <3>1. StageOf("consumed", 1) = "redeemed"
      BY DEF StageOf
    <3> QED
      BY <2>1, <2>3, <2>4, <3>1, SentView
  <2>7. \A h \in Grant \ {g} : ClientView(h)' = ClientView(h)
    BY <1>1, <2>1, <2>3, ViewKept
  <2>8. /\ Views[g].stage = "open" /\ Views[g].code = c /\ Views[g].user = row[g].user
    BY <2>5, Stages DEF Views
  <2>9. Views' = [Views EXCEPT ![g] = Promise!Sent("redeemed", Views[g].code, Views[g].user)]
    BY <2>6, <2>7, <2>8, OneView
  <2>10. row[g].user \in Eligible
    <3>1. LockedOK(t)
      BY DEF Inv, SlotsOK
    <3> QED
      BY <1>1, <1>2, <1>4, <3>1 DEF LockedOK, Eligible
  <2>11. Promise!Redeem(g)
    BY <1>1, <1>4, <2>8, <2>9, <2>10 DEF Promise!Redeem, Views, Eligible
  <2> QED
    BY <2>11 DEF Promise!Next
<1> QED
  BY <1>2, <1>3, <1>4 DEF Consume

\* What the client does not see: rows that expire, users, and the statements
\* between.
LEMMA HiddenSteps ==
    ASSUME UNCHANGED <<answers, issued>>,
           \A g \in Grant : row'[g].status = row[g].status /\ row'[g].user = row[g].user
    PROVE  Promise!Next
<1>1. Views' = Views
  BY ViewKept DEF Views
<1>2. Eligible' \subseteq User
  BY DEF Eligible
<1>3. Promise!UsersChange
  BY <1>1, <1>2 DEF Promise!UsersChange, Views, Eligible
<1> QED
  BY <1>3 DEF Promise!Next

LEMMA StepPromises ==
    ASSUME Inv, Checked, [Next]_vars
    PROVE  Promise!Next \/ UNCHANGED Promise!vars
<1>1. CASE UNCHANGED <<row, answers, issued>>
  BY <1>1, HiddenSteps
<1>2. ASSUME NEW t \in Tx, Browse(t)
      PROVE  Promise!Next \/ UNCHANGED Promise!vars
  <2>1. ASSUME NEW g \in Grant, NEW u \in User, AuthorizeSignedIn(t, g, u)
        PROVE  Promise!Next
    <3>1. Promise!Ask(g)
      BY <2>1, CreateAsks DEF AuthorizeSignedIn
    <3> QED
      BY <3>1 DEF Promise!Next
  <2>2. ASSUME NEW g \in Grant, NEW u \in User, Continue(t, g, u)
        PROVE  Promise!Next \/ UNCHANGED Promise!vars
    BY <1>1, <2>2 DEF Continue
  <2>3. CASE CheckUser(t)
    BY <1>1, <2>3 DEF CheckUser
  <2> QED
    BY <1>2, <2>1, <2>2, <2>3, AuthorizeSends, CancelRefuses DEF Browse
<1>3. ASSUME NEW t \in Tx, Redeem(t)
      PROVE  Promise!Next \/ UNCHANGED Promise!vars
  BY <1>1, <1>3, ConsumeRedeems DEF Redeem, Exchange, LockCode, Validate
<1>4. ASSUME NEW t \in Tx, Abort(t)
      PROVE  Promise!Next \/ UNCHANGED Promise!vars
  <2>1. tx[t].pc # "idle"
    BY <1>4 DEF Abort, Inv, TypeOK, Request, PC, Idle
  <2> QED
    BY <1>4, <2>1, FailRefuses DEF Abort
<1>5. ASSUME NEW g \in Grant, AuthorizeAnonymous(g)
      PROVE  Promise!Next
  <2>1. Promise!Ask(g)
    BY <1>5, CreateAsks DEF AuthorizeAnonymous
  <2> QED
    BY <2>1 DEF Promise!Next
<1>6. ASSUME NEW g \in Grant, Expire(g)
      PROVE  Promise!Next
  <2>1. UNCHANGED <<answers, issued>> /\ row' = [row EXCEPT ![g].expired = TRUE]
    BY <1>6 DEF Expire
  <2>2. row' = [row EXCEPT ![g] = [row[g] EXCEPT !.expired = TRUE]]
    BY <2>1
  <2>3. /\ [row[g] EXCEPT !.expired = TRUE].status = row[g].status
        /\ [row[g] EXCEPT !.expired = TRUE].user = row[g].user
    BY RowField DEF Inv, Row
  <2>4. \A h \in Grant : row'[h].status = row[h].status /\ row'[h].user = row[h].user
    BY <2>2, <2>3 DEF Inv, TypeOK
  <2> QED
    BY <2>1, <2>4, HiddenSteps
<1>7. ASSUME NEW u \in User, VerifyEmail(u) \/ Deactivate(u)
      PROVE  Promise!Next \/ UNCHANGED Promise!vars
  BY <1>1, <1>7 DEF VerifyEmail, Deactivate
<1>8. CASE UNCHANGED vars
  BY <1>1, <1>8 DEF vars
<1> QED
  BY <1>2, <1>3, <1>4, <1>5, <1>6, <1>7, <1>8 DEF Next

(* Every behaviour of the provider is a behaviour of OneTimeGrants: a      *)
(* client may reason about its request, its code and its one session, and  *)
(* forget rows, browsers, locks and lost answers.                          *)
THEOREM KeepsPromise == Spec => GrantsSpec
<1>1. Init => Checked
  BY DEF Init, Checked, At, Idle
<1>2. Inv /\ Checked /\ [Next]_vars => Checked'
  BY CheckedKept
<1>3. Inv /\ Checked /\ [Next]_vars => [Promise!Next]_(Promise!vars)
  BY StepPromises
<1> QED
  BY <1>1, <1>2, <1>3, InitPromises, Reachable, PTL DEF Spec, GrantsSpec, Promise!Spec
=============================================================================
