-------------------------- MODULE CommandLineProofs --------------------------
(***************************************************************************)
(* Proofs about CommandLine, for any number of processes, logins and rows. *)
(*                                                                         *)
(* The inductive invariant: what anybody has of a family is no newer than  *)
(* its unrevoked row; whoever has a refreshed token to save is alone with  *)
(* it, and every other copy is older; and in a family whose token was      *)
(* never in two hands the file holds the unrevoked row, or one process has *)
(* it to save.                                                             *)
(***************************************************************************)
EXTENDS CommandLine, SequenceTheorems, TLAPS

Places == {"load", "prompt", "refresh", "save", "rename", "call", "reload",
           "saveConfig", "clearConfig"}
Pair == Nat \X Nat
Calls == {"list", "createProject", "createDatabase", "get", "uri"}

\* A process as far as the proofs need it: the calls to come are in any order.
Slot == [cmd : {"login", "logout", "api"}, pc : Places, todo : Seq(Calls),
         token : Pair, forced : BOOLEAN, made : BOOLEAN]
Typed ==
    /\ fam \in Seq(Nat)
    /\ file \in Pair
    /\ proc \in [Proc -> Slot \cup {Idle}]
    /\ parted \subseteq DOMAIN fam

Saving(q) == q.pc \in {"save", "rename"} /\ q.token # NoToken
Copies(q) == q.pc = "refresh" \/ Saving(q)

\* Who has calls to make, and has asked for nothing twice.
Sane(q) ==
    /\ q.cmd = "api" => q.todo # << >>
    /\ q.pc \in {"load", "reload", "call"} => q.cmd # "login"
    /\ q.pc = "saveConfig" => q.cmd = "api"
    /\ q.pc = "refresh" => q.token # NoToken
    /\ ~q.made
AllSane == \A p \in Proc : proc[p] # Idle => Sane(proc[p])

\* What a token of the file or of a process says of its family.
Known(t) ==
    t # NoToken => /\ t[1] \in DOMAIN fam
                   /\ t[2] # 0
                   /\ fam[t[1]] # 0 => t[2] <= fam[t[1]]
TokensKnown == Known(file) /\ \A p \in Proc : proc[p] # Idle => Known(proc[p].token)

SaversAhead ==
    \A p \in Proc : Saving(proc[p]) =>
        /\ fam[proc[p].token[1]] \in {0, proc[p].token[2]}
        /\ file[1] = proc[p].token[1] => file[2] < proc[p].token[2]
        /\ \A q \in Proc \ {p} :
              Copies(proc[q]) /\ proc[q].token[1] = proc[p].token[1]
              => proc[q].token[2] < proc[p].token[2]

Has(q, f) == Copies(q) /\ q.token[1] = f
Whole(f) ==
    /\ \A p, q \in Proc : Has(proc[p], f) /\ Has(proc[q], f) => p = q
    /\ \A p \in Proc : Has(proc[p], f) => proc[p].token[2] = fam[f]
    /\ file[1] = f /\ (\A p \in Proc : Has(proc[p], f) => proc[p].pc = "refresh")
         => file[2] = fam[f]
WholeUnlessParted == \A f \in DOMAIN fam : fam[f] # 0 /\ f \notin parted => Whole(f)

IInv == Typed /\ AllSane /\ TokensKnown /\ SaversAhead /\ WholeUnlessParted

\* What the steps of a process do to its slot
-----------------------------------------------------------------------------
LEMMA SlotFields ==
    ASSUME NEW x \in Slot
    PROVE  /\ x # Idle
           /\ x.pc \in Places /\ x.token \in Pair /\ x.cmd \in {"login", "logout", "api"}
           /\ x.todo \in Seq(Calls) /\ x.made \in BOOLEAN /\ x.forced \in BOOLEAN
BY DEF Slot, Idle, Places

LEMMA BusySlot ==
    ASSUME Typed, NEW p \in Proc, proc[p].pc # "idle"
    PROVE  proc[p] \in Slot
BY DEF Typed, Idle

\* The others keep their slots.
Others(p) == \A q \in Proc \ {p} : proc'[q] = proc[q]

LEMMA FinishSlot ==
    ASSUME Typed, NEW p \in Proc, Finish(p)
    PROVE  proc' \in [Proc -> Slot \cup {Idle}] /\ proc'[p] = Idle /\ Others(p)
BY DEF Typed, Finish, Others

LEMMA TakeSlot ==
    ASSUME Typed, NEW p \in Proc, proc[p] \in Slot, NEW pc \in Places, NEW t \in Pair,
           Take(p, pc, t)
    PROVE  /\ proc' \in [Proc -> Slot \cup {Idle}] /\ proc'[p] \in Slot /\ Others(p)
           /\ proc'[p].pc = pc /\ proc'[p].token = t /\ proc'[p].made = proc[p].made
           /\ proc'[p].cmd = proc[p].cmd /\ proc'[p].todo = proc[p].todo
<1>1. [proc[p] EXCEPT !.pc = pc, !.token = t] \in Slot
  BY DEF Slot
<1>2. proc' = [proc EXCEPT ![p] = [proc[p] EXCEPT !.pc = pc, !.token = t]]
  BY DEF Take
<1>3. proc'[p] = [proc[p] EXCEPT !.pc = pc, !.token = t]
  BY <1>2 DEF Typed
<1> QED
  BY <1>1, <1>2, <1>3 DEF Slot, Typed, Others

LEMMA GotoSlot ==
    ASSUME Typed, NEW p \in Proc, proc[p] \in Slot, NEW pc \in Places, Goto(p, pc)
    PROVE  /\ proc' \in [Proc -> Slot \cup {Idle}] /\ proc'[p] \in Slot /\ Others(p)
           /\ proc'[p].pc = pc /\ proc'[p].token = proc[p].token
           /\ proc'[p].made = proc[p].made
           /\ proc'[p].cmd = proc[p].cmd /\ proc'[p].todo = proc[p].todo
<1>1. [proc[p] EXCEPT !.pc = pc] \in Slot
  BY DEF Slot
<1>2. proc' = [proc EXCEPT ![p] = [proc[p] EXCEPT !.pc = pc]]
  BY DEF Goto, Typed
<1>3. proc'[p] = [proc[p] EXCEPT !.pc = pc]
  BY <1>2 DEF Typed
<1> QED
  BY <1>1, <1>2, <1>3 DEF Slot, Typed, Others

\* A step after which p has nothing of a family in its hands.
Retires(p) ==
    /\ proc' \in [Proc -> Slot \cup {Idle}]
    /\ Others(p)
    /\ proc'[p] # Idle =>
          /\ Sane(proc'[p])
          /\ ~Copies(proc'[p])
          /\ \/ proc'[p].token \in {NoToken, file}
             \/ proc[p] # Idle /\ proc'[p].token = proc[p].token

LEMMA ProceedRetires ==
    ASSUME Typed, NEW p \in Proc, proc[p] \in Slot, Sane(proc[p]), proc[p].cmd = "api",
           Proceed(p)
    PROVE  Retires(p)
<1>1. CASE Finish(p)
  BY <1>1, FinishSlot DEF Retires
<1>2. CASE Len(proc[p].todo) # 1
  <2> DEFINE new == [proc[p] EXCEPT !.pc = "load", !.todo = Tail(proc[p].todo),
                                    !.token = NoToken, !.forced = FALSE]
  <2>1. proc' = [proc EXCEPT ![p] = new]
    BY <1>2 DEF Proceed
  <2>2. Tail(proc[p].todo) \in Seq(Calls) /\ Tail(proc[p].todo) # << >>
    <3>1. proc[p].todo \in Seq(Calls) /\ proc[p].todo # << >>
      BY SlotFields DEF Sane
    <3>2. Tail(proc[p].todo) \in Seq(Calls) /\ Len(Tail(proc[p].todo)) = Len(proc[p].todo) - 1
      BY <3>1, HeadTailProperties
    <3>3. Len(proc[p].todo) \in Nat \ {0}
      BY <3>1, EmptySeq
    <3>4. Len(Tail(proc[p].todo)) # 0
      BY <1>2, <3>2, <3>3
    <3>5. Len(<< >>) = 0
      OBVIOUS
    <3> QED
      BY <3>2, <3>4, <3>5
  <2>3. new \in Slot /\ new.pc = "load" /\ new.token = NoToken /\ new.made = proc[p].made
        /\ new.todo = Tail(proc[p].todo) /\ new.cmd = proc[p].cmd
    BY <2>2 DEF Slot, Places, NoToken, Pair
  <2> HIDE DEF new
  <2>4. proc'[p] = new
    BY <2>1 DEF Typed
  <2> QED
    BY <2>1, <2>2, <2>3, <2>4 DEF Typed, Others, Retires, Sane, Copies, Saving
<1> QED
  BY <1>1, <1>2 DEF Proceed

LEMMA AfterErrorRetires ==
    ASSUME Typed, NEW p \in Proc, proc[p] \in Slot, Sane(proc[p]), proc[p].cmd = "api",
           NEW made \in BOOLEAN, NEW unauthorized \in BOOLEAN, made => ~unauthorized,
           AfterError(p, made, unauthorized)
    PROVE  Retires(p)
<1>1. CASE Finish(p)
  BY <1>1, FinishSlot DEF Retires
<1>2. CASE unauthorized
  <2> DEFINE new == [proc[p] EXCEPT !.pc = "reload", !.token = NoToken, !.forced = TRUE,
                                    !.made = FALSE]
  <2>1. Finish(p) \/ proc' = [proc EXCEPT ![p] = new]
    BY <1>2 DEF AfterError
  <2>2. new \in Slot /\ new.pc = "reload" /\ new.token = NoToken /\ ~new.made
        /\ new.todo = proc[p].todo /\ new.cmd = proc[p].cmd
    BY DEF Slot, Places, NoToken, Pair
  <2> HIDE DEF new
  <2>3. CASE proc' = [proc EXCEPT ![p] = new]
    BY <2>2, <2>3 DEF Typed, Others, Retires, Sane, Copies, Saving
  <2> QED
    BY <1>1, <2>1, <2>3
<1> QED
  BY <1>1, <1>2 DEF AfterError, Retries

\* What each kind of step does to the invariant
-----------------------------------------------------------------------------
\* A step that gives no token into more hands, and may end families.
LEMMA RetreatKeeps ==
    ASSUME Typed, TokensKnown, SaversAhead, WholeUnlessParted,
           proc' \in [Proc -> Slot \cup {Idle}],
           fam' \in Seq(Nat), DOMAIN fam' = DOMAIN fam,
           \A f \in DOMAIN fam : fam'[f] \in {0, fam[f]},
           file' \in {file, NoToken},
           \A q \in Proc : proc'[q] # Idle =>
              \/ proc'[q].token \in {NoToken, file}
              \/ proc[q] # Idle /\ proc'[q].token = proc[q].token,
           \A q \in Proc : Copies(proc'[q]) =>
              /\ Copies(proc[q])
              /\ proc'[q].token = proc[q].token
              /\ proc'[q].pc = "refresh" <=> proc[q].pc = "refresh",
           \A f \in DOMAIN fam : f \notin parted' /\ fam'[f] # 0 =>
              /\ f \notin parted
              /\ \A q \in Proc : Saving(proc[q]) /\ proc[q].token[1] = f => Copies(proc'[q])
    PROVE  TokensKnown' /\ SaversAhead' /\ WholeUnlessParted'
<1>1. TokensKnown'
  BY DEF TokensKnown, Known
<1>2. \A q \in Proc : Saving(proc'[q]) => Saving(proc[q]) /\ proc'[q].token = proc[q].token
  BY DEF Saving, Copies
<1>3. \A q \in Proc : Saving(proc[q]) => proc[q].token[1] \in DOMAIN fam
  BY DEF TokensKnown, Known, Saving, Idle
<1>4. SaversAhead'
  <2> SUFFICES ASSUME NEW q \in Proc, Saving(proc'[q])
               PROVE  /\ fam'[proc'[q].token[1]] \in {0, proc'[q].token[2]}
                      /\ file'[1] = proc'[q].token[1] => file'[2] < proc'[q].token[2]
                      /\ \A x \in Proc \ {q} :
                            Copies(proc'[x]) /\ proc'[x].token[1] = proc'[q].token[1]
                            => proc'[x].token[2] < proc'[q].token[2]
    BY DEF SaversAhead
  <2>1. Saving(proc[q]) /\ proc'[q].token = proc[q].token
    BY <1>2
  <2>2. fam'[proc'[q].token[1]] \in {0, proc'[q].token[2]}
    BY <1>3, <2>1 DEF SaversAhead
  <2>3. file'[1] = proc'[q].token[1] => file'[2] < proc'[q].token[2]
    BY <1>3, <2>1 DEF SaversAhead, Typed, NoToken
  <2> QED
    BY <2>1, <2>2, <2>3 DEF SaversAhead
<1>5. WholeUnlessParted'
  <2> SUFFICES ASSUME NEW f \in DOMAIN fam, fam'[f] # 0, f \notin parted' PROVE Whole(f)'
    BY DEF WholeUnlessParted
  <2>1. Whole(f) /\ fam'[f] = fam[f]
    BY DEF WholeUnlessParted
  <2>2. \A q \in Proc : Has(proc'[q], f) => Has(proc[q], f) /\ proc'[q].token = proc[q].token
    BY DEF Has
  <2>3. ASSUME file'[1] = f, \A q \in Proc : Has(proc'[q], f) => proc'[q].pc = "refresh"
        PROVE  file'[2] = fam'[f]
    <3>1. file' = file
      BY <2>3 DEF Typed, NoToken
    <3>2. \A q \in Proc : Has(proc[q], f) => proc[q].pc = "refresh"
      BY <2>3 DEF Has, Copies, Saving
    <3> QED
      BY <2>1, <2>3, <3>1, <3>2 DEF Whole
  <2> QED
    BY <2>1, <2>2, <2>3 DEF Whole
<1> QED
  BY <1>1, <1>4, <1>5

LEMMA RetireKeeps ==
    ASSUME IInv, NEW p \in Proc, Retires(p), parted' \subseteq DOMAIN fam,
           fam' \in Seq(Nat), DOMAIN fam' = DOMAIN fam,
           \A f \in DOMAIN fam : fam'[f] \in {0, fam[f]},
           file' \in {file, NoToken},
           \A f \in DOMAIN fam : f \notin parted' /\ fam'[f] # 0 =>
              f \notin parted /\ (Saving(proc[p]) => proc[p].token[1] # f)
    PROVE  IInv'
<1>1. Typed'
  BY DEF IInv, Typed, Retires, NoToken, Pair
<1>2. AllSane'
  BY DEF IInv, AllSane, Retires, Others
<1>3. TokensKnown' /\ SaversAhead' /\ WholeUnlessParted'
  <2>1. \A q \in Proc : Copies(proc'[q]) => proc'[q] = proc[q]
    BY DEF Retires, Others, Copies, Saving, Idle
  <2>2. \A q \in Proc : proc'[q] # Idle =>
          \/ proc'[q].token \in {NoToken, file}
          \/ proc[q] # Idle /\ proc'[q].token = proc[q].token
    BY DEF Retires, Others
  <2>3. \A f \in DOMAIN fam : f \notin parted' /\ fam'[f] # 0 =>
          /\ f \notin parted
          /\ \A q \in Proc : Saving(proc[q]) /\ proc[q].token[1] = f => Copies(proc'[q])
    BY DEF Retires, Others, Copies
  <2>4. proc' \in [Proc -> Slot \cup {Idle}]
    BY DEF Retires
  <2> QED
    BY <2>1, <2>2, <2>3, <2>4, RetreatKeeps DEF IInv
<1> QED
  BY <1>1, <1>2, <1>3 DEF IInv

\* p takes the token of the file to refresh it.
LEMMA LoadKeeps ==
    ASSUME IInv, NEW p \in Proc, file # NoToken, ~Copies(proc[p]),
           proc' \in [Proc -> Slot \cup {Idle}], proc'[p] \in Slot, Others(p),
           Sane(proc'[p]), proc'[p].pc = "refresh", proc'[p].token = file,
           fam' = fam, file' = file, parted' = parted \cup Parts(p)
    PROVE  IInv'
<1>1. Typed'
  BY DEF IInv, Typed, Parts
<1>2. AllSane'
  BY DEF IInv, AllSane, Others
<1>3. TokensKnown'
  BY DEF IInv, TokensKnown, Known, Others
<1>4. \A q \in Proc : Saving(proc'[q]) => q # p /\ proc'[q] = proc[q]
  BY DEF Others, Saving
<1>5. SaversAhead'
  BY <1>4 DEF IInv, SaversAhead, Others
<1>6. WholeUnlessParted'
  <2> SUFFICES ASSUME NEW f \in DOMAIN fam, fam[f] # 0, f \notin parted' PROVE Whole(f)'
    BY DEF WholeUnlessParted
  <2>1. Whole(f)
    BY DEF IInv, WholeUnlessParted
  <2>2. CASE file[1] # f
    <3>1. \A q \in Proc : Has(proc'[q], f) => q # p /\ proc'[q] = proc[q]
      BY <2>2 DEF Has, Others
    <3> QED
      BY <2>1, <2>2, <3>1 DEF Whole
  <2>3. CASE file[1] = f
    <3>1. \A q \in Proc : ~Has(proc[q], f)
      BY <2>3 DEF Parts, Renewing, Has, Copies, Saving
    <3>2. file[2] = fam[f]
      BY <2>1, <2>3, <3>1 DEF Whole
    <3>3. \A q \in Proc : Has(proc'[q], f) => q = p
      BY <3>1 DEF Others
    <3> QED
      BY <2>3, <3>2, <3>3 DEF Whole
  <2> QED
    BY <2>2, <2>3
<1> QED
  BY <1>1, <1>2, <1>3, <1>5, <1>6 DEF IInv

\* p obtains the next token of a family.
LEMMA RotateKeeps ==
    ASSUME IInv, NEW p \in Proc, proc[p].pc = "refresh", LiveToken(proc[p].token),
           proc' \in [Proc -> Slot \cup {Idle}], proc'[p] \in Slot, Others(p),
           Sane(proc'[p]), proc'[p].pc = "save", proc'[p].token = Renewed(proc[p].token),
           fam' = [fam EXCEPT ![proc[p].token[1]] = @ + 1], file' = file,
           parted' = Open(parted)
    PROVE  IInv'
<1> DEFINE f == proc[p].token[1]
           n == proc[p].token[2]
<1>1. f \in DOMAIN fam /\ n # 0 /\ n \in Nat /\ fam[f] = n /\ f \in Nat
  BY DEF IInv, Typed, AllSane, Sane, TokensKnown, Known, LiveToken, Idle, Slot, Pair
<1>2. /\ fam' \in Seq(Nat) /\ DOMAIN fam' = DOMAIN fam /\ fam'[f] = n + 1
      /\ \A g \in DOMAIN fam : g # f => fam'[g] = fam[g]
  BY <1>1 DEF IInv, Typed
<1>3. proc'[p].token[1] = f /\ proc'[p].token[2] = n + 1 /\ proc'[p].token # NoToken
  BY <1>1 DEF Renewed, NoToken
<1> HIDE DEF f, n
<1>4. Typed'
  BY <1>2 DEF IInv, Typed, Open
<1>5. AllSane'
  BY DEF IInv, AllSane, Others
<1>6. TokensKnown'
  <2>1. \A t \in Pair : Known(t) => Known(t)'
    BY <1>1, <1>2 DEF Known, Pair
  <2>2. Known(proc[p].token)'
    BY <1>1, <1>2, <1>3 DEF Known
  <2>3. ASSUME NEW q \in Proc \ {p}, proc'[q] # Idle PROVE Known(proc[q].token)'
    <3>1. proc'[q] = proc[q] /\ proc[q] \in Slot
      BY <2>3 DEF Others, IInv, Typed
    <3>2. proc[q].token \in Pair /\ Known(proc[q].token)
      BY <2>3, <3>1, SlotFields DEF IInv, TokensKnown
    <3> QED
      BY <2>1, <3>1, <3>2 DEF Known
  <2>4. Known(file)'
    BY <2>1 DEF IInv, Typed, TokensKnown, Known
  <2> QED
    BY <2>2, <2>3, <2>4 DEF TokensKnown
<1>7. \A q \in Proc \ {p} : Saving(proc[q]) => proc[q].token[1] # f
  <2> SUFFICES ASSUME NEW q \in Proc \ {p}, Saving(proc[q]), proc[q].token[1] = f PROVE FALSE
    OBVIOUS
  <2>1. n < proc[q].token[2]
    BY DEF IInv, SaversAhead, Copies, f, n
  <2>2. n = proc[q].token[2]
    BY <1>1 DEF IInv, SaversAhead
  <2> QED
    BY <1>1, <2>1, <2>2
<1>8. SaversAhead'
  <2>1. \A q \in Proc : Saving(proc[q]) => proc[q].token[1] \in DOMAIN fam
    BY DEF IInv, TokensKnown, Known, Saving, Idle
  <2>2. ASSUME NEW q \in Proc \ {p}, Saving(proc'[q])
        PROVE  /\ fam'[proc'[q].token[1]] \in {0, proc'[q].token[2]}
               /\ file'[1] = proc'[q].token[1] => file'[2] < proc'[q].token[2]
               /\ \A x \in Proc \ {q} :
                     Copies(proc'[x]) /\ proc'[x].token[1] = proc'[q].token[1]
                     => proc'[x].token[2] < proc'[q].token[2]
    <3>1. proc'[q] = proc[q] /\ Saving(proc[q]) /\ proc[q].token[1] # f
      BY <1>7, <2>2 DEF Others
    <3>2. fam'[proc[q].token[1]] = fam[proc[q].token[1]]
      BY <1>2, <2>1, <3>1
    <3>3. \A x \in Proc \ {q} :
            Copies(proc'[x]) /\ proc'[x].token[1] = proc[q].token[1] => proc'[x] = proc[x]
      BY <1>3, <3>1 DEF Others
    <3> QED
      BY <3>1, <3>2, <3>3 DEF IInv, SaversAhead
  <2>3. file[1] = f => file[2] < n + 1
    BY <1>1 DEF IInv, TokensKnown, Known, Typed, Pair, NoToken
  <2>4. \A x \in Proc \ {p} :
          Copies(proc'[x]) /\ proc'[x].token[1] = f => proc'[x].token[2] < n + 1
    <3> SUFFICES ASSUME NEW x \in Proc \ {p}, Copies(proc[x]), proc[x].token[1] = f
                 PROVE  proc[x].token[2] < n + 1
      BY DEF Others
    <3>1. proc[x] \in Slot /\ proc[x].token # NoToken
      BY DEF IInv, Typed, Copies, Saving, Idle, AllSane, Sane
    <3>2. Known(proc[x].token) /\ proc[x].token \in Pair
      BY <3>1, SlotFields DEF IInv, TokensKnown
    <3> QED
      BY <1>1, <3>1, <3>2 DEF Known, Pair
  <2> QED
    BY <1>2, <1>3, <2>2, <2>3, <2>4 DEF SaversAhead
<1>9. WholeUnlessParted'
  <2> SUFFICES ASSUME NEW g \in DOMAIN fam, fam'[g] # 0, g \notin parted' PROVE Whole(g)'
    BY <1>2 DEF WholeUnlessParted
  <2>1. Whole(g)
    BY <1>1, <1>2 DEF IInv, WholeUnlessParted, Open
  <2>2. CASE g # f
    <3>1. \A q \in Proc : Has(proc'[q], g) => q # p /\ proc'[q] = proc[q]
      BY <1>3, <2>2 DEF Has, Others
    <3>2. ~Has(proc[p], g)
      BY <2>2 DEF Has, f
    <3>3. \A q \in Proc : Has(proc[q], g) => Has(proc'[q], g) /\ proc'[q] = proc[q]
      BY <3>2 DEF Others
    <3>4. \A q \in Proc : Has(proc'[q], g) => Has(proc[q], g)
      BY <3>1
    <3>5. fam'[g] = fam[g]
      BY <1>2, <2>2
    <3>6. ASSUME file'[1] = g, \A q \in Proc : Has(proc'[q], g) => proc'[q].pc = "refresh"
          PROVE  file'[2] = fam'[g]
      <4>1. \A q \in Proc : Has(proc[q], g) => proc[q].pc = "refresh"
        BY <3>3, <3>6
      <4> QED
        BY <2>1, <3>5, <3>6, <4>1 DEF Whole
    <3> QED
      BY <2>1, <3>1, <3>4, <3>5, <3>6 DEF Whole
  <2>3. CASE g = f
    <3>1. Has(proc[p], g) /\ Has(proc'[p], g)
      BY <1>3, <2>3 DEF Has, Copies, Saving, f
    <3>2. \A q \in Proc : Has(proc'[q], g) => q = p
      BY <2>1, <3>1 DEF Whole, Others
    <3> QED
      BY <1>2, <1>3, <2>3, <3>1, <3>2 DEF Whole
  <2> QED
    BY <2>2, <2>3
<1> QED
  BY <1>4, <1>5, <1>6, <1>8, <1>9 DEF IInv

\* p writes what it has to the file.
LEMMA RenameKeeps ==
    ASSUME IInv, NEW p \in Proc, Saving(proc[p]), Retires(p), fam' = fam,
           file' = proc[p].token, parted' = parted
    PROVE  IInv'
<1> DEFINE t == proc[p].token
<1>1. proc[p] \in Slot /\ t \in Pair /\ Known(t) /\ t # NoToken
  BY SlotFields DEF IInv, Typed, TokensKnown, Saving, Idle
<1>2. \A q \in Proc : Copies(proc'[q]) => q # p /\ proc'[q] = proc[q]
  BY DEF Retires, Others, Copies, Saving, Idle
<1>3. Typed'
  BY <1>1 DEF IInv, Typed, Retires
<1>4. AllSane'
  BY DEF IInv, AllSane, Retires, Others
<1>5. TokensKnown'
  BY <1>1 DEF IInv, TokensKnown, Known, Retires, Others
<1>6. \A q \in Proc : Saving(proc'[q]) => Copies(proc'[q]) /\ Saving(proc[q])
  BY <1>2 DEF Copies
<1>7. SaversAhead'
  BY <1>2, <1>6 DEF IInv, SaversAhead, Copies
<1>8. WholeUnlessParted'
  <2> SUFFICES ASSUME NEW f \in DOMAIN fam, fam[f] # 0, f \notin parted PROVE Whole(f)'
    BY DEF WholeUnlessParted
  <2>1. Whole(f)
    BY DEF IInv, WholeUnlessParted
  <2>2. \A q \in Proc : Has(proc'[q], f) => Has(proc[q], f) /\ proc'[q] = proc[q]
    BY <1>2 DEF Has
  <2>3. file'[1] = f => file'[2] = fam[f]
    BY <2>1 DEF Whole, Has, Copies
  <2> QED
    BY <2>1, <2>2, <2>3 DEF Whole
<1> QED
  BY <1>3, <1>4, <1>5, <1>7, <1>8 DEF IInv

\* p opens a family.
LEMMA LoginKeeps ==
    ASSUME IInv, NEW p \in Proc, ~Copies(proc[p]),
           proc' \in [Proc -> Slot \cup {Idle}], proc'[p] \in Slot, Others(p),
           Sane(proc'[p]), proc'[p].pc = "save", proc'[p].token = <<Len(fam) + 1, 1>>,
           fam' = Append(fam, 1), file' = file, parted' = parted
    PROVE  IInv'
<1> DEFINE n == Len(fam) + 1
<1>1. /\ n \in Nat /\ n \notin DOMAIN fam /\ n # 0
      /\ fam' \in Seq(Nat) /\ DOMAIN fam' = DOMAIN fam \cup {n}
      /\ fam'[n] = 1 /\ \A f \in DOMAIN fam : fam'[f] = fam[f]
  BY DEF IInv, Typed
<1> HIDE DEF n
<1>2. proc'[p].token[1] = n /\ proc'[p].token[2] = 1 /\ proc'[p].token # NoToken
  BY <1>1 DEF n, NoToken
<1>3. Typed'
  BY <1>1 DEF IInv, Typed
<1>4. AllSane'
  BY DEF IInv, AllSane, Others
<1>5. TokensKnown'
  <2>1. \A t \in Pair : Known(t) => Known(t)'
    BY <1>1 DEF Known, Pair
  <2>2. Known(proc[p].token)'
    BY <1>1, <1>2 DEF Known
  <2>3. ASSUME NEW q \in Proc \ {p}, proc'[q] # Idle PROVE Known(proc[q].token)'
    <3>1. proc'[q] = proc[q] /\ proc[q] \in Slot
      BY <2>3 DEF Others, IInv, Typed
    <3>2. proc[q].token \in Pair /\ Known(proc[q].token)
      BY <2>3, <3>1, SlotFields DEF IInv, TokensKnown
    <3> QED
      BY <2>1, <3>1, <3>2 DEF Known
  <2>4. Known(file)'
    BY <2>1 DEF IInv, Typed, TokensKnown, Known
  <2> QED
    BY <2>2, <2>3, <2>4 DEF TokensKnown
<1>6. \A q \in Proc : Copies(proc[q]) => proc[q].token[1] \in DOMAIN fam
  BY DEF IInv, TokensKnown, Known, Copies, Saving, Idle, AllSane, Sane
<1>7. file[1] # n
  BY <1>1 DEF IInv, TokensKnown, Known, NoToken
<1>8. SaversAhead'
  <2>1. ASSUME NEW q \in Proc \ {p}, Saving(proc'[q])
        PROVE  /\ fam'[proc'[q].token[1]] \in {0, proc'[q].token[2]}
               /\ file'[1] = proc'[q].token[1] => file'[2] < proc'[q].token[2]
               /\ \A x \in Proc \ {q} :
                     Copies(proc'[x]) /\ proc'[x].token[1] = proc'[q].token[1]
                     => proc'[x].token[2] < proc'[q].token[2]
    <3>1. proc'[q] = proc[q] /\ Saving(proc[q]) /\ proc[q].token[1] \in DOMAIN fam
      BY <1>6, <2>1 DEF Others, Copies
    <3>2. fam'[proc[q].token[1]] = fam[proc[q].token[1]]
      BY <1>1, <3>1
    <3>3. \A x \in Proc \ {q} :
            Copies(proc'[x]) /\ proc'[x].token[1] = proc[q].token[1] => proc'[x] = proc[x]
      BY <1>1, <1>2, <3>1 DEF Others
    <3> QED
      BY <3>1, <3>2, <3>3 DEF IInv, SaversAhead
  <2>2. \A x \in Proc \ {p} : Copies(proc'[x]) => proc'[x].token[1] # n
    BY <1>1, <1>6 DEF Others
  <2> QED
    BY <1>1, <1>2, <1>7, <2>1, <2>2 DEF SaversAhead
<1>9. WholeUnlessParted'
  <2> SUFFICES ASSUME NEW f \in DOMAIN fam \cup {n}, fam'[f] # 0, f \notin parted PROVE Whole(f)'
    BY <1>1 DEF WholeUnlessParted
  <2>1. CASE f = n
    <3>1. \A q \in Proc : Has(proc'[q], n) <=> q = p
      BY <1>1, <1>2, <1>6 DEF Has, Others, Copies, Saving
    <3> QED
      BY <1>1, <1>2, <1>7, <2>1, <3>1 DEF Whole
  <2>2. CASE f \in DOMAIN fam
    <3>1. \A q \in Proc : Has(proc'[q], f) <=> Has(proc[q], f)
      BY <1>1, <1>2, <2>2 DEF Has, Others
    <3>2. \A q \in Proc : Has(proc[q], f) => proc'[q] = proc[q]
      BY DEF Has, Others
    <3>3. Whole(f)
      BY <1>1, <2>2 DEF IInv, WholeUnlessParted
    <3> QED
      BY <1>1, <2>2, <3>1, <3>2, <3>3 DEF Whole
  <2> QED
    BY <2>1, <2>2
<1> QED
  BY <1>3, <1>4, <1>5, <1>8, <1>9 DEF IInv

\* Retiring, with nothing to save and without an effect on the families.
LEMMA QuietKeeps ==
    ASSUME IInv, NEW p \in Proc, Retires(p), ~Saving(proc[p]), fam' = fam,
           file' \in {file, NoToken}, parted' = parted
    PROVE  IInv'
BY RetireKeeps DEF IInv, Typed

\* The actions
-----------------------------------------------------------------------------
\* A process that is at a place has a slot, and the slot is sane.
LEMMA PlaceSlot ==
    ASSUME IInv, NEW p \in Proc, proc[p].pc # "idle"
    PROVE  proc[p] \in Slot /\ Sane(proc[p]) /\ Typed
BY BusySlot DEF IInv, AllSane, Idle

LEMMA StartKeeps ==
    ASSUME IInv, NEW p \in Proc, NEW cmd \in {"login", "logout", "api"},
           NEW pc \in {"load", "prompt"}, NEW todo \in Seq(Calls),
           pc = "load" => cmd # "login", cmd = "api" => todo # << >>,
           Start(p, cmd, pc, todo)
    PROVE  IInv'
<1> DEFINE new == [cmd |-> cmd, pc |-> pc, todo |-> todo, token |-> NoToken,
                   forced |-> FALSE, made |-> FALSE]
<1>1. new \in Slot /\ new.pc = pc /\ new.cmd = cmd /\ new.todo = todo
      /\ new.token = NoToken /\ ~new.made
  BY DEF Slot, Places, NoToken, Pair
<1>2. proc' = [proc EXCEPT ![p] = new] /\ proc[p] = Idle
  BY DEF Start
<1> HIDE DEF new
<1>3. Retires(p)
  BY <1>1, <1>2 DEF IInv, Typed, Retires, Others, Sane, Copies, Saving
<1> QED
  BY <1>2, <1>3, QuietKeeps DEF Start, server, Saving, Idle

LEMMA RunKeeps ==
    ASSUME IInv, NEW p \in Proc, Run(p)
    PROVE  IInv'
<1>0. << >> \in Seq(Calls)
  BY EmptySeq
<1>1. CASE StartLogin(p)
  BY <1>1, <1>0, StartKeeps DEF StartLogin
<1>2. CASE StartLogout(p)
  BY <1>2, <1>0, StartKeeps DEF StartLogout
<1>3. CASE StartApi(p)
  <2>1. PICK s \in Api : Start(p, "api", "load", s)
    BY <1>3 DEF StartApi
  <2>2. s \in Seq(Calls) /\ s # << >>
    <3>1. /\ <<"get">> \in Seq(Calls) /\ <<"createDatabase">> \in Seq(Calls)
          /\ <<"uri">> \in Seq(Calls)
      BY DEF Calls
    <3>2. <<"get">> # << >> /\ <<"createDatabase">> # << >> /\ <<"uri">> # << >>
      OBVIOUS
    <3> QED
      BY <3>1, <3>2 DEF Api
  <2> QED
    BY <2>1, <2>2, StartKeeps
<1>4. CASE StartPsql(p)
  <2>1. Connect \in Seq(Calls) /\ Connect # << >>
    BY DEF Connect, Calls
  <2>2. Bootstrap \in Seq(Calls) /\ Bootstrap # << >>
    BY DEF Bootstrap, Calls
  <2> QED
    BY <1>4, <2>1, <2>2, StartKeeps DEF StartPsql
<1> QED
  BY <1>1, <1>2, <1>3, <1>4 DEF Run

LEMMA GetValidKeeps ==
    ASSUME IInv, NEW p \in Proc, GetValidAccessToken(p)
    PROVE  IInv'
<1>1. proc[p] \in Slot /\ Sane(proc[p]) /\ Typed /\ file \in Pair
      /\ ~Copies(proc[p]) /\ ~Saving(proc[p])
  BY PlaceSlot DEF GetValidAccessToken, At, Typed, Copies, Saving
<1>2. "refresh" \in Places /\ "call" \in Places
  BY DEF Places
<1>3. CASE Expired(file)
  <2>1. Take(p, "refresh", file) /\ parted' = parted \cup Parts(p)
    BY <1>3 DEF GetValidAccessToken
  <2>2. /\ proc' \in [Proc -> Slot \cup {Idle}] /\ proc'[p] \in Slot /\ Others(p)
        /\ proc'[p].pc = "refresh" /\ proc'[p].token = file /\ proc'[p].made = proc[p].made
        /\ proc'[p].cmd = proc[p].cmd /\ proc'[p].todo = proc[p].todo
    BY <1>1, <1>2, <2>1, TakeSlot
  <2>3. Sane(proc'[p])
    BY <1>1, <2>2 DEF Sane, GetValidAccessToken
  <2> QED
    BY <1>1, <2>1, <2>2, <2>3, LoadKeeps DEF GetValidAccessToken, server
<1>4. CASE ~Expired(file)
  <2>1. Take(p, "call", file) /\ parted' = parted
    BY <1>4 DEF GetValidAccessToken
  <2>2. /\ proc' \in [Proc -> Slot \cup {Idle}] /\ proc'[p] \in Slot /\ Others(p)
        /\ proc'[p].pc = "call" /\ proc'[p].token = file /\ proc'[p].made = proc[p].made
        /\ proc'[p].cmd = proc[p].cmd /\ proc'[p].todo = proc[p].todo
    BY <1>1, <1>2, <2>1, TakeSlot
  <2>3. Retires(p)
    BY <1>1, <2>2 DEF Retires, Sane, Copies, Saving, GetValidAccessToken, At
  <2> QED
    BY <1>1, <2>1, <2>3, QuietKeeps DEF GetValidAccessToken, server
<1> QED
  BY <1>3, <1>4

LEMMA NotConfiguredKeeps ==
    ASSUME IInv, NEW p \in Proc, AuthNotConfigured(p)
    PROVE  IInv'
<1>1. proc[p] \in Slot /\ Sane(proc[p]) /\ Typed /\ proc[p].pc = "load" /\ ~Saving(proc[p])
      /\ proc[p] # Idle
  BY PlaceSlot DEF AuthNotConfigured, At, Saving, Idle
<1>2. Retires(p)
  <2>1. CASE Finish(p)
    BY <1>1, <2>1, FinishSlot DEF Retires
  <2>2. CASE Goto(p, "prompt")
    <3>1. "prompt" \in Places
      BY DEF Places
    <3>2. /\ proc' \in [Proc -> Slot \cup {Idle}] /\ proc'[p] \in Slot /\ Others(p)
          /\ proc'[p].pc = "prompt" /\ proc'[p].token = proc[p].token
          /\ proc'[p].made = proc[p].made
          /\ proc'[p].cmd = proc[p].cmd /\ proc'[p].todo = proc[p].todo
      BY <1>1, <2>2, <3>1, GotoSlot
    <3> QED
      BY <1>1, <3>2 DEF Retires, Sane, Copies, Saving
  <2> QED
    BY <2>1, <2>2 DEF AuthNotConfigured
<1> QED
  BY <1>1, <1>2, QuietKeeps DEF AuthNotConfigured, server

LEMMA LoginStepKeeps ==
    ASSUME IInv, NEW p \in Proc, Login(p)
    PROVE  IInv'
<1>1. proc[p] \in Slot /\ Sane(proc[p]) /\ Typed /\ ~Copies(proc[p])
  BY PlaceSlot DEF Login, At, Copies, Saving
<1>2. <<Len(fam) + 1, 1>> \in Pair /\ "save" \in Places
  BY <1>1 DEF Typed, Pair, Places
<1>3. /\ proc' \in [Proc -> Slot \cup {Idle}] /\ proc'[p] \in Slot /\ Others(p)
      /\ proc'[p].pc = "save" /\ proc'[p].token = <<Len(fam) + 1, 1>>
      /\ proc'[p].made = proc[p].made
      /\ proc'[p].cmd = proc[p].cmd /\ proc'[p].todo = proc[p].todo
  BY <1>1, <1>2, TakeSlot DEF Login
<1>4. Sane(proc'[p])
  BY <1>1, <1>3 DEF Sane
<1> QED
  BY <1>1, <1>3, <1>4, LoginKeeps DEF Login

LEMMA ForceKeeps ==
    ASSUME IInv, NEW p \in Proc, ForceRefreshAccessToken(p)
    PROVE  IInv'
<1>1. proc[p] \in Slot /\ Sane(proc[p]) /\ Typed /\ file \in Pair
      /\ ~Copies(proc[p]) /\ ~Saving(proc[p])
  BY PlaceSlot DEF ForceRefreshAccessToken, At, Typed, Copies, Saving
<1>2. fam' = fam /\ file' = file /\ parted' = parted \cup Parts(p)
  BY DEF ForceRefreshAccessToken, server
<1>3. CASE file = NoToken
  <2>1. Retires(p)
    BY <1>1, <1>3, FinishSlot DEF ForceRefreshAccessToken, Retires
  <2>2. parted' \subseteq DOMAIN fam
    BY <1>1, <1>2 DEF Typed, Parts
  <2> QED
    BY <1>1, <1>2, <2>1, <2>2, RetireKeeps DEF Typed
<1>4. CASE file # NoToken
  <2>1. "refresh" \in Places
    BY DEF Places
  <2>2. /\ proc' \in [Proc -> Slot \cup {Idle}] /\ proc'[p] \in Slot /\ Others(p)
        /\ proc'[p].pc = "refresh" /\ proc'[p].token = file /\ proc'[p].made = proc[p].made
        /\ proc'[p].cmd = proc[p].cmd /\ proc'[p].todo = proc[p].todo
    BY <1>1, <1>4, <2>1, TakeSlot DEF ForceRefreshAccessToken
  <2>3. Sane(proc'[p])
    BY <1>1, <1>4, <2>2 DEF Sane
  <2> QED
    BY <1>1, <1>2, <1>4, <2>2, <2>3, LoadKeeps
<1> QED
  BY <1>3, <1>4

LEMMA RefreshKeeps ==
    ASSUME IInv, NEW p \in Proc, RefreshAccessToken(p)
    PROVE  IInv'
<1> DEFINE t == proc[p].token
<1>1. proc[p] \in Slot /\ Sane(proc[p]) /\ Typed /\ proc[p].pc = "refresh" /\ ~Saving(proc[p])
      /\ t \in Pair
  BY PlaceSlot, SlotFields DEF RefreshAccessToken, At, Saving
<1>2. file' = file /\ parted' = Open(parted)
  BY DEF RefreshAccessToken
<1>3. CASE LiveToken(t)
  <2>1. Renewed(t) \in Pair /\ "save" \in Places
    BY <1>1 DEF Renewed, Pair, Places
  <2>2. Take(p, "save", Renewed(t)) /\ fam' = [fam EXCEPT ![t[1]] = @ + 1]
    BY <1>3 DEF RefreshAccessToken, Presented
  <2>3. /\ proc' \in [Proc -> Slot \cup {Idle}] /\ proc'[p] \in Slot /\ Others(p)
        /\ proc'[p].pc = "save" /\ proc'[p].token = Renewed(t) /\ proc'[p].made = proc[p].made
        /\ proc'[p].cmd = proc[p].cmd /\ proc'[p].todo = proc[p].todo
    BY <1>1, <2>1, <2>2, TakeSlot
  <2>4. Sane(proc'[p])
    BY <1>1, <2>3 DEF Sane
  <2> QED
    BY <1>1, <1>2, <1>3, <2>2, <2>3, <2>4, RotateKeeps
<1>4. CASE ~LiveToken(t)
  <2>1. Retires(p)
    BY <1>1, <1>4, FinishSlot DEF RefreshAccessToken, Retires
  <2>2. fam' \in {End(t[1]), fam}
    BY <1>4 DEF RefreshAccessToken, Presented
  <2>3. /\ fam' \in Seq(Nat) /\ DOMAIN fam' = DOMAIN fam
        /\ \A f \in DOMAIN fam : fam'[f] \in {0, fam[f]}
    BY <1>1, <2>2 DEF Typed, End
  <2>4. parted' \subseteq DOMAIN fam
    BY <1>1, <1>2 DEF Typed, Open
  <2>5. \A f \in DOMAIN fam : f \notin parted' /\ fam'[f] # 0 => f \notin parted
    BY <1>2 DEF Open
  <2> QED
    BY <1>1, <1>2, <2>1, <2>3, <2>4, <2>5, RetireKeeps
<1> QED
  BY <1>3, <1>4

LEMMA WriteTempKeeps ==
    ASSUME IInv, NEW p \in Proc, WriteTemp(p)
    PROVE  IInv'
<1>1. proc[p] \in Slot /\ Sane(proc[p]) /\ Typed /\ proc[p].pc = "save"
  BY PlaceSlot DEF WriteTemp, At
<1>2. /\ proc' \in [Proc -> Slot \cup {Idle}] /\ proc'[p] \in Slot /\ Others(p)
      /\ proc'[p].pc = "rename" /\ proc'[p].token = proc[p].token
      /\ proc'[p].made = proc[p].made
      /\ proc'[p].cmd = proc[p].cmd /\ proc'[p].todo = proc[p].todo
  BY <1>1, GotoSlot DEF WriteTemp, Places
<1>3. fam' = fam /\ file' = file /\ parted' = parted
  BY DEF WriteTemp, server
<1>4. \A q \in Proc : proc'[q] # Idle => proc[q] # Idle /\ proc'[q].token = proc[q].token
  BY <1>1, <1>2, SlotFields DEF Others
<1>5. \A q \in Proc : Copies(proc'[q]) =>
        /\ Copies(proc[q])
        /\ proc'[q].token = proc[q].token
        /\ proc'[q].pc = "refresh" <=> proc[q].pc = "refresh"
  BY <1>1, <1>2 DEF Others, Copies, Saving
<1>6. \A q \in Proc : Saving(proc[q]) => Copies(proc'[q])
  BY <1>1, <1>2 DEF Others, Copies, Saving
<1>7. TokensKnown' /\ SaversAhead' /\ WholeUnlessParted'
  BY <1>2, <1>3, <1>4, <1>5, <1>6, RetreatKeeps DEF IInv, Typed
<1>8. Typed'
  BY <1>1, <1>2, <1>3 DEF Typed
<1>9. AllSane'
  BY <1>1, <1>2 DEF IInv, AllSane, Others, Sane
<1> QED
  BY <1>7, <1>8, <1>9 DEF IInv

LEMMA RenameStepKeeps ==
    ASSUME IInv, NEW p \in Proc, Rename(p)
    PROVE  IInv'
<1>1. proc[p] \in Slot /\ Sane(proc[p]) /\ Typed /\ proc[p].pc = "rename" /\ proc[p] # Idle
  BY PlaceSlot DEF Rename, At, Idle
<1>2. fam' = fam /\ file' = proc[p].token /\ parted' = parted
  BY DEF Rename, server
<1>3. Retires(p)
  <2>1. CASE Finish(p)
    BY <1>1, <2>1, FinishSlot DEF Retires
  <2>2. CASE proc[p].cmd # "login" /\ \E pc \in {"clearConfig", "call"} : Goto(p, pc)
    <3>1. PICK pc \in {"clearConfig", "call"} : Goto(p, pc)
      BY <2>2
    <3>2. pc \in Places
      BY DEF Places
    <3>3. /\ proc' \in [Proc -> Slot \cup {Idle}] /\ proc'[p] \in Slot /\ Others(p)
          /\ proc'[p].pc = pc /\ proc'[p].token = proc[p].token
          /\ proc'[p].made = proc[p].made
          /\ proc'[p].cmd = proc[p].cmd /\ proc'[p].todo = proc[p].todo
      BY <1>1, <3>1, <3>2, GotoSlot
    <3> QED
      BY <1>1, <2>2, <3>3 DEF Retires, Sane, Copies, Saving
  <2>3. CASE proc[p].cmd = "login"
    BY <2>1, <2>3 DEF Rename
  <2>4. CASE proc[p].cmd # "login"
    BY <2>2, <2>4 DEF Rename
  <2> QED
    BY <2>3, <2>4
<1>4. CASE proc[p].token = NoToken
  BY <1>2, <1>3, <1>4, QuietKeeps DEF Saving
<1>5. CASE proc[p].token # NoToken
  BY <1>1, <1>2, <1>3, <1>5, RenameKeeps DEF Saving
<1> QED
  BY <1>4, <1>5

\* A call that retires its process.
LEMMA CallKeeps ==
    ASSUME IInv, NEW p \in Proc,
           (At(p, "call") /\ proc[p].cmd # "logout") \/ At(p, "saveConfig"),
           fam' = fam, file' = file, parted' = parted,
           \/ Finish(p)
           \/ Proceed(p)
           \/ At(p, "call") /\ Goto(p, "saveConfig")
           \/ \E made, unauthorized \in BOOLEAN :
                 (made => ~unauthorized) /\ AfterError(p, made, unauthorized)
    PROVE  IInv'
<1>1. proc[p] \in Slot /\ Sane(proc[p]) /\ Typed /\ ~Saving(proc[p]) /\ proc[p] # Idle
  BY PlaceSlot DEF At, Saving, Idle
<1>2. proc[p].cmd = "api"
  BY <1>1, SlotFields DEF Sane, At
<1>3. CASE Finish(p)
  <2>1. Retires(p)
    BY <1>1, <1>3, FinishSlot DEF Retires
  <2> QED
    BY <1>1, <2>1, QuietKeeps
<1>4. CASE Proceed(p)
  BY <1>1, <1>2, <1>4, ProceedRetires, QuietKeeps
<1>5. CASE Goto(p, "saveConfig")
  <2>1. "saveConfig" \in Places
    BY DEF Places
  <2>2. /\ proc' \in [Proc -> Slot \cup {Idle}] /\ proc'[p] \in Slot /\ Others(p)
        /\ proc'[p].pc = "saveConfig" /\ proc'[p].token = proc[p].token
        /\ proc'[p].made = proc[p].made
        /\ proc'[p].cmd = proc[p].cmd /\ proc'[p].todo = proc[p].todo
    BY <1>1, <1>5, <2>1, GotoSlot
  <2>3. Retires(p)
    BY <1>1, <1>2, <2>2 DEF Retires, Sane, Copies, Saving
  <2> QED
    BY <1>1, <2>3, QuietKeeps
<1>6. ASSUME NEW made \in BOOLEAN, NEW unauthorized \in BOOLEAN, made => ~unauthorized,
             AfterError(p, made, unauthorized)
      PROVE  IInv'
  BY <1>1, <1>2, <1>6, AfterErrorRetires, QuietKeeps
<1> QED
  BY <1>3, <1>4, <1>5, <1>6

LEMMA CallStepKeeps ==
    ASSUME IInv, NEW p \in Proc,
           \/ Unauthorized(p) \/ ListProjects(p) \/ GetDatabase(p) \/ GetDatabaseURI(p)
           \/ CreateAnswered(p) \/ CreateUnanswered(p) \/ SaveConfig(p)
    PROVE  IInv'
<1>1. CASE Unauthorized(p)
  <2>1. proc[p] \in Slot /\ Sane(proc[p])
    BY <1>1, PlaceSlot DEF Unauthorized, At
  <2>2. proc[p].made = FALSE
    BY <2>1, SlotFields DEF Sane
  <2>3. AfterError(p, FALSE, TRUE)
    BY <1>1, <2>2 DEF Unauthorized
  <2> QED
    BY <1>1, <2>3, CallKeeps DEF Unauthorized, server
<1>2. CASE ListProjects(p)
  BY <1>2, CallKeeps DEF ListProjects, Sent, server
<1>3. CASE GetDatabase(p)
  BY <1>3, CallKeeps DEF GetDatabase, Sent, server
<1>4. CASE GetDatabaseURI(p)
  BY <1>4, CallKeeps DEF GetDatabaseURI, Sent, server
<1>5. CASE CreateAnswered(p)
  BY <1>5, CallKeeps DEF CreateAnswered, Creates, Sent
<1>6. CASE CreateUnanswered(p)
  BY <1>6, CallKeeps DEF CreateUnanswered, Creates, Sent
<1>7. CASE SaveConfig(p)
  BY <1>7, CallKeeps DEF SaveConfig, server
<1> QED
  BY <1>1, <1>2, <1>3, <1>4, <1>5, <1>6, <1>7

LEMMA LogoutKeeps ==
    ASSUME IInv, NEW p \in Proc, Logout(p)
    PROVE  IInv'
<1> DEFINE t == proc[p].token
<1>1. proc[p] \in Slot /\ Sane(proc[p]) /\ Typed /\ ~Saving(proc[p]) /\ proc[p] # Idle
  BY PlaceSlot DEF Logout, At, Saving, Idle
<1>2. Retires(p)
  <2>1. CASE Finish(p)
    BY <1>1, <2>1, FinishSlot DEF Retires
  <2>2. CASE Take(p, "save", NoToken)
    <3>1. "save" \in Places /\ NoToken \in Pair
      BY DEF Places, NoToken, Pair
    <3>2. /\ proc' \in [Proc -> Slot \cup {Idle}] /\ proc'[p] \in Slot /\ Others(p)
          /\ proc'[p].pc = "save" /\ proc'[p].token = NoToken
          /\ proc'[p].made = proc[p].made
          /\ proc'[p].cmd = proc[p].cmd /\ proc'[p].todo = proc[p].todo
      BY <1>1, <2>2, <3>1, TakeSlot
    <3> QED
      BY <1>1, <3>2 DEF Retires, Sane, Copies, Saving
  <2> QED
    BY <2>1, <2>2 DEF Logout
<1>3. fam' \in {End(t[1]), fam} /\ file' = file /\ parted' = Open(parted)
  BY DEF Logout
<1>4. /\ fam' \in Seq(Nat) /\ DOMAIN fam' = DOMAIN fam
      /\ \A f \in DOMAIN fam : fam'[f] \in {0, fam[f]}
  BY <1>1, <1>3 DEF Typed, End
<1>5. parted' \subseteq DOMAIN fam
  BY <1>1, <1>3 DEF Typed, Open
<1>6. \A f \in DOMAIN fam : f \notin parted' /\ fam'[f] # 0 => f \notin parted
  BY <1>3 DEF Open
<1> QED
  BY <1>1, <1>2, <1>3, <1>4, <1>5, <1>6, RetireKeeps

LEMMA ClearConfigKeeps ==
    ASSUME IInv, NEW p \in Proc, ClearConfig(p)
    PROVE  IInv'
<1>1. Typed /\ ~Saving(proc[p])
  BY PlaceSlot DEF ClearConfig, At, Saving
<1>2. Retires(p)
  BY <1>1, FinishSlot DEF ClearConfig, Retires
<1> QED
  BY <1>1, <1>2, QuietKeeps DEF ClearConfig, server

LEMMA FailKeeps ==
    ASSUME IInv, NEW p \in Proc, Fail(p)
    PROVE  IInv'
<1>1. Typed /\ fam' = fam /\ file' = file
  BY DEF IInv, Fail, server
<1>2. Retires(p)
  BY <1>1, FinishSlot DEF Fail, Retires
<1>3. parted' \subseteq DOMAIN fam
  BY <1>1 DEF Fail, Typed
<1>4. \A f \in DOMAIN fam : f \notin parted' /\ fam'[f] # 0 =>
        f \notin parted /\ (Saving(proc[p]) => proc[p].token[1] # f)
  BY <1>1 DEF Fail, Renewing, Saving, At
<1> QED
  BY <1>1, <1>2, <1>3, <1>4, RetireKeeps DEF Typed

LEMMA CloseKeeps ==
    ASSUME IInv, NEW f \in DOMAIN fam, Close(f)
    PROVE  IInv'
<1>1. file' = file /\ proc' = proc /\ parted' = Open(parted) /\ fam' = [fam EXCEPT ![f] = 0]
  BY DEF Close, End
<1>2. /\ fam' \in Seq(Nat) /\ DOMAIN fam' = DOMAIN fam
      /\ \A g \in DOMAIN fam : fam'[g] \in {0, fam[g]}
  BY <1>1 DEF IInv, Typed
<1>3. Typed'
  BY <1>1, <1>2 DEF IInv, Typed, Open
<1>4. \A g \in DOMAIN fam : g \notin parted' /\ fam'[g] # 0 => g \notin parted
  BY <1>1 DEF Open
<1>5. TokensKnown' /\ SaversAhead' /\ WholeUnlessParted'
  BY <1>1, <1>2, <1>4, RetreatKeeps DEF IInv, Typed, Copies
<1> QED
  BY <1>1, <1>3, <1>5 DEF IInv, AllSane

-----------------------------------------------------------------------------
LEMMA InitHolds == Init => IInv
<1> SUFFICES ASSUME Init PROVE IInv
  OBVIOUS
<1>1. \A p \in Proc : proc[p] = Idle /\ ~Saving(proc[p])
  BY DEF Init, Idle, Saving
<1>2. Typed
  BY DEF Init, Typed, NoToken, Pair
<1>3. TokensKnown /\ AllSane /\ SaversAhead
  BY <1>1 DEF Init, TokensKnown, Known, AllSane, SaversAhead
<1>4. WholeUnlessParted
  BY DEF Init, WholeUnlessParted
<1> QED
  BY <1>2, <1>3, <1>4 DEF IInv

LEMMA StepKeeps == IInv /\ [Next]_vars => IInv'
<1> SUFFICES ASSUME IInv, [Next]_vars PROVE IInv'
  OBVIOUS
<1>1. CASE UNCHANGED <<fam, file, proc, parted>>
  BY <1>1 DEF IInv, Typed, AllSane, TokensKnown, Known, SaversAhead, WholeUnlessParted, Whole
<1>2. ASSUME NEW p \in Proc, Progress(p) PROVE IInv'
  BY <1>2, GetValidKeeps, NotConfiguredKeeps, LoginStepKeeps, ForceKeeps, RefreshKeeps,
     WriteTempKeeps, RenameStepKeeps, CallStepKeeps, LogoutKeeps, ClearConfigKeeps
     DEF Progress
<1>3. ASSUME NEW p \in Proc, Run(p) \/ Fail(p) PROVE IInv'
  BY <1>3, RunKeeps, FailKeeps
<1>4. ASSUME NEW f \in DOMAIN fam, Expire(f) \/ Close(f) PROVE IInv'
  BY <1>1, <1>4, CloseKeeps DEF Expire
<1> QED
  BY <1>1, <1>2, <1>3, <1>4 DEF Next, vars, server

LEMMA Invariant == Spec => []IInv
BY InitHolds, StepKeeps, PTL DEF Spec

-----------------------------------------------------------------------------
\* A refresh token that has been used is presented again only in a family
\* that two processes refreshed at once, or that lost a process between its
\* refresh and its save: commands that run one after the other never end
\* their own session, for any number of processes, logins and rotations.
THEOREM NoReuseAlone == Spec => []ReuseNeedsOverlap
<1>1. IInv => ReuseNeedsOverlap
  <2> SUFFICES ASSUME IInv, NEW p \in Proc, proc[p].pc = "refresh", Rotated(proc[p].token),
                      proc[p].token[1] \notin parted
               PROVE  FALSE
    BY DEF ReuseNeedsOverlap, At
  <2> DEFINE f == proc[p].token[1]
  <2>1. proc[p] \in Slot /\ Sane(proc[p]) /\ proc[p] # Idle
    BY PlaceSlot DEF Idle
  <2>2. f \in DOMAIN fam /\ proc[p].token \in Pair
    BY <2>1, SlotFields DEF IInv, Sane, TokensKnown, Known
  <2>3. fam[f] \in Nat /\ proc[p].token[2] \in Nat /\ fam[f] > proc[p].token[2]
    BY <2>2 DEF IInv, Typed, Rotated, Pair
  <2>4. fam[f] # 0
    BY <2>3
  <2>5. Whole(f) /\ Has(proc[p], f)
    BY <2>2, <2>4 DEF IInv, WholeUnlessParted, Has, Copies
  <2> QED
    BY <2>3, <2>5 DEF Whole
<1> QED
  BY <1>1, Invariant, PTL

\* The save of one process never puts a token of a family in the place of a
\* newer one of it, whichever processes race for auth.json.
THEOREM FileAhead == Spec => FileNeverGoesBack
<1>1. IInv /\ [Next]_vars => [file[1] = file'[1] => file'[2] >= file[2]]_file
  <2> SUFFICES ASSUME IInv, [Next]_vars, file' # file, file[1] = file'[1]
               PROVE  file'[2] >= file[2]
    OBVIOUS
  <2>1. PICK p \in Proc : Rename(p)
    BY DEF Next, vars, server, Run, StartLogin, StartLogout, StartApi, StartPsql, Start,
           Progress, Fail, Expire, Close, GetValidAccessToken, AuthNotConfigured, Login,
           ForceRefreshAccessToken, RefreshAccessToken, WriteTemp, Unauthorized, ListProjects,
           GetDatabase, GetDatabaseURI, CreateAnswered, CreateUnanswered, SaveConfig, Logout,
           ClearConfig
  <2>2. proc[p].pc = "rename" /\ file' = proc[p].token /\ proc[p].token \in Pair
    BY <2>1, PlaceSlot, SlotFields DEF Rename, At
  <2>3. file \in Pair /\ file[2] \in Nat /\ proc[p].token[2] \in Nat
    BY <2>2 DEF IInv, Typed, Pair
  <2>4. CASE proc[p].token # NoToken
    BY <2>2, <2>3, <2>4 DEF IInv, SaversAhead, Saving
  <2>5. CASE proc[p].token = NoToken
    <3>1. file[1] = 0
      BY <2>2, <2>5 DEF NoToken
    <3>2. file = NoToken
      BY <3>1 DEF IInv, Typed, TokensKnown, Known
    <3> QED
      BY <2>2, <2>5, <3>2
  <2> QED
    BY <2>4, <2>5
<1> QED
  BY <1>1, Invariant, PTL DEF Spec, FileNeverGoesBack

\* No process sends a creation again that the service has made.
THEOREM CreatesOnce == Spec => []NeverAsksTwice
<1>1. IInv => NeverAsksTwice
  BY DEF IInv, AllSane, Sane, NeverAsksTwice, At, Idle
<1> QED
  BY <1>1, Invariant, PTL

-----------------------------------------------------------------------------
(* Types: the bounds of the families, and the calls that may be to come *)

Todos == Rest(Bootstrap) \cup Rest(Connect) \cup Api

\* What is left of a sequence of calls after the first of what is left.
LEMMA RestOfRest ==
    ASSUME NEW s \in Seq(Calls), NEW r \in Rest(s), Len(r) # 1, r # << >>
    PROVE  Tail(r) \in Rest(s)
<1>1. PICK i \in 1..Len(s) + 1 : r = SubSeq(s, i, Len(s))
  BY DEF Rest
<1>2. Len(s) \in Nat
  BY LenProperties
<1>3. i # Len(s) + 1
  <2>1. i = Len(s) + 1 => r = << >>
    BY <1>1, <1>2, SubSeqEmpty
  <2> QED
    BY <2>1
<1>4. i \in 1..Len(s) /\ Len(s) \in i..Len(s)
  BY <1>2, <1>3
<1>5. Tail(r) = SubSeq(s, i + 1, Len(s))
  BY <1>1, <1>4, HeadTailOfSubSeq
<1>6. i + 1 \in 1..Len(s) + 1
  BY <1>2, <1>4
<1> QED
  BY <1>5, <1>6 DEF Rest

\* Nothing is left, everything is left.
LEMMA RestHas ==
    ASSUME NEW s \in Seq(Calls)
    PROVE  << >> \in Rest(s) /\ s \in Rest(s)
<1>1. Len(s) \in Nat
  BY LenProperties
<1>2. SubSeq(s, Len(s) + 1, Len(s)) = << >>
  BY <1>1, SubSeqEmpty
<1>3. SubSeq(s, 1, Len(s)) = s
  BY SubSeqFull
<1>4. 1 \in 1..Len(s) + 1 /\ Len(s) + 1 \in 1..Len(s) + 1
  BY <1>1
<1> QED
  BY <1>2, <1>3, <1>4 DEF Rest

LEMMA TodosAre ==
    /\ << >> \in Todos /\ Connect \in Todos /\ Bootstrap \in Todos
    /\ \A s \in Api : s \in Todos
    /\ \A r \in Todos : Len(r) # 1 /\ r # << >> => Tail(r) \in Todos
<1>1. Connect \in Seq(Calls)
  BY DEF Connect, Calls
<1>2. Bootstrap \in Seq(Calls)
  BY DEF Bootstrap, Calls
<1>3. << >> \in Rest(Connect) /\ Connect \in Rest(Connect) /\ Bootstrap \in Rest(Bootstrap)
  BY <1>1, <1>2, RestHas
<1>4. \A r \in Rest(Connect) : Len(r) # 1 /\ r # << >> => Tail(r) \in Rest(Connect)
  BY <1>1, RestOfRest
<1>5. \A r \in Rest(Bootstrap) : Len(r) # 1 /\ r # << >> => Tail(r) \in Rest(Bootstrap)
  BY <1>2, RestOfRest
<1>6. \A r \in Api : Len(r) = 1
  BY DEF Api
<1> QED
  BY <1>3, <1>4, <1>5, <1>6 DEF Todos

\* What a step may leave in the slot of p.
Stays(p) == proc' \in [Proc -> Process \cup {Idle}]

LEMMA ProcessFields ==
    ASSUME NEW x \in Process
    PROVE  /\ x.pc \in Places /\ x.token \in Token \cup {NoToken} /\ x.todo \in Todos
           /\ x.cmd \in {"login", "logout", "api"} /\ x.made \in BOOLEAN /\ x.forced \in BOOLEAN
BY DEF Process, Places, Todos

LEMMA BusyProcess ==
    ASSUME TypeOK, IInv, NEW p \in Proc, proc[p].pc # "idle"
    PROVE  proc[p] \in Process /\ Sane(proc[p])
BY PlaceSlot DEF TypeOK, Idle

LEMMA FinishStays ==
    ASSUME TypeOK, NEW p \in Proc, Finish(p)
    PROVE  Stays(p)
BY DEF TypeOK, Finish, Stays

LEMMA SetStays ==
    ASSUME TypeOK, NEW p \in Proc, NEW x \in Process, proc' = [proc EXCEPT ![p] = x]
    PROVE  Stays(p)
BY DEF TypeOK, Stays

LEMMA TakeStays ==
    ASSUME TypeOK, NEW p \in Proc, proc[p] \in Process, NEW pc \in Places,
           NEW t \in Token \cup {NoToken}, Take(p, pc, t)
    PROVE  Stays(p)
<1>1. [proc[p] EXCEPT !.pc = pc, !.token = t] \in Process
  BY DEF Process, Places
<1>2. proc' = [proc EXCEPT ![p] = [proc[p] EXCEPT !.pc = pc, !.token = t]]
  BY DEF Take
<1> QED
  BY <1>1, <1>2, SetStays

LEMMA GotoStays ==
    ASSUME TypeOK, NEW p \in Proc, proc[p] \in Process, NEW pc \in Places, Goto(p, pc)
    PROVE  Stays(p)
<1>1. [proc[p] EXCEPT !.pc = pc] \in Process
  BY DEF Process, Places
<1>2. proc' = [proc EXCEPT ![p] = [proc[p] EXCEPT !.pc = pc]]
  BY DEF Goto, TypeOK
<1> QED
  BY <1>1, <1>2, SetStays

LEMMA ProceedStays ==
    ASSUME TypeOK, NEW p \in Proc, proc[p] \in Process, proc[p].todo # << >>, Proceed(p)
    PROVE  Stays(p)
<1>1. CASE Finish(p)
  BY <1>1, FinishStays
<1>2. CASE Len(proc[p].todo) # 1
  <2> DEFINE new == [proc[p] EXCEPT !.pc = "load", !.todo = Tail(proc[p].todo),
                                    !.token = NoToken, !.forced = FALSE]
  <2>1. proc' = [proc EXCEPT ![p] = new]
    BY <1>2 DEF Proceed
  <2>2. Tail(proc[p].todo) \in Todos
    BY <1>2, ProcessFields, TodosAre
  <2>3. new \in Process
    BY <2>2 DEF Process, Todos
  <2> HIDE DEF new
  <2> QED
    BY <2>1, <2>3, SetStays
<1> QED
  BY <1>1, <1>2 DEF Proceed

LEMMA AfterErrorStays ==
    ASSUME TypeOK, NEW p \in Proc, proc[p] \in Process,
           NEW made \in BOOLEAN, NEW unauthorized \in BOOLEAN,
           AfterError(p, made, unauthorized)
    PROVE  Stays(p)
<1> DEFINE new == [proc[p] EXCEPT !.pc = "reload", !.token = NoToken, !.forced = TRUE,
                                  !.made = made]
<1>1. Finish(p) \/ proc' = [proc EXCEPT ![p] = new]
  BY DEF AfterError
<1>2. new \in Process
  BY DEF Process
<1> HIDE DEF new
<1> QED
  BY <1>1, <1>2, FinishStays, SetStays

LEMMA StartStays ==
    ASSUME TypeOK, NEW p \in Proc, NEW cmd \in {"login", "logout", "api"},
           NEW pc \in {"load", "prompt"}, NEW todo \in Todos, Start(p, cmd, pc, todo)
    PROVE  Stays(p)
<1> DEFINE new == [cmd |-> cmd, pc |-> pc, todo |-> todo, token |-> NoToken,
                   forced |-> FALSE, made |-> FALSE]
<1>1. new \in Process
  BY DEF Process, Todos
<1>2. proc' = [proc EXCEPT ![p] = new]
  BY DEF Start
<1> HIDE DEF new
<1> QED
  BY <1>1, <1>2, SetStays

\* The data of the other variables.
Bounded ==
    /\ fam \in Seq(0..MaxRows) /\ Len(fam) <= MaxFamilies
    /\ expired \in [1..MaxFamilies -> 0..MaxRows]
    /\ project \in BOOLEAN /\ configured \in BOOLEAN
    /\ file \in Token \cup {NoToken}
    /\ parted \subseteq 1..MaxFamilies

LEMMA Families ==
    TypeOK => /\ Bounded
              /\ DOMAIN fam = 1..Len(fam) /\ DOMAIN fam \subseteq 1..MaxFamilies
              /\ \A f \in DOMAIN fam : fam[f] \in 0..MaxRows
<1> SUFFICES ASSUME TypeOK
             PROVE  /\ Bounded
                    /\ DOMAIN fam = 1..Len(fam) /\ DOMAIN fam \subseteq 1..MaxFamilies
                    /\ \A f \in DOMAIN fam : fam[f] \in 0..MaxRows
  OBVIOUS
<1>1. DOMAIN fam = 1..Len(fam) /\ Len(fam) \in Nat
  BY LenProperties DEF TypeOK
<1>2. Len(fam) <= MaxFamilies /\ MaxFamilies \in Nat
  BY BoundsAssumption DEF TypeOK
<1>3. DOMAIN fam \subseteq 1..MaxFamilies
  <2> SUFFICES ASSUME NEW f \in 1..Len(fam) PROVE f \in 1..MaxFamilies
    BY <1>1
  <2> QED
    BY <1>1, <1>2
<1>4. Bounded
  BY DEF TypeOK, Bounded
<1>5. \A f \in 1..Len(fam) : fam[f] \in 0..MaxRows
  BY ElementOfSeq DEF TypeOK
<1> QED
  BY <1>1, <1>3, <1>4, <1>5

LEMMA Retyped ==
    ASSUME Bounded', proc' \in [Proc -> Process \cup {Idle}]
    PROVE  TypeOK'
BY DEF Bounded, TypeOK

\* A family that is ended, or given its next row within the bound.
LEMMA FamilySet ==
    ASSUME TypeOK, NEW f, NEW n \in 0..MaxRows, fam' = [fam EXCEPT ![f] = n]
    PROVE  fam' \in Seq(0..MaxRows) /\ Len(fam') = Len(fam)
<1>1. CASE f \in DOMAIN fam
  BY <1>1, ExceptSeq DEF TypeOK
<1>2. CASE f \notin DOMAIN fam
  <2>1. fam' = fam
    BY <1>2 DEF TypeOK
  <2> QED
    BY <2>1 DEF TypeOK
<1> QED
  BY <1>1, <1>2

\* Nothing moves but the slot of p and what parts.
LEMMA OnlySlot ==
    ASSUME TypeOK, NEW p \in Proc, Stays(p), UNCHANGED <<fam, expired>>,
           project' \in BOOLEAN, configured' \in BOOLEAN, file' \in Token \cup {NoToken},
           parted' \subseteq parted \cup DOMAIN fam
    PROVE  TypeOK'
<1>1. Bounded /\ DOMAIN fam \subseteq 1..MaxFamilies
  BY Families
<1>2. Bounded'
  BY <1>1 DEF Bounded
<1> QED
  BY <1>2, Retyped DEF Stays

LEMMA RunTypes ==
    ASSUME TypeOK, NEW p \in Proc, Run(p)
    PROVE  TypeOK'
<1>1. Stays(p)
  BY TodosAre, StartStays DEF Run, StartLogin, StartLogout, StartApi, StartPsql
<1>2. UNCHANGED <<fam, expired, project, file, configured, parted>>
  BY DEF Run, StartLogin, StartLogout, StartApi, StartPsql, Start, server
<1> QED
  BY <1>1, <1>2, OnlySlot DEF TypeOK

LEMMA LoadTypes ==
    ASSUME TypeOK, IInv, NEW p \in Proc,
           GetValidAccessToken(p) \/ ForceRefreshAccessToken(p) \/ AuthNotConfigured(p)
    PROVE  TypeOK'
<1>1. proc[p] \in Process
  BY BusyProcess DEF GetValidAccessToken, ForceRefreshAccessToken, AuthNotConfigured, At
<1>2. \A pc \in {"refresh", "call", "prompt"} : pc \in Places
  BY DEF Places
<1>3. file \in Token \cup {NoToken}
  BY DEF TypeOK
<1>4. CASE GetValidAccessToken(p)
  <2>1. Stays(p)
    BY <1>1, <1>2, <1>3, <1>4, TakeStays DEF GetValidAccessToken
  <2> QED
    BY <1>4, <2>1, OnlySlot DEF GetValidAccessToken, server, TypeOK, Parts
<1>5. CASE ForceRefreshAccessToken(p)
  <2>1. Stays(p)
    BY <1>1, <1>2, <1>3, <1>5, TakeStays, FinishStays DEF ForceRefreshAccessToken
  <2> QED
    BY <1>5, <2>1, OnlySlot DEF ForceRefreshAccessToken, server, TypeOK, Parts
<1>6. CASE AuthNotConfigured(p)
  <2>1. Stays(p)
    BY <1>1, <1>2, <1>6, GotoStays, FinishStays DEF AuthNotConfigured
  <2> QED
    BY <1>6, <2>1, OnlySlot DEF AuthNotConfigured, server, TypeOK
<1> QED
  BY <1>4, <1>5, <1>6

LEMMA LoginTypes ==
    ASSUME TypeOK, IInv, NEW p \in Proc, Login(p)
    PROVE  TypeOK'
<1>1. proc[p] \in Process /\ "save" \in Places
  BY BusyProcess DEF Login, At, Places
<1>2. Bounded /\ Len(fam) \in Nat /\ Len(fam) + 1 \in 1..MaxFamilies /\ 1 \in 1..MaxRows
  BY Families, LenProperties, BoundsAssumption DEF Login, Bounded
<1>3. <<Len(fam) + 1, 1>> \in Token
  BY <1>2 DEF Token
<1>4. Stays(p)
  BY <1>1, <1>3, TakeStays DEF Login
<1>5. fam' \in Seq(0..MaxRows) /\ Len(fam') = Len(fam) + 1
  BY <1>2, AppendProperties DEF Login, Bounded
<1>6. Bounded'
  BY <1>2, <1>5 DEF Bounded, Login
<1> QED
  BY <1>4, <1>6, Retyped DEF Stays

LEMMA RefreshTypes ==
    ASSUME TypeOK, IInv, NEW p \in Proc, RefreshAccessToken(p)
    PROVE  TypeOK'
<1> DEFINE t == proc[p].token
<1>1. proc[p] \in Process /\ Sane(proc[p]) /\ "save" \in Places /\ proc[p] # Idle
  BY BusyProcess DEF RefreshAccessToken, At, Places, Idle
<1>2. t \in Token /\ t[1] \in DOMAIN fam
  BY <1>1, ProcessFields DEF RefreshAccessToken, At, Sane, IInv, TokensKnown, Known
<1>3. Bounded /\ fam[t[1]] \in 0..MaxRows /\ MaxRows \in Nat
  BY <1>2, Families, BoundsAssumption
<1>4. Stays(p) /\ fam' \in Seq(0..MaxRows) /\ Len(fam') = Len(fam)
  <2>1. CASE LiveToken(t)
    <3>1. t[2] + 1 \in 1..MaxRows
      BY <1>2, <1>3, <2>1 DEF RefreshAccessToken, Token
    <3>2. Renewed(t) \in Token
      BY <1>2, <3>1 DEF Token, Renewed
    <3>3. Stays(p)
      BY <1>1, <2>1, <3>2, TakeStays DEF RefreshAccessToken
    <3>4. fam' = [fam EXCEPT ![t[1]] = t[2] + 1]
      BY <1>2, <2>1 DEF RefreshAccessToken, Presented, LiveToken
    <3>5. t[2] + 1 \in 0..MaxRows
      BY <1>3, <3>1
    <3> QED
      BY <3>3, <3>4, <3>5, FamilySet
  <2>2. CASE ~LiveToken(t)
    <3>1. Stays(p)
      BY <2>2, FinishStays DEF RefreshAccessToken
    <3>2. fam' = fam \/ fam' = [fam EXCEPT ![t[1]] = 0]
      BY <2>2 DEF RefreshAccessToken, Presented, End
    <3>3. 0 \in 0..MaxRows
      BY <1>3
    <3> QED
      BY <1>3, <3>1, <3>2, <3>3, FamilySet DEF Bounded
  <2> QED
    BY <2>1, <2>2
<1>5. Bounded'
  BY <1>3, <1>4 DEF RefreshAccessToken, Bounded, Open
<1> QED
  BY <1>4, <1>5, Retyped DEF Stays

LEMMA SaveTypes ==
    ASSUME TypeOK, IInv, NEW p \in Proc, WriteTemp(p) \/ Rename(p) \/ ClearConfig(p)
    PROVE  TypeOK'
<1>1. proc[p] \in Process
  BY BusyProcess DEF WriteTemp, Rename, ClearConfig, At
<1>2. \A pc \in {"rename", "call", "clearConfig"} : pc \in Places
  BY DEF Places
<1>3. Stays(p)
  BY <1>1, <1>2, GotoStays, FinishStays DEF WriteTemp, Rename, ClearConfig
<1>4. /\ UNCHANGED <<fam, expired, project, parted>>
      /\ configured' \in {configured, FALSE}
      /\ file' \in {file, proc[p].token}
  BY DEF WriteTemp, Rename, ClearConfig, server
<1>5. proc[p].token \in Token \cup {NoToken}
  BY <1>1, ProcessFields
<1>6. project' \in BOOLEAN /\ configured' \in BOOLEAN /\ file' \in Token \cup {NoToken}
  BY <1>4, <1>5 DEF TypeOK
<1> QED
  BY <1>3, <1>4, <1>6, OnlySlot

LEMMA CallTypes ==
    ASSUME TypeOK, IInv, NEW p \in Proc,
           \/ Unauthorized(p) \/ ListProjects(p) \/ GetDatabase(p) \/ GetDatabaseURI(p)
           \/ CreateAnswered(p) \/ CreateUnanswered(p) \/ SaveConfig(p)
    PROVE  TypeOK'
<1>1. (At(p, "call") /\ proc[p].cmd # "logout") \/ At(p, "saveConfig")
  BY DEF Unauthorized, ListProjects, GetDatabase, GetDatabaseURI, CreateAnswered,
     CreateUnanswered, SaveConfig, Creates, Sent
<1>2. proc[p] \in Process /\ Sane(proc[p])
  BY <1>1, BusyProcess DEF At
<1>3. proc[p].todo # << >> /\ proc[p].made \in BOOLEAN
  BY <1>1, <1>2, ProcessFields DEF At, Sane
<1>4. \/ Finish(p) \/ Proceed(p) \/ Goto(p, "saveConfig")
      \/ AfterError(p, proc[p].made, TRUE) \/ AfterError(p, TRUE, FALSE)
  BY DEF Unauthorized, ListProjects, GetDatabase, GetDatabaseURI, CreateAnswered,
     CreateUnanswered, SaveConfig
<1>5. "saveConfig" \in Places
  BY DEF Places
<1>6. Stays(p)
  BY <1>2, <1>3, <1>4, <1>5, FinishStays, ProceedStays, GotoStays, AfterErrorStays
<1>7. /\ UNCHANGED <<fam, expired, file, parted>>
      /\ project' \in {project, TRUE} /\ configured' \in {configured, TRUE}
  BY DEF Unauthorized, ListProjects, GetDatabase, GetDatabaseURI, CreateAnswered,
     CreateUnanswered, SaveConfig, Creates, server
<1>8. project' \in BOOLEAN /\ configured' \in BOOLEAN
  BY <1>7 DEF TypeOK
<1> QED
  BY <1>6, <1>7, <1>8, OnlySlot DEF TypeOK

LEMMA LogoutTypes ==
    ASSUME TypeOK, IInv, NEW p \in Proc, Logout(p)
    PROVE  TypeOK'
<1>1. proc[p] \in Process /\ "save" \in Places /\ NoToken \in Token \cup {NoToken}
  BY BusyProcess DEF Logout, At, Places
<1>2. Stays(p)
  BY <1>1, TakeStays, FinishStays DEF Logout
<1>3. fam' = fam \/ fam' = [fam EXCEPT ![proc[p].token[1]] = 0]
  BY DEF Logout, End
<1>4. 0 \in 0..MaxRows
  BY BoundsAssumption
<1>5. fam' \in Seq(0..MaxRows) /\ Len(fam') = Len(fam)
  BY <1>3, <1>4, FamilySet DEF TypeOK
<1>6. Bounded'
  BY <1>5, Families DEF Bounded, Logout, Open
<1> QED
  BY <1>2, <1>6, Retyped DEF Stays

LEMMA ExpireTypes ==
    ASSUME TypeOK, NEW f \in DOMAIN fam, Expire(f)
    PROVE  TypeOK'
<1>1. Bounded /\ f \in 1..MaxFamilies /\ fam[f] \in 0..MaxRows
  BY Families
<1>2. expired[f] + 1 \in 0..MaxRows
  BY <1>1, BoundsAssumption DEF Expire, Bounded
<1>3. expired' = [expired EXCEPT ![f] = expired[f] + 1]
  BY DEF Expire
<1>4. Bounded'
  BY <1>1, <1>2, <1>3 DEF Bounded, Expire
<1> QED
  BY <1>4, Retyped DEF Expire, TypeOK

LEMMA CloseTypes ==
    ASSUME TypeOK, NEW f \in DOMAIN fam, Close(f)
    PROVE  TypeOK'
<1>1. 0 \in 0..MaxRows
  BY BoundsAssumption
<1>2. fam' \in Seq(0..MaxRows) /\ Len(fam') = Len(fam)
  BY <1>1, FamilySet DEF Close, End
<1>3. Bounded'
  BY <1>2, Families DEF Bounded, Close, Open
<1> QED
  BY <1>3, Retyped DEF Close, TypeOK

LEMMA TypeStep == TypeOK /\ IInv /\ [Next]_vars => TypeOK'
<1> SUFFICES ASSUME TypeOK, IInv, [Next]_vars PROVE TypeOK'
  OBVIOUS
<1>1. CASE UNCHANGED vars
  BY <1>1 DEF vars, server, TypeOK
<1>2. ASSUME NEW p \in Proc, Progress(p) PROVE TypeOK'
  BY <1>2, LoadTypes, LoginTypes, RefreshTypes, SaveTypes, CallTypes, LogoutTypes DEF Progress
<1>3. ASSUME NEW p \in Proc, Fail(p) PROVE TypeOK'
  BY <1>3, FinishStays, OnlySlot DEF Fail, server, TypeOK
<1> QED
  BY <1>1, <1>2, <1>3, RunTypes, ExpireTypes, CloseTypes DEF Next

\* Every file, slot and family keeps its type: no process holds a token of a
\* family or a row beyond the bounds, and the calls that a command has still
\* to make are always the end of one of the known sequences.
THEOREM Typing == Spec => []TypeOK
<1>1. Init => TypeOK
  <2> SUFFICES ASSUME Init PROVE TypeOK
    OBVIOUS
  <2>1. fam \in Seq(0..MaxRows) /\ Len(fam) <= MaxFamilies
    BY BoundsAssumption DEF Init
  <2>2. expired \in [1..MaxFamilies -> 0..MaxRows]
    BY BoundsAssumption DEF Init
  <2> QED
    BY <2>1, <2>2 DEF Init, TypeOK
<1> QED
  BY <1>1, TypeStep, Invariant, PTL DEF Spec
=============================================================================
