---------------------------- MODULE CommandLine ----------------------------
(***************************************************************************)
(* The command line s0c (apps/s0c): processes of one user that share the   *)
(* files auth.json and config.json without a lock and talk to the two      *)
(* services.  Each call of the API loads the tokens, refreshes them at the *)
(* auth service and saves them if the access token is expiring, and is     *)
(* sent a second time, with a token refreshed again, if it is answered     *)
(* with 401.                                                               *)
(*                                                                         *)
(* The services are what the other modules show them to be: a refresh      *)
(* token is good for one use, and a second use ends its family, unless the *)
(* service rolls that back; a live route wants an unrevoked session, other *)
(* routes want a token that has not expired.  A process may end at any     *)
(* step: an error, an interrupt, a timeout, an answer that is lost.        *)
(***************************************************************************)
EXTENDS Naturals, Sequences

CONSTANTS
    Proc,          \* processes of s0c
    MaxFamilies,   \* bound: logins
    MaxRows        \* bound: the rows of a family

ASSUME BoundsAssumption == MaxFamilies \in Nat \ {0} /\ MaxRows \in Nat \ {0}

VARIABLES
    fam,         \* the unrevoked row of each family of this user, or 0
    expired,     \* for s0c, the tokens of the rows up to expired[f] have expired
    project,     \* whether the project "default" exists
    file,        \* auth.json: refresh token and access token of one row
    configured,  \* whether config.json names a project and a database
    proc,        \* the processes
    parted       \* history: open families whose token was in two hands, see Parts

server == <<fam, expired, project>>
vars == <<fam, expired, project, file, configured, proc, parted>>

-----------------------------------------------------------------------------
\* Row n of family f.  An auth.json that does not exist and one that a logout
\* has cleared are NoToken.
Token == (1..MaxFamilies) \X (1..MaxRows)
NoToken == <<0, 0>>

LiveRoute == {"createProject", "createDatabase", "uri"}
Create == {"createProject", "createDatabase"}

\* What a command asks of the API, one call after the other.  "get" stands for
\* every read, "createDatabase" for `s0c api projects create` too.
Connect == <<"get", "get", "uri">>
Bootstrap == <<"list", "createProject", "createDatabase", "get", "get", "uri">>
Api == {<<"get">>, <<"createDatabase">>, <<"uri">>}
Rest(s) == {SubSeq(s, i, Len(s)) : i \in 1..Len(s) + 1}

Process ==
    [cmd : {"login", "logout", "api"},
     pc : {"load", "prompt", "refresh", "save", "rename", "call", "reload",
           "saveConfig", "clearConfig"},
     todo : Rest(Bootstrap) \cup Rest(Connect) \cup Api,
     token : Token \cup {NoToken}, forced : BOOLEAN, made : BOOLEAN]
Idle == [pc |-> "idle"]

TypeOK ==
    /\ fam \in Seq(0..MaxRows)
    /\ Len(fam) <= MaxFamilies
    /\ expired \in [1..MaxFamilies -> 0..MaxRows]
    /\ project \in BOOLEAN
    /\ file \in Token \cup {NoToken}
    /\ configured \in BOOLEAN
    /\ proc \in [Proc -> Process \cup {Idle}]
    /\ parted \subseteq 1..MaxFamilies

-----------------------------------------------------------------------------
(* The services *)

LiveToken(t) == fam[t[1]] = t[2]
Rotated(t) == fam[t[1]] > t[2]
\* s0c takes a token for expired 30 s ahead of time, when it is accepted still.
Expired(t) == t[2] <= expired[t[1]]

Accepts(op, t) == op \in LiveRoute \cup {"logout"} => LiveToken(t)
Refuses(op, t) == Expired(t) \/ ~Accepts(op, t)

End(f) == [fam EXCEPT ![f] = 0]

\* A refresh with t: the rotation, or the end of the family if t was rotated,
\* unless what ends it is rolled back.
Presented(t) ==
    IF LiveToken(t) THEN fam' = [fam EXCEPT ![t[1]] = @ + 1]
    ELSE UNCHANGED fam \/ (Rotated(t) /\ fam' = End(t[1]))

Open(F) == {f \in F : fam'[f] # 0}

-----------------------------------------------------------------------------
(* The steps of a process *)

At(p, pc) == proc[p].pc = pc
Finish(p) == proc' = [proc EXCEPT ![p] = Idle]
Goto(p, pc) == proc' = [proc EXCEPT ![p].pc = pc]
Take(p, pc, t) == proc' = [proc EXCEPT ![p] = [@ EXCEPT !.pc = pc, !.token = t]]

\* A process with a token of family f between its load and its save.
Renewing(p, f) == proc[p].pc \in {"refresh", "save", "rename"} /\ proc[p].token[1] = f

\* p begins to refresh what the file holds while another process does.
Parts(p) == {f \in {file[1]} \cap DOMAIN fam : fam[f] # 0 /\ \E q \in Proc \ {p} : Renewing(q, f)}

Start(p, cmd, pc, todo) ==
    /\ proc[p] = Idle
    /\ proc' = [proc EXCEPT ![p] = [cmd |-> cmd, pc |-> pc, todo |-> todo, token |-> NoToken,
                                    forced |-> FALSE, made |-> FALSE]]
    /\ UNCHANGED <<server, file, configured, parted>>

StartLogin(p) == Start(p, "login", "prompt", << >>)
StartLogout(p) == Start(p, "logout", "load", << >>)
StartApi(p) == \E s \in Api : Start(p, "api", "load", s)

\* The project and the database are given by flags or config.json, or made.
StartPsql(p) ==
    \/ Start(p, "api", "load", Connect)
    \/ ~configured /\ Start(p, "api", "load", Bootstrap)

\* Mutant: the tokens are written back, refreshed or not.
GetValidAccessTokenMutant(p) ==
    /\ At(p, "load")
    /\ file # NoToken
    /\ Take(p, IF Expired(file) THEN "refresh" ELSE "save", file)
    /\ parted' = parted \cup (IF Expired(file) THEN Parts(p) ELSE {})
    /\ UNCHANGED <<server, file, configured>>

GetValidAccessToken(p) ==
    /\ At(p, "load")
    /\ file # NoToken
    /\ Take(p, IF Expired(file) THEN "refresh" ELSE "call", file)
    /\ parted' = parted \cup (IF Expired(file) THEN Parts(p) ELSE {})
    /\ UNCHANGED <<server, file, configured>>

\* Without tokens a logout fails; the other commands ask for the password.
AuthNotConfigured(p) ==
    /\ At(p, "load")
    /\ file = NoToken
    /\ IF proc[p].cmd = "logout" THEN Finish(p) ELSE Goto(p, "prompt")
    /\ UNCHANGED <<server, file, configured, parted>>

Login(p) ==
    /\ At(p, "prompt")
    /\ Len(fam) < MaxFamilies
    /\ fam' = Append(fam, 1)
    /\ Take(p, "save", <<Len(fam) + 1, 1>>)
    /\ UNCHANGED <<expired, project, file, configured, parted>>

\* After a 401: the file is loaded again and its token refreshed at once.
ForceRefreshAccessToken(p) ==
    /\ At(p, "reload")
    /\ IF file = NoToken THEN Finish(p) ELSE Take(p, "refresh", file)
    /\ parted' = parted \cup Parts(p)
    /\ UNCHANGED <<server, file, configured>>

\* Mutant: the refresh token of the answer is not taken over.
RenewedMutant(t) == t

Renewed(t) == <<t[1], t[2] + 1>>

RefreshAccessToken(p) ==
    LET t == proc[p].token IN
    /\ At(p, "refresh")
    /\ LiveToken(t) => t[2] < MaxRows
    /\ Presented(t)
    /\ IF LiveToken(t) THEN Take(p, "save", Renewed(t)) ELSE Finish(p)
    /\ parted' = Open(parted)
    /\ UNCHANGED <<expired, project, file, configured>>

\* Mutant: auth.json is truncated and written in place.
WriteTempMutant(p) ==
    /\ At(p, "save")
    /\ file' = << >>
    /\ Goto(p, "rename")
    /\ UNCHANGED <<server, configured, parted>>

\* SaveState: a file of its own, with the new content, synced and closed.
WriteTemp(p) ==
    /\ At(p, "save")
    /\ Goto(p, "rename")
    /\ UNCHANGED <<server, file, configured, parted>>

\* SaveState: the rename.  A logout saves NoToken.
Rename(p) ==
    /\ At(p, "rename")
    /\ file' = proc[p].token
    /\ CASE proc[p].cmd = "login" -> Finish(p)
         [] proc[p].cmd = "logout" /\ proc[p].token = NoToken -> Goto(p, "clearConfig")
         [] OTHER -> Goto(p, "call")
    /\ UNCHANGED <<server, configured, parted>>

-----------------------------------------------------------------------------
(* Calls *)

Op(p) == Head(proc[p].todo)

\* The next call, if there is one, loads the tokens again.
Proceed(p) ==
    IF Len(proc[p].todo) = 1 THEN Finish(p)
    ELSE proc' = [proc EXCEPT ![p] = [@ EXCEPT !.pc = "load", !.todo = Tail(proc[p].todo),
                                          !.token = NoToken, !.forced = FALSE]]

\* Mutant: whatever the error is, the call is sent again.
RetriesMutant(p, unauthorized) == ~proc[p].forced

Retries(p, unauthorized) == unauthorized /\ ~proc[p].forced

AfterError(p, made, unauthorized) ==
    IF Retries(p, unauthorized)
    THEN proc' = [proc EXCEPT ![p] = [@ EXCEPT !.pc = "reload", !.token = NoToken, !.forced = TRUE,
                                               !.made = made]]
    ELSE Finish(p)

Unauthorized(p) ==
    /\ At(p, "call")
    /\ proc[p].cmd # "logout"
    /\ Refuses(Op(p), proc[p].token)
    /\ AfterError(p, proc[p].made, TRUE)
    /\ UNCHANGED <<server, file, configured, parted>>

Sent(p, op) ==
    /\ At(p, "call")
    /\ proc[p].cmd # "logout"
    /\ Op(p) = op
    /\ Accepts(op, proc[p].token)

ListProjects(p) ==
    /\ Sent(p, "list")
    /\ IF project THEN Finish(p) ELSE Proceed(p)
    /\ UNCHANGED <<server, file, configured, parted>>

\* Names are unique: "default" is created once.
Creates(p) ==
    \/ Sent(p, "createProject") /\ ~project /\ project' = TRUE
    \/ Sent(p, "createDatabase") /\ UNCHANGED project

CreateAnswered(p) ==
    /\ Creates(p)
    /\ IF proc[p].todo = <<"createDatabase">> \/ Op(p) = "createProject"
       THEN Proceed(p) ELSE Goto(p, "saveConfig")
    /\ UNCHANGED <<fam, expired, file, configured, parted>>

\* The service creates, its answer does not arrive.
CreateUnanswered(p) ==
    /\ Creates(p)
    /\ AfterError(p, TRUE, FALSE)
    /\ UNCHANGED <<fam, expired, file, configured, parted>>

\* config.json is replaced the way auth.json is.
SaveConfig(p) ==
    /\ At(p, "saveConfig")
    /\ configured' = TRUE
    /\ Proceed(p)
    /\ UNCHANGED <<server, file, parted>>

GetDatabase(p) ==
    /\ Sent(p, "get")
    /\ Proceed(p)
    /\ UNCHANGED <<server, file, configured, parted>>

\* psql runs in a process of its own, on a URI without password.
GetDatabaseURI(p) ==
    /\ Sent(p, "uri")
    /\ Proceed(p)
    /\ UNCHANGED <<server, file, configured, parted>>

\* POST /auth/logout revokes the row of the access token, or refuses it.
Logout(p) ==
    LET t == proc[p].token IN
    /\ At(p, "call")
    /\ proc[p].cmd = "logout"
    /\ \/ Accepts("logout", t) /\ fam' = End(t[1]) /\ Take(p, "save", NoToken)
       \/ Refuses("logout", t) /\ UNCHANGED fam /\ Finish(p)
    /\ parted' = Open(parted)
    /\ UNCHANGED <<expired, project, file, configured>>

ClearConfig(p) ==
    /\ At(p, "clearConfig")
    /\ configured' = FALSE
    /\ Finish(p)
    /\ UNCHANGED <<server, file, parted>>

-----------------------------------------------------------------------------
(* Faults and time *)

\* An error that is no 401, an interrupt, a kill.  At "save" it stands for the
\* answer of a refresh or a login that never arrives.
Fail(p) ==
    /\ proc[p] # Idle
    /\ Finish(p)
    /\ parted' = parted \cup {f \in DOMAIN fam : fam[f] # 0 /\ Renewing(p, f) /\ ~At(p, "refresh")}
    /\ UNCHANGED <<server, file, configured>>

\* The access tokens of a family expire in the order of their rows.
Expire(f) ==
    /\ expired[f] < (IF fam[f] = 0 THEN MaxRows ELSE fam[f])
    /\ expired' = [expired EXCEPT ![f] = @ + 1]
    /\ UNCHANGED <<fam, project, file, configured, proc, parted>>

\* The session expires, or the user revokes it from elsewhere.
Close(f) ==
    /\ fam[f] # 0
    /\ fam' = End(f)
    /\ parted' = Open(parted)
    /\ UNCHANGED <<expired, project, file, configured, proc>>

-----------------------------------------------------------------------------
(* The specification *)

Init ==
    /\ fam = << >>
    /\ expired = [f \in 1..MaxFamilies |-> 0]
    /\ project = FALSE
    /\ file = NoToken
    /\ configured = FALSE
    /\ proc = [p \in Proc |-> Idle]
    /\ parted = {}

Run(p) == StartLogin(p) \/ StartLogout(p) \/ StartApi(p) \/ StartPsql(p)

Progress(p) ==
    \/ GetValidAccessToken(p) \/ AuthNotConfigured(p) \/ Login(p)
    \/ ForceRefreshAccessToken(p) \/ RefreshAccessToken(p) \/ WriteTemp(p) \/ Rename(p)
    \/ Unauthorized(p) \/ ListProjects(p) \/ GetDatabase(p) \/ GetDatabaseURI(p)
    \/ CreateAnswered(p) \/ CreateUnanswered(p)
    \/ SaveConfig(p) \/ Logout(p) \/ ClearConfig(p)

Next ==
    \/ \E p \in Proc : Run(p) \/ Progress(p) \/ Fail(p)
    \/ \E f \in DOMAIN fam : Expire(f) \/ Close(f)

Spec == Init /\ [][Next]_vars

-----------------------------------------------------------------------------
(* Properties *)

(* s0c takes no lock on auth.json, and the auth service ends the family of *)
(* a refresh token that is used twice.  That happens to a family only if   *)
(* two processes refreshed it at once, or one of them ended between its    *)
(* refresh and its save: a single user's commands, one after the other,    *)
(* never log him out.                                                      *)
ReuseNeedsOverlap ==
    \A p \in Proc : At(p, "refresh") /\ Rotated(proc[p].token) => proc[p].token[1] \in parted

(* However processes race for auth.json, a save never puts an older token  *)
(* of a family in the place of a newer one: the file would hold a used     *)
(* token, and the next command end the family.                             *)
FileNeverGoesBack ==
    [][file[1] = file'[1] => file'[2] >= file[2]]_file

(* A creation is not sent again once the service has made it: a call is    *)
(* repeated after a 401 only.  Names are unique, so that a command would   *)
(* report a conflict with what it has created itself.                      *)
NeverAsksTwice ==
    \A p \in Proc : At(p, "call") /\ proc[p].cmd # "logout" => ~proc[p].made
=============================================================================
