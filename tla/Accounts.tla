-------------------------------- MODULE Accounts -------------------------------
(***************************************************************************)
(* The accounts: the table user, and the requests of class HttpServer that *)
(* change it through class Authorizer.                                     *)
(*                                                                         *)
(* Authorizer holds db_mutex for one section of a call at a time.  A log   *)
(* in is two sections, with the number of the session drawn in between; a  *)
(* change of name is a call of authorize and a call of set_user_name.  The *)
(* workers of the HTTP server run such requests side by side, so a row may *)
(* have changed in every column but its id and its password when the       *)
(* second section comes.                                                   *)
(*                                                                         *)
(* generate_sessdata may return a number again: sixteen bits of it are     *)
(* random, the rest is the time, and nothing compares it with the table.   *)
(* Two accounts may then have the same session, and a request with it is   *)
(* for one of them.                                                        *)
(*                                                                         *)
(* Abstracted: requests that are refused without a change, and names that  *)
(* new_user refuses for their length.                                      *)
(***************************************************************************)
EXTENDS Naturals, Sequences

CONSTANTS
    Workers,        \* threads of the HTTP server
    Names,          \* user names
    Passwords,
    MaxAccounts,    \* bound: rows of the table
    Sessions,       \* the numbers that generate_sessdata returns
    NULL            \* the sessdata of an account that is logged out

ASSUME AccountsAssumption ==
    /\ MaxAccounts \in Nat
    /\ NULL \notin Sessions

VARIABLES
    user,       \* the table: user[id] is the row of the account id
    worker,     \* what each worker is doing, with the locals it needs
    issued,     \* history variable: the <<s, id>> such that the session s was
                \* given to somebody who had the password of the account id
    ended       \* history variable: those of them that id was logged out of

vars == <<user, worker, issued, ended>>

--------------------------------------------------------------------------------
Row == [user_name : Names, password : Passwords, sessdata : Sessions \cup {NULL}]

Idle    == [step |-> "idle"]
Task    ==
    {Idle}
      \cup [step : {"log_in"}, id : 1..MaxAccounts, user_name : Names]
      \cup [step : {"set_user_name"}, id : 1..MaxAccounts, user_name : Names,
            sessdata : Sessions, new_user_name : Names]

Init ==
    /\ user = <<>>
    /\ worker = [w \in Workers |-> Idle]
    /\ issued = {}
    /\ ended = {}

Taken(name) == \E id \in DOMAIN user : user[id].user_name = name

--------------------------------------------------------------------------------
\* POST /register
NewUser(w, name, password) ==
    /\ worker[w] = Idle
    /\ Len(user) < MaxAccounts
    /\ ~Taken(name)
    /\ user' = Append(user, [user_name |-> name, password |-> password, sessdata |-> NULL])
    /\ UNCHANGED <<worker, issued, ended>>

\* The first section of both forms of log_in, once the row is found.
CheckPassword(w, id, password) ==
    /\ worker[w] = Idle
    /\ user[id].password = password
    /\ worker' = [worker EXCEPT ![w] =
                     [step |-> "log_in", id |-> id, user_name |-> user[id].user_name]]
    /\ UNCHANGED <<user, issued, ended>>

\* POST /login and POST /login-byid
LogInByName(w, name, password) ==
    \E id \in DOMAIN user : user[id].user_name = name /\ CheckPassword(w, id, password)

LogInById(w, id, password) ==
    id \in DOMAIN user /\ CheckPassword(w, id, password)

\* Mutant: UPDATE user SET sessdata=? WHERE user_name=?
StoreSession_ByName(w, sessdata) ==
    /\ worker[w].step = "log_in"
    /\ user' = [id \in DOMAIN user |->
                   IF user[id].user_name = worker[w].user_name
                   THEN [user[id] EXCEPT !.sessdata = sessdata] ELSE user[id]]
    /\ issued' = issued \cup {<<sessdata, worker[w].id>>}
    /\ ended' = ended \ {<<sessdata, worker[w].id>>}
    /\ worker' = [worker EXCEPT ![w] = Idle]

\* The second section of log_in.
StoreSession(w, sessdata) ==
    /\ worker[w].step = "log_in"
    /\ user' = [user EXCEPT ![worker[w].id].sessdata = sessdata]
    /\ issued' = issued \cup {<<sessdata, worker[w].id>>}
    /\ ended' = ended \ {<<sessdata, worker[w].id>>}
    /\ worker' = [worker EXCEPT ![w] = Idle]

\* GET /logout: one row with the session.
LogOut(w, sessdata) ==
    /\ worker[w] = Idle
    /\ \E id \in DOMAIN user :
          /\ user[id].sessdata = sessdata
          /\ user' = [user EXCEPT ![id].sessdata = NULL]
          /\ ended' = ended \cup {<<sessdata, id>>}
    /\ UNCHANGED <<worker, issued>>

\* Mutant: the result of authorize is not asked for, and the id may be anything.
Authorize_Unasked(w, sessdata, name) ==
    /\ worker[w] = Idle
    /\ \E id \in 1..MaxAccounts, user_name \in Names :
          /\ \A i \in DOMAIN user : user[i].sessdata = sessdata => id = i
          /\ worker' = [worker EXCEPT ![w] =
                [step |-> "set_user_name", id |-> id, user_name |-> user_name,
                 sessdata |-> sessdata, new_user_name |-> name]]
    /\ UNCHANGED <<user, issued, ended>>

\* POST /set-name, up to the call of set_user_name.
Authorize(w, sessdata, name) ==
    /\ worker[w] = Idle
    /\ \E id \in DOMAIN user :
          /\ user[id].sessdata = sessdata
          /\ worker' = [worker EXCEPT ![w] =
                [step |-> "set_user_name", id |-> id, user_name |-> user[id].user_name,
                 sessdata |-> sessdata, new_user_name |-> name]]
    /\ UNCHANGED <<user, issued, ended>>

\* Mutant: the name is not looked up again.
Renamed_Unchecked(id, name) == [user EXCEPT ![id].user_name = name]

Renamed(id, name) ==
    IF Taken(name) THEN user ELSE [user EXCEPT ![id].user_name = name]

\* Mutant: UPDATE user SET user_name=? WHERE user_name=?
SetUserName_ByName(w) ==
    /\ worker[w].step = "set_user_name"
    /\ user' = [id \in DOMAIN user |->
                   IF user[id].user_name = worker[w].user_name /\ ~Taken(worker[w].new_user_name)
                   THEN [user[id] EXCEPT !.user_name = worker[w].new_user_name] ELSE user[id]]
    /\ worker' = [worker EXCEPT ![w] = Idle]
    /\ UNCHANGED <<issued, ended>>

\* set_user_name: the name may be a duplicate.
SetUserName(w) ==
    /\ worker[w].step = "set_user_name"
    /\ user' = Renamed(worker[w].id, worker[w].new_user_name)
    /\ worker' = [worker EXCEPT ![w] = Idle]
    /\ UNCHANGED <<issued, ended>>

\* A statement that throws ends the request between its sections.
GiveUp(w) ==
    /\ worker[w] # Idle
    /\ worker' = [worker EXCEPT ![w] = Idle]
    /\ UNCHANGED <<user, issued, ended>>

--------------------------------------------------------------------------------
Next ==
    \E w \in Workers :
        \/ \E name \in Names, password \in Passwords :
              NewUser(w, name, password) \/ LogInByName(w, name, password)
        \/ \E id \in 1..MaxAccounts, password \in Passwords : LogInById(w, id, password)
        \/ \E sessdata \in Sessions :
              \/ StoreSession(w, sessdata)
              \/ LogOut(w, sessdata)
              \/ \E name \in Names : Authorize(w, sessdata, name)
        \/ SetUserName(w)
        \/ GiveUp(w)

Spec == Init /\ [][Next]_vars

--------------------------------------------------------------------------------
\* Types, and accounts that exist.
TypeOK ==
    /\ user \in Seq(Row) /\ Len(user) <= MaxAccounts
    /\ worker \in [Workers -> Task]
    /\ \A w \in Workers : worker[w] # Idle => worker[w].id \in DOMAIN user
    /\ issued \subseteq Sessions \X DOMAIN user
    /\ ended \subseteq issued

\* A name belongs to one account: the SELECTs of new_user, log_in and
\* set_user_name find one row at most, without a UNIQUE in the table, although
\* names are looked up, freed and taken by several requests at a time.
OneAccountPerName ==
    \A i, j \in DOMAIN user : i # j => user[i].user_name # user[j].user_name

\* A session opens no account but one for whose password it was given,
\* whatever names were exchanged during the log-in, and not after a log-out from
\* it; also when the same number was given for another account.
SessionIsVerified ==
    \A id \in DOMAIN user : user[id].sessdata # NULL =>
        <<user[id].sessdata, id>> \in issued \ ended

\* An account is renamed by a request with a session that was given for it, that
\* may have ended since.
RenamedByOwner ==
    [][\A id \in DOMAIN user : user'[id].user_name # user[id].user_name =>
          \E w \in Workers :
              /\ worker[w].step = "set_user_name" /\ worker'[w] = Idle
              /\ <<worker[w].sessdata, id>> \in issued]_vars

\* What the proofs need beside: a request for a new name keeps the account its
\* session was given for.
TasksAreVerified ==
    \A w \in Workers : worker[w].step = "set_user_name" =>
        <<worker[w].sessdata, worker[w].id>> \in issued

\* The inductive invariant behind the theorems of AccountsProofs.
IInv ==
    /\ TypeOK
    /\ OneAccountPerName
    /\ SessionIsVerified
    /\ TasksAreVerified

================================================================================
