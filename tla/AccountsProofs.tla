---------------------------- MODULE AccountsProofs -----------------------------
(* Proofs about module Accounts. *)
EXTENDS Accounts, TLAPS

\* What IInv says of the columns and of the tasks.
LEMMA Columns ==
    ASSUME IInv
    PROVE  /\ Len(user) \in Nat /\ DOMAIN user = 1..Len(user)
           /\ \A id \in DOMAIN user :
                 /\ user[id] \in Row
                 /\ user[id].user_name \in Names
                 /\ user[id].password \in Passwords
                 /\ user[id].sessdata \in Sessions \cup {NULL}
<1>1. user \in Seq(Row)
  BY DEF IInv, TypeOK
<1>2. /\ Len(user) \in Nat /\ DOMAIN user = 1..Len(user)
      /\ \A id \in DOMAIN user : user[id] \in Row
  BY <1>1
<1> QED
  BY <1>2 DEF Row

\* What IInv says of one worker: the locals its handler has read are still right.
LEMMA Tasks ==
    ASSUME IInv, NEW w \in Workers
    PROVE  /\ worker[w].step \in {"idle", "log_in", "set_user_name"}
           /\ worker[w].step # "idle" => worker[w].id \in DOMAIN user
           /\ worker[w].step = "log_in" => worker[w].user_name \in Names
           /\ worker[w].step = "set_user_name" =>
                 /\ worker[w].new_user_name \in Names
                 /\ <<worker[w].sessdata, worker[w].id>> \in issued
BY AccountsAssumption DEF IInv, TypeOK, TasksAreVerified, Task, Idle

\* The empty table satisfies the invariant.
LEMMA InitInv == Init => IInv
BY AccountsAssumption DEF Init, IInv, TypeOK, OneAccountPerName, SessionIsVerified,
   TasksAreVerified, Task, Idle

\* A registration adds a row with a name that no other row has.
LEMMA NewUserInv ==
    ASSUME IInv, NEW w \in Workers, NEW name \in Names, NEW password \in Passwords,
           NewUser(w, name, password)
    PROVE  IInv'
<1> DEFINE row == [user_name |-> name, password |-> password, sessdata |-> NULL]
           n   == Len(user)
<1> USE AccountsAssumption
<1>1. /\ user' = Append(user, row) /\ n < MaxAccounts
      /\ \A id \in DOMAIN user : user[id].user_name # name
      /\ UNCHANGED <<worker, issued, ended>>
  BY DEF NewUser, Taken
<1>2. row \in Row /\ row.user_name = name /\ row.sessdata = NULL
  BY DEF Row
<1> HIDE DEF row
<1>3. user \in Seq(Row) /\ n \in Nat /\ DOMAIN user = 1..n
  BY Columns DEF IInv, TypeOK
<1>4. /\ user' \in Seq(Row) /\ Len(user') = n + 1 /\ DOMAIN user' = 1..(n + 1)
      /\ user'[n + 1] = row
      /\ \A id \in DOMAIN user : user'[id] = user[id]
  BY <1>1, <1>2, <1>3
<1> HIDE DEF n
<1>5. TypeOK'
  BY <1>1, <1>3, <1>4 DEF IInv, TypeOK
<1>6. OneAccountPerName'
  BY <1>1, <1>2, <1>3, <1>4 DEF IInv, OneAccountPerName
<1>7. SessionIsVerified'
  BY <1>1, <1>2, <1>3, <1>4 DEF IInv, SessionIsVerified
<1>8. TasksAreVerified'
  BY <1>1 DEF IInv, TasksAreVerified
<1> QED
  BY <1>5, <1>6, <1>7, <1>8 DEF IInv

\* A step of a worker that leaves the table and the sessions alone.
LEMMA TaskInv ==
    ASSUME IInv, UNCHANGED <<user, issued, ended>>,
           worker' \in [Workers -> Task],
           \A w \in Workers : worker'[w] # Idle => worker'[w].id \in DOMAIN user,
           \A w \in Workers : worker'[w].step = "set_user_name" =>
              <<worker'[w].sessdata, worker'[w].id>> \in issued
    PROVE  IInv'
BY DEF IInv, TypeOK, OneAccountPerName, SessionIsVerified, TasksAreVerified

\* The first section of a log-in only remembers the account.
LEMMA CheckPasswordInv ==
    ASSUME IInv, NEW w \in Workers, NEW id \in DOMAIN user, NEW password,
           CheckPassword(w, id, password)
    PROVE  IInv'
<1> DEFINE task == [step |-> "log_in", id |-> id, user_name |-> user[id].user_name]
<1>1. worker' = [worker EXCEPT ![w] = task] /\ UNCHANGED <<user, issued, ended>>
  BY DEF CheckPassword
<1>2. task \in Task
  BY AccountsAssumption, Columns DEF IInv, TypeOK, Task
<1>3. task.id = id /\ task.step = "log_in"
  OBVIOUS
<1> HIDE DEF task
<1>4. worker \in [Workers -> Task]
  BY DEF IInv, TypeOK
<1> QED
  BY <1>1, <1>2, <1>3, <1>4, TaskInv DEF IInv, TypeOK, TasksAreVerified

\* A request learns its account from a session that was given to it.
LEMMA AuthorizeInv ==
    ASSUME IInv, NEW w \in Workers, NEW sessdata \in Sessions, NEW name \in Names,
           Authorize(w, sessdata, name)
    PROVE  IInv'
<1>1. PICK id \in DOMAIN user :
        /\ user[id].sessdata = sessdata
        /\ worker' = [worker EXCEPT ![w] =
              [step |-> "set_user_name", id |-> id, user_name |-> user[id].user_name,
               sessdata |-> sessdata, new_user_name |-> name]]
  BY DEF Authorize
<1> DEFINE task == [step |-> "set_user_name", id |-> id, user_name |-> user[id].user_name,
                    sessdata |-> sessdata, new_user_name |-> name]
<1>2. UNCHANGED <<user, issued, ended>>
  BY DEF Authorize
<1>3. <<sessdata, id>> \in issued
  BY <1>1, AccountsAssumption DEF IInv, SessionIsVerified
<1>4. task \in Task
  BY AccountsAssumption, Columns DEF IInv, TypeOK, Task
<1>5. task.id = id /\ task.step = "set_user_name" /\ task.sessdata = sessdata
  OBVIOUS
<1>6. worker' = [worker EXCEPT ![w] = task]
  BY <1>1
<1> HIDE DEF task
<1>7. worker \in [Workers -> Task]
  BY DEF IInv, TypeOK
<1> QED
  BY <1>2, <1>3, <1>4, <1>5, <1>6, <1>7, TaskInv DEF IInv, TypeOK, TasksAreVerified

\* A statement that throws forgets the task.
LEMMA GiveUpInv ==
    ASSUME IInv, NEW w \in Workers, GiveUp(w)
    PROVE  IInv'
<1>1. Idle \in Task /\ Idle.step = "idle"
  BY DEF Idle, Task
<1>2. worker' = [worker EXCEPT ![w] = Idle] /\ UNCHANGED <<user, issued, ended>>
  BY DEF GiveUp
<1> QED
  BY <1>1, <1>2, TaskInv DEF IInv, TypeOK, TasksAreVerified

--------------------------------------------------------------------------------
\* The steps that change a row.
LEMMA RowUpdate ==
    ASSUME IInv, NEW id \in DOMAIN user, NEW row \in Row,
           user' = [user EXCEPT ![id] = row]
    PROVE  /\ user' \in Seq(Row) /\ Len(user') = Len(user) /\ DOMAIN user' = DOMAIN user
           /\ user'[id] = row
           /\ \A j \in DOMAIN user \ {id} : user'[j] = user[j]
<1>1. user \in Seq(Row)
  BY DEF IInv, TypeOK
<1> QED
  BY <1>1

\* The row that is logged out has no session any more.
LEMMA LogOutInv ==
    ASSUME IInv, NEW w \in Workers, NEW sessdata \in Sessions, LogOut(w, sessdata)
    PROVE  IInv'
<1> USE AccountsAssumption
<1>1. PICK id \in DOMAIN user :
        /\ user[id].sessdata = sessdata
        /\ user' = [user EXCEPT ![id].sessdata = NULL]
        /\ ended' = ended \cup {<<sessdata, id>>}
  BY DEF LogOut
<1>2. UNCHANGED <<worker, issued>>
  BY DEF LogOut
<1> DEFINE row == [user[id] EXCEPT !.sessdata = NULL]
<1>3. /\ row \in Row /\ row.sessdata = NULL
      /\ row.user_name = user[id].user_name
  BY Columns DEF Row
<1>4. user' = [user EXCEPT ![id] = row]
  BY <1>1
<1> HIDE DEF row
<1>5. /\ user' \in Seq(Row) /\ Len(user') = Len(user) /\ DOMAIN user' = DOMAIN user
      /\ user'[id] = row
      /\ \A j \in DOMAIN user \ {id} : user'[j] = user[j]
  BY <1>3, <1>4, RowUpdate
<1>6. <<sessdata, id>> \in issued
  BY <1>1 DEF IInv, SessionIsVerified
<1>7. TypeOK'
  BY <1>1, <1>2, <1>5, <1>6 DEF IInv, TypeOK
<1>8. OneAccountPerName'
  BY <1>3, <1>5 DEF IInv, OneAccountPerName
<1>9. SessionIsVerified'
  <2> SUFFICES ASSUME NEW j \in DOMAIN user, user'[j].sessdata # NULL
               PROVE  <<user'[j].sessdata, j>> \in issued \ ended'
    BY <1>2, <1>5 DEF SessionIsVerified
  <2>1. j # id /\ user'[j] = user[j]
    BY <1>3, <1>5
  <2> QED
    BY <1>1, <2>1 DEF IInv, SessionIsVerified
<1>10. TasksAreVerified'
  BY <1>2 DEF IInv, TasksAreVerified
<1> QED
  BY <1>7, <1>8, <1>9, <1>10 DEF IInv

\* The session goes to the account whose password was checked, whether or not
\* the number is that of another one.
LEMMA StoreSessionInv ==
    ASSUME IInv, NEW w \in Workers, NEW sessdata \in Sessions, StoreSession(w, sessdata)
    PROVE  IInv'
<1> USE AccountsAssumption
<1> DEFINE id  == worker[w].id
           row == [user[id] EXCEPT !.sessdata = sessdata]
<1>1. /\ worker[w].step = "log_in"
      /\ user' = [user EXCEPT ![id].sessdata = sessdata]
      /\ issued' = issued \cup {<<sessdata, id>>}
      /\ ended' = ended \ {<<sessdata, id>>}
      /\ worker' = [worker EXCEPT ![w] = Idle]
  BY DEF StoreSession
<1>2. id \in DOMAIN user
  BY <1>1, Tasks
<1> HIDE DEF id
<1>3. /\ row \in Row /\ row.sessdata = sessdata
      /\ row.user_name = user[id].user_name
  BY <1>2, Columns DEF Row
<1>4. user' = [user EXCEPT ![id] = row]
  BY <1>1
<1> HIDE DEF row
<1>5. /\ user' \in Seq(Row) /\ Len(user') = Len(user) /\ DOMAIN user' = DOMAIN user
      /\ user'[id] = row
      /\ \A j \in DOMAIN user \ {id} : user'[j] = user[j]
  BY <1>2, <1>3, <1>4, RowUpdate
<1>6. Idle \in Task /\ Idle.step = "idle"
  BY DEF Idle, Task
<1>7. /\ worker \in [Workers -> Task]
      /\ \A v \in Workers : worker'[v] = IF v = w THEN Idle ELSE worker[v]
  BY <1>1 DEF IInv, TypeOK
<1>8. TypeOK'
  <2>1. worker' \in [Workers -> Task]
    BY <1>1, <1>6, <1>7
  <2>2. \A v \in Workers : worker'[v] # Idle => worker'[v].id \in DOMAIN user
    BY <1>7 DEF IInv, TypeOK
  <2>3. issued' \subseteq Sessions \X DOMAIN user /\ ended' \subseteq issued'
    BY <1>1, <1>2 DEF IInv, TypeOK
  <2>4. Len(user') <= MaxAccounts
    BY <1>5 DEF IInv, TypeOK
  <2> QED
    BY <1>5, <2>1, <2>2, <2>3, <2>4 DEF TypeOK
<1>9. OneAccountPerName'
  BY <1>3, <1>5 DEF IInv, OneAccountPerName
<1>10. SessionIsVerified'
  <2> SUFFICES ASSUME NEW j \in DOMAIN user, user'[j].sessdata # NULL
               PROVE  <<user'[j].sessdata, j>> \in issued' \ ended'
    BY <1>5 DEF SessionIsVerified
  <2>1. CASE j = id
    BY <1>1, <1>3, <1>5, <2>1
  <2>2. CASE j # id
    BY <1>1, <1>5, <2>2 DEF IInv, SessionIsVerified
  <2> QED
    BY <2>1, <2>2
<1>11. TasksAreVerified'
  BY <1>1, <1>6, <1>7 DEF IInv, TasksAreVerified
<1> QED
  BY <1>8, <1>9, <1>10, <1>11 DEF IInv

\* A rename takes a name that is in no row, and leaves the sessions alone.
LEMMA SetUserNameInv ==
    ASSUME IInv, NEW w \in Workers, SetUserName(w)
    PROVE  IInv'
<1> USE AccountsAssumption
<1> DEFINE id   == worker[w].id
           name == worker[w].new_user_name
           row  == [user[id] EXCEPT !.user_name = name]
<1>1. /\ worker[w].step = "set_user_name"
      /\ user' = Renamed(id, name)
      /\ worker' = [worker EXCEPT ![w] = Idle]
      /\ UNCHANGED <<issued, ended>>
  BY DEF SetUserName
<1>2. id \in DOMAIN user /\ name \in Names
  BY <1>1, Tasks
<1>3. Idle \in Task /\ Idle.step = "idle"
  BY DEF Idle, Task
<1>4. /\ worker \in [Workers -> Task]
      /\ worker' \in [Workers -> Task]
      /\ \A v \in Workers : worker'[v] = IF v = w THEN Idle ELSE worker[v]
  BY <1>1, <1>3 DEF IInv, TypeOK
<1>5. TasksAreVerified'
  BY <1>1, <1>3, <1>4 DEF IInv, TasksAreVerified
<1> HIDE DEF id, name
<1>6. CASE Taken(name)
  <2>1. user' = user
    BY <1>1, <1>6 DEF Renamed
  <2> QED
    BY <1>1, <1>4, <1>5, <2>1
       DEF IInv, TypeOK, OneAccountPerName, SessionIsVerified
<1>7. CASE ~Taken(name)
  <2>1. /\ row \in Row /\ row.user_name = name
        /\ row.sessdata = user[id].sessdata
    BY <1>2, Columns DEF Row
  <2>2. user' = [user EXCEPT ![id] = row]
    BY <1>1, <1>7 DEF Renamed
  <2> HIDE DEF row
  <2>3. /\ user' \in Seq(Row) /\ Len(user') = Len(user) /\ DOMAIN user' = DOMAIN user
        /\ user'[id] = row
        /\ \A j \in DOMAIN user \ {id} : user'[j] = user[j]
    BY <1>2, <2>1, <2>2, RowUpdate
  <2>4. \A j \in DOMAIN user : user'[j].sessdata = user[j].sessdata
    BY <2>1, <2>3
  <2>5. TypeOK'
    BY <1>1, <1>4, <2>3 DEF IInv, TypeOK
  <2>6. OneAccountPerName'
    BY <1>7, <2>1, <2>3, <2>4 DEF IInv, OneAccountPerName, Taken
  <2>7. SessionIsVerified'
    BY <1>1, <2>3, <2>4 DEF IInv, SessionIsVerified
  <2> QED
    BY <1>5, <2>5, <2>6, <2>7 DEF IInv
<1> QED
  BY <1>6, <1>7

--------------------------------------------------------------------------------
\* Every step of every worker preserves the invariant.
LEMMA NextInv == IInv /\ [Next]_vars => IInv'
<1> SUFFICES ASSUME IInv, [Next]_vars PROVE IInv'
  OBVIOUS
<1>1. CASE UNCHANGED vars
  BY <1>1 DEF vars, IInv, TypeOK, OneAccountPerName, SessionIsVerified,
     TasksAreVerified
<1>2. CASE Next
  <2>1. ASSUME NEW w \in Workers, NEW name, NEW password, LogInByName(w, name, password)
        PROVE  IInv'
    BY <2>1, CheckPasswordInv DEF LogInByName
  <2>2. ASSUME NEW w \in Workers, NEW id, NEW password, LogInById(w, id, password)
        PROVE  IInv'
    BY <2>2, CheckPasswordInv DEF LogInById
  <2> QED
    BY <1>2, <2>1, <2>2, NewUserInv, LogOutInv, AuthorizeInv, StoreSessionInv,
       SetUserNameInv, GiveUpInv DEF Next
<1> QED
  BY <1>1, <1>2

\* The inductive invariant of Accounts.
THEOREM Inductive == Spec => []IInv
<1> QED
  BY InitInv, NextInv, PTL DEF Spec

\* The table, the tasks and the sessions keep their types.
THEOREM TypeCorrect == Spec => []TypeOK
<1>1. IInv => TypeOK
  BY DEF IInv
<1> QED
  BY <1>1, Inductive, PTL

\* No two accounts ever share a name, however registrations and renames of it
\* interleave.
THEOREM NamesAreUnique == Spec => []OneAccountPerName
<1>1. IInv => OneAccountPerName
  BY DEF IInv
<1> QED
  BY <1>1, Inductive, PTL

\* A session opens no account but one whose password was checked for it, and not
\* after a log-out of that account from it, also when numbers are drawn twice.
THEOREM SessionsAreVerified == Spec => []SessionIsVerified
<1>1. IInv => SessionIsVerified
  BY DEF IInv
<1> QED
  BY <1>1, Inductive, PTL

\* Whatever names were exchanged meanwhile, a request renames its own account.
THEOREM OwnersRename == Spec => RenamedByOwner
<1>1. IInv /\ [Next]_vars =>
        [\A id \in DOMAIN user : user'[id].user_name # user[id].user_name =>
          \E w \in Workers :
              /\ worker[w].step = "set_user_name" /\ worker'[w] = Idle
              /\ <<worker[w].sessdata, id>> \in issued]_vars
  <2> SUFFICES ASSUME IInv, Next, NEW id \in DOMAIN user,
                      user'[id].user_name # user[id].user_name
               PROVE  \E w \in Workers :
                        /\ worker[w].step = "set_user_name" /\ worker'[w] = Idle
                        /\ <<worker[w].sessdata, id>> \in issued
    OBVIOUS
  <2>1. ASSUME NEW w \in Workers, NEW name, NEW password, NewUser(w, name, password)
        PROVE  FALSE
    BY <2>1, Columns DEF NewUser
  <2>2. ASSUME NEW w \in Workers, NEW j, NEW password, CheckPassword(w, j, password)
        PROVE  FALSE
    BY <2>2 DEF CheckPassword
  <2>3. ASSUME NEW w \in Workers, NEW s, LogOut(w, s)
        PROVE  FALSE
    BY <2>3, Columns DEF LogOut, Row
  <2>4. ASSUME NEW w \in Workers, NEW s, NEW name, Authorize(w, s, name) \/ GiveUp(w)
        PROVE  FALSE
    BY <2>4 DEF Authorize, GiveUp
  <2>5. ASSUME NEW w \in Workers, NEW s, StoreSession(w, s)
        PROVE  FALSE
    BY <2>5, Columns DEF StoreSession, Row
  <2>6. ASSUME NEW w \in Workers, SetUserName(w)
        PROVE  /\ worker[w].step = "set_user_name" /\ worker'[w] = Idle
               /\ <<worker[w].sessdata, id>> \in issued
    <3>1. /\ worker[w].step = "set_user_name"
          /\ user' = Renamed(worker[w].id, worker[w].new_user_name)
          /\ worker' = [worker EXCEPT ![w] = Idle]
      BY <2>6 DEF SetUserName
    <3>2. id = worker[w].id
      BY <3>1, Columns DEF Renamed
    <3> QED
      BY <3>1, <3>2, Tasks DEF IInv, TypeOK
  <2> QED
    BY <2>1, <2>2, <2>3, <2>4, <2>5, <2>6 DEF Next, LogInByName, LogInById
<1> QED
  BY <1>1, Inductive, PTL DEF Spec, RenamedByOwner

================================================================================
