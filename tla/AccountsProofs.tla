--------------------------- MODULE AccountsProofs ---------------------------
(* Theorems about the user side of the server, for any workers, descriptors, *)
(* names, passwords and starting files, and some for a single worker.        *)
EXTENDS Accounts, SqlConnProofs, FiniteSetTheorems

-----------------------------------------------------------------------------
(* The invariant *)

LoginOnly == {"identity", "activity", "displace", "deactivate", "forget", "unbind identity",
              "unbind name", "activate", "bind identity", "bind name", "note login"}

\* The steps of a handler belong to its command, and the request has what the
\* command needs; what a login has read is an identity the CHECK accepts.
Fits(j, p) ==
    /\ p = "idle" => j = NoJob
    /\ p # "idle" => j.cmd # "idle" /\ j.fd \in Fd
    /\ p \in LoginOnly => j.cmd = "login"
    /\ p \in {"insert", "note user"} => j.cmd = "register"
    /\ p = "insert" => j.pw \in Password /\ j.id \in Identity \cup BadIdentity
    /\ p \in {"count", "list"} => j.cmd \in {"get users", "get teachers"}
    /\ p \in {"drop user", "delete"} => j.cmd \in {"delete user", "delete self"}
    /\ p = "name" => j.cmd \in {"logout", "delete self"}
    /\ p \in {"drop identity", "drop name"} => j.cmd = "delete self"
    /\ p \in {"update", "end session"} => j.cmd = "logout"
    /\ j.cmd = "login" => j.id \in Identity \cup {Empty}

JobsFit == \A t \in Conn : Fits(job[t], pc[t])

\* Rows that the file or a pending transaction holds passed the CHECK, and
\* their names, passwords and identities were committed once.
Accounted(table) ==
    \A k \in Key : table[k] # NoVal =>
        table[k] \notin Refused /\ <<k, table[k].pw, table[k].id>> \in accounts

\* Nor has a pending transaction another password or identity for a user.
RowsAreAccounts ==
    /\ Accounted(db) /\ Accounted(work)
    /\ \A k \in Key : work[k] # NoVal => Known(work[k]) = Known(db[k])

\* An identity that a login carries was read from the user's account.
Carries(j) ==
    j.cmd = "login" /\ j.id \in Identity =>
        \E p \in Password : <<j.user, p, j.id>> \in accounts

ReadIsAccount == \A t \in Conn : Carries(job[t])

AInv ==
    /\ SqlInv /\ TypeOK
    /\ JobsFit /\ RowsAreAccounts /\ ReadIsAccount /\ BoundIdentityExists

-----------------------------------------------------------------------------
(* Constants and rows *)

USE DEF vars, sessionVars, cacheVars, restVars, sqlVars

Steps == DbSteps \cup MapSteps \cup {"idle", "delete", "answer"}

WorkTypes == job \in [Conn -> Jobs] /\ pc \in [Conn -> Steps] /\ reply \in [Conn -> Replies]

SessionTypes ==
    /\ bindIdentity \in [Fd -> Identity \cup {Empty, Unbound}]
    /\ bindUsername \in [Fd -> Username \cup {Unbound}]
    /\ logined_users \in [Username -> Fd \cup {NoFd}]

CacheTypes == usernameSet \subseteq Username /\ user_count_cache \in Nat \cup {-1}

RestTypes ==
    /\ requests \in 0 .. MaxRequests
    /\ todo \in [Conn -> SUBSET Fd]
    /\ terminated \in BOOLEAN
    /\ accounts \subseteq Username \X Password \X Identity

LEMMA TypeParts ==
  /\ TypeOK <=> SqlTypeOK /\ WorkTypes /\ SessionTypes /\ CacheTypes /\ RestTypes
  /\ TypeOK' <=> SqlTypeOK' /\ WorkTypes' /\ SessionTypes' /\ CacheTypes' /\ RestTypes'
  BY DEF TypeOK, WorkTypes, SessionTypes, CacheTypes, RestTypes, Steps

LEMMA Idle0 == NoJob \in Jobs /\ Status(0) \in Replies /\ Fits(NoJob, "idle") /\ Carries(NoJob)
  BY DEF NoJob, Jobs, Status, Replies, Fits, Carries, Username, LoginOnly

\* The rows that pass the CHECK are those with a known identity.
LEMMA LegalRow ==
  ASSUME NEW v \in Val, v \notin Refused
  PROVE  v.id \in Identity /\ v.pw \in Password
  BY UserKeyAssumption, CheckAssumption DEF Account

LEMMA CredentialsIn ==
  ASSUME NEW table \in Table, \A k \in Key : table[k] \notin Refused
  PROVE  Credentials(table) \subseteq Username \X Password \X Identity
  BY LegalRow, UserKeyAssumption DEF Credentials, Table

-----------------------------------------------------------------------------
(* The beginning *)

LEMMA AInitInv == Init => AInv
  <1> SUFFICES ASSUME Init PROVE AInv
    OBVIOUS
  <1>1. SqlInv
    BY SqlInitInv DEF Init
  <1>2. db \in Table /\ work = db /\ \A k \in Key : db[k] \notin Refused
    BY FileAssumption, StartAssumption DEF Init, SqlInit
  <1>3. TypeOK
    <2>1. WorkTypes
      BY Idle0 DEF Init, WorkTypes, Steps
    <2>2. SessionTypes /\ CacheTypes
      BY DEF Init, SessionTypes, CacheTypes
    <2>3. RestTypes
      <3>1. accounts \subseteq Username \X Password \X Identity
        BY <1>2, CredentialsIn DEF Init
      <3>2. 0 \in 0 .. MaxRequests
        BY BoundAssumption
      <3>3. QED
        BY <3>1, <3>2 DEF Init, RestTypes
    <2>4. QED
      BY <1>1, <2>1, <2>2, <2>3, TypeParts DEF SqlInv
  <1>4. JobsFit /\ ReadIsAccount
    BY Idle0 DEF Init, JobsFit, ReadIsAccount
  <1>5. RowsAreAccounts
    BY <1>2 DEF Init, RowsAreAccounts, Accounted, Credentials
  <1>6. BoundIdentityExists
    BY NamesAssumption DEF Init, BoundIdentityExists
  <1>7. QED
    BY <1>1, <1>3, <1>4, <1>5, <1>6 DEF AInv

-----------------------------------------------------------------------------
(* The handlers use the database layer *)

LEMMA SetActivityIsUpdate ==
  ASSUME NEW t \in Conn, NEW a, TypeOK, SetActivity(t, a)
  PROVE  SqlCall(t)
  <1>1. job[t].user \in Key
    BY UserKeyAssumption DEF TypeOK, Jobs
  <1>2. PICK v \in Val : Update(t, job[t].user, v)
    BY DEF SetActivity
  <1>3. QED
    BY <1>1, <1>2 DEF SqlCall

\* What a worker takes on is a job that fits its first step, of no login with an
\* identity so far.
Starts(t, fd, j, p) ==
    /\ Take(t, fd, j.cmd, j.user, j.pw, j.id, p)
    /\ j.fd = fd /\ j.source = NoFd
    /\ Fits(j, p) /\ (j.cmd = "login" => j.id = Empty)
    /\ reply' \in [Conn -> Replies]

LEMMA TakeIs ==
  ASSUME NEW t \in Conn, NEW fd \in Fd, NEW cmd \in Commands, NEW u \in Username,
         NEW p \in Password \cup {Empty}, NEW i \in Identity \cup BadIdentity \cup {Empty},
         NEW step \in Steps, Take(t, fd, cmd, u, p, i, step),
         reply' \in [Conn -> Replies], cmd = "login" => i = Empty,
         \/ cmd = "login" /\ step = "identity"
         \/ cmd = "register" /\ step = "insert" /\ p \in Password /\ i \in Identity \cup BadIdentity
         \/ cmd \in {"get users", "get teachers"} /\ step \in {"count", "list"}
         \/ cmd = "delete user" /\ step = "drop user"
         \/ cmd \in {"delete self", "logout"} /\ step = "name"
  PROVE  \E j \in Jobs, q \in Steps : Starts(t, fd, j, q)
  <1> DEFINE j == [cmd |-> cmd, fd |-> fd, user |-> u, pw |-> p, id |-> i, source |-> NoFd]
  <1>1. j \in Jobs
    BY DEF Jobs
  <1>2. Fits(j, step)
    BY DEF Fits, LoginOnly, Commands
  <1>3. Starts(t, fd, j, step)
    BY <1>2 DEF Starts
  <1>4. QED
    BY <1>1, <1>3

LEMMA CountsIs ==
  ASSUME reply \in [Conn -> Replies], NEW t \in Conn, NEW n \in Nat,
         reply' = [reply EXCEPT ![t].counts = n]
  PROVE  reply' \in [Conn -> Replies]
  BY DEF Replies

LEMMA ReceiveIs ==
  ASSUME TypeOK, NEW t \in Conn, Receive(t)
  PROVE  \E fd \in Fd : Forbidden(t, fd) \/ \E j \in Jobs, p \in Steps : Starts(t, fd, j, p)
  <1>1. PICK fd \in Fd :
          \/ GetUsers(t, fd) \/ GetTeachers(t, fd) \/ Logout(t, fd) \/ Forbidden(t, fd)
          \/ \E u \in Typed :
              \/ DeleteUser(t, fd, u)
              \/ \E p \in Password :
                  \/ Login(t, fd, u, p)
                  \/ \E i \in Identity \cup BadIdentity : Register(t, fd, u, p, i)
          \/ \E p \in Password : DeleteUserSelf(t, fd, p)
    BY DEF Receive
  <1>2. /\ reply \in [Conn -> Replies] /\ user_count_cache \in Nat \cup {-1}
        /\ Empty \in Username /\ Typed \subseteq Username
        /\ {"identity", "insert", "count", "list", "drop user", "name"} \subseteq Steps
    BY DEF TypeOK, Username, Steps, DbSteps, MapSteps
  <1>3. CASE Forbidden(t, fd)
    BY <1>3
  <1>4. CASE GetUsers(t, fd)
    <2>1. reply' \in [Conn -> Replies]
      <3>1. CASE UNCHANGED reply
        BY <1>2, <3>1
      <3>2. CASE user_count_cache >= 0 /\ reply' = [reply EXCEPT ![t].counts = user_count_cache]
        <4>1. user_count_cache \in Nat
          <5>1. user_count_cache \in Nat \cup {-1} /\ user_count_cache >= 0
            BY <1>2, <3>2
          <5>2. QED
            BY <5>1
        <4>2. reply \in [Conn -> Replies]
          BY <1>2
        <4>3. QED
          BY <3>2, <4>1, <4>2, CountsIs
      <3>3. QED
        BY <1>4, <3>1, <3>2 DEF GetUsers
    <2>2. PICK step \in {"count", "list"} : Take(t, fd, "get users", Empty, Empty, Empty, step)
      BY <1>4 DEF GetUsers
    <2>3. QED
      BY <1>2, <2>1, <2>2, TakeIs DEF Commands
  <1>5. CASE GetTeachers(t, fd) \/ Logout(t, fd)
    BY <1>2, <1>5, TakeIs DEF GetTeachers, Logout, Commands
  <1>6. ASSUME NEW u \in Typed, DeleteUser(t, fd, u)
        PROVE  \E j \in Jobs, p \in Steps : Starts(t, fd, j, p)
    BY <1>2, <1>6, TakeIs DEF DeleteUser, Commands
  <1>7. ASSUME NEW u \in Typed, NEW p \in Password, Login(t, fd, u, p)
        PROVE  \E j \in Jobs, q \in Steps : Starts(t, fd, j, q)
    BY <1>2, <1>7, TakeIs DEF Login, Commands
  <1>8. ASSUME NEW u \in Typed, NEW p \in Password, NEW i \in Identity \cup BadIdentity,
               Register(t, fd, u, p, i)
        PROVE  \E j \in Jobs, q \in Steps : Starts(t, fd, j, q)
    BY <1>2, <1>8, TakeIs DEF Register, Commands
  <1>9. ASSUME NEW p \in Password, DeleteUserSelf(t, fd, p)
        PROVE  \E j \in Jobs, q \in Steps : Starts(t, fd, j, q)
    BY <1>2, <1>9, TakeIs DEF DeleteUserSelf, Commands
  <1>10. QED
    BY <1>1, <1>3, <1>4, <1>5, <1>6, <1>7, <1>8, <1>9

LEMMA WorkIsCall ==
  ASSUME TypeOK, JobsFit, NEW t \in Conn, Work(t)
  PROVE  SqlCall(t) \/ UNCHANGED sqlVars
  <1>1. CASE Receive(t)
    BY <1>1, ReceiveIs DEF Forbidden, Starts, Take
  <1>2. CASE Begin(t) \/ ReadIdentity(t) \/ ReadActivity(t) \/ CountUsers(t) \/ ListUsers(t)
    BY <1>2 DEF Begin, ReadIdentity, ReadActivity, CountUsers, ListUsers, SqlCall
  <1>3. CASE Deactivate(t) \/ Activate(t) \/ EndActivity(t)
    BY <1>3, SetActivityIsUpdate DEF Deactivate, Activate, EndActivity
  <1>4. CASE InsertUser(t)
    <2>1. job[t] \in Jobs /\ Fits(job[t], "insert")
      BY <1>4 DEF TypeOK, JobsFit, InsertUser, At
    <2>2. [pw |-> job[t].pw, id |-> job[t].id, active |-> FALSE] \in Val
      BY <2>1, UserKeyAssumption DEF Fits, Account
    <2>3. job[t].user \in Key
      BY <2>1, UserKeyAssumption DEF Jobs
    <2>4. QED
      BY <1>4, <2>2, <2>3 DEF InsertUser, SqlCall
  <1>5. CASE DeleteRow(t)
    <2>1. Selected(t) \in SUBSET Key
      BY UserKeyAssumption DEF TypeOK, Jobs, Selected
    <2>2. QED
      BY <1>5, <2>1 DEF DeleteRow, SqlCall
  <1>6. CASE Displace(t) \/ Forget(t) \/ UnbindIdentity(t) \/ UnbindName(t)
             \/ BindIdentity(t) \/ BindName(t) \/ NoteLogin(t) \/ NoteUser(t)
    BY <1>6 DEF Displace, Forget, UnbindIdentity, UnbindName, BindIdentity, BindName,
       NoteLogin, NoteUser
  <1>7. CASE DropUser(t) \/ Name(t) \/ DropIdentity(t) \/ DropName(t) \/ EndSession(t) \/ Answer(t)
    BY <1>7 DEF DropUser, Name, DropIdentity, DropName, EndSession, Answer
  <1>8. QED
    BY <1>1, <1>2, <1>3, <1>4, <1>5, <1>6, <1>7 DEF Work

LEMMA NextIsCall == TypeOK /\ JobsFit /\ [Next]_vars => [SqlNext]_sqlVars
  BY WorkIsCall DEF Next, StartPass, Restart, SqlNext

LEMMA SqlPart == SqlInv /\ TypeOK /\ JobsFit /\ [Next]_vars => SqlInv'
  BY NextIsCall, SqlStepInv

-----------------------------------------------------------------------------
(* Jobs, steps and replies *)

\* One worker's job and step change: what was known of the others stays.
LEMMA JobStep ==
  ASSUME WorkTypes, JobsFit, ReadIsAccount, NEW t \in Conn, NEW j \in Jobs, NEW p \in Steps,
         job' = [job EXCEPT ![t] = j], pc' = [pc EXCEPT ![t] = p], reply' \in [Conn -> Replies],
         Fits(j, p), Carries(j)', accounts \subseteq accounts'
  PROVE  WorkTypes' /\ JobsFit' /\ ReadIsAccount'
  <1>1. WorkTypes'
    BY DEF WorkTypes
  <1>2. JobsFit'
    BY DEF WorkTypes, JobsFit
  <1>3. \A u \in Conn : Carries(job[u])'
    BY DEF WorkTypes, ReadIsAccount, Carries
  <1>4. QED
    BY <1>1, <1>2, <1>3 DEF ReadIsAccount

\* A step that leaves the job alone.
LEMMA PcStep ==
  ASSUME WorkTypes, JobsFit, ReadIsAccount, NEW t \in Conn, NEW p \in Steps,
         UNCHANGED job, pc' = [pc EXCEPT ![t] = p], reply' \in [Conn -> Replies],
         Fits(job[t], p), accounts \subseteq accounts'
  PROVE  WorkTypes' /\ JobsFit' /\ ReadIsAccount'
  <1>1. WorkTypes'
    BY DEF WorkTypes
  <1>2. JobsFit'
    BY DEF WorkTypes, JobsFit
  <1>3. \A u \in Conn : Carries(job[u])'
    BY DEF WorkTypes, ReadIsAccount, Carries
  <1>4. QED
    BY <1>1, <1>2, <1>3 DEF ReadIsAccount

\* Every handler's answer is a reply.
LEMMA SettleIs ==
  ASSUME WorkTypes, NEW t \in Conn, NEW r \in Replies, Settle(t, r)
  PROVE  reply' \in [Conn -> Replies]
  BY DEF WorkTypes, Settle

LEMMA StatusIs ==
  ASSUME NEW code \in {0, 200, 403, 404}
  PROVE  Status(code) \in Replies
  BY DEF Status, Replies

\* What a login finds in the row of its user.
LEMMA RowIsAccount ==
  ASSUME SqlInv, WorkTypes, RowsAreAccounts, NEW t \in Conn, Row(t) # NoVal
  PROVE  /\ Row(t) \in Val /\ Row(t).id \in Identity
         /\ <<job[t].user, Row(t).pw, Row(t).id>> \in accounts /\ Row(t).pw \in Password
  <1>1. job[t].user \in Key
    BY UserKeyAssumption DEF WorkTypes, Jobs
  <1>2. View(t) \in Table
    BY ViewFacts
  <1>3. Row(t) \in Val
    BY <1>1, <1>2 DEF Row, Table
  <1>4. Row(t) \notin Refused /\ <<job[t].user, Row(t).pw, Row(t).id>> \in accounts
    BY <1>1 DEF RowsAreAccounts, Accounted, View, Row
  <1>5. QED
    BY <1>3, <1>4, LegalRow

WorkPart == WorkTypes' /\ JobsFit' /\ ReadIsAccount'

LEMMA ReceiveWork ==
  ASSUME AInv, NEW t \in Conn, Receive(t)
  PROVE  WorkPart
  <1>1. TypeOK /\ WorkTypes /\ JobsFit /\ ReadIsAccount
    BY TypeParts DEF AInv
  <1>2. CASE \E fd \in Fd : Forbidden(t, fd)
    <2>1. UNCHANGED <<job, pc, reply, accounts>>
      BY <1>2 DEF Forbidden
    <2>2. QED
      BY <1>1, <2>1 DEF WorkPart, WorkTypes, JobsFit, ReadIsAccount, Carries
  <1>3. ASSUME NEW fd \in Fd, NEW j \in Jobs, NEW p \in Steps, Starts(t, fd, j, p)
        PROVE  WorkPart
    <2>1. job' = [job EXCEPT ![t] = [cmd |-> j.cmd, fd |-> fd, user |-> j.user, pw |-> j.pw,
                                     id |-> j.id, source |-> NoFd]]
          /\ pc' = [pc EXCEPT ![t] = p] /\ accounts' = accounts
      BY <1>3 DEF Starts, Take
    <2>2. j = [cmd |-> j.cmd, fd |-> fd, user |-> j.user, pw |-> j.pw, id |-> j.id, source |-> NoFd]
      BY <1>3 DEF Starts, Jobs
    <2>3. Fits(j, p) /\ Carries(j)' /\ reply' \in [Conn -> Replies]
      BY <1>3, NamesAssumption DEF Starts, Carries
    <2>4. QED
      BY <1>1, <2>1, <2>2, <2>3, JobStep DEF WorkPart
  <1>4. QED
    BY <1>1, <1>2, <1>3, ReceiveIs

LEMMA LoginWork ==
  ASSUME AInv, NEW t \in Conn,
         ReadIdentity(t) \/ ReadActivity(t) \/ Displace(t) \/ Deactivate(t) \/ Forget(t)
         \/ UnbindIdentity(t) \/ UnbindName(t) \/ Activate(t) \/ BindIdentity(t) \/ BindName(t)
         \/ NoteLogin(t)
  PROVE  WorkPart
  <1>1. SqlInv /\ WorkTypes /\ JobsFit /\ ReadIsAccount /\ RowsAreAccounts /\ SessionTypes
    BY TypeParts DEF AInv
  <1>2. Fits(job[t], pc[t]) /\ pc[t] \in LoginOnly /\ job[t] \in Jobs
    BY <1>1 DEF JobsFit, WorkTypes, LoginOnly, At, ReadIdentity, ReadActivity, Displace, Deactivate,
       Forget, UnbindIdentity, UnbindName, Activate, BindIdentity, BindName, NoteLogin
  <1>3. job[t].cmd = "login" /\ job[t].fd \in Fd /\ job[t].id \in Identity \cup {Empty}
    BY <1>2 DEF Fits, LoginOnly
  <1>4. \A p \in LoginOnly \cup {"answer"} : Fits(job[t], p) /\ p \in Steps
    BY <1>3, ZenonT(60) DEF Fits, LoginOnly, Steps, DbSteps, MapSteps
  <1>5. CASE ReadIdentity(t) /\ Matches(t)
    <2> PICK j : j = [job[t] EXCEPT !.id = Row(t).id]
      OBVIOUS
    <2>1. Row(t).id \in Identity /\ <<job[t].user, Row(t).pw, Row(t).id>> \in accounts
          /\ Row(t).pw \in Password
      BY <1>1, <1>5, RowIsAccount DEF Matches
    <2>2. j \in Jobs /\ j.cmd = "login" /\ j.fd \in Fd /\ j.id = Row(t).id /\ j.user = job[t].user
      BY <1>2, <1>3, <2>1 DEF Jobs
    <2>3. /\ job' = [job EXCEPT ![t] = j] /\ pc' = [pc EXCEPT ![t] = "activity"]
          /\ UNCHANGED <<reply, accounts>>
      BY <1>1, <1>5 DEF ReadIdentity, Goto, WorkTypes
    <2>4. Fits(j, "activity")
      BY <2>1, <2>2 DEF Fits, LoginOnly
    <2>5. Carries(j)'
      BY <2>1, <2>2, <2>3 DEF Carries
    <2>6. "activity" \in Steps /\ reply' \in [Conn -> Replies]
      BY <1>1, <2>3 DEF Steps, DbSteps, WorkTypes
    <2>7. QED
      BY <1>1, <2>2, <2>3, <2>4, <2>5, <2>6, JobStep DEF WorkPart
  <1>6. CASE Displace(t)
    <2>1. PICK fd \in Fd \cup {NoFd} : job' = [job EXCEPT ![t].source = fd]
      <3>1. job[t].user \in Username
        BY <1>2 DEF Jobs
      <3>2. logined_users[job[t].user] \in Fd \cup {NoFd}
        BY <1>1, <3>1 DEF SessionTypes
      <3>3. QED
        BY <1>6, <3>2 DEF Displace, Outcome
    <2> PICK j : j = [job[t] EXCEPT !.source = fd]
      OBVIOUS
    <2>2. /\ j \in Jobs /\ j.cmd = "login" /\ j.fd \in Fd /\ j.id = job[t].id
          /\ j.user = job[t].user
      BY <1>2, <1>3 DEF Jobs
    <2>3. /\ job' = [job EXCEPT ![t] = j] /\ pc' = [pc EXCEPT ![t] = "deactivate"]
          /\ UNCHANGED <<reply, accounts>>
      BY <1>1, <1>6, <2>1 DEF Displace, Goto, WorkTypes
    <2>4. Fits(j, "deactivate")
      BY <1>3, <2>2 DEF Fits, LoginOnly
    <2>5. Carries(j)'
      BY <1>1, <1>3, <2>2, <2>3 DEF Carries, ReadIsAccount
    <2>6. "deactivate" \in Steps /\ reply' \in [Conn -> Replies]
      BY <1>1, <2>3 DEF Steps, DbSteps, WorkTypes
    <2>7. QED
      BY <1>1, <2>2, <2>3, <2>4, <2>5, <2>6, JobStep DEF WorkPart
  <1>7. CASE ReadActivity(t) /\ ~Matches(t)
    <2>1. UNCHANGED <<job, pc, reply, accounts>>
      BY <1>7 DEF ReadActivity
    <2>2. QED
      BY <1>1, <2>1 DEF WorkPart, WorkTypes, JobsFit, ReadIsAccount, Carries
  <1>8. ASSUME NEW p \in LoginOnly \cup {"answer"}, pc' = [pc EXCEPT ![t] = p],
               UNCHANGED <<job, accounts>>, reply' \in [Conn -> Replies]
        PROVE  WorkPart
    BY <1>1, <1>4, <1>8, PcStep DEF WorkPart
  <1>9. CASE BindIdentity(t)
    <2>1. reply' \in [Conn -> Replies]
      BY <1>1, <1>9, StatusIs, SettleIs, ZenonT(60) DEF BindIdentity
    <2>2. QED
      BY <1>8, <1>9, <2>1 DEF BindIdentity, Goto, LoginOnly
  <1>10. reply \in [Conn -> Replies]
    BY <1>1 DEF WorkTypes
  <1>11. CASE ReadIdentity(t) /\ ~Matches(t)
    BY <1>8, <1>10, <1>11 DEF ReadIdentity, Goto, LoginOnly
  <1>12. CASE ReadActivity(t) /\ Matches(t)
    <2>1. PICK p \in {"displace", "activate"} : pc' = [pc EXCEPT ![t] = p]
      BY <1>12 DEF ReadActivity, Goto
    <2>2. UNCHANGED <<job, accounts, reply>>
      BY <1>12 DEF ReadActivity
    <2>3. QED
      BY <1>8, <1>10, <2>1, <2>2 DEF LoginOnly
  <1>13. CASE Deactivate(t) \/ Activate(t) \/ Forget(t)
    BY <1>8, <1>10, <1>13 DEF Deactivate, Activate, Forget, Goto, LoginOnly
  <1>14. CASE UnbindIdentity(t) \/ UnbindName(t) \/ BindName(t) \/ NoteLogin(t)
    BY <1>8, <1>10, <1>14 DEF UnbindIdentity, UnbindName, BindName, NoteLogin, Goto, LoginOnly
  <1>15. QED
    BY <1>5, <1>6, <1>7, <1>9, <1>11, <1>12, <1>13, <1>14

\* The rows a SELECT counts or lists.
LEMMA StoredIs ==
  ASSUME NEW t \in Conn
  PROVE  /\ Stored(t) \subseteq Username /\ IsFiniteSet(Username)
         /\ \A S \in SUBSET Stored(t) : S \subseteq Username /\ Cardinality(S) \in Nat
  <1>1. Stored(t) \subseteq Username
    BY UserKeyAssumption DEF Stored
  <1>2. IsFiniteSet(Username)
    BY UsersFinite, FS_AddElement DEF Username
  <1>3. \A S \in SUBSET Username : IsFiniteSet(S)
    BY <1>2, FS_Subset
  <1>4. QED
    BY <1>1, <1>2, <1>3, FS_CardinalityType

LEMMA ListWork ==
  ASSUME AInv, NEW t \in Conn, CountUsers(t) \/ ListUsers(t)
  PROVE  WorkPart
  <1>1. WorkTypes /\ JobsFit /\ ReadIsAccount /\ reply \in [Conn -> Replies]
    BY TypeParts DEF AInv, WorkTypes
  <1>2. Fits(job[t], pc[t]) /\ pc[t] \in {"count", "list"}
    BY <1>1 DEF JobsFit, At, CountUsers, ListUsers
  <1>3. /\ job[t].cmd \in {"get users", "get teachers"} /\ job[t].fd \in Fd
        /\ Fits(job[t], "list") /\ Fits(job[t], "answer")
    BY <1>2 DEF Fits, LoginOnly
  <1>4. "list" \in Steps /\ "answer" \in Steps
    BY DEF Steps, DbSteps
  <1>5. CASE CountUsers(t)
    <2>1. PICK n \in Nat : reply' = [reply EXCEPT ![t].counts = n]
      BY <1>5, StoredIs DEF CountUsers
    <2>2. reply' \in [Conn -> Replies]
      BY <1>1, <2>1, CountsIs
    <2>3. QED
      BY <1>1, <1>3, <1>4, <1>5, <2>2, PcStep DEF CountUsers, Goto, WorkPart
  <1>6. CASE ListUsers(t)
    <2>1. reply' \in [Conn -> Replies]
      <3>1. CASE /\ job[t].cmd = "get users"
                 /\ Settle(t, [reply[t] EXCEPT !.code = 200, !.items = Stored(t)])
        <4>1. reply[t] \in Replies
          BY <1>1
        <4>2. \A r \in Replies, S \in SUBSET Username :
                 [r EXCEPT !.code = 200, !.items = S] \in Replies
          BY ZenonT(60) DEF Replies
        <4>3. [reply[t] EXCEPT !.code = 200, !.items = Stored(t)] \in Replies
          BY <4>1, <4>2, StoredIs
        <4>4. QED
          BY <1>1, <3>1, <4>3, SettleIs
      <3>2. CASE LET found == {u \in Stored(t) : View(t)[u].id = Teacher} IN
                 Settle(t, [code |-> IF found = {} THEN 403 ELSE 200,
                            counts |-> Cardinality(found), items |-> found])
        <4> DEFINE found == {u \in Stored(t) : View(t)[u].id = Teacher}
        <4>1. found \subseteq Username /\ Cardinality(found) \in Nat
          BY StoredIs
        <4>2. PICK f \in SUBSET Username : f = found /\ Cardinality(f) \in Nat
          BY <4>1
        <4>3. PICK n \in Nat : n = Cardinality(f)
          BY <4>2
        <4>4. PICK k \in {200, 403} : k = (IF f = {} THEN 403 ELSE 200)
          OBVIOUS
        <4>5. Settle(t, [code |-> k, counts |-> n, items |-> f])
          BY <3>2, <4>2, <4>3, <4>4
        <4>6. [code |-> k, counts |-> n, items |-> f] \in Replies
          BY DEF Replies
        <4>7. QED
          BY <1>1, <4>5, <4>6, SettleIs
      <3>3. QED
        BY <1>6, <3>1, <3>2 DEF ListUsers
    <2>2. QED
      BY <1>1, <1>3, <1>4, <1>6, <2>1, PcStep DEF ListUsers, Goto, WorkPart
  <1>7. QED
    BY <1>5, <1>6

LEMMA RegisterWork ==
  ASSUME AInv, NEW t \in Conn, InsertUser(t) \/ NoteUser(t)
  PROVE  WorkPart
  <1>1. WorkTypes /\ JobsFit /\ ReadIsAccount /\ reply \in [Conn -> Replies]
    BY TypeParts DEF AInv, WorkTypes
  <1>2. Fits(job[t], pc[t]) /\ pc[t] \in {"insert", "note user"}
    BY <1>1 DEF JobsFit, At, InsertUser, NoteUser
  <1>3. Fits(job[t], "note user") /\ Fits(job[t], "answer")
    BY <1>2 DEF Fits, LoginOnly
  <1>4. "note user" \in Steps /\ "answer" \in Steps
    BY DEF Steps, MapSteps
  <1>5. CASE InsertUser(t)
    <2> PICK k \in {200, 403} : k = IF rc'[t] = "ok" THEN 200 ELSE 403
      OBVIOUS
    <2>1. Settle(t, Status(k))
      BY <1>5 DEF InsertUser
    <2>2. reply' \in [Conn -> Replies]
      BY <1>1, <2>1, StatusIs, SettleIs
    <2>3. /\ accounts \subseteq accounts' /\ job' = job
          /\ pc' = [pc EXCEPT ![t] = "note user"]
      BY <1>5 DEF InsertUser, Goto
    <2>4. QED
      BY <1>1, <1>3, <1>4, <2>2, <2>3, PcStep DEF WorkPart
  <1>6. CASE NoteUser(t)
    BY <1>1, <1>3, <1>4, <1>6, PcStep DEF NoteUser, Goto, WorkPart
  <1>7. QED
    BY <1>5, <1>6

LEMMA DeleteWork ==
  ASSUME AInv, NEW t \in Conn,
         DropUser(t) \/ DropIdentity(t) \/ DropName(t) \/ DeleteRow(t)
  PROVE  WorkPart
  <1>1. WorkTypes /\ JobsFit /\ ReadIsAccount /\ reply \in [Conn -> Replies]
    BY TypeParts DEF AInv, WorkTypes
  <1>2. /\ Fits(job[t], pc[t]) /\ UNCHANGED <<job, accounts>>
        /\ pc[t] \in {"drop user", "drop identity", "drop name", "delete"}
    BY <1>1 DEF JobsFit, At, DropUser, DropIdentity, DropName, DeleteRow
  <1>3. /\ "drop name" \in Steps /\ "delete" \in Steps /\ "answer" \in Steps
        /\ Fits(job[t], "answer")
        /\ pc[t] = "drop identity" => Fits(job[t], "drop name")
    BY <1>2 DEF Fits, LoginOnly, Steps, MapSteps
  <1> accounts \subseteq accounts' /\ job' = job
    BY <1>2
  <1>4. CASE DropIdentity(t)
    BY <1>1, <1>2, <1>3, <1>4, PcStep DEF DropIdentity, Goto, At, WorkPart
  <1>5. CASE DropUser(t)
    <2>2. reply' \in [Conn -> Replies]
      <3>1. PICK k \in {200, 403} : Settle(t, Status(k))
        BY <1>5, ZenonT(60) DEF DropUser
      <3>2. QED
        BY <1>1, <3>1, StatusIs, SettleIs
    <2>3. Fits(job[t], "delete")
      BY <1>2, <1>5 DEF Fits, DropUser, At, LoginOnly
    <2>4. pc' = [pc EXCEPT ![t] = "delete"]
      BY <1>5 DEF DropUser, Goto
    <2>5. QED
      BY <1>1, <1>3, <2>2, <2>3, <2>4, PcStep DEF WorkPart
  <1>6. CASE DropName(t)
    <2>2. reply' \in [Conn -> Replies]
      <3>1. PICK k \in {200, 403} : Settle(t, Status(k))
        BY <1>6, ZenonT(60) DEF DropName
      <3>2. QED
        BY <1>1, <3>1, StatusIs, SettleIs
    <2>3. Fits(job[t], "delete")
      BY <1>2, <1>6 DEF Fits, DropName, At, LoginOnly
    <2>4. pc' = [pc EXCEPT ![t] = "delete"]
      BY <1>6 DEF DropName, Goto
    <2>5. QED
      BY <1>1, <1>3, <2>2, <2>3, <2>4, PcStep DEF WorkPart
  <1>7. CASE DeleteRow(t)
    <2>2. reply' \in [Conn -> Replies]
      <3>1. PICK k \in {200, 403, 404} : Settle(t, Status(k))
        BY <1>7 DEF DeleteRow
      <3>2. QED
        BY <1>1, <3>1, StatusIs, SettleIs
    <2>3. pc' = [pc EXCEPT ![t] = "answer"]
      BY <1>7 DEF DeleteRow, Goto
    <2>4. QED
      BY <1>1, <1>3, <2>2, <2>3, PcStep DEF WorkPart
  <1>8. QED
    BY <1>4, <1>5, <1>6, <1>7

LEMMA LogoutWork ==
  ASSUME AInv, NEW t \in Conn, Name(t) \/ EndActivity(t) \/ EndSession(t)
  PROVE  WorkPart
  <1>1. WorkTypes /\ JobsFit /\ ReadIsAccount /\ SessionTypes /\ reply \in [Conn -> Replies]
    BY TypeParts DEF AInv, WorkTypes
  <1>2. /\ Fits(job[t], pc[t]) /\ job[t] \in Jobs
        /\ pc[t] \in {"name", "update", "end session"}
    BY <1>1 DEF JobsFit, WorkTypes, At, Name, EndActivity, EndSession
  <1>3. job[t].cmd \in {"logout", "delete self"} /\ job[t].fd \in Fd
    BY <1>2 DEF Fits
  <1>4. {"update", "drop identity", "end session", "answer"} \subseteq Steps
    BY DEF Steps, MapSteps, DbSteps
  <1>5. CASE Name(t)
    <2>1. PICK u \in Username : job' = [job EXCEPT ![t].user = u]
      <3>1. bindUsername[job[t].fd] \in Username \cup {Unbound} /\ Empty \in Username
        BY <1>1, <1>3 DEF SessionTypes, Username
      <3>2. PICK seen \in SeenName(t, job[t].fd) :
              \/ seen # Unbound /\ job' = [job EXCEPT ![t].user = seen]
              \/ job' = [job EXCEPT ![t].user = Empty]
        BY <1>5 DEF Name
      <3>3. seen \in Username \cup {Unbound}
        BY <3>1, <3>2 DEF SeenName, Outcome
      <3>4. QED
        BY <3>1, <3>2, <3>3
    <2> PICK p \in {"update", "drop identity"} :
            p = IF job[t].cmd = "logout" THEN "update" ELSE "drop identity"
      OBVIOUS
    <2>2. pc' = [pc EXCEPT ![t] = p]
      BY <1>5 DEF Name, Goto
    <2> PICK j : j = [job[t] EXCEPT !.user = u]
      OBVIOUS
    <2>3. j \in Jobs /\ j.cmd = job[t].cmd /\ j.fd = job[t].fd
      BY <1>2 DEF Jobs
    <2>4. job' = [job EXCEPT ![t] = j] /\ UNCHANGED <<reply, accounts>>
      BY <1>1, <1>5, <2>1 DEF Name, WorkTypes
    <2>5. Fits(j, p) /\ Carries(j)'
      BY <1>3, <2>3 DEF Fits, LoginOnly, Carries
    <2>6. QED
      BY <1>1, <1>4, <2>2, <2>3, <2>4, <2>5, JobStep DEF WorkPart
  <1>6. CASE EndActivity(t)
    <2>1. Fits(job[t], "end session")
      BY <1>2, <1>6 DEF Fits, LoginOnly, EndActivity, At
    <2>2. QED
      BY <1>1, <1>4, <1>6, <2>1, PcStep DEF EndActivity, Goto, WorkPart
  <1>7. CASE EndSession(t)
    <2>2. reply' \in [Conn -> Replies]
      <3>1. PICK k \in {200, 403} : Settle(t, Status(k))
        BY <1>7, ZenonT(60) DEF EndSession
      <3>2. QED
        BY <1>1, <3>1, StatusIs, SettleIs
    <2>3. Fits(job[t], "answer")
      BY <1>2, <1>3 DEF Fits, LoginOnly
    <2>4. pc' = [pc EXCEPT ![t] = "answer"] /\ job' = job /\ accounts \subseteq accounts'
      BY <1>7 DEF EndSession, Goto
    <2>5. QED
      BY <1>1, <1>4, <2>2, <2>3, <2>4, PcStep DEF WorkPart
  <1>8. QED
    BY <1>5, <1>6, <1>7

\* Everything of jobs, steps and replies, for every step there is.
LEMMA WorkStep == AInv /\ [Next]_vars => WorkPart
  <1> SUFFICES ASSUME AInv, [Next]_vars PROVE WorkPart
    OBVIOUS
  <1>1. WorkTypes /\ JobsFit /\ ReadIsAccount
    BY TypeParts DEF AInv
  <1>2. ASSUME UNCHANGED <<job, pc, reply, accounts>> PROVE WorkPart
    BY <1>1, <1>2 DEF WorkPart, WorkTypes, JobsFit, ReadIsAccount, Carries
  <1>3. CASE StartPass \/ UNCHANGED vars \/ \E t \in Conn : Begin(t)
    BY <1>2, <1>3 DEF StartPass, Begin
  <1>4. CASE Restart
    <2>1. /\ job' = [t \in Conn |-> NoJob] /\ pc' = [t \in Conn |-> "idle"]
          /\ reply' = [t \in Conn |-> Status(0)] /\ accounts' = accounts
      BY <1>4 DEF Restart
    <2>2. Carries(NoJob)' /\ "idle" \in Steps
      BY DEF Carries, NoJob, Steps
    <2>3. QED
      BY <2>1, <2>2, Idle0 DEF WorkPart, WorkTypes, JobsFit, ReadIsAccount
  <1>5. ASSUME NEW t \in Conn, Answer(t) PROVE WorkPart
    <2>1. /\ job' = [job EXCEPT ![t] = NoJob] /\ pc' = [pc EXCEPT ![t] = "idle"]
          /\ Settle(t, Status(0)) /\ accounts' = accounts
      BY <1>5 DEF Answer, Goto
    <2>2. Carries(NoJob)' /\ "idle" \in Steps
      BY DEF Carries, NoJob, Steps
    <2>3. QED
      BY <1>1, <2>1, <2>2, Idle0, SettleIs, JobStep DEF WorkPart
  <1>6. QED
    BY <1>3, <1>4, <1>5, ReceiveWork, LoginWork, ListWork, RegisterWork, DeleteWork, LogoutWork
    DEF Next, Work

-----------------------------------------------------------------------------
(* The maps of the sessions, the caches and the rest *)

\* An unlocked map holds the result of an operation, or that of losing the race.
LEMMA OutcomeIs ==
  ASSUME NEW t, NEW steps, NEW result, NEW lost, NEW x \in Outcome(t, steps, result, lost)
  PROVE  x = result \/ x = lost
  BY DEF Outcome

\* Either is a map of its type.
LEMMA ErasedIs ==
  ASSUME NEW S, NEW R, NEW map \in [S -> R], NEW x, NEW none \in R
  PROVE  Erased(map, x, none) \in [S -> R]
  BY DEF Erased

LEMMA EnteredIs ==
  ASSUME NEW S, NEW R, NEW map \in [S -> R], NEW x, NEW y \in R
  PROVE  [map EXCEPT ![x] = y] \in [S -> R]
  OBVIOUS

Identities == Identity \cup {Empty, Unbound}

LEMMA SessionStep == AInv /\ [Next]_vars => SessionTypes'
  <1> SUFFICES ASSUME AInv, [Next]_vars PROVE SessionTypes'
    OBVIOUS
  <1>1. /\ bindIdentity \in [Fd -> Identities]
        /\ bindUsername \in [Fd -> Username \cup {Unbound}]
        /\ logined_users \in [Username -> Fd \cup {NoFd}]
    BY TypeParts DEF AInv, SessionTypes, Identities
  <1>2. \A t \in Conn : job[t] \in Jobs /\ Fits(job[t], pc[t])
    BY TypeParts DEF AInv, WorkTypes, JobsFit
  <1>3. Unbound \in Identities /\ Empty \in Username
    BY DEF Identities, Username
  <1>4. ASSUME UNCHANGED <<bindUsername, logined_users>>, bindIdentity' \in [Fd -> Identities]
        PROVE  SessionTypes'
    BY <1>1, <1>4 DEF SessionTypes, Identities
  <1>5. ASSUME UNCHANGED <<bindIdentity, logined_users>>,
               bindUsername' \in [Fd -> Username \cup {Unbound}]
        PROVE  SessionTypes'
    BY <1>1, <1>5 DEF SessionTypes, Identities
  <1>6. ASSUME UNCHANGED <<bindIdentity, bindUsername>>,
               logined_users' \in [Username -> Fd \cup {NoFd}]
        PROVE  SessionTypes'
    BY <1>1, <1>6 DEF SessionTypes, Identities
  <1>7. CASE StartPass \/ UNCHANGED vars
    BY <1>1, <1>4, <1>7 DEF StartPass
  <1>8. CASE Restart
    BY <1>8 DEF Restart, SessionTypes
  <1>9. ASSUME NEW t \in Conn, Work(t) PROVE SessionTypes'
    <2>1. CASE Receive(t)
      <3>1. TypeOK
        BY DEF AInv
      <3>2. UNCHANGED sessionVars
        BY <2>1, <3>1, ReceiveIs DEF Starts, Take, Forbidden
      <3>3. QED
        BY <1>1, <1>4, <3>2
    <2>2. CASE UNCHANGED sessionVars
      BY <1>1, <1>4, <2>2
    <2>3. CASE UnbindIdentity(t) \/ DropIdentity(t)
      <3>1. PICK x : bindIdentity' \in {bindIdentity, Erased(bindIdentity, x, Unbound)}
        BY <2>3, OutcomeIs DEF UnbindIdentity, DropIdentity
      <3>2. UNCHANGED <<bindUsername, logined_users>>
        BY <2>3 DEF UnbindIdentity, DropIdentity
      <3>3. Erased(bindIdentity, x, Unbound) \in [Fd -> Identities]
        BY <1>1, <1>3, ErasedIs
      <3>4. QED
        BY <1>1, <1>4, <3>1, <3>2, <3>3
    <2>4. CASE UnbindName(t) \/ DropName(t)
      <3>1. PICK x : bindUsername' \in {bindUsername, Erased(bindUsername, x, Unbound)}
        BY <2>4, OutcomeIs DEF UnbindName, DropName
      <3>2. UNCHANGED <<bindIdentity, logined_users>>
        BY <2>4 DEF UnbindName, DropName
      <3>3. Erased(bindUsername, x, Unbound) \in [Fd -> Username \cup {Unbound}]
        BY <1>1, ErasedIs
      <3>4. QED
        BY <1>1, <1>5, <3>1, <3>2, <3>3
    <2>5. CASE Forget(t)
      <3>1. PICK x : logined_users' \in {logined_users, Erased(logined_users, x, NoFd)}
        BY <2>5, OutcomeIs DEF Forget
      <3>2. UNCHANGED <<bindIdentity, bindUsername>>
        BY <2>5 DEF Forget
      <3>3. Erased(logined_users, x, NoFd) \in [Username -> Fd \cup {NoFd}]
        BY <1>1, ErasedIs
      <3>4. QED
        BY <1>1, <1>6, <3>1, <3>2, <3>3
    <2>6. CASE BindIdentity(t)
      <3>1. job[t].id \in Identities
        BY <1>2, <2>6 DEF BindIdentity, At, Fits, LoginOnly, Identities
      <3>2. bindIdentity' = bindIdentity
            \/ bindIdentity' = [bindIdentity EXCEPT ![job[t].fd] = job[t].id]
        BY <2>6, OutcomeIs DEF BindIdentity
      <3>3. [bindIdentity EXCEPT ![job[t].fd] = job[t].id] \in [Fd -> Identities]
        BY <1>1, <3>1, EnteredIs
      <3>4. UNCHANGED <<bindUsername, logined_users>>
        BY <2>6 DEF BindIdentity
      <3>5. QED
        BY <1>1, <1>4, <3>2, <3>3, <3>4
    <2>7. CASE BindName(t)
      <3>1. job[t].user \in Username
        BY <1>2 DEF Jobs
      <3>2. bindUsername' = bindUsername
            \/ bindUsername' = [bindUsername EXCEPT ![job[t].fd] = job[t].user]
        BY <2>7, OutcomeIs DEF BindName
      <3>3. [bindUsername EXCEPT ![job[t].fd] = job[t].user] \in [Fd -> Username \cup {Unbound}]
        BY <1>1, <3>1, EnteredIs
      <3>4. UNCHANGED <<bindIdentity, logined_users>>
        BY <2>7 DEF BindName
      <3>5. QED
        BY <1>1, <1>5, <3>2, <3>3, <3>4
    <2>8. CASE NoteLogin(t)
      <3>1. job[t].fd \in Fd \cup {NoFd}
        BY <1>2 DEF Jobs
      <3>2. logined_users' = logined_users
            \/ logined_users' = [logined_users EXCEPT ![job[t].user] = job[t].fd]
        BY <2>8, OutcomeIs DEF NoteLogin
      <3>3. [logined_users EXCEPT ![job[t].user] = job[t].fd] \in [Username -> Fd \cup {NoFd}]
        BY <1>1, <3>1, EnteredIs
      <3>4. UNCHANGED <<bindIdentity, bindUsername>>
        BY <2>8 DEF NoteLogin
      <3>5. QED
        BY <1>1, <1>6, <3>2, <3>3, <3>4
    <2>9. CASE Name(t)
      <3>1. \/ bindUsername' = bindUsername
            \/ bindUsername' = [bindUsername EXCEPT ![job[t].fd] = Empty]
        BY <2>9 DEF Name
      <3>2. UNCHANGED <<bindIdentity, logined_users>>
        BY <2>9 DEF Name
      <3>3. QED
        BY <1>1, <1>3, <1>5, <3>1, <3>2, EnteredIs
    <2>10. CASE EndSession(t)
      <3> DEFINE noName == Erased(bindUsername, job[t].fd, Unbound)
                 noIdentity == Erased(bindIdentity, job[t].fd, Unbound)
                 noDevice == Erased(logined_users, job[t].user, NoFd)
      <3>1. /\ noName \in [Fd -> Username \cup {Unbound}] /\ noIdentity \in [Fd -> Identities]
            /\ noDevice \in [Username -> Fd \cup {NoFd}]
        BY <1>1, <1>3, ErasedIs
      <3>2. bindUsername' = bindUsername \/ bindUsername' = noName
        BY <2>10, OutcomeIs DEF EndSession
      <3>3. bindIdentity' = bindIdentity \/ bindIdentity' = noIdentity
        BY <2>10, OutcomeIs DEF EndSession
      <3>4. logined_users' = logined_users \/ logined_users' = noDevice
        BY <2>10, OutcomeIs DEF EndSession
      <3> HIDE DEF noName, noIdentity, noDevice
      <3>5. QED
        BY <1>1, <3>1, <3>2, <3>3, <3>4 DEF SessionTypes, Identities
    <2>11. CASE Begin(t) \/ ReadIdentity(t) \/ ReadActivity(t) \/ Displace(t) \/ Deactivate(t)
                \/ Activate(t) \/ InsertUser(t) \/ NoteUser(t) \/ CountUsers(t) \/ ListUsers(t)
                \/ DropUser(t) \/ DeleteRow(t) \/ EndActivity(t) \/ Answer(t)
      <3>1. UNCHANGED sessionVars
        BY <2>11 DEF Begin, ReadIdentity, ReadActivity, Displace, Deactivate, Activate,
           InsertUser, NoteUser, CountUsers, ListUsers, DropUser, DeleteRow, EndActivity, Answer
      <3>2. QED
        BY <2>2, <3>1
    <2>12. QED
      BY <1>9, <2>1, <2>3, <2>4, <2>5, <2>6, <2>7, <2>8, <2>9, <2>10, <2>11 DEF Work
  <1>10. QED
    BY <1>7, <1>8, <1>9 DEF Next

LEMMA CacheStep == AInv /\ [Next]_vars => CacheTypes'
  <1> SUFFICES ASSUME AInv, [Next]_vars PROVE CacheTypes'
    OBVIOUS
  <1>1. CacheTypes /\ TypeOK /\ \A t \in Conn : job[t].user \in Username
    BY TypeParts DEF AInv, WorkTypes, Jobs
  <1>2. ASSUME UNCHANGED cacheVars PROVE CacheTypes'
    BY <1>1, <1>2 DEF CacheTypes
  <1>3. CountedDown \in Nat \cup {-1}
    BY <1>1 DEF CacheTypes, CountedDown
  <1>4. CASE StartPass \/ UNCHANGED vars
    BY <1>2, <1>4 DEF StartPass
  <1>5. CASE Restart
    BY <1>5 DEF Restart, CacheTypes
  <1>6. ASSUME NEW t \in Conn, Work(t) PROVE CacheTypes'
    <2>1. CASE Receive(t)
      BY <1>1, <1>2, <2>1, ReceiveIs DEF Starts, Take, Forbidden
    <2>2. CASE NoteUser(t)
      <3>1. user_count_cache' \in Nat \cup {-1}
        <4>1. user_count_cache' = user_count_cache
              \/ (user_count_cache >= 0 /\ user_count_cache' = user_count_cache + 1)
          BY <2>2 DEF NoteUser
        <4>2. QED
          BY <1>1, <4>1 DEF CacheTypes
      <3>2. usernameSet' \subseteq Username
        <4>1. usernameSet' = usernameSet \cup {job[t].user} \/ usernameSet' = usernameSet
          BY <2>2, OutcomeIs DEF NoteUser
        <4>2. QED
          BY <1>1, <4>1 DEF CacheTypes
      <3>3. QED
        BY <3>1, <3>2 DEF CacheTypes
    <2>3. CASE CountUsers(t)
      <3>1. user_count_cache' \in Nat
        BY <2>3, StoredIs DEF CountUsers
      <3>2. QED
        BY <1>1, <2>3, <3>1 DEF CountUsers, CacheTypes
    <2>4. CASE DropUser(t)
      BY <1>1, <1>3, <2>4 DEF DropUser, CacheTypes
    <2>5. CASE DropIdentity(t)
      BY <1>1, <1>3, <2>5 DEF DropIdentity, CacheTypes
    <2>6. CASE Begin(t) \/ ReadIdentity(t) \/ ReadActivity(t) \/ Displace(t) \/ Deactivate(t)
               \/ Forget(t) \/ UnbindIdentity(t) \/ UnbindName(t) \/ Activate(t)
               \/ BindIdentity(t) \/ BindName(t) \/ NoteLogin(t)
      <3>1. UNCHANGED cacheVars
        BY <2>6 DEF Begin, ReadIdentity, ReadActivity, Displace, Deactivate, Forget,
           UnbindIdentity, UnbindName, Activate, BindIdentity, BindName, NoteLogin
      <3>2. QED
        BY <1>2, <3>1
    <2>7. CASE InsertUser(t) \/ ListUsers(t) \/ Name(t) \/ DropName(t) \/ DeleteRow(t)
               \/ EndActivity(t) \/ EndSession(t) \/ Answer(t)
      <3>1. UNCHANGED cacheVars
        BY <2>7 DEF InsertUser, ListUsers, Name, DropName, DeleteRow, EndActivity, EndSession,
           Answer
      <3>2. QED
        BY <1>2, <3>1
    <2>8. QED
      BY <1>6, <2>1, <2>2, <2>3, <2>4, <2>5, <2>6, <2>7 DEF Work
  <1>7. QED
    BY <1>4, <1>5, <1>6 DEF Next

-----------------------------------------------------------------------------
(* The rows and the accounts they were *)

\* No row that is stored or pending is a refused one.
LEMMA Unrefused ==
  ASSUME AInv
  PROVE  \A k \in Key : db[k] \notin Refused /\ work[k] \notin Refused
  BY ValAssumption, RefusedAssumption DEF AInv, RowsAreAccounts, Accounted

\* Accounts are only ever added, those of the table an insert leaves.
LEMMA AccountsGrow ==
  ASSUME AInv, [Next]_vars
  PROVE  \/ accounts' = accounts
         \/ accounts' = accounts \cup Credentials(db') /\ \E t \in Conn : InsertUser(t)
  <1>1. TypeOK
    BY DEF AInv
  <1>2. CASE StartPass \/ Restart \/ UNCHANGED vars
    BY <1>2 DEF StartPass, Restart
  <1>3. ASSUME NEW t \in Conn, Work(t), ~InsertUser(t) PROVE accounts' = accounts
    <2>1. CASE Receive(t)
      BY <1>1, <2>1, ReceiveIs DEF Starts, Take, Forbidden
    <2>2. CASE Begin(t) \/ ReadIdentity(t) \/ ReadActivity(t) \/ Displace(t) \/ Deactivate(t)
               \/ Forget(t) \/ UnbindIdentity(t) \/ UnbindName(t) \/ Activate(t)
               \/ BindIdentity(t) \/ BindName(t) \/ NoteLogin(t)
      BY <2>2 DEF Begin, ReadIdentity, ReadActivity, Displace, Deactivate, Forget,
         UnbindIdentity, UnbindName, Activate, BindIdentity, BindName, NoteLogin
    <2>3. CASE NoteUser(t) \/ CountUsers(t) \/ ListUsers(t) \/ DropUser(t) \/ Name(t)
               \/ DropIdentity(t) \/ DropName(t) \/ DeleteRow(t) \/ EndActivity(t)
               \/ EndSession(t) \/ Answer(t)
      BY <2>3 DEF NoteUser, CountUsers, ListUsers, DropUser, Name, DropIdentity, DropName,
         DeleteRow, EndActivity, EndSession, Answer
    <2>4. QED
      BY <1>3, <2>1, <2>2, <2>3 DEF Work
  <1>4. CASE \E t \in Conn : InsertUser(t)
    BY <1>4 DEF InsertUser
  <1>5. QED
    BY <1>2, <1>3, <1>4 DEF Next

\* What activity is written to, and what else an UPDATE leaves: names, passwords
\* and identities as they were.
Keeps(table) ==
    \A k \in Key : /\ table[k] = NoVal <=> work[k] = NoVal
                   /\ Known(table[k]) = Known(work[k])
                   /\ table[k] \notin Refused

LEMMA UpdateKeeps ==
  ASSUME AInv, NEW t \in Conn, NEW a \in BOOLEAN, SetActivity(t, a)
  PROVE  \/ UNCHANGED <<db, work, holder>>
         \/ \E table \in Table : CanWrite(t) /\ WriteTo(t, table) /\ Keeps(table)
  <1>1. job[t].user \in Key /\ SqlInv
    BY UserKeyAssumption DEF AInv, TypeOK, Jobs
  <1>2. PICK v \in Val : /\ Row(t) # NoVal => v = [Row(t) EXCEPT !.active = a]
                         /\ Update(t, job[t].user, v)
    BY DEF SetActivity
  <1>3. work \in Table /\ \A k \in Key : work[k] \notin Refused
    BY <1>1, Unrefused DEF SqlInv, SqlTypeOK
  <1>4. CASE CanWrite(t) /\ work[job[t].user] = NoVal /\ WriteTo(t, work)
    <2>1. Keeps(work)
      BY <1>3 DEF Keeps
    <2>2. QED
      BY <1>3, <1>4, <2>1
  <1>5. CASE /\ CanWrite(t) /\ work[job[t].user] # NoVal /\ v \notin Refused
             /\ WriteTo(t, [work EXCEPT ![job[t].user] = v])
    <2>1. Row(t) = work[job[t].user] /\ Row(t) \in Account
      BY <1>1, <1>3, <1>5, ViewIsWork, UserKeyAssumption DEF Row, Table
    <2>2. v # NoVal /\ v.pw = Row(t).pw /\ v.id = Row(t).id
      BY <1>2, <1>5, <2>1, ValAssumption DEF Account
    <2>3. PICK table : table = [work EXCEPT ![job[t].user] = v]
      OBVIOUS
    <2>4. table \in Table
      BY <1>1, <1>3, <2>3 DEF Table
    <2>5. Keeps(table)
      BY <1>1, <1>3, <1>5, <2>1, <2>2, <2>3 DEF Keeps, Known, Table
    <2>6. QED
      BY <1>5, <2>3, <2>4, <2>5
  <1>6. QED
    BY <1>1, <1>2, <1>4, <1>5, ViewIsWork DEF Update

\* An insert that reports success has added one row that passed the CHECK.
LEMMA InsertAdds ==
  ASSUME AInv, NEW t \in Conn, InsertUser(t)
  PROVE  \/ UNCHANGED <<db, work, holder>>
         \/ \E k \in Key, v \in Val \ Refused :
               /\ work[k] = NoVal
               /\ db' = [work EXCEPT ![k] = v]
               /\ work' = db'
  <1>1. TypeOK /\ JobsFit /\ SqlInv
    BY DEF AInv
  <1>2. job[t] \in Jobs /\ Fits(job[t], "insert")
    BY <1>1 DEF TypeOK, JobsFit, InsertUser, At
  <1>3. PICK k \in Key, v \in Val : Insert(t, k, v)
    <2>1. [pw |-> job[t].pw, id |-> job[t].id, active |-> FALSE] \in Val
      BY <1>2, UserKeyAssumption DEF Fits, Account
    <2>2. job[t].user \in Key
      BY <1>2, UserKeyAssumption DEF Jobs
    <2>3. QED
      BY <2>1, <2>2 DEF InsertUser
  <1>4. CASE InsertDone(t, k, v)
    <2>1. BoundRow(t, k, v) \in Key \X Val
      BY <1>1, BoundRowType
    <2>2. PICK row \in Key \X Val : row = BoundRow(t, k, v)
      BY <2>1
    <2>3. /\ work[row[1]] = NoVal /\ row[2] \notin Refused
          /\ db' = [work EXCEPT ![row[1]] = row[2]] /\ work' = db'
      BY <1>1, <1>4, <2>2, ViewIsWork DEF InsertDone, Accepts, CommitTo
    <2>4. QED
      BY <2>2, <2>3
  <1>5. CASE InsertFailed(t, k, v)
    BY <1>5 DEF InsertFailed
  <1>6. QED
    BY <1>3, <1>4, <1>5 DEF Insert

\* A delet removes the rows its WHERE clause selects and no others.
LEMMA DeleteRemoves ==
  ASSUME AInv, NEW t \in Conn, DeleteRow(t)
  PROVE  \/ UNCHANGED <<db, work, holder>>
         \/ \E table \in Table :
               /\ CanWrite(t) /\ WriteTo(t, table)
               /\ \A k \in Key : table[k] = IF k \in Selected(t) THEN NoVal ELSE work[k]
  <1>1. SqlInv /\ work \in Table
    BY DEF AInv, SqlInv, SqlTypeOK
  <1>2. CASE RejectDelete(t)
    BY <1>2 DEF RejectDelete
  <1>3. CASE Delete(t, Selected(t)) /\ CanWrite(t)
    <2>1. PICK table : table = [k \in Key |-> IF k \in Selected(t) THEN NoVal ELSE work[k]]
      OBVIOUS
    <2>2. table \in Table
      BY <1>1, <2>1 DEF Table
    <2>3. WriteTo(t, table)
      BY <1>1, <1>3, <2>1, ViewIsWork DEF Delete
    <2>4. QED
      BY <1>3, <2>1, <2>2, <2>3
  <1>4. CASE Delete(t, Selected(t)) /\ ~CanWrite(t)
    BY <1>4 DEF Delete
  <1>5. QED
    BY <1>2, <1>3, <1>4 DEF DeleteRow

\* The other steps do not change the table.
LEMMA RowsUntouched ==
  ASSUME AInv, NEW t \in Conn, Work(t),
         ~(Deactivate(t) \/ Activate(t) \/ EndActivity(t) \/ InsertUser(t) \/ DeleteRow(t))
  PROVE  UNCHANGED <<db, work>>
  <1>1. TypeOK
    BY DEF AInv
  <1>2. CASE Receive(t)
    BY <1>1, <1>2, ReceiveIs DEF Starts, Take, Forbidden
  <1>3. CASE Begin(t) \/ ReadIdentity(t) \/ ReadActivity(t) \/ CountUsers(t) \/ ListUsers(t)
    BY <1>3 DEF Begin, ReadIdentity, ReadActivity, CountUsers, ListUsers, BeginImmediate,
       FinishSelect
  <1>4. CASE Displace(t) \/ Forget(t) \/ UnbindIdentity(t) \/ UnbindName(t) \/ BindIdentity(t)
             \/ BindName(t) \/ NoteLogin(t)
    BY <1>4 DEF Displace, Forget, UnbindIdentity, UnbindName, BindIdentity, BindName, NoteLogin
  <1>5. CASE NoteUser(t) \/ DropUser(t) \/ Name(t) \/ DropIdentity(t) \/ DropName(t)
             \/ EndSession(t) \/ Answer(t)
    BY <1>5 DEF NoteUser, DropUser, Name, DropIdentity, DropName, EndSession, Answer
  <1>6. QED
    BY <1>2, <1>3, <1>4, <1>5 DEF Work

\* A table that a statement leaves, committed or pending.
LEMMA WrittenRows ==
  ASSUME AInv, NEW t \in Conn, NEW table \in Table, WriteTo(t, table), accounts' = accounts,
         \A k \in Key : table[k] # NoVal =>
             /\ work[k] # NoVal /\ Known(table[k]) = Known(work[k]) /\ table[k] \notin Refused
  PROVE  RowsAreAccounts'
  <1>1. RowsAreAccounts
    BY DEF AInv
  <1>2. Accounted(table)
    BY <1>1 DEF RowsAreAccounts, Accounted, Known
  <1>3. CASE db' = table /\ work' = table
    BY <1>2, <1>3 DEF RowsAreAccounts, Accounted
  <1>4. CASE db' = db /\ work' = table
    BY <1>1, <1>2, <1>4 DEF RowsAreAccounts, Accounted
  <1>5. QED
    BY <1>3, <1>4 DEF WriteTo, CommitTo, KeepOpen

LEMMA RowsStep == AInv /\ [Next]_vars => RowsAreAccounts'
  <1> SUFFICES ASSUME AInv, [Next]_vars PROVE RowsAreAccounts'
    OBVIOUS
  <1>1. RowsAreAccounts /\ work \in Table /\ db \in Table
    BY DEF AInv, SqlInv, SqlTypeOK
  <1>2. ASSUME UNCHANGED <<db, work>> PROVE RowsAreAccounts'
    BY <1>1, <1>2, AccountsGrow DEF RowsAreAccounts, Accounted
  <1>3. CASE StartPass \/ UNCHANGED vars
    BY <1>2, <1>3 DEF StartPass
  <1>4. CASE Restart
    BY <1>1, <1>4 DEF Restart, Reopen, RowsAreAccounts, Accounted
  <1>5. ASSUME NEW t \in Conn, NEW a \in BOOLEAN, SetActivity(t, a), accounts' = accounts
        PROVE  RowsAreAccounts'
    <2>1. CASE UNCHANGED <<db, work, holder>>
      BY <1>2, <2>1
    <2>2. ASSUME NEW table \in Table, WriteTo(t, table), Keeps(table) PROVE RowsAreAccounts'
      BY <1>5, <2>2, WrittenRows DEF Keeps
    <2>3. QED
      BY <1>5, <2>1, <2>2, UpdateKeeps
  <1>6. ASSUME NEW t \in Conn, DeleteRow(t) PROVE RowsAreAccounts'
    <2>1. CASE UNCHANGED <<db, work, holder>>
      BY <1>2, <2>1
    <2>2. ASSUME NEW table \in Table, WriteTo(t, table),
                 \A k \in Key : table[k] = IF k \in Selected(t) THEN NoVal ELSE work[k]
          PROVE  RowsAreAccounts'
      <3>1. accounts' = accounts
        BY <1>6 DEF DeleteRow
      <3>2. \A k \in Key : table[k] # NoVal => table[k] = work[k] /\ work[k] \notin Refused
        BY <2>2, Unrefused
      <3>3. QED
        BY <2>2, <3>1, <3>2, WrittenRows
    <2>3. QED
      BY <1>6, <2>1, <2>2, DeleteRemoves
  <1>7. ASSUME NEW t \in Conn, InsertUser(t) PROVE RowsAreAccounts'
    <2>1. CASE UNCHANGED <<db, work, holder>>
      BY <1>2, <2>1
    <2>2. ASSUME NEW k \in Key, NEW v \in Val \ Refused, db' = [work EXCEPT ![k] = v], work' = db'
          PROVE  RowsAreAccounts'
      <3>1. accounts' = accounts \cup Credentials(db')
        BY <1>7 DEF InsertUser
      <3>2. \A u \in Key : db'[u] \notin Refused
        BY <1>1, <2>2, Unrefused DEF Table
      <3>3. QED
        BY <2>2, <3>1, <3>2 DEF RowsAreAccounts, Accounted, Credentials
    <2>3. QED
      BY <1>7, <2>1, <2>2, InsertAdds
  <1>8. ASSUME NEW t \in Conn, Work(t) PROVE RowsAreAccounts'
    <2>1. CASE Deactivate(t) \/ Activate(t) \/ EndActivity(t)
      BY <1>5, <2>1 DEF Deactivate, Activate, EndActivity
    <2>2. QED
      BY <1>2, <1>6, <1>7, <1>8, <2>1, RowsUntouched
  <1>9. QED
    BY <1>3, <1>4, <1>8 DEF Next

-----------------------------------------------------------------------------
(* The rest of the types *)

LEMMA RestStep == AInv /\ [Next]_vars => RestTypes'
  <1> SUFFICES ASSUME AInv, [Next]_vars PROVE RestTypes'
    OBVIOUS
  <1>1. RestTypes /\ TypeOK
    BY TypeParts DEF AInv
  <1>2. accounts' \subseteq Username \X Password \X Identity
    <2>1. db' \in Table /\ \A k \in Key : db'[k] \notin Refused
      <3>1. SqlInv' /\ RowsAreAccounts'
        BY SqlPart, RowsStep DEF AInv
      <3>2. QED
        BY <3>1, ValAssumption, RefusedAssumption DEF SqlInv, SqlTypeOK, RowsAreAccounts, Accounted
    <2>2. Credentials(db') \subseteq Username \X Password \X Identity
      BY <2>1, CredentialsIn
    <2>3. QED
      BY <1>1, <2>2, AccountsGrow DEF RestTypes
  <1>3. ASSUME UNCHANGED <<requests, todo, terminated>> PROVE RestTypes'
    BY <1>1, <1>2, <1>3 DEF RestTypes
  <1>4. CASE UNCHANGED vars
    BY <1>3, <1>4
  <1>5. CASE StartPass
    BY <1>1, <1>2, <1>5 DEF StartPass, RestTypes
  <1>6. CASE Restart
    BY <1>1, <1>2, <1>6 DEF Restart, RestTypes
  <1>7. ASSUME NEW t \in Conn, Work(t) PROVE RestTypes'
    <2>1. CASE Receive(t)
      <3>1. ASSUME NEW fd \in Fd, Forbidden(t, fd) PROVE RestTypes'
        BY <1>1, <1>2, <3>1 DEF Forbidden, RestTypes
      <3>2. ASSUME NEW fd \in Fd, NEW j \in Jobs, NEW p \in Steps, Starts(t, fd, j, p)
            PROVE  RestTypes'
        <4>1. requests' \in 0 .. MaxRequests
          BY <1>1, <3>2, BoundAssumption DEF Starts, Take, RestTypes
        <4>2. todo' \in [Conn -> SUBSET Fd] /\ terminated' = terminated
          BY <1>1, <3>2 DEF Starts, Take, RestTypes
        <4>3. QED
          BY <1>1, <1>2, <4>1, <4>2 DEF RestTypes
      <3>3. QED
        BY <1>1, <2>1, <3>1, <3>2, ReceiveIs
    <2>2. CASE ReadActivity(t)
      BY <1>1, <1>2, <2>2 DEF ReadActivity, RestTypes
    <2>3. CASE Begin(t) \/ ReadIdentity(t) \/ Displace(t) \/ Deactivate(t)
               \/ Forget(t) \/ UnbindIdentity(t) \/ UnbindName(t) \/ Activate(t)
               \/ BindIdentity(t) \/ BindName(t) \/ NoteLogin(t)
      <3>1. UNCHANGED <<requests, todo, terminated>>
        BY <2>3 DEF Begin, ReadIdentity, Displace, Deactivate, Forget,
           UnbindIdentity, UnbindName, Activate, BindIdentity, BindName, NoteLogin
      <3>2. QED
        BY <1>3, <3>1
    <2>4. CASE InsertUser(t) \/ NoteUser(t) \/ CountUsers(t) \/ ListUsers(t) \/ DropUser(t)
               \/ Name(t) \/ DropIdentity(t) \/ DropName(t) \/ DeleteRow(t) \/ EndActivity(t)
               \/ EndSession(t) \/ Answer(t)
      <3>1. UNCHANGED <<requests, todo, terminated>>
        BY <2>4 DEF InsertUser, NoteUser, CountUsers, ListUsers, DropUser, Name, DropIdentity,
           DropName, DeleteRow, EndActivity, EndSession, Answer
      <3>2. QED
        BY <1>3, <3>1
    <2>5. QED
      BY <1>7, <2>1, <2>2, <2>3, <2>4 DEF Work
  <1>8. QED
    BY <1>4, <1>5, <1>6, <1>7 DEF Next

-----------------------------------------------------------------------------
(* Identities come from accounts *)

\* How a step changes bindIdentity: not at all, by erasing, or by what a login
\* read.
LEMMA IdentityChange ==
  ASSUME AInv, [Next]_vars
  PROVE  \/ bindIdentity' = bindIdentity
         \/ bindIdentity' = [fd \in Fd |-> Unbound]
         \/ \E x : bindIdentity' = Erased(bindIdentity, x, Unbound)
         \/ \E t \in Conn :
               /\ job[t].cmd = "login"
               /\ bindIdentity' = [bindIdentity EXCEPT ![job[t].fd] = job[t].id]
  <1>1. CASE StartPass \/ Restart \/ UNCHANGED vars
    BY <1>1 DEF StartPass, Restart
  <1>2. ASSUME NEW t \in Conn, Work(t), ~BindIdentity(t)
        PROVE  \/ bindIdentity' = bindIdentity
               \/ \E x : bindIdentity' = Erased(bindIdentity, x, Unbound)
    <2>1. CASE Receive(t)
      <3>1. TypeOK
        BY DEF AInv
      <3>2. QED
        BY <2>1, <3>1, ReceiveIs DEF Starts, Take, Forbidden
    <2>2. CASE UnbindIdentity(t)
      BY <2>2, OutcomeIs DEF UnbindIdentity
    <2>3. CASE DropIdentity(t)
      BY <2>3 DEF DropIdentity
    <2>4. CASE EndSession(t)
      BY <2>4, OutcomeIs DEF EndSession
    <2>5. CASE Begin(t) \/ ReadIdentity(t) \/ ReadActivity(t) \/ Displace(t) \/ Deactivate(t)
               \/ Forget(t) \/ UnbindName(t) \/ Activate(t) \/ BindName(t) \/ NoteLogin(t)
      BY <2>5 DEF Begin, ReadIdentity, ReadActivity, Displace, Deactivate, Forget, UnbindName,
         Activate, BindName, NoteLogin
    <2>6. CASE InsertUser(t) \/ NoteUser(t) \/ CountUsers(t) \/ ListUsers(t) \/ DropUser(t)
               \/ Name(t) \/ DropName(t) \/ DeleteRow(t) \/ EndActivity(t) \/ Answer(t)
      BY <2>6 DEF InsertUser, NoteUser, CountUsers, ListUsers, DropUser, Name, DropName,
         DeleteRow, EndActivity, Answer
    <2>7. QED
      BY <1>2, <2>1, <2>2, <2>3, <2>4, <2>5, <2>6 DEF Work
  <1>3. ASSUME NEW t \in Conn, BindIdentity(t)
        PROVE  \/ bindIdentity' = bindIdentity
               \/ /\ job[t].cmd = "login"
                  /\ bindIdentity' = [bindIdentity EXCEPT ![job[t].fd] = job[t].id]
    <2>1. Fits(job[t], "bind identity")
      BY <1>3 DEF AInv, JobsFit, BindIdentity, At
    <2>2. job[t].cmd = "login"
      BY <2>1 DEF Fits, LoginOnly
    <2>3. QED
      BY <1>3, <2>2, OutcomeIs DEF BindIdentity
  <1>4. QED
    BY <1>1, <1>2, <1>3 DEF Next

LEMMA BoundStep == AInv /\ [Next]_vars => BoundIdentityExists'
  <1> SUFFICES ASSUME AInv, [Next]_vars PROVE BoundIdentityExists'
    OBVIOUS
  <1>1. /\ BoundIdentityExists /\ ReadIsAccount /\ Unbound \notin Identity
        /\ DOMAIN bindIdentity = Fd /\ accounts \subseteq accounts'
    BY AccountsGrow, NamesAssumption DEF AInv, TypeOK
  <1>2. CASE bindIdentity' = bindIdentity \/ bindIdentity' = [fd \in Fd |-> Unbound]
    BY <1>1, <1>2 DEF BoundIdentityExists
  <1>3. ASSUME NEW x, bindIdentity' = Erased(bindIdentity, x, Unbound)
        PROVE  BoundIdentityExists'
    BY <1>1, <1>3 DEF BoundIdentityExists, Erased
  <1>4. ASSUME NEW t \in Conn, job[t].cmd = "login",
               bindIdentity' = [bindIdentity EXCEPT ![job[t].fd] = job[t].id]
        PROVE  BoundIdentityExists'
    <2>1. job[t].id \in Identity => \E a \in accounts : a[3] = job[t].id
      BY <1>1, <1>4 DEF ReadIsAccount, Carries
    <2>2. QED
      BY <1>1, <1>4, <2>1 DEF BoundIdentityExists
  <1>5. QED
    BY <1>2, <1>3, <1>4, IdentityChange

LEMMA AStepInv == AInv /\ [Next]_vars => AInv'
  <1> SUFFICES ASSUME AInv, [Next]_vars PROVE AInv'
    OBVIOUS
  <1>1. SqlInv'
    BY SqlPart DEF AInv
  <1>2. WorkTypes' /\ JobsFit' /\ ReadIsAccount'
    BY WorkStep DEF WorkPart
  <1>3. TypeOK'
    BY <1>1, <1>2, TypeParts, SessionStep, CacheStep, RestStep DEF SqlInv
  <1>4. QED
    BY <1>1, <1>2, <1>3, RowsStep, BoundStep DEF AInv

-----------------------------------------------------------------------------
(* Theorems *)

\* The jobs, replies, session maps and caches of the user side keep their types.
THEOREM AccountTypes == Spec => []TypeOK
  <1>1. AInv => TypeOK
    BY DEF AInv
  <1>2. QED
    BY AInitInv, AStepInv, <1>1, PTL DEF Spec

\* Rights come from accounts, however many workers race for the session maps.
THEOREM IdentitiesExist == Spec => []BoundIdentityExists
  <1>1. AInv => BoundIdentityExists
    BY DEF AInv
  <1>2. QED
    BY AInitInv, AStepInv, <1>1, PTL DEF Spec

\* The handlers use the database layer by its calls alone: whatever they do to
\* the table is a behaviour of SqlConn.
THEOREM AccountsUseDatabase == Spec => SqlSpec
  <1>1. Init => SqlInit
    BY DEF Init
  <1>2. AInv /\ [Next]_vars => [SqlNext]_sqlVars
    BY NextIsCall DEF AInv
  <1>3. QED
    BY <1>1, <1>2, AInitInv, AStepInv, PTL DEF Spec, SqlSpec

\* And hence one of Store: to the handlers the USER table has one writer at a time.
THEOREM AccountsStore == Spec => ImplementsStore
  BY AccountsUseDatabase, SqlImplementsStore, PTL

\* A committed account keeps its password and identity, and stays, until a
\* deleteUser names it.
THEOREM AccountsStay == Spec => AccountChangesByDelete
  <1> DEFINE Stays == \A u \in Key : db[u] # NoVal /\ Known(db'[u]) # Known(db[u]) =>
                         \/ work[u] = NoVal
                         \/ \E t \in Conn : /\ At(t, "delete")
                                            /\ job[t].cmd = "delete user"
                                            /\ job[t].user = u
  <1>1. ASSUME AInv, [Next]_vars PROVE [Stays]_vars
    <2>1. /\ work \in Table
          /\ \A u \in Key : work[u] # NoVal => Known(work[u]) = Known(db[u])
      BY <1>1 DEF AInv, SqlInv, SqlTypeOK, RowsAreAccounts
    <2>2. CASE db' = db
      BY <2>2
    <2>3. CASE StartPass \/ Restart \/ UNCHANGED vars
      BY <2>2, <2>3 DEF StartPass, Restart, Reopen
    <2>4. ASSUME NEW t \in Conn, NEW a \in BOOLEAN, SetActivity(t, a) PROVE Stays
      BY <1>1, <2>1, <2>4, UpdateKeeps DEF Keeps, WriteTo, CommitTo, KeepOpen
    <2>5. ASSUME NEW t \in Conn, InsertUser(t) PROVE Stays
      BY <1>1, <2>1, <2>5, InsertAdds DEF Table
    <2>6. ASSUME NEW t \in Conn, DeleteRow(t) PROVE Stays
      <3>1. \A u \in Selected(t) :
               At(t, "delete") /\ job[t].cmd = "delete user" /\ job[t].user = u
        BY <2>6 DEF DeleteRow, Selected
      <3>2. CASE UNCHANGED <<db, work, holder>>
        BY <2>2, <3>2
      <3>3. ASSUME NEW table \in Table, WriteTo(t, table),
                   \A k \in Key : table[k] = IF k \in Selected(t) THEN NoVal ELSE work[k]
            PROVE  Stays
        BY <2>1, <3>1, <3>3 DEF WriteTo, CommitTo, KeepOpen
      <3>4. QED
        BY <1>1, <2>6, <3>2, <3>3, DeleteRemoves
    <2>7. ASSUME NEW t \in Conn, Work(t) PROVE Stays
      <3>1. CASE Deactivate(t) \/ Activate(t) \/ EndActivity(t)
        BY <2>4, <3>1 DEF Deactivate, Activate, EndActivity
      <3>2. QED
        BY <1>1, <2>2, <2>5, <2>6, <2>7, <3>1, RowsUntouched
    <2>8. QED
      BY <1>1, <2>3, <2>7 DEF Next
  <1>2. QED
    BY AInitInv, AStepInv, <1>1, PTL DEF Spec, AccountChangesByDelete

-----------------------------------------------------------------------------
(* A deletion that was answered with 200 *)

\* A worker's step moves no other worker's handler.
LEMMA MovesOwn ==
  ASSUME AInv, NEW t \in Conn, Work(t), NEW u \in Conn \ {t}
  PROVE  pc'[u] = pc[u]
  <1>1. pc \in [Conn -> Steps] /\ TypeOK
    BY TypeParts DEF AInv, WorkTypes
  <1>2. CASE Receive(t)
    BY <1>1, <1>2, ReceiveIs DEF Starts, Take, Forbidden
  <1>3. CASE Begin(t) \/ ReadIdentity(t) \/ ReadActivity(t) \/ Displace(t) \/ Deactivate(t)
             \/ Forget(t) \/ UnbindIdentity(t) \/ UnbindName(t) \/ Activate(t)
             \/ BindIdentity(t) \/ BindName(t) \/ NoteLogin(t)
    BY <1>1, <1>3 DEF Begin, ReadIdentity, ReadActivity, Displace, Deactivate, Forget,
       UnbindIdentity, UnbindName, Activate, BindIdentity, BindName, NoteLogin, Goto
  <1>4. CASE InsertUser(t) \/ NoteUser(t) \/ CountUsers(t) \/ ListUsers(t) \/ DropUser(t)
             \/ Name(t) \/ DropIdentity(t) \/ DropName(t) \/ DeleteRow(t) \/ EndActivity(t)
             \/ EndSession(t) \/ Answer(t)
    BY <1>1, <1>4 DEF InsertUser, NoteUser, CountUsers, ListUsers, DropUser, Name, DropIdentity,
       DropName, DeleteRow, EndActivity, EndSession, Answer, Goto
  <1>5. QED
    BY <1>2, <1>3, <1>4 DEF Work

\* Only a delet takes a handler that stands at its delet to the answer.
LEMMA DeleteIsOwn ==
  ASSUME AInv, [Next]_vars, NEW t \in Conn, pc[t] = "delete", pc'[t] = "answer"
  PROVE  DeleteRow(t)
  <1>1. TypeOK
    BY DEF AInv
  <1>2. Work(t)
    BY MovesOwn DEF Next, StartPass, Restart
  <1>3. ~Receive(t)
    BY <1>1, ReceiveIs DEF Starts, Take, Forbidden, Idle
  <1>4. ~(Begin(t) \/ ReadIdentity(t) \/ ReadActivity(t) \/ Displace(t) \/ Deactivate(t)
             \/ Forget(t) \/ UnbindIdentity(t) \/ UnbindName(t) \/ Activate(t)
             \/ BindIdentity(t) \/ BindName(t) \/ NoteLogin(t))
    BY DEF Begin, ReadIdentity, ReadActivity, Displace, Deactivate, Forget, UnbindIdentity,
       UnbindName, Activate, BindIdentity, BindName, NoteLogin, At, DbSteps
  <1>5. ~(InsertUser(t) \/ NoteUser(t) \/ CountUsers(t) \/ ListUsers(t) \/ DropUser(t)
             \/ Name(t) \/ DropIdentity(t) \/ DropName(t) \/ EndActivity(t)
             \/ EndSession(t) \/ Answer(t))
    BY DEF InsertUser, NoteUser, CountUsers, ListUsers, DropUser, Name, DropIdentity,
       DropName, EndActivity, EndSession, Answer, At
  <1>6. QED
    BY <1>2, <1>3, <1>4, <1>5 DEF Work

Denies(answer) == answer = Status(403) \/ answer = Status(404)

LEMMA DenialIs == ASSUME NEW answer, Denies(answer) PROVE answer.code # 200
  BY DEF Denies, Status

\* A delet that returned an error is answered 403 or 404.
LEMMA ErrorAnswered ==
  ASSUME AInv, NEW t \in Conn, DeleteRow(t), rc'[t] # "ok"
  PROVE  Denies(reply'[t])
  <1>1. reply \in [Conn -> Replies]
    BY TypeParts DEF AInv, WorkTypes
  <1>2. Settle(t, Status(IF reply[t].code = 200 THEN 404 ELSE 403))
    BY DEF DeleteRow
  <1>3. PICK k \in {403, 404} : Settle(t, Status(k))
    BY <1>2
  <1>4. reply'[t] = Status(k)
    BY <1>1, <1>3 DEF Settle
  <1>5. QED
    BY <1>3, <1>4 DEF Denies

\* One that returned none has committed that its rows are gone.
LEMMA OkIsGone ==
  ASSUME AInv, NEW t \in Conn, DeleteRow(t), NEW k \in Selected(t), k \in Key
  PROVE  rc'[t] = "error" \/ db'[k] = NoVal
  <1>1. rc \in [Conn -> {"ok", "error"}]
    BY DEF AInv, SqlInv, SqlTypeOK
  <1>2. CASE RejectDelete(t) \/ (Delete(t, Selected(t)) /\ ~CanWrite(t))
    <2>1. rc' = [rc EXCEPT ![t] = "error"]
      BY <1>2 DEF RejectDelete, Delete, Return
    <2>2. QED
      BY <1>1, <2>1
  <1>3. CASE Delete(t, Selected(t)) /\ CanWrite(t)
    <2>1. /\ WriteTo(t, [u \in Key |-> IF u \in Selected(t) THEN NoVal ELSE View(t)[u]])
          /\ rc' = [rc EXCEPT ![t] = IF holder = t /\ stmt[t] # "busy" THEN "ok" ELSE "error"]
      BY <1>3 DEF Delete, Return
    <2>2. CASE stmt[t] = "busy"
      BY <1>1, <2>1, <2>2
    <2>3. CASE stmt[t] # "busy"
      <3>1. db' = [u \in Key |-> IF u \in Selected(t) THEN NoVal ELSE View(t)[u]]
        BY <2>1, <2>3 DEF WriteTo, CommitTo
      <3>2. QED
        BY <3>1
    <2>4. QED
      BY <2>2, <2>3
  <1>4. QED
    BY <1>2, <1>3 DEF DeleteRow

\* Another answer is that of a delet that returned none.
LEMMA AnsweredGone ==
  ASSUME AInv, NEW t \in Conn, DeleteRow(t), job[t].cmd = "delete user",
         ~Denies(reply'[t])
  PROVE  db'[job[t].user] = NoVal
  <1>1. rc'[t] = "ok"
    BY ErrorAnswered
  <1>2. job[t].user \in Key /\ job[t].user \in Selected(t)
    BY TypeParts, UserKeyAssumption DEF AInv, WorkTypes, Jobs, Selected
  <1>3. QED
    BY <1>1, <1>2, OkIsGone

\* Who is told that a user is deleted can rely on it: the row is gone from the
\* committed table, whatever transactions were pending.
THEOREM DeletedIsGone == Spec => DeletedUserIsGone
  <1> DEFINE Gone == \A t \in Conn :
                        At(t, "delete") /\ At(t, "answer")' /\ job[t].cmd = "delete user"
                        /\ reply'[t].code = 200 => db'[job[t].user] = NoVal
  <1>1. ASSUME AInv, [Next]_vars PROVE [Gone]_vars
    <2>1. ASSUME NEW t \in Conn, reply'[t].code = 200
          PROVE  ~Denies(reply'[t])
      BY <2>1, DenialIs
    <2>2. QED
      BY <1>1, <2>1, DeleteIsOwn, AnsweredGone DEF At
  <1>2. QED
    BY AInitInv, AStepInv, <1>1, PTL DEF Spec, DeletedUserIsGone

-----------------------------------------------------------------------------
(* A server with one worker *)

\* The two maps know the same descriptors, and the identity is the bound user's.
Agree(fd) ==
    /\ bindIdentity[fd] = Unbound <=> bindUsername[fd] = Unbound
    /\ bindIdentity[fd] \in Identity =>
         \E p \in Password : <<bindUsername[fd], p, bindIdentity[fd]>> \in accounts

\* t is between its change of the one map and its change of the other.
Halfway(t, fd) ==
    \/ pc[t] = "unbind name" /\ fd = job[t].source
    \/ pc[t] \in {"bind name", "drop name"} /\ fd = job[t].fd

\* What holds between the steps of the only worker: a login's second SELECT finds
\* the row of the first, and maps differ only for the session it is changing.
Serial(t) ==
    /\ pc[t] = "activity" => Matches(t)
    /\ pc[t] = "unbind name" /\ job[t].source \in Fd => bindIdentity[job[t].source] = Unbound
    /\ pc[t] = "bind name" => bindIdentity[job[t].fd] = job[t].id
    /\ pc[t] = "drop name" => bindIdentity[job[t].fd] = Unbound
    /\ pc[t] \in {"name", "drop identity"} => bindIdentity[job[t].fd] # Unbound
    /\ \A fd \in Fd : Halfway(t, fd) \/ Agree(fd)

\* The steps whose place in the handler says something of the maps or rows.
Telling == {"activity", "unbind name", "bind name", "drop name", "name", "drop identity"}

\* Nobody is there to lose a race to.
LEMMA NoRace ==
  ASSUME NEW t, Conn = {t}, NEW steps, NEW result, NEW lost
  PROVE  Outcome(t, steps, result, lost) = {result} /\ ~Racing(t, steps)
  BY DEF Outcome, Racing

LEMMA Unraced ==
  ASSUME NEW t, Conn = {t}, NEW steps, NEW result, NEW lost,
         NEW x \in Outcome(t, steps, result, lost)
  PROVE  x = result
  BY NoRace

\* And nobody else has the lock: t sees the table it left.
LEMMA AloneView ==
  ASSUME NEW t, Conn = {t}
  PROVE  /\ SqlInv => View(t) = work
         /\ SqlInv' => View(t)' = work'
  BY DEF SqlInv, SqlTypeOK, View

\* A step that leaves both maps and comes to no telling place.
LEMMA QuietStep ==
  ASSUME AInv, NEW t \in Conn, Serial(t), accounts \subseteq accounts',
         UNCHANGED <<bindIdentity, bindUsername>>,
         pc[t] \notin {"unbind name", "bind name", "drop name"}, pc'[t] \notin Telling
  PROVE  Serial(t)'
  <1>1. \A fd \in Fd : Agree(fd)
    BY DEF Serial, Halfway
  <1>2. \A fd \in Fd : Agree(fd)'
    BY <1>1 DEF Agree
  <1>3. QED
    BY <1>2 DEF Serial, Telling

\* Every event the worker takes: what Receive lets a session do.
LEMMA ReceiveSerial ==
  ASSUME AInv, NEW t \in Conn, Conn = {t}, Serial(t), Receive(t)
  PROVE  Serial(t)'
  <1>1. WorkTypes /\ TypeOK /\ accounts \subseteq accounts'
    BY TypeParts, ReceiveIs DEF AInv, Starts, Take, Forbidden
  <1>2. pc[t] = "idle" /\ UNCHANGED <<bindIdentity, bindUsername, accounts>>
    BY <1>1, ReceiveIs DEF Starts, Take, Forbidden, Idle
  <1>3. CASE pc'[t] \notin Telling
    BY <1>1, <1>2, <1>3, QuietStep
  <1>4. ASSUME NEW fd \in Fd, NEW cmd, NEW u, NEW p, NEW i, Take(t, fd, cmd, u, p, i, "name"),
               bindIdentity[fd] # Unbound
        PROVE  Serial(t)'
    <2>1. pc'[t] = "name" /\ job'[t].fd = fd
      BY <1>1, <1>4 DEF Take, WorkTypes
    <2>2. \A f \in Fd : Agree(f)'
      BY <1>2 DEF Serial, Halfway, Agree
    <2>3. QED
      BY <1>2, <1>4, <2>1, <2>2 DEF Serial
  <1>5. ASSUME NEW fd \in Fd, Logout(t, fd) PROVE Serial(t)'
    <2>1. bindUsername[fd] # Unbound
      <3>1. SeenName(t, fd) = {bindUsername[fd]}
        BY NoRace DEF SeenName
      <3>2. QED
        BY <1>5, <3>1 DEF Logout
    <2>2. bindIdentity[fd] # Unbound
      BY <1>2, <2>1 DEF Serial, Halfway, Agree
    <2>3. QED
      BY <1>4, <1>5, <2>2 DEF Logout
  <1>6. ASSUME NEW fd \in Fd, NEW p \in Password, DeleteUserSelf(t, fd, p) PROVE Serial(t)'
    <2>1. bindIdentity[fd] # Unbound
      <3>1. SeenIdentity(t, fd) = {bindIdentity[fd]}
        BY NoRace DEF SeenIdentity
      <3>2. QED
        BY <1>6, <3>1 DEF DeleteUserSelf
    <2>2. QED
      BY <1>4, <1>6, <2>1 DEF DeleteUserSelf
  <1>7. ASSUME NEW fd \in Fd, NEW cmd, NEW u, NEW p, NEW i,
               NEW q \in {"identity", "insert", "count", "list", "drop user"},
               Take(t, fd, cmd, u, p, i, q)
        PROVE  pc'[t] \notin Telling
    BY <1>1, <1>7 DEF Take, WorkTypes, Telling
  <1>8. ASSUME NEW fd \in Fd, Forbidden(t, fd) PROVE pc'[t] \notin Telling
    BY <1>2, <1>8 DEF Forbidden, Telling
  <1>9. ASSUME NEW fd \in Fd, GetUsers(t, fd) \/ GetTeachers(t, fd) PROVE pc'[t] \notin Telling
    BY <1>7, <1>9 DEF GetUsers, GetTeachers
  <1>10. ASSUME NEW fd \in Fd, NEW u, DeleteUser(t, fd, u) PROVE pc'[t] \notin Telling
    BY <1>7, <1>10 DEF DeleteUser
  <1>11. ASSUME NEW fd \in Fd, NEW u, NEW p,
                Login(t, fd, u, p) \/ \E i \in Identity \cup BadIdentity : Register(t, fd, u, p, i)
         PROVE  pc'[t] \notin Telling
    BY <1>7, <1>11 DEF Login, Register
  <1>12. QED
    BY <1>3, <1>5, <1>6, <1>8, <1>9, <1>10, <1>11 DEF Receive

\* A login: its second look at the row, and the bindings it moves.
LEMMA LoginSerial ==
  ASSUME AInv, AInv', NEW t \in Conn, Conn = {t}, Serial(t), accounts' = accounts,
         ReadIdentity(t) \/ ReadActivity(t) \/ Displace(t) \/ Deactivate(t) \/ Forget(t)
         \/ UnbindIdentity(t) \/ UnbindName(t) \/ Activate(t) \/ BindIdentity(t) \/ BindName(t)
         \/ NoteLogin(t)
  PROVE  Serial(t)'
  <1>1. /\ WorkTypes /\ ReadIsAccount /\ SqlInv /\ SqlInv'
        /\ pc \in [Conn -> Steps] /\ job \in [Conn -> Jobs]
        /\ DOMAIN bindIdentity = Fd /\ DOMAIN bindUsername = Fd
    BY TypeParts DEF AInv, WorkTypes, TypeOK
  <1>2. Fits(job[t], pc[t]) /\ job[t] \in Jobs
    BY <1>1 DEF AInv, JobsFit
  <1>3. ASSUME UNCHANGED <<bindIdentity, bindUsername>>,
               pc[t] \notin {"unbind name", "bind name", "drop name"}, pc'[t] \notin Telling
        PROVE  Serial(t)'
    BY <1>3, QuietStep
  <1>4. CASE ReadIdentity(t) /\ Matches(t)
    <2>1. /\ pc[t] = "identity" /\ pc'[t] = "activity"
          /\ job' = [job EXCEPT ![t].id = Row(t).id]
          /\ UNCHANGED <<db, work, holder, bindIdentity, bindUsername>>
      BY <1>1, <1>4 DEF ReadIdentity, At, Goto, FinishSelect
    <2>2. job'[t].user = job[t].user /\ job'[t].pw = job[t].pw
      BY <1>1, <2>1 DEF Jobs
    <2>3. Matches(t)'
      BY <1>4, <2>1, <2>2 DEF Matches, Row, View
    <2>4. \A fd \in Fd : Agree(fd)'
      BY <2>1 DEF Serial, Halfway, Agree
    <2>5. QED
      BY <2>1, <2>3, <2>4 DEF Serial
  <1>5. CASE ReadIdentity(t) /\ ~Matches(t)
    <2>1. pc[t] = "identity" /\ pc'[t] = "bind identity" /\ UNCHANGED <<bindIdentity, bindUsername>>
      BY <1>1, <1>5 DEF ReadIdentity, At, Goto
    <2>2. QED
      BY <1>3, <2>1 DEF Telling
  <1>6. CASE ReadActivity(t)
    <2>1. pc[t] = "activity" /\ Matches(t) /\ UNCHANGED <<bindIdentity, bindUsername>>
      BY <1>6 DEF ReadActivity, At, Serial
    <2>2. pc'[t] \in {"displace", "activate"}
      BY <1>1, <1>6, <2>1 DEF ReadActivity, Goto
    <2>3. QED
      BY <1>3, <2>1, <2>2 DEF Telling
  <1>7. CASE Displace(t) \/ Deactivate(t) \/ Forget(t)
    <2>1. /\ pc[t] \in {"displace", "deactivate", "forget"}
          /\ pc'[t] \in {"deactivate", "forget", "unbind identity"}
          /\ UNCHANGED <<bindIdentity, bindUsername>>
      BY <1>1, <1>7 DEF Displace, Deactivate, Forget, At, Goto
    <2>2. QED
      BY <1>3, <2>1 DEF Telling
  <1>8. CASE Activate(t)
    <2>1. pc[t] = "activate" /\ pc'[t] = "bind identity" /\ UNCHANGED <<bindIdentity, bindUsername>>
      BY <1>1, <1>8 DEF Activate, At, Goto
    <2>2. QED
      BY <1>3, <2>1 DEF Telling
  <1>9. CASE NoteLogin(t)
    <2>1. pc[t] = "note login" /\ pc'[t] = "answer" /\ UNCHANGED <<bindIdentity, bindUsername>>
      BY <1>1, <1>9 DEF NoteLogin, At, Goto
    <2>2. QED
      BY <1>3, <2>1 DEF Telling
  <1>10. CASE UnbindIdentity(t)
    <2>1. /\ pc[t] = "unbind identity" /\ pc'[t] = "unbind name" /\ UNCHANGED <<job, bindUsername>>
          /\ bindIdentity' = Erased(bindIdentity, job[t].source, Unbound)
      <3>1. bindIdentity' = Erased(bindIdentity, job[t].source, Unbound)
        BY <1>10, Unraced DEF UnbindIdentity
      <3>2. QED
        BY <1>1, <1>10, <3>1 DEF UnbindIdentity, At, Goto
    <2>2. job[t].source \in Fd => bindIdentity'[job[t].source] = Unbound
      BY <1>1, <2>1 DEF Erased
    <2>3. \A fd \in Fd : fd # job[t].source => Agree(fd)'
      BY <1>1, <2>1 DEF Serial, Halfway, Agree, Erased
    <2>4. QED
      BY <2>1, <2>2, <2>3 DEF Serial, Halfway
  <1>11. CASE UnbindName(t)
    <2>1. /\ pc[t] = "unbind name" /\ pc'[t] = "activate" /\ UNCHANGED <<job, bindIdentity>>
          /\ bindUsername' = Erased(bindUsername, job[t].source, Unbound)
      <3>1. bindUsername' = Erased(bindUsername, job[t].source, Unbound)
        BY <1>11, Unraced DEF UnbindName
      <3>2. QED
        BY <1>1, <1>11, <3>1 DEF UnbindName, At, Goto
    <2>2. \A fd \in Fd : fd # job[t].source => Agree(fd)'
      BY <1>1, <2>1 DEF Serial, Halfway, Agree, Erased
    <2>3. job[t].source \in Fd => Agree(job[t].source)'
      BY <1>1, <2>1, NamesAssumption DEF Serial, Agree, Erased
    <2>4. QED
      BY <2>1, <2>2, <2>3 DEF Serial
  <1>12. CASE BindIdentity(t)
    <2>1. /\ pc[t] = "bind identity" /\ pc'[t] = "bind name" /\ UNCHANGED <<job, bindUsername>>
          /\ bindIdentity' = [bindIdentity EXCEPT ![job[t].fd] = job[t].id]
      <3>1. bindIdentity' = [bindIdentity EXCEPT ![job[t].fd] = job[t].id]
        BY <1>12, Unraced DEF BindIdentity
      <3>2. QED
        BY <1>1, <1>12, <3>1 DEF BindIdentity, At, Goto
    <2>2. job[t].fd \in Fd
      BY <1>2, <2>1 DEF Fits
    <2>3. \A fd \in Fd : fd # job[t].fd => Agree(fd)'
      BY <1>1, <2>1 DEF Serial, Halfway, Agree
    <2>4. QED
      BY <1>1, <2>1, <2>2, <2>3 DEF Serial, Halfway
  <1>13. CASE BindName(t)
    <2>1. /\ pc[t] = "bind name" /\ pc'[t] = "note login" /\ UNCHANGED <<job, bindIdentity>>
          /\ bindUsername' = [bindUsername EXCEPT ![job[t].fd] = job[t].user]
      <3>1. bindUsername' = [bindUsername EXCEPT ![job[t].fd] = job[t].user]
        BY <1>13, Unraced DEF BindName
      <3>2. QED
        BY <1>1, <1>13, <3>1 DEF BindName, At, Goto
    <2>2. /\ job[t].fd \in Fd /\ job[t].cmd = "login" /\ job[t].id \in Identity \cup {Empty}
          /\ job[t].user \in Username
      BY <1>2, <2>1 DEF Fits, LoginOnly, Jobs
    <2>3. \A fd \in Fd : fd # job[t].fd => Agree(fd)'
      BY <1>1, <2>1 DEF Serial, Halfway, Agree
    <2>4. ASSUME NEW f \in Fd, f = job[t].fd PROVE Agree(f)'
      <3>1. bindIdentity'[f] = job[t].id /\ bindUsername'[f] = job[t].user
        <4>1. bindIdentity[job[t].fd] = job[t].id
          BY <2>1 DEF Serial
        <4>2. bindUsername'[job[t].fd] = job[t].user
          <5>1. bindUsername \in [Fd -> Username \cup {Unbound}]
            BY TypeParts DEF AInv, SessionTypes
          <5>2. QED
            BY <2>1, <2>2, <5>1
        <4>3. QED
          BY <2>1, <2>4, <4>1, <4>2
      <3>2. job[t].id # Unbound /\ job[t].user # Unbound
        BY <2>2, NamesAssumption
      <3>3. job[t].id \in Identity => \E p \in Password : <<job[t].user, p, job[t].id>> \in accounts
        BY <1>1, <2>2 DEF ReadIsAccount, Carries
      <3>4. QED
        BY <3>1, <3>2, <3>3 DEF Agree
    <2>5. \A f \in Fd : Agree(f)'
      BY <2>3, <2>4
    <2>6. QED
      BY <2>1, <2>5 DEF Serial
  <1>14. QED
    BY <1>4, <1>5, <1>6, <1>7, <1>8, <1>9, <1>10, <1>11, <1>12, <1>13

\* A logout, and a deleteUserSelf: both bindings go, or none.
LEMMA LogoutSerial ==
  ASSUME AInv, NEW t \in Conn, Conn = {t}, Serial(t), accounts' = accounts,
         Name(t) \/ DropIdentity(t) \/ DropName(t) \/ EndActivity(t) \/ EndSession(t)
  PROVE  Serial(t)'
  <1>1. /\ WorkTypes /\ pc \in [Conn -> Steps] /\ job \in [Conn -> Jobs]
        /\ DOMAIN bindIdentity = Fd /\ DOMAIN bindUsername = Fd
    BY TypeParts DEF AInv, WorkTypes, TypeOK
  <1>2. Fits(job[t], pc[t]) /\ job[t] \in Jobs
    BY <1>1 DEF AInv, JobsFit
  <1>3. job[t].fd \in Fd
    BY <1>2 DEF Fits, Name, DropIdentity, DropName, EndActivity, EndSession, At
  <1>4. /\ SeenName(t, job[t].fd) = {bindUsername[job[t].fd]}
        /\ SeenIdentity(t, job[t].fd) = {bindIdentity[job[t].fd]}
    BY NoRace DEF SeenName, SeenIdentity
  <1>5. CASE Name(t)
    <2>1. /\ pc[t] = "name" /\ bindIdentity' = bindIdentity
          /\ bindIdentity[job[t].fd] # Unbound /\ \A fd \in Fd : Agree(fd)
      BY <1>5 DEF Name, At, Serial, Halfway
    <2>2. bindUsername[job[t].fd] # Unbound
      BY <1>3, <2>1 DEF Agree
    <2>3. PICK u : job' = [job EXCEPT ![t].user = u] /\ bindUsername' = bindUsername
      BY <1>4, <1>5, <2>2 DEF Name
    <2>4. job'[t].fd = job[t].fd
      BY <1>1, <2>3 DEF Jobs
    <2>5. pc'[t] \in {"update", "drop identity"}
      BY <1>1, <1>5 DEF Name, Goto
    <2>6. \A fd \in Fd : Agree(fd)'
      BY <2>1, <2>3 DEF Agree
    <2>7. QED
      BY <2>1, <2>4, <2>5, <2>6 DEF Serial
  <1>6. CASE DropIdentity(t)
    <2>1. /\ pc[t] = "drop identity" /\ pc'[t] = "drop name" /\ UNCHANGED <<job, bindUsername>>
          /\ bindIdentity[job[t].fd] # Unbound /\ \A fd \in Fd : Agree(fd)
      BY <1>1, <1>6 DEF DropIdentity, At, Goto, Serial, Halfway
    <2>2. bindIdentity' = Erased(bindIdentity, job[t].fd, Unbound)
      BY <1>4, <1>6, <2>1 DEF DropIdentity
    <2>3. bindIdentity'[job[t].fd] = Unbound /\ \A fd \in Fd : fd # job[t].fd => Agree(fd)'
      BY <1>1, <1>3, <2>1, <2>2 DEF Agree, Erased
    <2>4. QED
      BY <2>1, <2>3 DEF Serial, Halfway
  <1>7. CASE DropName(t)
    <2>1. /\ pc[t] = "drop name" /\ pc'[t] = "delete" /\ UNCHANGED <<job, bindIdentity>>
          /\ bindIdentity[job[t].fd] = Unbound /\ \A fd \in Fd : fd # job[t].fd => Agree(fd)
      BY <1>1, <1>7 DEF DropName, At, Goto, Serial, Halfway
    <2>2. \/ bindUsername' = Erased(bindUsername, job[t].fd, Unbound)
          \/ bindUsername' = bindUsername /\ bindUsername[job[t].fd] = Unbound
      BY <1>4, <1>7 DEF DropName
    <2>3. /\ bindUsername'[job[t].fd] = Unbound
          /\ \A fd \in Fd : fd # job[t].fd => bindUsername'[fd] = bindUsername[fd]
      BY <1>1, <1>3, <2>2 DEF Erased
    <2>4. \A fd \in Fd : Agree(fd)'
      BY <2>1, <2>3, NamesAssumption DEF Agree
    <2>5. QED
      BY <2>1, <2>4 DEF Serial
  <1>8. CASE EndActivity(t)
    <2>1. pc[t] = "update" /\ pc'[t] = "end session" /\ UNCHANGED <<bindIdentity, bindUsername>>
      BY <1>1, <1>8 DEF EndActivity, At, Goto
    <2>2. QED
      BY <2>1, QuietStep DEF Telling
  <1>9. CASE EndSession(t)
    <2>1. pc[t] = "end session" /\ pc'[t] = "answer" /\ \A fd \in Fd : Agree(fd)
      BY <1>1, <1>9 DEF EndSession, At, Goto, Serial, Halfway
    <2>2. \/ UNCHANGED <<bindIdentity, bindUsername>>
          \/ /\ bindUsername' = Erased(bindUsername, job[t].fd, Unbound)
             /\ bindIdentity' = Erased(bindIdentity, job[t].fd, Unbound)
      BY <1>9, Unraced DEF EndSession
    <2>3. \A fd \in Fd : Agree(fd)'
      BY <1>1, <2>1, <2>2, NamesAssumption DEF Agree, Erased
    <2>4. QED
      BY <2>1, <2>3 DEF Serial
  <1>10. QED
    BY <1>5, <1>6, <1>7, <1>8, <1>9

\* The other handlers leave the session maps alone.
LEMMA OtherSerial ==
  ASSUME AInv, NEW t \in Conn, Serial(t), accounts \subseteq accounts',
         InsertUser(t) \/ NoteUser(t) \/ CountUsers(t) \/ ListUsers(t) \/ DropUser(t)
         \/ DeleteRow(t) \/ Answer(t)
  PROVE  Serial(t)'
  <1>1. pc \in [Conn -> Steps]
    BY TypeParts DEF AInv, WorkTypes
  <1>2. UNCHANGED <<bindIdentity, bindUsername>>
    BY DEF InsertUser, NoteUser, CountUsers, ListUsers, DropUser, DeleteRow, Answer
  <1>3. pc[t] \in {"insert", "note user", "count", "list", "drop user", "delete", "answer"}
    BY DEF InsertUser, NoteUser, CountUsers, ListUsers, DropUser, DeleteRow, Answer, At
  <1>4. pc'[t] \in {"note user", "answer", "list", "delete", "idle"}
    BY <1>1 DEF InsertUser, NoteUser, CountUsers, ListUsers, DropUser, DeleteRow, Answer, Goto
  <1>5. QED
    BY <1>2, <1>3, <1>4, QuietStep DEF Telling

\* BEGIN changes no row, and without a second worker no view.
LEMMA BeginSerial ==
  ASSUME AInv, AInv', NEW t \in Conn, Conn = {t}, Serial(t), Begin(t)
  PROVE  Serial(t)'
  <1>1. /\ UNCHANGED <<job, pc, bindIdentity, bindUsername, accounts, work>>
        /\ SqlInv /\ SqlInv'
    BY DEF Begin, BeginImmediate, AInv
  <1>2. Row(t)' = Row(t)
    BY <1>1, AloneView DEF Row
  <1>3. Matches(t)' <=> Matches(t)
    BY <1>1, <1>2 DEF Matches
  <1>4. QED
    BY <1>1, <1>3 DEF Serial, Halfway, Agree

LEMMA SerialStep ==
  ASSUME AInv, AInv', NEW t \in Conn, Conn = {t}, Serial(t), [Next]_vars
  PROVE  Serial(t)'
  <1>1. accounts \subseteq accounts'
    BY AccountsGrow
  <1>2. CASE StartPass \/ UNCHANGED vars
    <2>1. UNCHANGED <<sqlVars, job, pc, bindIdentity, bindUsername, accounts>>
      BY <1>2 DEF StartPass
    <2>2. Matches(t)' <=> Matches(t)
      BY <2>1 DEF Matches, Row, View
    <2>3. QED
      BY <2>1, <2>2 DEF Serial, Halfway, Agree
  <1>3. CASE Restart
    <2>1. /\ pc'[t] = "idle" /\ bindIdentity' = [fd \in Fd |-> Unbound]
          /\ bindUsername' = [fd \in Fd |-> Unbound]
      BY <1>3 DEF Restart
    <2>2. \A fd \in Fd : Agree(fd)'
      BY <2>1, NamesAssumption DEF Agree
    <2>3. QED
      BY <2>1, <2>2 DEF Serial
  <1>4. CASE Work(t)
    <2>1. CASE Receive(t)
      BY <2>1, ReceiveSerial
    <2>2. CASE ReadIdentity(t) \/ ReadActivity(t) \/ Displace(t) \/ Deactivate(t) \/ Forget(t)
               \/ UnbindIdentity(t) \/ UnbindName(t) \/ Activate(t) \/ BindIdentity(t)
               \/ BindName(t) \/ NoteLogin(t)
      <3>1. accounts' = accounts
        BY <2>2 DEF ReadIdentity, ReadActivity, Displace, Deactivate, Forget,
           UnbindIdentity, UnbindName, Activate, BindIdentity, BindName, NoteLogin
      <3>2. QED
        BY <2>2, <3>1, LoginSerial
    <2>3. CASE Name(t) \/ DropIdentity(t) \/ DropName(t) \/ EndActivity(t) \/ EndSession(t)
      <3>1. accounts' = accounts
        BY <2>3 DEF Name, DropIdentity, DropName, EndActivity, EndSession
      <3>2. QED
        BY <2>3, <3>1, LogoutSerial
    <2>4. CASE InsertUser(t) \/ NoteUser(t) \/ CountUsers(t) \/ ListUsers(t) \/ DropUser(t)
               \/ DeleteRow(t) \/ Answer(t)
      BY <1>1, <2>4, OtherSerial
    <2>5. QED
      BY <1>4, <2>1, <2>2, <2>3, <2>4, BeginSerial DEF Work
  <1>5. QED
    BY <1>2, <1>3, <1>4 DEF Next

LEMMA SerialInit == ASSUME Init, NEW t \in Conn PROVE Serial(t)
  BY NamesAssumption DEF Init, Serial, Agree

\* Only a second look that misses the row ends the process.
LEMMA EndsByActivity ==
  ASSUME AInv, NEW t \in Conn, Conn = {t}, Serial(t), [Next]_vars, NeverTerminated
  PROVE  NeverTerminated'
  <1>1. TypeOK
    BY DEF AInv
  <1>2. CASE StartPass \/ UNCHANGED vars \/ Restart
    BY <1>2 DEF StartPass, Restart, NeverTerminated
  <1>3. CASE Receive(t)
    BY <1>1, <1>3, ReceiveIs DEF Starts, Take, Forbidden, NeverTerminated
  <1>4. CASE ReadActivity(t)
    BY <1>4 DEF ReadActivity, At, Serial, NeverTerminated
  <1>5. CASE Begin(t) \/ ReadIdentity(t) \/ Displace(t) \/ Deactivate(t)
             \/ Forget(t) \/ UnbindIdentity(t) \/ UnbindName(t) \/ Activate(t)
             \/ BindIdentity(t) \/ BindName(t) \/ NoteLogin(t)
    BY <1>5 DEF Begin, ReadIdentity, Displace, Deactivate, Forget, UnbindIdentity, UnbindName,
       Activate, BindIdentity, BindName, NoteLogin, NeverTerminated
  <1>6. CASE InsertUser(t) \/ NoteUser(t) \/ CountUsers(t) \/ ListUsers(t) \/ DropUser(t)
             \/ Name(t) \/ DropIdentity(t) \/ DropName(t) \/ DeleteRow(t) \/ EndActivity(t)
             \/ EndSession(t) \/ Answer(t)
    BY <1>6 DEF InsertUser, NoteUser, CountUsers, ListUsers, DropUser, Name, DropIdentity,
       DropName, DeleteRow, EndActivity, EndSession, Answer, NeverTerminated
  <1>7. QED
    BY <1>2, <1>3, <1>4, <1>5, <1>6 DEF Next, Work

\* A session of a server with one worker: its two bindings come and go together,
\* and its identity is the one the bound user has or had.
THEOREM OneWorkerSessions ==
  ASSUME NEW t \in Conn, Conn = {t}
  PROVE  Spec => []SessionIsConsistent
  <1>1. Serial(t) => SessionIsConsistent
    BY DEF Serial, Halfway, Agree, SessionIsConsistent, AtRest
  <1>2. Init => Serial(t)
    BY SerialInit
  <1>3. AInv /\ AInv' /\ Serial(t) /\ [Next]_vars => Serial(t)'
    BY SerialStep
  <1>4. QED
    BY AInitInv, AStepInv, <1>1, <1>2, <1>3, PTL DEF Spec

\* With one worker no login ends the process by stoi of a row that is gone.
THEOREM OneWorkerLives ==
  ASSUME NEW t \in Conn, Conn = {t}
  PROVE  Spec => []NeverTerminated
  <1>1. Init => Serial(t) /\ NeverTerminated
    BY SerialInit DEF Init, NeverTerminated
  <1>2. /\ AInv /\ AInv' /\ Serial(t) /\ NeverTerminated /\ [Next]_vars
        => Serial(t)' /\ NeverTerminated'
    BY SerialStep, EndsByActivity
  <1>3. QED
    BY AInitInv, AStepInv, <1>1, <1>2, PTL DEF Spec

=============================================================================
