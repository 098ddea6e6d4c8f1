------------------------------ MODULE Accounts ------------------------------
(***************************************************************************)
(* The user side of server_unencrypted.cpp: authenticateUser, registerUser,*)
(* both logouts, getUser, deleteUser, deleteUserSelf and getTeachers, the  *)
(* session maps they share, and the passes of Server::loop that run them   *)
(* on OpenMP workers, each with a db_user of its own on the USER table     *)
(* (SqlConn).  pc[t] is where the handler of worker t stands: at a call of *)
(* db_user, or at the change of a shared map.                              *)
(*                                                                         *)
(* A descriptor stands for the clients that get it one after another:      *)
(* close() and accept() change none of this state (:216, :171).            *)
(***************************************************************************)
EXTENDS SqlConn, Integers, FiniteSets

CONSTANTS
    Fd,            \* descriptors of client connections
    NoFd,          \* descriptor 0, what logined_users[] enters for a new name
    Typed,         \* the user names that requests carry
    Empty,         \* "", an identity, name or password that is not there
    Unbound,       \* a session map has no entry for the descriptor
    Password,
    Identity,      \* the identities that the CHECK of the table accepts
    BadIdentity,   \* those that it refuses
    Admin, RuleMaker, Teacher,
    Unquotable,    \* names and passwords with an apostrophe
    Unparsed,      \* passwords whose MD5 bytes are no SQL value: nearly all
    Sent,          \* bound: the commands that clients send
    MaxRequests    \* bound: how many requests they send

Username == Typed \cup {Empty}
Account == [pw : Password, id : Identity \cup BadIdentity, active : BOOLEAN]

ASSUME UserKeyAssumption == Key = Username /\ Val = Account
ASSUME CheckAssumption == Refused = {v \in Account : v.id \notin Identity}
ASSUME FileAssumption == \A table \in StartTables, k \in Key : table[k] \notin Refused
ASSUME NamesAssumption ==
    /\ NoFd \notin Fd
    /\ Unbound \notin Username \cup Identity \cup {Empty}
    /\ Empty \notin Identity
    /\ Identity \cap BadIdentity = {}
ASSUME BoundAssumption == MaxRequests \in Nat
ASSUME UsersFinite == IsFiniteSet(Typed)

VARIABLES
    requests,           \* bound: requests taken so far
    todo,               \* descriptors whose event a worker has yet to handle
    job,                \* the request a worker handles and what it found out
    pc,                 \* the next step of its handler
    reply,              \* what the handler will answer
    bindIdentity,       \* Server::bindIdentity
    bindUsername,       \* Server::bindUsername
    logined_users,      \* Server::logined_users; an entry 0 counts as none
    usernameSet,        \* Server::usernameSet
    user_count_cache,   \* Server::user_count_cache
    terminated,         \* an exception has left the parallel region
    accounts            \* history: name, password, identity ever committed

sessionVars == <<bindIdentity, bindUsername, logined_users>>
cacheVars == <<usernameSet, user_count_cache>>
restVars == <<requests, todo, terminated, accounts>>
vars == <<sqlVars, job, pc, reply, sessionVars, cacheVars, restVars>>

Commands == {"login", "register", "get users", "delete user", "delete self",
             "logout", "get teachers"}
DbSteps == {"identity", "activity", "deactivate", "activate", "insert", "count",
            "list", "update"}
MapSteps == {"displace", "forget", "unbind identity", "unbind name", "bind identity",
             "bind name", "note login", "note user", "drop user", "name",
             "drop identity", "drop name", "end session"}

NoJob == [cmd |-> "idle", fd |-> NoFd, user |-> Empty, pw |-> Empty, id |-> Empty,
          source |-> NoFd]
Jobs == [cmd : Commands \cup {"idle"}, fd : Fd \cup {NoFd}, user : Username,
         pw : Password \cup {Empty}, id : Identity \cup BadIdentity \cup {Empty},
         source : Fd \cup {NoFd}]

Status(code) == [code |-> code, counts |-> 0, items |-> {}]
Replies == [code : {0, 200, 403, 404}, counts : Nat, items : SUBSET Username]

TypeOK ==
    /\ SqlTypeOK
    /\ requests \in 0 .. MaxRequests
    /\ todo \in [Conn -> SUBSET Fd]
    /\ job \in [Conn -> Jobs]
    /\ pc \in [Conn -> DbSteps \cup MapSteps \cup {"idle", "delete", "answer"}]
    /\ reply \in [Conn -> Replies]
    /\ bindIdentity \in [Fd -> Identity \cup {Empty, Unbound}]
    /\ bindUsername \in [Fd -> Username \cup {Unbound}]
    /\ logined_users \in [Username -> Fd \cup {NoFd}]
    /\ usernameSet \subseteq Username
    /\ user_count_cache \in Nat \cup {-1}
    /\ terminated \in BOOLEAN
    /\ accounts \subseteq Username \X Password \X Identity

Credentials(table) ==
    {<<u, table[u].pw, table[u].id>> : u \in {k \in Key : table[k] # NoVal}}

Init ==
    /\ SqlInit
    /\ requests = 0
    /\ todo = [t \in Conn |-> {}]
    /\ job = [t \in Conn |-> NoJob]
    /\ pc = [t \in Conn |-> "idle"]
    /\ reply = [t \in Conn |-> Status(0)]
    /\ bindIdentity = [fd \in Fd |-> Unbound]
    /\ bindUsername = [fd \in Fd |-> Unbound]
    /\ logined_users = [u \in Username |-> NoFd]
    /\ usernameSet = {}
    /\ user_count_cache = -1
    /\ terminated = FALSE
    /\ accounts = Credentials(db)

-----------------------------------------------------------------------------
(* The maps are not locked (server_unencrypted.hpp:194): while another worker *)
(* changes a map, a lookup may miss what is there and a change may be lost.   *)

IdentitySteps == {"unbind identity", "bind identity", "drop identity", "end session"}
NameSteps == {"unbind name", "bind name", "name", "drop name", "end session"}
LoginSteps == {"displace", "forget", "note login", "end session"}
UserSteps == {"note user", "drop user"}

Racing(t, steps) == \E u \in Conn \ {t} : pc[u] \in steps

\* What t's operation on a map may yield: its result, or that of losing the race.
Outcome(t, steps, result, lost) == {result} \cup (IF Racing(t, steps) THEN {lost} ELSE {})

Erased(map, x, none) == [y \in DOMAIN map |-> IF y = x THEN none ELSE map[y]]

-----------------------------------------------------------------------------
(* Server::loop and the dispatch of recvInputFromExisting. *)

Idle(t) == pc[t] = "idle"

\* epoll_wait returns a descriptor at most once, so one worker gets it.
StartPass ==
    /\ \A t \in Conn : Idle(t) /\ todo[t] = {}
    /\ \E ready \in [Conn -> SUBSET Fd] :
        /\ \E t \in Conn : ready[t] # {}
        /\ \A t, u \in Conn : t # u => ready[t] \cap ready[u] = {}
        /\ todo' = ready
    /\ requests < MaxRequests
    /\ UNCHANGED <<sqlVars, job, pc, reply, sessionVars, cacheVars, requests, terminated, accounts>>

\* Worker t takes the event of fd, and its handler starts at this step.
Take(t, fd, cmd, u, p, i, step) ==
    /\ Idle(t)
    /\ fd \in todo[t]
    /\ cmd \in Sent
    /\ requests < MaxRequests
    /\ requests' = requests + 1
    /\ todo' = [todo EXCEPT ![t] = @ \ {fd}]
    /\ job' = [job EXCEPT ![t] = [cmd |-> cmd, fd |-> fd, user |-> u, pw |-> p, id |-> i,
                                  source |-> NoFd]]
    /\ pc' = [pc EXCEPT ![t] = step]
    /\ UNCHANGED <<sqlVars, sessionVars, cacheVars, terminated, accounts>>

\* What the dispatch reads of the session of fd.
SeenIdentity(t, fd) == Outcome(t, IdentitySteps, bindIdentity[fd], Unbound)
SeenName(t, fd) == Outcome(t, NameSteps, bindUsername[fd], Unbound)

Login(t, fd, u, p) ==
    Take(t, fd, "login", u, p, Empty, "identity") /\ UNCHANGED reply

Register(t, fd, u, p, i) ==
    Take(t, fd, "register", u, p, i, "insert") /\ UNCHANGED reply

\* The header carries the cached count, or one that is counted now.
GetUsers(t, fd) ==
    /\ Admin \in SeenIdentity(t, fd)
    /\ \/ /\ user_count_cache < 0
          /\ Take(t, fd, "get users", Empty, Empty, Empty, "count")
          /\ UNCHANGED reply
       \/ /\ user_count_cache >= 0
          /\ Take(t, fd, "get users", Empty, Empty, Empty, "list")
          /\ reply' = [reply EXCEPT ![t].counts = user_count_cache]

GetTeachers(t, fd) ==
    /\ RuleMaker \in SeenIdentity(t, fd)
    /\ Take(t, fd, "get teachers", Empty, Empty, Empty, "list")
    /\ UNCHANGED reply

DeleteUser(t, fd, u) ==
    /\ Admin \in SeenIdentity(t, fd)
    /\ Take(t, fd, "delete user", u, Empty, Empty, "drop user")
    /\ UNCHANGED reply

DeleteUserSelf(t, fd, p) ==
    /\ SeenIdentity(t, fd) \ {Unbound, Admin} # {}
    /\ Take(t, fd, "delete self", Empty, p, Empty, "name")
    /\ UNCHANGED reply

Logout(t, fd) ==
    /\ SeenName(t, fd) # {Unbound}
    /\ Take(t, fd, "logout", Empty, Empty, Empty, "name")
    /\ UNCHANGED reply

\* An unknown command, or one that the session does not allow: 403 at once.
Forbidden(t, fd) ==
    /\ Idle(t)
    /\ fd \in todo[t]
    /\ todo' = [todo EXCEPT ![t] = @ \ {fd}]
    /\ UNCHANGED <<sqlVars, job, pc, reply, sessionVars, cacheVars, requests, terminated, accounts>>

Receive(t) ==
    \E fd \in Fd :
        \/ GetUsers(t, fd) \/ GetTeachers(t, fd) \/ Logout(t, fd) \/ Forbidden(t, fd)
        \/ \E u \in Typed :
            \/ DeleteUser(t, fd, u)
            \/ \E p \in Password :
                \/ Login(t, fd, u, p)
                \/ \E i \in Identity \cup BadIdentity : Register(t, fd, u, p, i)
        \/ \E p \in Password : DeleteUserSelf(t, fd, p)

-----------------------------------------------------------------------------
At(t, step) == pc[t] = step
Goto(t, step) == pc' = [pc EXCEPT ![t] = step]
Settle(t, r) == reply' = [reply EXCEPT ![t] = r]

Begin(t) ==
    /\ pc[t] \in DbSteps
    /\ BeginImmediate(t)
    /\ UNCHANGED <<job, pc, reply, sessionVars, cacheVars, restVars>>

Row(t) == View(t)[job[t].user]

\* UPDATE USER set ACTIVITY = a where USERNAME = the user's.
SetActivity(t, a) ==
    \E v \in Val :
        /\ Row(t) # NoVal => v = [Row(t) EXCEPT !.active = a]
        /\ Update(t, job[t].user, v)

-----------------------------------------------------------------------------
(* authenticateUser *)

\* WHERE USERNAME = '...' AND password=...: the MD5 bytes are not quoted, and a
\* text that SQLite rejects leaves the worker in its step loop for ever.
Prepared(t) == job[t].user \notin Unquotable /\ job[t].pw \notin Unparsed
Matches(t) == Row(t) # NoVal /\ Row(t).pw = job[t].pw

\* Mutant: without if(!identity.empty()).
ReadIdentityAnyway(t) ==
    /\ At(t, "identity")
    /\ Prepared(t)
    /\ FinishSelect(t)
    /\ job' = [job EXCEPT ![t].id = IF Matches(t) THEN Row(t).id ELSE Empty]
    /\ Goto(t, "activity")
    /\ UNCHANGED <<reply, sessionVars, cacheVars, restVars>>

ReadIdentity(t) ==
    /\ At(t, "identity")
    /\ Prepared(t)
    /\ FinishSelect(t)
    /\ \/ /\ Matches(t)
          /\ job' = [job EXCEPT ![t].id = Row(t).id]
          /\ Goto(t, "activity")
       \/ /\ ~Matches(t)
          /\ Goto(t, "bind identity")
          /\ UNCHANGED job
    /\ UNCHANGED <<reply, sessionVars, cacheVars, restVars>>

\* stoi throws when the row is gone by now.
ReadActivity(t) ==
    /\ At(t, "activity")
    /\ FinishSelect(t)
    /\ \/ /\ Matches(t)
          /\ Goto(t, IF Row(t).active THEN "displace" ELSE "activate")
          /\ UNCHANGED terminated
       \/ /\ ~Matches(t)
          /\ terminated' = TRUE
          /\ UNCHANGED pc
    /\ UNCHANGED <<requests, todo, job, reply, sessionVars, cacheVars, accounts>>

\* logout(cur_user, username): the device is read before the row is updated and
\* its bindings are erased after.
Displace(t) ==
    /\ At(t, "displace")
    /\ \E fd \in Outcome(t, LoginSteps, logined_users[job[t].user], NoFd) :
        job' = [job EXCEPT ![t].source = fd]
    /\ Goto(t, "deactivate")
    /\ UNCHANGED <<sqlVars, reply, sessionVars, cacheVars, restVars>>

Deactivate(t) ==
    /\ At(t, "deactivate")
    /\ SetActivity(t, FALSE)
    /\ Goto(t, "forget")
    /\ UNCHANGED <<job, reply, sessionVars, cacheVars, restVars>>

Forget(t) ==
    /\ At(t, "forget")
    /\ \/ /\ rc[t] = "ok"
          /\ logined_users' \in Outcome(t, LoginSteps,
                Erased(logined_users, job[t].user, NoFd), logined_users)
       \/ /\ rc[t] = "error"
          /\ UNCHANGED logined_users
    /\ Goto(t, "unbind identity")
    /\ UNCHANGED <<sqlVars, job, reply, bindIdentity, bindUsername, cacheVars, restVars>>

UnbindIdentity(t) ==
    /\ At(t, "unbind identity")
    /\ bindIdentity' \in Outcome(t, IdentitySteps,
          Erased(bindIdentity, job[t].source, Unbound), bindIdentity)
    /\ Goto(t, "unbind name")
    /\ UNCHANGED <<sqlVars, job, reply, bindUsername, logined_users, cacheVars, restVars>>

UnbindName(t) ==
    /\ At(t, "unbind name")
    /\ bindUsername' \in Outcome(t, NameSteps,
          Erased(bindUsername, job[t].source, Unbound), bindUsername)
    /\ Goto(t, "activate")
    /\ UNCHANGED <<sqlVars, job, reply, bindIdentity, logined_users, cacheVars, restVars>>

Activate(t) ==
    /\ At(t, "activate")
    /\ SetActivity(t, TRUE)
    /\ Goto(t, "bind identity")
    /\ UNCHANGED <<job, reply, sessionVars, cacheVars, restVars>>

\* Mutant: a client without an identity counts as a teacher.
BindIdentityDefault(t) ==
    /\ At(t, "bind identity")
    /\ Settle(t, Status(IF job[t].id = Empty THEN 404 ELSE 200))
    /\ bindIdentity' =
          [bindIdentity EXCEPT ![job[t].fd] = IF job[t].id = Empty THEN Teacher ELSE job[t].id]
    /\ Goto(t, "bind name")
    /\ UNCHANGED <<sqlVars, job, bindUsername, logined_users, cacheVars, restVars>>

\* Mutant: only a login that succeeds replaces the identity.
BindIdentityIfKnown(t) ==
    /\ At(t, "bind identity")
    /\ Settle(t, Status(IF job[t].id = Empty THEN 404 ELSE 200))
    /\ bindIdentity' = IF job[t].id = Empty THEN bindIdentity
                       ELSE [bindIdentity EXCEPT ![job[t].fd] = job[t].id]
    /\ Goto(t, "bind name")
    /\ UNCHANGED <<sqlVars, job, bindUsername, logined_users, cacheVars, restVars>>

\* A failed login binds too: the empty identity, and the name it gave.
BindIdentity(t) ==
    /\ At(t, "bind identity")
    /\ Settle(t, Status(IF job[t].id = Empty THEN 404 ELSE 200))
    /\ bindIdentity' \in Outcome(t, IdentitySteps,
          [bindIdentity EXCEPT ![job[t].fd] = job[t].id], bindIdentity)
    /\ Goto(t, "bind name")
    /\ UNCHANGED <<sqlVars, job, bindUsername, logined_users, cacheVars, restVars>>

BindName(t) ==
    /\ At(t, "bind name")
    /\ bindUsername' \in Outcome(t, NameSteps,
          [bindUsername EXCEPT ![job[t].fd] = job[t].user], bindUsername)
    /\ Goto(t, "note login")
    /\ UNCHANGED <<sqlVars, job, reply, bindIdentity, logined_users, cacheVars, restVars>>

NoteLogin(t) ==
    /\ At(t, "note login")
    /\ logined_users' \in Outcome(t, LoginSteps,
          [logined_users EXCEPT ![job[t].user] = job[t].fd], logined_users)
    /\ Goto(t, "answer")
    /\ UNCHANGED <<sqlVars, job, reply, bindIdentity, bindUsername, cacheVars, restVars>>

-----------------------------------------------------------------------------
(* registerUser *)

InsertUser(t) ==
    /\ At(t, "insert")
    /\ Insert(t, job[t].user, [pw |-> job[t].pw, id |-> job[t].id, active |-> FALSE])
    /\ Settle(t, Status(IF rc'[t] = "ok" THEN 200 ELSE 403))
    /\ accounts' = accounts \cup Credentials(db')
    /\ Goto(t, "note user")
    /\ UNCHANGED <<requests, todo, job, sessionVars, cacheVars, terminated>>

\* The count follows a registration that succeeded, usernameSet follows any.
NoteUser(t) ==
    /\ At(t, "note user")
    /\ user_count_cache' = IF rc[t] = "ok" /\ user_count_cache >= 0
                           THEN user_count_cache + 1 ELSE user_count_cache
    /\ usernameSet' \in Outcome(t, UserSteps, usernameSet \cup {job[t].user}, usernameSet)
    /\ Goto(t, "answer")
    /\ UNCHANGED <<sqlVars, job, reply, sessionVars, restVars>>

-----------------------------------------------------------------------------
(* getUser and getTeachers *)

Stored(t) == {u \in Key : View(t)[u] # NoVal}

CountUsers(t) ==
    /\ At(t, "count")
    /\ FinishSelect(t)
    /\ user_count_cache' = Cardinality(Stored(t))
    /\ reply' = [reply EXCEPT ![t].counts = user_count_cache']
    /\ Goto(t, "list")
    /\ UNCHANGED <<job, sessionVars, usernameSet, restVars>>

ListUsers(t) ==
    /\ At(t, "list")
    /\ FinishSelect(t)
    /\ \/ /\ job[t].cmd = "get users"
          /\ Settle(t, [reply[t] EXCEPT !.code = 200, !.items = Stored(t)])
       \/ /\ job[t].cmd = "get teachers"
          /\ LET found == {u \in Stored(t) : View(t)[u].id = Teacher} IN
             Settle(t, [code |-> IF found = {} THEN 403 ELSE 200,
                        counts |-> Cardinality(found), items |-> found])
    /\ Goto(t, "answer")
    /\ UNCHANGED <<job, sessionVars, cacheVars, restVars>>

-----------------------------------------------------------------------------
(* deleteUser, deleteUserSelf and logout(cur_user, connect_fd) *)

\* Mutant: the count is not compared with 0.
CountedDownAlways == user_count_cache - 1

CountedDown == IF user_count_cache > 0 THEN user_count_cache - 1 ELSE user_count_cache

\* deleteUser adjusts set and count before it deletes anything.
DropUser(t) ==
    /\ At(t, "drop user")
    /\ \/ /\ job[t].user \in usernameSet
          /\ usernameSet' = usernameSet \ {job[t].user}
          /\ user_count_cache' = CountedDown
          /\ Settle(t, Status(200))
       \/ /\ job[t].user \notin usernameSet \/ Racing(t, UserSteps)
          /\ Settle(t, Status(403))
          /\ UNCHANGED cacheVars
    /\ Goto(t, "delete")
    /\ UNCHANGED <<sqlVars, job, sessionVars, restVars>>

\* username = bindUsername[fd], which enters "" if another worker unbound it.
Name(t) ==
    /\ At(t, "name")
    /\ \E seen \in SeenName(t, job[t].fd) :
        \/ /\ seen # Unbound
           /\ job' = [job EXCEPT ![t].user = seen]
           /\ UNCHANGED bindUsername
        \/ /\ seen = Unbound
           /\ job' = [job EXCEPT ![t].user = Empty]
           /\ bindUsername' = [bindUsername EXCEPT ![job[t].fd] = Empty]
    /\ Goto(t, IF job[t].cmd = "logout" THEN "update" ELSE "drop identity")
    /\ UNCHANGED <<sqlVars, reply, bindIdentity, logined_users, cacheVars, restVars>>

DropIdentity(t) ==
    /\ At(t, "drop identity")
    /\ \E seen \in SeenIdentity(t, job[t].fd) :
        \/ /\ seen # Unbound
           /\ bindIdentity' = Erased(bindIdentity, job[t].fd, Unbound)
           /\ user_count_cache' = CountedDown
        \/ /\ seen = Unbound
           /\ UNCHANGED <<bindIdentity, user_count_cache>>
    /\ Goto(t, "drop name")
    /\ UNCHANGED <<sqlVars, job, reply, bindUsername, logined_users, usernameSet, restVars>>

DropName(t) ==
    /\ At(t, "drop name")
    /\ \E seen \in SeenName(t, job[t].fd) :
        \/ /\ seen # Unbound
           /\ bindUsername' = Erased(bindUsername, job[t].fd, Unbound)
           /\ Settle(t, Status(200))
        \/ /\ seen = Unbound
           /\ Settle(t, Status(403))
           /\ UNCHANGED bindUsername
    /\ Goto(t, "delete")
    /\ UNCHANGED <<sqlVars, job, bindIdentity, logined_users, cacheVars, restVars>>

\* Mutant: deleteUserSelf deletes without the password in its WHERE clause.
SelectedByName(t) == {job[t].user}

\* The rows that delet's WHERE clause selects: deleteUserSelf compares the
\* password as it was typed with the MD5 bytes of the column.
Selected(t) == IF job[t].cmd = "delete user" THEN {job[t].user} ELSE {}

\* Mutant: a name that was in usernameSet is answered 200 whatever delet says.
DeleteRowUnchecked(t) ==
    /\ At(t, "delete")
    /\ Delete(t, Selected(t))
    /\ Settle(t, Status(IF rc'[t] = "ok" \/ reply[t].code = 200 THEN 200 ELSE 403))
    /\ Goto(t, "answer")
    /\ UNCHANGED <<job, sessionVars, cacheVars, restVars>>

DeleteRow(t) ==
    /\ At(t, "delete")
    /\ \/ /\ {job[t].user, job[t].pw} \cap Unquotable = {}
          /\ Delete(t, Selected(t))
       \/ /\ {job[t].user, job[t].pw} \cap Unquotable # {}
          /\ RejectDelete(t)
    /\ Settle(t, Status(IF rc'[t] = "ok" THEN 200
                        ELSE IF reply[t].code = 200 THEN 404 ELSE 403))
    /\ Goto(t, "answer")
    /\ UNCHANGED <<job, sessionVars, cacheVars, restVars>>

EndActivity(t) ==
    /\ At(t, "update")
    /\ SetActivity(t, FALSE)
    /\ Goto(t, "end session")
    /\ UNCHANGED <<job, reply, sessionVars, cacheVars, restVars>>

EndSession(t) ==
    /\ At(t, "end session")
    /\ \/ /\ rc[t] = "ok"
          /\ bindUsername' \in Outcome(t, NameSteps,
                Erased(bindUsername, job[t].fd, Unbound), bindUsername)
          /\ bindIdentity' \in Outcome(t, IdentitySteps,
                Erased(bindIdentity, job[t].fd, Unbound), bindIdentity)
          /\ logined_users' \in Outcome(t, LoginSteps,
                Erased(logined_users, job[t].user, NoFd), logined_users)
          /\ Settle(t, Status(200))
       \/ /\ rc[t] = "error"
          /\ Settle(t, Status(403))
          /\ UNCHANGED sessionVars
    /\ Goto(t, "answer")
    /\ UNCHANGED <<sqlVars, job, cacheVars, restVars>>

\* The handler returns its messages, to be sent after the pass.
Answer(t) ==
    /\ At(t, "answer")
    /\ Goto(t, "idle")
    /\ job' = [job EXCEPT ![t] = NoJob]
    /\ Settle(t, Status(0))
    /\ UNCHANGED <<sqlVars, sessionVars, cacheVars, restVars>>

Work(t) ==
    \/ Receive(t) \/ Begin(t)
    \/ ReadIdentity(t) \/ ReadActivity(t) \/ Displace(t) \/ Deactivate(t) \/ Forget(t)
    \/ UnbindIdentity(t) \/ UnbindName(t) \/ Activate(t)
    \/ BindIdentity(t) \/ BindName(t) \/ NoteLogin(t)
    \/ InsertUser(t) \/ NoteUser(t) \/ CountUsers(t) \/ ListUsers(t)
    \/ DropUser(t) \/ Name(t) \/ DropIdentity(t) \/ DropName(t) \/ DeleteRow(t)
    \/ EndActivity(t) \/ EndSession(t) \/ Answer(t)

\* The process is stopped, or has ended itself, and is started again.
Restart ==
    /\ Reopen
    /\ todo' = [t \in Conn |-> {}]
    /\ job' = [t \in Conn |-> NoJob]
    /\ pc' = [t \in Conn |-> "idle"]
    /\ reply' = [t \in Conn |-> Status(0)]
    /\ bindIdentity' = [fd \in Fd |-> Unbound]
    /\ bindUsername' = [fd \in Fd |-> Unbound]
    /\ logined_users' = [u \in Username |-> NoFd]
    /\ usernameSet' = {}
    /\ user_count_cache' = -1
    /\ terminated' = FALSE
    /\ UNCHANGED <<requests, accounts>>

Next ==
    \/ ~terminated /\ (StartPass \/ \E t \in Conn : Work(t))
    \/ Restart

Spec == Init /\ [][Next]_vars

\* A worker that can take a step takes one, as long as the process runs.
FairSpec == Spec /\ \A t \in Conn : WF_vars(~terminated /\ Work(t))

-----------------------------------------------------------------------------
(* Properties *)

\* The map entries of a descriptor are at rest while no worker handles it.
AtRest(fd) == \A t \in Conn : job[t].fd # fd /\ job[t].source # fd

\* Rights come from accounts: an identity that a descriptor is bound to was the
\* identity of an account, one that was in the file at the start or that a
\* registration committed, however the unlocked maps are raced for and although
\* reads see uncommitted transactions.
BoundIdentityExists ==
    \A fd \in Fd : bindIdentity[fd] \in Identity
        => \E a \in accounts : a[3] = bindIdentity[fd]

\* With one worker, the identity is that of the bound user, and the two maps,
\* each of which guards half of the commands, know the same descriptors.
SessionIsConsistent ==
    \A fd \in Fd : AtRest(fd) =>
        /\ bindIdentity[fd] = Unbound <=> bindUsername[fd] = Unbound
        /\ bindIdentity[fd] \in Identity =>
            \E p \in Password : <<bindUsername[fd], p, bindIdentity[fd]>> \in accounts

\* What a row says of its user.
Known(row) == IF row = NoVal THEN NoVal ELSE <<row.pw, row.id>>

\* A committed account keeps its password and identity and stays, until a
\* deleteUser names it, now or in a delete pending in the transaction that
\* commits: not by a login or logout on an old view, nor by an insert that runs
\* with the row of another registration.
AccountChangesByDelete ==
    [][\A u \in Key : db[u] # NoVal /\ Known(db'[u]) # Known(db[u]) =>
        \/ work[u] = NoVal
        \/ \E t \in Conn : /\ At(t, "delete")
                           /\ job[t].cmd = "delete user"
                           /\ job[t].user = u]_vars

\* 200 for the deletion of a user: the row is gone for good.
DeletedUserIsGone ==
    [][\A t \in Conn : At(t, "delete") /\ At(t, "answer")' /\ job[t].cmd = "delete user"
        /\ reply'[t].code = 200 => db'[job[t].user] = NoVal]_vars

\* Every request a worker has taken is answered, unless the process ends itself:
\* no handler waits for another one's lock or session.
RequestAnswered == \A t \in Conn : ~Idle(t) ~> (Idle(t) \/ terminated)

\* With one worker, whose calls nobody comes between, the second SELECT of a login
\* finds the row of the first, and stoi("") does not end the process.
NeverTerminated == ~terminated
=============================================================================
