---------------------------- MODULE QuestionBank ----------------------------
(***************************************************************************)
(* The question side of server_unencrypted.cpp: the handlers getSubjects,  *)
(* getChapters, getQuestions, addSubject, addChapter, writeQuestion and    *)
(* deleteQuestion, the caches they share, and the passes of Server::loop   *)
(* that run them on OpenMP workers, each with a connection of its own to   *)
(* the QUESTIONS table (SqlConn).                                          *)
(*                                                                         *)
(* A handler looks at the caches and then makes a fixed sequence of calls  *)
(* of question_bank, its plan.  It is fixed because checkExistence always  *)
(* answers no: it runs "SELECT 1" through sqlexec<string>, which drops     *)
(* INTEGER columns (database.hpp:132), so its result vector is empty.  The *)
(* branches that need a yes (the UPDATE and the INSERT of writeQuestion)   *)
(* are dead code and have no counterpart here.                             *)
(***************************************************************************)
EXTENDS SqlConn, Sequences, FiniteSets

CONSTANTS
    Subject, Chapter, Question,   \* the names that requests carry
    Placeholder,   \* "placeholder", in columns a row has no use for
    Empty,         \* "", the field of a request that was not sent
    Undefined,     \* "undefined", what insert stores for an empty subject
    Unquotable,    \* names with an apostrophe, which break the SQL text
    MaxEvents      \* bound: epoll events one worker handles in a pass

\* question_bank::insert: if(category.empty()) category = "undefined".
StoredSubject(s) == IF s = Empty THEN Undefined ELSE s

\* The primary keys of QUESTIONS, as subject, chapter, path.
Rows == {StoredSubject(s) : s \in Subject}
            \X (Chapter \cup {Placeholder}) \X (Question \cup {Placeholder})

ASSUME KeyAssumption == Key = Rows
ASSUME TextAssumption == Placeholder \in Val
ASSUME EventsAssumption == MaxEvents \in Nat
ASSUME FiniteAssumption ==
    IsFiniteSet(Subject) /\ IsFiniteSet(Chapter) /\ IsFiniteSet(Question)

VARIABLES
    pending,          \* events of this pass a worker has not started yet
    req,              \* the request each worker is handling
    plan,             \* the calls its handler has ahead of it
    reply,            \* what the handler will answer, as far as it is decided
    subject_cache,    \* Server::subject_cache
    chapter_cache,    \* Server::chapter_cache
    subject_counted,  \* subject_count_cache >= 0; only its sign is used
    created           \* history: subjects in the file at the first start, and
                      \* those an addSubject has been told 200 for since

cacheVars == <<subject_cache, chapter_cache, subject_counted, created>>
handlerVars == <<pending, req, plan, reply, cacheVars>>
vars == <<sqlVars, handlerVars>>

Commands == {"get subjects", "get chapters", "get questions", "read question",
             "write question", "delete question", "write subject", "write chapter"}
DbCalls == {"exists", "insert", "delete", "count", "list", "read"}
Steps == DbCalls \cup {"note"}

NoRequest == [cmd |-> "idle", s |-> Empty, ch |-> Empty, q |-> Empty]
Requests == [cmd : Commands \cup {"idle"}, s : Subject \cup {Empty},
             ch : Chapter \cup {Empty}, q : Question \cup {Empty}]

\* The status code of a reply and, for a list, the number in its header and the
\* names behind it; code 0 stands for a status that a later call decides.
Status(code) == [code |-> code, counts |-> 0, items |-> {}]
Replies == [code : {0, 200, 403, 404}, counts : Nat,
            items : SUBSET (Subject \cup Chapter \cup Question \cup {Undefined})]

\* What can be ahead of a handler.
Plans == {<<>>, <<"exists">>, <<"exists", "exists">>, <<"exists", "insert">>, <<"insert">>,
          <<"note">>, <<"delete">>, <<"read">>, <<"count", "list">>, <<"list">>}

TypeOK ==
    /\ SqlTypeOK
    /\ pending \in [Conn -> 0 .. MaxEvents]
    /\ req \in [Conn -> Requests]
    /\ plan \in [Conn -> Plans]
    /\ reply \in [Conn -> Replies]
    /\ subject_cache \subseteq Subject
    /\ chapter_cache \in [Subject -> SUBSET Chapter]
    /\ subject_counted \in BOOLEAN
    /\ created \subseteq {StoredSubject(s) : s \in Subject}

Init ==
    /\ SqlInit
    /\ pending = [t \in Conn |-> 0]
    /\ req = [t \in Conn |-> NoRequest]
    /\ plan = [t \in Conn |-> <<>>]
    /\ reply = [t \in Conn |-> Status(0)]
    /\ subject_cache = {}
    /\ chapter_cache = [s \in Subject |-> {}]
    /\ subject_counted = FALSE
    /\ created = {k[1] : k \in {r \in Key : db[r] # NoVal}}

-----------------------------------------------------------------------------
(* Server::loop: a pass deals the ready events out to the workers and starts *)
(* the next pass when every worker is through (the barrier of omp for).      *)

Idle(t) == req[t].cmd = "idle"

\* Mutant: one event more than epoll_wait was asked for.
StartPassOneMore ==
    /\ \A t \in Conn : Idle(t) /\ pending[t] = 0
    /\ pending' \in [Conn -> {MaxEvents + 1}]
    /\ UNCHANGED <<sqlVars, req, plan, reply, cacheVars>>

StartPass ==
    /\ \A t \in Conn : Idle(t) /\ pending[t] = 0
    /\ \E e \in [Conn -> 0 .. MaxEvents] :
        /\ \E t \in Conn : e[t] > 0
        /\ pending' = e
    /\ UNCHANGED <<sqlVars, req, plan, reply, cacheVars>>

\* Worker t takes its next event, a request cmd with the names s, ch, q, and
\* its handler will make these calls, answering code unless one of them decides
\* otherwise.
Start(t, cmd, s, ch, q, calls, code) ==
    /\ Idle(t)
    /\ pending[t] > 0
    /\ pending' = [pending EXCEPT ![t] = @ - 1]
    /\ req' = [req EXCEPT ![t] = [cmd |-> cmd, s |-> s, ch |-> ch, q |-> q]]
    /\ plan' = [plan EXCEPT ![t] = calls]
    /\ reply' = [reply EXCEPT ![t] = Status(code)]
    /\ UNCHANGED <<sqlVars, cacheVars>>

GetSubjects(t) ==
    \/ subject_counted /\ Start(t, "get subjects", Empty, Empty, Empty, <<"list">>, 200)
    \/ ~subject_counted /\ Start(t, "get subjects", Empty, Empty, Empty, <<"count", "list">>, 200)

GetChapters(t, s) == Start(t, "get chapters", s, Empty, Empty, <<"count", "list">>, 200)

GetQuestions(t, s, ch) == Start(t, "get questions", s, ch, Empty, <<"count", "list">>, 200)

ReadQuestion(t, s, ch, q) == Start(t, "read question", s, ch, q, <<"read">>, 200)

\* The caches are not locked (server_unencrypted.hpp:161): while another worker
\* is inserting a name, a lookup may miss what is there and an insert may be
\* lost.  (Racing inserts may also crash the process: Restart.)
Racing(t) == \E u \in Conn \ {t} : plan[u] = <<"note">>

\* A cached subject is refused; any other passes checkExistence.
AddSubject(t, s) ==
    \/ s \in subject_cache /\ Start(t, "write subject", s, Empty, Empty, <<>>, 403)
    \/ /\ s \notin subject_cache \/ Racing(t)
       /\ Start(t, "write subject", s, Empty, Empty, <<"exists", "insert">>, 0)

\* Mutant: addChapter does not look for the subject.
AddChapterAnywhere(t, s, ch) ==
    \/ ch \in chapter_cache[s] /\ Start(t, "write chapter", s, ch, Empty, <<>>, 403)
    \/ /\ ch \notin chapter_cache[s]
       /\ Start(t, "write chapter", s, ch, Empty, <<"exists", "insert">>, 0)

\* A subject counts as created when it is cached, whatever the table holds.
AddChapter(t, s, ch) ==
    \/ /\ s \notin subject_cache \/ Racing(t)
       /\ Start(t, "write chapter", s, ch, Empty, <<"exists">>, 403)
    \/ /\ s \in subject_cache
       /\ ch \in chapter_cache[s]
       /\ Start(t, "write chapter", s, ch, Empty, <<>>, 403)
    \/ /\ s \in subject_cache
       /\ ch \notin chapter_cache[s] \/ Racing(t)
       /\ Start(t, "write chapter", s, ch, Empty, <<"exists", "insert">>, 0)

\* Neither the question nor its chapter is ever found.
WriteQuestion(t, s, ch, q) ==
    Start(t, "write question", s, ch, q, <<"exists", "exists">>, 403)

DeleteQuestion(t, s, ch, q) == Start(t, "delete question", s, ch, q, <<"delete">>, 0)

\* recvInputFromExisting: the requests whose session passes the guards.
Receive(t) ==
    \/ GetSubjects(t)
    \/ \E s \in Subject :
        \/ GetChapters(t, s)
        \/ AddSubject(t, s)
        \/ \E ch \in Chapter :
            \/ GetQuestions(t, s, ch)
            \/ AddChapter(t, s, ch)
            \/ \E q \in Question :
                \/ ReadQuestion(t, s, ch, q)
                \/ WriteQuestion(t, s, ch, q)
                \/ DeleteQuestion(t, s, ch, q)

-----------------------------------------------------------------------------
(* The calls of question_bank that a plan consists of. *)

At(t, step) == plan[t] # <<>> /\ Head(plan[t]) = step

\* The names that the call writes between quotes into its SQL text.
Quoted(t) ==
    IF req[t].cmd = "write chapter" /\ plan[t] = <<"exists">>
    THEN {req[t].s}
    ELSE {req[t].s, req[t].ch, req[t].q}

\* sqlite3_prepare_v2 accepted the text.  If not, stmt is NULL, sqlite3_step
\* answers SQLITE_MISUSE for ever and the worker never leaves the loop.
Prepared(t) == Quoted(t) \cap Unquotable = {}

\* The call returned: the handler goes on with what is left of its plan.
Advance(t) == plan' = [plan EXCEPT ![t] = Tail(@)]

\* The handler settles its reply.
Settle(t, r) == reply' = [reply EXCEPT ![t] = r]

Begin(t) ==
    /\ \E step \in DbCalls \ {"delete"} : At(t, step)
    /\ BeginImmediate(t)
    /\ UNCHANGED handlerVars

Exists(t) ==
    /\ At(t, "exists")
    /\ Prepared(t)
    /\ FinishSelect(t)
    /\ Advance(t)
    /\ UNCHANGED <<pending, req, reply, cacheVars>>

\* The row an addSubject or an addChapter hands to insert.
NewRow(t) ==
    <<StoredSubject(req[t].s),
      IF req[t].cmd = "write subject" THEN Placeholder ELSE req[t].ch,
      Placeholder>>

\* Mutant: the handlers do not look at what insert returns.
InsertRowUnchecked(t) ==
    /\ At(t, "insert")
    /\ Insert(t, NewRow(t), Placeholder)
    /\ plan' = [plan EXCEPT ![t] = <<"note">>]
    /\ Settle(t, Status(200))
    /\ UNCHANGED <<pending, req, cacheVars>>

InsertRow(t) ==
    /\ At(t, "insert")
    /\ Insert(t, NewRow(t), Placeholder)
    /\ \/ /\ rc'[t] = "ok"
          /\ plan' = [plan EXCEPT ![t] = <<"note">>]
          /\ Settle(t, Status(200))
       \/ /\ rc'[t] = "error"
          /\ plan' = [plan EXCEPT ![t] = <<>>]
          /\ Settle(t, Status(403))
    /\ UNCHANGED <<pending, req, cacheVars>>

\* insert returned DONE: the handler enters the name into its cache.
NoteSubject(t) ==
    /\ At(t, "note")
    /\ req[t].cmd = "write subject"
    /\ \/ subject_cache' = subject_cache \cup {req[t].s}
       \/ Racing(t) /\ UNCHANGED subject_cache
    /\ created' = created \cup {StoredSubject(req[t].s)}
    /\ Advance(t)
    /\ UNCHANGED <<sqlVars, pending, req, reply, chapter_cache, subject_counted>>

NoteChapter(t) ==
    /\ At(t, "note")
    /\ req[t].cmd = "write chapter"
    /\ \/ chapter_cache' = [chapter_cache EXCEPT ![req[t].s] = @ \cup {req[t].ch}]
       \/ Racing(t) /\ UNCHANGED chapter_cache
    /\ Advance(t)
    /\ UNCHANGED <<sqlVars, pending, req, reply, subject_cache, subject_counted, created>>

\* Mutant: the WHERE clause leaves the question out.
NamedChapter(t) == {k \in Key : k[1] = req[t].s /\ k[2] = req[t].ch}

\* The row that the WHERE clause of delet selects, if there is one.
Named(t) == {k \in Key : k = <<req[t].s, req[t].ch, req[t].q>>}

\* delet; a name that breaks the text makes sqlite3_exec fail before it deletes.
RemoveRow(t) ==
    /\ At(t, "delete")
    /\ \/ /\ Prepared(t)
          /\ Delete(t, Named(t))
       \/ /\ ~Prepared(t)
          /\ RejectDelete(t)
    /\ Settle(t, Status(IF rc'[t] = "ok" THEN 200 ELSE 404))
    /\ Advance(t)
    /\ UNCHANGED <<pending, req, cacheVars>>

-----------------------------------------------------------------------------
(* SELECT DISTINCT and COUNT(DISTINCT), which skip the value 'placeholder'. *)

Stored(t) == {k \in Key : View(t)[k] # NoVal}

\* What the request's SELECT lists, as worker t sees the table.
Listing(t) ==
    LET r == req[t] IN
    (CASE r.cmd = "get subjects" -> {k[1] : k \in Stored(t)}
       [] r.cmd = "get chapters" -> {k[2] : k \in {x \in Stored(t) : x[1] = r.s}}
       [] OTHER -> {k[3] : k \in {x \in Stored(t) : x[1] = r.s /\ x[2] = r.ch}})
    \ {Placeholder}

\* Mutant: the count includes the placeholder.
CountedAll(t) == Cardinality(Listing(t)) + 1

\* SELECT COUNT(DISTINCT ...) counts the names that SELECT DISTINCT lists.
Counted(t) == Cardinality(Listing(t))

Count(t) ==
    /\ At(t, "count")
    /\ Prepared(t)
    /\ FinishSelect(t)
    /\ Settle(t, [code |-> 200, counts |-> Counted(t), items |-> {}])
    /\ Advance(t)
    /\ subject_counted' = (subject_counted \/ req[t].cmd = "get subjects")
    /\ UNCHANGED <<pending, req, subject_cache, chapter_cache, created>>

\* The header of getSubjects and getQuestions carries the size of the list,
\* that of getChapters the number counted before.
List(t) ==
    /\ At(t, "list")
    /\ Prepared(t)
    /\ FinishSelect(t)
    /\ LET found == Listing(t) IN
       Settle(t, [code |-> 200, items |-> found,
                  counts |-> IF req[t].cmd = "get chapters" THEN reply[t].counts
                                                           ELSE Cardinality(found)])
    /\ Advance(t)
    /\ UNCHANGED <<pending, req, cacheVars>>

\* read question answers 200 with the text, or with "" when there is no row.
Read(t) ==
    /\ At(t, "read")
    /\ Prepared(t)
    /\ FinishSelect(t)
    /\ Advance(t)
    /\ UNCHANGED <<pending, req, reply, cacheVars>>

\* The handler returns its messages, to be sent after the pass.
Answer(t) ==
    /\ ~Idle(t)
    /\ plan[t] = <<>>
    /\ req' = [req EXCEPT ![t] = NoRequest]
    /\ Settle(t, Status(0))
    /\ UNCHANGED <<sqlVars, pending, plan, cacheVars>>

Work(t) ==
    \/ Receive(t) \/ Begin(t) \/ Exists(t) \/ InsertRow(t) \/ NoteSubject(t)
    \/ NoteChapter(t) \/ RemoveRow(t) \/ Count(t) \/ List(t) \/ Read(t) \/ Answer(t)

\* The process is stopped (SIGINT, or it dies) and started again: the file
\* stays, transactions, statements and caches are gone.
Restart ==
    /\ Reopen
    /\ pending' = [t \in Conn |-> 0]
    /\ req' = [t \in Conn |-> NoRequest]
    /\ plan' = [t \in Conn |-> <<>>]
    /\ reply' = [t \in Conn |-> Status(0)]
    /\ subject_cache' = {}
    /\ chapter_cache' = [s \in Subject |-> {}]
    /\ subject_counted' = FALSE
    /\ UNCHANGED created

Next == StartPass \/ Restart \/ \E t \in Conn : Work(t)

Spec == Init /\ [][Next]_vars

\* A worker that can take a step takes one: nothing in the code makes a worker
\* wait for another, apart from the end of the pass.
FairSpec == Spec /\ \A t \in Conn : WF_vars(Work(t))

-----------------------------------------------------------------------------
(* Properties *)

HasRow(k) == db[k] # NoVal
SubjectRow(s) == <<StoredSubject(s), Placeholder, Placeholder>>
ChapterRow(s, ch) == <<StoredSubject(s), ch, Placeholder>>

\* No chapter is ever stored, pending or waiting in a failed stmt_insert under
\* a subject nobody created: its subject was in the file at the start or an
\* addSubject was answered 200 for it.  addChapter looks only at subject_cache,
\* and the INSERT may run in a much later request than the one it was bound in.
ChapterUnderCreatedSubject ==
    /\ \A k \in Key : (HasRow(k) \/ work[k] # NoVal) /\ k[2] # Placeholder => k[1] \in created
    /\ \A t \in Conn : stmt[t] # "reset" /\ bound[t][1][2] # Placeholder
                            => bound[t][1][1] \in created

\* chapter_cache never knows a chapter of a subject that subject_cache does not
\* know, so addChapter can refuse a duplicate only where it could have added it.
CachedChapterHasCachedSubject ==
    \A s \in Subject : chapter_cache[s] # {} => s \in subject_cache

\* A stored row leaves the table only because a deleteQuestion names it, in this
\* step or in a delete still pending in the committing transaction; no insert,
\* rollback or restart loses a row that was committed.
RowLeavesByDelete ==
    [][\A k \in Key : HasRow(k) /\ db'[k] = NoVal =>
        \/ work[k] = NoVal
        \/ \E t \in Conn : /\ At(t, "delete")
                           /\ k = <<req[t].s, req[t].ch, req[t].q>>]_vars

\* The lists a client is shown hold committed names only, although the SELECT
\* may run inside a transaction with uncommitted changes.
ListsAreCommitted ==
    [][\A t \in Conn : At(t, "list") /\ List(t) =>
        \A x \in reply'[t].items :
            \E k \in Key : HasRow(k) /\ x \in {k[1], k[2], k[3]}]_vars

\* With one worker (light load: Server::loop deals a single event to thread 0)
\* and no request that names 'placeholder', a cached name is a stored one: the
\* caches never refuse to add what the bank does not have.
CacheIsStored ==
    /\ \A s \in subject_cache : HasRow(SubjectRow(s))
    /\ \A s \in Subject : \A ch \in chapter_cache[s] : HasRow(ChapterRow(s, ch))

\* Under the same conditions a chapter is stored only beneath a stored subject.
ChapterBelowSubject ==
    \A k \in Key : HasRow(k) /\ k[2] # Placeholder => HasRow(<<k[1], Placeholder, Placeholder>>)

\* The client of get chapters waits for as many names as the header announces
\* (mainwindow.cpp:76): count and list come from two SELECTs.
CountMatchesList ==
    \A t \in Conn : req[t].cmd = "get chapters" /\ plan[t] = <<>>
        => reply[t].counts = Cardinality(reply[t].items)

\* Every request a worker has taken is answered: no handler waits for another
\* worker's lock, and every step loop ends.
Answered == \A t \in Conn : ~Idle(t) ~> Idle(t)

\* question_bank.cpp:100 prints "Inserted into table successfully", and the
\* handler answers 200: the row it asked for is stored.
InsertedIsStored ==
    [][\A t \in Conn : At(t, "insert") /\ At(t, "note")' => db'[NewRow(t)] # NoVal]_vars
=============================================================================
