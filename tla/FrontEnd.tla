------------------------------ MODULE FrontEnd ------------------------------
(***************************************************************************)
(* The Qt front-end: LoginDialog, AdminDialog, MainWindow and              *)
(* PaperProductionDialog over TCPClientSocket, and as much of the server   *)
(* as its side of the connection shows: requests received one recv per     *)
(* event, replies sent message by message with a pause and no framing.     *)
(*                                                                         *)
(* A handler of a click runs to its end before the next click, and blocks  *)
(* in recv for every reply.  script holds the steps a handler has ahead of *)
(* it: send a command and take its code, clear and fetch a list, set       *)
(* buttons.  What the server answers is any reply its handlers can give;   *)
(* where they come from is the subject of QuestionBank and Accounts.       *)
(***************************************************************************)
EXTENDS Integers, SequencesExt

CONSTANTS
    Name,        \* names of users, subjects, chapters and questions
    Absent,      \* no name; a key that a message does not have
    Contents,    \* for each list, the lists of names the server may have
    Miscounted,  \* the lists whose announced count may be wrong
    MaxPaper,    \* bound on the questions of a paper
    MaxHandlers  \* bound on the handlers that send something

Lists == {"users", "subjects", "chapters", "questions"}

ASSUME NameAssumption == Absent \notin Name \cup Nat
ASSUME ContentsAssumption ==
    /\ DOMAIN Contents = Lists
    /\ \A l \in Lists : Contents[l] \subseteq Seq(Name)
ASSUME MiscountedAssumption == Miscounted \subseteq {"users", "chapters"}
ASSUME BoundAssumption == MaxPaper \in Nat /\ MaxHandlers \in Nat

VARIABLES
    window,    \* the window shown, or "none", or "ended" for the process
    script,    \* the steps of the handler that runs
    handlers,  \* how many have run, against MaxHandlers
    stage,     \* "idle", or what recv is called for: "code" or "name"
    left,      \* names yet to receive of those announced
    gathered,  \* names received
    shown,     \* what each list widget shows
    current,   \* its current item
    enabled,   \* the buttons that can be clicked
    paper,     \* the paper panel: "absent", "hidden" or "shown"
    canMakePaper,
    questionsList, \* the questions on the paper
    texts,     \* those of its texts that were received in this output
    file,      \* paper.txt
    open,      \* is the server's end of the connection there?
    up,        \* pieces of requests the server has not received
    edge,      \* has the server an event for them?
    reply,     \* messages the server has yet to send
    wire,      \* messages the front-end has not received
    saw,       \* history of the connection: what went out of the ordinary
    cause      \* history: why the process ended

widgetVars == <<shown, current, enabled>>
paperVars == <<paper, canMakePaper, questionsList>>
outputVars == <<texts, file>>
linkVars == <<open, up, edge, reply, wire>>
recvVars == <<stage, left, gathered>>
vars == <<window, script, handlers, recvVars, widgetVars, paperVars, outputVars, linkVars, saw, cause>>

-----------------------------------------------------------------------------
(* Messages and steps *)

Entry == Name \X Name \X Name    \* subject.chapter.question

\* "get users" fetches the list of users, and so on.
Asks == {"login", "logout", "register user", "delete user", "write subject",
         "write chapter", "delete subject", "delete chapter", "write question",
         "delete question", "read question"}

Code(k) == [code |-> k, counts |-> Absent, key |-> "none", value |-> Absent, readable |-> TRUE]
\* Mutant: the header has no "counts".
HeaderBare(n) == Code(200)

Header(n) == [Code(200) EXCEPT !.counts = n]

\* Mutant: the name was moved out of its vector before it is formatted.
ItemMoved(l, x) == [Code(Absent) EXCEPT !.key = l]

Item(l, x) == [Code(Absent) EXCEPT !.key = l, !.value = x]

\* A step that fails skips as many of those behind it: a handler returns.
Request(cmd, skip, e, size) ==
    [op |-> "ask", cmd |-> cmd, skip |-> skip, entry |-> e, size |-> size]
Ask(cmd, skip) == Request(cmd, skip, Absent, "short")
Write(size, skip) == Request("write question", skip, Absent, size)
Read(e, skip) == Request("read question", skip, e, "short")
Get(l) == [op |-> "get", list |-> l]
Set(on, off) == [op |-> "set", on |-> on, off |-> off]
Finish == [op |-> "finish"]
Leave == [op |-> "leave"]

Buttons == {"userDelete", "subjectDelete", "chapterDelete", "chapterCreate",
            "questionCreate", "questionDelete", "addPaper", "store"}

Messages ==
    [code : {200, 403, 404, Absent}, counts : Nat \cup {Absent},
     key : Lists \cup {"none", "text", "identity"},
     value : Name \cup Entry \cup {Absent, "admin", "teacher", "rule maker"},
     readable : BOOLEAN]

Anomalies == {"late", "miscount", "overlong", "quote", "refusal", "close"}

TypeOK ==
    /\ window \in {"login", "admin", "teacher", "none", "ended"}
    /\ handlers \in 0 .. MaxHandlers
    /\ stage \in {"idle", "code", "name"}
    /\ left \in Nat /\ gathered \in Seq(Name)
    /\ shown \in [Lists -> Seq(Name)]
    /\ current \in [Lists -> Name \cup {Absent}]
    /\ enabled \subseteq Buttons
    /\ paper \in {"absent", "hidden", "shown"} /\ canMakePaper \in BOOLEAN
    /\ questionsList \in Seq(Entry) /\ Len(questionsList) <= MaxPaper
    /\ texts \in Seq(Entry) /\ file \in Seq(Entry)
    /\ open \in BOOLEAN /\ edge \in BOOLEAN
    /\ \A i \in DOMAIN up : up[i].part \in {"whole", "head", "tail"}
    /\ reply \in Seq(Messages) /\ wire \in Seq(Messages)
    /\ saw \subseteq Anomalies
    /\ cause \in {"none", "parse", "type", "item", "typed"}

NoItem == [l \in Lists |-> Absent]

Init ==
    /\ window = "login" /\ script = <<>> /\ handlers = 0
    /\ stage = "idle" /\ left = 0 /\ gathered = <<>>
    /\ shown = [l \in Lists |-> <<>>] /\ current = NoItem /\ enabled = {}
    /\ paper = "absent" /\ canMakePaper = FALSE /\ questionsList = <<>>
    /\ texts = <<>> /\ file = <<>>
    /\ open = FALSE /\ up = <<>> /\ edge = FALSE /\ reply = <<>> /\ wire = <<>>
    /\ saw = {} /\ cause = "none"

-----------------------------------------------------------------------------
(* The server's end *)

\* getChapters announces a count of its own, getUser a cached one.
Counts(l, n) == IF l \in Miscounted THEN {n - 1, n, n + 1} \cap Nat ELSE {n}

Listing(l) ==
    UNION {{<<Header(n)>> \o [i \in DOMAIN s |-> Item(l, s[i])] : n \in Counts(l, Len(s))} :
             s \in Contents[l]}

\* Mutant: write question is answered like the bulletin commands, with nothing.
AnswersSilent(r) ==
    IF r.op = "get" THEN {<<Code(403)>>} \cup Listing(r.list)
    ELSE IF r.cmd = "login" THEN {<<[Code(200) EXCEPT !.key = "identity", !.value = "teacher"]>>}
    ELSE {<<>>}

\* The server has no command to delete a subject or a chapter.  A text with a
\* quote is put into the reply as it is, which makes it no JSON.
Answers(r) ==
    {<<Code(403)>>} \cup
    CASE r.op = "get" -> Listing(r.list)
      [] r.op = "ask" /\ r.cmd = "login" ->
           {<<[Code(200) EXCEPT !.key = "identity", !.value = i]>> :
               i \in {"admin", "teacher", "rule maker"}}
      [] r.op = "ask" /\ r.cmd = "read question" ->
           {<<[Code(200) EXCEPT !.key = "text", !.value = r.entry, !.readable = b]>> : b \in BOOLEAN}
      [] r.op = "ask" /\ r.cmd \in {"delete subject", "delete chapter"} -> {}
      [] OTHER -> {<<Code(200)>>}

\* recv takes INPUT_BUFFER_SIZE bytes at most: the head of an overlong request
\* is read for its command, and what is left of it is read with the next event,
\* as a text that cannot be parsed, so that the fields of some earlier request
\* of any client are acted on.  A bulletin command among them has no reply.
Stale == {<<>>, <<Code(200)>>, <<Code(403)>>} \cup UNION {Listing(l) : l \in Lists}

Serve ==
    /\ open /\ edge /\ reply = <<>>
    /\ \/ /\ Head(up).part # "tail"
          /\ reply' \in Answers(Head(up).req)
          /\ up' = Tail(up)
       \/ /\ Head(up).part = "tail"
          /\ reply' \in Stale
          /\ up' = <<>>
    \* The tail may arrive after the head was read, as an event of its own.
    /\ edge' \in {FALSE, Head(up).part = "head"}
    /\ UNCHANGED <<window, script, handlers, recvVars, widgetVars, paperVars, outputVars,
                   open, wire, saw, cause>>

\* sendMsgToExisting: one send per message and 100 ms until the next.  Empty
\* messages, which precede the header of a list, put nothing on the wire.
SendMessage ==
    /\ open /\ reply # <<>>
    /\ wire' = Append(wire, Head(reply))
    /\ reply' = Tail(reply)
    /\ saw' = saw \cup (IF wire # <<>> THEN {"late"} ELSE {})
                  \cup (IF Head(reply).readable THEN {} ELSE {"quote"})
                  \cup (IF Head(reply).counts \notin {Absent, Len(reply) - 1}
                        THEN {"miscount"} ELSE {})
    /\ UNCHANGED <<window, script, handlers, recvVars, widgetVars, paperVars, outputVars,
                   open, up, edge, cause>>

\* The server ends, or closes this descriptor.
ServerCloses ==
    /\ open
    /\ open' = FALSE
    /\ up' = <<>> /\ edge' = FALSE /\ reply' = <<>>
    /\ saw' = saw \cup {"close"}
    /\ UNCHANGED <<window, script, handlers, recvVars, widgetVars, paperVars, outputVars,
                   wire, cause>>

-----------------------------------------------------------------------------
(* Steps of a handler *)

Running(op) == window # "ended" /\ script # <<>> /\ Head(script).op = op

Step == Head(script)
Done == script' = Tail(script)
Skip(n) == script' = SubSeq(script, n + 2, Len(script))

\* An exception in a handler ends the process, and so does a null pointer.
Throw(why) ==
    /\ window' = "ended" /\ cause' = why
    /\ script' = <<>> /\ stage' = "idle" /\ left' = 0 /\ gathered' = <<>>
    /\ open' = FALSE /\ up' = <<>> /\ edge' = FALSE /\ reply' = <<>> /\ wire' = <<>>

\* sendToServer, in one piece or, above INPUT_BUFFER_SIZE, in two.
Pieces(r) ==
    IF r.op = "ask" /\ r.size = "overlong"
    THEN <<[req |-> r, part |-> "head"], [req |-> r, part |-> "tail"]>>
    ELSE <<[req |-> r, part |-> "whole"]>>

Post(r) ==
    /\ up' = IF open THEN up \o Pieces(r) ELSE up
    /\ edge' = open
    /\ stage' = "code"

SendAsk ==
    /\ Running("ask") /\ stage = "idle" /\ Step.size # "refused"
    /\ Post(Step)
    /\ saw' = IF Step.size = "overlong" THEN saw \cup {"overlong"} ELSE saw
    /\ UNCHANGED <<window, script, handlers, left, gathered, widgetVars, paperVars, outputVars,
                   open, reply, wire, cause>>

\* More than BUFF_LENGTH bytes are not sent, and the handler returns.
SendRefused ==
    /\ Running("ask") /\ stage = "idle" /\ Step.size = "refused"
    /\ Skip(Step.skip)
    /\ UNCHANGED <<handlers, window, recvVars, widgetVars, paperVars, outputVars, linkVars,
                   saw, cause>>

\* The list is cleared before the command is sent.
SendGet ==
    /\ Running("get") /\ stage = "idle"
    /\ Post(Step)
    /\ shown' = [shown EXCEPT ![Step.list] = <<>>]
    /\ current' = [current EXCEPT ![Step.list] = Absent]
    /\ UNCHANGED <<window, script, handlers, left, gathered, enabled, paperVars, outputVars,
                   open, reply, wire, saw, cause>>

\* recv returns all there is: nothing when the server has closed.  That, and
\* two messages in one, is no JSON; a key that is missing has no type.
Unparsed == Len(wire) # 1 \/ ~Head(wire).readable

Mistyped(m) ==
    \/ stage = "name" /\ m.key # Step.list
    \/ stage = "code" /\ m.code = 200 /\ Step.op = "get" /\ m.counts = Absent
    \/ stage = "code" /\ m.code = 200 /\ Step.op = "ask"
       /\ Step.cmd = "read question" /\ m.key # "text"

ReceiveUnusable ==
    /\ stage # "idle" /\ (wire # <<>> \/ ~open)
    /\ IF Unparsed THEN Throw("parse") ELSE Mistyped(Head(wire)) /\ Throw("type")
    /\ UNCHANGED <<handlers, widgetVars, paperVars, outputVars, saw>>

Receive(m, expected) ==
    /\ stage = expected
    /\ wire = <<m>> /\ ~Unparsed /\ ~Mistyped(m)
    /\ wire' = <<>>
    /\ UNCHANGED <<up, edge, reply>>

\* The dialog of the identity opens and fetches its list; "rule maker" is none
\* it knows.  A client that is not passed on to a dialog is closed.
ReceiveLogin(m) ==
    /\ Running("ask") /\ Step.cmd = "login"
    /\ stage = "code" /\ wire = <<m>> /\ ~Unparsed
    /\ stage' = "idle" /\ wire' = <<>>
    /\ \/ /\ m.code = 200 /\ m.value = "admin"
          /\ window' = "admin" /\ script' = <<Get("users")>>
          /\ UNCHANGED <<paper, canMakePaper, open, up, edge, reply>>
       \/ /\ m.code = 200 /\ m.value = "teacher"
          /\ window' = "teacher" /\ script' = <<Get("subjects")>>
          /\ paper' = "hidden" /\ canMakePaper' = TRUE
          /\ UNCHANGED <<open, up, edge, reply>>
       \/ /\ m.code # 200 \/ m.value \notin {"admin", "teacher"}
          /\ script' = <<>>
          /\ open' = FALSE /\ up' = <<>> /\ edge' = FALSE /\ reply' = <<>>
          /\ UNCHANGED <<window, paper, canMakePaper>>
    /\ UNCHANGED <<handlers, left, gathered, widgetVars, questionsList, outputVars, saw, cause>>

\* read_question puts the text into the editor, output_paper into the file.
ReceiveCode(m) ==
    /\ Running("ask") /\ Step.cmd # "login" /\ Receive(m, "code")
    /\ stage' = "idle"
    /\ IF m.code = 200 THEN Done ELSE Skip(Step.skip)
    /\ texts' = IF m.code = 200 /\ Last(script).op = "finish"
                THEN Append(texts, m.value) ELSE texts
    /\ UNCHANGED <<handlers, window, left, gathered, widgetVars, paperVars, file, open, saw, cause>>

\* The delete button of a list is disabled when the list is shown anew.
DeleteOf == [users |-> "userDelete", subjects |-> "subjectDelete",
             chapters |-> "chapterDelete", questions |-> "questionDelete"]

\* Mutant: the delete button stays as it is.
ShowKeep(names) ==
    LET l == Step.list IN
    /\ shown' = [shown EXCEPT ![l] = names]
    /\ UNCHANGED <<current, enabled>>
    /\ stage' = "idle" /\ left' = 0 /\ gathered' = <<>>
    /\ Done

\* addItems after the last name.  The list may have the focus, and then its
\* first item becomes the current one.
Show(names) ==
    LET l == Step.list IN
    /\ shown' = [shown EXCEPT ![l] = names]
    /\ \E x \in {Absent} \cup {names[i] : i \in DOMAIN names \cap {1}} :
          current' = [current EXCEPT ![l] = x]
    /\ enabled' = enabled \ {DeleteOf[l]}
    /\ stage' = "idle" /\ left' = 0 /\ gathered' = <<>>
    /\ Done

\* Mutant: one name less is received than was announced.
ReceiveHeaderShort(m) ==
    /\ Running("get") /\ Receive(m, "code")
    /\ m.code = 200 /\ m.counts > 0
    /\ stage' = "name" /\ left' = m.counts - 1
    /\ UNCHANGED <<window, script, handlers, gathered, widgetVars, paperVars, outputVars,
                   open, saw, cause>>

\* A list that is refused stays empty, its buttons as they are; what follows
\* the fetch in the handler is done all the same.
ReceiveHeader(m) ==
    /\ Running("get") /\ Receive(m, "code")
    /\ \/ /\ m.code = 200 /\ m.counts = 0
          /\ Show(<<>>)
          /\ UNCHANGED saw
       \/ /\ m.code = 200 /\ m.counts > 0
          /\ stage' = "name" /\ left' = m.counts
          /\ UNCHANGED <<script, gathered, widgetVars, saw>>
       \/ /\ m.code # 200
          /\ stage' = "idle" /\ Done
          /\ saw' = saw \cup {"refusal"}
          /\ UNCHANGED <<left, gathered, widgetVars>>
    /\ UNCHANGED <<handlers, window, paperVars, outputVars, open, cause>>

ReceiveName(m) ==
    /\ Running("get") /\ Receive(m, "name")
    /\ IF left > 1
       THEN /\ left' = left - 1 /\ gathered' = Append(gathered, m.value)
            /\ UNCHANGED <<script, stage, widgetVars>>
       ELSE Show(Append(gathered, m.value))
    /\ UNCHANGED <<handlers, window, paperVars, outputVars, open, saw, cause>>

SetButtons ==
    /\ Running("set")
    /\ enabled' = (enabled \cup Step.on) \ Step.off
    /\ Done
    /\ UNCHANGED <<handlers, window, recvVars, shown, current, paperVars, outputVars, linkVars, saw, cause>>

\* Mutant: paper.txt is opened for appending.
OverAppend(new, old) == old \o new

\* paper.txt is opened without being truncated: what an earlier paper has
\* beyond the length of this one stays.
Over(new, old) == new \o SubSeq(old, Len(new) + 1, Len(old))

\* The stream is flushed at the end, or when output_paper returns early.
FinishOutput ==
    /\ Running("finish")
    /\ file' = Over(texts, file)
    /\ texts' = <<>>
    /\ Done
    /\ UNCHANGED <<handlers, window, recvVars, widgetVars, paperVars, linkVars, saw, cause>>

\* The dialog is destroyed when its closing is signalled, before the login
\* dialog asks it to show its parent again: no window is left.
LeaveDialog ==
    /\ Running("leave")
    /\ window' = "none" /\ script' = <<>>
    /\ enabled' = {} /\ paper' = "absent" /\ canMakePaper' = FALSE /\ questionsList' = <<>>
    /\ open' = FALSE /\ up' = <<>> /\ edge' = FALSE /\ reply' = <<>> /\ wire' = <<>>
    /\ UNCHANGED <<handlers, recvVars, shown, current, outputVars, saw, cause>>

-----------------------------------------------------------------------------
(* Clicks *)

Free(w) == window = w /\ script = <<>>

Start(steps) ==
    /\ handlers < MaxHandlers
    /\ handlers' = handlers + 1
    /\ script' = steps
    /\ UNCHANGED <<window, recvVars, linkVars, saw, cause>>

\* The handler reads the current item of these lists without asking for null.
Needs(lists, steps) ==
    IF \E l \in lists : current[l] = Absent
    THEN Throw("item") /\ UNCHANGED <<handlers, saw>>
    ELSE Start(steps)

\* A name that is typed in is put into the request as it is: a quote in it makes
\* json::parse of the request throw.  (Texts of questions are escaped.)
TypedQuote == Throw("typed") /\ UNCHANGED <<handlers, saw>>

Login ==
    /\ Free("login")
    /\ \/ /\ script' = <<Ask("login", 0)>>
          /\ open' = TRUE /\ up' = <<>> /\ edge' = FALSE /\ reply' = <<>> /\ wire' = <<>>
          /\ saw' = {}
          /\ UNCHANGED <<handlers, window, recvVars, cause>>
       \/ TypedQuote
    /\ UNCHANGED <<widgetVars, paperVars, outputVars>>

Logout ==
    /\ Free("admin") \/ Free("teacher")
    /\ Start(<<Ask("logout", 1), Leave>>)
    /\ UNCHANGED <<widgetVars, paperVars, outputVars>>

\* A click on an item makes it the current one and enables buttons.
On == [users |-> {"userDelete"},
       subjects |-> {"chapterCreate", "subjectDelete"},
       chapters |-> {"questionCreate", "chapterDelete"},
       questions |-> {"questionDelete"}]

ClickItem(l, x) ==
    /\ Free(IF l = "users" THEN "admin" ELSE "teacher")
    /\ Contains(shown[l], x)
    /\ current' = [current EXCEPT ![l] = x]
    /\ enabled' = enabled \cup On[l]
                  \cup (IF l = "questions" /\ canMakePaper THEN {"addPaper"} ELSE {})
    /\ UNCHANGED <<window, script, handlers, recvVars, shown, paperVars, outputVars, linkVars, saw, cause>>

\* A double click comes after a click on the same item.
DoubleClickSubject ==
    /\ Free("teacher") /\ current["subjects"] # Absent
    /\ Start(<<Get("chapters"),
               Set({"chapterCreate"}, {"chapterDelete", "questionDelete", "addPaper"})>>)
    /\ UNCHANGED <<widgetVars, paperVars, outputVars>>

DoubleClickChapter ==
    /\ Free("teacher") /\ current["chapters"] # Absent
    /\ Needs({"subjects"},
             <<Get("questions"), Set({"questionCreate"}, {"questionDelete", "addPaper"})>>)
    /\ UNCHANGED <<widgetVars, paperVars, outputVars>>

CurrentEntry == <<current["subjects"], current["chapters"], current["questions"]>>

DoubleClickQuestion ==
    /\ Free("teacher") /\ current["questions"] # Absent
    /\ enabled' = enabled \cup {"store"}
    /\ Needs({"subjects", "chapters"}, <<Read(CurrentEntry, 0)>>)
    /\ UNCHANGED <<shown, current, paperVars, outputVars>>

Press(w, button) == Free(w) /\ button \in enabled

DeleteUser ==
    /\ Press("admin", "userDelete")
    /\ Needs({"users"}, <<Ask("delete user", 1), Get("users")>>)
    /\ UNCHANGED <<widgetVars, paperVars, outputVars>>

RegisterUser ==
    /\ Free("admin")
    /\ Start(<<Ask("register user", 1), Get("users")>>) \/ TypedQuote
    /\ UNCHANGED <<widgetVars, paperVars, outputVars>>

CreateSubject ==
    /\ Free("teacher")
    /\ \/ Start(<<Ask("write subject", 2), Get("subjects"),
                  Set({}, {"chapterDelete", "questionDelete"})>>)
       \/ TypedQuote
    /\ UNCHANGED <<widgetVars, paperVars, outputVars>>

CreateChapter ==
    /\ Press("teacher", "chapterCreate")
    /\ \/ Needs({"subjects"}, <<Ask("write chapter", 2), Get("chapters"),
                                Set({}, {"questionDelete"})>>)
       \/ current["subjects"] # Absent /\ TypedQuote
    /\ UNCHANGED <<widgetVars, paperVars, outputVars>>

\* What delete_subject and delete_chapter do after a 200 is left out: the
\* server has no such commands.
DeleteSubject ==
    /\ Press("teacher", "subjectDelete")
    /\ Needs({"subjects"}, <<Ask("delete subject", 0)>>)
    /\ UNCHANGED <<widgetVars, paperVars, outputVars>>

DeleteChapter ==
    /\ Press("teacher", "chapterDelete")
    /\ Needs({"subjects", "chapters"}, <<Ask("delete chapter", 0)>>)
    /\ UNCHANGED <<widgetVars, paperVars, outputVars>>

CreateQuestion ==
    /\ Press("teacher", "questionCreate")
    /\ Needs({"subjects", "chapters"}, <<Write("short", 1), Get("questions")>>)
    /\ UNCHANGED <<widgetVars, paperVars, outputVars>>

\* The list is fetched whatever the server answered.
DeleteQuestion ==
    /\ Press("teacher", "questionDelete")
    /\ Needs({"subjects", "chapters", "questions"},
             <<Ask("delete question", 0), Get("questions")>>)
    /\ UNCHANGED <<widgetVars, paperVars, outputVars>>

\* Bound: one overlong text on a connection.
StoreQuestion ==
    /\ Press("teacher", "store")
    /\ \E size \in {"short", "refused"} \cup ({"overlong"} \ saw) :
          Needs({"subjects", "chapters", "questions"},
                <<Write(size, 1), Get("questions"), Set({}, {"store"})>>)
    /\ UNCHANGED <<widgetVars, paperVars, outputVars>>

-----------------------------------------------------------------------------
(* The paper *)

\* The signal add_question_to_paper reaches the panel if there is one.
AddToPaper ==
    /\ Press("teacher", "addPaper") /\ Len(questionsList) < MaxPaper
    /\ IF Absent \in ToSet(CurrentEntry)
       THEN Throw("item") /\ UNCHANGED questionsList
       ELSE /\ questionsList' = IF paper = "absent" THEN questionsList
                                ELSE Append(questionsList, CurrentEntry)
            /\ UNCHANGED <<window, script, recvVars, linkVars, cause>>
    /\ UNCHANGED <<handlers, widgetVars, paper, canMakePaper, outputVars, saw>>

OpenPaper ==
    /\ Free("teacher")
    /\ paper' = "shown"
    /\ canMakePaper' = (canMakePaper \/ paper = "absent")
    /\ UNCHANGED <<window, script, handlers, recvVars, widgetVars, questionsList, outputVars,
                   linkVars, saw, cause>>

HidePaper ==
    /\ Free("teacher") /\ paper = "shown"
    /\ paper' = "hidden"
    /\ UNCHANGED <<window, script, handlers, recvVars, widgetVars, canMakePaper, questionsList,
                   outputVars, linkVars, saw, cause>>

\* Mutant: the button that adds questions is left enabled.
ClosePaperEnabled ==
    /\ Free("teacher") /\ paper = "shown"
    /\ paper' = "absent" /\ questionsList' = <<>> /\ canMakePaper' = FALSE
    /\ UNCHANGED <<window, script, handlers, recvVars, widgetVars, outputVars, linkVars,
                   saw, cause>>

\* closeEvent: the main window drops the panel and with it the list.
ClosePaper ==
    /\ Free("teacher") /\ paper = "shown"
    /\ paper' = "absent" /\ questionsList' = <<>> /\ canMakePaper' = FALSE
    /\ enabled' = enabled \ {"addPaper"}
    /\ UNCHANGED <<window, script, handlers, recvVars, shown, current, outputVars, linkVars, saw, cause>>

\* removeOne removes the first question of that name.
RemoveFromPaper ==
    /\ Free("teacher") /\ paper = "shown"
    /\ \E e \in ToSet(questionsList) : questionsList' = RemoveFirst(questionsList, e)
    /\ UNCHANGED <<window, script, handlers, recvVars, widgetVars, paper, canMakePaper,
                   outputVars, linkVars, saw, cause>>

OutputPaper ==
    /\ Free("teacher") /\ paper = "shown" /\ questionsList # <<>>
    /\ LET n == Len(questionsList) IN
       Start(Append([i \in 1 .. n |-> Read(questionsList[i], n - i)], Finish))
    /\ UNCHANGED <<widgetVars, paperVars, outputVars>>

-----------------------------------------------------------------------------

HandlerStep ==
    \/ SendAsk \/ SendRefused \/ SendGet \/ ReceiveUnusable
    \/ \E m \in ToSet(wire) :
          ReceiveLogin(m) \/ ReceiveCode(m) \/ ReceiveHeader(m) \/ ReceiveName(m)
    \/ SetButtons \/ FinishOutput \/ LeaveDialog

Click ==
    \/ Login \/ Logout
    \/ \E l \in Lists, x \in Name : ClickItem(l, x)
    \/ DoubleClickSubject \/ DoubleClickChapter \/ DoubleClickQuestion
    \/ DeleteUser \/ RegisterUser \/ CreateSubject \/ DeleteSubject
    \/ CreateChapter \/ DeleteChapter
    \/ CreateQuestion \/ DeleteQuestion \/ StoreQuestion
    \/ AddToPaper \/ OpenPaper \/ HidePaper \/ ClosePaper \/ RemoveFromPaper \/ OutputPaper

Next == Serve \/ SendMessage \/ ServerCloses \/ HandlerStep \/ Click

Spec == Init /\ [][Next]_vars

FairSpec == Spec /\ WF_vars(Serve) /\ WF_vars(SendMessage) /\ WF_vars(HandlerStep)

-----------------------------------------------------------------------------
(* Properties *)

\* Neither a wrong count nor an overlong request on this connection so far.
InStep == saw \cap {"miscount", "overlong"} = {}

\* Between two requests nothing is under way in either direction: what the next
\* handler receives answers its own request.  This is all that makes a reply
\* without any number belong to a request.
IdleIsQuiet ==
    window \in {"admin", "teacher"} /\ script = <<>> /\ InStep
        => up = <<>> /\ reply = <<>> /\ wire = <<>>

\* A reply ends the process by an exception only if the front-end was late for
\* a message, the server closed, a text has a quote in it, or an earlier request
\* was overlong or miscounted; never because of the keys of a reply in step.
ExceptionHasCause ==
    /\ cause = "type" => ~InStep
    /\ cause = "parse" => ~InStep \/ saw \cap {"late", "quote", "close"} # {}

\* The buttons that delete a user, subject or chapter can be clicked only with
\* one selected ("non-touchable to prevent misuse"), unless a list was refused.
DeleteHasSelection ==
    window \in {"admin", "teacher"} /\ script = <<>> /\ "refusal" \notin saw =>
        /\ "userDelete" \in enabled => current["users"] # Absent
        /\ "subjectDelete" \in enabled => current["subjects"] # Absent
        /\ "chapterDelete" \in enabled => current["chapters"] # Absent

\* A question is added only while there is a paper to add it to.
AddedIsKept == "addPaper" \in enabled => paper # "absent"

\* A paper that is complete starts with its questions' texts in their order.
PaperIsTheList ==
    [][FinishOutput /\ Len(texts) = Len(questionsList) /\ InStep
         => IsPrefix(questionsList, file')]_vars

\* A handler that waits for a reply goes on, unless a count was wrong or a
\* request overlong: the commands of the two dialogs are all answered.
HandlerReturns ==
    (stage # "idle") ~> (stage = "idle" \/ ~InStep)
=============================================================================
