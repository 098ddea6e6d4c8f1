--------------------------- MODULE FrontEndLemmas ---------------------------
(* The invariant of FrontEnd, and what its messages, scripts and clicks are.  *)
EXTENDS FrontEnd, SequenceTheorems, WellFoundedInduction, TLAPS

-----------------------------------------------------------------------------
(* The invariant *)

AskSteps ==
    {r \in [op : {"ask"}, cmd : Asks, skip : Nat, entry : Entry \cup {Absent},
            size : {"short", "overlong", "refused"}] :
       r.cmd = "read question" => r.entry \in Entry}

GetSteps == [op : {"get"}, list : Lists]

\* No handler enables a button that deletes, or the one that adds to the paper.
SetSteps == [op : {"set"}, on : SUBSET {"chapterCreate", "questionCreate"}, off : SUBSET Buttons]

Steps == AskSteps \cup GetSteps \cup SetSteps \cup {Finish, Leave}

Requests == AskSteps \cup GetSteps

Pieced == [req : Requests, part : {"whole", "head", "tail"}]

\* The key of a message says what its value is.
Mail == {m \in Messages : /\ m.key \in Lists => m.value \in Name
                          /\ m.key = "text" => m.value \in Entry}

\* TypeOK, and the types of what it leaves open, by what they are about.
RunTyped ==
    /\ window \in {"login", "admin", "teacher", "none", "ended"}
    /\ script \in Seq(Steps)
    /\ handlers \in 0 .. MaxHandlers
    /\ stage \in {"idle", "code", "name"}
    /\ left \in Nat /\ gathered \in Seq(Name)
    /\ texts \in Seq(Entry) /\ file \in Seq(Entry)
    /\ saw \subseteq Anomalies
    /\ cause \in {"none", "parse", "type", "item", "typed"}

WidgetsTyped ==
    /\ shown \in [Lists -> Seq(Name)]
    /\ current \in [Lists -> Name \cup {Absent}]
    /\ enabled \subseteq Buttons
    /\ paper \in {"absent", "hidden", "shown"} /\ canMakePaper \in BOOLEAN
    /\ questionsList \in Seq(Entry) /\ Len(questionsList) <= MaxPaper

\* The server has an event only for something to receive, and the head of a
\* request is followed by its tail.
LinkTyped ==
    /\ open \in BOOLEAN /\ edge \in BOOLEAN
    /\ up \in Seq(Pieced)
    /\ reply \in Seq(Mail) /\ wire \in Seq(Mail)
    /\ edge => up # <<>>
    /\ \A i \in 1 .. Len(up) : up[i].part = "head" => i < Len(up)

Typed == RunTyped /\ WidgetsTyped /\ LinkTyped

Output == script # <<>> /\ Last(script).op = "finish"

WindowFits == window \in {"none", "ended"} => script = <<>>

\* The login dialog logs in and does nothing else, and nobody else does.
LoginFits ==
    \A i \in 1 .. Len(script) :
        script[i].op = "ask" /\ script[i].cmd = "login" <=> window = "login"

\* The handler that outputs a paper reads questions; a failure ends its reading.
ReadsOnly ==
    \A i \in 1 .. Len(script) - 1 :
        /\ script[i].op = "ask" /\ script[i].cmd = "read question"
        /\ script[i].skip = Len(script) - 1 - i

ScriptFits == WindowFits /\ LoginFits /\ (Output => ReadsOnly)

\* recv is called by a step that asks.
Waiting ==
    /\ stage # "idle" => script # <<>> /\ Step \in Requests
    /\ stage = "name" => Step \in GetSteps /\ left > 0

\* A closed connection holds nothing the server has to receive or to send.
Closed == ~open => up = <<>> /\ reply = <<>>

\* What is unusual about what recv will find has been noted.
CloseSeen == ~open /\ (window \in {"admin", "teacher"} \/ script # <<>>) => "close" \in saw
LateSeen == Len(wire) > 1 => "late" \in saw
QuoteSeen == \A i \in 1 .. Len(wire) : ~wire[i].readable => "quote" \in saw

Linked == Waiting /\ Closed /\ CloseSeen /\ LateSeen /\ QuoteSeen

\* Messages of an answer to r, the code and the names.
CodeFits(m, r) ==
    /\ m.code \in {200, 403}
    /\ r.op = "get" /\ m.code = 200 => m.counts # Absent
    /\ r.op = "ask" => m.counts = Absent
    /\ r.op = "ask" /\ r.cmd = "read question" /\ m.code = 200
          => m.key = "text" /\ m.value = r.entry

NameFits(m, r) == m.key = r.list /\ m.counts = Absent

Fits(a, r) ==
    /\ CodeFits(a[1], r)
    /\ \A i \in 2 .. Len(a) : r.op = "get" /\ NameFits(a[i], r)
    /\ Len(a) > 1 => a[1].code = 200

\* As long as no count was wrong and no request overlong, what is on its way
\* belongs to the step that waits: its request, or the rest of its answer, with
\* as many names to come as were announced.
Talk ==
    LET rest == wire \o reply IN
    /\ stage = "idle" => up = <<>> /\ rest = <<>>
    /\ stage = "name" =>
          /\ up = <<>>
          /\ \A i \in 1 .. Len(rest) : NameFits(rest[i], Step)
          /\ open => Len(rest) = left
    /\ stage = "code" =>
          /\ up # <<>> => up = <<[req |-> Step, part |-> "whole"]>> /\ rest = <<>>
          /\ rest # <<>> => Fits(rest, Step)
          /\ wire # <<>> /\ wire[1].counts # Absent /\ open => Len(rest) - 1 = wire[1].counts

Conversation == InStep => Talk

\* The process ends for a cause only.
CauseFits == ExceptionHasCause /\ (window # "ended" => cause = "none")

\* A button that deletes waits for its list to be shown, or has a selection.
ButtonsFit ==
    /\ window = "login" => enabled = {}
    /\ window \in {"admin", "teacher"} /\ "refusal" \notin saw =>
          \A l \in Lists : DeleteOf[l] \in enabled =>
              \/ current[l] # Absent
              \/ stage # "idle" /\ Step.op = "get" /\ Step.list = l
    /\ canMakePaper => paper # "absent"
    /\ AddedIsKept

\* The texts received so far are those of the first questions of the paper,
TextsFit ==
    /\ Len(texts) <= Len(questionsList)
    /\ \A i \in 1 .. Len(texts) : texts[i] = questionsList[i]

\* and the next ones are read in their order, until one fails.
ReadsFit ==
    LET ahead == Len(script) - 1 IN
    ahead > 0 => /\ Len(texts) + ahead = Len(questionsList)
                 /\ \A i \in 1 .. ahead : script[i].entry = questionsList[Len(texts) + i]

PaperFits ==
    /\ texts # <<>> => Output \/ window = "ended"
    /\ InStep /\ Output => TextsFit /\ ReadsFit

FInv == Typed /\ ScriptFits /\ Linked /\ Conversation /\ CauseFits /\ ButtonsFit /\ PaperFits

-----------------------------------------------------------------------------
(* Messages and answers *)

LEMMA CodeMail ==
  /\ Code(200) \in Mail /\ Code(200).code = 200 /\ Code(200).counts = Absent
  /\ Code(403) \in Mail /\ Code(403).code = 403 /\ Code(403).counts = Absent
  <1>1. Code(200) \in Mail /\ Code(200).code = 200 /\ Code(200).counts = Absent
    BY DEF Mail, Messages, Code, Lists
  <1>2. Code(403) \in Mail /\ Code(403).code = 403 /\ Code(403).counts = Absent
    BY DEF Mail, Messages, Code, Lists
  <1>3. QED
    BY <1>1, <1>2, Zenon

LEMMA HeaderMail ==
  ASSUME NEW n \in Nat
  PROVE  /\ Header(n) \in Mail
         /\ Header(n).code = 200 /\ Header(n).counts = n
  BY DEF Mail, Messages, Code, Header, Lists

LEMMA ItemMail ==
  ASSUME NEW l \in Lists, NEW x \in Name
  PROVE  /\ Item(l, x) \in Mail
         /\ Item(l, x).key = l /\ Item(l, x).counts = Absent
  <1>1. Item(l, x) \in Messages
    BY ZenonT(60) DEF Item, Code, Messages
  <1>2. Item(l, x).key = l /\ Item(l, x).counts = Absent /\ Item(l, x).value = x
    BY DEF Item, Code
  <1>3. l # "text"
    BY DEF Lists
  <1>4. QED
    BY <1>1, <1>2, <1>3 DEF Mail

LEMMA IdentityMail ==
  ASSUME NEW i \in {"admin", "teacher", "rule maker"},
         NEW m, m = [Code(200) EXCEPT !.key = "identity", !.value = i]
  PROVE  m \in Mail /\ m.code = 200 /\ m.counts = Absent
  <1>1. m \in Messages /\ m.code = 200 /\ m.counts = Absent
    BY ZenonT(60) DEF Messages, Code
  <1>2. m.key = "identity"
    BY DEF Code
  <1>3. QED
    BY <1>1, <1>2 DEF Mail, Lists

\* A list is announced and sent name by name.
LEMMA ListingFits ==
  ASSUME NEW l \in Lists, NEW a \in Listing(l), NEW r, r.op = "get", r.list = l
  PROVE  a \in Seq(Mail) /\ a # <<>> /\ Fits(a, r)
  <1>0. PICK s \in Contents[l] : \E n \in Counts(l, Len(s)) :
            a = <<Header(n)>> \o [i \in DOMAIN s |-> Item(l, s[i])]
    BY DEF Listing
  <1>1. PICK n \in Counts(l, Len(s)) : a = <<Header(n)>> \o [i \in DOMAIN s |-> Item(l, s[i])]
    BY <1>0
  <1> DEFINE items == [i \in 1 .. Len(s) |-> Item(l, s[i])]
  <1>2. s \in Seq(Name) /\ DOMAIN s = 1 .. Len(s) /\ Len(s) \in Nat
    BY <1>0, ContentsAssumption
  <1>3. n \in Nat
    BY <1>1, <1>2 DEF Counts
  <1>4. items \in Seq(Mail) /\ Len(items) = Len(s)
    <2>1. \A i \in 1 .. Len(s) : Item(l, s[i]) \in Mail
      BY <1>2, ItemMail
    <2>2. QED
      BY <1>2, <2>1
  <1>5. <<Header(n)>> \in Seq(Mail) /\ Len(<<Header(n)>>) = 1 /\ <<Header(n)>>[1] = Header(n)
    <2>1. Header(n) \in Mail
      BY <1>3, HeaderMail
    <2>2. QED
      BY <2>1
  <1>6. a = <<Header(n)>> \o items
    BY <1>1, <1>2
  <1>7. \A i \in 1 .. Len(s) : items[i] = Item(l, s[i])
    OBVIOUS
  <1> HIDE DEF items
  <1>8. /\ a \in Seq(Mail) /\ Len(a) = 1 + Len(s) /\ a[1] = Header(n)
        /\ \A i \in 2 .. Len(a) : a[i] = items[i - 1]
    BY <1>2, <1>4, <1>5, <1>6, ConcatProperties
  <1>9. \A i \in 2 .. Len(a) : NameFits(a[i], r)
    <2> SUFFICES ASSUME NEW i \in 2 .. Len(a) PROVE NameFits(a[i], r)
      OBVIOUS
    <2>1. i - 1 \in 1 .. Len(s) /\ a[i] = Item(l, s[i - 1]) /\ s[i - 1] \in Name
      BY <1>2, <1>7, <1>8
    <2>2. QED
      BY <2>1, ItemMail DEF NameFits
  <1>10. CodeFits(a[1], r)
    <2>1. Header(n).code = 200 /\ Header(n).counts = n /\ n # Absent
      <3>1. n # Absent
        BY <1>3, NameAssumption
      <3>2. QED
        BY <1>3, <3>1, HeaderMail, Zenon
    <2>2. QED
      BY <1>8, <2>1 DEF CodeFits
  <1>11. QED
    <2>1. a # <<>> /\ a \in Seq(Mail)
      BY <1>2, <1>8
    <2>2. a[1].code = 200
      <3>1. Header(n).code = 200
        BY <1>3, HeaderMail, Zenon
      <3>2. a[1] = Header(n)
        BY <1>8
      <3>3. QED
        BY <3>1, <3>2, Zenon
    <2>3. \A i \in 2 .. Len(a) : r.op = "get" /\ NameFits(a[i], r)
      BY <1>9
    <2>4. QED
      BY <1>10, <2>1, <2>2, <2>3, Zenon DEF Fits

LEMMA OneMessageFits ==
  ASSUME NEW m \in Mail, NEW r, CodeFits(m, r)
  PROVE  <<m>> \in Seq(Mail) /\ <<m>> # <<>> /\ Fits(<<m>>, r)
  BY DEF Fits

\* What the server answers a request with fits the request.
LEMMA AnswersFit ==
  ASSUME NEW r \in Requests, NEW a \in Answers(r)
  PROVE  a \in Seq(Mail) /\ a # <<>> /\ Fits(a, r)
  <1>1. CASE a = <<Code(403)>>
    <2>1. ASSUME NEW m \in Mail, m.code = 403, m.counts = Absent PROVE CodeFits(m, r)
      BY <2>1 DEF CodeFits
    <2>2. QED
      BY <1>1, <2>1, CodeMail, OneMessageFits, ZenonT(60)
  <1>2. CASE r.op = "get" /\ a \in Listing(r.list)
    <2>1. r.list \in Lists
      BY <1>2 DEF Requests, AskSteps, GetSteps
    <2>2. QED
      BY <1>2, <2>1, ListingFits
  <1>3. CASE r.op = "ask" /\ a = <<Code(200)>> /\ r.cmd # "read question"
    <2>1. ASSUME NEW m \in Mail, m.code = 200, m.counts = Absent PROVE CodeFits(m, r)
      BY <1>3, <2>1 DEF CodeFits
    <2>2. QED
      <3>1. LET one == <<Code(200)>> IN one \in Seq(Mail) /\ one # <<>> /\ Fits(one, r)
        BY <2>1, CodeMail, OneMessageFits, ZenonT(60)
      <3>2. QED
        BY <1>3, <3>1
  <1>4. CASE /\ r.op = "ask" /\ r.cmd = "login"
             /\ \E i \in {"admin", "teacher", "rule maker"} :
                   a = <<[Code(200) EXCEPT !.key = "identity", !.value = i]>>
    <2>1. PICK i \in {"admin", "teacher", "rule maker"} :
              a = <<[Code(200) EXCEPT !.key = "identity", !.value = i]>>
      BY <1>4
    <2>2. PICK m : m = [Code(200) EXCEPT !.key = "identity", !.value = i] /\ a = <<m>>
      BY <2>1, Zenon
    <2>3. m \in Mail /\ m.counts = Absent /\ m.code = 200
      BY <2>1, <2>2, IdentityMail, ZenonT(60)
    <2>4. CodeFits(m, r)
      BY <1>4, <2>3 DEF CodeFits
    <2>5. QED
      BY <2>2, <2>3, <2>4, OneMessageFits, ZenonT(60)
  <1>5. CASE /\ r.op = "ask" /\ r.cmd = "read question"
             /\ \E b \in BOOLEAN :
                   a = <<[Code(200) EXCEPT !.key = "text", !.value = r.entry, !.readable = b]>>
    <2>1. PICK b \in BOOLEAN :
              a = <<[Code(200) EXCEPT !.key = "text", !.value = r.entry, !.readable = b]>>
      BY <1>5
    <2>2. PICK m : /\ m = [Code(200) EXCEPT !.key = "text", !.value = r.entry, !.readable = b]
                   /\ a = <<m>>
      BY <2>1, Zenon
    <2>3. r.entry \in Entry
      BY <1>5 DEF Requests, AskSteps, GetSteps
    <2>4. m \in Mail /\ m.counts = Absent /\ m.code = 200 /\ m.key = "text" /\ m.value = r.entry
      <3>1. m \in Messages /\ m.code = 200 /\ m.counts = Absent /\ m.key = "text" /\ m.value = r.entry
        BY <2>1, <2>2, <2>3, ZenonT(60) DEF Messages, Code
      <3>2. QED
        BY <2>3, <3>1 DEF Mail, Lists
    <2>5. CodeFits(m, r)
      BY <1>5, <2>4 DEF CodeFits
    <2>6. QED
      BY <2>2, <2>4, <2>5, OneMessageFits, ZenonT(60)
  <1>6. r.op \in {"ask", "get"}
    BY DEF Requests, AskSteps, GetSteps
  <1>7. QED
    BY <1>1, <1>2, <1>3, <1>4, <1>5, <1>6, ZenonT(60) DEF Answers

LEMMA StaleFits ==
  ASSUME NEW a \in Stale
  PROVE  a \in Seq(Mail)
  <1>1. ASSUME NEW l \in Lists, a \in Listing(l) PROVE a \in Seq(Mail)
    <2>1. Get(l).op = "get" /\ Get(l).list = l
      BY DEF Get
    <2>2. QED
      BY <1>1, <2>1, ListingFits, Zenon
  <1>2. \A m \in Mail : <<m>> \in Seq(Mail)
    OBVIOUS
  <1>3. <<Code(200)>> \in Seq(Mail) /\ <<Code(403)>> \in Seq(Mail)
    BY <1>2, CodeMail, Zenon
  <1> DEFINE some == UNION {Listing(l) : l \in Lists}
  <1>4. CASE a \in some
    BY <1>1, <1>4
  <1> HIDE DEF some
  <1>5. a = <<>> \/ a = <<Code(200)>> \/ a = <<Code(403)>> \/ a \in some
    BY Zenon DEF Stale, some
  <1>6. CASE a = <<>>
    BY <1>6
  <1>7. CASE a = <<Code(200)>>
    BY <1>3, <1>7
  <1>8. CASE a = <<Code(403)>>
    BY <1>3, <1>8
  <1>9. QED
    BY <1>4, <1>5, <1>6, <1>7, <1>8

LEMMA TypedIsTypeOK == Typed => TypeOK
  <1> SUFFICES ASSUME Typed PROVE TypeOK
    OBVIOUS
  <1>1. reply \in Seq(Messages) /\ wire \in Seq(Messages)
    BY DEF Typed, LinkTyped, Mail
  <1>2. \A i \in DOMAIN up : up[i].part \in {"whole", "head", "tail"}
    <2>1. up \in Seq(Pieced)
      BY DEF Typed, LinkTyped
    <2>2. \A p \in Pieced : p.part \in {"whole", "head", "tail"}
      BY DEF Pieced
    <2>3. QED
      BY <2>1, <2>2
  <1>3. QED
    BY <1>1, <1>2 DEF Typed, RunTyped, WidgetsTyped, LinkTyped, TypeOK

-----------------------------------------------------------------------------
(* Scripts *)

\* Steps of a handler that neither log in nor end an output.
Plain == {r \in Steps : r.op # "finish" /\ ~(r.op = "ask" /\ r.cmd = "login")}

LEMMA PlainSteps ==
  /\ \A cmd \in Asks \ {"login", "read question"}, n \in Nat : Ask(cmd, n) \in Plain
  /\ \A size \in {"short", "overlong", "refused"}, n \in Nat : Write(size, n) \in Plain
  /\ \A e \in Entry, n \in Nat : Read(e, n) \in Plain
  /\ \A l \in Lists : Get(l) \in Plain
  /\ \A on \in SUBSET {"chapterCreate", "questionCreate"}, off \in SUBSET Buttons :
        Set(on, off) \in Plain
  /\ Leave \in Plain
  <1>1. ASSUME NEW cmd \in Asks \ {"login", "read question"}, NEW n \in Nat
        PROVE  Ask(cmd, n) \in Plain
    BY DEF Plain, Steps, AskSteps, Ask, Request
  <1>2. ASSUME NEW size \in {"short", "overlong", "refused"}, NEW n \in Nat
        PROVE  Write(size, n) \in Plain
    BY DEF Plain, Steps, AskSteps, Request, Write, Asks
  <1>3. ASSUME NEW e \in Entry, NEW n \in Nat PROVE Read(e, n) \in Plain
    BY DEF Plain, Steps, AskSteps, Request, Read, Asks
  <1>4. ASSUME NEW l \in Lists PROVE Get(l) \in Plain
    BY DEF Plain, Steps, GetSteps, Get
  <1>5. ASSUME NEW on \in SUBSET {"chapterCreate", "questionCreate"}, NEW off \in SUBSET Buttons
        PROVE  Set(on, off) \in Plain
    BY DEF Plain, Steps, SetSteps, Set
  <1>6. Leave \in Plain
    BY DEF Plain, Steps, Leave
  <1>7. QED
    BY <1>1, <1>2, <1>3, <1>4, <1>5, <1>6

LEMMA PlainScript ==
  ASSUME NEW steps \in Seq(Plain)
  PROVE  /\ steps \in Seq(Steps)
         /\ \A i \in 1 .. Len(steps) : ~(steps[i].op = "ask" /\ steps[i].cmd = "login")
         /\ steps # <<>> => Last(steps).op # "finish"
  BY DEF Plain, Last

\* The step at the head of a script is one of the steps there are.
LEMMA HeadOfScript ==
  ASSUME RunTyped, script # <<>>
  PROVE  /\ Step = script[1] /\ Step \in Steps /\ Len(script) >= 1
         /\ Step.op \in {"ask", "get"} => Step \in Requests
         /\ Step.op = "get" => Step \in GetSteps
         /\ Step.op = "ask" => Step \in AskSteps
         /\ Step.op = "set" => Step \in SetSteps
  <1>1. Step = script[1] /\ Step \in Steps /\ Len(script) >= 1
    BY DEF RunTyped, Step
  <1>2. QED
    <2>1. /\ \A r \in AskSteps : r.op = "ask"
          /\ \A r \in GetSteps : r.op = "get"
          /\ \A r \in SetSteps : r.op = "set"
          /\ Finish.op = "finish" /\ Leave.op = "leave"
      BY DEF AskSteps, GetSteps, SetSteps, Finish, Leave
    <2>2. QED
      BY <1>1, <2>1 DEF Steps, Requests

\* What is left of a script after its first n steps.
LEMMA Advanced ==
  ASSUME RunTyped, ScriptFits, NEW n \in Nat \ {0},
         script' = SubSeq(script, n + 1, Len(script)), window' = window
  PROVE  /\ script' \in Seq(Steps)
         /\ Len(script') = IF n < Len(script) THEN Len(script) - n ELSE 0
         /\ \A i \in 1 .. Len(script') : i + n \in 1 .. Len(script) /\ script'[i] = script[i + n]
         /\ Output' => Output
         /\ ScriptFits'
  <1>1. /\ script' \in Seq(Steps)
        /\ Len(script') = IF n < Len(script) THEN Len(script) - n ELSE 0
        /\ \A i \in 1 .. Len(script') : i + n \in 1 .. Len(script) /\ script'[i] = script[i + n]
    BY SubSeqProperties DEF RunTyped
  <1>2. script \in Seq(Steps) /\ Len(script) \in Nat
    BY DEF RunTyped
  <1>3. ASSUME Output' PROVE Output /\ Len(script') = Len(script) - n
    <2>1. script' # <<>> /\ script'[Len(script')].op = "finish"
      BY <1>3 DEF Output, Last
    <2>2. Len(script') > 0
      BY <1>1, <2>1
    <2>3. Len(script') = Len(script) - n
      BY <1>1, <1>2, <2>2
    <2>4. Len(script') \in 1 .. Len(script')
      BY <1>2, <2>2, <2>3
    <2>5. script'[Len(script')] = script[Len(script)]
      <3>1. script'[Len(script')] = script[Len(script') + n]
        BY <1>1, <2>4
      <3>2. Len(script') + n = Len(script)
        BY <1>2, <2>3
      <3>3. QED
        BY <3>1, <3>2
    <2>6. script # <<>>
      BY <1>2, <2>2, <2>3
    <2>7. QED
      BY <2>1, <2>3, <2>5, <2>6 DEF Output, Last
  <1>4. WindowFits'
    <2>1. script = <<>> => Len(script') = 0
      BY <1>1
    <2>2. QED
      BY <1>1, <2>1 DEF ScriptFits, WindowFits
  <1>5. LoginFits'
    BY <1>1 DEF ScriptFits, LoginFits
  <1>6. Output' => ReadsOnly'
    <2> SUFFICES ASSUME Output', NEW i \in 1 .. Len(script') - 1
                 PROVE  /\ script'[i].op = "ask" /\ script'[i].cmd = "read question"
                        /\ script'[i].skip = Len(script') - 1 - i
      BY DEF ReadsOnly
    <2>1. script'[i] = script[i + n] /\ i + n \in 1 .. Len(script) - 1
      BY <1>1, <1>2, <1>3
    <2>2. /\ script[i + n].op = "ask" /\ script[i + n].cmd = "read question"
          /\ script[i + n].skip = Len(script) - 1 - (i + n)
      BY <1>3, <2>1 DEF ScriptFits, ReadsOnly
    <2>3. Len(script) - 1 - (i + n) = Len(script') - 1 - i
      BY <1>1, <1>2, <1>3
    <2>4. QED
      BY <2>1, <2>2, <2>3
  <1>7. QED
    BY <1>1, <1>3, <1>4, <1>5, <1>6 DEF ScriptFits

-----------------------------------------------------------------------------
(* Clicks *)

\* The paper is read question by question.
ReadsList ==
    /\ Len(script) - 1 = Len(questionsList)
    /\ \A i \in 1 .. Len(script) - 1 :
          script[i] = Read(questionsList[i], Len(script) - 1 - i)

\* What a click does to the script and the connection: it may begin a script,
Opened ==
    /\ window \in {"admin", "teacher"} /\ script = <<>>
    /\ UNCHANGED <<window, recvVars, linkVars, outputVars, saw, cause>>
    /\ handlers' \in 0 .. MaxHandlers
    /\ script' \in Seq(Steps)
    /\ \A i \in 1 .. Len(script') : ~(script'[i].op = "ask" /\ script'[i].cmd = "login")
    /\ Output' => ReadsList'

\* throw,
Thrown ==
    /\ window \in {"login", "admin", "teacher"} /\ script = <<>>
    /\ Throw("item") \/ Throw("typed")
    /\ UNCHANGED <<handlers, saw, outputVars>>

\* or connect.
Connects ==
    /\ window = "login" /\ script = <<>>
    /\ script' = <<Ask("login", 0)>>
    /\ open' = TRUE /\ up' = <<>> /\ edge' = FALSE /\ reply' = <<>> /\ wire' = <<>>
    /\ saw' = {}
    /\ UNCHANGED <<handlers, window, recvVars, cause, outputVars>>

LEMMA StartOpens ==
  ASSUME RunTyped, window \in {"admin", "teacher"}, script = <<>>, NEW steps \in Seq(Plain),
         Start(steps), UNCHANGED outputVars
  PROVE  Opened
  <1>1. handlers' \in 0 .. MaxHandlers
    BY BoundAssumption DEF Start, RunTyped
  <1>2. /\ script' \in Seq(Steps)
        /\ \A i \in 1 .. Len(script') : ~(script'[i].op = "ask" /\ script'[i].cmd = "login")
        /\ script' # <<>> => Last(script').op # "finish"
    BY PlainScript DEF Start
  <1>3. ~Output'
    BY <1>2 DEF Output
  <1>4. UNCHANGED <<window, recvVars, linkVars, saw, cause>>
    BY DEF Start
  <1>5. QED
    BY <1>1, <1>2, <1>3, <1>4 DEF Opened

LEMMA NeedsOpens ==
  ASSUME RunTyped, window \in {"admin", "teacher"}, script = <<>>, NEW steps \in Seq(Plain),
         NEW lists, Needs(lists, steps), UNCHANGED outputVars
  PROVE  Opened \/ Thrown
  <1>1. CASE Start(steps)
    BY <1>1, StartOpens
  <1>2. CASE Throw("item") /\ UNCHANGED <<handlers, saw>>
    BY <1>2 DEF Thrown
  <1>3. QED
    BY <1>1, <1>2 DEF Needs

LEMMA NothingOpens ==
  ASSUME RunTyped, window \in {"admin", "teacher"}, script = <<>>,
         UNCHANGED <<window, script, handlers, recvVars, linkVars, outputVars, saw, cause>>
  PROVE  Opened
  <1>1. script' = <<>> /\ ~Output'
    BY DEF Output
  <1>2. handlers' \in 0 .. MaxHandlers
    BY DEF RunTyped
  <1>3. QED
    BY <1>1, <1>2 DEF Opened

LEMMA OutputOpens ==
  ASSUME RunTyped, WidgetsTyped, OutputPaper
  PROVE  Opened
  <1> DEFINE n == Len(questionsList)
             reads == [i \in 1 .. n |-> Read(questionsList[i], n - i)]
  <1>1. questionsList \in Seq(Entry) /\ n \in Nat
    BY DEF WidgetsTyped
  <1>2. reads \in Seq(Plain) /\ Len(reads) = n
    <2>1. ASSUME NEW i \in 1 .. n PROVE Read(questionsList[i], n - i) \in Plain
      <3>1. questionsList[i] \in Entry /\ n - i \in Nat
        BY <1>1
      <3>2. QED
        BY <3>1, PlainSteps, Zenon
    <2>2. QED
      BY <1>1, <2>1
  <1>3. \A i \in 1 .. n : reads[i] = Read(questionsList[i], n - i)
    OBVIOUS
  <1>4. script' = Append(reads, Finish) /\ Start(script')
    BY DEF OutputPaper, Start
  <1>5. UNCHANGED <<window, recvVars, linkVars, outputVars, saw, cause, questionsList>>
    BY DEF OutputPaper, Start, paperVars
  <1> HIDE DEF reads
  <1>6. /\ script' \in Seq(Steps) /\ Len(script') = n + 1
        /\ \A i \in 1 .. n : script'[i] = reads[i]
        /\ script'[n + 1] = Finish
    <2>1. reads \in Seq(Steps) /\ Finish \in Steps
      BY <1>2, PlainScript DEF Steps
    <2>2. QED
      BY <1>1, <1>2, <1>4, <2>1, AppendProperties
  <1>7. \A i \in 1 .. Len(script') : ~(script'[i].op = "ask" /\ script'[i].cmd = "login")
    <2>1. \A i \in 1 .. n : ~(script'[i].op = "ask" /\ script'[i].cmd = "login")
      BY <1>2, <1>6, PlainScript
    <2>2. Finish.op # "ask"
      BY DEF Finish
    <2>3. QED
      BY <1>1, <1>6, <2>1, <2>2
  <1>8. ReadsList'
    <2>1. Len(script') - 1 = n
      BY <1>1, <1>6
    <2>2. \A i \in 1 .. n : script'[i] = Read(questionsList[i], n - i)
      BY <1>3, <1>6
    <2>3. QED
      BY <1>5, <2>1, <2>2 DEF ReadsList
  <1>9. handlers' \in 0 .. MaxHandlers
    BY <1>4, BoundAssumption DEF RunTyped, Start
  <1>10. window \in {"admin", "teacher"} /\ script = <<>>
    BY DEF OutputPaper, Free
  <1>11. QED
    BY <1>5, <1>6, <1>7, <1>8, <1>9, <1>10 DEF Opened

\* Short scripts of plain steps.
LEMMA ShortScripts ==
  /\ \A a \in Plain : <<a>> \in Seq(Plain)
  /\ \A a, b \in Plain : <<a, b>> \in Seq(Plain)
  /\ \A a, b, c \in Plain : <<a, b, c>> \in Seq(Plain)
  OBVIOUS

LEMMA LoginKinds ==
  ASSUME Login
  PROVE  Connects \/ Thrown
  BY DEF Login, TypedQuote, Free, Connects, Thrown

LEMMA AdminKinds ==
  ASSUME RunTyped, Logout \/ DeleteUser \/ RegisterUser
  PROVE  Opened \/ Thrown
  <1>1. /\ <<Ask("logout", 1), Leave>> \in Seq(Plain)
        /\ <<Ask("delete user", 1), Get("users")>> \in Seq(Plain)
        /\ <<Ask("register user", 1), Get("users")>> \in Seq(Plain)
    <2>1. "users" \in Lists /\ {"logout", "delete user", "register user"}
                                   \subseteq Asks \ {"login", "read question"} /\ 1 \in Nat
      BY DEF Lists, Asks
    <2>2. QED
      BY <2>1, PlainSteps, ShortScripts
  <1>2. CASE Logout
    BY <1>1, <1>2, StartOpens DEF Logout, Free
  <1>3. CASE DeleteUser
    BY <1>1, <1>3, NeedsOpens DEF DeleteUser, Press, Free
  <1>4. CASE RegisterUser
    BY <1>1, <1>4, StartOpens DEF RegisterUser, TypedQuote, Free, Thrown
  <1>5. QED
    BY <1>2, <1>3, <1>4

LEMMA OpenListKinds ==
  ASSUME RunTyped, WidgetsTyped,
         DoubleClickSubject \/ DoubleClickChapter \/ DoubleClickQuestion
  PROVE  Opened \/ Thrown
  <1>1. CASE DoubleClickSubject
    <2>1. "chapters" \in Lists /\ {"chapterCreate"} \in SUBSET {"chapterCreate", "questionCreate"}
          /\ {"chapterDelete", "questionDelete", "addPaper"} \in SUBSET Buttons
      BY DEF Lists, Buttons
    <2>2. <<Get("chapters"), Set({"chapterCreate"}, {"chapterDelete", "questionDelete", "addPaper"})>>
             \in Seq(Plain)
      BY <2>1, PlainSteps, ShortScripts
    <2>3. QED
      BY <1>1, <2>2, StartOpens DEF DoubleClickSubject, Free
  <1>2. CASE DoubleClickChapter
    <2>1. "questions" \in Lists /\ {"questionCreate"} \in SUBSET {"chapterCreate", "questionCreate"}
          /\ {"questionDelete", "addPaper"} \in SUBSET Buttons
      BY DEF Lists, Buttons
    <2>2. <<Get("questions"), Set({"questionCreate"}, {"questionDelete", "addPaper"})>> \in Seq(Plain)
      BY <2>1, PlainSteps, ShortScripts
    <2>3. QED
      BY <1>2, <2>2, NeedsOpens DEF DoubleClickChapter, Free
  <1>3. CASE DoubleClickQuestion
    <2>1. CASE \E l \in {"subjects", "chapters"} : current[l] = Absent
      BY <1>3, <2>1 DEF DoubleClickQuestion, Needs, Free, Thrown
    <2>2. CASE ~\E l \in {"subjects", "chapters"} : current[l] = Absent
      <3>1. CurrentEntry \in Entry
        BY <1>3, <2>2 DEF DoubleClickQuestion, CurrentEntry, Entry, WidgetsTyped, Lists
      <3>2. <<Read(CurrentEntry, 0)>> \in Seq(Plain)
        BY <3>1, PlainSteps, ShortScripts
      <3>3. QED
        BY <1>3, <2>2, <3>2, StartOpens DEF DoubleClickQuestion, Needs, Free
    <2>3. QED
      BY <2>1, <2>2
  <1>4. QED
    BY <1>1, <1>2, <1>3

LEMMA CreateKinds ==
  ASSUME RunTyped, CreateSubject \/ CreateChapter \/ CreateQuestion
  PROVE  Opened \/ Thrown
  <1>1. /\ {"write subject", "write chapter"} \subseteq Asks \ {"login", "read question"}
        /\ {"subjects", "chapters", "questions"} \subseteq Lists /\ {1, 2} \subseteq Nat
        /\ {} \in SUBSET {"chapterCreate", "questionCreate"}
        /\ {"chapterDelete", "questionDelete"} \in SUBSET Buttons
        /\ {"questionDelete"} \in SUBSET Buttons
    BY DEF Asks, Lists, Buttons
  <1>2. CASE CreateSubject
    <2>1. <<Ask("write subject", 2), Get("subjects"), Set({}, {"chapterDelete", "questionDelete"})>>
             \in Seq(Plain)
      BY <1>1, PlainSteps, ShortScripts
    <2>2. QED
      BY <1>2, <2>1, StartOpens DEF CreateSubject, TypedQuote, Free, Thrown
  <1>3. CASE CreateChapter
    <2>1. <<Ask("write chapter", 2), Get("chapters"), Set({}, {"questionDelete"})>> \in Seq(Plain)
      BY <1>1, PlainSteps, ShortScripts
    <2>2. QED
      BY <1>3, <2>1, NeedsOpens DEF CreateChapter, TypedQuote, Press, Free, Thrown
  <1>4. CASE CreateQuestion
    <2>1. <<Write("short", 1), Get("questions")>> \in Seq(Plain)
      BY <1>1, PlainSteps, ShortScripts
    <2>2. QED
      BY <1>4, <2>1, NeedsOpens DEF CreateQuestion, Press, Free
  <1>5. QED
    BY <1>2, <1>3, <1>4

LEMMA DeleteKinds ==
  ASSUME RunTyped, DeleteSubject \/ DeleteChapter \/ DeleteQuestion
  PROVE  Opened \/ Thrown
  <1>1. /\ {"delete subject", "delete chapter", "delete question"}
              \subseteq Asks \ {"login", "read question"}
        /\ "questions" \in Lists /\ 0 \in Nat
    BY DEF Asks, Lists
  <1>2. CASE DeleteSubject
    <2>1. <<Ask("delete subject", 0)>> \in Seq(Plain)
      BY <1>1, PlainSteps, ShortScripts
    <2>2. QED
      BY <1>2, <2>1, NeedsOpens DEF DeleteSubject, Press, Free
  <1>3. CASE DeleteChapter
    <2>1. <<Ask("delete chapter", 0)>> \in Seq(Plain)
      BY <1>1, PlainSteps, ShortScripts
    <2>2. QED
      BY <1>3, <2>1, NeedsOpens DEF DeleteChapter, Press, Free
  <1>4. CASE DeleteQuestion
    <2>1. <<Ask("delete question", 0), Get("questions")>> \in Seq(Plain)
      BY <1>1, PlainSteps, ShortScripts
    <2>2. QED
      BY <1>4, <2>1, NeedsOpens DEF DeleteQuestion, Press, Free
  <1>5. QED
    BY <1>2, <1>3, <1>4

LEMMA StoreKinds ==
  ASSUME RunTyped, StoreQuestion
  PROVE  Opened \/ Thrown
  <1>1. PICK size \in {"short", "refused"} \cup ({"overlong"} \ saw) :
            Needs({"subjects", "chapters", "questions"},
                  <<Write(size, 1), Get("questions"), Set({}, {"store"})>>)
    BY DEF StoreQuestion
  <1>2. <<Write(size, 1), Get("questions"), Set({}, {"store"})>> \in Seq(Plain)
    <2>1. /\ size \in {"short", "overlong", "refused"} /\ "questions" \in Lists /\ 1 \in Nat
          /\ {} \in SUBSET {"chapterCreate", "questionCreate"} /\ {"store"} \in SUBSET Buttons
      BY <1>1 DEF Lists, Buttons
    <2>2. QED
      BY <2>1, PlainSteps, ShortScripts
  <1>3. QED
    BY <1>1, <1>2, NeedsOpens DEF StoreQuestion, Press, Free

LEMMA PaperKinds ==
  ASSUME RunTyped, WidgetsTyped,
         \/ AddToPaper \/ OpenPaper \/ HidePaper \/ ClosePaper \/ RemoveFromPaper \/ OutputPaper
         \/ \E l \in Lists, x \in Name : ClickItem(l, x)
  PROVE  Opened \/ Thrown
  <1>1. CASE AddToPaper
    <2>1. CASE Throw("item")
      BY <1>1, <2>1 DEF AddToPaper, Press, Free, Thrown
    <2>2. CASE ~Throw("item")
      <3>1. UNCHANGED <<window, script, handlers, recvVars, linkVars, outputVars, saw, cause>>
        BY <1>1, <2>2 DEF AddToPaper
      <3>2. QED
        BY <1>1, <3>1, NothingOpens DEF AddToPaper, Press, Free
    <2>3. QED
      BY <2>1, <2>2
  <1>2. CASE OpenPaper \/ HidePaper \/ ClosePaper \/ RemoveFromPaper
    BY <1>2, NothingOpens DEF OpenPaper, HidePaper, ClosePaper, RemoveFromPaper, Free
  <1>3. CASE OutputPaper
    BY <1>3, OutputOpens
  <1>4. ASSUME NEW l \in Lists, NEW x \in Name, ClickItem(l, x) PROVE Opened
    BY <1>4, NothingOpens DEF ClickItem, Free
  <1>5. QED
    BY <1>1, <1>2, <1>3, <1>4

LEMMA ClickKinds ==
  ASSUME RunTyped, WidgetsTyped, Click
  PROVE  Opened \/ Thrown \/ Connects
  BY LoginKinds, AdminKinds, OpenListKinds, CreateKinds, DeleteKinds, StoreKinds, PaperKinds
  DEF Click
=============================================================================
