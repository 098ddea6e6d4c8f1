---------------------------- MODULE FrontEndProofs ----------------------------
(* What FrontEnd promises for every number of names, questions and handlers: *)
(* each part of its invariant is preserved by every step.                    *)
EXTENDS FrontEndLemmas

-----------------------------------------------------------------------------
(* How a step moves the script *)

Keeps == UNCHANGED <<window, script>>

Moves ==
    /\ script # <<>> /\ UNCHANGED window
    /\ \E n \in Nat \ {0} : script' = SubSeq(script, n + 1, Len(script))

Empties == script' = <<>>

Enters == window' \in {"admin", "teacher"} /\ script' \in {<<Get("users")>>, <<Get("subjects")>>}

LEMMA DoneMoves ==
  ASSUME RunTyped, script # <<>>, Done, UNCHANGED window
  PROVE  Moves
  <1>1. script' = SubSeq(script, 1 + 1, Len(script))
    BY TailIsSubSeq DEF RunTyped, Done
  <1>2. 1 \in Nat \ {0}
    OBVIOUS
  <1>3. QED
    BY <1>1, <1>2 DEF Moves

LEMMA SkipMoves ==
  ASSUME RunTyped, script # <<>>, Step.op = "ask", Skip(Step.skip), UNCHANGED window
  PROVE  Moves
  <1>1. Step.skip \in Nat
    BY HeadOfScript DEF AskSteps
  <1>2. Step.skip + 1 \in Nat \ {0} /\ (Step.skip + 1) + 1 = Step.skip + 2
    BY <1>1
  <1>3. QED
    BY <1>2 DEF Skip, Moves

\* What is received is a message with the value its key says.
LEMMA MailReceived ==
  ASSUME LinkTyped, NEW m \in ToSet(wire)
  PROVE  m \in Mail
  BY DEF LinkTyped, ToSet

LEMMA StepKinds ==
  ASSUME RunTyped, Serve \/ SendMessage \/ ServerCloses \/ HandlerStep
  PROVE  Keeps \/ Moves \/ Empties \/ Enters
  <1>1. CASE Serve \/ SendMessage \/ ServerCloses \/ SendAsk \/ SendGet
    BY <1>1 DEF Serve, SendMessage, ServerCloses, SendAsk, SendGet, Keeps
  <1>2. CASE SendRefused
    BY <1>2, SkipMoves DEF SendRefused, Running, Step
  <1>3. CASE ReceiveUnusable \/ LeaveDialog
    BY <1>3 DEF ReceiveUnusable, Throw, LeaveDialog, Empties
  <1>4. CASE SetButtons \/ FinishOutput
    BY <1>4, DoneMoves DEF SetButtons, FinishOutput, Running
  <1>5. ASSUME NEW m, ReceiveLogin(m) PROVE Empties \/ Enters
    BY <1>5 DEF ReceiveLogin, Empties, Enters
  <1>6. ASSUME NEW m, ReceiveCode(m) PROVE Moves
    <2>1. script # <<>> /\ Step.op = "ask" /\ UNCHANGED window /\ (Done \/ Skip(Step.skip))
      BY <1>6 DEF ReceiveCode, Running, Step
    <2>2. QED
      BY <2>1, DoneMoves, SkipMoves
  <1>7. ASSUME NEW m, ReceiveHeader(m) PROVE Keeps \/ Moves
    BY <1>7, DoneMoves DEF ReceiveHeader, Running, Show, Keeps
  <1>8. ASSUME NEW m, ReceiveName(m) PROVE Keeps \/ Moves
    BY <1>8, DoneMoves DEF ReceiveName, Running, Show, Keeps
  <1>9. QED
    BY <1>1, <1>2, <1>3, <1>4, <1>5, <1>6, <1>7, <1>8 DEF HandlerStep

LEMMA EmptyScript ==
  ASSUME script = <<>>
  PROVE  ScriptFits /\ ~Output
  BY DEF ScriptFits, WindowFits, LoginFits, Output

LEMMA EntersFits ==
  ASSUME Enters
  PROVE  ScriptFits' /\ ~Output' /\ script' \in Seq(Steps)
  <1>1. PICK r : r \in GetSteps /\ script' = <<r>>
    <2>1. Get("users") \in GetSteps /\ Get("subjects") \in GetSteps
      BY DEF Get, GetSteps, Lists
    <2>2. QED
      BY <2>1 DEF Enters
  <1>2. r.op = "get"
    BY <1>1 DEF GetSteps
  <1>3. Len(script') = 1 /\ script'[1] = r /\ Last(script') = r
    BY <1>1 DEF Last
  <1>4. LoginFits'
    BY <1>2, <1>3 DEF Enters, LoginFits
  <1>5. QED
    BY <1>1, <1>2, <1>3, <1>4 DEF ScriptFits, WindowFits, Output, Enters, Steps

LEMMA OpenedFits ==
  ASSUME Opened
  PROVE  ScriptFits'
  <1>1. WindowFits' /\ LoginFits'
    BY DEF Opened, WindowFits, LoginFits
  <1>2. ASSUME Output' PROVE ReadsOnly'
    <2>1. ReadsList' /\ Len(script') \in Nat
      BY <1>2 DEF Opened
    <2> SUFFICES ASSUME NEW i \in 1 .. Len(script') - 1
                 PROVE  /\ script'[i].op = "ask" /\ script'[i].cmd = "read question"
                        /\ script'[i].skip = Len(script') - 1 - i
      BY DEF ReadsOnly
    <2>2. PICK e, k : script'[i] = Read(e, k) /\ k = Len(script') - 1 - i
      BY <2>1 DEF ReadsList
    <2>3. Read(e, k).op = "ask" /\ Read(e, k).cmd = "read question" /\ Read(e, k).skip = k
      BY DEF Read, Request
    <2>4. QED
      BY <2>2, <2>3
  <1>3. QED
    BY <1>1, <1>2 DEF ScriptFits

LEMMA ConnectsFits ==
  ASSUME Connects
  PROVE  ScriptFits' /\ ~Output' /\ script' \in Seq(Steps)
  <1>1. PICK r : r \in AskSteps /\ script' = <<r>> /\ r.cmd = "login"
    <2>1. Ask("login", 0) \in AskSteps /\ Ask("login", 0).cmd = "login"
      BY DEF Ask, Request, AskSteps, Asks
    <2>2. QED
      BY <2>1 DEF Connects
  <1>2. r.op = "ask"
    BY <1>1 DEF AskSteps
  <1>3. Len(script') = 1 /\ script'[1] = r /\ Last(script') = r
    BY <1>1 DEF Last
  <1>4. LoginFits'
    BY <1>1, <1>2, <1>3 DEF Connects, LoginFits
  <1>5. QED
    BY <1>1, <1>2, <1>3, <1>4 DEF ScriptFits, WindowFits, Output, Connects, Steps

\* Every handler is one of those the clicks begin.
LEMMA ScriptStep ==
  ASSUME RunTyped, WidgetsTyped, ScriptFits, [Next]_vars
  PROVE  ScriptFits' /\ script' \in Seq(Steps)
  <1>1. script \in Seq(Steps)
    BY DEF RunTyped
  <1>2. CASE Keeps
    BY <1>1, <1>2 DEF Keeps, ScriptFits, WindowFits, LoginFits, Output, ReadsOnly
  <1>3. CASE Moves
    BY <1>3, Advanced DEF Moves
  <1>4. CASE Empties
    BY <1>4 DEF Empties, ScriptFits, WindowFits, LoginFits, Output
  <1>5. CASE Enters
    BY <1>5, EntersFits
  <1>6. CASE Click
    <2>1. CASE Opened
      BY <2>1, OpenedFits DEF Opened
    <2>2. CASE Thrown
      BY <1>4, <2>2 DEF Thrown, Throw, Empties
    <2>3. CASE Connects
      BY <2>3, ConnectsFits
    <2>4. QED
      BY <1>6, <2>1, <2>2, <2>3, ClickKinds
  <1>7. CASE UNCHANGED vars
    BY <1>2, <1>7 DEF vars, Keeps
  <1>8. QED
    BY <1>2, <1>3, <1>4, <1>5, <1>6, <1>7, StepKinds DEF Next

-----------------------------------------------------------------------------
(* Types *)

\* A handler that outputs a paper asks for its questions and for nothing else.
LEMMA OutputReads ==
  ASSUME RunTyped, ScriptFits, Output, Step.op # "finish"
  PROVE  /\ Len(script) > 1
         /\ Step.op = "ask" /\ Step.cmd = "read question" /\ Step.skip = Len(script) - 2
  <1>1. script # <<>> /\ script[Len(script)].op = "finish" /\ Step = script[1] /\ Len(script) \in Nat
    BY HeadOfScript DEF Output, Last, RunTyped
  <1>2. Len(script) > 1
    BY <1>1 DEF RunTyped
  <1>3. 1 \in 1 .. Len(script) - 1
    BY <1>1, <1>2
  <1>4. Len(script) - 1 - 1 = Len(script) - 2
    BY <1>1
  <1>5. QED
    BY <1>1, <1>2, <1>3, <1>4 DEF ScriptFits, ReadsOnly

\* A text that is received is a question's.
LEMMA TextReceived ==
  ASSUME RunTyped, ScriptFits, LinkTyped, NEW m \in ToSet(wire), ReceiveCode(m),
         m.code = 200, Last(script).op = "finish"
  PROVE  m.value \in Entry /\ Output /\ Step.op = "ask" /\ Step.cmd = "read question"
  <1>1. Output /\ Step.op = "ask"
    BY DEF ReceiveCode, Running, Step, Output
  <1>2. Step.cmd = "read question"
    BY <1>1, OutputReads
  <1>3. m.key = "text"
    BY <1>1, <1>2 DEF ReceiveCode, Receive, Mistyped
  <1>4. QED
    BY <1>1, <1>2, <1>3, MailReceived DEF Mail

\* A name that is received is one of the list asked for.
LEMMA NameReceived ==
  ASSUME RunTyped, LinkTyped, NEW m \in ToSet(wire), ReceiveName(m)
  PROVE  m.value \in Name /\ Step \in GetSteps /\ Step.list \in Lists
  <1>1. script # <<>> /\ Step.op = "get"
    BY DEF ReceiveName, Running, Step
  <1>2. Step \in GetSteps /\ Step.list \in Lists
    BY <1>1, HeadOfScript DEF GetSteps
  <1>3. m.key = Step.list
    BY DEF ReceiveName, Receive, Mistyped
  <1>4. QED
    BY <1>2, <1>3, MailReceived DEF Mail

\* A count that is received is a number.
LEMMA CountReceived ==
  ASSUME RunTyped, LinkTyped, NEW m \in ToSet(wire), ReceiveHeader(m)
  PROVE  /\ m.code = 200 => m.counts \in Nat
         /\ Step \in GetSteps /\ Step.list \in Lists
  <1>1. script # <<>> /\ Step.op = "get"
    BY DEF ReceiveHeader, Running, Step
  <1>2. Step \in GetSteps /\ Step.list \in Lists
    BY <1>1, HeadOfScript DEF GetSteps
  <1>3. m.code = 200 => m.counts # Absent
    BY <1>1 DEF ReceiveHeader, Receive, Mistyped
  <1>4. m.counts \in Nat \cup {Absent}
    <2>1. m \in Messages
      BY MailReceived DEF Mail
    <2>2. QED
      BY <2>1 DEF Messages
  <1>5. QED
    BY <1>2, <1>3, <1>4

LEMMA RunStep ==
  ASSUME RunTyped, WidgetsTyped, LinkTyped, ScriptFits, [Next]_vars
  PROVE  RunTyped'
  <1>0. script' \in Seq(Steps)
    BY ScriptStep
  <1>1. CASE Serve \/ ServerCloses \/ SendRefused \/ SetButtons \/ SendGet \/ LeaveDialog
    BY <1>0, <1>1 DEF Serve, ServerCloses, SendRefused, SetButtons, SendGet, LeaveDialog, Post,
                      recvVars, outputVars, RunTyped, Anomalies
  <1>2. CASE SendMessage
    BY <1>0, <1>2 DEF SendMessage, recvVars, outputVars, RunTyped, Anomalies
  <1>3. CASE SendAsk
    BY <1>0, <1>3 DEF SendAsk, Post, outputVars, RunTyped, Anomalies
  <1>4. CASE ReceiveUnusable
    BY <1>0, <1>4 DEF ReceiveUnusable, Throw, outputVars, RunTyped
  <1>5. ASSUME NEW m \in ToSet(wire), ReceiveLogin(m) PROVE RunTyped'
    BY <1>0, <1>5 DEF ReceiveLogin, outputVars, RunTyped
  <1>6. ASSUME NEW m \in ToSet(wire), ReceiveCode(m) PROVE RunTyped'
    <2>1. texts' \in Seq(Entry)
      <3>1. CASE m.code = 200 /\ Last(script).op = "finish"
        <4>1. texts' = Append(texts, m.value) /\ m.value \in Entry
          BY <1>6, <3>1, TextReceived DEF ReceiveCode
        <4>2. QED
          BY <4>1 DEF RunTyped
      <3>2. CASE ~(m.code = 200 /\ Last(script).op = "finish")
        BY <1>6, <3>2 DEF ReceiveCode, RunTyped
      <3>3. QED
        BY <3>1, <3>2
    <2>2. QED
      BY <1>0, <1>6, <2>1 DEF ReceiveCode, RunTyped
  <1>7. ASSUME NEW m \in ToSet(wire), ReceiveHeader(m) PROVE RunTyped'
    <2>1. /\ UNCHANGED <<handlers, window, texts, file, cause>>
          /\ stage' \in {"idle", "name"} /\ saw' \in {saw, saw \cup {"refusal"}}
      BY <1>7 DEF ReceiveHeader, Show, outputVars
    <2>2. (gathered' = <<>> \/ gathered' = gathered) /\ left' \in {0, left, m.counts}
      BY <1>7 DEF ReceiveHeader, Show
    <2>3. m.code # 200 => left' = left
      BY <1>7 DEF ReceiveHeader
    <2>4. left' \in Nat
      BY <1>7, <2>2, <2>3, CountReceived DEF RunTyped
    <2>5. gathered' \in Seq(Name)
      BY <2>2, EmptySeq DEF RunTyped
    <2>6. QED
      BY <1>0, <2>1, <2>4, <2>5 DEF RunTyped, Anomalies
  <1>8. ASSUME NEW m \in ToSet(wire), ReceiveName(m) PROVE RunTyped'
    <2>1. UNCHANGED <<handlers, window, texts, file, saw, cause>> /\ stage' \in {"idle", stage}
      BY <1>8 DEF ReceiveName, Show, outputVars
    <2>2. left' \in {0, left - 1} /\ (left > 1 \/ left' = 0)
      BY <1>8 DEF ReceiveName, Show
    <2>3. gathered' = <<>> \/ gathered' = Append(gathered, m.value)
      BY <1>8 DEF ReceiveName, Show
    <2>4. left' \in Nat
      BY <2>2 DEF RunTyped
    <2>5. gathered' \in Seq(Name)
      <3>1. m.value \in Name /\ gathered \in Seq(Name)
        BY <1>8, NameReceived DEF RunTyped
      <3>2. Append(gathered, m.value) \in Seq(Name)
        BY <3>1, AppendProperties
      <3>3. QED
        BY <2>3, <3>2, EmptySeq
    <2>6. QED
      BY <1>0, <2>1, <2>4, <2>5 DEF RunTyped
  <1>9. CASE FinishOutput
    <2>1. file' \in Seq(Entry)
      <3>1. SubSeq(file, Len(texts) + 1, Len(file)) \in Seq(Entry)
        BY SubSeqProperties DEF RunTyped
      <3>2. texts \in Seq(Entry) /\ file' = texts \o SubSeq(file, Len(texts) + 1, Len(file))
        BY <1>9 DEF FinishOutput, Over, RunTyped
      <3>3. QED
        BY <3>1, <3>2, ConcatProperties
    <2>2. QED
      BY <1>0, <1>9, <2>1 DEF FinishOutput, recvVars, RunTyped
  <1>10. CASE Click
    <2>1. CASE Opened
      BY <1>0, <2>1 DEF Opened, recvVars, outputVars, RunTyped
    <2>2. CASE Thrown
      BY <1>0, <2>2 DEF Thrown, Throw, outputVars, RunTyped
    <2>3. CASE Connects
      BY <1>0, <2>3 DEF Connects, recvVars, outputVars, RunTyped
    <2>4. QED
      BY <1>10, <2>1, <2>2, <2>3, ClickKinds
  <1>11. CASE UNCHANGED vars
    BY <1>0, <1>11 DEF vars, recvVars, outputVars, RunTyped
  <1>12. QED
    BY <1>1, <1>2, <1>3, <1>4, <1>5, <1>6, <1>7, <1>8, <1>9, <1>10, <1>11 DEF Next, HandlerStep

\* A request is on its way in one piece or two.
LEMMA PostTyped ==
  ASSUME LinkTyped, NEW r \in Requests, Post(r)
  PROVE  /\ up' \in Seq(Pieced) /\ edge' \in BOOLEAN
         /\ edge' => up' # <<>>
         /\ \A i \in 1 .. Len(up') : up'[i].part = "head" => i < Len(up')
  <1>1. CASE ~open
    BY <1>1 DEF Post, LinkTyped
  <1>2. CASE open
    <2>0. up' = up \o Pieces(r) /\ edge' = TRUE /\ up \in Seq(Pieced)
      BY <1>2 DEF Post, LinkTyped
    <2>1. CASE Pieces(r) = <<[req |-> r, part |-> "whole"]>>
      <3>1. PICK p \in Pieced : p.part = "whole" /\ Pieces(r) = <<p>>
        BY <2>1 DEF Pieced
      <3>2. up' = Append(up, p)
        BY <2>0, <3>1, AppendIsConcat
      <3>3. /\ up' \in Seq(Pieced) /\ up' # <<>> /\ Len(up') = Len(up) + 1 /\ Len(up) \in Nat
            /\ \A i \in 1 .. Len(up) : up'[i] = up[i]
            /\ up'[Len(up) + 1] = p
        BY <2>0, <3>1, <3>2, AppendProperties
      <3>4. ASSUME NEW i \in 1 .. Len(up'), up'[i].part = "head" PROVE i < Len(up')
        <4>1. i # Len(up) + 1
          BY <3>1, <3>3, <3>4
        <4>2. QED
          BY <3>3, <3>4, <4>1
      <3>5. QED
        BY <2>0, <3>3, <3>4
    <2>2. CASE Pieces(r) = <<[req |-> r, part |-> "head"], [req |-> r, part |-> "tail"]>>
      <3>1. PICK p \in Pieced, q \in Pieced : q.part = "tail" /\ Pieces(r) = <<p, q>>
        BY <2>2 DEF Pieced
      <3>2. <<p, q>> \in Seq(Pieced) /\ Len(<<p, q>>) = 2 /\ <<p, q>>[2] = q
        OBVIOUS
      <3>3. /\ up' \in Seq(Pieced) /\ Len(up') = Len(up) + 2 /\ Len(up) \in Nat
            /\ up'[Len(up) + 2] = q
        BY <2>0, <3>1, <3>2, ConcatProperties
      <3>4. ASSUME NEW i \in 1 .. Len(up'), up'[i].part = "head" PROVE i < Len(up')
        <4>1. i # Len(up) + 2
          BY <3>1, <3>3, <3>4
        <4>2. QED
          BY <3>3, <4>1
      <3>5. up' # <<>>
        BY <3>3
      <3>6. QED
        BY <2>0, <3>3, <3>4, <3>5
    <2>3. QED
      BY <2>1, <2>2 DEF Pieces
  <1>3. QED
    BY <1>1, <1>2 DEF LinkTyped


\* The server receives the first piece, and what follows a head.
LEMMA ServeTyped ==
  ASSUME LinkTyped, Serve
  PROVE  LinkTyped'
  <1>1. open' = open /\ wire' = wire /\ up # <<>> /\ up \in Seq(Pieced) /\ Len(up) \in Nat
    BY DEF Serve, LinkTyped
  <1>2. Head(up) = up[1] /\ up[1] \in Pieced /\ Head(up).req \in Requests
    <2>1. Head(up) = up[1] /\ up[1] \in Pieced
      BY <1>1
    <2>2. \A p \in Pieced : p.req \in Requests
      BY DEF Pieced
    <2>3. QED
      BY <2>1, <2>2
  <1>3. reply' \in Seq(Mail)
    <2>1. CASE reply' \in Answers(Head(up).req)
      BY <1>2, <2>1, AnswersFit
    <2>2. CASE reply' \in Stale
      BY <2>2, StaleFits
    <2>3. QED
      BY <2>1, <2>2 DEF Serve
  <1>4. edge' \in BOOLEAN /\ (edge' => Head(up).part = "head")
    BY DEF Serve
  <1>5. CASE up' = Tail(up)
    <2>1. /\ up' \in Seq(Pieced) /\ Len(up') = Len(up) - 1
          /\ \A i \in 1 .. Len(up') : up'[i] = up[i + 1]
      BY <1>1, <1>5, HeadTailProperties
    <2>2. edge' => up' # <<>>
      <3>1. up[1].part = "head" => 1 < Len(up)
        BY <1>1 DEF LinkTyped
      <3>2. Len(up) > 1 => Len(up') > 0
        BY <1>1, <2>1
      <3>3. QED
        BY <1>1, <1>2, <1>4, <2>1, <3>1, <3>2
    <2>3. \A i \in 1 .. Len(up') : up'[i].part = "head" => i < Len(up')
      <3>1. \A i \in 1 .. Len(up') : up[i + 1].part = "head" => i + 1 < Len(up)
        BY <1>1, <2>1 DEF LinkTyped
      <3>2. QED
        BY <1>1, <2>1, <3>1
    <2>4. QED
      BY <1>1, <1>3, <1>4, <2>1, <2>2, <2>3 DEF LinkTyped
  <1>6. CASE Head(up).part = "tail" /\ up' = <<>>
    <2>1. ~edge'
      BY <1>4, <1>6
    <2>2. QED
      BY <1>1, <1>3, <1>4, <1>6, <2>1 DEF LinkTyped
  <1>7. QED
    BY <1>5, <1>6 DEF Serve

\* Nothing is left to be received of a request or sent of an answer.
LEMMA EmptyLink ==
  ASSUME open' \in BOOLEAN, up' = <<>>, edge' = FALSE, reply' = <<>>, wire' \in Seq(Mail)
  PROVE  LinkTyped'
  <1>1. <<>> \in Seq(Pieced) /\ <<>> \in Seq(Mail) /\ Len(up') = 0
    BY EmptySeq
  <1>2. up' \in Seq(Pieced) /\ reply' \in Seq(Mail)
    BY <1>1
  <1>3. \A i \in 1 .. Len(up') : up'[i].part = "head" => i < Len(up')
    BY <1>1
  <1>4. QED
    BY <1>2, <1>3 DEF LinkTyped

LEMMA LinkStep ==
  ASSUME RunTyped, WidgetsTyped, LinkTyped, [Next]_vars
  PROVE  LinkTyped'
  <1>1. CASE Serve
    BY <1>1, ServeTyped
  <1>2. CASE SendMessage
    <2>1. reply \in Seq(Mail) /\ reply # <<>> /\ wire \in Seq(Mail)
      BY <1>2 DEF SendMessage, LinkTyped
    <2>2. reply' \in Seq(Mail) /\ wire' \in Seq(Mail)
      BY <1>2, <2>1, HeadTailProperties, AppendProperties DEF SendMessage
    <2>3. QED
      BY <1>2, <2>2 DEF SendMessage, LinkTyped
  <1>3. CASE ServerCloses
    BY <1>3, EmptyLink, EmptySeq DEF ServerCloses, LinkTyped
  <1>4. CASE SendAsk \/ SendGet
    <2>1. Step \in Requests /\ Post(Step) /\ UNCHANGED <<open, reply, wire>>
      BY <1>4, HeadOfScript DEF SendAsk, SendGet, Running, Step
    <2>2. QED
      BY <2>1, PostTyped DEF LinkTyped
  <1>5. CASE SendRefused \/ SetButtons \/ FinishOutput
    BY <1>5 DEF SendRefused, SetButtons, FinishOutput, linkVars, LinkTyped
  <1>6. CASE LeaveDialog
    BY <1>6, EmptyLink, EmptySeq DEF LeaveDialog, LinkTyped
  <1>7. CASE ReceiveUnusable
    BY <1>7, EmptyLink, EmptySeq DEF ReceiveUnusable, Throw, LinkTyped
  <1>8. ASSUME NEW m, ReceiveLogin(m) PROVE LinkTyped'
    <2>1. /\ wire' = <<>>
          /\ \/ UNCHANGED <<open, up, edge, reply>>
             \/ open' = FALSE /\ up' = <<>> /\ edge' = FALSE /\ reply' = <<>>
      BY <1>8 DEF ReceiveLogin
    <2>2. CASE UNCHANGED <<open, up, edge, reply>>
      BY <2>1, <2>2, EmptySeq DEF LinkTyped
    <2>3. CASE open' = FALSE /\ up' = <<>> /\ edge' = FALSE /\ reply' = <<>>
      BY <2>1, <2>3, EmptyLink, EmptySeq
    <2>4. QED
      BY <2>1, <2>2, <2>3
  <1>9. ASSUME NEW m, ReceiveCode(m) PROVE LinkTyped'
    BY <1>9 DEF ReceiveCode, Receive, LinkTyped
  <1>10. ASSUME NEW m, ReceiveHeader(m) PROVE LinkTyped'
    BY <1>10 DEF ReceiveHeader, Receive, LinkTyped
  <1>11. ASSUME NEW m, ReceiveName(m) PROVE LinkTyped'
    BY <1>11 DEF ReceiveName, Receive, LinkTyped
  <1>12. CASE Click
    <2>1. CASE Opened
      BY <2>1 DEF Opened, linkVars, LinkTyped
    <2>2. CASE Thrown
      BY <2>2, EmptyLink, EmptySeq DEF Thrown, Throw, LinkTyped
    <2>3. CASE Connects
      BY <2>3, EmptyLink, EmptySeq DEF Connects, LinkTyped
    <2>4. QED
      BY <1>12, <2>1, <2>2, <2>3, ClickKinds
  <1>13. CASE UNCHANGED vars
    BY <1>13 DEF vars, linkVars, LinkTyped
  <1>14. QED
    BY <1>1, <1>2, <1>3, <1>4, <1>5, <1>6, <1>7, <1>8, <1>9, <1>10, <1>11, <1>12, <1>13
    DEF Next, HandlerStep

-----------------------------------------------------------------------------
(* Widgets *)

\* removeOne takes one item off.
LEMMA RemovedIsShorter ==
  ASSUME NEW S, NEW s \in Seq(S), NEW e \in ToSet(s)
  PROVE  RemoveFirst(s, e) \in Seq(S) /\ Len(RemoveFirst(s, e)) = Len(s) - 1
  <1> DEFINE places == {i \in 1 .. Len(s) : s[i] = e}
             first == Min(places)
  <1>1. places \subseteq Nat /\ places # {}
    BY DEF ToSet
  <1>2. \E x \in places : \A y \in places : x <= y
    <2>1. \E x \in places : \A y \in places : ~(<<y, x>> \in OpToRel(<, Nat))
      BY <1>1, NatLessThanWellFounded, WFMin
    <2>2. PICK x \in places : \A y \in places : ~(<<y, x>> \in OpToRel(<, Nat))
      BY <2>1
    <2>3. \A y \in places : x <= y
      <3> SUFFICES ASSUME NEW y \in places PROVE x <= y
        OBVIOUS
      <3>1. x \in Nat /\ y \in Nat
        BY <1>1
      <3>2. ~(y < x)
        BY <2>2, <3>1 DEF OpToRel
      <3>3. QED
        BY <3>1, <3>2
    <2>4. QED
      BY <2>3
  <1>3. first \in places
    BY <1>2 DEF Min
  <1>4. RemoveFirst(s, e) = SubSeq(s, 1, first - 1) \o SubSeq(s, first + 1, Len(s))
    BY <1>1 DEF RemoveFirst, RemoveAt, SelectInSeq
  <1>5. first \in 1 .. Len(s) /\ Len(s) \in Nat
    BY <1>3
  <1> HIDE DEF first
  <1>6. /\ SubSeq(s, 1, first - 1) \in Seq(S) /\ Len(SubSeq(s, 1, first - 1)) = first - 1
        /\ SubSeq(s, first + 1, Len(s)) \in Seq(S)
        /\ Len(SubSeq(s, first + 1, Len(s))) = Len(s) - first
    BY <1>5, SubSeqProperties
  <1> DEFINE before == SubSeq(s, 1, first - 1)
             after == SubSeq(s, first + 1, Len(s))
  <1> HIDE DEF before, after
  <1>7. before \o after \in Seq(S) /\ Len(before \o after) = Len(before) + Len(after)
    BY <1>6, ConcatProperties DEF before, after
  <1>8. (first - 1) + (Len(s) - first) = Len(s) - 1
    BY <1>5
  <1>9. QED
    BY <1>4, <1>6, <1>7, <1>8 DEF before, after

\* Most clicks leave the widgets as they are.
Untouched == UNCHANGED <<widgetVars, paperVars>>

LEMMA ClickWidgets ==
  ASSUME Click
  PROVE  \/ Untouched
         \/ \E l \in Lists, x \in Name : ClickItem(l, x)
         \/ DoubleClickQuestion \/ AddToPaper \/ OpenPaper \/ HidePaper \/ ClosePaper
         \/ RemoveFromPaper
  BY DEF Click, Untouched, Login, Logout, DoubleClickSubject, DoubleClickChapter, DeleteUser,
         RegisterUser, CreateSubject, DeleteSubject, CreateChapter, DeleteChapter,
         CreateQuestion, DeleteQuestion, StoreQuestion, OutputPaper

\* A list is shown.
LEMMA ShowWidgets ==
  ASSUME WidgetsTyped, Step.list \in Lists, NEW names \in Seq(Name), Show(names),
         UNCHANGED paperVars
  PROVE  WidgetsTyped'
  <1>1. shown' \in [Lists -> Seq(Name)]
    BY DEF Show, WidgetsTyped
  <1>2. current' \in [Lists -> Name \cup {Absent}]
    <2>1. PICK x \in {Absent} \cup {names[i] : i \in DOMAIN names \cap {1}} :
              current' = [current EXCEPT ![Step.list] = x]
      BY DEF Show
    <2>2. x \in Name \cup {Absent}
      BY <2>1
    <2>3. QED
      BY <2>1, <2>2 DEF WidgetsTyped
  <1>3. enabled' \subseteq Buttons
    BY DEF Show, WidgetsTyped
  <1>4. QED
    BY <1>1, <1>2, <1>3 DEF WidgetsTyped, paperVars

LEMMA ClickItemWidgets ==
  ASSUME WidgetsTyped, NEW l \in Lists, NEW x \in Name, ClickItem(l, x)
  PROVE  WidgetsTyped'
  <1>1. current' \in [Lists -> Name \cup {Absent}]
    BY DEF ClickItem, WidgetsTyped
  <1>2. enabled' \subseteq Buttons
    <2>1. On[l] \subseteq Buttons
      BY DEF On, Lists, Buttons
    <2>2. enabled' \subseteq enabled \cup On[l] \cup {"addPaper"}
      BY DEF ClickItem
    <2>3. QED
      BY <2>1, <2>2 DEF WidgetsTyped, Buttons
  <1>3. QED
    BY <1>1, <1>2 DEF WidgetsTyped, ClickItem, paperVars

LEMMA PaperWidgets ==
  ASSUME WidgetsTyped, DoubleClickQuestion \/ AddToPaper \/ OpenPaper \/ HidePaper
                          \/ ClosePaper \/ RemoveFromPaper
  PROVE  WidgetsTyped'
  <1>1. CASE DoubleClickQuestion
    BY <1>1 DEF DoubleClickQuestion, WidgetsTyped, paperVars, Buttons
  <1>2. CASE AddToPaper
    <2>1. CASE UNCHANGED questionsList
      BY <1>2, <2>1 DEF AddToPaper, WidgetsTyped, widgetVars
    <2>2. CASE questionsList' = Append(questionsList, CurrentEntry) /\ Absent \notin ToSet(CurrentEntry)
      <3>1. CurrentEntry \in Entry
        <4>1. /\ current["subjects"] \in Name \cup {Absent} /\ current["chapters"] \in Name \cup {Absent}
              /\ current["questions"] \in Name \cup {Absent}
          BY DEF WidgetsTyped, Lists
        <4>2. /\ current["subjects"] \in ToSet(CurrentEntry) /\ current["chapters"] \in ToSet(CurrentEntry)
              /\ current["questions"] \in ToSet(CurrentEntry)
          BY DEF CurrentEntry, ToSet
        <4>3. QED
          BY <2>2, <4>1, <4>2 DEF CurrentEntry, Entry
      <3>2. questionsList' \in Seq(Entry) /\ Len(questionsList') = Len(questionsList) + 1
        BY <2>2, <3>1, AppendProperties DEF WidgetsTyped
      <3>3. Len(questionsList') <= MaxPaper
        BY <1>2, <3>2, BoundAssumption DEF AddToPaper, WidgetsTyped
      <3>4. QED
        BY <1>2, <3>2, <3>3 DEF AddToPaper, WidgetsTyped, widgetVars
    <2>3. QED
      BY <1>2, <2>1, <2>2 DEF AddToPaper
  <1>3. CASE OpenPaper \/ HidePaper
    BY <1>3 DEF OpenPaper, HidePaper, WidgetsTyped, widgetVars
  <1>4. CASE ClosePaper
    <2>1. questionsList' \in Seq(Entry) /\ Len(questionsList') = 0
      BY <1>4, EmptySeq DEF ClosePaper
    <2>2. Len(questionsList') <= MaxPaper
      BY <2>1, BoundAssumption
    <2>3. /\ UNCHANGED <<shown, current>> /\ enabled' \subseteq enabled
          /\ paper' = "absent" /\ canMakePaper' = FALSE
      BY <1>4 DEF ClosePaper
    <2>4. QED
      BY <2>1, <2>2, <2>3 DEF WidgetsTyped
  <1>5. CASE RemoveFromPaper
    <2>1. PICK e \in ToSet(questionsList) : questionsList' = RemoveFirst(questionsList, e)
      BY <1>5 DEF RemoveFromPaper
    <2>2. questionsList' \in Seq(Entry) /\ Len(questionsList') = Len(questionsList) - 1
      BY <2>1, RemovedIsShorter DEF WidgetsTyped
    <2>3. Len(questionsList') <= MaxPaper
      BY <2>2, BoundAssumption DEF WidgetsTyped
    <2>4. QED
      BY <1>5, <2>2, <2>3 DEF RemoveFromPaper, WidgetsTyped, widgetVars
  <1>6. QED
    BY <1>1, <1>2, <1>3, <1>4, <1>5

LEMMA WidgetsStep ==
  ASSUME RunTyped, WidgetsTyped, LinkTyped, [Next]_vars
  PROVE  WidgetsTyped'
  <1>1. CASE Untouched
    BY <1>1 DEF Untouched, widgetVars, paperVars, WidgetsTyped
  <1>2. CASE Serve \/ SendMessage \/ ServerCloses \/ SendAsk \/ SendRefused \/ ReceiveUnusable
                \/ FinishOutput
    BY <1>1, <1>2 DEF Serve, SendMessage, ServerCloses, SendAsk, SendRefused, ReceiveUnusable,
                      FinishOutput, Untouched
  <1>3. CASE SendGet
    <2>1. Step.list \in Lists
      BY <1>3, HeadOfScript DEF SendGet, Running, Step, GetSteps
    <2>2. shown' \in [Lists -> Seq(Name)] /\ current' \in [Lists -> Name \cup {Absent}]
      BY <1>3, <2>1, EmptySeq DEF SendGet, WidgetsTyped
    <2>3. QED
      BY <1>3, <2>2 DEF SendGet, WidgetsTyped, paperVars
  <1>4. ASSUME NEW m, ReceiveLogin(m) PROVE WidgetsTyped'
    BY <1>4 DEF ReceiveLogin, WidgetsTyped, widgetVars
  <1>5. ASSUME NEW m, ReceiveCode(m) PROVE WidgetsTyped'
    BY <1>1, <1>5 DEF ReceiveCode, Untouched
  <1>6. ASSUME NEW m \in ToSet(wire), ReceiveHeader(m) PROVE WidgetsTyped'
    <2>1. Step.list \in Lists /\ UNCHANGED paperVars /\ (UNCHANGED widgetVars \/ Show(<<>>))
      BY <1>6, CountReceived DEF ReceiveHeader
    <2>2. QED
      BY <1>1, <2>1, ShowWidgets, EmptySeq DEF Untouched
  <1>7. ASSUME NEW m \in ToSet(wire), ReceiveName(m) PROVE WidgetsTyped'
    <2>1. /\ Step.list \in Lists /\ UNCHANGED paperVars
          /\ UNCHANGED widgetVars \/ Show(Append(gathered, m.value))
      BY <1>7, NameReceived DEF ReceiveName
    <2>2. Append(gathered, m.value) \in Seq(Name)
      BY <1>7, NameReceived, AppendProperties DEF RunTyped
    <2>3. QED
      BY <1>1, <2>1, <2>2, ShowWidgets DEF Untouched
  <1>8. CASE SetButtons
    <2>1. Step.on \subseteq Buttons
      <3>1. Step \in SetSteps
        BY <1>8, HeadOfScript DEF SetButtons, Running, Step
      <3>2. QED
        BY <3>1 DEF SetSteps, Buttons
    <2>2. QED
      BY <1>8, <2>1 DEF SetButtons, WidgetsTyped, paperVars
  <1>9. CASE LeaveDialog
    <2>1. questionsList' \in Seq(Entry) /\ Len(questionsList') = 0
      BY <1>9, EmptySeq DEF LeaveDialog
    <2>2. Len(questionsList') <= MaxPaper
      BY <2>1, BoundAssumption
    <2>3. /\ UNCHANGED <<shown, current>> /\ enabled' \subseteq enabled
          /\ paper' = "absent" /\ canMakePaper' = FALSE
      BY <1>9 DEF LeaveDialog
    <2>4. QED
      BY <2>1, <2>2, <2>3 DEF WidgetsTyped
  <1>10. CASE Click
    BY <1>1, <1>10, ClickWidgets, ClickItemWidgets, PaperWidgets
  <1>11. CASE UNCHANGED vars
    BY <1>1, <1>11 DEF vars, Untouched
  <1>12. QED
    BY <1>2, <1>3, <1>4, <1>5, <1>6, <1>7, <1>8, <1>9, <1>10, <1>11 DEF Next, HandlerStep

-----------------------------------------------------------------------------
(* The connection *)

\* A handler that has not called recv receives nothing.
LEMMA OnlyRequestsWait ==
  ASSUME RunTyped, Waiting, script # <<>>, Step.op \notin {"ask", "get"}
  PROVE  stage = "idle"
  <1>1. \A r \in Requests : r.op \in {"ask", "get"}
    BY DEF Requests, AskSteps, GetSteps
  <1>2. QED
    BY <1>1 DEF Waiting

LEMMA WaitingStep ==
  ASSUME RunTyped, WidgetsTyped, LinkTyped, Waiting, [Next]_vars
  PROVE  Waiting'
  <1>1. CASE UNCHANGED <<stage, left, script>>
    BY <1>1 DEF Waiting, Step
  <1>2. CASE stage' = "idle"
    BY <1>2 DEF Waiting
  <1>3. CASE Serve \/ SendMessage \/ ServerCloses
    BY <1>1, <1>3 DEF Serve, SendMessage, ServerCloses, recvVars
  <1>4. CASE SendAsk \/ SendGet
    <2>1. /\ script # <<>> /\ Step \in Requests /\ UNCHANGED script /\ stage' = "code"
      BY <1>4, HeadOfScript DEF SendAsk, SendGet, Running, Step, Post
    <2>2. QED
      BY <2>1 DEF Waiting, Step
  <1>5. CASE SendRefused \/ SetButtons \/ FinishOutput \/ LeaveDialog
    <2>1. stage = "idle" /\ UNCHANGED stage
      BY <1>5, OnlyRequestsWait DEF SendRefused, SetButtons, FinishOutput, LeaveDialog, Running,
                                    Step, recvVars
    <2>2. QED
      BY <1>2, <2>1
  <1>6. CASE ReceiveUnusable
    BY <1>2, <1>6 DEF ReceiveUnusable, Throw
  <1>7. ASSUME NEW m, ReceiveLogin(m) \/ ReceiveCode(m) PROVE Waiting'
    BY <1>2, <1>7 DEF ReceiveLogin, ReceiveCode
  <1>8. ASSUME NEW m \in ToSet(wire), ReceiveHeader(m) PROVE Waiting'
    <2>1. \/ stage' = "idle"
          \/ m.code = 200 /\ m.counts > 0 /\ stage' = "name" /\ left' = m.counts /\ UNCHANGED script
      BY <1>8 DEF ReceiveHeader, Show
    <2>2. script # <<>> /\ Step \in GetSteps
      BY <1>8, CountReceived DEF ReceiveHeader, Running
    <2>3. QED
      BY <1>2, <2>1, <2>2 DEF Waiting, Step, Requests
  <1>9. ASSUME NEW m \in ToSet(wire), ReceiveName(m) PROVE Waiting'
    <2>1. \/ stage' = "idle"
          \/ left > 1 /\ left' = left - 1 /\ UNCHANGED <<stage, script>>
      BY <1>9 DEF ReceiveName, Show
    <2>2. script # <<>> /\ Step \in GetSteps
      BY <1>9, NameReceived DEF ReceiveName, Running
    <2>3. left > 1 => left - 1 > 0
      BY DEF RunTyped
    <2>4. QED
      BY <1>2, <2>1, <2>2, <2>3 DEF Waiting, Step, Requests
  <1>10. CASE Click
    <2>1. stage = "idle" /\ stage' = "idle"
      BY <1>10, ClickKinds DEF Opened, Thrown, Throw, Connects, recvVars, Waiting
    <2>2. QED
      BY <1>2, <2>1
  <1>11. CASE UNCHANGED vars
    BY <1>1, <1>11 DEF vars, recvVars
  <1>12. QED
    BY <1>3, <1>4, <1>5, <1>6, <1>7, <1>8, <1>9, <1>10, <1>11 DEF Next, HandlerStep

\* Only the login dialog receives the answer to a login.
LEMMA LoginReceived ==
  ASSUME RunTyped, ScriptFits, NEW m, ReceiveLogin(m)
  PROVE  window = "login"
  <1>1. script[1] = Step /\ 1 \in 1 .. Len(script) /\ Step.op = "ask" /\ Step.cmd = "login"
    BY HeadOfScript DEF ReceiveLogin, Running, Step
  <1>2. QED
    BY <1>1 DEF ScriptFits, LoginFits

LEMMA ClosedStep ==
  ASSUME RunTyped, WidgetsTyped, ScriptFits, Closed, CloseSeen, [Next]_vars
  PROVE  Closed' /\ CloseSeen'
  <1>1. CASE Serve \/ SendMessage
    <2>1. open /\ UNCHANGED open
      BY <1>1 DEF Serve, SendMessage
    <2>2. QED
      BY <2>1 DEF Closed, CloseSeen
  <1>10. CASE ServerCloses
    BY <1>10 DEF ServerCloses, Closed, CloseSeen
  <1>2. CASE SendAsk \/ SendGet
    BY <1>2 DEF SendAsk, SendGet, Post, Closed, CloseSeen
  <1>3. CASE SendRefused \/ SetButtons \/ FinishOutput
    BY <1>3 DEF SendRefused, SetButtons, FinishOutput, Running, linkVars, Closed, CloseSeen
  <1>4. CASE ReceiveUnusable \/ LeaveDialog
    BY <1>4 DEF ReceiveUnusable, Throw, LeaveDialog, Closed, CloseSeen
  <1>5. ASSUME NEW m, ReceiveLogin(m) PROVE Closed' /\ CloseSeen'
    <2>1. window = "login" /\ script # <<>>
      BY <1>5, LoginReceived DEF ReceiveLogin, Running
    <2>2. QED
      BY <1>5, <2>1 DEF ReceiveLogin, Closed, CloseSeen
  <1>6. ASSUME NEW m, ReceiveCode(m) \/ ReceiveHeader(m) \/ ReceiveName(m)
        PROVE  Closed' /\ CloseSeen'
    <2>1. script # <<>> /\ UNCHANGED <<open, up, reply, window>> /\ saw \subseteq saw'
      BY <1>6 DEF ReceiveCode, ReceiveHeader, ReceiveName, Receive, Running
    <2>2. QED
      BY <2>1 DEF Closed, CloseSeen
  <1>7. CASE Click
    <2>1. CASE Opened
      BY <2>1 DEF Opened, linkVars, Closed, CloseSeen
    <2>2. CASE Thrown
      BY <2>2 DEF Thrown, Throw, Closed, CloseSeen
    <2>3. CASE Connects
      BY <2>3 DEF Connects, Closed, CloseSeen
    <2>4. QED
      BY <1>7, <2>1, <2>2, <2>3, ClickKinds
  <1>8. CASE UNCHANGED vars
    BY <1>8 DEF vars, linkVars, Closed, CloseSeen
  <1>9. QED
    BY <1>1, <1>2, <1>3, <1>4, <1>5, <1>6, <1>7, <1>8, <1>10 DEF Next, HandlerStep

\* A step leaves the wire as it is, takes everything from it or adds a message.
LEMMA WireSteps ==
  ASSUME RunTyped, WidgetsTyped, [Next]_vars, ~SendMessage
  PROVE  wire' = <<>> \/ (wire' = wire /\ saw \subseteq saw')
  <1>1. CASE Serve \/ ServerCloses \/ SendAsk \/ SendGet \/ SendRefused \/ SetButtons
                \/ FinishOutput \/ LeaveDialog
    BY <1>1 DEF Serve, ServerCloses, SendAsk, SendGet, SendRefused, SetButtons, FinishOutput,
                LeaveDialog, linkVars
  <1>2. CASE ReceiveUnusable
    BY <1>2 DEF ReceiveUnusable, Throw
  <1>3. ASSUME NEW m, ReceiveLogin(m) \/ ReceiveCode(m) \/ ReceiveHeader(m) \/ ReceiveName(m)
        PROVE  wire' = <<>>
    BY <1>3 DEF ReceiveLogin, ReceiveCode, ReceiveHeader, ReceiveName, Receive
  <1>4. CASE Click
    BY <1>4, ClickKinds DEF Opened, Thrown, Throw, Connects, linkVars
  <1>5. CASE UNCHANGED vars
    BY <1>5 DEF vars, linkVars
  <1>6. QED
    BY <1>1, <1>2, <1>3, <1>4, <1>5 DEF Next, HandlerStep

LEMMA WireStep ==
  ASSUME RunTyped, WidgetsTyped, LinkTyped, LateSeen, QuoteSeen, [Next]_vars
  PROVE  LateSeen' /\ QuoteSeen'
  <1>1. CASE SendMessage
    <2>1. /\ wire \in Seq(Mail) /\ Head(reply) \in Mail /\ wire' = Append(wire, Head(reply))
          /\ saw \subseteq saw' /\ (wire # <<>> => "late" \in saw')
          /\ ~Head(reply).readable => "quote" \in saw'
      BY <1>1 DEF SendMessage, LinkTyped
    <2>2. /\ Len(wire') = Len(wire) + 1 /\ Len(wire) \in Nat
          /\ \A i \in 1 .. Len(wire) : wire'[i] = wire[i]
          /\ wire'[Len(wire) + 1] = Head(reply)
      BY <2>1, AppendProperties
    <2>3. LateSeen'
      <3>1. Len(wire') > 1 => wire # <<>>
        BY <2>2
      <3>2. QED
        BY <2>1, <3>1 DEF LateSeen
    <2>4. QuoteSeen'
      <3> SUFFICES ASSUME NEW i \in 1 .. Len(wire'), ~wire'[i].readable PROVE "quote" \in saw'
        BY DEF QuoteSeen
      <3>1. i \in 1 .. Len(wire) \/ i = Len(wire) + 1
        BY <2>2
      <3>2. QED
        BY <2>1, <2>2, <3>1 DEF QuoteSeen
    <2>5. QED
      BY <2>3, <2>4
  <1>2. CASE wire' = <<>>
    BY <1>2 DEF LateSeen, QuoteSeen
  <1>3. CASE wire' = wire /\ saw \subseteq saw'
    BY <1>3 DEF LateSeen, QuoteSeen
  <1>4. QED
    BY <1>1, <1>2, <1>3, WireSteps

-----------------------------------------------------------------------------
(* The conversation *)

\* A message goes from the end that sends to the end that receives.
LEMMA Sent ==
  ASSUME NEW S, NEW s \in Seq(S), NEW t \in Seq(S), t # <<>>
  PROVE  Append(s, Head(t)) \o Tail(t) = s \o t
  <1> DEFINE u == Append(s, Head(t)) \o Tail(t)
  <1>1. /\ Head(t) = t[1] /\ Head(t) \in S /\ Tail(t) \in Seq(S) /\ Len(Tail(t)) = Len(t) - 1
        /\ \A i \in 1 .. Len(Tail(t)) : Tail(t)[i] = t[i + 1]
        /\ Len(s) \in Nat /\ Len(t) \in Nat \ {0}
    BY HeadTailProperties, EmptySeq
  <1>2. /\ Append(s, Head(t)) \in Seq(S) /\ Len(Append(s, Head(t))) = Len(s) + 1
        /\ \A i \in 1 .. Len(s) : Append(s, Head(t))[i] = s[i]
        /\ Append(s, Head(t))[Len(s) + 1] = t[1]
    BY <1>1, AppendProperties
  <1>3. /\ u \in Seq(S) /\ Len(u) = Len(s) + Len(t)
        /\ \A i \in 1 .. Len(s) + Len(t) :
              u[i] = IF i <= Len(s) + 1 THEN Append(s, Head(t))[i] ELSE Tail(t)[i - (Len(s) + 1)]
    BY <1>1, <1>2, ConcatProperties
  <1> HIDE DEF u
  <1>4. /\ s \o t \in Seq(S) /\ Len(s \o t) = Len(s) + Len(t)
        /\ \A i \in 1 .. Len(s) + Len(t) : (s \o t)[i] = IF i <= Len(s) THEN s[i] ELSE t[i - Len(s)]
    BY ConcatProperties
  <1>5. ASSUME NEW i \in 1 .. Len(u) PROVE u[i] = (s \o t)[i]
    <2>1. CASE i \in 1 .. Len(s)
      BY <1>1, <1>2, <1>3, <1>4, <2>1
    <2>2. CASE i = Len(s) + 1
      <3>1. u[i] = t[1] /\ (s \o t)[i] = t[i - Len(s)]
        BY <1>1, <1>2, <1>3, <1>4, <2>2
      <3>2. i - Len(s) = 1
        BY <1>1, <2>2
      <3>3. QED
        BY <3>1, <3>2
    <2>3. CASE i > Len(s) + 1
      <3>1. u[i] = Tail(t)[i - (Len(s) + 1)] /\ (s \o t)[i] = t[i - Len(s)]
        BY <1>1, <1>3, <1>4, <2>3
      <3>2. i - (Len(s) + 1) \in 1 .. Len(Tail(t)) /\ (i - (Len(s) + 1)) + 1 = i - Len(s)
        BY <1>1, <1>3, <2>3
      <3>3. QED
        BY <1>1, <3>1, <3>2
    <2>4. QED
      BY <1>1, <1>3, <2>1, <2>2, <2>3
  <1>6. QED
    BY <1>3, <1>4, <1>5, SeqEqual DEF u

\* What is on its way is on the wire or still to be sent.
LEMMA OnItsWay ==
  ASSUME LinkTyped
  PROVE  /\ Len(wire \o reply) = Len(wire) + Len(reply)
         /\ Len(wire) \in Nat /\ Len(reply) \in Nat
         /\ \A i \in 1 .. Len(wire) : (wire \o reply)[i] = wire[i]
         /\ \A i \in 1 .. Len(reply) : (wire \o reply)[Len(wire) + i] = reply[i]
         /\ wire \o reply = <<>> <=> wire = <<>> /\ reply = <<>>
         /\ wire = <<>> => wire \o reply = reply
         /\ reply = <<>> => wire \o reply = wire
  <1>1. wire \in Seq(Mail) /\ reply \in Seq(Mail) /\ Len(wire) \in Nat /\ Len(reply) \in Nat
    BY DEF LinkTyped
  <1>2. /\ Len(wire \o reply) = Len(wire) + Len(reply)
        /\ \A i \in 1 .. Len(wire) + Len(reply) :
              (wire \o reply)[i] = IF i <= Len(wire) THEN wire[i] ELSE reply[i - Len(wire)]
    BY <1>1, ConcatProperties
  <1>3. \A i \in 1 .. Len(wire) : (wire \o reply)[i] = wire[i]
    BY <1>1, <1>2
  <1>4. ASSUME NEW i \in 1 .. Len(reply) PROVE (wire \o reply)[Len(wire) + i] = reply[i]
    <2>1. Len(wire) + i \in 1 .. Len(wire) + Len(reply) /\ ~(Len(wire) + i <= Len(wire))
          /\ (Len(wire) + i) - Len(wire) = i
      BY <1>1
    <2>2. QED
      BY <1>2, <2>1
  <1>5. /\ wire \o reply = <<>> <=> wire = <<>> /\ reply = <<>>
        /\ wire = <<>> => wire \o reply = reply
        /\ reply = <<>> => wire \o reply = wire
    BY <1>1, ConcatEqualIffEmpty, ConcatEmptySeq
  <1>6. QED
    BY <1>1, <1>2, <1>3, <1>4, <1>5

\* A handler that does not wait has nothing on its way.
LEMMA IdleTalk ==
  ASSUME LinkTyped, Talk, stage = "idle"
  PROVE  up = <<>> /\ wire = <<>> /\ reply = <<>>
  BY OnItsWay DEF Talk

LEMMA QuietTalks ==
  ASSUME stage' = "idle", up' = <<>>, wire' = <<>>, reply' = <<>>
  PROVE  Talk'
  BY EmptySeq, ConcatEmptySeq DEF Talk

\* What went out of the ordinary is forgotten with the connection only.
LEMMA SawGrows ==
  ASSUME RunTyped, WidgetsTyped, [Next]_vars, ~Connects
  PROVE  saw \subseteq saw'
  <1>1. CASE Serve \/ SendMessage \/ ServerCloses \/ SendAsk \/ SendGet \/ SendRefused \/ SetButtons
                \/ FinishOutput \/ LeaveDialog \/ ReceiveUnusable
    BY <1>1 DEF Serve, SendMessage, ServerCloses, SendAsk, SendGet, SendRefused, SetButtons,
                FinishOutput, LeaveDialog, ReceiveUnusable
  <1>2. ASSUME NEW m, ReceiveLogin(m) \/ ReceiveCode(m) \/ ReceiveHeader(m) \/ ReceiveName(m)
        PROVE  saw \subseteq saw'
    BY <1>2 DEF ReceiveLogin, ReceiveCode, ReceiveHeader, ReceiveName
  <1>3. CASE Click
    BY <1>3, ClickKinds DEF Opened, Thrown
  <1>4. CASE UNCHANGED vars
    BY <1>4 DEF vars
  <1>5. QED
    BY <1>1, <1>2, <1>3, <1>4 DEF Next, HandlerStep

\* The server receives the request of the step that waits.
LEMMA ServeTalks ==
  ASSUME RunTyped, LinkTyped, LinkTyped', Waiting, Talk, Serve
  PROVE  Talk'
  <1>1. /\ open /\ edge /\ up # <<>> /\ reply = <<>>
        /\ UNCHANGED <<stage, left, script, wire, open>>
    BY DEF Serve, LinkTyped, recvVars
  <1>2. stage = "code" /\ up = <<[req |-> Step, part |-> "whole"]>> /\ wire = <<>>
    <2>1. stage \in {"idle", "code", "name"}
      BY DEF RunTyped
    <2>2. QED
      BY <1>1, <2>1, OnItsWay DEF Talk
  <1>3. PICK p : p = [req |-> Step, part |-> "whole"]
    OBVIOUS
  <1>4. Head(up) = p /\ Tail(up) = <<>>
    BY <1>2, <1>3
  <1>5. Step \in Requests /\ reply' \in Answers(Step) /\ up' = <<>>
    BY <1>2, <1>3, <1>4 DEF Serve, Waiting
  <1>6. reply' # <<>> /\ Fits(reply', Step)
    BY <1>5, AnswersFit
  <1>7. wire' \o reply' = reply' /\ wire' = <<>>
    BY <1>1, <1>2, ConcatEmptySeq DEF LinkTyped
  <1>8. Step' = Step /\ stage' = "code"
    BY <1>1, <1>2 DEF Step
  <1>9. QED
    BY <1>5, <1>6, <1>7, <1>8 DEF Talk

\* A message that is sent belongs to what was on its way.
LEMMA SendTalks ==
  ASSUME RunTyped, LinkTyped, LinkTyped', Talk, SendMessage, InStep'
  PROVE  Talk'
  <1>1. /\ open /\ open' /\ reply # <<>> /\ wire' = Append(wire, Head(reply)) /\ reply' = Tail(reply)
        /\ UNCHANGED <<stage, left, script, up>>
    BY DEF SendMessage, recvVars
  <1>2. wire \in Seq(Mail) /\ reply \in Seq(Mail)
    BY DEF LinkTyped
  <1>3. wire' \o reply' = wire \o reply
    BY <1>1, <1>2, Sent
  <1>4. stage # "idle"
    BY <1>1, OnItsWay DEF Talk
  <1>5. Step' = Step
    BY <1>1 DEF Step
  <1>6. CASE stage = "name"
    BY <1>1, <1>3, <1>5, <1>6 DEF Talk
  <1>7. CASE stage = "code"
    <2>1. ASSUME wire'[1].counts # Absent PROVE Len(wire' \o reply') - 1 = wire'[1].counts
      <3>1. CASE wire = <<>>
        <4>1. wire'[1] = Head(reply) /\ wire \o reply = reply
          BY <1>1, <1>2, <3>1, OnItsWay
        <4>2. Head(reply).counts \in {Absent, Len(reply) - 1}
          BY DEF SendMessage, InStep
        <4>3. QED
          BY <1>3, <2>1, <4>1, <4>2
      <3>2. CASE wire # <<>>
        <4>1. wire'[1] = wire[1]
          <5>1. Head(reply) \in Mail /\ 1 \in 1 .. Len(wire)
            BY <1>1, <1>2, <3>2
          <5>2. QED
            BY <1>1, <1>2, <5>1, AppendProperties
        <4>2. QED
          BY <1>1, <1>3, <1>7, <2>1, <3>2, <4>1 DEF Talk
      <3>3. QED
        BY <3>1, <3>2
    <2>2. QED
      BY <1>1, <1>3, <1>5, <1>7, <2>1 DEF Talk
  <1>8. QED
    BY <1>4, <1>6, <1>7 DEF RunTyped

\* The server takes with it what it has not sent.
LEMMA CloseTalks ==
  ASSUME RunTyped, LinkTyped, LinkTyped', Talk, ServerCloses
  PROVE  Talk'
  <1>1. /\ ~open' /\ up' = <<>> /\ reply' = <<>>
        /\ UNCHANGED <<stage, left, script, wire>>
    BY DEF ServerCloses, recvVars
  <1>2. wire' \o reply' = wire /\ Step' = Step
    BY <1>1, ConcatEmptySeq DEF LinkTyped, Step
  <1>3. CASE stage = "idle"
    BY <1>1, <1>2, <1>3, IdleTalk DEF Talk
  <1>4. CASE stage = "name"
    <2>1. \A i \in 1 .. Len(wire) : NameFits(wire[i], Step)
      BY <1>4, OnItsWay DEF Talk
    <2>2. QED
      BY <1>1, <1>2, <1>4, <2>1 DEF Talk
  <1>5. CASE stage = "code"
    <2>1. ASSUME wire # <<>> PROVE Fits(wire, Step)
      <3>1. Fits(wire \o reply, Step)
        BY <1>5, <2>1, OnItsWay DEF Talk
      <3>2. 1 \in 1 .. Len(wire) /\ Len(wire) <= Len(wire \o reply)
        BY <2>1, OnItsWay DEF LinkTyped
      <3>3. (wire \o reply)[1] = wire[1]
        BY <3>2, OnItsWay
      <3>4. \A i \in 2 .. Len(wire) : i \in 2 .. Len(wire \o reply) /\ (wire \o reply)[i] = wire[i]
        BY <3>2, OnItsWay
      <3>5. Len(wire) > 1 => Len(wire \o reply) > 1
        BY <3>2, OnItsWay
      <3>6. QED
        BY <3>1, <3>3, <3>4, <3>5 DEF Fits
    <2>2. QED
      BY <1>1, <1>2, <1>5, <2>1 DEF Talk
  <1>6. QED
    BY <1>3, <1>4, <1>5 DEF RunTyped

\* A request is posted when nothing else is on its way.
LEMMA PostTalks ==
  ASSUME LinkTyped, LinkTyped', Talk, stage = "idle", Post(Step),
         ~(Step.op = "ask" /\ Step.size = "overlong"), UNCHANGED <<script, wire, reply>>
  PROVE  Talk'
  <1>1. up = <<>> /\ wire = <<>> /\ reply = <<>>
    BY IdleTalk
  <1>2. wire' = <<>> /\ wire' \o reply' = <<>> /\ Step' = Step /\ stage' = "code"
    BY <1>1, ConcatEmptySeq, EmptySeq DEF Step, Post
  <1>3. up' = <<>> \/ up' = <<[req |-> Step, part |-> "whole"]>>
    BY <1>1 DEF Post, Pieces
  <1>4. QED
    BY <1>2, <1>3 DEF Talk

\* The message that is received is the first of what was on its way.
LEMMA FirstOfRest ==
  ASSUME LinkTyped, NEW m, wire = <<m>>
  PROVE  /\ (wire \o reply)[1] = m /\ wire[1] = m /\ Len(wire \o reply) = Len(reply) + 1
         /\ Len(reply) \in Nat
         /\ \A i \in 1 .. Len(reply) : i + 1 \in 2 .. Len(wire \o reply)
                                       /\ (wire \o reply)[i + 1] = reply[i]
  <1>1. Len(wire) = 1 /\ wire[1] = m /\ 1 \in 1 .. Len(wire)
    OBVIOUS
  <1>2. Len(reply) \in Nat /\ Len(wire \o reply) = Len(reply) + 1 /\ (wire \o reply)[1] = m
    BY <1>1, OnItsWay
  <1>3. ASSUME NEW i \in 1 .. Len(reply) PROVE (wire \o reply)[i + 1] = reply[i]
    <2>1. (wire \o reply)[Len(wire) + i] = reply[i]
      BY OnItsWay
    <2>2. Len(wire) + i = i + 1
      BY <1>1
    <2>3. QED
      BY <2>1, <2>2
  <1>4. QED
    BY <1>1, <1>2, <1>3

\* A request that is not for a list is answered with one message.
LEMMA CodeIsAll ==
  ASSUME RunTyped, LinkTyped, Talk, stage = "code", NEW m, wire = <<m>>,
         Step.op # "get" \/ m.code # 200
  PROVE  up = <<>> /\ reply = <<>>
  <1>1. wire \o reply # <<>>
    BY OnItsWay
  <1>2. up = <<>> /\ Fits(wire \o reply, Step)
    BY <1>1 DEF Talk
  <1>3. ASSUME reply # <<>> PROVE FALSE
    <2>1. Len(reply) > 0
      BY <1>3 DEF LinkTyped
    <2>2. 1 \in 1 .. Len(reply)
      BY <2>1, FirstOfRest
    <2>3. 2 \in 2 .. Len(wire \o reply)
      BY <2>2, FirstOfRest
    <2>4. Step.op = "get" /\ m.code = 200
      BY <1>2, <2>3, FirstOfRest DEF Fits
    <2>5. QED
      BY <2>4
  <1>4. QED
    BY <1>2, <1>3

LEMMA ReceiveCodeTalks ==
  ASSUME RunTyped, LinkTyped, Talk, NEW m, ReceiveLogin(m) \/ ReceiveCode(m)
  PROVE  Talk'
  <1>1. stage = "code" /\ wire = <<m>> /\ Step.op = "ask"
    BY DEF ReceiveLogin, ReceiveCode, Receive, Running, Step
  <1>2. up = <<>> /\ reply = <<>>
    BY <1>1, CodeIsAll
  <1>3. stage' = "idle" /\ wire' = <<>> /\ up' = <<>> /\ reply' = <<>>
    BY <1>2 DEF ReceiveLogin, ReceiveCode, Receive
  <1>4. QED
    BY <1>3, QuietTalks

\* After the header of a list there are as many names to come as it announced.
LEMMA HeaderTalks ==
  ASSUME RunTyped, LinkTyped, LinkTyped', Closed, Talk, NEW m \in ToSet(wire), ReceiveHeader(m)
  PROVE  Talk'
  <1>1. /\ stage = "code" /\ wire = <<m>> /\ Step.op = "get"
        /\ wire' = <<>> /\ UNCHANGED <<open, up, reply>>
    BY DEF ReceiveHeader, Receive, Running, Step
  <1>2. wire \o reply # <<>>
    BY <1>1, OnItsWay
  <1>3. up = <<>> /\ Fits(wire \o reply, Step)
    BY <1>1, <1>2 DEF Talk
  <1>4. CASE m.code # 200
    <2>1. stage' = "idle" /\ reply = <<>>
      BY <1>1, <1>4, CodeIsAll DEF ReceiveHeader
    <2>2. QED
      BY <1>1, <1>3, <2>1, QuietTalks
  <1>5. m.code = 200 => m.counts \in Nat /\ m.counts # Absent
    <2>1. m.code = 200 => m.counts \in Nat
      BY CountReceived
    <2>2. QED
      BY <2>1, NameAssumption
  <1>6. ASSUME m.code = 200, open PROVE Len(reply) = m.counts
    <2>1. Len(wire \o reply) - 1 = m.counts
      BY <1>1, <1>5, <1>6, FirstOfRest DEF Talk
    <2>2. QED
      BY <1>1, <2>1, FirstOfRest
  <1>7. CASE m.code = 200 /\ m.counts = 0
    <2>1. reply = <<>>
      BY <1>6, <1>7 DEF Closed, LinkTyped
    <2>2. stage' = "idle"
      BY <1>7 DEF ReceiveHeader, Show
    <2>3. QED
      BY <1>1, <1>3, <2>1, <2>2, QuietTalks
  <1>8. CASE m.code = 200 /\ m.counts > 0
    <2>1. stage' = "name" /\ left' = m.counts /\ UNCHANGED script
      BY <1>8, <1>5 DEF ReceiveHeader
    <2>2. wire' \o reply' = reply /\ Step' = Step
      BY <1>1, <2>1, ConcatEmptySeq DEF LinkTyped, Step
    <2>3. \A i \in 1 .. Len(reply) : NameFits(reply[i], Step)
      <3>1. \A i \in 2 .. Len(wire \o reply) : NameFits((wire \o reply)[i], Step)
        BY <1>3 DEF Fits
      <3>2. QED
        BY <1>1, <3>1, FirstOfRest
    <2>4. QED
      BY <1>1, <1>3, <1>6, <1>8, <2>1, <2>2, <2>3 DEF Talk
  <1>9. QED
    BY <1>4, <1>5, <1>7, <1>8

LEMMA NameTalks ==
  ASSUME RunTyped, LinkTyped, LinkTyped', Closed, Talk, NEW m \in ToSet(wire), ReceiveName(m)
  PROVE  Talk'
  <1>1. /\ stage = "name" /\ wire = <<m>>
        /\ wire' = <<>> /\ UNCHANGED <<open, up, reply>>
    BY DEF ReceiveName, Receive
  <1>2. up = <<>> /\ \A i \in 1 .. Len(wire \o reply) : NameFits((wire \o reply)[i], Step)
    BY <1>1 DEF Talk
  <1>3. ASSUME open PROVE Len(reply) = left - 1
    <2>1. Len(wire \o reply) = left
      BY <1>1, <1>3 DEF Talk
    <2>2. QED
      BY <1>1, <2>1, FirstOfRest
  <1>4. CASE left > 1
    <2>1. left' = left - 1 /\ UNCHANGED <<stage, script>>
      BY <1>4 DEF ReceiveName
    <2>2. wire' \o reply' = reply /\ Step' = Step
      BY <1>1, <2>1, ConcatEmptySeq DEF LinkTyped, Step
    <2>3. \A i \in 1 .. Len(reply) : NameFits(reply[i], Step)
      <3>1. \A i \in 1 .. Len(reply) : i + 1 \in 1 .. Len(wire \o reply)
        BY <1>1, FirstOfRest
      <3>2. QED
        BY <1>1, <1>2, <3>1, FirstOfRest
    <2>4. QED
      BY <1>1, <1>2, <1>3, <2>1, <2>2, <2>3 DEF Talk
  <1>5. CASE ~(left > 1)
    <2>1. Len(reply) \in Nat /\ (open => Len(reply) <= 0)
      BY <1>1, <1>3, <1>5, FirstOfRest DEF RunTyped
    <2>2. reply = <<>>
      BY <2>1 DEF Closed, LinkTyped
    <2>3. stage' = "idle"
      BY <1>5 DEF ReceiveName, Show
    <2>4. QED
      BY <1>1, <1>2, <2>2, <2>3, QuietTalks
  <1>6. QED
    BY <1>4, <1>5

LEMMA ConversationStep ==
  ASSUME RunTyped, WidgetsTyped, LinkTyped, LinkTyped', Waiting, Closed, Conversation, [Next]_vars
  PROVE  Conversation'
  <1> SUFFICES ASSUME InStep' PROVE Talk'
    BY DEF Conversation
  <1>1. CASE Connects
    <2>1. stage = "idle"
      BY <1>1 DEF Connects, Waiting
    <2>2. QED
      BY <1>1, <2>1, QuietTalks DEF Connects, recvVars
  <1>2. CASE ~Connects
    <2>1. Talk
      BY <1>2, SawGrows DEF Conversation, InStep
    <2>2. CASE Serve
      BY <2>1, <2>2, ServeTalks
    <2>3. CASE SendMessage
      BY <2>1, <2>3, SendTalks
    <2>4. CASE ServerCloses
      BY <2>1, <2>4, CloseTalks
    <2>5. CASE SendAsk
      <3>1. Step.size # "overlong"
        BY <2>5 DEF SendAsk, InStep
      <3>2. QED
        BY <2>1, <2>5, <3>1, PostTalks DEF SendAsk
    <2>6. CASE SendGet
      BY <2>1, <2>6, PostTalks DEF SendGet, Running, Step
    <2>7. CASE UNCHANGED <<stage, linkVars>> /\ stage = "idle"
      BY <2>1, <2>7, IdleTalk, QuietTalks DEF linkVars
    <2>8. CASE SendRefused \/ SetButtons \/ FinishOutput
      BY <2>7, <2>8, OnlyRequestsWait DEF SendRefused, SetButtons, FinishOutput, Running, Step,
                                          recvVars
    <2>9. CASE LeaveDialog
      BY <2>9, QuietTalks, OnlyRequestsWait DEF LeaveDialog, Running, Step, recvVars
    <2>10. CASE ReceiveUnusable
      BY <2>10, QuietTalks DEF ReceiveUnusable, Throw
    <2>11. CASE \E m \in ToSet(wire) :
                   ReceiveLogin(m) \/ ReceiveCode(m) \/ ReceiveHeader(m) \/ ReceiveName(m)
      BY <2>1, <2>11, ReceiveCodeTalks, HeaderTalks, NameTalks
    <2>12. CASE Opened
      BY <2>7, <2>12 DEF Opened, recvVars, Waiting
    <2>13. CASE Thrown
      BY <2>13, QuietTalks DEF Thrown, Throw
    <2>14. CASE UNCHANGED vars
      <3>1. UNCHANGED <<stage, left, script, open, up, wire, reply>>
        BY <2>14 DEF vars, recvVars, linkVars
      <3>2. QED
        BY <2>1, <3>1 DEF Talk, Step
    <2>15. QED
      BY <1>2, <2>2, <2>3, <2>4, <2>5, <2>6, <2>8, <2>9, <2>10, <2>11, <2>12, <2>13, <2>14,
         ClickKinds DEF Next, HandlerStep
  <1>3. QED
    BY <1>1, <1>2

-----------------------------------------------------------------------------
(* Exceptions *)

\* A message in step has the keys its receiver reads.
LEMMA InStepIsTyped ==
  ASSUME RunTyped, LinkTyped, Waiting, Talk, stage # "idle", NEW m, wire = <<m>>
  PROVE  ~Mistyped(m)
  <1>1. wire \o reply # <<>> /\ 1 \in 1 .. Len(wire \o reply) /\ (wire \o reply)[1] = m
    BY OnItsWay, FirstOfRest
  <1>2. CASE stage = "name"
    <2>1. NameFits(m, Step)
      BY <1>1, <1>2 DEF Talk
    <2>2. QED
      BY <1>2, <2>1 DEF Mistyped, NameFits
  <1>3. CASE stage = "code"
    <2>1. CodeFits(m, Step)
      BY <1>1, <1>3 DEF Talk, Fits
    <2>2. QED
      BY <1>3, <2>1 DEF Mistyped, CodeFits
  <1>4. QED
    BY <1>2, <1>3 DEF RunTyped

\* What cannot be parsed is nothing, two messages or a text with a quote.
LEMMA UnparsedHasCause ==
  ASSUME LinkTyped, RunTyped, ScriptFits, Waiting, CloseSeen, LateSeen, QuoteSeen,
         stage # "idle", wire # <<>> \/ ~open, Unparsed
  PROVE  saw \cap {"late", "quote", "close"} # {}
  <1>1. CASE wire = <<>>
    <2>1. script # <<>>
      BY DEF Waiting
    <2>2. QED
      BY <1>1, <2>1 DEF CloseSeen
  <1>2. CASE wire # <<>>
    <2>1. Len(wire) \in Nat \ {0} /\ Head(wire) = wire[1]
      BY <1>2, EmptySeq DEF LinkTyped
    <2>2. CASE Len(wire) > 1
      BY <2>2 DEF LateSeen
    <2>3. CASE Len(wire) = 1
      <3>1. 1 \in 1 .. Len(wire) /\ ~wire[1].readable
        BY <2>1, <2>3 DEF Unparsed
      <3>2. QED
        BY <3>1 DEF QuoteSeen
    <2>4. Len(wire) > 1 \/ Len(wire) = 1
      <3>1. \A n \in Nat \ {0} : n > 1 \/ n = 1
        OBVIOUS
      <3>2. QED
        BY <2>1, <3>1, Zenon
    <2>5. QED
      BY <2>2, <2>3, <2>4, Zenon
  <1>3. QED
    BY <1>1, <1>2, Zenon

LEMMA CauseStays ==
  ASSUME ExceptionHasCause, cause' = cause, saw \subseteq saw'
  PROVE  ExceptionHasCause'
  BY DEF ExceptionHasCause, InStep

\* A window that is shown is followed by the end only when something is thrown.
LEMMA WindowSteps ==
  ASSUME RunTyped, WidgetsTyped, [Next]_vars, ~ReceiveUnusable, ~Thrown
  PROVE  cause' = cause /\ (window' # window => window # "ended")
  <1>1. CASE Serve \/ SendMessage \/ ServerCloses \/ SendAsk \/ SendGet \/ SendRefused
                \/ SetButtons \/ FinishOutput \/ LeaveDialog
    BY <1>1 DEF Serve, SendMessage, ServerCloses, SendAsk, SendGet, SendRefused, SetButtons,
                FinishOutput, LeaveDialog, Running
  <1>2. ASSUME NEW m, ReceiveLogin(m) \/ ReceiveCode(m) \/ ReceiveHeader(m) \/ ReceiveName(m)
        PROVE  cause' = cause /\ (window' # window => window # "ended")
    BY <1>2 DEF ReceiveLogin, ReceiveCode, ReceiveHeader, ReceiveName, Running
  <1>3. CASE Click
    BY <1>3, ClickKinds DEF Opened, Connects
  <1>4. CASE UNCHANGED vars
    BY <1>4 DEF vars
  <1>5. QED
    BY <1>1, <1>2, <1>3, <1>4 DEF Next, HandlerStep

LEMMA CauseStep ==
  ASSUME RunTyped, WidgetsTyped, LinkTyped, ScriptFits, Linked, Conversation, CauseFits, [Next]_vars
  PROVE  CauseFits'
  <1>1. CASE ReceiveUnusable
    <2>0. saw' = saw /\ stage # "idle" /\ (wire # <<>> \/ ~open) /\ window' = "ended"
      BY <1>1 DEF ReceiveUnusable, Throw
    <2>1. CASE Unparsed
      <3>1. cause' = "parse"
        BY <1>1, <2>1 DEF ReceiveUnusable, Throw
      <3>2. saw \cap {"late", "quote", "close"} # {}
        BY <2>0, <2>1, UnparsedHasCause DEF Linked
      <3>3. QED
        BY <2>0, <3>1, <3>2 DEF CauseFits, ExceptionHasCause, InStep
    <2>2. CASE ~Unparsed
      <3>1. cause' = "type" /\ Mistyped(Head(wire))
        BY <1>1, <2>2 DEF ReceiveUnusable, Throw
      <3>2. PICK m : wire = <<m>>
        BY <2>2 DEF Unparsed, LinkTyped
      <3>3. Head(wire) = m
        BY <3>2
      <3>4. ~Talk
        BY <2>0, <3>1, <3>2, <3>3, InStepIsTyped DEF Linked
      <3>5. ~InStep
        BY <3>4 DEF Conversation
      <3>6. QED
        BY <2>0, <3>1, <3>5 DEF CauseFits, ExceptionHasCause, InStep
    <2>3. QED
      BY <2>1, <2>2
  <1>2. CASE Thrown
    BY <1>2 DEF Thrown, Throw, CauseFits, ExceptionHasCause
  <1>3. CASE Connects
    BY <1>3 DEF Connects, CauseFits, ExceptionHasCause
  <1>4. CASE ~ReceiveUnusable /\ ~Thrown /\ ~Connects
    BY <1>4, WindowSteps, SawGrows, CauseStays DEF CauseFits
  <1>5. QED
    BY <1>1, <1>2, <1>3, <1>4

-----------------------------------------------------------------------------
(* Buttons *)

\* A list with its delete button enabled has a selection or is being fetched.
Selected(l) ==
    DeleteOf[l] \in enabled =>
        current[l] # Absent \/ (stage # "idle" /\ Step.op = "get" /\ Step.list = l)

AllSelected ==
    window \in {"admin", "teacher"} /\ "refusal" \notin saw => \A l \in Lists : Selected(l)

LoginHasNoButtons == window = "login" => enabled = {}

PaperIsThere == (canMakePaper => paper # "absent") /\ AddedIsKept

LEMMA ButtonsFitParts == ButtonsFit <=> LoginHasNoButtons /\ AllSelected /\ PaperIsThere
  BY DEF ButtonsFit, LoginHasNoButtons, AllSelected, Selected, PaperIsThere

LEMMA PaperIsThereStep ==
  ASSUME RunTyped, WidgetsTyped, PaperIsThere, [Next]_vars
  PROVE  PaperIsThere'
  <1>1. CASE UNCHANGED <<enabled, paper, canMakePaper>>
    BY <1>1 DEF PaperIsThere, AddedIsKept
  <1>2. CASE UNCHANGED <<paper, canMakePaper>> /\ enabled' \subseteq enabled \cup (Buttons \ {"addPaper"})
    BY <1>2 DEF PaperIsThere, AddedIsKept
  <1>3. CASE Serve \/ SendMessage \/ ServerCloses \/ SendAsk \/ SendRefused \/ SendGet
                \/ ReceiveUnusable \/ FinishOutput
    BY <1>1, <1>3 DEF Serve, SendMessage, ServerCloses, SendAsk, SendRefused, SendGet,
                      ReceiveUnusable, FinishOutput, widgetVars, paperVars
  <1>4. ASSUME NEW m, ReceiveLogin(m) PROVE PaperIsThere'
    BY <1>4 DEF ReceiveLogin, widgetVars, PaperIsThere, AddedIsKept
  <1>5. ASSUME NEW m, ReceiveCode(m) \/ ReceiveHeader(m) \/ ReceiveName(m) PROVE PaperIsThere'
    <2>1. enabled' \subseteq enabled /\ UNCHANGED <<paper, canMakePaper>>
      BY <1>5 DEF ReceiveCode, ReceiveHeader, ReceiveName, Show, widgetVars, paperVars
    <2>2. QED
      BY <1>2, <2>1
  <1>6. CASE SetButtons
    <2>1. Step.on \subseteq {"chapterCreate", "questionCreate"}
      BY <1>6, HeadOfScript DEF SetButtons, Running, Step, SetSteps
    <2>2. QED
      BY <1>2, <1>6, <2>1 DEF SetButtons, paperVars, Buttons
  <1>7. CASE LeaveDialog \/ ClosePaper
    BY <1>7 DEF LeaveDialog, ClosePaper, PaperIsThere, AddedIsKept
  <1>8. CASE Untouched
    BY <1>1, <1>8 DEF Untouched, widgetVars, paperVars
  <1>9. ASSUME NEW l \in Lists, NEW x \in Name, ClickItem(l, x) PROVE PaperIsThere'
    <2>1. On[l] \subseteq Buttons \ {"addPaper"}
      BY DEF On, Lists, Buttons
    <2>2. /\ UNCHANGED <<paper, canMakePaper>>
          /\ "addPaper" \in enabled' => "addPaper" \in enabled \/ canMakePaper
      BY <1>9, <2>1 DEF ClickItem, paperVars
    <2>3. QED
      BY <2>2 DEF PaperIsThere, AddedIsKept
  <1>10. CASE DoubleClickQuestion
    BY <1>2, <1>10 DEF DoubleClickQuestion, paperVars, Buttons
  <1>11. CASE AddToPaper \/ RemoveFromPaper
    BY <1>1, <1>11 DEF AddToPaper, RemoveFromPaper, widgetVars
  <1>12. CASE OpenPaper \/ HidePaper
    BY <1>12 DEF OpenPaper, HidePaper, widgetVars, PaperIsThere, AddedIsKept
  <1>13. CASE UNCHANGED vars
    BY <1>8, <1>13 DEF vars, Untouched
  <1>14. CASE Click
    BY <1>7, <1>8, <1>9, <1>10, <1>11, <1>12, <1>14, ClickWidgets
  <1>15. QED
    BY <1>3, <1>4, <1>5, <1>6, <1>7, <1>13, <1>14 DEF Next, HandlerStep

\* The buttons of a dialog are its own.
LEMMA LoginHasNoButtonsStep ==
  ASSUME RunTyped, WidgetsTyped, ScriptFits, LoginHasNoButtons, [Next]_vars
  PROVE  LoginHasNoButtons'
  <1>1. CASE window' # "login"
    BY <1>1 DEF LoginHasNoButtons
  <1>2. CASE window' = window /\ enabled' = enabled
    BY <1>2 DEF LoginHasNoButtons
  <1>3. CASE Serve \/ SendMessage \/ ServerCloses \/ SendAsk \/ SendRefused \/ SendGet \/ FinishOutput
    BY <1>2, <1>3 DEF Serve, SendMessage, ServerCloses, SendAsk, SendRefused, SendGet, FinishOutput,
                      widgetVars
  <1>4. CASE ReceiveUnusable \/ LeaveDialog
    BY <1>1, <1>4 DEF ReceiveUnusable, Throw, LeaveDialog
  <1>5. ASSUME NEW m, ReceiveLogin(m) PROVE LoginHasNoButtons'
    BY <1>5 DEF ReceiveLogin, widgetVars, LoginHasNoButtons
  <1>6. ASSUME NEW m, ReceiveCode(m) \/ ReceiveHeader(m) \/ ReceiveName(m) PROVE LoginHasNoButtons'
    <2>1. enabled' \subseteq enabled /\ UNCHANGED window
      BY <1>6 DEF ReceiveCode, ReceiveHeader, ReceiveName, Show, widgetVars
    <2>2. QED
      BY <2>1 DEF LoginHasNoButtons
  <1>7. CASE SetButtons
    <2>1. script[1].op = "set" /\ 1 \in 1 .. Len(script) /\ UNCHANGED window
      BY <1>7, HeadOfScript DEF SetButtons, Running, Step
    <2>2. window # "login"
      BY <2>1 DEF ScriptFits, LoginFits
    <2>3. QED
      BY <1>1, <2>1, <2>2
  <1>8. CASE Click
    <2>1. CASE Opened
      BY <1>1, <2>1 DEF Opened
    <2>2. CASE Thrown
      BY <1>1, <2>2 DEF Thrown, Throw
    <2>3. CASE Connects
      <3>1. CASE Untouched
        BY <1>2, <2>3, <3>1 DEF Untouched, Connects, widgetVars
      <3>2. ~Untouched => window # "login"
        BY <1>8, ClickWidgets DEF ClickItem, DoubleClickQuestion, AddToPaper, OpenPaper, HidePaper,
                                  ClosePaper, RemoveFromPaper, Press, Free
      <3>3. QED
        BY <2>3, <3>1, <3>2 DEF Connects
    <2>4. QED
      BY <1>8, <2>1, <2>2, <2>3, ClickKinds
  <1>9. CASE UNCHANGED vars
    BY <1>2, <1>9 DEF vars, widgetVars
  <1>10. QED
    BY <1>3, <1>4, <1>5, <1>6, <1>7, <1>8, <1>9 DEF Next, HandlerStep

\* No two lists share a delete button, and a click on an item of one enables
\* the delete button of no other.
LEMMA DeleteButtons ==
  /\ \A k, l \in Lists : DeleteOf[k] = DeleteOf[l] => k = l
  /\ \A k, l \in Lists : DeleteOf[k] \in On[l] => k = l
  /\ \A l \in Lists : DeleteOf[l] \notin {"addPaper", "store", "chapterCreate", "questionCreate"}
  BY DEF DeleteOf, On, Lists

\* A list that is shown has its delete button disabled, the others stay.
LEMMA ShowSelected ==
  ASSUME WidgetsTyped, Step.list \in Lists, NEW names, Show(names),
         NEW l \in Lists, DeleteOf[l] \in enabled', Selected(l)
  PROVE  current'[l] # Absent
  <1>1. l # Step.list /\ DeleteOf[l] \in enabled
    BY DEF Show
  <1>2. current'[l] = current[l]
    BY <1>1 DEF Show, WidgetsTyped
  <1>3. QED
    BY <1>1, <1>2 DEF Selected

LEMMA AllSelectedStep ==
  ASSUME RunTyped, WidgetsTyped, LinkTyped, ScriptFits, Waiting, LoginHasNoButtons, AllSelected,
         [Next]_vars
  PROVE  AllSelected'
  <1> SUFFICES ASSUME window' \in {"admin", "teacher"}, "refusal" \notin saw',
                      NEW l \in Lists, DeleteOf[l] \in enabled'
               PROVE  \/ current'[l] # Absent
                      \/ stage' # "idle" /\ Step'.op = "get" /\ Step'.list = l
    BY DEF AllSelected, Selected
  <1>1. ASSUME NEW m, ReceiveLogin(m) PROVE FALSE
    BY <1>1, LoginReceived DEF ReceiveLogin, LoginHasNoButtons, widgetVars
  <1>2. CASE ~\E m : ReceiveLogin(m)
    <2>1. window \in {"admin", "teacher"} /\ "refusal" \notin saw
      <3>1. ~Connects
        BY DEF Connects
      <3>2. "refusal" \notin saw
        BY <3>1, SawGrows
      <3>3. window' = window
        <4>1. CASE Serve \/ SendMessage \/ ServerCloses \/ SendAsk \/ SendGet \/ SendRefused
                      \/ SetButtons \/ FinishOutput \/ LeaveDialog \/ ReceiveUnusable
          BY <4>1 DEF Serve, SendMessage, ServerCloses, SendAsk, SendGet, SendRefused, SetButtons,
                      FinishOutput, LeaveDialog, ReceiveUnusable, Throw
        <4>2. ASSUME NEW m, ReceiveCode(m) \/ ReceiveHeader(m) \/ ReceiveName(m)
              PROVE  window' = window
          BY <4>2 DEF ReceiveCode, ReceiveHeader, ReceiveName
        <4>3. CASE Click
          BY <4>3, ClickKinds DEF Opened, Thrown, Throw, Connects
        <4>4. CASE UNCHANGED vars
          BY <4>4 DEF vars
        <4>5. QED
          BY <1>2, <4>1, <4>2, <4>3, <4>4 DEF Next, HandlerStep
      <3>4. QED
        BY <3>2, <3>3
    <2>2. Selected(l)
      BY <2>1 DEF AllSelected
    <2>3. CASE /\ UNCHANGED current /\ stage = "idle"
               /\ enabled' \subseteq enabled \cup {"addPaper", "store", "chapterCreate", "questionCreate"}
      BY <2>2, <2>3, DeleteButtons DEF Selected
    <2>4. CASE UNCHANGED <<widgetVars, stage, script>>
      BY <2>2, <2>4 DEF Selected, widgetVars, Step
    <2>5. CASE Serve \/ SendMessage \/ ServerCloses
      BY <2>4, <2>5 DEF Serve, SendMessage, ServerCloses, recvVars
    <2>6. CASE SendAsk \/ SendRefused \/ FinishOutput
      <3>1. stage = "idle" /\ UNCHANGED widgetVars
        BY <2>6, OnlyRequestsWait DEF SendAsk, SendRefused, FinishOutput, Running, Step
      <3>2. QED
        BY <2>3, <3>1 DEF widgetVars
    <2>7. CASE SetButtons
      <3>1. stage = "idle" /\ UNCHANGED current /\ enabled' \subseteq enabled \cup Step.on
        BY <2>7, OnlyRequestsWait DEF SetButtons, Running, Step
      <3>2. Step.on \subseteq {"chapterCreate", "questionCreate"}
        BY <2>7, HeadOfScript DEF SetButtons, Running, Step, SetSteps
      <3>3. QED
        BY <2>3, <3>1, <3>2
    <2>8. CASE SendGet
      <3>1. stage = "idle" /\ stage' # "idle" /\ Step' = Step /\ Step.op = "get"
        BY <2>8 DEF SendGet, Post, Running, Step
      <3>2. CASE l = Step.list
        BY <3>1, <3>2
      <3>3. CASE l # Step.list
        <4>1. current'[l] = current[l] /\ enabled' = enabled
          BY <2>8, <3>3 DEF SendGet, WidgetsTyped
        <4>2. QED
          BY <2>2, <3>1, <4>1 DEF Selected
      <3>4. QED
        BY <3>2, <3>3
    <2>9. CASE ReceiveUnusable \/ LeaveDialog
      BY <2>9 DEF ReceiveUnusable, Throw, LeaveDialog
    <2>10. ASSUME NEW m, ReceiveCode(m) PROVE current'[l] # Absent
      BY <2>2, <2>10 DEF ReceiveCode, Running, Step, Selected, widgetVars
    <2>11. CASE \E m \in ToSet(wire) : ReceiveHeader(m) \/ ReceiveName(m)
      <3>1. PICK m \in ToSet(wire) : ReceiveHeader(m) \/ ReceiveName(m)
        BY <2>11
      <3>2. Step.list \in Lists
        BY <3>1, CountReceived, NameReceived
      <3>3. CASE \E names : Show(names)
        BY <2>2, <3>2, <3>3, ShowSelected
      <3>4. CASE ~\E names : Show(names)
        <4>1. UNCHANGED <<widgetVars, script>> /\ stage # "idle" /\ stage' # "idle"
          BY <3>1, <3>4 DEF ReceiveHeader, ReceiveName, Receive
        <4>2. QED
          BY <2>2, <4>1 DEF Selected, widgetVars, Step
      <3>5. QED
        BY <3>3, <3>4
    <2>12. CASE Click
      <3>1. stage = "idle"
        BY <2>12, ClickKinds DEF Opened, Thrown, Connects, Waiting
      <3>2. CASE Untouched
        BY <2>3, <3>1, <3>2 DEF Untouched, widgetVars
      <3>3. ASSUME NEW k \in Lists, NEW x \in Name, ClickItem(k, x) PROVE current'[l] # Absent
        <4>1. CASE l = k
          BY <3>3, <4>1, NameAssumption DEF ClickItem, WidgetsTyped
        <4>2. CASE l # k
          <5>1. current'[l] = current[l]
            BY <3>3, <4>2 DEF ClickItem, WidgetsTyped
          <5>2. DeleteOf[l] \in enabled
            BY <3>3, <4>2, DeleteButtons DEF ClickItem
          <5>3. QED
            BY <2>2, <3>1, <5>1, <5>2 DEF Selected
        <4>3. QED
          BY <4>1, <4>2
      <3>4. CASE DoubleClickQuestion \/ AddToPaper \/ OpenPaper \/ HidePaper \/ ClosePaper
                    \/ RemoveFromPaper
        <4>1. UNCHANGED current /\ enabled' \subseteq enabled \cup {"store"}
          BY <3>4 DEF DoubleClickQuestion, AddToPaper, OpenPaper, HidePaper, ClosePaper,
                      RemoveFromPaper, widgetVars
        <4>2. QED
          BY <2>3, <3>1, <4>1
      <3>5. QED
        BY <2>12, <3>2, <3>3, <3>4, ClickWidgets
    <2>13. CASE UNCHANGED vars
      BY <2>4, <2>13 DEF vars, recvVars
    <2>14. QED
      BY <1>2, <2>5, <2>6, <2>7, <2>8, <2>9, <2>10, <2>11, <2>12, <2>13 DEF Next, HandlerStep
  <1>3. QED
    BY <1>1, <1>2

LEMMA ButtonsStep ==
  ASSUME RunTyped, WidgetsTyped, LinkTyped, ScriptFits, Waiting, ButtonsFit, [Next]_vars
  PROVE  ButtonsFit'
  <1>1. LoginHasNoButtons /\ AllSelected /\ PaperIsThere
    BY ButtonsFitParts
  <1>2. LoginHasNoButtons' /\ AllSelected' /\ PaperIsThere'
    BY <1>1, LoginHasNoButtonsStep, AllSelectedStep, PaperIsThereStep
  <1>3. QED
    BY <1>2 DEF ButtonsFit, LoginHasNoButtons, AllSelected, Selected, PaperIsThere

-----------------------------------------------------------------------------
(* The paper *)

LEMMA NotOutputting ==
  ASSUME PaperFits, ~Output, window # "ended"
  PROVE  texts = <<>>
  BY DEF PaperFits

LEMMA NoPaper ==
  ASSUME ~Output', texts' = <<>> \/ window' = "ended"
  PROVE  PaperFits'
  BY DEF PaperFits

\* Reading ends with the first failure: what is left is to flush the file.
LEMMA FailureEnds ==
  ASSUME RunTyped, ScriptFits, PaperFits, window # "ended", script # <<>>, Step.op = "ask",
         Skip(Step.skip), UNCHANGED <<window, texts, questionsList>>, saw \subseteq saw'
  PROVE  PaperFits'
  <1>1. Step.skip \in Nat
    BY HeadOfScript DEF AskSteps
  <1>2. Step.skip + 1 \in Nat \ {0} /\ (Step.skip + 1) + 1 = Step.skip + 2
    BY <1>1
  <1>3. script' = SubSeq(script, (Step.skip + 1) + 1, Len(script))
    BY <1>2 DEF Skip
  <1>4. /\ Output' => Output
        /\ Len(script') = IF Step.skip + 1 < Len(script) THEN Len(script) - (Step.skip + 1) ELSE 0
    BY <1>2, <1>3, Advanced
  <1>5. CASE ~Output
    BY <1>4, <1>5, NotOutputting, NoPaper
  <1>6. CASE Output
    <2>1. Step.skip = Len(script) - 2 /\ Len(script) > 1
      BY <1>6, OutputReads
    <2>2. Len(script) \in Nat
      BY DEF RunTyped
    <2>3. Len(script') = 1
      <3>1. PICK n \in Nat : n = Step.skip
        BY <1>1
      <3>2. Len(script) = n + 2
        BY <2>1, <2>2, <3>1
      <3>3. n + 1 < Len(script) /\ Len(script) - (n + 1) = 1
        BY <2>2, <3>2
      <3>4. QED
        BY <1>4, <3>1, <3>3
    <2>4. ReadsFit'
      BY <2>3 DEF ReadsFit
    <2>5. InStep' => TextsFit'
      BY <1>6 DEF PaperFits, TextsFit, InStep
    <2>6. InStep' /\ Output' => TextsFit' /\ ReadsFit'
      BY <2>4, <2>5
    <2>7. Output'
      <3>1. script' # <<>> /\ Last(script') = script'[1]
        BY <2>3 DEF Last
      <3>2. script'[1] = script[Len(script)]
        <4>1. 1 \in 1 .. Len(script') /\ 1 + (Step.skip + 1) = Len(script)
          BY <2>1, <2>2, <2>3
        <4>2. script'[1] = script[1 + (Step.skip + 1)]
          BY <1>2, <1>3, <4>1, Advanced
        <4>3. QED
          BY <4>1, <4>2
      <3>3. QED
        BY <1>6, <3>1, <3>2 DEF Output, Last
    <2>8. QED
      BY <2>6, <2>7 DEF PaperFits
  <1>7. QED
    BY <1>5, <1>6

\* A step that is done is taken off.
LEMMA DoneAdvances ==
  ASSUME RunTyped, ScriptFits, NEW op, Running(op), Done, UNCHANGED window
  PROVE  /\ Len(script) \in Nat \ {0} /\ Len(script') = Len(script) - 1
         /\ \A i \in 1 .. Len(script') : script'[i] = script[i + 1]
         /\ Output' => Output
  <1>1. script' = SubSeq(script, 1 + 1, Len(script)) /\ script \in Seq(Steps)
    BY TailIsSubSeq DEF RunTyped, Done, Running
  <1>2. PICK n \in Nat \ {0} : n = 1
    OBVIOUS
  <1>3. script' = SubSeq(script, n + 1, Len(script))
    BY <1>1, <1>2
  <1>4. /\ Output' => Output
        /\ Len(script') = IF n < Len(script) THEN Len(script) - n ELSE 0
        /\ \A i \in 1 .. Len(script') : script'[i] = script[i + n]
    BY <1>3, Advanced
  <1>5. Len(script) \in Nat \ {0}
    BY <1>1, EmptySeq DEF Running
  <1>6. Len(script') = IF 1 < Len(script) THEN Len(script) - 1 ELSE 0
    BY <1>2, <1>4
  <1>7. Len(script') = Len(script) - 1
    BY <1>5, <1>6
  <1>8. \A i \in 1 .. Len(script') : script'[i] = script[i + 1]
    BY <1>2, <1>4
  <1>9. QED
    BY <1>4, <1>5, <1>7, <1>8

\* The text of the next question of the paper is received.
ReceiveText(m) == ReceiveCode(m) /\ m.code = 200

LEMMA TextFits ==
  ASSUME RunTyped, WidgetsTyped, LinkTyped, ScriptFits, Conversation, PaperFits, NEW m \in ToSet(wire),
         ReceiveText(m), Output
  PROVE  PaperFits'
  <1>1. /\ script # <<>> /\ Step.op = "ask" /\ stage = "code" /\ wire = <<m>>
        /\ Done /\ texts' = Append(texts, m.value)
        /\ UNCHANGED <<window, questionsList, saw>>
    BY DEF ReceiveText, ReceiveCode, Receive, Running, Step, Output, paperVars
  <1>2. Len(script) > 1
    BY <1>1, OutputReads
  <1>9. m.value \in Entry /\ Step.cmd = "read question"
    <2>1. Step.cmd = "read question"
      BY <1>1, OutputReads
    <2>2. m.value \in Entry
      BY TextReceived DEF Output, ReceiveText
    <2>3. QED
      BY <2>1, <2>2
  <1>10. texts' = Append(texts, m.value) /\ m.value \in Entry /\ UNCHANGED questionsList
    BY <1>1, <1>9
  <1>3. Len(script) \in Nat /\ texts \in Seq(Entry) /\ Len(texts) \in Nat
    BY DEF RunTyped
  <1>4. /\ Len(script') = Len(script) - 1
        /\ \A i \in 1 .. Len(script') : script'[i] = script[i + 1]
    BY <1>1, DoneAdvances DEF ReceiveText, ReceiveCode
  <1>5. Output'
    <2>1. Len(script') \in 1 .. Len(script') /\ Len(script') + 1 = Len(script)
      BY <1>2, <1>3, <1>4
    <2>2. script'[Len(script')] = script[Len(script)]
      <3>1. script'[Len(script')] = script[Len(script') + 1]
        BY <1>4, <2>1
      <3>2. QED
        BY <2>1, <3>1
    <2>3. script' # <<>>
      BY <2>1, EmptySeq
    <2>4. QED
      BY <2>2, <2>3 DEF Output, Last
  <1>6. /\ Len(texts') = Len(texts) + 1
        /\ \A i \in 1 .. Len(texts) : texts'[i] = texts[i]
        /\ texts'[Len(texts) + 1] = m.value
    BY <1>3, <1>10, AppendProperties
  <1>7. ASSUME InStep' PROVE TextsFit' /\ ReadsFit'
    <2>1. InStep
      BY <1>1, <1>7 DEF InStep
    <2>2. m.value = Step.entry
      <3>1. wire \o reply # <<>> /\ (wire \o reply)[1] = m
        BY <1>1, OnItsWay, FirstOfRest
      <3>2. CodeFits(m, Step)
        BY <1>1, <2>1, <3>1 DEF Conversation, Talk, Fits
      <3>3. QED
        BY <1>1, <1>9, <3>2 DEF CodeFits, ReceiveText
    <2>3. TextsFit /\ ReadsFit
      BY <2>1 DEF PaperFits
    <2>4. /\ Len(texts) + (Len(script) - 1) = Len(questionsList)
          /\ \A i \in 1 .. Len(script) - 1 : script[i].entry = questionsList[Len(texts) + i]
      BY <1>2, <1>3, <2>3 DEF ReadsFit
    <2>5. Step.entry = questionsList[Len(texts) + 1]
      <3>1. Step = script[1]
        BY <1>1, HeadOfScript
      <3>2. 1 \in 1 .. Len(script) - 1
        BY <1>2, <1>3
      <3>3. QED
        BY <2>4, <3>1, <3>2
    <2>6. TextsFit'
      <3>1. Len(texts') <= Len(questionsList)
        BY <1>2, <1>3, <1>6, <2>4
      <3>2. ASSUME NEW i \in 1 .. Len(texts') PROVE texts'[i] = questionsList[i]
        <4>1. CASE i \in 1 .. Len(texts)
          BY <1>6, <2>3, <4>1 DEF TextsFit
        <4>2. CASE i = Len(texts) + 1
          BY <1>6, <2>2, <2>5, <4>2
        <4>3. QED
          BY <1>3, <1>6, <4>1, <4>2
      <3>3. QED
        BY <1>10, <3>1, <3>2 DEF TextsFit
    <2>7. ReadsFit'
      <3>1. Len(texts') + (Len(script') - 1) = Len(questionsList)
        <4>1. Len(texts) + (Len(script) - 1) = Len(questionsList)
          BY <2>4
        <4>2. Len(script) \in Nat /\ Len(texts) \in Nat
          BY <1>3
        <4>3. Len(script') = Len(script) - 1 /\ Len(texts') = Len(texts) + 1
          BY <1>4, <1>6
        <4>4. QED
          BY <4>1, <4>2, <4>3
      <3>2. ASSUME NEW i \in 1 .. Len(script') - 1
            PROVE  script'[i].entry = questionsList[Len(texts') + i]
        <4>1. i + 1 \in 1 .. Len(script) - 1 /\ i \in 1 .. Len(script')
          BY <1>3, <1>4
        <4>2. script'[i].entry = questionsList[Len(texts) + (i + 1)]
          BY <1>4, <2>4, <4>1
        <4>3. Len(texts) + (i + 1) = Len(texts') + i
          BY <1>3, <1>6
        <4>4. QED
          BY <4>2, <4>3
      <3>3. QED
        BY <1>10, <3>1, <3>2 DEF ReadsFit
    <2>8. QED
      BY <2>6, <2>7
  <1>8. QED
    BY <1>5, <1>7 DEF PaperFits

\* When the file is flushed, every question has been read or given up.
LEMMA FinishIsLast ==
  ASSUME RunTyped, ScriptFits, FinishOutput
  PROVE  ~Output'
  <1>1. script # <<>> /\ Step.op = "finish" /\ Done /\ UNCHANGED window
    BY DEF FinishOutput, Running, Step
  <1>2. Step = script[1]
    BY <1>1, HeadOfScript
  <1>3. SUFFICES ASSUME Output' PROVE FALSE
    OBVIOUS
  <1>4. Output /\ Len(script) \in Nat \ {0} /\ Len(script') = Len(script) - 1
    BY <1>1, <1>3, DoneAdvances DEF FinishOutput
  <1>5. Len(script') # 0
    BY <1>3, <1>4, EmptySeq, Advanced DEF Output
  <1>6. 1 \in 1 .. Len(script) - 1
    BY <1>4, <1>5
  <1>7. script[1].op = "ask"
    BY <1>4, <1>6 DEF ScriptFits, ReadsOnly
  <1>8. QED
    BY <1>1, <1>2, <1>7

\* A click begins to output the paper, or nothing.
LEMMA OpenedPaper ==
  ASSUME PaperFits, Opened
  PROVE  PaperFits'
  <1>1. ~Output /\ window # "ended" /\ texts' = texts
    BY DEF Opened, Output, outputVars
  <1>2. texts' = <<>> /\ Len(texts') = 0
    BY <1>1, NotOutputting, EmptySeq
  <1>3. ASSUME Output' PROVE TextsFit' /\ ReadsFit'
    <2>1. ReadsList' /\ Len(script') - 1 = Len(questionsList')
      BY <1>3 DEF Opened, ReadsList
    <2>2. Len(script') \in Nat
      BY DEF Opened
    <2>3. Len(questionsList') \in Int /\ (Len(script') - 1 > 0 => Len(questionsList') >= 0)
      BY <2>1, <2>2
    <2>4. Len(script') >= 1
      BY <1>3, EmptySeq DEF Opened, Output
    <2>5. TextsFit'
      BY <1>2, <2>1, <2>2, <2>4 DEF TextsFit
    <2>6. ReadsFit'
      <3>1. ASSUME NEW i \in 1 .. Len(script') - 1
            PROVE  script'[i].entry = questionsList'[Len(texts') + i]
        <4>1. PICK e, k : script'[i] = Read(e, k) /\ e = questionsList'[i]
          BY <2>1 DEF ReadsList
        <4>2. Read(e, k).entry = e
          BY DEF Read, Request
        <4>3. Len(texts') + i = i
          BY <1>2
        <4>4. QED
          BY <4>1, <4>2, <4>3
      <3>2. Len(texts') + (Len(script') - 1) = Len(questionsList')
        BY <1>2, <2>1, <2>2
      <3>3. QED
        BY <3>1, <3>2 DEF ReadsFit
    <2>7. QED
      BY <2>5, <2>6
  <1>4. QED
    BY <1>2, <1>3 DEF PaperFits

LEMMA PaperStep ==
  ASSUME RunTyped, WidgetsTyped, LinkTyped, ScriptFits, Conversation, PaperFits, [Next]_vars
  PROVE  PaperFits'
  <1>1. CASE /\ UNCHANGED <<window, script, texts, questionsList>> /\ saw \subseteq saw'
    BY <1>1 DEF PaperFits, TextsFit, ReadsFit, Output, InStep
  <1>2. CASE Serve \/ SendMessage \/ ServerCloses \/ SendAsk \/ SendGet
    BY <1>1, <1>2 DEF Serve, SendMessage, ServerCloses, SendAsk, SendGet, outputVars, paperVars
  <1>3. CASE SendRefused
    BY <1>3, FailureEnds DEF SendRefused, Running, Step, outputVars, paperVars
  <1>4. CASE ReceiveUnusable \/ Thrown
    <2>1. script' = <<>> /\ window' = "ended"
      BY <1>4 DEF ReceiveUnusable, Thrown, Throw
    <2>2. QED
      BY <2>1, NoPaper DEF Output
  <1>5. ASSUME script # <<>>, window # "ended", Step.op \notin {"ask", "finish"}
        PROVE  ~Output /\ texts = <<>>
    BY <1>5, OutputReads, NotOutputting
  <1>6. CASE SetButtons
    <2>1. script # <<>> /\ window # "ended" /\ Step.op = "set" /\ Done
          /\ UNCHANGED <<window, texts>>
      BY <1>6 DEF SetButtons, Running, Step, outputVars
    <2>2. ~Output /\ texts = <<>>
      BY <1>5, <2>1
    <2>3. ~Output'
      BY <1>6, <2>1, <2>2, DoneAdvances DEF SetButtons
    <2>4. QED
      BY <2>1, <2>2, <2>3, NoPaper
  <1>7. CASE LeaveDialog
    <2>1. script # <<>> /\ window # "ended" /\ Step.op = "leave" /\ script' = <<>>
          /\ UNCHANGED texts
      BY <1>7 DEF LeaveDialog, Running, Step, outputVars
    <2>2. QED
      BY <1>5, <2>1, NoPaper DEF Output
  <1>8. CASE FinishOutput
    BY <1>8, FinishIsLast, NoPaper DEF FinishOutput
  <1>9. ASSUME NEW m \in ToSet(wire), ReceiveHeader(m) \/ ReceiveName(m) PROVE PaperFits'
    <2>1. script # <<>> /\ window # "ended" /\ Step.op = "get"
          /\ UNCHANGED <<window, texts>> /\ (UNCHANGED script \/ Done)
      BY <1>9 DEF ReceiveHeader, ReceiveName, Show, Running, Step, outputVars
    <2>2. ~Output /\ texts = <<>>
      BY <1>5, <2>1
    <2>3. ~Output'
      <3>1. CASE UNCHANGED script
        BY <2>2, <3>1 DEF Output
      <3>2. CASE Done
        BY <1>9, <2>1, <2>2, <3>2, DoneAdvances DEF ReceiveHeader, ReceiveName
      <3>3. QED
        BY <2>1, <3>1, <3>2
    <2>4. QED
      BY <2>1, <2>2, <2>3, NoPaper
  <1>10. ASSUME NEW m, ReceiveLogin(m) PROVE PaperFits'
    <2>1. script # <<>> /\ window # "ended" /\ Step.op = "ask" /\ Step.cmd = "login"
          /\ UNCHANGED texts
      BY <1>10 DEF ReceiveLogin, Running, Step, outputVars
    <2>2. ~Output
      BY <2>1, OutputReads
    <2>3. Empties \/ Enters
      BY <1>10 DEF ReceiveLogin, Empties, Enters
    <2>4. ~Output'
      BY <2>3, EntersFits DEF Empties, Output
    <2>5. QED
      BY <2>1, <2>2, <2>4, NotOutputting, NoPaper
  <1>11. ASSUME NEW m \in ToSet(wire), ReceiveCode(m) PROVE PaperFits'
    <2>1. CASE m.code = 200 /\ Output
      BY <1>11, <2>1, TextFits DEF ReceiveText
    <2>2. CASE m.code # 200
      <3>1. script # <<>> /\ window # "ended" /\ Step.op = "ask" /\ Skip(Step.skip)
            /\ UNCHANGED <<window, texts, questionsList, saw>>
        BY <1>11, <2>2 DEF ReceiveCode, Running, Step, paperVars
      <3>2. QED
        BY <3>1, FailureEnds
    <2>3. CASE m.code = 200 /\ ~Output
      <3>1. script # <<>> /\ window # "ended" /\ Running("ask") /\ Done /\ UNCHANGED window
        BY <1>11, <2>3 DEF ReceiveCode, Running
      <3>2. texts' = texts /\ texts = <<>>
        BY <1>11, <2>3, <3>1, NotOutputting DEF ReceiveCode, Output
      <3>3. ~Output'
        BY <2>3, <3>1, DoneAdvances
      <3>4. QED
        BY <3>2, <3>3, NoPaper
    <2>4. QED
      BY <2>1, <2>2, <2>3
  <1>12. CASE Opened
    BY <1>12, OpenedPaper
  <1>13. CASE Connects
    <2>1. ~Output /\ window # "ended" /\ texts' = texts
      BY <1>13 DEF Connects, Output, outputVars
    <2>2. ~Output'
      BY <1>13, ConnectsFits
    <2>3. QED
      BY <2>1, <2>2, NotOutputting, NoPaper
  <1>14. CASE UNCHANGED vars
    BY <1>1, <1>14 DEF vars, outputVars, paperVars
  <1>15. QED
    BY <1>2, <1>3, <1>4, <1>6, <1>7, <1>8, <1>9, <1>10, <1>11, <1>12, <1>13, <1>14, ClickKinds
    DEF Next, HandlerStep

-----------------------------------------------------------------------------
(* The invariant and the theorems *)

LEMMA FInitInv == Init => FInv
  <1> SUFFICES ASSUME Init PROVE FInv
    OBVIOUS
  <1>1. script = <<>> /\ texts = <<>> /\ stage = "idle" /\ wire = <<>> /\ reply = <<>> /\ up = <<>>
    BY DEF Init
  <1>2. Typed
    <2>1. RunTyped
      BY EmptySeq, BoundAssumption DEF Init, RunTyped
    <2>2. WidgetsTyped
      <3>1. shown \in [Lists -> Seq(Name)] /\ current \in [Lists -> Name \cup {Absent}]
        BY EmptySeq DEF Init, NoItem
      <3>2. questionsList \in Seq(Entry) /\ Len(questionsList) <= MaxPaper
        BY EmptySeq, BoundAssumption DEF Init
      <3>3. QED
        BY <3>1, <3>2 DEF Init, WidgetsTyped
    <2>3. LinkTyped
      <3>1. up \in Seq(Pieced) /\ reply \in Seq(Mail) /\ wire \in Seq(Mail) /\ Len(up) = 0
        BY <1>1, EmptySeq
      <3>2. \A i \in 1 .. Len(up) : up[i].part = "head" => i < Len(up)
        BY <3>1
      <3>3. open \in BOOLEAN /\ edge = FALSE
        BY DEF Init
      <3>4. QED
        BY <3>1, <3>2, <3>3 DEF LinkTyped
    <2>4. QED
      BY <2>1, <2>2, <2>3 DEF Typed
  <1>3. ScriptFits /\ ~Output
    BY <1>1, EmptyScript
  <1>4. Linked
    BY <1>1, EmptySeq DEF Init, Linked, Waiting, Closed, CloseSeen, LateSeen, QuoteSeen
  <1>5. Conversation
    BY <1>1, EmptySeq, ConcatEmptySeq DEF Conversation, Talk
  <1>6. CauseFits
    BY DEF Init, CauseFits, ExceptionHasCause
  <1>7. ButtonsFit
    BY DEF Init, ButtonsFit, AddedIsKept
  <1>8. PaperFits
    BY <1>1, <1>3 DEF PaperFits
  <1>9. QED
    BY <1>2, <1>3, <1>4, <1>5, <1>6, <1>7, <1>8 DEF FInv

LEMMA FStepInv == FInv /\ [Next]_vars => FInv'
  <1> SUFFICES ASSUME FInv, [Next]_vars PROVE FInv'
    OBVIOUS
  <1>1. /\ RunTyped /\ WidgetsTyped /\ LinkTyped /\ ScriptFits /\ Linked /\ Conversation
        /\ CauseFits /\ ButtonsFit /\ PaperFits
        /\ Waiting /\ Closed /\ CloseSeen /\ LateSeen /\ QuoteSeen
    BY DEF FInv, Typed, Linked
  <1>2. RunTyped' /\ WidgetsTyped' /\ LinkTyped' /\ ScriptFits'
    BY <1>1, RunStep, WidgetsStep, LinkStep, ScriptStep
  <1>3. Linked'
    BY <1>1, WaitingStep, ClosedStep, WireStep DEF Linked
  <1>4. Conversation'
    BY <1>1, <1>2, ConversationStep
  <1>5. CauseFits' /\ ButtonsFit' /\ PaperFits'
    BY <1>1, CauseStep, ButtonsStep, PaperStep
  <1>6. QED
    BY <1>2, <1>3, <1>4, <1>5 DEF FInv, Typed

\* Every variable keeps its type: a reply is one of the messages the server
\* has, and what it carries is stored where a value of that kind belongs.
THEOREM FrontEndTypes == Spec => []TypeOK
  <1>1. FInv => TypeOK
    BY TypedIsTypeOK DEF FInv
  <1>2. QED
    BY FInitInv, FStepInv, <1>1, PTL DEF Spec

\* When no handler runs in a dialog, nothing of an earlier request is under way
\* in either direction, unless a count was wrong or a request overlong.
THEOREM RepliesBelong == Spec => []IdleIsQuiet
  <1>1. FInv => IdleIsQuiet
    <2> SUFFICES ASSUME FInv, window \in {"admin", "teacher"}, script = <<>>, InStep
                 PROVE  up = <<>> /\ reply = <<>> /\ wire = <<>>
      BY DEF IdleIsQuiet
    <2>1. stage = "idle"
      BY DEF FInv, Linked, Waiting
    <2>2. Talk /\ LinkTyped
      BY DEF FInv, Conversation, Typed
    <2>3. QED
      BY <2>1, <2>2, IdleTalk
  <1>2. QED
    BY FInitInv, FStepInv, <1>1, PTL DEF Spec

\* The parser throws only for what went out of the ordinary on the connection,
\* and a missing key only after a wrong count or an overlong request.
THEOREM ExceptionsHaveCauses == Spec => []ExceptionHasCause
  <1>1. FInv => ExceptionHasCause
    BY DEF FInv, CauseFits
  <1>2. QED
    BY FInitInv, FStepInv, <1>1, PTL DEF Spec

\* Unless a list was refused, the buttons that delete a user, subject or chapter
\* are enabled only with one selected.
THEOREM DeletesHaveSelections == Spec => []DeleteHasSelection
  <1>1. FInv => DeleteHasSelection
    <2> SUFFICES ASSUME FInv, window \in {"admin", "teacher"}, script = <<>>, "refusal" \notin saw
                 PROVE  /\ "userDelete" \in enabled => current["users"] # Absent
                        /\ "subjectDelete" \in enabled => current["subjects"] # Absent
                        /\ "chapterDelete" \in enabled => current["chapters"] # Absent
      BY DEF DeleteHasSelection
    <2>1. stage = "idle"
      BY DEF FInv, Linked, Waiting
    <2>2. \A l \in Lists : DeleteOf[l] \in enabled => current[l] # Absent
      BY <2>1 DEF FInv, ButtonsFit
    <2>3. /\ "users" \in Lists /\ "subjects" \in Lists /\ "chapters" \in Lists
          /\ DeleteOf["users"] = "userDelete" /\ DeleteOf["subjects"] = "subjectDelete"
          /\ DeleteOf["chapters"] = "chapterDelete"
      BY DEF Lists, DeleteOf
    <2>4. QED
      BY <2>2, <2>3
  <1>2. QED
    BY FInitInv, FStepInv, <1>1, PTL DEF Spec

\* The button that adds a question is enabled only while there is a paper.
THEOREM AdditionsAreKept == Spec => []AddedIsKept
  <1>1. FInv => AddedIsKept
    BY DEF FInv, ButtonsFit
  <1>2. QED
    BY FInitInv, FStepInv, <1>1, PTL DEF Spec

LEMMA PrefixOf ==
  ASSUME NEW S, NEW s \in Seq(S), NEW t \in Seq(S), NEW u \in Seq(S), Len(s) = Len(t),
         \A i \in 1 .. Len(t) : t[i] = s[i]
  PROVE  IsPrefix(s, t \o u)
  <1>1. s = t
    BY SeqEqual
  <1>2. Len(t \o u) = Len(t) + Len(u) /\ Len(t) \in Nat /\ Len(u) \in Nat
    BY ConcatProperties
  <1>3. SubSeq(t \o u, 1, Len(t)) = SubSeq(t, 1, Len(t))
    <2>1. CASE Len(t) = 0
      <3>1. Len(t) < 1
        BY <2>1
      <3>2. QED
        BY <1>2, <3>1, SubSeqEmpty
    <2>2. CASE Len(t) # 0
      <3>1. 1 \in 1 .. Len(t) /\ Len(t) \in 1 .. Len(t)
        BY <1>2, <2>2
      <3>2. QED
        BY <3>1, SubSeqOfConcat1
    <2>3. QED
      BY <2>1, <2>2
  <1>4. QED
    BY <1>1, <1>2, <1>3 DEF IsPrefix

WritesTheList ==
    FinishOutput /\ Len(texts) = Len(questionsList) /\ InStep => IsPrefix(questionsList, file')

\* As long as no count was wrong and no request overlong, a paper of which no
\* question failed begins with the texts of the list in the order of the list.
THEOREM PapersAreTheList == Spec => PaperIsTheList
  <1>1. FInv /\ [Next]_vars => [WritesTheList]_vars
    <2> SUFFICES ASSUME FInv, FinishOutput, Len(texts) = Len(questionsList), InStep
                 PROVE  IsPrefix(questionsList, file')
      BY DEF WritesTheList
    <2> DEFINE rest == SubSeq(file, Len(texts) + 1, Len(file))
    <2>1. file' = texts \o rest
      BY DEF FinishOutput, Over
    <2>2. /\ questionsList \in Seq(Entry) /\ texts \in Seq(Entry) /\ file \in Seq(Entry)
          /\ Len(texts) \in Nat
      BY DEF FInv, Typed, RunTyped, WidgetsTyped
    <2>3. rest \in Seq(Entry)
      BY <2>2, SubSeqProperties
    <2>4. \A i \in 1 .. Len(texts) : texts[i] = questionsList[i]
      <3>1. CASE Output
        BY <3>1 DEF FInv, PaperFits, TextsFit
      <3>2. CASE ~Output
        <4>1. texts = <<>>
          BY <3>2, NotOutputting DEF FInv, FinishOutput, Running
        <4>2. QED
          BY <4>1
      <3>3. QED
        BY <3>1, <3>2
    <2> HIDE DEF rest
    <2>5. QED
      BY <2>1, <2>2, <2>3, <2>4, PrefixOf
  <1>2. QED
    BY FInitInv, FStepInv, <1>1, PTL DEF Spec, PaperIsTheList, WritesTheList
=============================================================================
