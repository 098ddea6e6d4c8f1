-------------------------------- MODULE Loop --------------------------------
(***************************************************************************)
(* The event loop of the server: Server::loop, handleNewConnection,        *)
(* recvInputFromExisting and sendMsgToExisting, with the part of the       *)
(* kernel they rest on (the listen queue, the descriptors, epoll's ready   *)
(* list) and clients that connect, ask one thing at a time and leave.      *)
(*                                                                         *)
(* A pass takes the events of epoll_wait, deals the iterations 0..eNum to  *)
(* threads, one iteration more than there are events, waits for all of     *)
(* them and sends the replies one slot after the other.  The buffer a      *)
(* request is received into and the struct it is parsed into are shared by *)
(* all threads and outlive the pass; so do the events of earlier passes.   *)
(* What a handler does to tables, caches and sessions is the subject of    *)
(* QuestionBank and Accounts; here it reads the struct and answers.        *)
(***************************************************************************)
EXTENDS Integers, SequencesExt

CONSTANTS
    Client,       \* each connects once
    Nobody,       \* no client
    Fd,           \* numbers accept() can hand out
    Master,       \* the listening socket
    EventsSize,   \* EVENTS_SIZE, the length of events[]
    MaxConcurrency, \* max_concurrency, the threads OpenMP may use
    Commands,     \* the kinds of commands clients send, of those below
    MaxRequests,  \* bound on the requests of a behaviour
    MaxLeaves     \* bound on how many clients leave

\* Commands as the loop tells them apart: those answered with a code, or with a
\* header and a list, and the bulletin commands, which are not answered.
Kinds == {"query", "bulletin"}

ASSUME ClientAssumption == Nobody \notin Client /\ Master \notin Client
ASSUME FdAssumption == Fd \subseteq Nat /\ Master \in Nat \ Fd
ASSUME SizeAssumption == EventsSize \in Nat \ {0, 1} /\ {MaxRequests, MaxLeaves} \subseteq Nat
ASSUME WidthAssumption == MaxConcurrency \in Nat \ {0}
ASSUME CommandAssumption == Commands \subseteq Kinds

VARIABLES
    \* the kernel
    line,      \* clients whose connection waits for accept()
    sock,      \* the server's descriptor for each client
    peer,      \* what the client's end of its connection does
    inbox,     \* requests that wait in the socket
    ready,     \* epoll's ready list, oldest first
    \* the clients
    waiting,   \* clients that have asked and were not answered
    surplus,   \* clients that got a reply they were not waiting for
    requests,  \* how many were sent, against MaxRequests
    leaves,    \* how many have left, against MaxLeaves
    \* the server
    width,     \* how many threads this build may use
    phase,     \* "wait" in epoll_wait, "pass" in the loop, "send", "ended"
    events,    \* events[]: a pass overwrites only its own first slots
    epev,      \* the event that was registered last, behind events[]
    eNum,      \* how many events the last epoll_wait returned
    todo,      \* the iterations each thread still has to do
    step,      \* where in its iteration a thread is
    got,       \* what its recv received
    buffer,    \* input_buffer
    fields,    \* recv_struct
    out,       \* target_connectors and messages_list
    sent,      \* the slot to send next
    \* history
    crowded,   \* has a pass had two events or more?
    did        \* the last handler: was it for the client that asked, in which slot?

kernelVars == <<line, sock, peer, inbox, ready>>
clientVars == <<waiting, surplus, requests, leaves>>
passVars == <<events, epev, eNum>>
threadVars == <<todo, step, got>>
sharedVars == <<buffer, fields>>
sendVars == <<out, sent>>
historyVars == <<crowded, did>>
vars == <<kernelVars, clientVars, width, phase, passVars, threadVars,
          sharedVars, sendVars, historyVars>>

NoFd == -1
NoEvent == [fd |-> NoFd, hup |-> FALSE]
NoText == [cmd |-> "", from |-> Nobody, named |-> FALSE]
NoReply == [fd |-> NoFd, messages |-> 0]

\* A build without OpenMP runs the loop on one thread.
Widths == {1, MaxConcurrency}
Thread == 0 .. MaxConcurrency - 1
Slots == 0 .. EventsSize

Request == [cmd : Commands, from : Client, named : BOOLEAN]
Event == [fd : Fd \cup {Master}, hup : BOOLEAN] \cup {NoEvent}

TypeOK ==
    /\ line \in Seq(Client) /\ ready \in Seq(Client \cup {Master})
    /\ sock \in [Client -> Fd \cup {NoFd}]
    /\ peer \in [Client -> {"away", "up", "fin", "rst", "over"}]
    /\ inbox \in [Client -> Seq(Request)]
    /\ waiting \in [Client -> BOOLEAN] /\ surplus \subseteq Client
    /\ requests \in 0 .. MaxRequests /\ leaves \in 0 .. MaxLeaves
    /\ width \in Widths /\ phase \in {"wait", "pass", "send", "ended"}
    /\ events \in [0 .. EventsSize - 1 -> Event] /\ epev \in Event
    /\ eNum \in Slots /\ sent \in Slots
    /\ todo \in [Thread -> SUBSET Slots]
    /\ step \in [Thread -> {"slot", "parse", "handle"}]
    /\ got \in [Thread -> Request \cup {NoText}]
    /\ buffer \in Request \cup {NoText}
    /\ fields \in [cmd : Commands \cup {""}, from : Client \cup {Nobody},
                   name : Client \cup {Nobody}]
    /\ out \in [Slots -> [fd : Fd, messages : {1, 2}] \cup {NoReply}]
    /\ crowded \in BOOLEAN
    /\ did \in [own : BOOLEAN, extra : BOOLEAN]

\* startListen registers the listening socket; new Server() does not write to
\* events[], which lies in memory the process has just been given.
Init ==
    /\ line = <<>> /\ ready = <<>>
    /\ sock = [c \in Client |-> NoFd]
    /\ peer = [c \in Client |-> "away"]
    /\ inbox = [c \in Client |-> <<>>]
    /\ waiting = [c \in Client |-> FALSE]
    /\ surplus = {} /\ requests = 0 /\ leaves = 0
    /\ width \in Widths
    /\ phase = "wait"
    /\ events = [i \in 0 .. EventsSize - 1 |-> NoEvent]
    /\ epev = [fd |-> Master, hup |-> FALSE]
    /\ eNum = 0 /\ sent = 0
    /\ todo = [t \in Thread |-> {}]
    /\ step = [t \in Thread |-> "slot"]
    /\ got = [t \in Thread |-> NoText]
    /\ buffer = NoText
    /\ fields = [cmd |-> "", from |-> Nobody, name |-> Nobody]
    /\ out = [i \in Slots |-> NoReply]
    /\ crowded = FALSE
    /\ did = [own |-> TRUE, extra |-> FALSE]

-----------------------------------------------------------------------------
(* The kernel *)

Owner(f) ==
    IF \E c \in Client : sock[c] = f /\ f # NoFd
    THEN CHOOSE c \in Client : sock[c] = f ELSE Nobody

\* epoll puts a source at the end of its list unless it is there already.
Arm(s, list) == IF Contains(list, s) THEN list ELSE Append(list, s)

Disarm(s, list) ==
    IF Contains(list, s) THEN RemoveAt(list, CHOOSE i \in 1 .. Len(list) : list[i] = s)
    ELSE list

\* Mutant: the listening socket is reported although nobody calls.
ReadableAlways(s) ==
    IF s = Master THEN TRUE ELSE inbox[s] # <<>> \/ peer[s] # "up"

\* What epoll_wait finds when it polls a listed source.
Readable(s) ==
    IF s = Master THEN line # <<>> ELSE inbox[s] # <<>> \/ peer[s] # "up"

EventOf(s) ==
    IF s = Master THEN [fd |-> Master, hup |-> FALSE]
    ELSE [fd |-> sock[s], hup |-> peer[s] = "rst"]

\* close(f), whoever owns f by now; a number that is not open is an error
\* nobody looks at.
Close(f) ==
    LET c == Owner(f) IN
    IF c = Nobody THEN UNCHANGED kernelVars
    ELSE /\ sock' = [sock EXCEPT ![c] = NoFd]
         /\ peer' = [peer EXCEPT ![c] = "over"]
         /\ inbox' = [inbox EXCEPT ![c] = <<>>]
         /\ ready' = Disarm(c, ready)
         /\ UNCHANGED line

-----------------------------------------------------------------------------
(* Clients: the panels of the front-end and the command-line client *)

Connect(c) ==
    /\ peer[c] = "away" /\ phase # "ended"
    /\ peer' = [peer EXCEPT ![c] = "up"]
    /\ line' = Append(line, c)
    /\ ready' = Arm(Master, ready)
    /\ UNCHANGED <<sock, inbox, clientVars, width, phase, passVars, threadVars,
                   sharedVars, sendVars, historyVars>>

\* A client blocks until its reply is there, so it has one request under way.
\* The front-end writes "subject name" where the struct has subject_name: a
\* request of its panels names nothing that the server recognises.
Ask(c, cmd, named) ==
    /\ peer[c] = "up" /\ ~waiting[c] /\ phase # "ended"
    /\ requests < MaxRequests
    /\ inbox' = [inbox EXCEPT ![c] =
                    Append(@, [cmd |-> cmd, from |-> c, named |-> named])]
    /\ ready' = IF sock[c] = NoFd THEN ready ELSE Arm(c, ready)
    /\ waiting' = [waiting EXCEPT ![c] = TRUE]
    /\ requests' = requests + 1
    /\ UNCHANGED <<line, sock, peer, surplus, leaves, width, phase, passVars, threadVars,
                   sharedVars, sendVars, historyVars>>

\* The client exits or is killed, with or without a reply it has not read.
Leave(c) ==
    /\ peer[c] = "up" /\ phase # "ended"
    /\ \E how \in {"fin", "rst"} : peer' = [peer EXCEPT ![c] = how]
    /\ ready' = IF sock[c] = NoFd THEN ready ELSE Arm(c, ready)
    /\ leaves < MaxLeaves
    /\ leaves' = leaves + 1
    /\ UNCHANGED <<line, sock, inbox, waiting, surplus, requests, width, phase, passVars,
                   threadVars, sharedVars, sendVars, historyVars>>

-----------------------------------------------------------------------------
(* A pass *)

\* num_threads(min(max_concurrency, eNum)), or one thread without OpenMP.
Threads(n) == IF width < n THEN width ELSE n

\* The static schedule of GCC's runtime: the iterations 0..n, all there are,
\* in contiguous blocks, the first ones longer by one.
Chunk(t, n) ==
    LET k == Threads(n)  q == (n + 1) \div k  r == (n + 1) % k
        first == IF t < r THEN t * (q + 1) ELSE r + t * q
        size == IF t < r THEN q + 1 ELSE q
    IN  IF t < k THEN first .. first + size - 1 ELSE {}

\* at lists the positions of the first n readable sources, or of all of them.
FirstReadable(n, at) ==
    /\ \A i \in 1 .. n : Readable(ready[at[i]])
    /\ \A i, j \in 1 .. n : i < j => at[i] < at[j]
    /\ \A k \in 1 .. Len(ready) : Readable(ready[k]) =>
          (\E i \in 1 .. n : at[i] = k) \/ (n = EventsSize /\ k > at[n])

\* epoll_wait polls the list from its front until it has EVENTS_SIZE events, and
\* what it polled leaves the list: the readable sources as events, the others
\* without one.  The listening socket is level-triggered and goes back to the
\* end; a connection is edge-triggered and is listed again when more arrives.
Wait ==
    \E n \in 1 .. EventsSize : \E at \in [1 .. n -> 1 .. Len(ready)] :
        LET polled == IF n = EventsSize THEN at[n] ELSE Len(ready)
            rest == SubSeq(ready, polled + 1, Len(ready))
        IN  /\ phase = "wait" /\ FirstReadable(n, at)
            /\ eNum' = n
            /\ events' = [i \in DOMAIN events |->
                            IF i < n THEN EventOf(ready[at[i + 1]]) ELSE events[i]]
            /\ ready' = IF \E i \in 1 .. n : ready[at[i]] = Master
                        THEN Append(rest, Master) ELSE rest
            /\ todo' = [t \in Thread |-> Chunk(t, n)]
            /\ phase' = "pass"
            /\ crowded' = (crowded \/ n > 1)
            /\ did' = [own |-> TRUE, extra |-> FALSE]
            /\ UNCHANGED <<line, sock, peer, inbox, clientVars, width, epev, step, got,
                           sharedVars, sendVars>>

\* events[i]; the member behind the array is epev.
Slot(i) == IF i < EventsSize THEN events[i] ELSE epev

Current(t) == Min(todo[t])

EndIteration(t) ==
    /\ todo' = [todo EXCEPT ![t] = @ \ {Current(t)}]
    /\ step' = [step EXCEPT ![t] = "slot"]

InPass(t, where) == phase = "pass" /\ step[t] = where /\ todo[t] # {}

\* A slot that was never written has neither EPOLLIN nor EPOLLHUP.
SkipSlot(t) ==
    /\ InPass(t, "slot")
    /\ Slot(Current(t)) = NoEvent
    /\ EndIteration(t)
    /\ UNCHANGED <<kernelVars, clientVars, width, phase, passVars, got, sharedVars, sendVars, historyVars>>

AtMaster(t) == InPass(t, "slot") /\ Slot(Current(t)).fd = Master

FreeFd == Fd \ {sock[c] : c \in Client}
LowestFd == {f \in FreeFd : \A g \in FreeFd : f <= g}

\* Mutant: a connection is listed only when something arrives after accept().
AcceptUnarmed(t) ==
    /\ AtMaster(t)
    /\ line # <<>>
    /\ \E f \in LowestFd :
          /\ sock' = [sock EXCEPT ![Head(line)] = f]
          /\ epev' = [fd |-> f, hup |-> FALSE]
    /\ line' = Tail(line)
    /\ EndIteration(t)
    /\ UNCHANGED <<peer, inbox, ready, clientVars, width, phase, events, eNum, got,
                   sharedVars, sendVars, historyVars>>

\* accept() gives the lowest free number and blocks while nobody calls: the
\* listening socket was not made non-blocking.  The new connection is on the
\* list at once when something has arrived on it.
Accept(t) ==
    /\ AtMaster(t)
    /\ line # <<>>
    /\ \E f \in LowestFd : LET c == Head(line) IN
       /\ sock' = [sock EXCEPT ![c] = f]
       /\ epev' = [fd |-> f, hup |-> FALSE]
       /\ ready' = IF inbox[c] # <<>> \/ peer[c] # "up" THEN Arm(c, ready) ELSE ready
    /\ line' = Tail(line)
    /\ EndIteration(t)
    /\ UNCHANGED <<peer, inbox, clientVars, width, phase, events, eNum, got,
                   sharedVars, sendVars, historyVars>>

\* accept() fails when no number is free, and the handler goes on to answer
\* descriptor -1, with no message.
AcceptFailed(t) ==
    /\ AtMaster(t)
    /\ FreeFd = {}
    /\ EndIteration(t)
    /\ UNCHANGED <<kernelVars, clientVars, width, phase, passVars, got, sharedVars, sendVars, historyVars>>

\* Mutant: the mask that is tested holds EPOLLIN as well.
HangUpAny(t) ==
    /\ InPass(t, "slot")
    /\ LET e == Slot(Current(t)) IN e.fd \in Fd /\ Close(e.fd)
    /\ EndIteration(t)
    /\ UNCHANGED <<clientVars, width, phase, passVars, got, sharedVars,
                   sendVars, historyVars>>

\* EPOLLERR or EPOLLHUP: the descriptor is deleted from epoll and closed.
HangUp(t) ==
    /\ InPass(t, "slot")
    /\ LET e == Slot(Current(t)) IN e.fd \in Fd /\ e.hup /\ Close(e.fd)
    /\ EndIteration(t)
    /\ UNCHANGED <<clientVars, width, phase, passVars, got, sharedVars,
                   sendVars, historyVars>>

\* Mutant: recv's 0 is taken for a request, as with nbytesrecv < 0 alone.
ReceiveEndParsed(t) ==
    /\ InPass(t, "slot")
    /\ LET e == Slot(Current(t))  c == Owner(e.fd) IN
       /\ e.fd \in Fd /\ ~e.hup
       /\ c # Nobody /\ inbox[c] = <<>> /\ peer[c] = "fin"
    /\ step' = [step EXCEPT ![t] = "parse"]
    /\ UNCHANGED <<kernelVars, clientVars, width, phase, passVars, todo, got,
                   sharedVars, sendVars, historyVars>>

\* recv returns 0: the client has closed its end.
ReceiveEnd(t) ==
    /\ InPass(t, "slot")
    /\ LET e == Slot(Current(t))  c == Owner(e.fd) IN
       /\ e.fd \in Fd /\ ~e.hup
       /\ c # Nobody /\ inbox[c] = <<>> /\ peer[c] = "fin"
       /\ Close(e.fd)
    /\ EndIteration(t)
    /\ UNCHANGED <<clientVars, width, phase, passVars, got, sharedVars,
                   sendVars, historyVars>>

\* recv empties the socket into input_buffer; what is parsed is the text it
\* starts with.
Receive(t) ==
    /\ InPass(t, "slot")
    /\ LET e == Slot(Current(t))  c == Owner(e.fd) IN
       /\ e.fd \in Fd /\ ~e.hup
       /\ c # Nobody /\ inbox[c] # <<>>
       /\ buffer' = Head(inbox[c])
       /\ got' = [got EXCEPT ![t] = Head(inbox[c])]
       /\ inbox' = [inbox EXCEPT ![c] = <<>>]
    /\ step' = [step EXCEPT ![t] = "parse"]
    /\ UNCHANGED <<line, sock, peer, ready, clientVars, width, phase, passVars, todo,
                   fields, sendVars, historyVars>>

\* recv fails (EAGAIN, EBADF, ECONNRESET) with -1, which a uint16_t makes
\* 65535: the handler goes on with whatever input_buffer holds.
ReceiveNothing(t) ==
    /\ InPass(t, "slot")
    /\ LET e == Slot(Current(t))  c == Owner(e.fd) IN
       /\ e.fd \in Fd /\ ~e.hup
       /\ IF c = Nobody THEN TRUE ELSE inbox[c] = <<>> /\ peer[c] # "fin"
    /\ got' = [got EXCEPT ![t] = NoText]
    /\ step' = [step EXCEPT ![t] = "parse"]
    /\ UNCHANGED <<kernelVars, clientVars, width, phase, passVars, todo, sharedVars, sendVars, historyVars>>

\* glz::read assigns the members the text has and leaves the others as they
\* are; a text that is no JSON object (the zeroed buffer) assigns none.
Parse(t) ==
    /\ InPass(t, "parse")
    /\ fields' = IF buffer = NoText THEN fields
                 ELSE [cmd |-> buffer.cmd, from |-> buffer.from,
                       name |-> IF buffer.named THEN buffer.from ELSE fields.name]
    /\ step' = [step EXCEPT ![t] = "handle"]
    /\ UNCHANGED <<kernelVars, clientVars, width, phase, passVars, todo, got, buffer,
                   sendVars, historyVars>>

\* How many messages the handlers answer with: a code, a header and its list,
\* or nothing from the bulletin stubs.  The first struct of all is empty.
Answers(cmd) ==
    CASE cmd = "query" -> {1, 2} [] cmd = "bulletin" -> {0} [] OTHER -> {1}

\* Was the request that is handled received by this iteration, from the client
\* whose connection this is, with the names that request carried?
Own(t, f) ==
    /\ got[t] # NoText
    /\ Owner(f) = got[t].from
    /\ fields.cmd = got[t].cmd /\ fields.from = got[t].from
    /\ got[t].named => fields.name = got[t].from

Handle(t) ==
    /\ InPass(t, "handle")
    /\ LET i == Current(t)  f == Slot(i).fd IN
       /\ \E n \in Answers(fields.cmd) :
          out' = IF n = 0 THEN out ELSE [out EXCEPT ![i] = [fd |-> f, messages |-> n]]
       /\ did' = [own |-> Own(t, f), extra |-> i = eNum]
    /\ got' = [got EXCEPT ![t] = NoText]
    /\ EndIteration(t)
    /\ UNCHANGED <<kernelVars, clientVars, width, phase, passVars, sharedVars, sent,
                   crowded>>

\* Two threads in recv_struct at once: its strings are written and copied
\* without a lock, which may as well end the process.
Race(t, u) ==
    /\ t # u
    /\ \A x \in {t, u} : phase = "pass" /\ step[x] \in {"parse", "handle"}
    /\ phase' = "ended"
    /\ UNCHANGED <<kernelVars, clientVars, width, passVars, threadVars, sharedVars, sendVars, historyVars>>

\* The implicit barrier at the end of the parallel loop.
Barrier ==
    /\ phase = "pass"
    /\ \A t \in Thread : todo[t] = {}
    /\ phase' = "send"
    /\ sent' = 0
    /\ UNCHANGED <<kernelVars, clientVars, width, passVars, threadVars, sharedVars, out, historyVars>>

-----------------------------------------------------------------------------
(* The replies, slot after slot *)

\* Mutant: the lists of replies are kept from one pass to the next.
NextSlotKept ==
    /\ buffer' = NoText
    /\ IF sent < eNum
       THEN sent' = sent + 1 /\ UNCHANGED <<phase, out>>
       ELSE sent' = 0 /\ phase' = "wait" /\ UNCHANGED out

\* Mutant: the replies are sent for one slot more than were filled.
NextSlotOver ==
    /\ buffer' = NoText
    /\ IF sent <= eNum
       THEN sent' = sent + 1 /\ UNCHANGED <<phase, out>>
       ELSE sent' = 0 /\ phase' = "wait" /\ out' = [i \in Slots |-> NoReply]

\* All slots but the last index lie inside the two vectors, which are new in
\* every pass; input_buffer is zeroed after each.
NextSlot ==
    /\ buffer' = NoText
    /\ IF sent < eNum
       THEN sent' = sent + 1 /\ UNCHANGED <<phase, out>>
       ELSE sent' = 0 /\ phase' = "wait" /\ out' = [i \in Slots |-> NoReply]

\* A message reaches the client that has the descriptor now.
Deliver(c) ==
    /\ waiting' = [waiting EXCEPT ![c] = FALSE]
    /\ surplus' = IF waiting[c] THEN surplus ELSE surplus \cup {c}
    /\ UNCHANGED <<kernelVars, requests, leaves>>

\* The first message to a client that has closed is answered with a reset.
DeliverLate(c) ==
    /\ peer' = [peer EXCEPT ![c] = "rst"]
    /\ ready' = Arm(c, ready)
    /\ waiting' = [waiting EXCEPT ![c] = FALSE]
    /\ UNCHANGED <<line, sock, inbox, surplus, requests, leaves>>

SendSlot ==
    /\ phase = "send"
    /\ LET c == Owner(out[sent].fd) IN
       \/ c = Nobody /\ UNCHANGED <<kernelVars, clientVars>>
       \/ c # Nobody /\ peer[c] = "up" /\ Deliver(c)
       \/ c # Nobody /\ peer[c] = "fin" /\ DeliverLate(c)
       \/ c # Nobody /\ peer[c] = "rst" /\ UNCHANGED <<kernelVars, clientVars>>
    /\ NextSlot
    /\ UNCHANGED <<width, passVars, threadVars, fields, historyVars>>

End ==
    /\ phase' = "ended"
    /\ UNCHANGED <<kernelVars, clientVars, width, passVars, threadVars, sharedVars, sendVars, historyVars>>

\* A message after a reset raises SIGPIPE, which nobody handles: the 100 ms
\* between two messages are enough for the reset to come.
BrokenPipe ==
    /\ phase = "send"
    /\ LET c == Owner(out[sent].fd) IN
       /\ c # Nobody
       /\ peer[c] = "rst" \/ (peer[c] = "fin" /\ out[sent].messages > 1)
    /\ End

\* Slot eNum of the two vectors is behind their end: what is copied from there
\* may look like an empty reply, or throw, which main answers by ending.
OutOfBounds ==
    /\ phase = "send" /\ sent = eNum
    /\ End

ThreadStep(t) ==
    \/ SkipSlot(t) \/ Accept(t) \/ AcceptFailed(t) \/ HangUp(t)
    \/ ReceiveEnd(t) \/ Receive(t) \/ ReceiveNothing(t)
    \/ Parse(t) \/ Handle(t)

ClientStep(c) ==
    \/ Connect(c) \/ Leave(c)
    \/ \E cmd \in Commands, named \in BOOLEAN : Ask(c, cmd, named)

Next ==
    \/ Wait \/ Barrier \/ SendSlot \/ BrokenPipe \/ OutOfBounds
    \/ \E t \in Thread : ThreadStep(t)
    \/ \E t, u \in Thread : Race(t, u)
    \/ \E c \in Client : ClientStep(c)

Spec == Init /\ [][Next]_vars

FairSpec ==
    /\ Spec
    /\ WF_vars(Wait) /\ WF_vars(Barrier) /\ WF_vars(SendSlot)
    /\ \A t \in Thread : WF_vars(ThreadStep(t))

-----------------------------------------------------------------------------
(* Properties *)

\* A thread waits in accept() for somebody to call, and the pass with it.
Stuck == \E t \in Thread : AtMaster(t) /\ FreeFd # {} /\ line = <<>>

\* As long as every pass has had one event, each request is handled once, for
\* the client that sent it and with the names it carried, and no pass waits in
\* accept().  After a pass with more, one thread still does so in all slots but
\* the extra one.
HandledForSender ==
    did.own \/ (crowded /\ (width > 1 \/ did.extra))

StuckOnlyAfterCrowd == Stuck => crowded

\* A reply that was not asked for comes from the extra slot or a race.
SurplusOnlyAfterCrowd == surplus # {} => crowded

\* When epoll_wait is called, whatever has arrived on a connection is on the
\* ready list: one recv per edge loses no request and no hang-up.  (A client
\* that leaves after a bulletin command is not noticed: its request and its
\* hang-up are one edge, and no reply provokes another.)
NothingForgotten ==
    phase = "wait" =>
        \A c \in Client :
            /\ sock[c] # NoFd
            /\ \/ inbox[c] # <<>> \/ peer[c] = "rst"
               \/ peer[c] = "fin" /\ "bulletin" \notin Commands
            => Contains(ready, c)

\* The server closes the connection of a client that is still there only by
\* an event left over from a pass with more events.
ClosesOnlyTheGone ==
    [][\A c \in Client :
         peer[c] = "up" /\ peer'[c] = "over" => crowded]_vars

\* A request on an accepted connection is read, unless the server has ended or
\* waits in accept().
RequestIsRead ==
    \A c \in Client :
        (sock[c] # NoFd /\ inbox[c] # <<>>)
            ~> (inbox[c] = <<>> \/ phase = "ended" \/ Stuck)
=============================================================================
