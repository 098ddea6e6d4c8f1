----------------------------- MODULE LoopProofs -----------------------------
(* What Loop promises for every number of clients, descriptors, threads and *)
(* events, as long as one thread handles them all.                          *)
EXTENDS Loop, SequenceTheorems, TLAPS

\* One thread handles all slots of a pass: there is no other, or no pass has
\* had two events so far.
Alone == width = 1 \/ ~crowded

-----------------------------------------------------------------------------
(* The invariant *)

\* A descriptor belongs to one client, who is not in the line any more; epoll
\* lists a source once, and connections only after accept(); a socket holds
\* requests of its own client.
KernelInv ==
    /\ \A c, d \in Client : sock[c] = sock[d] /\ sock[c] # NoFd => c = d
    /\ \A c \in Client : sock[c] # NoFd => peer[c] \in {"up", "fin", "rst"}
    /\ \A i \in 1 .. Len(line) :
          sock[line[i]] = NoFd /\ peer[line[i]] \in {"up", "fin", "rst"}
    /\ \A i, j \in 1 .. Len(line) : line[i] = line[j] => i = j
    /\ \A i \in 1 .. Len(ready) : ready[i] # Master => sock[ready[i]] # NoFd
    /\ \A i, j \in 1 .. Len(ready) : ready[i] = ready[j] => i = j
    /\ \A c \in Client : \A i \in 1 .. Len(inbox[c]) : inbox[c][i].from = c

\* Threads have iterations in a pass only, and are between two of them when
\* they have none.
PhaseInv ==
    /\ phase \in {"wait", "send"} => \A t \in Thread : todo[t] = {}
    /\ phase = "wait" => out = [i \in Slots |-> NoReply]
    /\ \A t \in Thread : todo[t] = {} => step[t] = "slot"
    /\ \A t \in Thread : step[t] # "slot" => Slot(Current(t)).fd \in Fd

\* An event that is still true: somebody is in the line, has sent something or
\* has gone.
Live(e) ==
    \/ e.fd = Master /\ line # <<>>
    \/ \E c \in Client :
          /\ sock[c] = e.fd /\ e.fd # NoFd
          /\ e.hup => peer[c] = "rst"
          /\ e.hup \/ inbox[c] # <<>> \/ peer[c] = "fin"

\* Iteration i of thread 0 has received a request from the owner of its slot.
Received(i) ==
    /\ got[0] # NoText
    /\ sock[got[0].from] = events[i].fd
    /\ step[0] = "parse" => buffer = got[0]
    /\ step[0] = "handle" =>
          /\ fields.cmd = got[0].cmd /\ fields.from = got[0].from
          /\ got[0].named => fields.name = got[0].from

\* With one thread at work, the events not handled yet are true and of
\* different sources, all but the extra one.
AloneInv ==
    Alone /\ phase = "pass" =>
        /\ \A t \in Thread : t # 0 => todo[t] = {}
        /\ eNum \in 1 .. EventsSize
        /\ \E k \in 0 .. EventsSize + 1 : todo[0] = k .. eNum
        /\ \A i \in todo[0] :
              i < eNum /\ (step[0] = "slot" \/ i # Current(0)) => Live(events[i])
        /\ \A i, j \in todo[0] : i < j /\ j < eNum => events[i].fd # events[j].fd
        /\ step[0] # "slot" /\ Current(0) < eNum => Received(Current(0))

\* A reply that waits to be sent goes to a client that waits for it.
Owed(reply) ==
    \A c \in Client :
        sock[c] = reply.fd /\ reply # NoReply /\ peer[c] = "up"
            => waiting[c] /\ inbox[c] = <<>>

\* Until a pass has two events, the slots behind the first were never written,
\* and a client that has sent something waits for its reply.
QuietInv ==
    ~crowded =>
        /\ \A i \in 1 .. EventsSize - 1 : events[i] = NoEvent
        /\ phase \in {"pass", "send"} => eNum = 1
        /\ \A i \in Slots : i # 0 => out[i] = NoReply
        /\ \A c \in Client : peer[c] \in {"away", "up"} /\ inbox[c] # <<>> => waiting[c]
        /\ phase = "pass" /\ step[0] # "slot" =>
              /\ Current(0) = 0
              /\ peer[got[0].from] = "up" => waiting[got[0].from] /\ inbox[got[0].from] = <<>>
        /\ phase = "pass" /\ 0 \in todo[0] => out[0] = NoReply
        /\ phase = "pass" \/ (phase = "send" /\ sent = 0) => Owed(out[0])
        /\ surplus = {}

LoopInv == TypeOK /\ KernelInv /\ PhaseInv /\ AloneInv /\ QuietInv /\ HandledForSender

-----------------------------------------------------------------------------
(* Constants, descriptors, the ready list *)

USE DEF kernelVars, clientVars, passVars, threadVars, sharedVars, sendVars, historyVars, vars

LEMMA Constants ==
  /\ 0 \in Thread /\ Thread \subseteq Nat
  /\ EventsSize \in Nat /\ EventsSize > 1
  /\ Slots = 0 .. EventsSize
  /\ Fd \subseteq Nat /\ Master \in Nat /\ Master \notin Fd /\ NoFd \notin Fd /\ Master # NoFd
  BY FdAssumption, SizeAssumption, WidthAssumption DEF Thread, Slots, NoFd

\* Owner finds the one client that has a descriptor.
LEMMA OwnerIs ==
  ASSUME KernelInv, NEW c \in Client, sock[c] # NoFd
  PROVE  Owner(sock[c]) = c
  BY DEF KernelInv, Owner

LEMMA OwnerHas ==
  ASSUME NEW f, Owner(f) # Nobody
  PROVE  Owner(f) \in Client /\ sock[Owner(f)] = f /\ f # NoFd
  BY DEF Owner

LEMMA NobodyOwns ==
  ASSUME NEW f, Owner(f) = Nobody, NEW c \in Client, f # NoFd
  PROVE  sock[c] # f
  BY ClientAssumption DEF Owner

\* The first of the iterations k .. n is k.
LEMMA CurrentIs ==
  ASSUME NEW t, NEW k \in Int, NEW n \in Int, k <= n, todo[t] = k .. n
  PROVE  Current(t) = k
  <1>1. k \in k .. n /\ \A j \in k .. n : k <= j
    OBVIOUS
  <1>2. \A i \in k .. n : (\A j \in k .. n : i <= j) => i = k
    BY <1>1
  <1>3. QED
    BY <1>1, <1>2 DEF Current, Min

Sources == Client \cup {Master}
Distinct(list) == \A i, j \in 1 .. Len(list) : list[i] = list[j] => i = j

LEMMA ArmIs ==
  ASSUME NEW s \in Sources, NEW list \in Seq(Sources), Distinct(list)
  PROVE  /\ Arm(s, list) \in Seq(Sources) /\ Distinct(Arm(s, list))
         /\ \A i \in 1 .. Len(Arm(s, list)) :
               Arm(s, list)[i] = s \/ \E j \in 1 .. Len(list) : list[j] = Arm(s, list)[i]
  BY DEF Arm, Contains, Distinct

\* What is left of a list without its k-th element.
LEMMA RemoveAtIs ==
  ASSUME NEW S, NEW list \in Seq(S), NEW k \in 1 .. Len(list)
  PROVE  /\ RemoveAt(list, k) \in Seq(S)
         /\ Len(RemoveAt(list, k)) = Len(list) - 1
         /\ \A i \in 1 .. Len(list) - 1 :
               RemoveAt(list, k)[i] = IF i < k THEN list[i] ELSE list[i + 1]
  <1> DEFINE n == Len(list)
             front == SubSeq(list, 1, k - 1)
             back == SubSeq(list, k + 1, n)
             both == front \o back
  <1>1. n \in Nat /\ k \in 1 .. n
    OBVIOUS
  <1>2. \A i \in 1 .. n : list[i] \in S
    OBVIOUS
  <1>3. /\ front \in Seq(S) /\ Len(front) = k - 1
        /\ \A i \in 1 .. k - 1 : front[i] = list[i]
    BY <1>1, <1>2
  <1>4. /\ back \in Seq(S) /\ Len(back) = n - k
        /\ \A i \in 1 .. n - k : back[i] = list[i + k]
    BY <1>1, <1>2
  <1>5. RemoveAt(list, k) = both
    BY DEF RemoveAt
  <1> HIDE DEF n, front, back
  <1>6. /\ both \in Seq(S) /\ Len(both) = Len(front) + Len(back)
        /\ \A i \in 1 .. Len(front) + Len(back) :
              both[i] = IF i <= Len(front) THEN front[i] ELSE back[i - Len(front)]
    BY <1>3, <1>4, ConcatProperties
  <1> HIDE DEF both
  <1>7. /\ both \in Seq(S) /\ Len(both) = n - 1
        /\ \A i \in 1 .. n - 1 : both[i] = IF i < k THEN list[i] ELSE list[i + 1]
    BY <1>1, <1>3, <1>4, <1>6
  <1>8. QED
    BY <1>5, <1>7 DEF n

LEMMA DisarmIs ==
  ASSUME NEW s \in Sources, NEW list \in Seq(Sources), Distinct(list)
  PROVE  /\ Disarm(s, list) \in Seq(Sources) /\ Distinct(Disarm(s, list))
         /\ \A i \in 1 .. Len(Disarm(s, list)) :
               /\ Disarm(s, list)[i] # s
               /\ \E j \in 1 .. Len(list) : list[j] = Disarm(s, list)[i]
  <1>1. CASE ~Contains(list, s)
    BY <1>1 DEF Disarm, Contains
  <1>2. CASE Contains(list, s)
    <2> DEFINE k == CHOOSE i \in 1 .. Len(list) : list[i] = s
    <2>1. k \in 1 .. Len(list) /\ list[k] = s
      BY <1>2 DEF Contains
    <2>2. Disarm(s, list) = RemoveAt(list, k)
      BY <1>2 DEF Disarm
    <2> DEFINE rest == Disarm(s, list)
    <2> HIDE DEF k, rest
    <2>3. /\ rest \in Seq(Sources) /\ Len(rest) = Len(list) - 1
          /\ \A i \in 1 .. Len(list) - 1 :
                rest[i] = IF i < k THEN list[i] ELSE list[i + 1]
      BY <2>1, <2>2, RemoveAtIs DEF rest
    <2>4. \A i \in 1 .. Len(rest) : \E j \in 1 .. Len(list) : j # k /\ list[j] = rest[i]
      BY <2>1, <2>3
    <2>5. \A i \in 1 .. Len(rest) : rest[i] # s
      BY <2>1, <2>4 DEF Distinct
    <2>6. Distinct(rest)
      <3> SUFFICES ASSUME NEW i \in 1 .. Len(rest), NEW j \in 1 .. Len(rest), rest[i] = rest[j]
                   PROVE  i = j
        BY DEF Distinct
      <3>1. PICK a \in 1 .. Len(list) : a = (IF i < k THEN i ELSE i + 1) /\ rest[i] = list[a]
        BY <2>1, <2>3
      <3>2. PICK b \in 1 .. Len(list) : b = (IF j < k THEN j ELSE j + 1) /\ rest[j] = list[b]
        BY <2>1, <2>3
      <3>3. a = b
        BY <3>1, <3>2 DEF Distinct
      <3>4. QED
        BY <2>1, <3>1, <3>2, <3>3
    <2>7. QED
      BY <2>3, <2>4, <2>5, <2>6 DEF rest
  <1>3. QED
    BY <1>1, <1>2

-----------------------------------------------------------------------------
(* The schedule *)

\* Every iteration dealt is one of the loop's.
LEMMA ChunkIn ==
  ASSUME width \in Widths, NEW t \in Thread, NEW n \in Nat, n > 0
  PROVE  Chunk(t, n) \subseteq 0 .. n
  <1> DEFINE k == Threads(n)
             q == (n + 1) \div k
             r == (n + 1) % k
  <1>1. k \in Nat \ {0} /\ t \in Nat
    BY WidthAssumption DEF Threads, Widths, Thread
  <1>2. q \in Nat /\ r \in 0 .. k - 1 /\ n + 1 = k * q + r
    BY <1>1
  <1>3. Chunk(t, n) =
          IF t < k THEN (IF t < r THEN t * (q + 1) ELSE r + t * q) ..
                        (IF t < r THEN t * (q + 1) ELSE r + t * q) + (IF t < r THEN q + 1 ELSE q) - 1
          ELSE {}
    BY DEF Chunk
  <1> HIDE DEF k, q, r
  <1>4. \A a, b, d \in Nat : a <= b => a * d <= b * d
    OBVIOUS
  <1>5. CASE t < r
    <2>1. (t + 1) * (q + 1) <= r * (q + 1)
      BY <1>1, <1>2, <1>4, <1>5
    <2>2. r * q <= k * q
      BY <1>1, <1>2, <1>4
    <2>3. r * (q + 1) = r * q + r /\ (t + 1) * (q + 1) = t * (q + 1) + (q + 1)
      BY <1>1, <1>2
    <2>4. t * (q + 1) \in Nat
      BY <1>1, <1>2
    <2>5. QED
      BY <1>1, <1>2, <1>3, <1>5, <2>1, <2>2, <2>3, <2>4
  <1>6. CASE ~(t < r) /\ t < k
    <2>1. (t + 1) * q <= k * q
      BY <1>1, <1>2, <1>4, <1>6
    <2>2. (t + 1) * q = t * q + q
      BY <1>1, <1>2
    <2>3. t * q \in Nat
      BY <1>1, <1>2
    <2>4. QED
      BY <1>1, <1>2, <1>3, <1>6, <2>1, <2>2, <2>3
  <1>7. CASE ~(t < k)
    BY <1>1, <1>2, <1>3, <1>7
  <1>8. QED
    BY <1>5, <1>6, <1>7

\* One thread, because there is no other or only one event: it gets them all.
LEMMA ChunkAll ==
  ASSUME NEW n \in Nat, n > 0, width \in Widths, width = 1 \/ n = 1
  PROVE  Chunk(0, n) = 0 .. n /\ \A t \in Thread : t # 0 => Chunk(t, n) = {}
  <1>1. Threads(n) = 1
    BY WidthAssumption DEF Threads, Widths
  <1>2. (n + 1) \div 1 = n + 1 /\ (n + 1) % 1 = 0
    OBVIOUS
  <1>3. QED
    BY <1>1, <1>2 DEF Chunk, Thread

-----------------------------------------------------------------------------
(* Types *)

KernelTypes ==
    /\ line \in Seq(Client) /\ ready \in Seq(Client \cup {Master})
    /\ sock \in [Client -> Fd \cup {NoFd}]
    /\ peer \in [Client -> {"away", "up", "fin", "rst", "over"}]
    /\ inbox \in [Client -> Seq(Request)]

ClientTypes ==
    /\ waiting \in [Client -> BOOLEAN] /\ surplus \subseteq Client
    /\ requests \in 0 .. MaxRequests /\ leaves \in 0 .. MaxLeaves

PassTypes ==
    /\ width \in Widths /\ phase \in {"wait", "pass", "send", "ended"}
    /\ events \in [0 .. EventsSize - 1 -> Event] /\ epev \in Event
    /\ eNum \in Slots /\ sent \in Slots

ThreadTypes ==
    /\ todo \in [Thread -> SUBSET Slots]
    /\ step \in [Thread -> {"slot", "parse", "handle"}]
    /\ got \in [Thread -> Request \cup {NoText}]

ValueTypes ==
    /\ buffer \in Request \cup {NoText}
    /\ fields \in [cmd : Commands \cup {""}, from : Client \cup {Nobody},
                   name : Client \cup {Nobody}]
    /\ out \in [Slots -> [fd : Fd, messages : {1, 2}] \cup {NoReply}]
    /\ crowded \in BOOLEAN
    /\ did \in [own : BOOLEAN, extra : BOOLEAN]

LEMMA TypeParts ==
  /\ TypeOK <=> KernelTypes /\ ClientTypes /\ PassTypes /\ ThreadTypes /\ ValueTypes
  /\ TypeOK' <=> KernelTypes' /\ ClientTypes' /\ PassTypes' /\ ThreadTypes' /\ ValueTypes'
  BY DEF TypeOK, KernelTypes, ClientTypes, PassTypes, ThreadTypes, ValueTypes

LEMMA InitTypes == Init => TypeOK
  <1> SUFFICES ASSUME Init PROVE TypeOK
    OBVIOUS
  <1>1. KernelTypes
    <2>1. <<>> \in Seq(Client) /\ <<>> \in Seq(Client \cup {Master}) /\ <<>> \in Seq(Request)
      OBVIOUS
    <2>2. QED
      BY <2>1 DEF Init, KernelTypes
  <1>2. ClientTypes
    <2>1. 0 \in 0 .. MaxRequests /\ 0 \in 0 .. MaxLeaves
      BY SizeAssumption
    <2>2. QED
      BY <2>1 DEF Init, ClientTypes
  <1>3. PassTypes
    <2>1. NoEvent \in Event /\ [fd |-> Master, hup |-> FALSE] \in Event /\ 0 \in Slots
      BY Constants DEF Event
    <2>2. QED
      BY <2>1 DEF Init, PassTypes
  <1>4. ThreadTypes
    BY DEF Init, ThreadTypes
  <1>5. ValueTypes
    BY DEF Init, ValueTypes
  <1>6. QED
    BY <1>1, <1>2, <1>3, <1>4, <1>5, TypeParts

LEMMA CloseTypes ==
  ASSUME TypeOK, KernelInv, NEW f, Close(f)
  PROVE  /\ line' \in Seq(Client) /\ ready' \in Seq(Client \cup {Master})
         /\ sock' \in [Client -> Fd \cup {NoFd}]
         /\ peer' \in [Client -> {"away", "up", "fin", "rst", "over"}]
         /\ inbox' \in [Client -> Seq(Request)]
  <1>1. CASE Owner(f) = Nobody
    BY <1>1 DEF Close, TypeOK
  <1>2. CASE Owner(f) # Nobody
    <2>1. Owner(f) \in Client
      BY <1>2, OwnerHas
    <2>2. Disarm(Owner(f), ready) \in Seq(Client \cup {Master})
      BY <2>1, DisarmIs DEF TypeOK, KernelInv, Sources, Distinct
    <2>3. /\ line' = line /\ ready' = Disarm(Owner(f), ready)
          /\ sock' = [sock EXCEPT ![Owner(f)] = NoFd]
          /\ peer' = [peer EXCEPT ![Owner(f)] = "over"]
          /\ inbox' = [inbox EXCEPT ![Owner(f)] = <<>>]
      BY <1>2 DEF Close
    <2>4. <<>> \in Seq(Request)
      OBVIOUS
    <2>5. QED
      BY <2>1, <2>2, <2>3, <2>4 DEF TypeOK
  <1>3. QED
    BY <1>1, <1>2

\* Wait, with the events it takes.
WaitWith(n, at) ==
    LET polled == IF n = EventsSize THEN at[n] ELSE Len(ready)
        rest == SubSeq(ready, polled + 1, Len(ready))
    IN  /\ phase = "wait" /\ FirstReadable(n, at)
        /\ eNum' = n
        /\ events' = [i \in DOMAIN events |->
                        IF i < n THEN EventOf(ready[at[i + 1]]) ELSE events[i]]
        /\ ready' = IF \E i \in 1 .. n : ready[at[i]] = Master
                    THEN Append(rest, Master) ELSE rest
        /\ todo' = [t \in Thread |-> Chunk(t, n)]
        /\ phase' = "pass"
        /\ crowded' = (crowded \/ n > 1)
        /\ did' = [own |-> TRUE, extra |-> FALSE]
        /\ UNCHANGED <<line, sock, peer, inbox, clientVars, width, epev, step, got,
                       sharedVars, sendVars>>

LEMMA TypeStep ==
  ASSUME TypeOK, KernelInv, PhaseInv, [Next]_vars
  PROVE  TypeOK'
  <1> USE Constants
  <1>0. KernelTypes /\ ClientTypes /\ PassTypes /\ ThreadTypes /\ ValueTypes
    BY TypeParts
  <1>1. CASE UNCHANGED vars
    BY <1>0, <1>1, TypeParts DEF KernelTypes, ClientTypes, PassTypes, ThreadTypes, ValueTypes
  <1>2. CASE Wait
    <2>0. PICK n \in 1 .. EventsSize : \E at \in [1 .. n -> 1 .. Len(ready)] : WaitWith(n, at)
      BY <1>2 DEF Wait, WaitWith
    <2> PICK at \in [1 .. n -> 1 .. Len(ready)] : WaitWith(n, at)
      BY <2>0
    <2> USE DEF WaitWith
    <2> DEFINE polled == IF n = EventsSize THEN at[n] ELSE Len(ready)
               rest == SubSeq(ready, polled + 1, Len(ready))
    <2>a. rest \in Seq(Client \cup {Master})
      <3>1. polled \in Nat /\ ready \in Seq(Client \cup {Master})
        BY <1>0 DEF KernelTypes
      <3>2. QED
        BY <3>1
    <2>b. ready' \in {rest, Append(rest, Master)}
      OBVIOUS
    <2> HIDE DEF rest
    <2>1. KernelTypes'
      <3>1. Append(rest, Master) \in Seq(Client \cup {Master})
        BY <2>a
      <3>2. line' = line /\ sock' = sock /\ peer' = peer /\ inbox' = inbox
        OBVIOUS
      <3>3. QED
        BY <1>0, <2>a, <2>b, <3>1, <3>2 DEF KernelTypes
    <2>2. ClientTypes'
      BY <1>0 DEF ClientTypes
    <2>3. PassTypes'
      <3>1. \A i \in 0 .. EventsSize - 1 : i < n => EventOf(ready[at[i + 1]]) \in Event
        <4> SUFFICES ASSUME NEW i \in 0 .. EventsSize - 1, i < n
                     PROVE  EventOf(ready[at[i + 1]]) \in Event
          OBVIOUS
        <4>1. at[i + 1] \in 1 .. Len(ready) /\ ready[at[i + 1]] \in Client \cup {Master}
          BY <1>0 DEF KernelTypes
        <4>2. ready[at[i + 1]] # Master => sock[ready[at[i + 1]]] \in Fd
          BY <1>0, <4>1 DEF KernelTypes, KernelInv
        <4>3. QED
          BY <4>1, <4>2 DEF EventOf, Event
      <3>2. QED
        BY <1>0, <3>1 DEF PassTypes
    <2>4. ThreadTypes'
      BY <1>0, ChunkIn DEF ThreadTypes, PassTypes
    <2>5. ValueTypes'
      BY <1>0 DEF ValueTypes
    <2>6. QED
      BY <2>1, <2>2, <2>3, <2>4, <2>5, TypeParts
  <1>3. CASE Barrier
    <2>1. PassTypes'
      BY <1>0, <1>3 DEF Barrier, PassTypes
    <2>2. KernelTypes' /\ ClientTypes' /\ ThreadTypes' /\ ValueTypes'
      BY <1>0, <1>3 DEF Barrier, KernelTypes, ClientTypes, ThreadTypes, ValueTypes
    <2>3. QED
      BY <2>1, <2>2, TypeParts
  <1>4. CASE SendSlot
    <2>1. KernelTypes' /\ ClientTypes'
      <3> DEFINE c == Owner(out[sent].fd)
      <3>1. c = Nobody \/ c \in Client
        BY OwnerHas
      <3>2. CASE UNCHANGED <<kernelVars, clientVars>>
        BY <1>0, <3>2 DEF KernelTypes, ClientTypes
      <3>3. CASE c \in Client /\ Deliver(c)
        BY <1>0, <3>3 DEF Deliver, KernelTypes, ClientTypes
      <3>4. CASE c \in Client /\ DeliverLate(c)
        <4>1. Arm(c, ready) \in Seq(Client \cup {Master})
          BY <1>0, <3>4 DEF Arm, KernelTypes
        <4>2. QED
          BY <1>0, <3>4, <4>1 DEF DeliverLate, KernelTypes, ClientTypes
      <3>5. QED
        BY <1>4, <3>1, <3>2, <3>3, <3>4 DEF SendSlot
    <2>2. PassTypes' /\ buffer' = NoText /\ out' \in {out, [i \in Slots |-> NoReply]}
      BY <1>0, <1>4 DEF SendSlot, NextSlot, PassTypes
    <2>3. ThreadTypes' /\ ValueTypes'
      BY <1>0, <1>4, <2>2 DEF SendSlot, ThreadTypes, ValueTypes
    <2>4. QED
      BY <2>1, <2>2, <2>3, TypeParts
  <1>5. CASE BrokenPipe \/ OutOfBounds \/ \E t, u \in Thread : Race(t, u)
    BY <1>5, ZenonT(60) DEF BrokenPipe, OutOfBounds, End, Race, TypeOK
  <1>6. ASSUME NEW t \in Thread, EndIteration(t), got' \in [Thread -> Request \cup {NoText}]
        PROVE  ThreadTypes'
    BY <1>0, <1>6 DEF EndIteration, ThreadTypes
  <1>7. ASSUME NEW t \in Thread, SkipSlot(t) \/ AcceptFailed(t) PROVE TypeOK'
    <2>1. ThreadTypes'
      BY <1>0, <1>6, <1>7 DEF SkipSlot, AcceptFailed, ThreadTypes
    <2>2. KernelTypes' /\ ClientTypes' /\ PassTypes' /\ ValueTypes'
      BY <1>0, <1>7 DEF SkipSlot, AcceptFailed, KernelTypes, ClientTypes, PassTypes, ValueTypes
    <2>3. QED
      BY <2>1, <2>2, TypeParts
  <1>8. ASSUME NEW t \in Thread, Accept(t) PROVE TypeOK'
    <2>1. ThreadTypes'
      BY <1>0, <1>6, <1>8 DEF Accept, ThreadTypes
    <2>2. ClientTypes' /\ ValueTypes'
      BY <1>0, <1>8 DEF Accept, ClientTypes, ValueTypes
    <2>3. PICK f \in Fd :
            /\ sock' = [sock EXCEPT ![Head(line)] = f]
            /\ epev' = [fd |-> f, hup |-> FALSE]
            /\ ready' \in {ready, Arm(Head(line), ready)}
      BY <1>8 DEF Accept, LowestFd, FreeFd
    <2>4. Head(line) \in Client /\ Tail(line) \in Seq(Client)
      BY <1>0, <1>8 DEF Accept, KernelTypes
    <2>5. Arm(Head(line), ready) \in Seq(Client \cup {Master})
      BY <1>0, <2>4 DEF Arm, KernelTypes
    <2>6. KernelTypes'
      BY <1>0, <1>8, <2>3, <2>4, <2>5 DEF Accept, KernelTypes
    <2>7. PassTypes'
      BY <1>0, <1>8, <2>3 DEF Accept, PassTypes, Event
    <2>8. QED
      BY <2>1, <2>2, <2>6, <2>7, TypeParts
  <1>9. ASSUME NEW t \in Thread, HangUp(t) \/ ReceiveEnd(t) PROVE TypeOK'
    <2>1. ThreadTypes'
      BY <1>0, <1>6, <1>9 DEF HangUp, ReceiveEnd, ThreadTypes
    <2>2. KernelTypes'
      BY <1>9, CloseTypes DEF HangUp, ReceiveEnd, KernelTypes
    <2>3. ClientTypes' /\ PassTypes' /\ ValueTypes'
      BY <1>0, <1>9 DEF HangUp, ReceiveEnd, ClientTypes, PassTypes, ValueTypes
    <2>4. QED
      BY <2>1, <2>2, <2>3, TypeParts
  <1>10. ASSUME NEW t \in Thread, Receive(t) PROVE TypeOK'
    <2>1. PICK c \in Client :
            /\ inbox[c] # <<>>
            /\ buffer' = Head(inbox[c])
            /\ got' = [got EXCEPT ![t] = Head(inbox[c])]
            /\ inbox' = [inbox EXCEPT ![c] = <<>>]
      BY <1>10, OwnerHas DEF Receive
    <2>2. Head(inbox[c]) \in Request
      BY <1>0, <2>1 DEF KernelTypes
    <2>3. KernelTypes' /\ ThreadTypes'
      BY <1>0, <1>10, <2>1, <2>2 DEF Receive, KernelTypes, ThreadTypes
    <2>4. ClientTypes' /\ PassTypes' /\ ValueTypes'
      BY <1>0, <1>10, <2>1, <2>2 DEF Receive, ClientTypes, PassTypes, ValueTypes
    <2>5. QED
      BY <2>3, <2>4, TypeParts
  <1>11. ASSUME NEW t \in Thread, ReceiveNothing(t) PROVE TypeOK'
    <2>1. ThreadTypes'
      BY <1>0, <1>11 DEF ReceiveNothing, ThreadTypes
    <2>2. KernelTypes' /\ ClientTypes' /\ PassTypes' /\ ValueTypes'
      BY <1>0, <1>11, ZenonT(60) DEF ReceiveNothing, KernelTypes, ClientTypes, PassTypes, ValueTypes
    <2>3. QED
      BY <2>1, <2>2, TypeParts
  <1>12. ASSUME NEW t \in Thread, Parse(t) PROVE TypeOK'
    BY <1>12 DEF Parse, TypeOK, Request, NoText
  <1>13. ASSUME NEW t \in Thread, Handle(t) PROVE TypeOK'
    <2>1. ThreadTypes'
      BY <1>0, <1>6, <1>13 DEF Handle, ThreadTypes
    <2>2. KernelTypes' /\ ClientTypes' /\ PassTypes'
      BY <1>0, <1>13 DEF Handle, KernelTypes, ClientTypes, PassTypes
    <2>3. Slot(Current(t)).fd \in Fd
      BY <1>13 DEF Handle, InPass, PhaseInv
    <2>4. \A n \in Answers(fields.cmd) : n \in {0, 1, 2}
      BY DEF Answers
    <2>5. out' \in [Slots -> [fd : Fd, messages : {1, 2}] \cup {NoReply}]
      <3>1. PICK n \in {0, 1, 2} :
              out' = IF n = 0 THEN out
                     ELSE [out EXCEPT ![Current(t)] = [fd |-> Slot(Current(t)).fd, messages |-> n]]
        BY <1>13, <2>4 DEF Handle
      <3>2. n # 0 => [fd |-> Slot(Current(t)).fd, messages |-> n] \in [fd : Fd, messages : {1, 2}]
        BY <2>3
      <3>3. QED
        BY <1>0, <3>1, <3>2 DEF ValueTypes
    <2>6. did' \in [own : BOOLEAN, extra : BOOLEAN]
      BY <1>13 DEF Handle, Own
    <2>7. ValueTypes'
      BY <1>0, <1>13, <2>5, <2>6 DEF Handle, ValueTypes
    <2>8. QED
      BY <2>1, <2>2, <2>7, TypeParts
  <1>14. ASSUME NEW c \in Client \cup {Master} PROVE Arm(c, ready) \in Seq(Client \cup {Master})
    BY <1>0 DEF Arm, KernelTypes
  <1>15. ASSUME NEW c \in Client, Connect(c) PROVE TypeOK'
    <2>1. KernelTypes'
      BY <1>0, <1>14, <1>15 DEF Connect, KernelTypes
    <2>2. ClientTypes' /\ PassTypes' /\ ThreadTypes' /\ ValueTypes'
      BY <1>0, <1>15 DEF Connect, ClientTypes, PassTypes, ThreadTypes, ValueTypes
    <2>3. QED
      BY <2>1, <2>2, TypeParts
  <1>16. ASSUME NEW c \in Client, Leave(c) PROVE TypeOK'
    <2>1. KernelTypes'
      BY <1>0, <1>14, <1>16 DEF Leave, KernelTypes
    <2>2. ClientTypes'
      BY <1>0, <1>16, SizeAssumption DEF Leave, ClientTypes
    <2>3. PassTypes' /\ ThreadTypes' /\ ValueTypes'
      BY <1>0, <1>16 DEF Leave, PassTypes, ThreadTypes, ValueTypes
    <2>4. QED
      BY <2>1, <2>2, <2>3, TypeParts
  <1>17. ASSUME NEW c \in Client, NEW cmd \in Commands, NEW named \in BOOLEAN,
                Ask(c, cmd, named)
         PROVE  TypeOK'
    <2>1. [cmd |-> cmd, from |-> c, named |-> named] \in Request
      BY DEF Request
    <2>2. KernelTypes'
      BY <1>0, <1>14, <1>17, <2>1 DEF Ask, KernelTypes
    <2>3. ClientTypes'
      BY <1>0, <1>17, SizeAssumption DEF Ask, ClientTypes
    <2>4. PassTypes' /\ ThreadTypes' /\ ValueTypes'
      BY <1>0, <1>17 DEF Ask, PassTypes, ThreadTypes, ValueTypes
    <2>5. QED
      BY <2>2, <2>3, <2>4, TypeParts
  <1>18. QED
    BY <1>1, <1>2, <1>3, <1>4, <1>5, <1>7, <1>8, <1>9, <1>10, <1>11, <1>12, <1>13,
       <1>15, <1>16, <1>17 DEF Next, ThreadStep, ClientStep

-----------------------------------------------------------------------------
(* The kernel *)

\* The parts of KernelInv: who has which descriptor, the line, the ready list,
\* the sockets.
SocksInv ==
    /\ \A c, d \in Client : sock[c] = sock[d] /\ sock[c] # NoFd => c = d
    /\ \A c \in Client : sock[c] # NoFd => peer[c] \in {"up", "fin", "rst"}

LineInv ==
    /\ \A i \in 1 .. Len(line) :
          sock[line[i]] = NoFd /\ peer[line[i]] \in {"up", "fin", "rst"}
    /\ \A i, j \in 1 .. Len(line) : line[i] = line[j] => i = j

ReadyInv ==
    /\ \A i \in 1 .. Len(ready) : ready[i] # Master => sock[ready[i]] # NoFd
    /\ Distinct(ready)

InboxInv == \A c \in Client : \A i \in 1 .. Len(inbox[c]) : inbox[c][i].from = c

LEMMA KernelParts ==
  /\ KernelInv <=> SocksInv /\ LineInv /\ ReadyInv /\ InboxInv
  /\ KernelInv' <=> SocksInv' /\ LineInv' /\ ReadyInv' /\ InboxInv'
  BY DEF KernelInv, SocksInv, LineInv, ReadyInv, InboxInv, Distinct

LEMMA Lists ==
  ASSUME TypeOK, KernelInv
  PROVE  /\ ready \in Seq(Sources) /\ Len(ready) \in Nat /\ Distinct(ready)
         /\ \A i \in 1 .. Len(ready) : ready[i] \in Sources
         /\ line \in Seq(Client) /\ Len(line) \in Nat
         /\ \A i \in 1 .. Len(line) : line[i] \in Client
         /\ \A c \in Client : inbox[c] \in Seq(Request) /\ Len(inbox[c]) \in Nat
  <1>1. KernelTypes /\ ReadyInv
    BY TypeParts, KernelParts
  <1>2. ready \in Seq(Sources) /\ Distinct(ready) /\ line \in Seq(Client)
    BY <1>1 DEF KernelTypes, ReadyInv, Sources
  <1>3. \A c \in Client : inbox[c] \in Seq(Request)
    BY <1>1 DEF KernelTypes
  <1>4. QED
    BY <1>2, <1>3

\* What is left of the ready list after a call of epoll_wait.
LEMMA RestIs ==
  ASSUME NEW list \in Seq(Sources), Distinct(list), NEW p \in 0 .. Len(list)
  PROVE  LET rest == SubSeq(list, p + 1, Len(list)) IN
         /\ rest \in Seq(Sources) /\ Len(rest) = Len(list) - p
         /\ Distinct(rest)
         /\ \A i \in 1 .. Len(rest) : rest[i] = list[i + p]
  <1> DEFINE rest == SubSeq(list, p + 1, Len(list))
  <1>1. \A i \in 1 .. Len(list) : list[i] \in Sources
    OBVIOUS
  <1>2. Len(list) \in Nat
    OBVIOUS
  <1>3. /\ rest \in Seq(Sources) /\ Len(rest) = Len(list) - p
        /\ \A i \in 1 .. Len(list) - p : rest[i] = list[i + p]
    BY <1>1, <1>2
  <1> HIDE DEF rest
  <1>4. Distinct(rest)
    BY <1>2, <1>3 DEF Distinct
  <1>5. QED
    BY <1>3, <1>4 DEF rest

\* The list that an epoll_wait leaves, the listening socket at its end if it
\* was reported.
LEMMA WaitReady ==
  ASSUME TypeOK, KernelInv, NEW n \in 1 .. EventsSize,
         NEW at \in [1 .. n -> 1 .. Len(ready)], WaitWith(n, at)
  PROVE  /\ Distinct(ready')
         /\ \A i \in 1 .. Len(ready') :
               ready'[i] = Master \/ \E j \in 1 .. Len(ready) : ready[j] = ready'[i]
  <1> DEFINE p == IF n = EventsSize THEN at[n] ELSE Len(ready)
             rest == SubSeq(ready, p + 1, Len(ready))
  <1>1. ready \in Seq(Sources) /\ Distinct(ready) /\ Len(ready) \in Nat
    BY Lists
  <1>2. p \in 0 .. Len(ready)
    BY <1>1
  <1>3. /\ rest \in Seq(Sources) /\ Len(rest) = Len(ready) - p /\ Distinct(rest)
        /\ \A i \in 1 .. Len(rest) : rest[i] = ready[i + p]
    BY <1>1, <1>2, RestIs
  <1>4. ready' = IF \E i \in 1 .. n : ready[at[i]] = Master THEN Append(rest, Master) ELSE rest
    BY DEF WaitWith
  <1>5. \A i \in 1 .. n : at[i] <= p
    <2>1. \A i \in 1 .. n : i < n => at[i] < at[n]
      BY DEF WaitWith, FirstReadable
    <2>2. QED
      BY <1>1, <2>1
  <1> HIDE DEF p, rest
  <1>6. CASE \E i \in 1 .. n : ready[at[i]] = Master
    <2>1. PICK i \in 1 .. n : ready[at[i]] = Master
      BY <1>6
    <2>2. \A j \in 1 .. Len(rest) : rest[j] # Master
      <3> SUFFICES ASSUME NEW j \in 1 .. Len(rest), rest[j] = Master PROVE FALSE
        OBVIOUS
      <3>1. j + p \in 1 .. Len(ready) /\ j + p > p /\ ready[j + p] = Master
        BY <1>1, <1>2, <1>3
      <3>2. at[i] \in 1 .. Len(ready) /\ at[i] <= p
        BY <1>5
      <3>3. j + p = at[i]
        BY <1>1, <2>1, <3>1, <3>2 DEF Distinct
      <3>4. QED
        BY <1>1, <1>2, <3>1, <3>2, <3>3
    <2>3. /\ Len(ready') = Len(rest) + 1
          /\ ready'[Len(rest) + 1] = Master
          /\ \A j \in 1 .. Len(rest) : ready'[j] = rest[j]
      <3>1. ready' = Append(rest, Master) /\ rest \in Seq(Sources)
        BY <1>3, <1>4, <1>6
      <3>2. QED
        BY <3>1
    <2>4. Len(rest) \in Nat
      BY <1>3
    <2>5. Distinct(ready')
      BY <1>3, <2>2, <2>3, <2>4 DEF Distinct
    <2>6. \A j \in 1 .. Len(rest) : j + p \in 1 .. Len(ready)
      BY <1>1, <1>2, <1>3
    <2>7. ASSUME NEW j \in 1 .. Len(ready')
          PROVE  ready'[j] = Master \/ \E l \in 1 .. Len(ready) : ready[l] = ready'[j]
      <3>1. CASE j = Len(rest) + 1
        BY <2>3, <3>1
      <3>2. CASE j \in 1 .. Len(rest)
        <4>1. ready'[j] = ready[j + p] /\ j + p \in 1 .. Len(ready)
          BY <1>3, <2>3, <2>6, <3>2
        <4>2. QED
          BY <4>1
      <3>3. j = Len(rest) + 1 \/ j \in 1 .. Len(rest)
        <4>1. j \in 1 .. Len(rest) + 1
          BY <2>3
        <4>2. QED
          BY <2>4, <4>1
      <3>4. QED
        BY <3>1, <3>2, <3>3
    <2>8. QED
      BY <2>5, <2>7
  <1>7. CASE ~\E i \in 1 .. n : ready[at[i]] = Master
    BY <1>1, <1>2, <1>3, <1>4, <1>7
  <1>8. QED
    BY <1>6, <1>7

LEMMA InitKernel == Init => KernelInv
  <1> SUFFICES ASSUME Init PROVE SocksInv /\ LineInv /\ ReadyInv /\ InboxInv
    BY KernelParts
  <1>1. Len(line) = 0 /\ Len(ready) = 0 /\ \A c \in Client : Len(inbox[c]) = 0
    BY DEF Init
  <1>2. \A c \in Client : sock[c] = NoFd
    BY DEF Init
  <1>3. QED
    BY <1>1, <1>2 DEF SocksInv, LineInv, ReadyInv, InboxInv, Distinct

LEMMA CloseKernel ==
  ASSUME TypeOK, KernelInv, NEW f, Close(f)
  PROVE  KernelInv'
  <1>0. SocksInv /\ LineInv /\ ReadyInv /\ InboxInv /\ KernelTypes
    BY KernelParts, TypeParts
  <1>1. CASE Owner(f) = Nobody
    BY <1>1 DEF Close, KernelInv
  <1>2. CASE Owner(f) # Nobody
    <2> DEFINE c == Owner(f)
    <2>1. c \in Client /\ sock[c] # NoFd
      BY <1>2, OwnerHas
    <2>2. /\ line' = line /\ ready' = Disarm(c, ready)
          /\ sock' = [sock EXCEPT ![c] = NoFd]
          /\ peer' = [peer EXCEPT ![c] = "over"]
          /\ inbox' = [inbox EXCEPT ![c] = <<>>]
      BY <1>2 DEF Close
    <2> HIDE DEF c
    <2>3. SocksInv'
      BY <1>0, <2>1, <2>2 DEF SocksInv, KernelTypes
    <2>4. LineInv'
      <3>1. \A i \in 1 .. Len(line) : line[i] \in Client /\ line[i] # c
        BY <1>0, <2>1, Lists DEF LineInv
      <3>2. QED
        BY <1>0, <2>1, <2>2, <3>1 DEF LineInv, KernelTypes
    <2>5. ReadyInv'
      <3>1. /\ Distinct(ready')
            /\ \A i \in 1 .. Len(ready') :
                  ready'[i] # c /\ \E j \in 1 .. Len(ready) : ready[j] = ready'[i]
        BY <2>1, <2>2, Lists, DisarmIs DEF Sources
      <3>2. \A j \in 1 .. Len(ready) : ready[j] \in Client \cup {Master}
        BY Lists DEF Sources
      <3>3. QED
        BY <1>0, <2>1, <2>2, <3>1, <3>2 DEF ReadyInv, KernelTypes
    <2>6. InboxInv'
      BY <1>0, <2>1, <2>2 DEF InboxInv, KernelTypes
    <2>7. QED
      BY <2>3, <2>4, <2>5, <2>6, KernelParts
  <1>3. QED
    BY <1>1, <1>2

\* A source joins the list: a connection, or the listening socket.
LEMMA ArmKeeps ==
  ASSUME TypeOK, KernelInv, NEW s \in Sources, ready' \in {ready, Arm(s, ready)},
         s # Master => sock'[s] # NoFd,
         \A c \in Client : sock[c] # NoFd => sock'[c] # NoFd
  PROVE  ReadyInv'
  <1>1. /\ Distinct(ready')
        /\ \A i \in 1 .. Len(ready') :
              ready'[i] = s \/ \E j \in 1 .. Len(ready) : ready[j] = ready'[i]
    BY Lists, ArmIs
  <1>2. QED
    BY <1>1, Lists, KernelParts DEF ReadyInv, Sources

LEMMA KernelStep ==
  ASSUME TypeOK, KernelInv, [Next]_vars
  PROVE  KernelInv'
  <1>0. SocksInv /\ LineInv /\ ReadyInv /\ InboxInv /\ KernelTypes
    BY KernelParts, TypeParts
  <1>1. CASE UNCHANGED kernelVars
    BY <1>1 DEF KernelInv
  <1>2. CASE Wait
    <2>0. PICK n \in 1 .. EventsSize : \E at \in [1 .. n -> 1 .. Len(ready)] : WaitWith(n, at)
      BY <1>2 DEF Wait, WaitWith
    <2> PICK at \in [1 .. n -> 1 .. Len(ready)] : WaitWith(n, at)
      BY <2>0
    <2>1. line' = line /\ sock' = sock /\ peer' = peer /\ inbox' = inbox
      BY DEF WaitWith
    <2>2. /\ Distinct(ready')
          /\ \A i \in 1 .. Len(ready') :
                ready'[i] = Master \/ \E j \in 1 .. Len(ready) : ready[j] = ready'[i]
      BY WaitReady
    <2>3. ReadyInv'
      BY <1>0, <2>1, <2>2 DEF ReadyInv
    <2>4. SocksInv' /\ LineInv' /\ InboxInv'
      BY <1>0, <2>1 DEF SocksInv, LineInv, InboxInv
    <2>5. QED
      BY <2>3, <2>4, KernelParts
  <1>3. CASE SendSlot
    <2> DEFINE c == Owner(out[sent].fd)
    <2>1. CASE c \in Client /\ DeliverLate(c)
      <3>1. /\ line' = line /\ sock' = sock /\ inbox' = inbox
            /\ peer' = [peer EXCEPT ![c] = "rst"] /\ ready' = Arm(c, ready)
        BY <2>1 DEF DeliverLate
      <3>2. c # Nobody => sock[c] # NoFd
        BY OwnerHas
      <3>3. c # Nobody
        BY <2>1, ClientAssumption
      <3>4. ReadyInv'
        BY <2>1, <3>1, <3>2, <3>3, ArmKeeps DEF Sources
      <3>5. SocksInv' /\ LineInv' /\ InboxInv'
        BY <1>0, <2>1, <3>1, Lists DEF SocksInv, LineInv, InboxInv, KernelTypes
      <3>6. QED
        BY <3>4, <3>5, KernelParts
    <2>2. QED
      BY <1>1, <1>3, <2>1, OwnerHas DEF SendSlot, Deliver
  <1>4. ASSUME NEW t \in Thread, Accept(t) PROVE KernelInv'
    <2> DEFINE c == Head(line)
    <2>1. PICK f \in Fd :
            /\ \A d \in Client : sock[d] # f
            /\ sock' = [sock EXCEPT ![c] = f]
            /\ ready' \in {ready, Arm(c, ready)}
            /\ line' = Tail(line) /\ line # <<>> /\ peer' = peer /\ inbox' = inbox
      BY <1>4 DEF Accept, LowestFd, FreeFd
    <2>2. /\ c = line[1] /\ c \in Client /\ 1 \in 1 .. Len(line)
          /\ Len(line') = Len(line) - 1
          /\ \A i \in 1 .. Len(line) - 1 : line'[i] = line[i + 1]
      BY <2>1, Lists
    <2>3. sock[c] = NoFd /\ peer[c] \in {"up", "fin", "rst"}
      BY <1>0, <2>2 DEF LineInv
    <2>4. /\ sock'[c] = f /\ f # NoFd /\ peer' = peer
          /\ \A d \in Client : sock[d] # f /\ (d # c => sock'[d] = sock[d])
      BY <1>0, <2>1, <2>2, Constants DEF KernelTypes
    <2> HIDE DEF c
    <2>5. SocksInv'
      BY <1>0, <2>2, <2>3, <2>4 DEF SocksInv
    <2>6. LineInv'
      <3>1. \A i \in 1 .. Len(line) - 1 : line[i + 1] # c /\ line[i + 1] \in Client
        BY <1>0, <2>2, Lists DEF LineInv
      <3>2. Len(line) \in Nat
        BY Lists
      <3>3. \A i \in 1 .. Len(line) - 1 :
              /\ i + 1 \in 1 .. Len(line) /\ line'[i] = line[i + 1]
              /\ sock'[line'[i]] = sock[line[i + 1]]
        BY <2>2, <2>4, <3>1, <3>2
      <3>4. Len(line') \in Nat /\ \A i \in 1 .. Len(line') : i \in 1 .. Len(line) - 1
        BY <2>2, <3>2
      <3>5. \A i \in 1 .. Len(line') :
              sock'[line'[i]] = NoFd /\ peer'[line'[i]] \in {"up", "fin", "rst"}
        BY <1>0, <2>4, <3>3, <3>4 DEF LineInv
      <3>6. \A i, j \in 1 .. Len(line') : line'[i] = line'[j] => i = j
        <4> SUFFICES ASSUME NEW i \in 1 .. Len(line'), NEW j \in 1 .. Len(line'),
                            line'[i] = line'[j]
                     PROVE  i = j
          OBVIOUS
        <4>1. /\ i + 1 \in 1 .. Len(line) /\ j + 1 \in 1 .. Len(line)
              /\ line[i + 1] = line[j + 1]
          BY <3>3, <3>4
        <4>2. i + 1 = j + 1
          BY <1>0, <4>1 DEF LineInv
        <4>3. QED
          BY <3>4, <4>2
      <3>7. QED
        BY <3>5, <3>6 DEF LineInv
    <2>7. ReadyInv'
      BY <2>1, <2>2, <2>3, <2>4, ArmKeeps DEF Sources
    <2>8. InboxInv'
      BY <1>0, <2>1 DEF InboxInv
    <2>9. QED
      BY <2>5, <2>6, <2>7, <2>8, KernelParts
  <1>5. ASSUME NEW t \in Thread, HangUp(t) \/ ReceiveEnd(t) PROVE KernelInv'
    BY <1>5, CloseKernel DEF HangUp, ReceiveEnd
  <1>6. ASSUME NEW t \in Thread, Receive(t) PROVE KernelInv'
    <2>1. PICK c \in Client : inbox' = [inbox EXCEPT ![c] = <<>>]
      BY <1>6, OwnerHas DEF Receive
    <2>2. line' = line /\ sock' = sock /\ peer' = peer /\ ready' = ready
      BY <1>6 DEF Receive
    <2>3. SocksInv' /\ LineInv' /\ ReadyInv'
      BY <1>0, <2>2 DEF SocksInv, LineInv, ReadyInv
    <2>4. InboxInv'
      BY <1>0, <2>1 DEF InboxInv, KernelTypes
    <2>5. QED
      BY <2>3, <2>4, KernelParts
  <1>7. ASSUME NEW c \in Client, Connect(c) PROVE KernelInv'
    <2>1. /\ peer[c] = "away" /\ peer' = [peer EXCEPT ![c] = "up"]
          /\ line' = Append(line, c) /\ ready' = Arm(Master, ready)
          /\ sock' = sock /\ inbox' = inbox
      BY <1>7 DEF Connect
    <2>2. sock[c] = NoFd
      BY <1>0, <2>1 DEF SocksInv
    <2>3. /\ Len(line') = Len(line) + 1 /\ line'[Len(line) + 1] = c
          /\ \A i \in 1 .. Len(line) : line'[i] = line[i] /\ line[i] # c
      BY <1>0, <2>1, Lists DEF LineInv
    <2>4. LineInv'
      BY <1>0, <2>1, <2>2, <2>3, Lists DEF LineInv, KernelTypes
    <2>5. ReadyInv'
      BY <2>1, ArmKeeps DEF Sources
    <2>6. SocksInv' /\ InboxInv'
      BY <1>0, <2>1, <2>2 DEF SocksInv, InboxInv, KernelTypes
    <2>7. QED
      BY <2>4, <2>5, <2>6, KernelParts
  <1>8. ASSUME NEW c \in Client, Leave(c) PROVE KernelInv'
    <2>1. PICK how \in {"fin", "rst"} : peer' = [peer EXCEPT ![c] = how]
      BY <1>8 DEF Leave
    <2>2. /\ line' = line /\ sock' = sock /\ inbox' = inbox
          /\ IF sock[c] = NoFd THEN ready' = ready ELSE ready' = Arm(c, ready)
      BY <1>8 DEF Leave
    <2>3. SocksInv' /\ LineInv' /\ InboxInv'
      BY <1>0, <2>1, <2>2, Lists DEF SocksInv, LineInv, InboxInv, KernelTypes
    <2>4. ReadyInv'
      BY <1>0, <2>2, ArmKeeps DEF ReadyInv, Sources
    <2>5. QED
      BY <2>3, <2>4, KernelParts
  <1>9. ASSUME NEW c \in Client, NEW cmd \in Commands, NEW named \in BOOLEAN,
               Ask(c, cmd, named)
        PROVE  KernelInv'
    <2> DEFINE r == [cmd |-> cmd, from |-> c, named |-> named]
    <2>1. inbox' = [inbox EXCEPT ![c] = Append(@, r)] /\ r.from = c
      BY <1>9 DEF Ask
    <2>2. /\ line' = line /\ sock' = sock /\ peer' = peer
          /\ IF sock[c] = NoFd THEN ready' = ready ELSE ready' = Arm(c, ready)
      BY <1>9 DEF Ask
    <2> HIDE DEF r
    <2>3. SocksInv' /\ LineInv'
      BY <1>0, <2>2 DEF SocksInv, LineInv
    <2>4. ReadyInv'
      BY <1>0, <2>2, ArmKeeps DEF ReadyInv, Sources
    <2>5. InboxInv'
      <3>1. \A d \in Client : d # c => inbox'[d] = inbox[d]
        BY <1>0, <2>1 DEF KernelTypes
      <3>2. inbox'[c] = Append(inbox[c], r) /\ Len(inbox[c]) \in Nat /\ inbox[c] \in Seq(Request)
        BY <1>0, <2>1, Lists DEF KernelTypes
      <3>3. \A i \in 1 .. Len(inbox'[c]) : inbox'[c][i] = r \/ (i \in 1 .. Len(inbox[c]) /\ inbox'[c][i] = inbox[c][i])
        BY <3>2
      <3>4. QED
        BY <1>0, <2>1, <3>1, <3>3 DEF InboxInv
    <2>6. QED
      BY <2>3, <2>4, <2>5, KernelParts
  <1>10. CASE Barrier \/ BrokenPipe \/ OutOfBounds \/ \E t, u \in Thread : Race(t, u)
    BY <1>1, <1>10 DEF Barrier, BrokenPipe, OutOfBounds, End, Race
  <1>11. ASSUME NEW t \in Thread,
                SkipSlot(t) \/ AcceptFailed(t) \/ ReceiveNothing(t) \/ Parse(t) \/ Handle(t)
         PROVE  KernelInv'
    BY <1>1, <1>11 DEF SkipSlot, AcceptFailed, ReceiveNothing, Parse, Handle
  <1>12. QED
    BY <1>1, <1>2, <1>3, <1>4, <1>5, <1>6, <1>7, <1>8, <1>9, <1>10, <1>11
    DEF Next, ThreadStep, ClientStep

-----------------------------------------------------------------------------
(* Phases *)

LEMMA InitPhase == Init => PhaseInv
  BY DEF Init, PhaseInv

\* An iteration ends; the event behind the array may have been set by accept().
LEMMA EndPhase ==
  ASSUME TypeOK, PhaseInv, NEW t \in Thread, EndIteration(t),
         phase = "pass", phase' = phase, events' = events,
         epev' = epev \/ epev'.fd \in Fd
  PROVE  PhaseInv'
  <1>1. ThreadTypes
    BY TypeParts
  <1>2. /\ step'[t] = "slot"
        /\ \A u \in Thread : u # t => step'[u] = step[u] /\ todo'[u] = todo[u]
    BY <1>1 DEF EndIteration, ThreadTypes
  <1>3. \A u \in Thread : step'[u] # "slot" => Slot(Current(u))'.fd \in Fd
    <2> SUFFICES ASSUME NEW u \in Thread, step'[u] # "slot" PROVE Slot(Current(u))'.fd \in Fd
      OBVIOUS
    <2>1. u # t /\ todo'[u] = todo[u] /\ Slot(Current(u)).fd \in Fd
      BY <1>2 DEF PhaseInv
    <2>2. Current(u)' = Current(u)
      BY <2>1 DEF Current
    <2>3. QED
      BY <2>1, <2>2 DEF Slot
  <1>4. QED
    BY <1>2, <1>3 DEF PhaseInv

LEMMA PhaseStep ==
  ASSUME TypeOK, PhaseInv, [Next]_vars
  PROVE  PhaseInv'
  <1>0. ThreadTypes /\ PassTypes
    BY TypeParts
  <1>1. CASE UNCHANGED <<phase, out, todo, step, events, epev>>
    BY <1>1 DEF PhaseInv, Current, Slot
  <1>2. CASE Wait
    <2>1. phase = "wait" /\ phase' = "pass" /\ step' = step
      BY <1>2 DEF Wait
    <2>2. \A t \in Thread : step[t] = "slot"
      BY <2>1 DEF PhaseInv
    <2>3. QED
      BY <2>1, <2>2 DEF PhaseInv
  <1>3. CASE Barrier
    BY <1>3 DEF Barrier, PhaseInv, Current, Slot
  <1>4. CASE SendSlot
    <2>1. /\ phase = "send" /\ UNCHANGED <<todo, step, events, epev>>
          /\ phase' \in {"wait", "send"}
          /\ phase' = "wait" => out' = [i \in Slots |-> NoReply]
      BY <1>4 DEF SendSlot, NextSlot
    <2>2. QED
      BY <2>1 DEF PhaseInv, Current, Slot
  <1>5. CASE BrokenPipe \/ OutOfBounds \/ \E t, u \in Thread : Race(t, u)
    <2>1. phase' = "ended" /\ UNCHANGED <<todo, step, events, epev>>
      BY <1>5 DEF BrokenPipe, OutOfBounds, End, Race
    <2>2. QED
      BY <2>1 DEF PhaseInv, Current, Slot
  <1>6. ASSUME NEW t \in Thread,
               SkipSlot(t) \/ Accept(t) \/ AcceptFailed(t) \/ HangUp(t)
                 \/ ReceiveEnd(t) \/ Handle(t)
        PROVE  PhaseInv'
    <2>1. /\ EndIteration(t) /\ phase = "pass" /\ phase' = phase /\ events' = events
          /\ epev' = epev \/ epev'.fd \in Fd
      BY <1>6 DEF SkipSlot, Accept, AcceptFailed, HangUp, ReceiveEnd, Handle, InPass, AtMaster,
                  LowestFd, FreeFd
    <2>2. QED
      BY <2>1, EndPhase
  <1>7. ASSUME NEW t \in Thread, Receive(t) \/ ReceiveNothing(t) \/ Parse(t)
        PROVE  PhaseInv'
    <2>1. /\ phase = "pass" /\ todo[t] # {} /\ Slot(Current(t)).fd \in Fd
          /\ \E s \in {"parse", "handle"} : step' = [step EXCEPT ![t] = s]
          /\ UNCHANGED <<phase, todo, events, epev>>
      BY <1>7 DEF Receive, ReceiveNothing, Parse, InPass, PhaseInv
    <2>2. \A u \in Thread : u # t => step'[u] = step[u]
      BY <1>0, <2>1 DEF ThreadTypes
    <2>3. \A u \in Thread : Slot(Current(u))' = Slot(Current(u))
      BY <2>1 DEF Slot, Current
    <2>4. QED
      BY <2>1, <2>2, <2>3 DEF PhaseInv
  <1>8. ASSUME NEW c \in Client, ClientStep(c) PROVE PhaseInv'
    BY <1>1, <1>8 DEF ClientStep, Connect, Leave, Ask
  <1>9. QED
    BY <1>1, <1>2, <1>3, <1>4, <1>5, <1>6, <1>7, <1>8 DEF Next, ThreadStep

-----------------------------------------------------------------------------
(* One thread at work *)

\* Who works is thread 0, on the first of the iterations that are left.
LEMMA AloneHere ==
  ASSUME TypeOK, AloneInv, Alone, phase = "pass", NEW t \in Thread, todo[t] # {}
  PROVE  /\ t = 0
         /\ eNum \in 1 .. EventsSize
         /\ Current(0) \in 0 .. eNum
         /\ todo[0] = Current(0) .. eNum
         /\ Current(0) < eNum => Slot(Current(0)) = events[Current(0)]
  <1>1. t = 0 /\ eNum \in 1 .. EventsSize
    BY DEF AloneInv
  <1>2. PICK k \in 0 .. EventsSize + 1 : todo[0] = k .. eNum
    BY DEF AloneInv
  <1>3. k <= eNum
    BY <1>1, <1>2, Constants
  <1>4. Current(0) = k
    BY <1>1, <1>2, <1>3, Constants, CurrentIs
  <1>5. QED
    BY <1>1, <1>2, <1>3, <1>4, Constants DEF Slot

\* Until a pass has two events, thread 0 finds an event in slot 0 only.
LEMMA QuietHere ==
  ASSUME TypeOK, AloneInv, QuietInv, ~crowded, phase = "pass", NEW t \in Thread, todo[t] # {},
         Slot(Current(t)) # NoEvent
  PROVE  /\ t = 0 /\ Current(0) = 0 /\ eNum = 1 /\ todo[0] = 0 .. 1
         /\ Slot(Current(0)) = events[0]
  <1>1. /\ t = 0 /\ Current(0) \in 0 .. eNum /\ todo[0] = Current(0) .. eNum /\ eNum = 1
        /\ Current(0) < eNum => Slot(Current(0)) = events[Current(0)]
    BY AloneHere DEF Alone, QuietInv
  <1>2. Current(0) # 1
    BY <1>1, Constants DEF QuietInv, Slot
  <1>3. QED
    BY <1>1, <1>2

\* What clients do leaves the events that are still to be handled true.
LEMMA LiveClient ==
  ASSUME TypeOK, KernelInv, NEW c \in Client, ClientStep(c), NEW e, Live(e)
  PROVE  Live(e)'
  <1>0. SocksInv /\ KernelTypes
    BY KernelParts, TypeParts
  <1>1. sock' = sock /\ (line # <<>> => line' # <<>>)
    <2>1. sock' = sock /\ line' \in {line, Append(line, c)}
      BY DEF ClientStep, Connect, Leave, Ask
    <2>2. Append(line, c) # <<>>
      BY Lists
    <2>3. QED
      BY <2>1, <2>2
  <1>2. CASE e.fd = Master /\ line # <<>>
    BY <1>1, <1>2 DEF Live
  <1>3. ASSUME NEW d \in Client, sock[d] = e.fd, e.fd # NoFd, e.hup => peer[d] = "rst",
               e.hup \/ inbox[d] # <<>> \/ peer[d] = "fin"
        PROVE  Live(e)'
    <2>1. inbox[d] # <<>> => inbox'[d] # <<>>
      <3>1. inbox' = inbox \/ \E r \in Request : inbox' = [inbox EXCEPT ![c] = Append(@, r)]
        BY DEF ClientStep, Connect, Leave, Ask, Request
      <3>2. ASSUME NEW r \in Request, inbox' = [inbox EXCEPT ![c] = Append(@, r)]
            PROVE  inbox'[c] # <<>> /\ \A b \in Client : b # c => inbox'[b] = inbox[b]
        <4>1. inbox'[c] = Append(inbox[c], r) /\ inbox[c] \in Seq(Request)
          BY <1>0, <3>2 DEF KernelTypes
        <4>2. Len(inbox'[c]) = Len(inbox[c]) + 1 /\ Len(inbox[c]) \in Nat
          BY <4>1
        <4>3. inbox'[c] # <<>>
          BY <4>2
        <4>4. QED
          BY <1>0, <3>2, <4>3 DEF KernelTypes
      <3>3. QED
        BY <3>1, <3>2
    <2>2. peer'[d] = peer[d] \/ peer[d] \in {"away", "up"}
      BY <1>0 DEF ClientStep, Connect, Leave, Ask, KernelTypes
    <2>3. QED
      BY <1>1, <1>3, <2>1, <2>2 DEF Live
  <1>4. QED
    BY <1>2, <1>3 DEF Live

\* So does what a thread does for an event of another source.
LEMMA LiveThread ==
  ASSUME TypeOK, KernelInv, NEW t \in Thread, ThreadStep(t), NEW e, Live(e),
         e.fd # Slot(Current(t)).fd
  PROVE  Live(e)'
  <1>0. SocksInv /\ LineInv /\ KernelTypes
    BY KernelParts, TypeParts
  <1>1. CASE UNCHANGED kernelVars
    BY <1>1 DEF Live
  <1>2. CASE Accept(t)
    <2>1. PICK f : sock' = [sock EXCEPT ![Head(line)] = f]
      BY <1>2 DEF Accept
    <2>2. e.fd # Master /\ peer' = peer /\ inbox' = inbox /\ line # <<>>
      BY <1>2 DEF Accept, AtMaster
    <2>3. Head(line) = line[1] /\ 1 \in 1 .. Len(line)
      BY <2>2, Lists
    <2>4. sock[Head(line)] = NoFd
      BY <1>0, <2>3 DEF LineInv
    <2>5. \A d \in Client : sock[d] # NoFd => sock'[d] = sock[d]
      BY <1>0, <2>1, <2>4 DEF KernelTypes
    <2>6. QED
      BY <2>2, <2>5 DEF Live
  <1>3. CASE HangUp(t) \/ ReceiveEnd(t)
    <2> DEFINE f == Slot(Current(t)).fd
               c == Owner(f)
    <2>1. Close(f) /\ e.fd # f
      BY <1>3 DEF HangUp, ReceiveEnd
    <2>2. CASE c = Nobody
      BY <1>1, <2>1, <2>2 DEF Close
    <2>3. CASE c # Nobody
      <3>1. /\ line' = line
            /\ sock' = [sock EXCEPT ![c] = NoFd]
            /\ peer' = [peer EXCEPT ![c] = "over"]
            /\ inbox' = [inbox EXCEPT ![c] = <<>>]
        BY <2>1, <2>3 DEF Close
      <3>2. sock[c] = f
        BY <2>3, OwnerHas
      <3> HIDE DEF f, c
      <3>3. \A d \in Client : sock[d] = e.fd =>
              sock'[d] = sock[d] /\ peer'[d] = peer[d] /\ inbox'[d] = inbox[d]
        BY <1>0, <2>1, <3>1, <3>2 DEF KernelTypes
      <3>4. QED
        BY <3>1, <3>3 DEF Live
    <2>4. QED
      BY <2>2, <2>3
  <1>4. CASE Receive(t)
    <2> DEFINE c == Owner(Slot(Current(t)).fd)
    <2>1. /\ inbox' = [inbox EXCEPT ![c] = <<>>] /\ c # Nobody
          /\ line' = line /\ sock' = sock /\ peer' = peer
      BY <1>4 DEF Receive
    <2>2. sock[c] # e.fd
      BY <2>1, OwnerHas
    <2> HIDE DEF c
    <2>3. \A d \in Client : sock[d] = e.fd => inbox'[d] = inbox[d]
      BY <1>0, <2>1, <2>2 DEF KernelTypes
    <2>4. QED
      BY <2>1, <2>3 DEF Live
  <1>5. CASE SkipSlot(t) \/ AcceptFailed(t) \/ ReceiveNothing(t) \/ Parse(t) \/ Handle(t)
    BY <1>1, <1>5 DEF SkipSlot, AcceptFailed, ReceiveNothing, Parse, Handle
  <1>6. QED
    BY <1>2, <1>3, <1>4, <1>5 DEF ThreadStep

\* An epoll_wait that leaves one thread at work deals it all the iterations,
\* of true events that are of different sources.
LEMMA AloneWait ==
  ASSUME TypeOK, KernelInv, PhaseInv, NEW n \in 1 .. EventsSize,
         NEW at \in [1 .. n -> 1 .. Len(ready)], WaitWith(n, at), Alone'
  PROVE  AloneInv'
  <1>0. SocksInv /\ ReadyInv /\ KernelTypes /\ PassTypes /\ ThreadTypes
    BY KernelParts, TypeParts
  <1>1. /\ eNum' = n /\ n \in Nat /\ n > 0
        /\ todo' = [t \in Thread |-> Chunk(t, n)]
        /\ \A i \in 0 .. n - 1 : events'[i] = EventOf(ready[at[i + 1]])
        /\ UNCHANGED <<line, sock, peer, inbox, step>>
    BY <1>0, Constants DEF WaitWith, PassTypes
  <1>2. width = 1 \/ n = 1
    <2>1. width' = width /\ crowded' = (crowded \/ n > 1)
      BY DEF WaitWith
    <2>2. n > 1 \/ n = 1
      BY Constants
    <2>3. QED
      BY <2>1, <2>2, Zenon DEF Alone
  <1>3. todo'[0] = 0 .. n /\ \A t \in Thread : t # 0 => todo'[t] = {}
    BY <1>0, <1>1, <1>2, ChunkAll, Constants DEF PassTypes
  <1>4. step'[0] = "slot"
    BY <1>1, Constants DEF WaitWith, PhaseInv
  <1>5. \A i \in 1 .. n :
          /\ at[i] \in 1 .. Len(ready) /\ Readable(ready[at[i]])
          /\ ready[at[i]] # Master =>
               ready[at[i]] \in Client /\ sock[ready[at[i]]] # NoFd
    BY <1>0, Lists DEF WaitWith, FirstReadable, ReadyInv, Sources
  <1>6. ASSUME NEW i \in 0 .. n - 1 PROVE Live(events[i])'
    <2> DEFINE s == ready[at[i + 1]]
    <2>1. events'[i] = EventOf(s) /\ Readable(s) /\ (s # Master => s \in Client /\ sock[s] # NoFd)
      <3>1. i + 1 \in 1 .. n
        BY <1>1
      <3>2. events'[i] = EventOf(ready[at[i + 1]])
        BY <1>1
      <3>3. /\ Readable(ready[at[i + 1]])
            /\ ready[at[i + 1]] # Master =>
                 ready[at[i + 1]] \in Client /\ sock[ready[at[i + 1]]] # NoFd
        BY <1>1, <1>5, <3>1, Constants
      <3>4. QED
        BY <3>2, <3>3
    <2> HIDE DEF s
    <2>2. CASE s = Master
      BY <1>1, <2>1, <2>2 DEF EventOf, Readable, Live
    <2>3. CASE s # Master
      <3>1. /\ s \in Client /\ sock[s] # NoFd /\ peer[s] \in {"up", "fin", "rst"}
            /\ events'[i] = [fd |-> sock[s], hup |-> peer[s] = "rst"]
            /\ inbox[s] # <<>> \/ peer[s] # "up"
        BY <1>0, <2>1, <2>3 DEF EventOf, Readable, SocksInv
      <3>2. /\ events'[i].fd = sock'[s] /\ events'[i].fd # NoFd
            /\ inbox'[s] # <<>> \/ peer'[s] \in {"fin", "rst"}
        BY <1>1, <3>1
      <3>a. events'[i].hup = (peer'[s] = "rst")
        BY <1>1, <3>1
      <3>3. QED
        BY <3>1, <3>2, <3>a DEF Live
    <2>4. QED
      BY <2>2, <2>3
  <1>7. ASSUME NEW i \in 0 .. n, NEW j \in 0 .. n, i < j, j < n
        PROVE  events'[i].fd # events'[j].fd
    <2> DEFINE s == ready[at[i + 1]]
               u == ready[at[j + 1]]
    <2>1. at[i + 1] < at[j + 1]
      BY <1>7 DEF WaitWith, FirstReadable
    <2>2. s # u
      <3>1. i + 1 \in 1 .. n /\ j + 1 \in 1 .. n
        BY <1>1, <1>7
      <3>2. at[i + 1] \in 1 .. Len(ready) /\ at[j + 1] \in 1 .. Len(ready)
        BY <1>5, <3>1
      <3>3. QED
        BY <1>0, <2>1, <3>2, Lists DEF ReadyInv, Distinct
    <2>3. /\ events'[i] = EventOf(s) /\ events'[j] = EventOf(u)
          /\ s # Master => s \in Client /\ sock[s] # NoFd
          /\ u # Master => u \in Client /\ sock[u] # NoFd
      <3>1. i + 1 \in 1 .. n /\ j + 1 \in 1 .. n /\ i \in 0 .. n - 1 /\ j \in 0 .. n - 1
        BY <1>1, <1>7
      <3>2. events'[i] = EventOf(s) /\ events'[j] = EventOf(u)
        BY <1>1, <3>1
      <3>3. /\ s # Master => s \in Client /\ sock[s] # NoFd
            /\ u # Master => u \in Client /\ sock[u] # NoFd
        BY <1>1, <1>5, <3>1, Constants
      <3>4. QED
        BY <3>2, <3>3
    <2> HIDE DEF s, u
    <2>4. \A c \in Client : sock[c] # Master
      BY <1>0, Constants DEF KernelTypes
    <2>5. QED
      BY <1>0, <2>2, <2>3, <2>4 DEF EventOf, SocksInv
  <1>8. \A i \in todo'[0] : i < eNum' => Live(events[i])'
    <2> SUFFICES ASSUME NEW i \in todo'[0], i < eNum' PROVE Live(events[i])'
      OBVIOUS
    <2>1. i \in 0 .. n - 1
      BY <1>1, <1>3
    <2>2. QED
      BY <1>6, <2>1
  <1>9. ASSUME NEW i \in todo'[0], NEW j \in todo'[0], i < j, j < eNum'
        PROVE  events'[i].fd # events'[j].fd
    <2>1. i \in 0 .. n /\ j \in 0 .. n /\ j < n
      BY <1>1, <1>3, <1>9
    <2>2. QED
      BY <1>7, <1>9, <2>1
  <1>10. eNum' \in 1 .. EventsSize /\ \E k \in 0 .. EventsSize + 1 : todo'[0] = k .. eNum'
    BY <1>1, <1>3, Constants
  <1>11. QED
    BY <1>3, <1>4, <1>8, <1>9, <1>10 DEF AloneInv

\* What thread 0 has received is from the owner of the slot it handles.
LEMMA ReceivedStep ==
  ASSUME TypeOK, KernelInv, AloneInv, Alone, Receive(0), Current(0) < eNum
  PROVE  Received(Current(0))'
  <1>0. SocksInv /\ InboxInv /\ KernelTypes /\ ThreadTypes
    BY KernelParts, TypeParts
  <1> DEFINE f == Slot(Current(0)).fd
             c == Owner(f)
             r == Head(inbox[c])
  <1>1. /\ c # Nobody /\ inbox[c] # <<>> /\ buffer' = r
        /\ got' = [got EXCEPT ![0] = r] /\ sock' = sock
        /\ step' = [step EXCEPT ![0] = "parse"]
        /\ todo' = todo /\ events' = events
    BY DEF Receive
  <1>2. c \in Client /\ sock[c] = f
    BY <1>1, OwnerHas
  <1>3. r = inbox[c][1] /\ 1 \in 1 .. Len(inbox[c]) /\ r \in Request
    BY <1>1, <1>2, Lists
  <1>4. f = events[Current(0)].fd
    BY AloneHere, Constants DEF Receive, InPass
  <1> HIDE DEF c, r, f
  <1>5. r.from = c
    BY <1>0, <1>2, <1>3 DEF InboxInv
  <1>6. r # NoText
    <2>1. NoText.from = Nobody
      BY DEF NoText
    <2>2. QED
      BY <1>2, <1>5, <2>1, ClientAssumption
  <1>7. got'[0] = r /\ step'[0] = "parse" /\ Current(0)' = Current(0)
    BY <1>0, <1>1, Constants DEF ThreadTypes, Current
  <1>8. QED
    BY <1>1, <1>2, <1>4, <1>5, <1>6, <1>7 DEF Received

\* There is something to receive in every slot but the extra one.
LEMMA NothingIsExtra ==
  ASSUME TypeOK, KernelInv, AloneInv, Alone, ReceiveNothing(0)
  PROVE  Current(0) = eNum
  <1>1. /\ phase = "pass" /\ todo[0] # {} /\ step[0] = "slot"
        /\ Slot(Current(0)).fd \in Fd /\ ~Slot(Current(0)).hup
        /\ LET c == Owner(Slot(Current(0)).fd) IN
           c = Nobody \/ (inbox[c] = <<>> /\ peer[c] # "fin")
    BY DEF ReceiveNothing, InPass
  <1>2. SUFFICES ASSUME Current(0) # eNum PROVE FALSE
    OBVIOUS
  <1>3. /\ Current(0) < eNum /\ Current(0) \in todo[0]
        /\ Slot(Current(0)) = events[Current(0)]
    BY <1>1, <1>2, AloneHere, Constants
  <1>4. Live(Slot(Current(0)))
    BY <1>1, <1>3 DEF AloneInv
  <1>5. PICK c \in Client :
          /\ sock[c] = Slot(Current(0)).fd
          /\ inbox[c] # <<>> \/ peer[c] = "fin"
    BY <1>1, <1>4, Constants DEF Live
  <1>6. Owner(Slot(Current(0)).fd) = c
    <2>1. sock[c] # NoFd
      BY <1>1, <1>5, Constants
    <2>2. Owner(sock[c]) = c
      BY <2>1, OwnerIs
    <2>3. QED
      BY <1>5, <2>2
  <1>7. QED
    BY <1>1, <1>5, <1>6, ClientAssumption

\* An iteration of thread 0 leaves the others what they need.
LEMMA AloneThread ==
  ASSUME TypeOK, KernelInv, PhaseInv, AloneInv, Alone, ThreadStep(0)
  PROVE  AloneInv'
  <1>0. KernelTypes /\ ThreadTypes
    BY TypeParts
  <1>k. PICK k : k = Current(0)
    OBVIOUS
  <1>1. /\ phase = "pass" /\ todo[0] # {}
        /\ UNCHANGED <<phase, eNum, events>>
    BY DEF ThreadStep, SkipSlot, Accept, AcceptFailed, HangUp, ReceiveEnd, Receive,
           ReceiveNothing, Parse, Handle, AtMaster, InPass
  <1>2. /\ eNum \in 1 .. EventsSize /\ k \in 0 .. eNum /\ todo[0] = k .. eNum
        /\ k < eNum => Slot(k) = events[k]
    BY <1>1, <1>k, AloneHere, Constants
  <1>3. \A t \in Thread : t # 0 => todo[t] = {}
    BY <1>1 DEF AloneInv
  <1>4. ASSUME NEW i \in todo[0], i # k, i < eNum PROVE Live(events[i])'
    <2>1. k < i /\ k < eNum /\ k \in todo[0]
      BY <1>2, <1>4, Constants
    <2>2. events[i].fd # Slot(k).fd
      BY <1>1, <1>2, <1>4, <2>1 DEF AloneInv
    <2>3. PICK e : e = events[i]
      OBVIOUS
    <2>4. Live(events[i])
      BY <1>1, <1>4, <1>k DEF AloneInv
    <2>5. Live(e) /\ e.fd # Slot(Current(0)).fd
      BY <1>k, <2>2, <2>3, <2>4
    <2>6. Live(e)'
      BY <2>5, LiveThread, Constants
    <2>7. events'[i] = e
      BY <1>1, <2>3
    <2>8. QED
      BY <2>6, <2>7 DEF Live
  <1>5. \A i, j \in todo[0] : i < j /\ j < eNum => events'[i].fd # events'[j].fd
    BY <1>1 DEF AloneInv
  <1>6. CASE EndIteration(0)
    <2>1. /\ todo'[0] = todo[0] \ {k} /\ step'[0] = "slot"
          /\ \A t \in Thread : t # 0 => todo'[t] = {}
      BY <1>0, <1>3, <1>6, <1>k, Constants DEF EndIteration, ThreadTypes
    <2>2. todo'[0] = k + 1 .. eNum /\ k + 1 \in 0 .. EventsSize + 1
      BY <1>2, <2>1, Constants
    <2>3. QED
      BY <1>1, <1>2, <1>4, <1>5, <2>1, <2>2, Constants DEF AloneInv
  <1>7. CASE Receive(0) \/ ReceiveNothing(0) \/ Parse(0)
    <2>1. todo' = todo /\ Current(0)' = k
      BY <1>7, <1>k DEF Receive, ReceiveNothing, Parse, Current
    <2>2. k < eNum => Received(k)'
      <3>1. CASE Receive(0)
        <4>1. k < eNum => Received(Current(0))'
          BY <3>1, <1>k, ReceivedStep
        <4>2. QED
          BY <2>1, <4>1 DEF Received
      <3>2. CASE ReceiveNothing(0)
        BY <1>2, <1>k, <3>2, NothingIsExtra, Constants
      <3>3. CASE Parse(0)
        <4> SUFFICES ASSUME k < eNum PROVE Received(k)'
          OBVIOUS
        <4>1. step[0] = "parse" /\ step'[0] = "handle"
          BY <1>0, <3>3, Constants DEF Parse, InPass, ThreadTypes
        <4>2. Received(k)
          BY <1>1, <1>k, <4>1 DEF AloneInv
        <4>3. UNCHANGED <<sock, events, got>>
          BY <3>3 DEF Parse
        <4>4. got[0] # NoText /\ sock[got[0].from] = events[k].fd /\ buffer = got[0]
          BY <4>1, <4>2 DEF Received
        <4>5. fields' = [cmd |-> buffer.cmd, from |-> buffer.from,
                         name |-> IF buffer.named THEN buffer.from ELSE fields.name]
          BY <3>3, <4>4 DEF Parse
        <4>6. QED
          BY <4>1, <4>3, <4>4, <4>5 DEF Received
      <3>4. QED
        BY <1>7, <3>1, <3>2, <3>3
    <2>3. Current(0)' < eNum' => Received(Current(0))'
      BY <1>1, <2>1, <2>2 DEF Received
    <2>4. \A i \in todo'[0] :
            i < eNum' /\ (step'[0] = "slot" \/ i # Current(0)') => Live(events[i])'
      <3>1. step'[0] # "slot"
        BY <1>0, <1>7, Constants DEF Receive, ReceiveNothing, Parse, ThreadTypes
      <3>2. QED
        BY <1>1, <1>4, <2>1, <3>1
    <2>5. QED
      BY <1>1, <1>2, <1>3, <1>5, <2>1, <2>3, <2>4, Constants DEF AloneInv
  <1>8. QED
    BY <1>6, <1>7 DEF ThreadStep, SkipSlot, Accept, AcceptFailed, HangUp, ReceiveEnd, Handle

LEMMA AloneStep ==
  ASSUME TypeOK, KernelInv, PhaseInv, AloneInv, [Next]_vars
  PROVE  AloneInv'
  <1>1. SUFFICES ASSUME Alone', phase' = "pass" PROVE AloneInv'
    BY DEF AloneInv
  <1>2. Alone
    <2>1. width' = width /\ (crowded => crowded')
      <3>1. CASE Wait
        <4>1. PICK n \in 1 .. EventsSize : crowded' = (crowded \/ n > 1) /\ width' = width
          BY <3>1 DEF Wait
        <4>2. QED
          BY <4>1
      <3>2. ASSUME NEW t \in Thread, ThreadStep(t) PROVE UNCHANGED <<width, crowded>>
        BY <3>2 DEF ThreadStep, SkipSlot, Accept, AcceptFailed, HangUp, ReceiveEnd, Receive,
                    ReceiveNothing, Parse, Handle
      <3>3. ASSUME NEW c \in Client, ClientStep(c) PROVE UNCHANGED <<width, crowded>>
        BY <3>3 DEF ClientStep, Connect, Leave, Ask
      <3>4. CASE Barrier \/ SendSlot \/ BrokenPipe \/ OutOfBounds \/ \E t, u \in Thread : Race(t, u)
        BY <3>4 DEF Barrier, SendSlot, BrokenPipe, OutOfBounds, End, Race
      <3>5. QED
        BY <3>1, <3>2, <3>3, <3>4 DEF Next
    <2>2. QED
      BY <1>1, <2>1 DEF Alone
  <1>3. CASE UNCHANGED vars
    BY <1>3 DEF AloneInv, Alone, Live, Received, Current
  <1>4. CASE Wait
    <2>0. PICK n \in 1 .. EventsSize : \E at \in [1 .. n -> 1 .. Len(ready)] : WaitWith(n, at)
      BY <1>4 DEF Wait, WaitWith
    <2> PICK at \in [1 .. n -> 1 .. Len(ready)] : WaitWith(n, at)
      BY <2>0
    <2>1. QED
      BY <1>1, AloneWait
  <1>5. CASE Barrier \/ SendSlot \/ BrokenPipe \/ OutOfBounds \/ \E t, u \in Thread : Race(t, u)
    <2>1. phase' # "pass"
      BY <1>5 DEF Barrier, SendSlot, NextSlot, BrokenPipe, OutOfBounds, End, Race
    <2>2. QED
      BY <1>1, <2>1
  <1>6. ASSUME NEW t \in Thread, ThreadStep(t) PROVE AloneInv'
    <2>1. phase = "pass" /\ todo[t] # {}
      BY <1>6 DEF ThreadStep, SkipSlot, Accept, AcceptFailed, HangUp, ReceiveEnd, Receive,
             ReceiveNothing, Parse, Handle, AtMaster, InPass
    <2>2. t = 0
      BY <1>2, <2>1 DEF AloneInv
    <2>3. QED
      BY <1>2, <1>6, <2>2, AloneThread
  <1>7. ASSUME NEW c \in Client, ClientStep(c) PROVE AloneInv'
    <2>1. UNCHANGED <<sock, width, phase, passVars, threadVars, sharedVars, crowded>>
      BY <1>7 DEF ClientStep, Connect, Leave, Ask
    <2>2. ASSUME NEW i \in todo[0], Live(events[i]) PROVE Live(events[i])'
      <3>1. PICK e : e = events[i]
        OBVIOUS
      <3>2. Live(e)'
        BY <1>7, <2>2, <3>1, LiveClient
      <3>3. events'[i] = e
        BY <2>1, <3>1
      <3>4. QED
        BY <3>2, <3>3 DEF Live
    <2>3. \A i : Received(i)' <=> Received(i)
      BY <2>1 DEF Received
    <2>4. Current(0)' = Current(0)
      BY <2>1 DEF Current
    <2>5. QED
      BY <1>1, <1>2, <2>1, <2>2, <2>3, <2>4 DEF AloneInv
  <1>8. QED
    BY <1>3, <1>4, <1>5, <1>6, <1>7 DEF Next

\* A request that thread 0 handles in a slot that was filled is its sender's.
LEMMA OwnHandled ==
  ASSUME TypeOK, KernelInv, PhaseInv, AloneInv, Alone, Handle(0), Current(0) < eNum
  PROVE  /\ Own(0, Slot(Current(0)).fd) /\ got[0].from \in Client
         /\ sock[got[0].from] = Slot(Current(0)).fd
  <1>0. SocksInv /\ ThreadTypes /\ KernelTypes
    BY KernelParts, TypeParts
  <1>1. phase = "pass" /\ todo[0] # {} /\ step[0] = "handle"
    BY DEF Handle, InPass
  <1>2. Received(Current(0)) /\ Slot(Current(0)) = events[Current(0)]
    BY <1>1, AloneHere, Constants DEF AloneInv
  <1>3. got[0] \in Request /\ got[0].from \in Client
    BY <1>0, <1>2, Constants DEF Received, ThreadTypes, Request
  <1>4. sock[got[0].from] = Slot(Current(0)).fd
    BY <1>2 DEF Received
  <1>5. Owner(sock[got[0].from]) = got[0].from
    <2>1. sock[got[0].from] # NoFd
      BY <1>1, <1>4, Constants DEF PhaseInv
    <2>2. QED
      BY <1>3, <2>1, OwnerIs
  <1>6. QED
    BY <1>1, <1>2, <1>3, <1>4, <1>5 DEF Received, Own

-----------------------------------------------------------------------------
(* Until a pass has two events *)

LEMMA InitQuiet == Init => AloneInv /\ QuietInv /\ HandledForSender
  <1> SUFFICES ASSUME Init PROVE AloneInv /\ QuietInv /\ HandledForSender
    OBVIOUS
  <1>1. phase = "wait" /\ did.own /\ surplus = {}
    BY DEF Init
  <1>2. \A i \in 1 .. EventsSize - 1 : events[i] = NoEvent
    <2>1. events = [i \in 0 .. EventsSize - 1 |-> NoEvent]
      BY DEF Init
    <2>2. \A i \in 1 .. EventsSize - 1 : i \in 0 .. EventsSize - 1
      BY Constants
    <2>3. QED
      BY <2>1, <2>2
  <1>3. (\A i \in Slots : out[i] = NoReply) /\ \A c \in Client : inbox[c] = <<>>
    BY DEF Init
  <1>4. QED
    BY <1>1, <1>2, <1>3 DEF AloneInv, QuietInv, HandledForSender

\* A thread that finds an event finds it in slot 0, and has not replied yet.
LEMMA QuietThread ==
  ASSUME TypeOK, KernelInv, PhaseInv, AloneInv, AloneInv', QuietInv, ~crowded,
         NEW t \in Thread, ThreadStep(t)
  PROVE  QuietInv'
  <1>0. KernelTypes /\ ThreadTypes /\ ValueTypes /\ SocksInv
    BY TypeParts, KernelParts
  <1>1. /\ phase = "pass" /\ todo[t] # {} /\ eNum = 1
        /\ UNCHANGED <<phase, eNum, events, crowded, waiting, surplus, width>>
    BY DEF ThreadStep, SkipSlot, Accept, AcceptFailed, HangUp, ReceiveEnd, Receive,
           ReceiveNothing, Parse, Handle, AtMaster, InPass, QuietInv
  <1>2. t = 0 /\ todo[0] # {}
    BY <1>1, AloneHere DEF Alone
  <1>3. \A c \in Client : peer'[c] \in {"away", "up"} =>
          peer[c] = peer'[c] /\ (inbox[c] = <<>> => inbox'[c] = <<>>)
    <2>1. CASE UNCHANGED <<peer, inbox>>
      BY <2>1
    <2>2. CASE HangUp(t) \/ ReceiveEnd(t)
      BY <1>0, <2>2, OwnerHas DEF HangUp, ReceiveEnd, Close, KernelTypes
    <2>3. CASE Receive(t)
      BY <1>0, <2>3, OwnerHas DEF Receive, KernelTypes
    <2>4. QED
      BY <2>1, <2>2, <2>3 DEF ThreadStep, SkipSlot, Accept, AcceptFailed, ReceiveNothing,
           Parse, Handle
  <1>4. \A c \in Client : peer'[c] \in {"away", "up"} /\ inbox'[c] # <<>> => waiting'[c]
    BY <1>1, <1>3 DEF QuietInv
  <1>5. CASE SkipSlot(t)
    <2>1. UNCHANGED <<kernelVars, out, sent>> /\ step'[0] = "slot" /\ todo'[0] \subseteq todo[0]
      BY <1>0, <1>2, <1>5, Constants DEF SkipSlot, EndIteration, ThreadTypes
    <2>2. QED
      BY <1>1, <1>4, <2>1 DEF QuietInv, Owed
  <1>6. CASE ~SkipSlot(t)
    <2>1. Slot(Current(t)) # NoEvent
      <3>1. Slot(Current(t)).fd \in Fd \cup {Master}
        BY <1>6 DEF ThreadStep, Accept, AcceptFailed, AtMaster, HangUp, ReceiveEnd, Receive,
             ReceiveNothing, Parse, Handle, InPass, PhaseInv
      <3>2. NoEvent.fd \notin Fd \cup {Master}
        BY Constants DEF NoEvent
      <3>3. QED
        BY <3>1, <3>2
    <2>2. /\ Current(0) = 0 /\ todo[0] = 0 .. 1 /\ Slot(Current(0)) = events[0]
      BY <1>1, <1>2, <2>1, QuietHere
    <2>3. out[0] = NoReply
      BY <1>1, <2>2 DEF QuietInv
    <2>4. CASE EndIteration(t) /\ out' = out
      <3>1. step'[0] = "slot" /\ 0 \notin todo'[0]
        BY <1>0, <1>2, <2>2, <2>4, Constants DEF EndIteration, ThreadTypes
      <3>2. QED
        BY <1>1, <1>4, <2>3, <2>4, <3>1 DEF QuietInv, Owed
    <2>5. CASE Handle(t)
      <3>1. step'[0] = "slot" /\ 0 \notin todo'[0]
        BY <1>0, <1>2, <2>2, <2>5, Constants DEF Handle, EndIteration, ThreadTypes
      <3>2. /\ UNCHANGED kernelVars
            /\ out' = out \/ \E n : out' = [out EXCEPT ![0] = [fd |-> events[0].fd, messages |-> n]]
        BY <1>2, <2>2, <2>5 DEF Handle
      <3>3. \A i \in Slots : i # 0 => out'[i] = NoReply
        <4>1. \A i \in Slots : i # 0 => out[i] = NoReply
          BY DEF QuietInv
        <4>2. \A i \in Slots : i # 0 => out'[i] = out[i]
          BY <1>0, <3>2 DEF ValueTypes
        <4>3. QED
          BY <4>1, <4>2
      <3>4. Owed(out[0])'
        <4>1. got[0].from \in Client /\ sock[got[0].from] = events[0].fd
          BY <1>1, <1>2, <2>2, <2>5, OwnHandled DEF Alone
        <4>2. peer[got[0].from] = "up" => waiting[got[0].from] /\ inbox[got[0].from] = <<>>
          BY <1>1, <1>2, <2>5 DEF QuietInv, Handle, InPass
        <4>3. events[0].fd # NoFd
          BY <1>2, <2>2, <2>5, Constants DEF PhaseInv, Handle, InPass
        <4>4. out'[0] = NoReply \/ out'[0].fd = events[0].fd
          <5>1. out \in [Slots -> [fd : Fd, messages : {1, 2}] \cup {NoReply}]
            BY <1>0 DEF ValueTypes
          <5>2. 0 \in Slots
            BY Constants
          <5>3. QED
            BY <2>3, <3>2, <5>1, <5>2
        <4>5. \A c \in Client : sock[c] = events[0].fd => c = got[0].from
          BY <1>0, <4>1, <4>3 DEF SocksInv
        <4>6. QED
          BY <1>1, <3>2, <4>2, <4>4, <4>5 DEF Owed
      <3>5. QED
        BY <1>1, <1>4, <3>1, <3>3, <3>4 DEF QuietInv
    <2>6. CASE Receive(t)
      <3>1. /\ UNCHANGED <<out, todo, sock, peer>> /\ Current(0)' = Current(0)
            /\ step'[0] = "parse"
        BY <1>0, <1>2, <2>6, Constants DEF Receive, Current, ThreadTypes
      <3> DEFINE c == Owner(events[0].fd)
      <3>2. c \in Client /\ inbox'[c] = <<>> /\ inbox[c] # <<>> /\ sock[c] = events[0].fd /\ sock[c] # NoFd
        BY <1>0, <1>2, <2>2, <2>6, OwnerHas DEF Receive, KernelTypes
      <3>3. Received(0)'
        BY <1>1, <2>2, <3>1 DEF AloneInv, Alone
      <3>4. got'[0].from = c
        <4>1. got'[0].from \in Client
          <5>1. Received(0)' => got'[0] # NoText
            BY DEF Received
          <5>2. got'[0] \in Request
            BY <1>0, <1>2, <2>2, <2>6, <3>2, Lists, Constants DEF Receive, ThreadTypes
          <5>3. QED
            BY <5>2 DEF Request
        <4>2. sock[got'[0].from] = events[0].fd
          BY <1>1, <3>1, <3>3 DEF Received
        <4>3. QED
          BY <1>0, <3>2, <4>1, <4>2 DEF SocksInv
      <3>5. peer'[c] = "up" => waiting'[c] /\ inbox'[c] = <<>>
        BY <1>1, <3>1, <3>2 DEF QuietInv
      <3> HIDE DEF c
      <3>6. QED
        BY <1>1, <1>4, <2>2, <2>3, <3>1, <3>4, <3>5 DEF QuietInv, Owed
    <2>7. CASE ReceiveNothing(t)
      BY <1>1, <1>2, <2>2, <2>7, NothingIsExtra DEF Alone
    <2>8. CASE Parse(t)
      <3>1. /\ UNCHANGED <<out, todo, kernelVars, got>> /\ Current(0)' = Current(0)
            /\ step[0] # "slot"
        BY <1>2, <2>8 DEF Parse, Current, InPass
      <3>2. QED
        BY <1>1, <1>4, <2>2, <2>3, <3>1 DEF QuietInv, Owed
    <2>9. QED
      BY <1>6, <2>4, <2>5, <2>6, <2>7, <2>8 DEF ThreadStep, Accept, AcceptFailed, HangUp, ReceiveEnd
  <1>7. QED
    BY <1>5, <1>6

\* The replies go to clients that wait for them.
LEMMA QuietSend ==
  ASSUME TypeOK, KernelInv, QuietInv, ~crowded, SendSlot
  PROVE  QuietInv'
  <1>0. KernelTypes /\ ClientTypes /\ ValueTypes /\ PassTypes
    BY TypeParts
  <1>1. /\ phase = "send" /\ eNum = 1 /\ UNCHANGED <<eNum, events, crowded>>
        /\ sent # 0 => out[sent] = NoReply
    BY <1>0 DEF SendSlot, QuietInv, PassTypes
  <1>2. phase' = "wait" \/ (phase' = "send" /\ sent' # 0 /\ out' = out)
    BY <1>0, <1>1, Constants DEF SendSlot, NextSlot, PassTypes
  <1>3. \A i \in Slots : i # 0 => out'[i] = NoReply
    BY DEF SendSlot, NextSlot, QuietInv
  <1> DEFINE c == Owner(out[sent].fd)
  <1>4. c \in Client /\ peer[c] = "up" => waiting[c] /\ inbox[c] = <<>>
    <2> SUFFICES ASSUME c \in Client, peer[c] = "up" PROVE waiting[c] /\ inbox[c] = <<>>
      OBVIOUS
    <2>1. sock[c] = out[sent].fd /\ out[sent].fd # NoFd
      BY OwnerHas, ClientAssumption
    <2>2. out[sent] # NoReply
      BY <2>1 DEF NoReply
    <2>3. sent = 0
      BY <1>1, <2>2
    <2>4. QED
      BY <1>1, <2>1, <2>2, <2>3 DEF QuietInv, Owed
  <1>5. CASE UNCHANGED <<kernelVars, clientVars>>
    BY <1>1, <1>2, <1>3, <1>5 DEF QuietInv
  <1>6. CASE c \in Client /\ peer[c] = "up" /\ Deliver(c)
    <2>1. waiting' = [waiting EXCEPT ![c] = FALSE] /\ surplus' = surplus /\ UNCHANGED kernelVars
      BY <1>4, <1>6 DEF Deliver
    <2> HIDE DEF c
    <2>2. \A d \in Client : d # c => waiting'[d] = waiting[d]
      BY <1>0, <2>1 DEF ClientTypes
    <2>3. QED
      BY <1>1, <1>2, <1>3, <1>4, <1>6, <2>1, <2>2 DEF QuietInv
  <1>7. CASE c \in Client /\ DeliverLate(c)
    <2>1. /\ waiting' = [waiting EXCEPT ![c] = FALSE] /\ peer' = [peer EXCEPT ![c] = "rst"]
          /\ UNCHANGED <<surplus, inbox>>
      BY <1>7 DEF DeliverLate
    <2> HIDE DEF c
    <2>2. peer'[c] = "rst" /\ \A d \in Client : d # c => waiting'[d] = waiting[d] /\ peer'[d] = peer[d]
      BY <1>0, <1>7, <2>1 DEF ClientTypes, KernelTypes
    <2>3. QED
      BY <1>1, <1>2, <1>3, <2>1, <2>2 DEF QuietInv
  <1>8. QED
    BY <1>5, <1>6, <1>7, OwnerHas DEF SendSlot

\* A client that asks waits, and one that waits does not ask.
LEMMA QuietClient ==
  ASSUME TypeOK, KernelInv, PhaseInv, AloneInv, QuietInv, ~crowded,
         NEW c \in Client, ClientStep(c)
  PROVE  QuietInv'
  <1>0. KernelTypes /\ ThreadTypes /\ ClientTypes /\ ValueTypes /\ SocksInv
    BY TypeParts, KernelParts
  <1>1. UNCHANGED <<sock, surplus, phase, passVars, threadVars, sendVars, crowded>>
    BY DEF ClientStep, Connect, Leave, Ask
  <1>2. \A d \in Client :
          \/ waiting'[d] = waiting[d] /\ inbox'[d] = inbox[d] /\ peer'[d] = peer[d]
          \/ peer[d] = "away" /\ peer'[d] = "up" /\ waiting'[d] = waiting[d] /\ inbox'[d] = inbox[d]
          \/ peer[d] = "up" /\ peer'[d] \notin {"away", "up"}
          \/ peer[d] = "up" /\ peer'[d] = "up" /\ ~waiting[d] /\ waiting'[d]
    BY <1>0 DEF ClientStep, Connect, Leave, Ask, KernelTypes, ClientTypes
  <1>3. \A d \in Client : peer'[d] \in {"away", "up"} /\ inbox'[d] # <<>> => waiting'[d]
    BY <1>2 DEF QuietInv
  <1>4. \A d \in Client :
          sock[d] # NoFd /\ (peer[d] = "up" => waiting[d] /\ inbox[d] = <<>>)
            => (peer'[d] = "up" => waiting'[d] /\ inbox'[d] = <<>>)
    BY <1>0, <1>2 DEF SocksInv
  <1>5. ASSUME Owed(out[0]) PROVE Owed(out[0])'
    <2>1. out[0] = NoReply \/ out[0].fd \in Fd
      <3>1. 0 \in Slots
        BY Constants
      <3>2. out[0] \in [fd : Fd, messages : {1, 2}] \cup {NoReply}
        BY <1>0, <3>1 DEF ValueTypes
      <3>3. QED
        BY <3>2
    <2>2. CASE out[0] = NoReply
      BY <1>1, <2>2 DEF Owed
    <2>3. CASE out[0].fd \in Fd
      <3>1. out[0] # NoReply /\ out[0].fd # NoFd
        BY <2>3, Constants DEF NoReply
      <3>2. QED
        BY <1>1, <1>4, <1>5, <3>1 DEF Owed
    <2>4. QED
      BY <2>1, <2>2, <2>3
  <1>6. Current(0)' = Current(0)
    BY <1>1 DEF Current
  <1>7. ASSUME phase = "pass", step[0] # "slot"
        PROVE  peer'[got'[0].from] = "up" => waiting'[got'[0].from] /\ inbox'[got'[0].from] = <<>>
    <2>1. todo[0] # {} /\ Current(0) = 0 /\ eNum = 1
      BY <1>7, Constants DEF PhaseInv, QuietInv
    <2>2. Received(0)
      BY <1>7, <2>1 DEF AloneInv, Alone
    <2>3. got[0] \in Request /\ got[0].from \in Client
      BY <1>0, <2>2, Constants DEF Received, ThreadTypes, Request
    <2>4. sock[got[0].from] # NoFd
      BY <1>7, <2>1, <2>2, Constants DEF Received, PhaseInv, Slot
    <2>5. QED
      BY <1>1, <1>4, <1>7, <2>3, <2>4 DEF QuietInv
  <1>8. QED
    BY <1>1, <1>3, <1>5, <1>6, <1>7 DEF QuietInv

LEMMA QuietStep ==
  ASSUME TypeOK, KernelInv, PhaseInv, AloneInv, AloneInv', QuietInv, [Next]_vars
  PROVE  QuietInv'
  <1>0. PassTypes /\ ValueTypes
    BY TypeParts
  <1>1. SUFFICES ASSUME ~crowded' PROVE QuietInv'
    BY DEF QuietInv
  <1>2. CASE Wait
    <2>0. PICK n \in 1 .. EventsSize : \E at \in [1 .. n -> 1 .. Len(ready)] : WaitWith(n, at)
      BY <1>2 DEF Wait, WaitWith
    <2> PICK at \in [1 .. n -> 1 .. Len(ready)] : WaitWith(n, at)
      BY <2>0
    <2>1. crowded' = (crowded \/ n > 1)
      BY DEF WaitWith
    <2>2. n > 1 \/ n = 1
      BY Constants
    <2>3. ~crowded /\ n = 1
      BY <1>1, <2>1, <2>2, Zenon
    <2>4. /\ eNum' = 1 /\ phase = "wait" /\ phase' = "pass"
          /\ UNCHANGED <<sock, peer, inbox, waiting, surplus, step, out>>
          /\ \A i \in 1 .. EventsSize - 1 : events'[i] = events[i]
      BY <1>0, <2>3, Constants DEF WaitWith, PassTypes
    <2>5. step[0] = "slot" /\ (\A i \in Slots : out[i] = NoReply) /\ 0 \in Slots
      BY <2>4, Constants DEF PhaseInv
    <2>6. QED
      BY <2>3, <2>4, <2>5 DEF QuietInv, Owed
  <1>3. ASSUME crowded' = crowded PROVE ~crowded
    BY <1>1, <1>3
  <1>4. CASE Barrier
    <2>1. ~crowded /\ phase = "pass" /\ phase' = "send" /\ UNCHANGED <<kernelVars, clientVars, passVars, out>>
      BY <1>3, <1>4 DEF Barrier
    <2>2. QED
      BY <2>1 DEF QuietInv, Owed
  <1>5. CASE SendSlot
    BY <1>3, <1>5, QuietSend DEF SendSlot
  <1>6. CASE BrokenPipe \/ OutOfBounds \/ \E t, u \in Thread : Race(t, u)
    <2>1. crowded' = crowded /\ phase' = "ended" /\ UNCHANGED <<kernelVars, clientVars, passVars, out>>
      BY <1>6 DEF BrokenPipe, OutOfBounds, End, Race
    <2>2. QED
      BY <1>3, <2>1 DEF QuietInv
  <1>7. ASSUME NEW t \in Thread, ThreadStep(t) PROVE QuietInv'
    <2>1. crowded' = crowded
      BY <1>7 DEF ThreadStep, SkipSlot, Accept, AcceptFailed, HangUp, ReceiveEnd, Receive,
                  ReceiveNothing, Parse, Handle
    <2>2. QED
      BY <1>3, <1>7, <2>1, QuietThread
  <1>8. ASSUME NEW c \in Client, ClientStep(c) PROVE QuietInv'
    <2>1. crowded' = crowded
      BY <1>8 DEF ClientStep, Connect, Leave, Ask
    <2>2. QED
      BY <1>3, <1>8, <2>1, QuietClient
  <1>9. CASE UNCHANGED vars
    BY <1>3, <1>9 DEF QuietInv, Owed, Current
  <1>10. QED
    BY <1>2, <1>4, <1>5, <1>6, <1>7, <1>8, <1>9 DEF Next

LEMMA HandledStep ==
  ASSUME TypeOK, KernelInv, PhaseInv, AloneInv, QuietInv, HandledForSender, [Next]_vars
  PROVE  HandledForSender'
  <1>0. PassTypes /\ ValueTypes
    BY TypeParts
  <1>1. CASE Wait
    <2>1. did'.own
      BY <1>1 DEF Wait
    <2>2. QED
      BY <2>1 DEF HandledForSender
  <1>2. ASSUME NEW t \in Thread, Handle(t) PROVE HandledForSender'
    <2>1. /\ phase = "pass" /\ todo[t] # {} /\ step[t] = "handle"
          /\ did' = [own |-> Own(t, Slot(Current(t)).fd), extra |-> Current(t) = eNum]
          /\ UNCHANGED <<crowded, width>>
      BY <1>2 DEF Handle, InPass
    <2>2. CASE ~Alone
      <3>1. crowded /\ width > 1
        BY <1>0, <2>2, WidthAssumption DEF Alone, PassTypes, Widths
      <3>2. QED
        BY <2>1, <3>1 DEF HandledForSender
    <2>3. CASE Alone
      <3>1. t = 0 /\ Current(0) \in 0 .. eNum /\ eNum \in 1 .. EventsSize
        BY <2>1, <2>3, AloneHere
      <3>2. CASE Current(0) = eNum
        <4>1. crowded
          <5> SUFFICES ASSUME ~crowded PROVE FALSE
            OBVIOUS
          <5>1. eNum = 1 /\ Current(0) = 0
            BY <2>1, <3>1 DEF QuietInv
          <5>2. QED
            BY <3>2, <5>1
        <4>2. did'.extra
          BY <2>1, <3>1, <3>2
        <4>3. QED
          BY <2>1, <4>1, <4>2 DEF HandledForSender
      <3>3. CASE Current(0) < eNum
        <4>1. Own(0, Slot(Current(0)).fd)
          BY <1>2, <2>3, <3>1, <3>3, OwnHandled
        <4>2. did'.own
          BY <2>1, <3>1, <4>1
        <4>3. QED
          BY <4>2 DEF HandledForSender
      <3>4. QED
        BY <3>1, <3>2, <3>3, Constants
    <2>4. QED
      BY <2>2, <2>3
  <1>3. CASE UNCHANGED <<did, crowded, width>>
    BY <1>3 DEF HandledForSender
  <1>4. ASSUME NEW t \in Thread, ThreadStep(t) PROVE HandledForSender'
    BY <1>2, <1>3, <1>4 DEF ThreadStep, SkipSlot, Accept, AcceptFailed, HangUp, ReceiveEnd,
                            Receive, ReceiveNothing, Parse
  <1>5. ASSUME NEW c \in Client, ClientStep(c) PROVE HandledForSender'
    BY <1>3, <1>5 DEF ClientStep, Connect, Leave, Ask
  <1>6. CASE Barrier \/ SendSlot \/ BrokenPipe \/ OutOfBounds \/ \E t, u \in Thread : Race(t, u)
    BY <1>3, <1>6 DEF Barrier, SendSlot, BrokenPipe, OutOfBounds, End, Race
  <1>7. QED
    BY <1>1, <1>3, <1>4, <1>5, <1>6 DEF Next

-----------------------------------------------------------------------------
(* Theorems *)

\* The invariant the theorems below rest on holds in every state Server::loop
\* reaches, in a build with one thread and in one with several.
THEOREM LoopInvariant == Spec => []LoopInv
  <1>1. Init => LoopInv
    BY InitTypes, InitKernel, InitPhase, InitQuiet DEF LoopInv
  <1>2. LoopInv /\ [Next]_vars => LoopInv'
    <2> SUFFICES ASSUME LoopInv, [Next]_vars PROVE LoopInv'
      OBVIOUS
    <2>1. /\ TypeOK /\ KernelInv /\ PhaseInv /\ AloneInv /\ QuietInv /\ HandledForSender
      BY DEF LoopInv
    <2>2. TypeOK' /\ KernelInv' /\ PhaseInv' /\ AloneInv' /\ HandledForSender'
      BY <2>1, TypeStep, KernelStep, PhaseStep, AloneStep, HandledStep
    <2>3. QuietInv'
      BY <2>1, <2>2, QuietStep
    <2>4. QED
      BY <2>2, <2>3 DEF LoopInv
  <1>3. QED
    BY <1>1, <1>2, PTL DEF Spec

\* Every variable of the loop keeps its type, however many clients, threads and
\* descriptors there are: no reply is queued for the listening socket, and no
\* thread is dealt an iteration that does not exist.
THEOREM LoopTypes == Spec => []TypeOK
  <1>1. LoopInv => TypeOK
    BY DEF LoopInv
  <1>2. QED
    BY <1>1, LoopInvariant, PTL

\* recvInputFromExisting and the handlers: while one thread works, each request
\* is handled for the client that sent it, except in the extra slot of a pass
\* after a crowded one.
THEOREM RequestsStayApart == Spec => []HandledForSender
  <1>1. LoopInv => HandledForSender
    BY DEF LoopInv
  <1>2. QED
    BY <1>1, LoopInvariant, PTL

\* sendMsgToExisting: no client gets a reply it does not wait for before a pass
\* has had two events.
THEOREM NoReplyTooMany == Spec => []SurplusOnlyAfterCrowd
  <1>1. LoopInv => SurplusOnlyAfterCrowd
    BY DEF LoopInv, QuietInv, SurplusOnlyAfterCrowd
  <1>2. QED
    BY <1>1, LoopInvariant, PTL

\* handleNewConnection: accept() finds somebody in the line before a pass has
\* had two events.
THEOREM AcceptDoesNotBlock == Spec => []StuckOnlyAfterCrowd
  <1>1. LoopInv => StuckOnlyAfterCrowd
    <2> SUFFICES ASSUME LoopInv, ~crowded, NEW t \in Thread, AtMaster(t), line = <<>>
                 PROVE  FALSE
      BY DEF StuckOnlyAfterCrowd, Stuck
    <2>1. TypeOK /\ KernelInv /\ AloneInv /\ QuietInv
      BY DEF LoopInv
    <2>2. phase = "pass" /\ todo[t] # {} /\ step[t] = "slot" /\ Slot(Current(t)).fd = Master
      BY DEF AtMaster, InPass
    <2>3. Slot(Current(t)) # NoEvent
      BY <2>2, Constants DEF NoEvent
    <2>4. t = 0 /\ Current(0) = 0 /\ eNum = 1 /\ todo[0] = 0 .. 1 /\ Slot(Current(0)) = events[0]
      BY <2>1, <2>2, <2>3, QuietHere
    <2>5. Live(events[0])
      BY <2>1, <2>2, <2>4 DEF AloneInv, Alone
    <2>6. \A c \in Client : sock[c] # Master
      BY <2>1, Constants, TypeParts DEF KernelTypes
    <2>7. QED
      BY <2>2, <2>4, <2>5, <2>6 DEF Live
  <1>2. QED
    BY <1>1, LoopInvariant, PTL

\* handleNewConnection and recvInputFromExisting close the connection of a
\* client that is there only after a pass with two events.
THEOREM OnlyTheGoneAreClosed == Spec => ClosesOnlyTheGone
  <1>1. ASSUME LoopInv, [Next]_vars
        PROVE  [\A c \in Client : peer[c] = "up" /\ peer'[c] = "over" => crowded]_vars
    <2> SUFFICES ASSUME ~crowded, Next, NEW c \in Client, peer[c] = "up", peer'[c] = "over"
                 PROVE  FALSE
      BY <1>1
    <2>1. TypeOK /\ KernelInv /\ AloneInv /\ QuietInv /\ KernelTypes
      BY <1>1, TypeParts DEF LoopInv
    <2>2. ~UNCHANGED peer
      OBVIOUS
    <2>3. \A d \in Client : ~ClientStep(d)
      BY <2>1 DEF ClientStep, Connect, Leave, Ask, KernelTypes
    <2>4. ~SendSlot
      BY <2>1, OwnerHas, ClientAssumption DEF SendSlot, Deliver, DeliverLate, KernelTypes
    <2>5. PICK t \in Thread : HangUp(t) \/ ReceiveEnd(t)
      BY <2>2, <2>3, <2>4 DEF Next, Wait, Barrier, BrokenPipe, OutOfBounds, End, Race, ThreadStep,
         SkipSlot, Accept, AcceptFailed, Receive, ReceiveNothing, Parse, Handle
    <2> DEFINE e == Slot(Current(t))
    <2>6. /\ phase = "pass" /\ todo[t] # {} /\ step[t] = "slot" /\ e.fd \in Fd
          /\ Close(e.fd)
          /\ e.hup \/ peer[Owner(e.fd)] = "fin"
      BY <2>5 DEF HangUp, ReceiveEnd, InPass
    <2>7. Owner(e.fd) = c
      BY <2>1, <2>2, <2>6, OwnerHas DEF Close, KernelTypes
    <2>8. e # NoEvent
      BY <2>6, Constants DEF NoEvent
    <2>9. t = 0 /\ Current(0) = 0 /\ eNum = 1 /\ todo[0] = 0 .. 1 /\ e = events[0]
      BY <2>1, <2>6, <2>8, QuietHere
    <2>10. Live(e)
      BY <2>1, <2>6, <2>9 DEF AloneInv, Alone
    <2> HIDE DEF e
    <2>11. sock[c] = e.fd /\ e.fd # NoFd /\ e.fd # Master
      BY <2>6, <2>7, OwnerHas, Constants, ClientAssumption
    <2>12. e.hup => peer[c] = "rst"
      BY <2>1, <2>10, <2>11, KernelParts DEF Live, SocksInv
    <2>13. QED
      BY <2>6, <2>7, <2>12
  <1>2. QED
    BY <1>1, LoopInvariant, PTL DEF Spec, ClosesOnlyTheGone
=============================================================================
