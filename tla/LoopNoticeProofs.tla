-------------------------- MODULE LoopNoticeProofs --------------------------
(* Server::loop forgets nothing that arrives, however many threads handle a *)
(* pass: what epoll_wait has taken off its list is still to be handled, or   *)
(* the reply that is under way will show that the client has gone.           *)
EXTENDS LoopProofs, WellFoundedInduction

-----------------------------------------------------------------------------
(* The invariant *)

Listed(c) == Contains(ready, c)

\* Thread t has still to take the event in slot i.
Unhandled(t, i) == i \in todo[t] /\ i < eNum /\ (step[t] = "slot" \/ i # Current(t))

\* An event of this pass will be handled for client c.
Pending(c) ==
    /\ phase = "pass"
    /\ \E t \in Thread : \E i \in todo[t] : Unhandled(t, i) /\ events[i].fd = sock[c]

\* An event of this pass says that client c has gone for good.
HangsUp(c) ==
    /\ phase = "pass"
    /\ \E t \in Thread : \E i \in todo[t] :
          Unhandled(t, i) /\ events[i] = [fd |-> sock[c], hup |-> TRUE]

\* A thread is between recv and the reply to client c.
Handling(c) ==
    /\ phase = "pass"
    /\ \E t \in Thread :
          /\ todo[t] # {} /\ step[t] # "slot" /\ Current(t) < eNum
          /\ events[Current(t)].fd = sock[c]

\* A reply to client c waits to be sent.
Answering(c) ==
    \E i \in Slots : /\ i < eNum /\ out[i].fd = sock[c]
                     /\ phase = "pass" \/ (phase = "send" /\ sent <= i)

RequestNoticed(c) == inbox[c] # <<>> => Listed(c) \/ Pending(c)
ResetNoticed(c) == peer[c] = "rst" => Listed(c) \/ HangsUp(c)
EndNoticed(c) ==
    peer[c] = "fin" /\ "bulletin" \notin Commands =>
        Listed(c) \/ Pending(c) \/ Handling(c) \/ Answering(c)

\* Every connection that something has arrived on will be looked at again.
Noticed(c) == sock[c] # NoFd => RequestNoticed(c) /\ ResetNoticed(c) /\ EndNoticed(c)
NoticeInv == phase # "ended" => \A c \in Client : Noticed(c)

\* A reply goes where the event of its slot came from.
OutInv ==
    phase = "pass" =>
        \A i \in Slots : i < eNum /\ out[i] # NoReply => out[i].fd = events[i].fd

-----------------------------------------------------------------------------
(* The ready list and the shares of the threads *)

USE DEF kernelVars, clientVars, passVars, threadVars, sharedVars, sendVars, historyVars, vars

LEMMA ArmLists ==
  ASSUME NEW s \in Sources, NEW list \in Seq(Sources)
  PROVE  /\ Contains(Arm(s, list), s)
         /\ \A x : Contains(list, x) => Contains(Arm(s, list), x)
  <1>1. CASE Contains(list, s)
    BY <1>1 DEF Arm
  <1>2. CASE ~Contains(list, s)
    <2>1. Arm(s, list) = Append(list, s)
      BY <1>2 DEF Arm
    <2>2. /\ Len(Append(list, s)) = Len(list) + 1 /\ Append(list, s)[Len(list) + 1] = s
          /\ \A i \in 1 .. Len(list) : Append(list, s)[i] = list[i]
          /\ Len(list) \in Nat
      BY AppendProperties
    <2>3. QED
      BY <2>1, <2>2 DEF Contains
  <1>3. QED
    BY <1>1, <1>2

LEMMA DisarmLists ==
  ASSUME NEW s \in Sources, NEW list \in Seq(Sources), NEW x, x # s, Contains(list, x)
  PROVE  Contains(Disarm(s, list), x)
  <1>1. CASE ~Contains(list, s)
    BY <1>1 DEF Disarm
  <1>2. CASE Contains(list, s)
    <2> DEFINE k == CHOOSE i \in 1 .. Len(list) : list[i] = s
    <2>1. k \in 1 .. Len(list) /\ list[k] = s /\ Disarm(s, list) = RemoveAt(list, k)
      BY <1>2 DEF Disarm, Contains
    <2> HIDE DEF k
    <2>2. PICK j \in 1 .. Len(list) : list[j] = x
      BY DEF Contains
    <2>3. /\ Len(RemoveAt(list, k)) = Len(list) - 1 /\ Len(list) \in Nat
          /\ \A i \in 1 .. Len(list) - 1 :
                RemoveAt(list, k)[i] = IF i < k THEN list[i] ELSE list[i + 1]
      <3>1. Len(list) \in Nat
        OBVIOUS
      <3>2. QED
        BY <2>1, <3>1, RemoveAtIs
    <2>4. CASE j < k
      BY <2>1, <2>2, <2>3, <2>4 DEF Contains
    <2>5. CASE j > k
      <3>1. j - 1 \in 1 .. Len(list) - 1 /\ ~(j - 1 < k) /\ (j - 1) + 1 = j
        BY <2>1, <2>2, <2>3, <2>5
      <3>2. RemoveAt(list, k)[j - 1] = x
        BY <2>2, <2>3, <3>1
      <3>3. QED
        BY <2>1, <2>3, <3>1, <3>2 DEF Contains
    <2>6. j # k
      BY <2>1, <2>2
    <2>7. QED
      BY <2>1, <2>2, <2>3, <2>4, <2>5, <2>6
  <1>3. QED
    BY <1>1, <1>2

\* Every iteration of a pass is some thread's.
LEMMA ChunkCovers ==
  ASSUME width \in Widths, NEW n \in Nat, n > 0, NEW i \in 0 .. n
  PROVE  \E t \in Thread : i \in Chunk(t, n)
  <1> DEFINE k == Threads(n)
             q == (n + 1) \div k
             r == (n + 1) % k
  <1>1. k \in Nat \ {0} /\ \A t \in Nat : t < k => t \in Thread
    BY WidthAssumption DEF Threads, Widths, Thread
  <1>2. q \in Nat /\ r \in 0 .. k - 1 /\ n + 1 = k * q + r
    BY <1>1
  <1>3. ASSUME NEW t \in Nat, t < k,
               IF t < r THEN i \in t * (q + 1) .. t * (q + 1) + q
               ELSE i \in r + t * q .. r + t * q + q - 1
        PROVE  \E u \in Thread : i \in Chunk(u, n)
    <2>1. t \in Thread
      BY <1>1, <1>3
    <2>2. Chunk(t, n) = (IF t < r THEN t * (q + 1) ELSE r + t * q) ..
                        (IF t < r THEN t * (q + 1) ELSE r + t * q) + (IF t < r THEN q + 1 ELSE q) - 1
      BY <1>3 DEF Chunk
    <2> HIDE DEF k, q, r
    <2>3. t * (q + 1) \in Nat /\ t * q \in Nat
      BY <1>2
    <2>4. i \in Chunk(t, n)
      BY <1>2, <1>3, <2>2, <2>3
    <2>5. QED
      BY <2>1, <2>4
  <1> HIDE DEF k, q, r
  <1>4. \A a, b, d \in Nat : a <= b => a * d <= b * d
    OBVIOUS
  <1>5. \A a, b \in Nat : b > 0 =>
           \E t \in Nat, m \in 0 .. b - 1 : a = t * b + m
    <2> SUFFICES ASSUME NEW a \in Nat, NEW b \in Nat, b > 0
                 PROVE  \E t \in Nat, m \in 0 .. b - 1 : a = t * b + m
      OBVIOUS
    <2>1. a \div b \in Nat /\ a % b \in 0 .. b - 1 /\ a = b * (a \div b) + (a % b)
      OBVIOUS
    <2>2. (a \div b) * b = b * (a \div b)
      BY <2>1
    <2>3. QED
      BY <2>1, <2>2
  <1>6. CASE i < r * (q + 1)
    <2>1. PICK t \in Nat, m \in 0 .. q : i = t * (q + 1) + m
      <3>1. i \in Nat /\ q + 1 \in Nat /\ q + 1 > 0
        BY <1>2
      <3>2. PICK t \in Nat, m \in 0 .. (q + 1) - 1 : i = t * (q + 1) + m
        BY <1>5, <3>1
      <3>3. m \in 0 .. q
        BY <1>2, <3>2
      <3>4. QED
        BY <3>2, <3>3
    <2>2. t < r
      <3> SUFFICES ASSUME r <= t PROVE FALSE
        BY <1>2, <2>1
      <3>1. r * (q + 1) <= t * (q + 1)
        BY <1>2, <1>4, <2>1
      <3>2. r * (q + 1) \in Nat /\ t * (q + 1) \in Nat
        BY <1>2, <2>1
      <3>3. QED
        BY <1>2, <1>6, <2>1, <3>1, <3>2
    <2>3. t < k /\ t * (q + 1) \in Nat
      BY <1>1, <1>2, <2>1, <2>2
    <2>4. i \in t * (q + 1) .. t * (q + 1) + q
      BY <1>2, <2>1, <2>3
    <2>5. QED
      BY <1>3, <2>1, <2>2, <2>3, <2>4
  <1>7. CASE ~(i < r * (q + 1))
    <2>0. /\ r * (q + 1) = r * q + r /\ r * q \in Nat /\ r \in Nat /\ i \in Nat
      BY <1>2
    <2>1. PICK j \in Nat : i = r * q + r + j
      <3>1. i - (r * q + r) \in Nat /\ i = r * q + r + (i - (r * q + r))
        BY <1>7, <2>0
      <3>2. QED
        BY <3>1
    <2>2. PICK d \in Nat : k = r + d
      <3>1. k - r \in Nat /\ k = r + (k - r)
        BY <1>1, <1>2
      <3>2. QED
        BY <3>1
    <2>3. k * q = r * q + d * q /\ d * q \in Nat
      BY <1>1, <1>2, <2>0, <2>2
    <2>4. j < d * q
      BY <1>2, <2>0, <2>1, <2>3
    <2>5. q > 0
      <3> SUFFICES ASSUME q = 0 PROVE FALSE
        BY <1>2
      <3>1. d * q = 0
        BY <2>2
      <3>2. QED
        BY <2>1, <2>4, <3>1
    <2>6. PICK t \in Nat, m \in 0 .. q - 1 : j = t * q + m
      BY <1>2, <1>5, <2>1, <2>5
    <2>7. t < d
      <3> SUFFICES ASSUME d <= t PROVE FALSE
        BY <2>2, <2>6
      <3>1. d * q <= t * q
        BY <1>2, <1>4, <2>2, <2>6
      <3>2. t * q \in Nat
        BY <1>2, <2>6
      <3>3. QED
        BY <1>2, <2>1, <2>3, <2>4, <2>6, <3>1, <3>2
    <2>8. /\ r + t \in Nat /\ r + t < k /\ ~(r + t < r)
          /\ (r + t) * q = r * q + t * q /\ t * q \in Nat
      BY <1>2, <2>0, <2>2, <2>6, <2>7
    <2>9. i \in r + (r + t) * q .. r + (r + t) * q + q - 1
      BY <1>2, <2>0, <2>1, <2>6, <2>8
    <2>10. QED
      BY <1>3, <2>8, <2>9
  <1>8. QED
    BY <1>6, <1>7

-----------------------------------------------------------------------------
(* Steps *)

\* What a thread does to its place in its share: it goes on in the iteration,
\* or to the next one.
Moves(t) ==
    \/ todo' = todo /\ step' = [step EXCEPT ![t] = "parse"]
    \/ todo' = todo /\ step' = [step EXCEPT ![t] = "handle"]
    \/ EndIteration(t)

\* A thread's step leaves all slots to do but its own.
LEMMA UnhandledStays ==
  ASSUME ThreadTypes, NEW t \in Thread, Moves(t), eNum' = eNum,
         NEW u \in Thread, NEW i \in todo[u], Unhandled(u, i),
         step[t] = "slot" => u # t \/ i # Current(t)
  PROVE  i \in todo'[u] /\ Unhandled(u, i)'
  <1>1. u # t \/ i # Current(t)
    BY DEF Unhandled
  <1>2. CASE todo' = todo /\ \E s \in {"parse", "handle"} : step' = [step EXCEPT ![t] = s]
    <2>1. u # t => step'[u] = step[u]
      BY <1>2 DEF ThreadTypes
    <2>2. Current(u)' = Current(u)
      BY <1>2 DEF Current
    <2>3. QED
      BY <1>1, <1>2, <2>1, <2>2 DEF Unhandled
  <1>3. CASE EndIteration(t)
    <2>1. /\ step'[t] = "slot" /\ todo'[t] = todo[t] \ {Current(t)}
          /\ u # t => step'[u] = step[u] /\ todo'[u] = todo[u]
      BY <1>3 DEF EndIteration, ThreadTypes
    <2>2. u # t => Current(u)' = Current(u)
      BY <2>1 DEF Current
    <2>3. QED
      BY <1>1, <2>1, <2>2 DEF Unhandled
  <1>4. QED
    BY <1>2, <1>3 DEF Moves

LEMMA PendingStays ==
  ASSUME ThreadTypes, NEW t \in Thread, Moves(t), UNCHANGED <<phase, eNum, events>>,
         NEW c \in Client, sock'[c] = sock[c], Pending(c),
         step[t] = "slot" /\ Current(t) < eNum => events[Current(t)].fd # sock[c]
  PROVE  Pending(c)'
  <1>0. PICK u \in Thread : \E i \in todo[u] : Unhandled(u, i) /\ events[i].fd = sock[c]
    BY DEF Pending
  <1>1. PICK i \in todo[u] : Unhandled(u, i) /\ events[i].fd = sock[c]
    BY <1>0
  <1>2. step[t] = "slot" => u # t \/ i # Current(t)
    BY <1>1 DEF Unhandled
  <1>3. i \in todo'[u] /\ Unhandled(u, i)'
    BY <1>1, <1>2, UnhandledStays
  <1>4. QED
    BY <1>1, <1>3 DEF Pending

LEMMA HangsUpStays ==
  ASSUME ThreadTypes, NEW t \in Thread, Moves(t), UNCHANGED <<phase, eNum, events>>,
         NEW c \in Client, sock'[c] = sock[c], HangsUp(c),
         step[t] = "slot" /\ Current(t) < eNum =>
            events[Current(t)] # [fd |-> sock[c], hup |-> TRUE]
  PROVE  HangsUp(c)'
  <1>0. PICK u \in Thread : \E i \in todo[u] :
            Unhandled(u, i) /\ events[i] = [fd |-> sock[c], hup |-> TRUE]
    BY DEF HangsUp
  <1>1. PICK i \in todo[u] : Unhandled(u, i) /\ events[i] = [fd |-> sock[c], hup |-> TRUE]
    BY <1>0
  <1>2. step[t] = "slot" => u # t \/ i # Current(t)
    BY <1>1 DEF Unhandled
  <1>3. i \in todo'[u] /\ Unhandled(u, i)'
    BY <1>1, <1>2, UnhandledStays
  <1>4. QED
    BY <1>1, <1>3 DEF HangsUp

LEMMA HandlingStays ==
  ASSUME ThreadTypes, NEW t \in Thread, Moves(t), UNCHANGED <<phase, eNum, events>>,
         NEW c \in Client, sock'[c] = sock[c], Handling(c),
         step[t] = "slot" \/ (todo' = todo /\ step'[t] # "slot")
  PROVE  Handling(c)'
  <1>1. PICK u \in Thread :
          /\ todo[u] # {} /\ step[u] # "slot" /\ Current(u) < eNum
          /\ events[Current(u)].fd = sock[c]
    BY DEF Handling
  <1>2. CASE step[t] = "slot"
    <2>1. u # t
      BY <1>1, <1>2
    <2>2. todo'[u] = todo[u] /\ step'[u] = step[u]
      BY <2>1 DEF Moves, EndIteration, ThreadTypes
    <2>3. Current(u)' = Current(u)
      BY <2>2 DEF Current
    <2>4. QED
      BY <1>1, <2>2, <2>3 DEF Handling
  <1>3. CASE todo' = todo /\ step'[t] # "slot"
    <2>1. step'[u] # "slot"
      BY <1>1, <1>3 DEF Moves, EndIteration, ThreadTypes
    <2>2. Current(u)' = Current(u)
      BY <1>3 DEF Current
    <2>3. QED
      BY <1>1, <1>3, <2>1, <2>2 DEF Handling
  <1>4. QED
    BY <1>2, <1>3

LEMMA AnsweringStays ==
  ASSUME NEW c \in Client, sock'[c] = sock[c], UNCHANGED <<phase, eNum, out, sent>>, Answering(c)
  PROVE  Answering(c)'
  BY DEF Answering

\* A thread's step at another client's slot changes nothing for this client.
LEMMA FrameThread ==
  ASSUME ThreadTypes, NEW t \in Thread, Moves(t), UNCHANGED <<phase, eNum, events, out, sent>>,
         NEW c \in Client, Noticed(c),
         sock'[c] = sock[c], inbox'[c] = inbox[c], peer'[c] = peer[c],
         Listed(c) => Listed(c)',
         step[t] = "slot" \/ (todo' = todo /\ step'[t] # "slot"),
         sock[c] # NoFd /\ step[t] = "slot" /\ Current(t) < eNum => events[Current(t)].fd # sock[c]
  PROVE  Noticed(c)'
  <1> SUFFICES ASSUME sock[c] # NoFd
               PROVE  RequestNoticed(c)' /\ ResetNoticed(c)' /\ EndNoticed(c)'
    BY DEF Noticed
  <1>1. Pending(c) => Pending(c)'
    BY PendingStays
  <1>2. HangsUp(c) => HangsUp(c)'
    <2>1. events[Current(t)].fd # sock[c] => events[Current(t)] # [fd |-> sock[c], hup |-> TRUE]
      OBVIOUS
    <2>2. QED
      BY <2>1, HangsUpStays
  <1>3. Handling(c) => Handling(c)'
    BY HandlingStays
  <1>4. Answering(c) => Answering(c)'
    BY AnsweringStays
  <1>5. RequestNoticed(c) /\ ResetNoticed(c) /\ EndNoticed(c)
    BY DEF Noticed
  <1>6. QED
    BY <1>1, <1>2, <1>3, <1>4, <1>5 DEF RequestNoticed, ResetNoticed, EndNoticed

\* A thread with iterations to do is at the first of them.
LEMMA CurrentHere ==
  ASSUME ThreadTypes, NEW t \in Thread, todo[t] # {}
  PROVE  Current(t) \in todo[t]
  <1>1. todo[t] \subseteq Nat
    BY Constants DEF ThreadTypes
  <1>2. PICK i \in todo[t] : \A j \in todo[t] : ~(<<j, i>> \in OpToRel(<, Nat))
    BY <1>1, NatLessThanWellFounded, WFMin
  <1>3. \A j \in todo[t] : i <= j
    <2> SUFFICES ASSUME NEW j \in todo[t] PROVE i <= j
      OBVIOUS
    <2>1. i \in Nat /\ j \in Nat /\ ~(j < i)
      BY <1>1, <1>2 DEF OpToRel
    <2>2. QED
      BY <2>1
  <1>4. QED
    BY <1>3 DEF Current, Min

\* Events that say nothing about a client, and no events, are passed over.
LEMMA OtherSlot ==
  ASSUME TypeOK, NEW t \in Thread, todo[t] # {}, Current(t) < eNum,
         NEW c \in Client, sock[c] # NoFd
  PROVE  /\ Current(t) \in todo[t] /\ Current(t) \in Slots
         /\ Slot(Current(t)) = events[Current(t)]
         /\ Slot(Current(t)).fd \in {Master, NoFd} => events[Current(t)].fd # sock[c]
  <1>1. todo[t] \subseteq Slots /\ eNum \in Slots /\ sock[c] \in Fd
    BY DEF TypeOK
  <1>2. Current(t) \in todo[t]
    BY TypeParts, CurrentHere
  <1>3. Slot(Current(t)) = events[Current(t)]
    BY <1>1, <1>2, Constants DEF Slot
  <1>4. QED
    BY <1>1, <1>2, <1>3, Constants
\* epoll_wait: who leaves the list without an event has nothing to say, and
\* every event is some thread's.
LEMMA NoticeWait ==
  ASSUME TypeOK, KernelInv, PhaseInv, NEW n \in 1 .. EventsSize,
         NEW at \in [1 .. n -> 1 .. Len(ready)], WaitWith(n, at),
         NEW c \in Client, Noticed(c)
  PROVE  Noticed(c)'
  <1> SUFFICES ASSUME sock[c] # NoFd
               PROVE  RequestNoticed(c)' /\ ResetNoticed(c)' /\ EndNoticed(c)'
    BY DEF Noticed, WaitWith
  <1> DEFINE p == IF n = EventsSize THEN at[n] ELSE Len(ready)
             rest == SubSeq(ready, p + 1, Len(ready))
             tells == inbox[c] # <<>> \/ peer[c] \in {"fin", "rst"}
  <1>0. PassTypes /\ ThreadTypes
    BY TypeParts
  <1>1. /\ phase = "wait" /\ phase' = "pass" /\ eNum' = n
        /\ UNCHANGED <<sock, peer, inbox, step>>
        /\ todo' = [t \in Thread |-> Chunk(t, n)]
        /\ \A i \in 0 .. n - 1 : events'[i] = EventOf(ready[at[i + 1]])
        /\ ready' = IF \E i \in 1 .. n : ready[at[i]] = Master THEN Append(rest, Master) ELSE rest
    BY <1>0, Constants DEF WaitWith, PassTypes
  <1>2. ~Pending(c) /\ ~HangsUp(c) /\ ~Handling(c) /\ ~Answering(c)
    BY <1>1 DEF Pending, HangsUp, Handling, Answering
  <1>3. inbox[c] # <<>> \/ peer[c] = "rst" \/ (peer[c] = "fin" /\ "bulletin" \notin Commands)
           => tells /\ Listed(c)
    BY <1>2 DEF Noticed, RequestNoticed, ResetNoticed, EndNoticed
  <1>4. ASSUME tells, Listed(c)
        PROVE  Listed(c)' \/ (Pending(c)' /\ (peer[c] = "rst" => HangsUp(c)'))
    <2>1. PICK k \in 1 .. Len(ready) : ready[k] = c
      BY <1>4 DEF Listed, Contains
    <2>2. Len(ready) \in Nat /\ ready \in Seq(Sources) /\ Distinct(ready) /\ p \in 0 .. Len(ready)
      BY Lists
    <2>3. /\ rest \in Seq(Sources) /\ Len(rest) = Len(ready) - p
          /\ \A i \in 1 .. Len(rest) : rest[i] = ready[i + p]
      BY <2>2, RestIs
    <2> HIDE DEF rest
    <2>4. CASE k > p
      <3>1. k - p \in 1 .. Len(rest) /\ (k - p) + p = k
        BY <2>1, <2>2, <2>3, <2>4
      <3>2. rest[k - p] = c
        BY <2>1, <2>3, <3>1
      <3>3. Contains(rest, c)
        BY <3>1, <3>2 DEF Contains
      <3>4. Contains(Append(rest, Master), c)
        <4>1. /\ Len(Append(rest, Master)) = Len(rest) + 1 /\ Len(rest) \in Nat
              /\ Append(rest, Master)[k - p] = rest[k - p]
          BY <2>3, <3>1, AppendProperties DEF Sources
        <4>2. k - p \in 1 .. Len(Append(rest, Master))
          BY <3>1, <4>1
        <4>3. QED
          BY <3>2, <4>1, <4>2 DEF Contains
      <3>5. QED
        BY <1>1, <3>3, <3>4 DEF Listed
    <2>5. CASE ~(k > p)
      <3>1. c # Master => Readable(c)
        BY <1>4 DEF Readable
      <3>2. c # Master
        BY ClientAssumption
      <3>3. PICK i \in 1 .. n : at[i] = k
        <4>1. Readable(ready[k])
          BY <2>1, <3>1, <3>2
        <4>2. (\E i \in 1 .. n : at[i] = k) \/ (n = EventsSize /\ k > at[n])
          BY <2>1, <4>1 DEF WaitWith, FirstReadable
        <4>3. QED
          BY <2>5, <4>2
      <3> DEFINE j == i - 1
      <3>4. j \in 0 .. n - 1 /\ j \in 0 .. n /\ j < n /\ j + 1 = i /\ n \in Nat /\ n > 0
        BY Constants
      <3>5. events'[j] = [fd |-> sock[c], hup |-> peer[c] = "rst"]
        BY <1>1, <2>1, <3>2, <3>3, <3>4 DEF EventOf
      <3> HIDE DEF j
      <3>6. PICK t \in Thread : j \in Chunk(t, n)
        BY <1>0, <3>4, ChunkCovers DEF PassTypes
      <3>7. /\ j \in todo'[t] /\ Unhandled(t, j)' /\ sock'[c] = sock[c]
            /\ phase' = "pass"
        <4>1. step'[t] = "slot"
          BY <1>1 DEF PhaseInv
        <4>2. QED
          BY <1>1, <3>4, <3>6, <4>1 DEF Unhandled
      <3>8. Pending(c)'
        <4>1. events'[j].fd = sock'[c]
          BY <3>5, <3>7
        <4>2. QED
          BY <3>7, <4>1 DEF Pending
      <3>9. peer[c] = "rst" => HangsUp(c)'
        <4> SUFFICES ASSUME peer[c] = "rst" PROVE HangsUp(c)'
          OBVIOUS
        <4>1. events'[j] = [fd |-> sock'[c], hup |-> TRUE]
          BY <3>5, <3>7
        <4>2. QED
          BY <3>7, <4>1 DEF HangsUp
      <3>10. QED
        BY <3>8, <3>9
    <2>6. QED
      BY <2>4, <2>5
  <1>5. QED
    BY <1>1, <1>3, <1>4 DEF RequestNoticed, ResetNoticed, EndNoticed

\* sendMsgToExisting: a reply to a client that has closed brings its reset.
LEMMA NoticeSend ==
  ASSUME TypeOK, KernelInv, SendSlot, NEW c \in Client, Noticed(c)
  PROVE  Noticed(c)'
  <1> DEFINE d == Owner(out[sent].fd)
  <1>0. KernelTypes /\ PassTypes /\ SocksInv
    BY TypeParts, KernelParts
  <1>1. /\ phase = "send" /\ sock' = sock /\ inbox' = inbox /\ eNum' = eNum
        /\ d = Nobody \/ (d \in Client /\ sock[d] = out[sent].fd)
        /\ \/ UNCHANGED <<peer, ready>> /\ (d = Nobody \/ peer[d] # "fin")
           \/ /\ d \in Client /\ peer' = [peer EXCEPT ![d] = "rst"] /\ ready' = Arm(d, ready)
    BY OwnerHas, ClientAssumption DEF SendSlot, Deliver, DeliverLate
  <1>2. \/ sent < eNum /\ sent' = sent + 1 /\ UNCHANGED <<phase, out>>
        \/ ~(sent < eNum)
    BY DEF SendSlot, NextSlot
  <1> SUFFICES ASSUME sock[c] # NoFd
               PROVE  RequestNoticed(c)' /\ ResetNoticed(c)' /\ EndNoticed(c)'
    BY <1>1 DEF Noticed
  <1>3. ~Pending(c) /\ ~HangsUp(c) /\ ~Handling(c)
    BY <1>1 DEF Pending, HangsUp, Handling
  <1>4. RequestNoticed(c) /\ ResetNoticed(c) /\ EndNoticed(c)
    BY DEF Noticed
  <1>5. Owner(sock[c]) = c
    BY OwnerIs
  <1> HIDE DEF d
  <1>6. Listed(c) => Listed(c)'
    BY <1>1, Lists, ArmLists DEF Listed, Sources
  <1>7. CASE d = c /\ peer[c] = "fin"
    <2>1. peer' = [peer EXCEPT ![c] = "rst"] /\ ready' = Arm(c, ready)
      BY <1>1, <1>7, ClientAssumption
    <2>2. Listed(c)' /\ peer'[c] = "rst"
      BY <1>0, <2>1, Lists, ArmLists DEF Listed, Sources, KernelTypes
    <2>3. QED
      BY <2>2 DEF RequestNoticed, ResetNoticed, EndNoticed
  <1>8. CASE ~(d = c /\ peer[c] = "fin")
    <2>1. peer'[c] # peer[c] => Listed(c)'
      <3>1. ASSUME peer'[c] # peer[c] PROVE Listed(c)'
        <4>1. d = c /\ ready' = Arm(c, ready)
          BY <1>0, <1>1, <3>1 DEF KernelTypes
        <4>2. QED
          BY <4>1, Lists, ArmLists DEF Listed, Sources
      <3>2. QED
        BY <3>1
    <2>2. RequestNoticed(c)' /\ ResetNoticed(c)'
      BY <1>1, <1>3, <1>4, <1>6, <2>1 DEF RequestNoticed, ResetNoticed
    <2>3. peer[c] = "fin" /\ Answering(c) => Answering(c)'
      <3> SUFFICES ASSUME peer[c] = "fin", Answering(c) PROVE Answering(c)'
        OBVIOUS
      <3>1. PICK i \in Slots : i < eNum /\ out[i].fd = sock[c] /\ sent <= i
        BY <1>1 DEF Answering
      <3>2. i # sent
        BY <1>5, <1>8, <3>1 DEF d
      <3>3. i \in Nat /\ sent \in Nat /\ eNum \in Nat
        BY <1>0, <3>1, Constants DEF PassTypes
      <3>4. sent < eNum /\ sent + 1 <= i
        BY <3>1, <3>2, <3>3
      <3>5. QED
        BY <1>1, <1>2, <3>1, <3>4 DEF Answering
    <2>4. EndNoticed(c)'
      BY <1>1, <1>3, <1>4, <1>6, <2>1, <2>3 DEF EndNoticed
    <2>5. QED
      BY <2>2, <2>4
  <1>9. QED
    BY <1>7, <1>8

LEMMA NoticeBarrier ==
  ASSUME TypeOK, Barrier, NEW c \in Client, Noticed(c)
  PROVE  Noticed(c)'
  <1>1. /\ \A t \in Thread : todo[t] = {}
        /\ phase = "pass" /\ phase' = "send" /\ sent' = 0
        /\ UNCHANGED <<sock, peer, inbox, ready, out, eNum>>
    BY DEF Barrier
  <1>2. ~Pending(c) /\ ~HangsUp(c) /\ ~Handling(c)
    BY <1>1 DEF Pending, HangsUp, Handling
  <1>3. Answering(c) => Answering(c)'
    BY <1>1, Constants DEF Answering
  <1>4. QED
    BY <1>1, <1>2, <1>3 DEF Noticed, RequestNoticed, ResetNoticed, EndNoticed, Listed

\* What a client sends, and that it leaves, puts its connection on the list.
LEMMA NoticeClient ==
  ASSUME TypeOK, KernelInv, NEW d \in Client, ClientStep(d), NEW c \in Client, Noticed(c)
  PROVE  Noticed(c)'
  <1>0. KernelTypes /\ SocksInv
    BY TypeParts, KernelParts
  <1>1. sock' = sock /\ UNCHANGED <<phase, todo, step, eNum, events, out, sent>>
    BY DEF ClientStep, Connect, Leave, Ask
  <1>2. /\ Pending(c) => Pending(c)'
        /\ HangsUp(c) => HangsUp(c)'
        /\ Handling(c) => Handling(c)'
        /\ Answering(c) => Answering(c)'
    BY <1>1 DEF Pending, HangsUp, Handling, Answering, Unhandled, Current
  <1>3. Listed(c) => Listed(c)'
    <2>1. \E s \in Sources : ready' \in {ready, Arm(s, ready)}
      BY DEF ClientStep, Connect, Leave, Ask, Sources
    <2>2. QED
      BY <2>1, Lists, ArmLists DEF Listed
  <1>4. CASE sock[c] # NoFd /\ (peer'[c] # peer[c] \/ inbox'[c] # inbox[c])
    <2>1. c = d /\ (Leave(d) \/ \E cmd \in Commands, named \in BOOLEAN : Ask(d, cmd, named))
      BY <1>0, <1>4 DEF ClientStep, Connect, Leave, Ask, KernelTypes, SocksInv
    <2>2. ready' = Arm(c, ready)
      BY <1>4, <2>1 DEF Leave, Ask
    <2>3. Listed(c)'
      BY <2>2, Lists, ArmLists DEF Listed, Sources
    <2>4. QED
      BY <2>3 DEF Noticed, RequestNoticed, ResetNoticed, EndNoticed
  <1>5. CASE ~(sock[c] # NoFd /\ (peer'[c] # peer[c] \/ inbox'[c] # inbox[c]))
    BY <1>1, <1>2, <1>3, <1>5 DEF Noticed, RequestNoticed, ResetNoticed, EndNoticed
  <1>6. QED
    BY <1>4, <1>5

\* accept() lists a connection that something has arrived on already.
LEMMA NoticeAccept ==
  ASSUME TypeOK, KernelInv, PhaseInv, NEW t \in Thread, Accept(t), NEW c \in Client, Noticed(c)
  PROVE  Noticed(c)'
  <1> DEFINE d == Head(line)
  <1>0. KernelTypes /\ SocksInv /\ ThreadTypes
    BY TypeParts, KernelParts
  <1>1. /\ d \in Client /\ inbox' = inbox /\ peer' = peer
        /\ \E f : sock' = [sock EXCEPT ![d] = f]
        /\ ready' = IF inbox[d] # <<>> \/ peer[d] # "up" THEN Arm(d, ready) ELSE ready
    <2>1. line # <<>> /\ line \in Seq(Client)
      BY Lists DEF Accept
    <2>2. d \in Client
      BY <2>1
    <2>3. QED
      BY <2>2 DEF Accept
  <1>2. /\ Moves(t) /\ UNCHANGED <<phase, eNum, events, out, sent>> /\ step[t] = "slot"
        /\ todo[t] # {} /\ Slot(Current(t)).fd = Master
    BY DEF Accept, AtMaster, InPass, Moves
  <1> HIDE DEF d
  <1>3. CASE c = d
    <2>1. inbox[c] # <<>> \/ peer[c] # "up" => Listed(c)'
      BY <1>1, <1>3, Lists, ArmLists DEF Listed, Sources
    <2>2. QED
      BY <1>1, <2>1 DEF Noticed, RequestNoticed, ResetNoticed, EndNoticed
  <1>4. CASE c # d
    <2>1. Listed(c) => Listed(c)'
      BY <1>1, Lists, ArmLists DEF Listed, Sources
    <2>2. sock'[c] = sock[c]
      BY <1>0, <1>1, <1>4 DEF KernelTypes
    <2>3. sock[c] # NoFd /\ Current(t) < eNum => events[Current(t)].fd # sock[c]
      BY <1>2, OtherSlot
    <2>4. QED
      BY <1>0, <1>1, <1>2, <2>1, <2>2, <2>3, FrameThread
  <1>5. QED
    BY <1>3, <1>4

\* close() takes the one connection away and leaves the others listed.
LEMMA NoticeClose ==
  ASSUME TypeOK, KernelInv, NEW t \in Thread, HangUp(t) \/ ReceiveEnd(t),
         NEW c \in Client, Noticed(c)
  PROVE  Noticed(c)'
  <1> DEFINE f == Slot(Current(t)).fd
             d == Owner(f)
  <1>0. KernelTypes /\ SocksInv /\ ThreadTypes
    BY TypeParts, KernelParts
  <1>1. /\ Moves(t) /\ UNCHANGED <<phase, eNum, events, out, sent>> /\ step[t] = "slot"
        /\ todo[t] # {} /\ f \in Fd /\ Close(f)
    BY DEF HangUp, ReceiveEnd, InPass, Moves
  <1>2. CASE sock[c] = f
    <2>1. d = c /\ sock[c] # NoFd
      BY <1>1, <1>2, OwnerIs, Constants
    <2>2. sock' = [sock EXCEPT ![c] = NoFd]
      BY <1>1, <2>1, ClientAssumption DEF Close
    <2>3. sock'[c] = NoFd
      BY <1>0, <2>2 DEF KernelTypes
    <2>4. QED
      BY <2>3 DEF Noticed
  <1>3. CASE sock[c] # f
    <2> HIDE DEF f
    <2>1. \/ UNCHANGED kernelVars
          \/ /\ d \in Client /\ sock[d] = f /\ ready' = Disarm(d, ready)
             /\ sock' = [sock EXCEPT ![d] = NoFd]
             /\ peer' = [peer EXCEPT ![d] = "over"]
             /\ inbox' = [inbox EXCEPT ![d] = <<>>]
      BY <1>1, OwnerHas DEF Close
    <2> HIDE DEF d
    <2>2. sock'[c] = sock[c] /\ peer'[c] = peer[c] /\ inbox'[c] = inbox[c]
      BY <1>0, <1>3, <2>1 DEF KernelTypes
    <2>3. Listed(c) => Listed(c)'
      BY <1>3, <2>1, Lists, DisarmLists DEF Listed, Sources
    <2>4. Current(t) < eNum /\ sock[c] # NoFd => events[Current(t)].fd # sock[c]
      BY <1>1, <1>3, OtherSlot DEF f
    <2>5. QED
      BY <1>0, <1>1, <2>2, <2>3, <2>4, FrameThread
  <1>4. QED
    BY <1>2, <1>3

\* One recv empties the socket; that its client has gone is still to be told,
\* by the reply or by another event.
LEMMA NoticeReceive ==
  ASSUME TypeOK, KernelInv, NEW t \in Thread, Receive(t), NEW c \in Client, Noticed(c)
  PROVE  Noticed(c)'
  <1> DEFINE f == Slot(Current(t)).fd
             d == Owner(f)
  <1>0. KernelTypes /\ SocksInv /\ ThreadTypes
    BY TypeParts, KernelParts
  <1>1. /\ Moves(t) /\ UNCHANGED <<phase, eNum, events, out, sent>> /\ step[t] = "slot"
        /\ phase = "pass" /\ todo[t] # {} /\ todo' = todo /\ step' = [step EXCEPT ![t] = "parse"]
        /\ f \in Fd /\ ~Slot(Current(t)).hup /\ d \in Client
        /\ UNCHANGED <<sock, peer, ready>> /\ inbox' = [inbox EXCEPT ![d] = <<>>]
    BY OwnerHas DEF Receive, InPass, Moves
  <1>2. CASE sock[c] = f
    <2> SUFFICES ASSUME sock[c] # NoFd
                 PROVE  RequestNoticed(c)' /\ ResetNoticed(c)' /\ EndNoticed(c)'
      BY <1>1 DEF Noticed
    <2>1. d = c
      BY <1>2, OwnerIs
    <2>2. inbox'[c] = <<>>
      BY <1>0, <1>1, <2>1 DEF KernelTypes
    <2>3. RequestNoticed(c)'
      BY <2>2 DEF RequestNoticed
    <2>4. ResetNoticed(c)'
      <3>1. Current(t) < eNum => events[Current(t)] # [fd |-> sock[c], hup |-> TRUE]
        <4>1. Current(t) < eNum => Slot(Current(t)) = events[Current(t)]
          BY <1>1, OtherSlot
        <4>2. QED
          BY <1>1, <4>1
      <3>2. HangsUp(c) => HangsUp(c)'
        BY <1>0, <1>1, <3>1, HangsUpStays
      <3>3. QED
        BY <1>1, <3>2 DEF Noticed, ResetNoticed, Listed
    <2>5. Pending(c) => Pending(c)' \/ Handling(c)'
      <3>1. CASE Current(t) < eNum /\ events[Current(t)].fd = sock[c]
        <4>1. step'[t] = "parse" /\ Current(t)' = Current(t)
          BY <1>0, <1>1 DEF ThreadTypes, Current
        <4>2. QED
          BY <1>1, <3>1, <4>1 DEF Handling
      <3>2. CASE ~(Current(t) < eNum /\ events[Current(t)].fd = sock[c])
        BY <1>0, <1>1, <3>2, PendingStays
      <3>3. QED
        BY <3>1, <3>2
    <2>6. Handling(c) => Handling(c)'
      BY <1>0, <1>1, HandlingStays
    <2>7. Answering(c) => Answering(c)'
      BY <1>1, AnsweringStays
    <2>8. EndNoticed(c)'
      BY <1>1, <2>5, <2>6, <2>7 DEF Noticed, EndNoticed, Listed
    <2>9. QED
      BY <2>3, <2>4, <2>8
  <1>3. CASE sock[c] # f
    <2>1. inbox'[c] = inbox[c]
      <3>1. d # c
        BY <1>1, <1>3, OwnerHas, ClientAssumption
      <3>2. QED
        BY <1>0, <1>1, <3>1 DEF KernelTypes
    <2>2. Current(t) < eNum /\ sock[c] # NoFd => events[Current(t)].fd # sock[c]
      BY <1>1, <1>3, OtherSlot
    <2>3. QED
      BY <1>0, <1>1, <2>1, <2>2, FrameThread DEF Listed
  <1>4. QED
    BY <1>2, <1>3

\* The rest of an iteration, and slots without a request.
LEMMA NoticeRest ==
  ASSUME TypeOK, KernelInv, NEW t \in Thread,
         SkipSlot(t) \/ AcceptFailed(t) \/ ReceiveNothing(t) \/ Parse(t),
         NEW c \in Client, Noticed(c)
  PROVE  Noticed(c)'
  <1> DEFINE e == Slot(Current(t))
  <1>0. KernelTypes /\ SocksInv /\ ThreadTypes
    BY TypeParts, KernelParts
  <1>1. /\ Moves(t) /\ UNCHANGED <<phase, eNum, events, out, sent, sock, peer, inbox, ready>>
        /\ todo[t] # {}
    BY DEF SkipSlot, AcceptFailed, ReceiveNothing, Parse, AtMaster, InPass, Moves
  <1>2. CASE (SkipSlot(t) \/ AcceptFailed(t) \/ Parse(t)) \/ (ReceiveNothing(t) /\ e.fd # sock[c])
    <2>1. step[t] = "slot" \/ (todo' = todo /\ step'[t] # "slot")
      BY <1>0, <1>2 DEF SkipSlot, AcceptFailed, ReceiveNothing, Parse, AtMaster, InPass, ThreadTypes
    <2>2. step[t] = "slot" => e.fd \in {Master, NoFd} \/ e.fd # sock[c]
      BY <1>2 DEF SkipSlot, AcceptFailed, Parse, AtMaster, InPass, NoEvent
    <2>3. sock[c] # NoFd /\ step[t] = "slot" /\ Current(t) < eNum => events[Current(t)].fd # sock[c]
      BY <1>1, <2>2, OtherSlot
    <2>4. QED
      BY <1>0, <1>1, <2>1, <2>3, FrameThread DEF Listed
  <1>3. CASE ReceiveNothing(t) /\ e.fd = sock[c]
    <2> SUFFICES ASSUME sock[c] # NoFd
                 PROVE  RequestNoticed(c)' /\ ResetNoticed(c)' /\ EndNoticed(c)'
      BY <1>1 DEF Noticed
    <2>1. Owner(e.fd) = c
      BY <1>3, OwnerIs
    <2>2. inbox[c] = <<>> /\ peer[c] # "fin" /\ ~e.hup
      BY <1>3, <2>1, ClientAssumption DEF ReceiveNothing
    <2>3. Current(t) < eNum => events[Current(t)] # [fd |-> sock[c], hup |-> TRUE]
      <3>1. Current(t) < eNum => Slot(Current(t)) = events[Current(t)]
        BY <1>1, OtherSlot
      <3>2. QED
        BY <2>2, <3>1
    <2>4. HangsUp(c) => HangsUp(c)'
      BY <1>0, <1>1, <2>3, HangsUpStays
    <2>5. QED
      BY <1>1, <2>2, <2>4 DEF Noticed, RequestNoticed, ResetNoticed, EndNoticed, Listed
  <1>4. QED
    BY <1>2, <1>3

\* Where no bulletin commands are sent, every request gets a reply.
LEMMA RequestAnswered ==
  ASSUME TypeOK, "bulletin" \notin Commands, NEW n \in Answers(fields.cmd)
  PROVE  n # 0
  <1>1. fields.cmd # "bulletin"
    BY DEF TypeOK
  <1>2. QED
    BY <1>1 DEF Answers

\* A handler's reply keeps the slot of the event it answers.
LEMMA NoticeHandle ==
  ASSUME TypeOK, KernelInv, OutInv, NEW t \in Thread, Handle(t), NEW c \in Client, Noticed(c)
  PROVE  Noticed(c)'
  <1> DEFINE i == Current(t)
             f == Slot(i).fd
  <1>0. KernelTypes /\ SocksInv /\ ThreadTypes /\ ValueTypes /\ PassTypes
    BY TypeParts, KernelParts
  <1>1. /\ Moves(t) /\ EndIteration(t) /\ step[t] = "handle" /\ todo[t] # {} /\ phase = "pass"
        /\ UNCHANGED <<phase, eNum, events, sent, sock, peer, inbox, ready>>
    BY DEF Handle, InPass, Moves
  <1>2. PICK n \in Answers(fields.cmd) :
          out' = IF n = 0 THEN out ELSE [out EXCEPT ![i] = [fd |-> f, messages |-> n]]
    BY DEF Handle
  <1> SUFFICES ASSUME sock[c] # NoFd
               PROVE  RequestNoticed(c)' /\ ResetNoticed(c)' /\ EndNoticed(c)'
    BY <1>1 DEF Noticed
  <1>3. i \in Slots /\ (i < eNum => f = events[i].fd)
    <2>1. i \in Slots
      BY <1>0, <1>1, CurrentHere DEF ThreadTypes
    <2>2. QED
      BY <1>1, <2>1, OtherSlot
  <1> HIDE DEF i, f
  <1>4. RequestNoticed(c)'
    <2>1. Pending(c) => Pending(c)'
      BY <1>0, <1>1, PendingStays
    <2>2. QED
      BY <1>1, <2>1 DEF Noticed, RequestNoticed, Listed
  <1>5. ResetNoticed(c)'
    <2>1. HangsUp(c) => HangsUp(c)'
      BY <1>0, <1>1, HangsUpStays
    <2>2. QED
      BY <1>1, <2>1 DEF Noticed, ResetNoticed, Listed
  <1>6. Answering(c) => Answering(c)'
    <2> SUFFICES ASSUME NEW j \in Slots, j < eNum, out[j].fd = sock[c] PROVE Answering(c)'
      BY DEF Answering
    <2>1. out'[j].fd = sock[c]
      <3>1. CASE j = i /\ n # 0
        <4>1. out[j] # NoReply
          BY DEF NoReply
        <4>2. out[j].fd = f
          BY <1>1, <1>3, <3>1, <4>1 DEF OutInv
        <4>3. out'[j] = [fd |-> f, messages |-> n]
          BY <1>0, <1>2, <1>3, <3>1 DEF ValueTypes
        <4>4. QED
          BY <4>2, <4>3
      <3>2. CASE ~(j = i /\ n # 0)
        <4>1. out'[j] = out[j]
          BY <1>0, <1>2, <3>2 DEF ValueTypes
        <4>2. QED
          BY <4>1
      <3>3. QED
        BY <3>1, <3>2
    <2>2. QED
      BY <1>1, <2>1 DEF Answering
  <1>7. "bulletin" \notin Commands /\ Handling(c) => Handling(c)' \/ Answering(c)'
    <2> SUFFICES ASSUME "bulletin" \notin Commands, NEW u \in Thread,
                        todo[u] # {}, step[u] # "slot", Current(u) < eNum,
                        events[Current(u)].fd = sock[c]
                 PROVE  Handling(c)' \/ Answering(c)'
      BY DEF Handling
    <2>1. CASE u = t
      <3>1. n # 0
        BY RequestAnswered
      <3>2. out'[i] = [fd |-> f, messages |-> n]
        BY <1>0, <1>2, <1>3, <3>1 DEF ValueTypes
      <3>3. i < eNum /\ f = sock[c]
        BY <1>3, <2>1 DEF i
      <3>4. QED
        BY <1>1, <1>3, <3>2, <3>3 DEF Answering
    <2>2. CASE u # t
      <3>1. todo'[u] = todo[u] /\ step'[u] = step[u]
        BY <1>0, <1>1, <2>2 DEF EndIteration, ThreadTypes
      <3>2. Current(u)' = Current(u)
        BY <3>1 DEF Current
      <3>3. QED
        BY <1>1, <3>1, <3>2 DEF Handling
    <2>3. QED
      BY <2>1, <2>2
  <1>8. Pending(c) => Pending(c)'
    BY <1>0, <1>1, PendingStays
  <1>9. EndNoticed(c)'
    BY <1>1, <1>6, <1>7, <1>8 DEF Noticed, EndNoticed, Listed
  <1>10. QED
    BY <1>4, <1>5, <1>9

-----------------------------------------------------------------------------
(* The theorem *)

LEMMA OutStep ==
  ASSUME TypeOK, PhaseInv, OutInv, [Next]_vars
  PROVE  OutInv'
  <1>0. PassTypes /\ ThreadTypes /\ ValueTypes
    BY TypeParts
  <1>1. CASE UNCHANGED <<phase, out, eNum, events>>
    BY <1>1 DEF OutInv
  <1>2. CASE phase' # "pass"
    BY <1>2 DEF OutInv
  <1>3. CASE Wait
    BY <1>3 DEF Wait, PhaseInv, OutInv
  <1>4. ASSUME NEW t \in Thread, Handle(t) PROVE OutInv'
    <2> SUFFICES ASSUME NEW j \in Slots, j < eNum, out'[j] # NoReply
                 PROVE  out'[j].fd = events[j].fd
      BY <1>4 DEF OutInv, Handle
    <2> DEFINE f == Slot(Current(t)).fd
    <2>1. PICK n : out' = IF n = 0 THEN out ELSE [out EXCEPT ![Current(t)] = [fd |-> f, messages |-> n]]
      BY <1>4 DEF Handle
    <2>2. Slot(j) = events[j] /\ phase = "pass"
      BY <1>0, <1>4, Constants DEF Slot, PassTypes, Handle, InPass
    <2>3. CASE out'[j] = out[j]
      BY <2>2, <2>3 DEF OutInv
    <2>4. CASE out'[j] # out[j]
      <3>1. Current(t) = j /\ out'[j] = [fd |-> f, messages |-> n]
        BY <1>0, <2>1, <2>4 DEF ValueTypes
      <3>2. QED
        BY <2>2, <3>1
    <2>5. QED
      BY <2>3, <2>4
  <1>5. CASE Barrier \/ SendSlot \/ BrokenPipe \/ OutOfBounds \/ \E t, u \in Thread : Race(t, u)
    <2>1. phase' # "pass"
      BY <1>5 DEF Barrier, SendSlot, NextSlot, BrokenPipe, OutOfBounds, End, Race
    <2>2. QED
      BY <1>2, <2>1
  <1>6. ASSUME NEW t \in Thread, ThreadStep(t) PROVE OutInv'
    BY <1>1, <1>4, <1>6 DEF ThreadStep, SkipSlot, Accept, AcceptFailed, HangUp, ReceiveEnd,
                            Receive, ReceiveNothing, Parse
  <1>7. ASSUME NEW c \in Client, ClientStep(c) PROVE OutInv'
    BY <1>1, <1>7 DEF ClientStep, Connect, Leave, Ask
  <1>8. QED
    BY <1>1, <1>3, <1>5, <1>6, <1>7 DEF Next

LEMMA NoticeStep ==
  ASSUME TypeOK, KernelInv, PhaseInv, OutInv, NoticeInv, [Next]_vars
  PROVE  NoticeInv'
  <1> SUFFICES ASSUME phase' # "ended", NEW c \in Client PROVE Noticed(c)'
    BY DEF NoticeInv
  <1>1. phase # "ended"
    BY ZenonT(60) DEF Next, Wait, Barrier, SendSlot, BrokenPipe, OutOfBounds, End, ThreadStep, SkipSlot,
           Accept, AtMaster, AcceptFailed, HangUp, ReceiveEnd, Receive, ReceiveNothing, Parse,
           Handle, InPass, Race, ClientStep, Connect, Leave, Ask
  <1>2. Noticed(c)
    BY <1>1 DEF NoticeInv
  <1>3. CASE UNCHANGED vars
    BY <1>2, <1>3 DEF Noticed, RequestNoticed, ResetNoticed, EndNoticed, Listed, Pending,
       HangsUp, Handling, Answering, Unhandled, Current
  <1>4. CASE Wait
    <2>0. PICK n \in 1 .. EventsSize : \E at \in [1 .. n -> 1 .. Len(ready)] : WaitWith(n, at)
      BY <1>4 DEF Wait, WaitWith
    <2>1. PICK at \in [1 .. n -> 1 .. Len(ready)] : WaitWith(n, at)
      BY <2>0
    <2>2. QED
      BY <1>2, <2>1, NoticeWait
  <1>5. CASE Barrier
    BY <1>2, <1>5, NoticeBarrier
  <1>6. CASE SendSlot
    BY <1>2, <1>6, NoticeSend
  <1>7. CASE BrokenPipe \/ OutOfBounds \/ \E t, u \in Thread : Race(t, u)
    BY <1>7 DEF BrokenPipe, OutOfBounds, End, Race
  <1>8. ASSUME NEW t \in Thread, ThreadStep(t) PROVE Noticed(c)'
    BY <1>2, <1>8, NoticeAccept, NoticeClose, NoticeReceive, NoticeRest, NoticeHandle
    DEF ThreadStep
  <1>9. ASSUME NEW d \in Client, ClientStep(d) PROVE Noticed(c)'
    BY <1>2, <1>9, NoticeClient
  <1>10. QED
    BY <1>3, <1>4, <1>5, <1>6, <1>7, <1>8, <1>9 DEF Next

\* Server::loop, startListen and recvInputFromExisting: when epoll_wait is
\* called, every connection on which something has arrived is on the ready
\* list, although each recv takes all that is there and the edge is reported
\* once; with any number of threads, and after crowded passes as well.
THEOREM NothingIsForgotten == Spec => []NothingForgotten
  <1>1. Init => OutInv /\ NoticeInv
    <2> SUFFICES ASSUME Init PROVE OutInv /\ NoticeInv
      OBVIOUS
    <2>1. phase = "wait" /\ \A c \in Client : sock[c] = NoFd
      BY DEF Init
    <2>2. QED
      BY <2>1 DEF OutInv, NoticeInv, Noticed
  <1>2. LoopInv => TypeOK /\ KernelInv /\ PhaseInv
    BY DEF LoopInv
  <1>3. TypeOK /\ KernelInv /\ PhaseInv /\ OutInv /\ NoticeInv /\ [Next]_vars
           => OutInv' /\ NoticeInv'
    BY OutStep, NoticeStep
  <1>4. PhaseInv /\ NoticeInv => NothingForgotten
    <2> SUFFICES ASSUME PhaseInv, NoticeInv, phase = "wait", NEW c \in Client, sock[c] # NoFd,
                        \/ inbox[c] # <<>> \/ peer[c] = "rst"
                        \/ peer[c] = "fin" /\ "bulletin" \notin Commands
                 PROVE  Contains(ready, c)
      BY DEF NothingForgotten
    <2>1. ~Pending(c) /\ ~HangsUp(c) /\ ~Handling(c) /\ ~Answering(c)
      BY DEF Pending, HangsUp, Handling, Answering
    <2>2. QED
      BY <2>1 DEF NoticeInv, Noticed, RequestNoticed, ResetNoticed, EndNoticed, Listed
  <1>5. QED
    BY LoopInvariant, <1>1, <1>2, <1>3, <1>4, PTL DEF Spec
=============================================================================
