------------------------ MODULE QuestionBankProofs ------------------------
(* Theorems about the question side of the server, for any workers, names *)
(* and starting tables.                                                   *)
EXTENDS QuestionBank, SqlConnProofs, FiniteSetTheorems

-----------------------------------------------------------------------------
(* The invariant *)

\* The command of a request decides which plans its handler can have and which
\* names it carries; the subject of a chapter on its way into the table is in
\* subject_cache.
PlanFits(r, p) ==
    /\ r.cmd = "idle" => p = <<>>
    /\ r.cmd = "write subject" =>
        /\ r.s \in Subject
        /\ p \in {<<>>, <<"exists", "insert">>, <<"insert">>, <<"note">>}
    /\ r.cmd = "write chapter" =>
        /\ r.s \in Subject
        /\ r.ch \in Chapter
        /\ \/ p \in {<<>>, <<"exists">>}
           \/ /\ p \in {<<"exists", "insert">>, <<"insert">>, <<"note">>}
              /\ r.s \in subject_cache
    /\ r.cmd \notin {"write subject", "write chapter"} =>
        p \in {<<>>, <<"exists">>, <<"exists", "exists">>, <<"delete">>,
               <<"read">>, <<"count", "list">>, <<"list">>}

\* Chapters appear only under created subjects, in the table and in failed
\* inserts, because what subject_cache holds has been created.
QInv ==
    /\ SqlInv
    /\ TypeOK
    /\ \A t \in Conn : PlanFits(req[t], plan[t])
    /\ \A s \in subject_cache : StoredSubject(s) \in created
    /\ ChapterUnderCreatedSubject
    /\ CachedChapterHasCachedSubject

LEMMA QInitInv == Init => QInv
  <1> SUFFICES ASSUME Init PROVE QInv
    OBVIOUS
  <1>1. SqlInv
    BY SqlInitInv DEF Init
  <1>2. db \in Table /\ work = db
    BY StartAssumption DEF Init, SqlInit
  <1>3. \A k \in Key : k[1] \in {StoredSubject(s) : s \in Subject}
    BY KeyAssumption DEF Rows
  <1>4. TypeOK
    <2>1. NoRequest \in Requests /\ NoRequest.cmd = "idle"
      BY DEF NoRequest, Requests
    <2>2. Status(0) \in Replies
      BY DEF Status, Replies
    <2>3. pending \in [Conn -> 0 .. MaxEvents]
      BY EventsAssumption DEF Init
    <2>4. created \subseteq {StoredSubject(s) : s \in Subject}
      BY <1>3 DEF Init
    <2>5. SqlTypeOK
      BY <1>1 DEF SqlInv
    <2>6. QED
      BY <2>1, <2>2, <2>3, <2>4, <2>5 DEF Init, TypeOK, Plans
  <1>5. \A t \in Conn : PlanFits(req[t], plan[t])
    BY DEF Init, PlanFits, NoRequest
  <1>6. ChapterUnderCreatedSubject
    BY <1>2 DEF Init, SqlInit, ChapterUnderCreatedSubject, HasRow
  <1>7. QED
    BY <1>1, <1>4, <1>5, <1>6 DEF Init, QInv, CachedChapterHasCachedSubject

-----------------------------------------------------------------------------
(* Sequences and sets *)

\* Heads and tails of the plans.
LEMMA PlanFacts ==
  /\ Head(<<"exists">>) = "exists" /\ Tail(<<"exists">>) = <<>>
  /\ Head(<<"exists", "exists">>) = "exists" /\ Tail(<<"exists", "exists">>) = <<"exists">>
  /\ Head(<<"exists", "insert">>) = "exists" /\ Tail(<<"exists", "insert">>) = <<"insert">>
  /\ Head(<<"insert">>) = "insert" /\ Tail(<<"insert">>) = <<>>
  /\ Head(<<"note">>) = "note" /\ Tail(<<"note">>) = <<>>
  /\ Head(<<"delete">>) = "delete" /\ Tail(<<"delete">>) = <<>>
  /\ Head(<<"read">>) = "read" /\ Tail(<<"read">>) = <<>>
  /\ Head(<<"count", "list">>) = "count" /\ Tail(<<"count", "list">>) = <<"list">>
  /\ Head(<<"list">>) = "list" /\ Tail(<<"list">>) = <<>>
  /\ <<"list">> # <<"count", "list">> /\ <<"list">> # <<>>
  OBVIOUS

\* A list of names is finite, so its size is a number.
LEMMA ListingFacts ==
  ASSUME NEW t \in Conn
  PROVE  /\ Listing(t) \subseteq Subject \cup Chapter \cup Question \cup {Undefined}
         /\ Cardinality(Listing(t)) \in Nat
  <1> DEFINE names == Subject \cup Chapter \cup Question \cup {Undefined}
  <1>1. Listing(t) \subseteq names
    <2>1. \A k \in Key : k[1] \in names /\ k[2] \in names \cup {Placeholder}
                                        /\ k[3] \in names \cup {Placeholder}
      BY KeyAssumption DEF Rows, StoredSubject
    <2>2. QED
      BY <2>1 DEF Listing, Stored
  <1>2. IsFiniteSet(names)
    BY FiniteAssumption, FS_Union, FS_Singleton
  <1>3. QED
    BY <1>1, <1>2, FS_Subset, FS_CardinalityType

-----------------------------------------------------------------------------
(* Steps of one worker *)

\* What the invariant needs from a step of worker t that leaves the caches and
\* the history alone.
LEMMA WorkerInv ==
  ASSUME QInv, NEW t \in Conn,
         pending' \in [Conn -> 0 .. MaxEvents],
         req' \in [Conn -> Requests],
         plan' \in [Conn -> Plans],
         reply' \in [Conn -> Replies],
         \A d \in Conn \ {t} : req'[d] = req[d] /\ plan'[d] = plan[d],
         PlanFits(req'[t], plan'[t]),
         subject_counted' \in BOOLEAN,
         UNCHANGED <<subject_cache, chapter_cache, created>>,
         SqlInv', ChapterUnderCreatedSubject'
  PROVE  QInv'
  <1>1. TypeOK'
    BY DEF QInv, TypeOK, SqlInv
  <1>2. \A d \in Conn : PlanFits(req'[d], plan'[d])
    BY DEF QInv
  <1>3. (\A d \in Conn : PlanFits(req[d], plan[d]))'
    BY <1>2 DEF PlanFits
  <1>4. (\A s \in subject_cache : StoredSubject(s) \in created)'
    BY DEF QInv, StoredSubject
  <1>5. CachedChapterHasCachedSubject'
    BY DEF QInv, CachedChapterHasCachedSubject
  <1>6. QED
    BY <1>1, <1>3, <1>4, <1>5 DEF QInv

\* A step that touches no row and no statement keeps chapters where they are.
LEMMA SameRows ==
  ASSUME QInv, UNCHANGED <<db, work, stmt, bound, created>>
  PROVE  ChapterUnderCreatedSubject'
  BY DEF QInv, ChapterUnderCreatedSubject, HasRow

LEMMA SqlSame ==
  ASSUME QInv, UNCHANGED sqlVars
  PROVE  SqlInv'
  BY SqlStepInv DEF QInv

-----------------------------------------------------------------------------
(* A worker takes a request *)

\* The request and the plan that Start gives a worker have their types and fit.
Fits(cmd, s, ch, q, calls, code) ==
    /\ [cmd |-> cmd, s |-> s, ch |-> ch, q |-> q] \in Requests
    /\ calls \in Plans
    /\ code \in {0, 200, 403, 404}
    /\ PlanFits([cmd |-> cmd, s |-> s, ch |-> ch, q |-> q], calls)

LEMMA StartInv ==
  ASSUME QInv, NEW t \in Conn, NEW cmd, NEW s, NEW ch, NEW q, NEW calls, NEW code,
         Start(t, cmd, s, ch, q, calls, code),
         Fits(cmd, s, ch, q, calls, code)
  PROVE  QInv'
  <1> DEFINE r == [cmd |-> cmd, s |-> s, ch |-> ch, q |-> q]
  <1>1. r \in Requests /\ calls \in Plans /\ Status(code) \in Replies
    BY DEF Fits, Status, Replies
  <1>2. pending' \in [Conn -> 0 .. MaxEvents]
    <2>1. pending \in [Conn -> 0 .. MaxEvents] /\ MaxEvents \in Nat
      BY EventsAssumption DEF QInv, TypeOK
    <2>2. pending[t] > 0 /\ pending' = [pending EXCEPT ![t] = pending[t] - 1]
      BY DEF Start
    <2>3. pending[t] - 1 \in 0 .. MaxEvents
      BY <2>1, <2>2
    <2>4. QED
      BY <2>1, <2>2, <2>3
  <1>3. /\ req' = [req EXCEPT ![t] = r]
        /\ plan' = [plan EXCEPT ![t] = calls]
        /\ reply' = [reply EXCEPT ![t] = Status(code)]
        /\ UNCHANGED <<sqlVars, cacheVars>>
    BY DEF Start
  <1>4. PlanFits(r, calls)
    BY DEF Fits
  <1> HIDE DEF r
  <1>5. /\ req' \in [Conn -> Requests] /\ req'[t] = r
        /\ plan' \in [Conn -> Plans] /\ plan'[t] = calls
        /\ reply' \in [Conn -> Replies]
        /\ \A d \in Conn \ {t} : req'[d] = req[d] /\ plan'[d] = plan[d]
    BY <1>1, <1>3 DEF QInv, TypeOK
  <1>6. SqlInv' /\ ChapterUnderCreatedSubject'
    BY <1>3, SqlSame, SameRows DEF sqlVars, cacheVars
  <1>7. subject_counted' \in BOOLEAN /\ UNCHANGED <<subject_cache, chapter_cache, created>>
    BY <1>3 DEF QInv, TypeOK, cacheVars
  <1>8. PlanFits(req'[t], plan'[t])
    BY <1>4, <1>5
  <1>9. QED
    BY <1>2, <1>5, <1>6, <1>7, <1>8, WorkerInv

\* Who takes a request has none, and touches neither the database nor the
\* caches.
Takes(t) == Idle(t) /\ UNCHANGED <<sqlVars, cacheVars>>

LEMMA ReceiveTakes ==
  ASSUME NEW t \in Conn, Receive(t)
  PROVE  Takes(t)
  <1>1. ASSUME NEW cmd, NEW s, NEW ch, NEW q, NEW calls, NEW code,
               Start(t, cmd, s, ch, q, calls, code)
        PROVE  Takes(t)
    BY <1>1 DEF Start, Takes
  <1>2. CASE GetSubjects(t)
    BY <1>1, <1>2, ZenonT(60) DEF GetSubjects
  <1>3. ASSUME NEW s \in Subject, GetChapters(t, s) PROVE Takes(t)
    BY <1>1, <1>3, ZenonT(60) DEF GetChapters
  <1>4. ASSUME NEW s \in Subject, AddSubject(t, s) PROVE Takes(t)
    BY <1>1, <1>4, ZenonT(60) DEF AddSubject
  <1>5. ASSUME NEW s \in Subject, NEW ch \in Chapter, GetQuestions(t, s, ch) PROVE Takes(t)
    BY <1>1, <1>5, ZenonT(60) DEF GetQuestions
  <1>6. ASSUME NEW s \in Subject, NEW ch \in Chapter, AddChapter(t, s, ch) PROVE Takes(t)
    BY <1>1, <1>6, ZenonT(60) DEF AddChapter
  <1>7. ASSUME NEW s \in Subject, NEW ch \in Chapter, NEW q \in Question,
               ReadQuestion(t, s, ch, q)
        PROVE  Takes(t)
    BY <1>1, <1>7, ZenonT(60) DEF ReadQuestion
  <1>8. ASSUME NEW s \in Subject, NEW ch \in Chapter, NEW q \in Question,
               WriteQuestion(t, s, ch, q)
        PROVE  Takes(t)
    BY <1>1, <1>8, ZenonT(60) DEF WriteQuestion
  <1>9. ASSUME NEW s \in Subject, NEW ch \in Chapter, NEW q \in Question,
               DeleteQuestion(t, s, ch, q)
        PROVE  Takes(t)
    BY <1>1, <1>9, ZenonT(60) DEF DeleteQuestion
  <1>10. QED
    BY <1>2, <1>3, <1>4, <1>5, <1>6, <1>7, <1>8, <1>9 DEF Receive

LEMMA ReceiveInv ==
  ASSUME QInv, NEW t \in Conn, Receive(t)
  PROVE  QInv'
  <1>1. CASE GetSubjects(t)
    <2>1. CASE subject_counted
      <3>1. Start(t, "get subjects", Empty, Empty, Empty, <<"list">>, 200)
        BY <1>1, <2>1 DEF GetSubjects
      <3>2. Fits("get subjects", Empty, Empty, Empty, <<"list">>, 200)
        BY SMTT(30) DEF Fits, Requests, Commands, Plans, PlanFits
      <3>3. QED
        BY <3>1, <3>2, StartInv, ZenonT(60)
    <2>2. CASE ~subject_counted
      <3>1. Start(t, "get subjects", Empty, Empty, Empty, <<"count", "list">>, 200)
        BY <1>1, <2>2 DEF GetSubjects
      <3>2. Fits("get subjects", Empty, Empty, Empty, <<"count", "list">>, 200)
        BY SMTT(30) DEF Fits, Requests, Commands, Plans, PlanFits
      <3>3. QED
        BY <3>1, <3>2, StartInv, ZenonT(60)
    <2>3. QED
      BY <2>1, <2>2
  <1>2. ASSUME NEW s \in Subject, GetChapters(t, s) PROVE QInv'
    <2>1. Start(t, "get chapters", s, Empty, Empty, <<"count", "list">>, 200)
      BY <1>2 DEF GetChapters
    <2>2. Fits("get chapters", s, Empty, Empty, <<"count", "list">>, 200)
      BY SMTT(30) DEF Fits, Requests, Commands, Plans, PlanFits
    <2>3. QED
      BY <2>1, <2>2, StartInv, ZenonT(60)
  <1>3. ASSUME NEW s \in Subject, AddSubject(t, s) PROVE QInv'
    <2>1. CASE Start(t, "write subject", s, Empty, Empty, <<>>, 403)
      <3>1. Fits("write subject", s, Empty, Empty, <<>>, 403)
        BY SMTT(30) DEF Fits, Requests, Commands, Plans, PlanFits
      <3>2. QED
        BY <2>1, <3>1, StartInv, ZenonT(60)
    <2>2. CASE Start(t, "write subject", s, Empty, Empty, <<"exists", "insert">>, 0)
      <3>1. Fits("write subject", s, Empty, Empty, <<"exists", "insert">>, 0)
        BY SMTT(30) DEF Fits, Requests, Commands, Plans, PlanFits
      <3>2. QED
        BY <2>2, <3>1, StartInv, ZenonT(60)
    <2>3. QED
      BY <1>3, <2>1, <2>2 DEF AddSubject
  <1>4. ASSUME NEW s \in Subject, NEW ch \in Chapter, GetQuestions(t, s, ch) PROVE QInv'
    <2>1. Start(t, "get questions", s, ch, Empty, <<"count", "list">>, 200)
      BY <1>4 DEF GetQuestions
    <2>2. Fits("get questions", s, ch, Empty, <<"count", "list">>, 200)
      BY SMTT(30) DEF Fits, Requests, Commands, Plans, PlanFits
    <2>3. QED
      BY <2>1, <2>2, StartInv, ZenonT(60)
  <1>5. ASSUME NEW s \in Subject, NEW ch \in Chapter, AddChapter(t, s, ch) PROVE QInv'
    <2>1. CASE Start(t, "write chapter", s, ch, Empty, <<"exists">>, 403)
      <3>1. Fits("write chapter", s, ch, Empty, <<"exists">>, 403)
        BY SMTT(30) DEF Fits, Requests, Commands, Plans, PlanFits
      <3>2. QED
        BY <2>1, <3>1, StartInv, ZenonT(60)
    <2>2. CASE Start(t, "write chapter", s, ch, Empty, <<>>, 403)
      <3>1. Fits("write chapter", s, ch, Empty, <<>>, 403)
        BY SMTT(30) DEF Fits, Requests, Commands, Plans, PlanFits
      <3>2. QED
        BY <2>2, <3>1, StartInv, ZenonT(60)
    <2>3. CASE s \in subject_cache /\ Start(t, "write chapter", s, ch, Empty, <<"exists", "insert">>, 0)
      <3>1. Fits("write chapter", s, ch, Empty, <<"exists", "insert">>, 0)
        <4>1. s \in subject_cache
          BY <2>3
        <4>2. QED
          BY <4>1, SMTT(30) DEF Fits, Requests, Commands, Plans, PlanFits
      <3>2. QED
        BY <2>3, <3>1, StartInv, ZenonT(60)
    <2>4. QED
      BY <1>5, <2>1, <2>2, <2>3 DEF AddChapter
  <1>6. ASSUME NEW s \in Subject, NEW ch \in Chapter, NEW q \in Question,
               ReadQuestion(t, s, ch, q)
        PROVE  QInv'
    <2>1. Start(t, "read question", s, ch, q, <<"read">>, 200)
      BY <1>6 DEF ReadQuestion
    <2>2. Fits("read question", s, ch, q, <<"read">>, 200)
      BY SMTT(30) DEF Fits, Requests, Commands, Plans, PlanFits
    <2>3. QED
      BY <2>1, <2>2, StartInv, ZenonT(60)
  <1>7. ASSUME NEW s \in Subject, NEW ch \in Chapter, NEW q \in Question,
               WriteQuestion(t, s, ch, q)
        PROVE  QInv'
    <2>1. Start(t, "write question", s, ch, q, <<"exists", "exists">>, 403)
      BY <1>7 DEF WriteQuestion
    <2>2. Fits("write question", s, ch, q, <<"exists", "exists">>, 403)
      BY SMTT(30) DEF Fits, Requests, Commands, Plans, PlanFits
    <2>3. QED
      BY <2>1, <2>2, StartInv, ZenonT(60)
  <1>8. ASSUME NEW s \in Subject, NEW ch \in Chapter, NEW q \in Question,
               DeleteQuestion(t, s, ch, q)
        PROVE  QInv'
    <2>1. Start(t, "delete question", s, ch, q, <<"delete">>, 0)
      BY <1>8 DEF DeleteQuestion
    <2>2. Fits("delete question", s, ch, q, <<"delete">>, 0)
      BY SMTT(30) DEF Fits, Requests, Commands, Plans, PlanFits
    <2>3. QED
      BY <2>1, <2>2, StartInv, ZenonT(60)
  <1>9. QED
    BY <1>1, <1>2, <1>3, <1>4, <1>5, <1>6, <1>7, <1>8 DEF Receive

-----------------------------------------------------------------------------
(* Calls that read *)

\* Every call of the database layer keeps the layer's own invariant.
LEMMA CallInv ==
  ASSUME QInv, NEW t \in Conn, SqlCall(t)
  PROVE  SqlInv'
  BY SqlStepInv DEF QInv, SqlNext

\* A handler whose plan has lost a call that is no INSERT is still well-formed.
LEMMA AdvanceFits ==
  ASSUME QInv, NEW t \in Conn, Advance(t),
         \E step \in {"exists", "delete", "count", "list", "read"} : At(t, step)
  PROVE  /\ plan' \in [Conn -> Plans]
         /\ \A d \in Conn \ {t} : plan'[d] = plan[d]
         /\ PlanFits(req[t], plan'[t])
  <1> DEFINE r == req[t]
             p == plan[t]
  <1>1. plan' = [plan EXCEPT ![t] = Tail(p)] /\ plan \in [Conn -> Plans]
    BY DEF Advance, QInv, TypeOK
  <1>2. p \in Plans /\ PlanFits(r, p)
    BY DEF QInv, TypeOK
  <1>3. p # <<>> /\ Head(p) \in {"exists", "delete", "count", "list", "read"}
    BY DEF At
  <1> HIDE DEF p, r
  <1>4. p \in {<<"exists">>, <<"exists", "exists">>, <<"exists", "insert">>, <<"delete">>,
               <<"read">>, <<"count", "list">>, <<"list">>}
    <2>1. p # <<"insert">> /\ p # <<"note">>
      BY <1>3, PlanFacts
    <2>2. QED
      BY <1>2, <1>3, <2>1 DEF Plans
  <1>5. Tail(p) \in Plans
    BY <1>4, PlanFacts DEF Plans
  <1>6. PlanFits(r, Tail(p))
    <2>1. CASE p = <<"exists", "exists">>
      <3>1. Tail(p) = <<"exists">>
        BY <2>1, PlanFacts
      <3>2. QED
        BY <1>2, <2>1, <3>1 DEF PlanFits
    <2>2. CASE p = <<"exists", "insert">>
      <3>1. Tail(p) = <<"insert">>
        BY <2>2, PlanFacts
      <3>2. QED
        BY <1>2, <2>2, <3>1 DEF PlanFits
    <2>3. CASE p = <<"count", "list">>
      <3>1. Tail(p) = <<"list">>
        BY <2>3, PlanFacts
      <3>2. QED
        BY <1>2, <2>3, <3>1 DEF PlanFits
    <2>4. CASE p \in {<<"exists">>, <<"delete">>, <<"read">>, <<"list">>}
      <3>1. Tail(p) = <<>>
        BY <2>4, PlanFacts
      <3>2. QED
        BY <1>2, <3>1 DEF PlanFits
    <2>5. QED
      BY <1>4, <2>1, <2>2, <2>3, <2>4
  <1>7. QED
    BY <1>1, <1>5, <1>6 DEF p, r

\* Exists, Count, List and Read: a SELECT is finished and the plan goes on.
LEMMA SelectStepInv ==
  ASSUME QInv, NEW t \in Conn, FinishSelect(t), Advance(t),
         \E step \in {"exists", "count", "list", "read"} : At(t, step),
         reply' \in [Conn -> Replies], subject_counted' \in BOOLEAN,
         UNCHANGED <<pending, req, subject_cache, chapter_cache, created>>
  PROVE  QInv'
  <1>1. SqlInv'
    BY CallInv DEF SqlCall
  <1>2. ChapterUnderCreatedSubject'
    BY SameRows DEF FinishSelect
  <1>3. /\ plan' \in [Conn -> Plans]
        /\ \A d \in Conn \ {t} : plan'[d] = plan[d]
        /\ PlanFits(req[t], plan'[t])
    BY AdvanceFits
  <1>4. PlanFits(req'[t], plan'[t])
    BY <1>3
  <1>5. req' \in [Conn -> Requests] /\ pending' \in [Conn -> 0 .. MaxEvents]
    BY DEF QInv, TypeOK
  <1>6. QED
    BY <1>1, <1>2, <1>3, <1>4, <1>5, WorkerInv

\* A reply settled for worker t is a reply.
LEMMA SettleType ==
  ASSUME QInv, NEW t \in Conn, NEW r \in Replies, Settle(t, r)
  PROVE  reply' \in [Conn -> Replies]
  BY DEF QInv, TypeOK, Settle

LEMMA SelectInvs ==
  ASSUME QInv, NEW t \in Conn, Exists(t) \/ Read(t) \/ Count(t) \/ List(t)
  PROVE  QInv'
  <1>1. CASE Exists(t) \/ Read(t)
    <2>1. reply' \in [Conn -> Replies] /\ subject_counted' \in BOOLEAN
      BY <1>1 DEF Exists, Read, QInv, TypeOK, cacheVars
    <2>2. QED
      BY <1>1, <2>1, SelectStepInv DEF Exists, Read, cacheVars
  <1>2. CASE Count(t)
    <2>1. [code |-> 200, counts |-> Counted(t), items |-> {}] \in Replies
      BY ListingFacts DEF Replies, Counted
    <2>2. reply' \in [Conn -> Replies]
      BY <1>2, <2>1, SettleType DEF Count
    <2>3. subject_counted' \in BOOLEAN
      BY <1>2 DEF Count, QInv, TypeOK
    <2>4. QED
      BY <1>2, <2>2, <2>3, SelectStepInv DEF Count
  <1>3. CASE List(t)
    <2> DEFINE n == IF req[t].cmd = "get chapters" THEN reply[t].counts
                                                   ELSE Cardinality(Listing(t))
    <2>1. n \in Nat
      <3>1. reply[t] \in Replies
        BY DEF QInv, TypeOK
      <3>2. reply[t].counts \in Nat
        BY <3>1 DEF Replies
      <3>3. QED
        BY <3>2, ListingFacts
    <2>2. Settle(t, [code |-> 200, items |-> Listing(t), counts |-> n])
      BY <1>3 DEF List
    <2> HIDE DEF n
    <2>3. [code |-> 200, items |-> Listing(t), counts |-> n] \in Replies
      BY <2>1, ListingFacts DEF Replies
    <2>4. reply' \in [Conn -> Replies]
      BY <2>2, <2>3, SettleType
    <2>5. subject_counted' \in BOOLEAN
      BY <1>3 DEF List, QInv, TypeOK, cacheVars
    <2>6. QED
      BY <1>3, <2>4, <2>5, SelectStepInv DEF List, cacheVars
  <1>4. QED
    BY <1>1, <1>2, <1>3

-----------------------------------------------------------------------------
(* Steps that leave the plan alone, and the answer *)

LEMMA QuietInv ==
  ASSUME QInv, pending' \in [Conn -> 0 .. MaxEvents],
         UNCHANGED <<req, plan, reply, cacheVars>>,
         UNCHANGED <<db, work, stmt, bound>>, SqlInv'
  PROVE  QInv'
  <1>1. TypeOK'
    BY DEF QInv, TypeOK, SqlInv, cacheVars
  <1>2. (\A d \in Conn : PlanFits(req[d], plan[d]))'
    BY DEF QInv, PlanFits, cacheVars
  <1>3. ChapterUnderCreatedSubject' /\ CachedChapterHasCachedSubject'
    BY SameRows DEF QInv, CachedChapterHasCachedSubject, cacheVars
  <1>4. QED
    BY <1>1, <1>2, <1>3 DEF QInv, cacheVars, StoredSubject

LEMMA StartPassInv == QInv /\ StartPass => QInv'
  <1> SUFFICES ASSUME QInv, StartPass PROVE QInv'
    OBVIOUS
  <1>1. UNCHANGED sqlVars /\ UNCHANGED <<req, plan, reply, cacheVars>>
        /\ pending' \in [Conn -> 0 .. MaxEvents]
    BY DEF StartPass
  <1>2. QED
    BY <1>1, SqlSame, QuietInv DEF sqlVars

LEMMA BeginStepInv ==
  ASSUME QInv, NEW t \in Conn, Begin(t)
  PROVE  QInv'
  <1>1. SqlInv'
    BY CallInv DEF Begin, SqlCall
  <1>2. QED
    BY <1>1, QuietInv DEF Begin, BeginImmediate, handlerVars, QInv, TypeOK

LEMMA AnswerInv ==
  ASSUME QInv, NEW t \in Conn, Answer(t)
  PROVE  QInv'
  <1>1. NoRequest \in Requests /\ NoRequest.cmd = "idle" /\ Status(0) \in Replies
    BY DEF NoRequest, Requests, Status, Replies
  <1>2. reply' \in [Conn -> Replies]
    BY <1>1, SettleType DEF Answer
  <1>3. /\ req' \in [Conn -> Requests] /\ req'[t] = NoRequest
        /\ \A d \in Conn \ {t} : req'[d] = req[d]
    BY <1>1 DEF Answer, QInv, TypeOK
  <1>4. PlanFits(req'[t], plan'[t])
    BY <1>1, <1>3 DEF Answer, PlanFits
  <1>5. SqlInv' /\ ChapterUnderCreatedSubject'
    BY SqlSame, SameRows DEF Answer, sqlVars, cacheVars
  <1>6. QED
    BY <1>2, <1>3, <1>4, <1>5, WorkerInv DEF Answer, QInv, TypeOK, cacheVars

-----------------------------------------------------------------------------
(* Calls that write *)

\* A handler about to insert: its row is a key, and if it is the row of a
\* chapter the subject has been created.
LEMMA NewRowFacts ==
  ASSUME QInv, NEW t \in Conn, At(t, "insert")
  PROVE  /\ req[t].cmd \in {"write subject", "write chapter"}
         /\ NewRow(t) \in Key
         /\ NewRow(t)[2] # Placeholder => NewRow(t)[1] \in created
         /\ req[t].cmd = "write chapter" => req[t].s \in subject_cache
  <1> DEFINE r == req[t]
             p == plan[t]
  <1>1. PlanFits(r, p) /\ p # <<>> /\ Head(p) = "insert"
    BY DEF QInv, At
  <1> HIDE DEF p
  <1>2. /\ p # <<"exists">> /\ p # <<"exists", "exists">> /\ p # <<"delete">>
        /\ p # <<"read">> /\ p # <<"count", "list">> /\ p # <<"list">>
    BY <1>1, PlanFacts
  <1>3. r.cmd \in {"write subject", "write chapter"}
    BY <1>1, <1>2 DEF PlanFits
  <1>4. CASE r.cmd = "write subject"
    <2>1. r.s \in Subject /\ NewRow(t) = <<StoredSubject(r.s), Placeholder, Placeholder>>
      BY <1>1, <1>4 DEF PlanFits, NewRow
    <2>2. NewRow(t) \in Key
      BY <2>1, KeyAssumption DEF Rows
    <2>3. NewRow(t)[2] = Placeholder
      BY <2>1
    <2>4. QED
      BY <1>3, <1>4, <2>2, <2>3
  <1>5. CASE r.cmd = "write chapter"
    <2>1. r.s \in Subject /\ r.ch \in Chapter /\ r.s \in subject_cache
      BY <1>1, <1>2, <1>5 DEF PlanFits
    <2>2. NewRow(t) = <<StoredSubject(r.s), r.ch, Placeholder>>
      BY <1>5 DEF NewRow
    <2>3. NewRow(t) \in Key
      BY <2>1, <2>2, KeyAssumption DEF Rows
    <2>4. NewRow(t)[1] \in created
      BY <2>1, <2>2 DEF QInv
    <2>5. QED
      BY <1>3, <2>1, <2>3, <2>4
  <1>6. QED
    BY <1>3, <1>4, <1>5

\* The row that is executed, new or left over from a failed insert.
LEMMA BoundRowFacts ==
  ASSUME QInv, NEW t \in Conn, At(t, "insert")
  PROVE  LET row == BoundRow(t, NewRow(t), Placeholder)
         IN  /\ row \in Key \X Val
             /\ row[1][2] # Placeholder => row[1][1] \in created
  <1>1. CASE stmt[t] = "reset"
    BY <1>1, NewRowFacts, TextAssumption DEF BoundRow
  <1>2. CASE stmt[t] # "reset"
    BY <1>2 DEF BoundRow, QInv, SqlInv, ChapterUnderCreatedSubject
  <1>3. QED
    BY <1>1, <1>2

\* What a connection sees has chapters under created subjects only.
LEMMA ViewChapters ==
  ASSUME QInv, NEW t \in Conn
  PROVE  \A k \in Key : View(t)[k] # NoVal /\ k[2] # Placeholder => k[1] \in created
  BY DEF QInv, ChapterUnderCreatedSubject, HasRow, View

\* The table keeps its chapters under created subjects when every row of its
\* successor was seen before and the statements stay as they are.
LEMMA FewerRows ==
  ASSUME QInv, NEW t \in Conn, NEW u \in Table,
         \A k \in Key : u[k] # NoVal => View(t)[k] # NoVal,
         WriteTo(t, u), UNCHANGED <<stmt, bound, created>>
  PROVE  ChapterUnderCreatedSubject'
  <1>1. work' = u /\ db' \in {u, db}
    BY DEF WriteTo, KeepOpen, CommitTo
  <1>2. \A k \in Key : (db'[k] # NoVal \/ work'[k] # NoVal) /\ k[2] # Placeholder
                            => k[1] \in created
    BY <1>1, ViewChapters DEF QInv, ChapterUnderCreatedSubject, HasRow
  <1>3. QED
    BY <1>2 DEF QInv, ChapterUnderCreatedSubject, HasRow

LEMMA InsertDoneChapters ==
  ASSUME QInv, NEW t \in Conn, At(t, "insert"), UNCHANGED created,
         InsertDone(t, NewRow(t), Placeholder)
  PROVE  ChapterUnderCreatedSubject'
  <1> DEFINE row == BoundRow(t, NewRow(t), Placeholder)
             u == [View(t) EXCEPT ![row[1]] = row[2]]
  <1>1. /\ db' = u /\ work' = u
        /\ stmt' = [stmt EXCEPT ![t] = "reset"]
        /\ bound' = [bound EXCEPT ![t] = NoRow]
    BY DEF InsertDone, CommitTo
  <1>2. row \in Key \X Val /\ (row[1][2] # Placeholder => row[1][1] \in created)
    BY BoundRowFacts
  <1>3. View(t) \in Table
    BY ViewFacts DEF QInv
  <1> HIDE DEF row
  <1>4. \A k \in Key : u[k] # NoVal /\ k[2] # Placeholder => k[1] \in created
    BY <1>2, <1>3, ViewChapters DEF Table
  <1> HIDE DEF u
  <1>5. \A d \in Conn : stmt'[d] # "reset" /\ bound'[d][1][2] # Placeholder
                            => bound'[d][1][1] \in created
    BY <1>1 DEF QInv, SqlInv, SqlTypeOK, ChapterUnderCreatedSubject
  <1>6. QED
    BY <1>1, <1>4, <1>5 DEF ChapterUnderCreatedSubject, HasRow

LEMMA InsertFailedChapters ==
  ASSUME QInv, NEW t \in Conn, At(t, "insert"), UNCHANGED created,
         InsertFailed(t, NewRow(t), Placeholder)
  PROVE  ChapterUnderCreatedSubject'
  <1> DEFINE row == BoundRow(t, NewRow(t), Placeholder)
  <1>1. /\ UNCHANGED <<db, work>>
        /\ \/ stmt' = [stmt EXCEPT ![t] = "failed"]
           \/ stmt' = [stmt EXCEPT ![t] = "busy"]
        /\ bound' = [bound EXCEPT ![t] = row]
    BY DEF InsertFailed
  <1>2. row \in Key \X Val /\ (row[1][2] # Placeholder => row[1][1] \in created)
    BY BoundRowFacts
  <1> HIDE DEF row
  <1>3. \A d \in Conn : stmt'[d] # "reset" /\ bound'[d][1][2] # Placeholder
                            => bound'[d][1][1] \in created
    BY <1>1, <1>2 DEF QInv, SqlInv, SqlTypeOK, ChapterUnderCreatedSubject
  <1>4. QED
    BY <1>1, <1>3 DEF QInv, ChapterUnderCreatedSubject, HasRow

LEMMA InsertRowInv ==
  ASSUME QInv, NEW t \in Conn, InsertRow(t)
  PROVE  QInv'
  <1>1. At(t, "insert") /\ Insert(t, NewRow(t), Placeholder)
        /\ UNCHANGED <<pending, req, cacheVars>>
    BY DEF InsertRow
  <1>2. SqlInv'
    BY <1>1, NewRowFacts, TextAssumption, CallInv DEF SqlCall
  <1>3. ChapterUnderCreatedSubject'
    BY <1>1, InsertDoneChapters, InsertFailedChapters DEF Insert, cacheVars
  <1>4. \E p \in {<<>>, <<"note">>}, code \in {200, 403} :
            plan' = [plan EXCEPT ![t] = p] /\ Settle(t, Status(code))
    BY DEF InsertRow
  <1>5. PICK p \in {<<>>, <<"note">>}, code \in {200, 403} :
            plan' = [plan EXCEPT ![t] = p] /\ Settle(t, Status(code))
    BY <1>4
  <1>6. reply' \in [Conn -> Replies]
    <2>1. Status(code) \in Replies
      BY DEF Status, Replies
    <2>2. QED
      BY <1>5, <2>1, SettleType
  <1>7. PlanFits(req[t], p)
    <2>1. PlanFits(req[t], plan[t])
      BY DEF QInv
    <2>2. CASE req[t].cmd = "write subject"
      BY <1>5, <2>1, <2>2 DEF PlanFits
    <2>3. CASE req[t].cmd = "write chapter"
      <3>1. req[t].s \in Subject /\ req[t].ch \in Chapter
        BY <2>1, <2>3 DEF PlanFits
      <3>2. req[t].s \in subject_cache
        BY <1>1, <2>3, NewRowFacts
      <3>3. QED
        BY <1>5, <2>3, <3>1, <3>2 DEF PlanFits
    <2>4. QED
      BY <1>1, <2>2, <2>3, NewRowFacts
  <1>8. /\ plan' \in [Conn -> Plans] /\ plan'[t] = p
        /\ \A d \in Conn \ {t} : plan'[d] = plan[d]
    <2>1. p \in Plans
      BY DEF Plans
    <2>2. QED
      BY <1>5, <2>1 DEF QInv, TypeOK
  <1>9. PlanFits(req'[t], plan'[t])
    BY <1>1, <1>7, <1>8
  <1>10. QED
    BY <1>1, <1>2, <1>3, <1>6, <1>8, <1>9, WorkerInv DEF QInv, TypeOK, cacheVars

LEMMA RemoveRowInv ==
  ASSUME QInv, NEW t \in Conn, RemoveRow(t)
  PROVE  QInv'
  <1> DEFINE K == Named(t)
  <1>1. SqlInv' /\ ChapterUnderCreatedSubject'
    <2>1. CASE Delete(t, K)
      <3>1. SqlInv'
        BY <2>1, CallInv DEF SqlCall, Named
      <3>2. CASE CanWrite(t)
        <4> DEFINE u == [k \in Key |-> IF k \in K THEN NoVal ELSE View(t)[k]]
        <4>1. WriteTo(t, u) /\ UNCHANGED <<stmt, bound, created>>
          BY <2>1, <3>2 DEF Delete, RemoveRow, cacheVars
        <4>2. u \in Table /\ \A k \in Key : u[k] # NoVal => View(t)[k] # NoVal
          BY ViewFacts DEF QInv, Table
        <4> HIDE DEF u
        <4>3. QED
          BY <3>1, <4>1, <4>2, FewerRows
      <3>3. CASE ~CanWrite(t)
        BY <2>1, <3>1, <3>3, SameRows DEF Delete, RemoveRow, cacheVars
      <3>4. QED
        BY <3>2, <3>3
    <2>2. CASE RejectDelete(t)
      BY <2>2, CallInv, SameRows DEF RejectDelete, SqlCall, RemoveRow, cacheVars
    <2>3. QED
      BY <2>1, <2>2 DEF RemoveRow
  <1>2. \E r \in {Status(200), Status(404)} : Settle(t, r)
    BY DEF RemoveRow
  <1>3. reply' \in [Conn -> Replies]
    BY <1>2, SettleType DEF Status, Replies
  <1>4. At(t, "delete") /\ Advance(t) /\ UNCHANGED <<pending, req, cacheVars>>
    BY DEF RemoveRow
  <1>5. /\ plan' \in [Conn -> Plans]
        /\ \A d \in Conn \ {t} : plan'[d] = plan[d]
        /\ PlanFits(req[t], plan'[t])
    BY <1>4, AdvanceFits
  <1>6. PlanFits(req'[t], plan'[t])
    BY <1>4, <1>5
  <1>7. QED
    BY <1>1, <1>3, <1>4, <1>5, <1>6, WorkerInv DEF QInv, TypeOK, cacheVars

-----------------------------------------------------------------------------
(* The caches *)

\* A handler about to note has no call left after that.
LEMMA NoteFacts ==
  ASSUME QInv, NEW t \in Conn, At(t, "note"), Advance(t)
  PROVE  /\ plan' = [plan EXCEPT ![t] = <<>>]
         /\ plan[t] = <<"note">>
  <1> DEFINE p == plan[t]
  <1>1. p \in Plans /\ p # <<>> /\ Head(p) = "note"
    BY DEF QInv, TypeOK, At
  <1>2. plan' = [plan EXCEPT ![t] = Tail(p)]
    BY DEF Advance
  <1> HIDE DEF p
  <1>3. p = <<"note">>
    BY <1>1, PlanFacts DEF Plans
  <1>4. QED
    BY <1>2, <1>3, PlanFacts DEF p

\* What both notes do to the plans: subject_cache and created only grow.
LEMMA NotePlans ==
  ASSUME QInv, NEW t \in Conn, At(t, "note"), Advance(t), UNCHANGED req,
         subject_cache \subseteq subject_cache'
  PROVE  /\ plan' \in [Conn -> Plans]
         /\ (\A d \in Conn : PlanFits(req[d], plan[d]))'
  <1>1. plan' = [plan EXCEPT ![t] = <<>>] /\ plan[t] = <<"note">>
    BY NoteFacts
  <1>2. plan' \in [Conn -> Plans]
    BY <1>1 DEF QInv, TypeOK, Plans
  <1>3. \A d \in Conn : PlanFits(req[d], plan'[d])
    BY <1>1 DEF QInv, TypeOK, PlanFits
  <1>4. QED
    BY <1>2, <1>3 DEF PlanFits

LEMMA NoteSubjectInv ==
  ASSUME QInv, NEW t \in Conn, NoteSubject(t)
  PROVE  QInv'
  <1>1. /\ At(t, "note") /\ Advance(t) /\ UNCHANGED <<sqlVars, pending, req, reply, chapter_cache, subject_counted>>
        /\ subject_cache \subseteq subject_cache'
        /\ subject_cache' \subseteq subject_cache \cup {req[t].s}
        /\ created' = created \cup {StoredSubject(req[t].s)}
        /\ req[t].cmd = "write subject"
    BY DEF NoteSubject
  <1>2. req[t].s \in Subject
    BY <1>1 DEF QInv, PlanFits
  <1>3. SqlInv'
    BY <1>1, SqlSame
  <1>4. plan' \in [Conn -> Plans] /\ (\A d \in Conn : PlanFits(req[d], plan[d]))'
    BY <1>1, NotePlans
  <1>5. TypeOK'
    BY <1>1, <1>2, <1>3, <1>4 DEF QInv, TypeOK, SqlInv
  <1>6. (\A s \in subject_cache : StoredSubject(s) \in created)'
    BY <1>1 DEF QInv, StoredSubject
  <1>7. ChapterUnderCreatedSubject'
    BY <1>1 DEF QInv, ChapterUnderCreatedSubject, HasRow, sqlVars
  <1>8. CachedChapterHasCachedSubject'
    BY <1>1 DEF QInv, CachedChapterHasCachedSubject
  <1>9. QED
    BY <1>3, <1>4, <1>5, <1>6, <1>7, <1>8 DEF QInv

LEMMA NoteChapterInv ==
  ASSUME QInv, NEW t \in Conn, NoteChapter(t)
  PROVE  QInv'
  <1>1. /\ At(t, "note") /\ Advance(t)
        /\ UNCHANGED <<sqlVars, pending, req, reply, subject_cache, subject_counted, created>>
        /\ chapter_cache' \in {chapter_cache,
                               [chapter_cache EXCEPT ![req[t].s] = @ \cup {req[t].ch}]}
        /\ req[t].cmd = "write chapter"
    BY DEF NoteChapter
  <1>2. req[t].s \in Subject /\ req[t].ch \in Chapter /\ req[t].s \in subject_cache
    <2>1. PlanFits(req[t], plan[t]) /\ plan[t] = <<"note">>
      BY <1>1, NoteFacts DEF QInv
    <2>2. plan[t] # <<>> /\ plan[t] # <<"exists">>
      <3>1. Head(plan[t]) = "note"
        BY <2>1, PlanFacts
      <3>2. QED
        BY <1>1, <3>1, PlanFacts DEF At
    <2>3. QED
      BY <1>1, <2>1, <2>2 DEF PlanFits
  <1>3. SqlInv'
    BY <1>1, SqlSame
  <1>4. plan' \in [Conn -> Plans] /\ (\A d \in Conn : PlanFits(req[d], plan[d]))'
    BY <1>1, NotePlans
  <1>5. chapter_cache' \in [Subject -> SUBSET Chapter]
    <2>1. chapter_cache \in [Subject -> SUBSET Chapter]
      BY DEF QInv, TypeOK
    <2>2. chapter_cache[req[t].s] \cup {req[t].ch} \in SUBSET Chapter
      BY <1>2, <2>1
    <2>3. [chapter_cache EXCEPT ![req[t].s] = @ \cup {req[t].ch}] \in [Subject -> SUBSET Chapter]
      BY <2>1, <2>2
    <2>4. QED
      BY <1>1, <2>1, <2>3
  <1>6. TypeOK'
    <2>1. UNCHANGED <<pending, req, reply, subject_cache, subject_counted, created>>
      BY <1>1
    <2>2. SqlTypeOK'
      BY <1>3 DEF SqlInv
    <2>3. QED
      BY <1>4, <1>5, <2>1, <2>2 DEF QInv, TypeOK
  <1>7. (\A s \in subject_cache : StoredSubject(s) \in created)'
    BY <1>1 DEF QInv, StoredSubject
  <1>8. ChapterUnderCreatedSubject'
    BY <1>1, SameRows DEF sqlVars
  <1>9. CachedChapterHasCachedSubject'
    BY <1>1, <1>2 DEF QInv, TypeOK, CachedChapterHasCachedSubject
  <1>10. QED
    BY <1>3, <1>4, <1>6, <1>7, <1>8, <1>9 DEF QInv

-----------------------------------------------------------------------------
(* Restart, the whole next-state relation, and the theorems *)

LEMMA RestartInv == QInv /\ Restart => QInv'
  <1> SUFFICES ASSUME QInv, Restart PROVE QInv'
    OBVIOUS
  <1>1. Reopen /\ UNCHANGED created
    BY DEF Restart
  <1>2. SqlInv'
    BY <1>1, ReopenInv DEF QInv
  <1>3. /\ NoRequest \in Requests /\ NoRequest.cmd = "idle" /\ Status(0) \in Replies
        /\ <<>> \in Plans /\ 0 \in 0 .. MaxEvents
    BY EventsAssumption DEF NoRequest, Requests, Status, Replies, Plans
  <1>4. TypeOK'
    <2>1. created' \subseteq {StoredSubject(s) : s \in Subject}
      BY <1>1 DEF QInv, TypeOK
    <2>2. (created \subseteq {StoredSubject(s) : s \in Subject})'
      BY <2>1 DEF StoredSubject
    <2>3. QED
      BY <1>2, <1>3, <2>2 DEF Restart, TypeOK, SqlInv
  <1>5. (\A t \in Conn : PlanFits(req[t], plan[t]))'
    BY <1>3 DEF Restart, PlanFits
  <1>6. ChapterUnderCreatedSubject'
    BY <1>1 DEF Reopen, QInv, ChapterUnderCreatedSubject, HasRow
  <1>7. QED
    BY <1>2, <1>4, <1>5, <1>6 DEF Restart, QInv, CachedChapterHasCachedSubject

LEMMA QStepInv == QInv /\ [Next]_vars => QInv'
  <1> SUFFICES ASSUME QInv, [Next]_vars PROVE QInv'
    OBVIOUS
  <1>1. CASE UNCHANGED vars
    <2>1. UNCHANGED sqlVars /\ UNCHANGED <<pending, req, plan, reply, cacheVars>>
      BY <1>1 DEF vars, handlerVars
    <2>2. SqlInv' /\ UNCHANGED <<db, work, stmt, bound>>
      BY <2>1, SqlSame DEF sqlVars
    <2>3. pending' \in [Conn -> 0 .. MaxEvents]
      BY <2>1 DEF QInv, TypeOK
    <2>4. QED
      BY <2>1, <2>2, <2>3, QuietInv
  <1>2. CASE StartPass
    BY <1>2, StartPassInv
  <1>3. CASE Restart
    BY <1>3, RestartInv
  <1>4. ASSUME NEW t \in Conn, Work(t) PROVE QInv'
    BY <1>4, ReceiveInv, BeginStepInv, SelectInvs, InsertRowInv, NoteSubjectInv,
       NoteChapterInv, RemoveRowInv, AnswerInv DEF Work
  <1>5. QED
    BY <1>1, <1>2, <1>3, <1>4 DEF Next

\* Every variable of the question side keeps its type: the plans are the ones
\* listed, and a list's size is a number.
THEOREM QuestionTypes == Spec => []TypeOK
  <1>1. QInv => TypeOK
    BY DEF QInv
  <1>2. QED
    BY QInitInv, QStepInv, <1>1, PTL DEF Spec

\* No chapter is stored, pending or bound to a failed insert under a subject
\* that nobody created, whatever the workers' interleaving and the restarts.
THEOREM ChaptersHaveSubjects == Spec => []ChapterUnderCreatedSubject
  <1>1. QInv => ChapterUnderCreatedSubject
    BY DEF QInv
  <1>2. QED
    BY QInitInv, QStepInv, <1>1, PTL DEF Spec

\* chapter_cache knows chapters of cached subjects only.
THEOREM CachesAgree == Spec => []CachedChapterHasCachedSubject
  <1>1. QInv => CachedChapterHasCachedSubject
    BY DEF QInv
  <1>2. QED
    BY QInitInv, QStepInv, <1>1, PTL DEF Spec

-----------------------------------------------------------------------------
(* The handlers implement the database layer *)

\* The steps of a worker that touch the database are calls of the layer, on
\* the worker's own connection.
LEMMA WorkIsCall ==
  ASSUME QInv, NEW t \in Conn, Work(t)
  PROVE  SqlCall(t) \/ UNCHANGED sqlVars
  <1>1. CASE Receive(t)
    BY <1>1, ReceiveTakes DEF Takes
  <1>2. CASE Begin(t) \/ Exists(t) \/ Count(t) \/ List(t) \/ Read(t)
    BY <1>2 DEF Begin, Exists, Count, List, Read, SqlCall
  <1>3. CASE InsertRow(t)
    BY <1>3, NewRowFacts, TextAssumption DEF InsertRow, SqlCall
  <1>4. CASE RemoveRow(t)
    BY <1>4 DEF RemoveRow, SqlCall, Named
  <1>5. CASE NoteSubject(t) \/ NoteChapter(t) \/ Answer(t)
    BY <1>5 DEF NoteSubject, NoteChapter, Answer
  <1>6. QED
    BY <1>1, <1>2, <1>3, <1>4, <1>5 DEF Work

LEMMA NextIsCall == QInv /\ [Next]_vars => [SqlNext]_sqlVars
  BY WorkIsCall DEF Next, StartPass, Restart, SqlNext, vars

\* The question side is an implementation of the database layer's
\* specification, so everything proved of SqlSpec holds of it.
THEOREM BankUsesDatabase == Spec => SqlSpec
  <1>1. Init => SqlInit
    BY DEF Init
  <1>2. QED
    BY <1>1, QInitInv, QStepInv, NextIsCall, PTL DEF Spec, SqlSpec

\* In particular no list, count or read shows a row that a crash takes back,
\* and a failed insert's row waits in its statement.
THEOREM BankSafety ==
    Spec => [](PendingOnlyAfterFailedInsert /\ NoUncommittedRow) /\ FailedRowSticks
  BY BankUsesDatabase, SqlPending, SqlSafety, SqlFailedRow, PTL

\* And the handlers see one table with one writer at a time, although each
\* worker has a connection of its own that keeps what its last call left open.
THEOREM BankStore == Spec => ImplementsStore
  BY BankUsesDatabase, SqlImplementsStore

-----------------------------------------------------------------------------
(* Action properties *)

\* An insert commits what its connection sees, and one row more.
LEMMA InsertKeepsRows ==
  ASSUME QInv, NEW t \in Conn, InsertRow(t), NEW k \in Key, HasRow(k), db'[k] = NoVal
  PROVE  work[k] = NoVal
  <1> DEFINE row == BoundRow(t, NewRow(t), Placeholder)
             u == [View(t) EXCEPT ![row[1]] = row[2]]
  <1>1. row \in Key \X Val
    BY BoundRowFacts DEF InsertRow
  <1>2. View(t) \in Table
    BY ViewFacts DEF QInv
  <1>3. CASE db' = u
    <2> HIDE DEF row
    <2>1. View(t)[k] = NoVal
      BY <1>1, <1>2, <1>3, ValAssumption DEF Table
    <2>2. QED
      BY <2>1 DEF View, HasRow
  <1>4. CASE db' = db
    BY <1>4 DEF HasRow
  <1>5. QED
    BY <1>3, <1>4 DEF InsertRow, Insert, InsertDone, InsertFailed, CommitTo

\* delet takes the rows of its WHERE clause away, and those that an earlier
\* delet of the same transaction took.
LEMMA RemoveTakesRows ==
  ASSUME QInv, NEW t \in Conn, RemoveRow(t), NEW k \in Key, HasRow(k), db'[k] = NoVal
  PROVE  work[k] = NoVal \/ k = <<req[t].s, req[t].ch, req[t].q>>
  <1> DEFINE K == Named(t)
             u == [x \in Key |-> IF x \in K THEN NoVal ELSE View(t)[x]]
  <1>1. db' = u \/ db' = db
    BY DEF RemoveRow, Delete, RejectDelete, WriteTo, KeepOpen, CommitTo
  <1>2. QED
    BY <1>1 DEF View, HasRow, Named

\* Apart from the two handlers' calls that write, no step touches rows or
\* statements.
LEMMA OnlyTheseWrite ==
  ASSUME NEW t \in Conn, Work(t), ~InsertRow(t), ~RemoveRow(t)
  PROVE  UNCHANGED <<db, work, stmt, bound>>
  <1>1. CASE Receive(t)
    BY <1>1, ReceiveTakes DEF Takes, sqlVars
  <1>2. CASE ~Receive(t)
    BY <1>2 DEF Work, Begin, BeginImmediate, Exists, Count, List, Read, FinishSelect,
       NoteSubject, NoteChapter, Answer, sqlVars
  <1>3. QED
    BY <1>1, <1>2

\* What RowLeavesByDelete says of a step.
Leaves ==
    \A k \in Key : HasRow(k) /\ db'[k] = NoVal =>
        \/ work[k] = NoVal
        \/ \E t \in Conn : /\ At(t, "delete")
                           /\ k = <<req[t].s, req[t].ch, req[t].q>>

LEMMA LeaveStep == QInv /\ [Next]_vars => Leaves
  <1> SUFFICES ASSUME QInv, [Next]_vars PROVE Leaves
    OBVIOUS
  <1>1. CASE UNCHANGED db
    BY <1>1 DEF HasRow, Leaves
  <1>2. ASSUME NEW t \in Conn, InsertRow(t) PROVE Leaves
    BY <1>2, InsertKeepsRows DEF Leaves
  <1>3. ASSUME NEW t \in Conn, RemoveRow(t) PROVE Leaves
    <2>1. At(t, "delete")
      BY <1>3 DEF RemoveRow
    <2>2. QED
      BY <1>3, <2>1, RemoveTakesRows DEF Leaves
  <1>4. ASSUME NEW t \in Conn, Work(t), ~InsertRow(t), ~RemoveRow(t) PROVE UNCHANGED db
    BY <1>4, OnlyTheseWrite
  <1>5. QED
    BY <1>1, <1>2, <1>3, <1>4
    DEF Next, StartPass, Restart, Reopen, vars, sqlVars

\* A committed row disappears only by a deleteQuestion that names it.
THEOREM RowsLeaveByDelete == Spec => RowLeavesByDelete
  <1>1. QInv /\ [Next]_vars => [Leaves]_vars
    BY LeaveStep
  <1>2. QED
    BY QInitInv, QStepInv, <1>1, PTL DEF Spec, RowLeavesByDelete, Leaves

\* Every name of a list is in a committed row, because no transaction that is
\* still open has a row of its own.
THEOREM CommittedLists == Spec => ListsAreCommitted
  <1> DEFINE Committed ==
        \A t \in Conn : At(t, "list") /\ List(t) =>
            \A x \in reply'[t].items :
                \E k \in Key : HasRow(k) /\ x \in {k[1], k[2], k[3]}
  <1>1. ASSUME QInv PROVE Committed
    <2> SUFFICES ASSUME NEW t \in Conn, List(t), NEW x \in reply'[t].items
                 PROVE  \E k \in Key : HasRow(k) /\ x \in {k[1], k[2], k[3]}
      OBVIOUS
    <2>1. reply'[t].items = Listing(t)
      BY <1>1 DEF List, Settle, QInv, TypeOK
    <2>2. \E k \in Stored(t) : x \in {k[1], k[2], k[3]}
      BY <2>1 DEF Listing
    <2>3. QED
      BY <1>1, <2>2, ViewFacts DEF Stored, HasRow, QInv
  <1>2. QED
    BY QInitInv, QStepInv, <1>1, PTL DEF Spec, ListsAreCommitted
-----------------------------------------------------------------------------
(* One worker *)

\* Nothing is ever pending with the only connection, and nobody keeps it out:
\* no insert of it is suspended.
NothingPending(t) == work = db /\ stmt[t] # "busy"

\* What the handler of getChapters has announced is what it is going to list.
Announces(t) ==
    req[t].cmd = "get chapters" =>
        \/ plan[t] = <<"count", "list">>
        \/ plan[t] = <<"list">> /\ reply[t].counts = Cardinality(Listing(t))
        \/ plan[t] = <<>> /\ reply[t].counts = Cardinality(reply[t].items)

\* The row a failed insert left bound is of a subject or chapter, and cannot be
\* inserted later.
NeverInserted(t) ==
    stmt[t] # "reset" =>
        /\ bound[t][1][3] = Placeholder
        /\ HasRow(bound[t][1]) \/ bound[t][2] \in Refused

\* The row of an insert that succeeded is there when it is noted.
Notable(t) == plan[t] = <<"note">> => HasRow(NewRow(t))

RowsFit(t) == NeverInserted(t) /\ Notable(t) /\ CacheIsStored

\* What the only worker sees is the committed table, and it may write.
LEMMA AloneSees ==
  ASSUME QInv, NEW t \in Conn, Conn = {t}, NothingPending(t)
  PROVE  View(t) = db /\ CanWrite(t)
  BY DEF QInv, SqlInv, SqlTypeOK, NothingPending, View, CanWrite

LEMMA AloneWrites ==
  ASSUME QInv, NEW t \in Conn, Conn = {t}, NothingPending(t), Work(t)
  PROVE  NothingPending(t)'
  <1>1. View(t) = db /\ CanWrite(t) /\ work = db /\ stmt[t] # "busy"
    BY AloneSees DEF NothingPending
  <1>2. stmt \in [Conn -> {"reset", "failed", "busy"}]
    BY DEF QInv, SqlInv, SqlTypeOK
  <1>3. CASE InsertRow(t)
    <2>1. CASE InsertDone(t, NewRow(t), Placeholder)
      BY <1>2, <2>1 DEF InsertDone, CommitTo, NothingPending
    <2>2. CASE InsertFailed(t, NewRow(t), Placeholder)
      BY <1>1, <1>2, <2>2 DEF InsertFailed, NothingPending
    <2>3. QED
      BY <1>3, <2>1, <2>2 DEF InsertRow, Insert
  <1>4. CASE RemoveRow(t)
    BY <1>1, <1>4 DEF RemoveRow, Delete, RejectDelete, WriteTo, CommitTo, NothingPending
  <1>5. CASE ~InsertRow(t) /\ ~RemoveRow(t)
    BY <1>1, <1>5, OnlyTheseWrite DEF NothingPending
  <1>6. QED
    BY <1>3, <1>4, <1>5

LEMMA AloneStep ==
  ASSUME QInv, NEW t \in Conn, Conn = {t}, NothingPending(t), [Next]_vars
  PROVE  NothingPending(t)'
  <1>1. CASE UNCHANGED vars \/ StartPass
    BY <1>1 DEF StartPass, NothingPending, vars, sqlVars
  <1>2. CASE Restart
    BY <1>2 DEF Restart, Reopen, NothingPending
  <1>3. QED
    BY <1>1, <1>2, AloneWrites DEF Next
\* A list depends on the rows seen and the request.
LEMMA SameListing ==
  ASSUME NEW t \in Conn, View(t)' = View(t), req'[t] = req[t]
  PROVE  Listing(t)' = Listing(t)
  BY DEF Listing, Stored

\* A request of getChapters has both of its calls ahead, and none starts with
\* its note.
Opens(cmd, calls) ==
    /\ cmd # "get chapters" \/ calls = <<"count", "list">>
    /\ calls # <<"note">>

LEMMA OpeningPlans ==
  /\ Opens("get subjects", <<"list">>) /\ Opens("get subjects", <<"count", "list">>)
  /\ Opens("get chapters", <<"count", "list">>) /\ Opens("get questions", <<"count", "list">>)
  /\ Opens("write subject", <<>>) /\ Opens("write subject", <<"exists", "insert">>)
  /\ Opens("write chapter", <<>>) /\ Opens("write chapter", <<"exists", "insert">>)
  /\ Opens("write chapter", <<"exists">>) /\ Opens("read question", <<"read">>)
  /\ Opens("write question", <<"exists", "exists">>) /\ Opens("delete question", <<"delete">>)
  BY PlanFacts DEF Opens

\* The worker has taken a request of one of these kinds.
Opened(t) == \E cmd \in Commands : req'[t].cmd = cmd /\ Opens(cmd, plan'[t])

LEMMA StartOpens ==
  ASSUME QInv, NEW t \in Conn, NEW cmd, NEW s, NEW ch, NEW q, NEW calls, NEW code,
         Start(t, cmd, s, ch, q, calls, code), Opens(cmd, calls), cmd \in Commands
  PROVE  Opened(t)
  <1>1. req \in [Conn -> Requests] /\ plan \in [Conn -> Plans]
    BY DEF QInv, TypeOK
  <1>2. req'[t] = [cmd |-> cmd, s |-> s, ch |-> ch, q |-> q] /\ plan'[t] = calls
    BY <1>1 DEF Start
  <1>3. req'[t].cmd = cmd
    BY <1>2
  <1>4. QED
    BY <1>2, <1>3, Zenon DEF Opened

LEMMA ReceiveOpens ==
  ASSUME QInv, NEW t \in Conn, Receive(t)
  PROVE  Opened(t)
  <1>1. CASE GetSubjects(t)
    <2>1. "get subjects" \in Commands
      BY DEF Commands
    <2>2. Opens("get subjects", <<"list">>) /\ Opens("get subjects", <<"count", "list">>)
      BY OpeningPlans
    <2>3. CASE Start(t, "get subjects", Empty, Empty, Empty, <<"list">>, 200)
      BY StartOpens, <2>1, <2>2, <2>3, ZenonT(60)
    <2>4. CASE Start(t, "get subjects", Empty, Empty, Empty, <<"count", "list">>, 200)
      BY StartOpens, <2>1, <2>2, <2>4, ZenonT(60)
    <2>5. QED
      BY <1>1, <2>3, <2>4 DEF GetSubjects
  <1>2. ASSUME NEW s \in Subject, GetChapters(t, s) PROVE Opened(t)
    <2>1. "get chapters" \in Commands
      BY DEF Commands
    <2>2. Opens("get chapters", <<"count", "list">>)
      BY OpeningPlans
    <2>3. Start(t, "get chapters", s, Empty, Empty, <<"count", "list">>, 200)
      BY <1>2 DEF GetChapters
    <2>4. QED
      BY StartOpens, <2>1, <2>2, <2>3, ZenonT(60)
  <1>3. ASSUME NEW s \in Subject, AddSubject(t, s) PROVE Opened(t)
    <2>1. "write subject" \in Commands
      BY DEF Commands
    <2>2. Opens("write subject", <<>>) /\ Opens("write subject", <<"exists", "insert">>)
      BY OpeningPlans
    <2>3. CASE Start(t, "write subject", s, Empty, Empty, <<>>, 403)
      BY StartOpens, <2>1, <2>2, <2>3, ZenonT(60)
    <2>4. CASE Start(t, "write subject", s, Empty, Empty, <<"exists", "insert">>, 0)
      BY StartOpens, <2>1, <2>2, <2>4, ZenonT(60)
    <2>5. QED
      BY <1>3, <2>3, <2>4 DEF AddSubject
  <1>4. ASSUME NEW s \in Subject, NEW ch \in Chapter, GetQuestions(t, s, ch) PROVE Opened(t)
    <2>1. "get questions" \in Commands
      BY DEF Commands
    <2>2. Opens("get questions", <<"count", "list">>)
      BY OpeningPlans
    <2>3. Start(t, "get questions", s, ch, Empty, <<"count", "list">>, 200)
      BY <1>4 DEF GetQuestions
    <2>4. QED
      BY StartOpens, <2>1, <2>2, <2>3, ZenonT(60)
  <1>5. ASSUME NEW s \in Subject, NEW ch \in Chapter, AddChapter(t, s, ch) PROVE Opened(t)
    <2>1. "write chapter" \in Commands
      BY DEF Commands
    <2>2.
          /\ Opens("write chapter", <<>>)
          /\ Opens("write chapter", <<"exists">>)
          /\ Opens("write chapter", <<"exists", "insert">>)
      BY OpeningPlans
    <2>3. CASE Start(t, "write chapter", s, ch, Empty, <<>>, 403)
      BY StartOpens, <2>1, <2>2, <2>3, ZenonT(60)
    <2>4. CASE Start(t, "write chapter", s, ch, Empty, <<"exists">>, 403)
      BY StartOpens, <2>1, <2>2, <2>4, ZenonT(60)
    <2>5. CASE Start(t, "write chapter", s, ch, Empty, <<"exists", "insert">>, 0)
      BY StartOpens, <2>1, <2>2, <2>5, ZenonT(60)
    <2>6. QED
      BY <1>5, <2>3, <2>4, <2>5 DEF AddChapter
  <1>6. ASSUME NEW s \in Subject, NEW ch \in Chapter, NEW q \in Question,
         ReadQuestion(t, s, ch, q)
        PROVE  Opened(t)
    <2>1. "read question" \in Commands
      BY DEF Commands
    <2>2. Opens("read question", <<"read">>)
      BY OpeningPlans
    <2>3. Start(t, "read question", s, ch, q, <<"read">>, 200)
      BY <1>6 DEF ReadQuestion
    <2>4. QED
      BY StartOpens, <2>1, <2>2, <2>3, ZenonT(60)
  <1>7. ASSUME NEW s \in Subject, NEW ch \in Chapter, NEW q \in Question,
         WriteQuestion(t, s, ch, q)
        PROVE  Opened(t)
    <2>1. "write question" \in Commands
      BY DEF Commands
    <2>2. Opens("write question", <<"exists", "exists">>)
      BY OpeningPlans
    <2>3. Start(t, "write question", s, ch, q, <<"exists", "exists">>, 403)
      BY <1>7 DEF WriteQuestion
    <2>4. QED
      BY StartOpens, <2>1, <2>2, <2>3, ZenonT(60)
  <1>8. ASSUME NEW s \in Subject, NEW ch \in Chapter, NEW q \in Question,
         DeleteQuestion(t, s, ch, q)
        PROVE  Opened(t)
    <2>1. "delete question" \in Commands
      BY DEF Commands
    <2>2. Opens("delete question", <<"delete">>)
      BY OpeningPlans
    <2>3. Start(t, "delete question", s, ch, q, <<"delete">>, 0)
      BY <1>8 DEF DeleteQuestion
    <2>4. QED
      BY StartOpens, <2>1, <2>2, <2>3, ZenonT(60)
  <1>9. QED
    BY <1>1, <1>2, <1>3, <1>4, <1>5, <1>6, <1>7, <1>8 DEF Receive

\* The two calls that getChapters makes, one after the other.
LEMMA CallAnnounces ==
  ASSUME QInv, NEW t \in Conn, Conn = {t}, NothingPending(t), Announces(t),
         req[t].cmd = "get chapters", Work(t)
  PROVE  Announces(t)'
  <1>1. plan[t] \in {<<"count", "list">>, <<"list">>, <<>>}
    BY DEF Announces
  <1>2. req \in [Conn -> Requests] /\ reply \in [Conn -> Replies] /\ plan \in [Conn -> Plans]
    BY DEF QInv, TypeOK
  <1>3. CASE Begin(t)
    <2>1. View(t)' = View(t) /\ UNCHANGED <<req, plan, reply>>
      BY <1>3, AloneSees DEF Begin, BeginImmediate, View, NothingPending, handlerVars
    <2>2. QED
      BY <2>1, SameListing DEF Announces
  <1>4. CASE Count(t)
    <2>1. plan[t] = <<"count", "list">>
      BY <1>1, <1>4, PlanFacts DEF Count, At
    <2>2. plan'[t] = <<"list">>
      BY <1>2, <1>4, <2>1, PlanFacts DEF Count, Advance
    <2>3. reply'[t].counts = Cardinality(Listing(t))
      BY <1>2, <1>4 DEF Count, Settle, Counted
    <2>4. Listing(t)' = Listing(t)
      BY <1>4, SameListing DEF Count, FinishSelect, View
    <2>5. QED
      BY <2>2, <2>3, <2>4 DEF Announces
  <1>5. CASE List(t)
    <2>1. plan[t] = <<"list">>
      BY <1>1, <1>5, PlanFacts DEF List, At
    <2>2. plan'[t] = <<>>
      BY <1>2, <1>5, <2>1, PlanFacts DEF List, Advance
    <2>3. reply[t].counts = Cardinality(Listing(t))
      <3>1. plan[t] # <<"count", "list">> /\ plan[t] # <<>>
        BY <2>1, PlanFacts
      <3>2. QED
        BY <3>1, Zenon DEF Announces
    <2>4. reply'[t].items = Listing(t) /\ reply'[t].counts = reply[t].counts
      BY <1>2, <1>5 DEF List, Settle
    <2>5. QED
      BY <2>2, <2>3, <2>4 DEF Announces
  <1>6. CASE Answer(t)
    <2>1. req'[t].cmd = "idle"
      BY <1>2, <1>6 DEF Answer, NoRequest
    <2>2. QED
      BY <2>1 DEF Announces
  <1>7. ~(Receive(t) \/ Exists(t) \/ InsertRow(t) \/ NoteSubject(t) \/ NoteChapter(t)
          \/ RemoveRow(t) \/ Read(t))
    <2>1. ~Receive(t)
      BY ReceiveTakes DEF Idle, Takes
    <2>2. \A step \in {"exists", "insert", "note", "delete", "read"} : ~At(t, step)
      BY <1>1, PlanFacts DEF At
    <2>3. QED
      BY <2>1, <2>2 DEF Exists, InsertRow, NoteSubject, NoteChapter, RemoveRow, Read
  <1>8. QED
    BY <1>3, <1>4, <1>5, <1>6, <1>7 DEF Work

\* Other handlers do not turn into getChapters.
LEMMA OtherAnnounces ==
  ASSUME QInv, NEW t \in Conn, req[t].cmd # "get chapters", Work(t)
  PROVE  Announces(t)'
  <1>1. req \in [Conn -> Requests] /\ plan \in [Conn -> Plans]
    BY DEF QInv, TypeOK
  <1>2. ASSUME req'[t].cmd # "get chapters" \/ plan'[t] = <<"count", "list">>
        PROVE  Announces(t)'
    BY <1>2 DEF Announces
  <1>3. CASE Receive(t)
    BY <1>2, <1>3, ReceiveOpens DEF Opened, Opens
  <1>4. CASE Answer(t)
    BY <1>1, <1>2, <1>4 DEF Answer, NoRequest
  <1>5. CASE ~Receive(t) /\ ~Answer(t)
    <2>1. req' = req
      BY <1>5 DEF Work, Begin, Exists, InsertRow, NoteSubject, NoteChapter, RemoveRow, Count,
         List, Read, handlerVars
    <2>2. QED
      BY <1>2, <2>1
  <1>6. QED
    BY <1>3, <1>4, <1>5

LEMMA AnnouncesStep ==
  ASSUME QInv, NEW t \in Conn, Conn = {t}, NothingPending(t), Announces(t), [Next]_vars
  PROVE  Announces(t)'
  <1>1. CASE UNCHANGED vars \/ StartPass
    <2>1. View(t)' = View(t) /\ UNCHANGED <<req, plan, reply>>
      BY <1>1 DEF StartPass, View, vars, handlerVars, sqlVars
    <2>2. QED
      BY <2>1, SameListing DEF Announces
  <1>2. CASE Restart
    BY <1>2 DEF Restart, NoRequest, Announces
  <1>3. QED
    BY <1>1, <1>2, CallAnnounces, OtherAnnounces DEF Next

\* With one worker getChapters sends as many names as it announced: nothing
\* comes between its two SELECTs.
THEOREM OneWorkerCounts ==
  ASSUME NEW t \in Conn, Conn = {t}
  PROVE  Spec => []CountMatchesList
  <1>1. Init => NothingPending(t) /\ Announces(t)
    <2> SUFFICES ASSUME Init PROVE NothingPending(t) /\ Announces(t)
      OBVIOUS
    <2>1. req[t].cmd = "idle"
      <3>1. req[t] = NoRequest
        BY DEF Init
      <3>2. QED
        BY <3>1 DEF NoRequest
    <2>2. QED
      BY <2>1 DEF Init, SqlInit, NothingPending, Announces
  <1>2. QInv /\ NothingPending(t) /\ Announces(t) /\ [Next]_vars
            => NothingPending(t)' /\ Announces(t)'
    BY AloneStep, AnnouncesStep
  <1>3. Announces(t) => CountMatchesList
    <2>1. <<>> # <<"count", "list">> /\ <<>> # <<"list">>
      OBVIOUS
    <2>2. QED
      BY <2>1 DEF Announces, CountMatchesList
  <1>4. QED
    BY QInitInv, QStepInv, <1>1, <1>2, <1>3, PTL DEF Spec
\* The row of a subject or a chapter stays: a deleteQuestion names a question,
\* and no question is called "placeholder".
LEMMA RowStays ==
  ASSUME QInv, NEW t \in Conn, NothingPending(t), Placeholder \notin Question \cup {Empty},
         [Next]_vars, NEW k \in Key, k[3] = Placeholder, HasRow(k)
  PROVE  HasRow(k)'
  <1> SUFFICES ASSUME db'[k] = NoVal PROVE FALSE
    BY DEF HasRow
  <1>1. PICK d \in Conn : k = <<req[d].s, req[d].ch, req[d].q>>
    BY LeaveStep DEF Leaves, NothingPending, HasRow
  <1>2. req[d].q \in Question \cup {Empty}
    BY <1>1 DEF QInv, TypeOK, Requests
  <1>3. k[3] = req[d].q
    BY <1>1
  <1>4. QED
    BY <1>2, <1>3

\* The only worker's insert that succeeds is of the row it was asked for: one
\* left over from a failed insert is there already, or refused.
LEMMA InsertsNewRow ==
  ASSUME QInv, NEW t \in Conn, Conn = {t}, NothingPending(t), RowsFit(t), At(t, "insert"),
         InsertDone(t, NewRow(t), Placeholder)
  PROVE  /\ NewRow(t) \in Key
         /\ ~HasRow(NewRow(t))
         /\ db' = [db EXCEPT ![NewRow(t)] = Placeholder]
  <1> DEFINE row == BoundRow(t, NewRow(t), Placeholder)
  <1>1. View(t) = db /\ NewRow(t) \in Key
    BY AloneSees, NewRowFacts
  <1>2. ~HasRow(row[1]) /\ row[2] \notin Refused
    BY <1>1 DEF InsertDone, Accepts, HasRow
  <1>3. stmt[t] = "reset"
    BY <1>2 DEF RowsFit, NeverInserted, BoundRow
  <1>4. row[1] = NewRow(t) /\ row[2] = Placeholder
    BY <1>3 DEF BoundRow
  <1>5. db' = [View(t) EXCEPT ![row[1]] = row[2]]
    BY DEF InsertDone, CommitTo
  <1> HIDE DEF row
  <1>6. QED
    BY <1>1, <1>2, <1>4, <1>5

\* A row comes into the table by such an insert only.
LEMMA RowComes ==
  ASSUME QInv, NEW t \in Conn, Conn = {t}, NothingPending(t), RowsFit(t), [Next]_vars,
         NEW k \in Key, ~HasRow(k), HasRow(k)'
  PROVE  At(t, "insert") /\ k = NewRow(t)
  <1>1. db' # db
    BY DEF HasRow
  <1>2. Work(t)
    BY <1>1 DEF Next, StartPass, Restart, Reopen, vars, sqlVars
  <1>3. ~RemoveRow(t)
    <2> SUFFICES ASSUME RemoveRow(t) PROVE FALSE
      OBVIOUS
    <2>1. db' = [x \in Key |-> IF x \in Named(t) THEN NoVal ELSE View(t)[x]]
      BY <1>1 DEF RemoveRow, Delete, RejectDelete, WriteTo, KeepOpen, CommitTo
    <2>2. View(t) = db
      BY AloneSees
    <2>3. db'[k] = NoVal
      BY <2>1, <2>2 DEF HasRow
    <2>4. QED
      BY <2>3 DEF HasRow
  <1>4. InsertRow(t)
    BY <1>1, <1>2, <1>3, OnlyTheseWrite
  <1>5. InsertDone(t, NewRow(t), Placeholder) /\ At(t, "insert")
    BY <1>1, <1>4 DEF InsertRow, Insert, InsertFailed
  <1>6. NewRow(t) \in Key /\ db' = [db EXCEPT ![NewRow(t)] = Placeholder]
    BY <1>5, InsertsNewRow
  <1>7. k = NewRow(t)
    BY <1>6 DEF QInv, SqlInv, SqlTypeOK, Table, HasRow
  <1>8. QED
    BY <1>5, <1>7
\* What an insert leaves bound, and that its row is there when it succeeded.
LEMMA InsertFits ==
  ASSUME QInv, QInv', NEW t \in Conn, Conn = {t}, NothingPending(t), RowsFit(t), InsertRow(t)
  PROVE  NeverInserted(t)' /\ Notable(t)'
  <1> DEFINE row == BoundRow(t, NewRow(t), Placeholder)
  <1>1. View(t) = db /\ CanWrite(t) /\ At(t, "insert")
    BY AloneSees DEF InsertRow
  <1>2. /\ stmt \in [Conn -> {"reset", "failed", "busy"}] /\ rc \in [Conn -> {"ok", "error"}]
        /\ DOMAIN bound = Conn /\ plan \in [Conn -> Plans] /\ db \in Table
    BY DEF QInv, SqlInv, SqlTypeOK, TypeOK
  <1>3. NewRow(t)' = NewRow(t)
    BY DEF InsertRow, NewRow
  <1>4. CASE InsertDone(t, NewRow(t), Placeholder)
    <2>1. stmt'[t] = "reset"
      BY <1>2, <1>4 DEF InsertDone
    <2>2. NewRow(t) \in Key /\ db' = [db EXCEPT ![NewRow(t)] = Placeholder]
      BY <1>1, <1>4, InsertsNewRow
    <2>3. db'[NewRow(t)] # NoVal
      BY <1>2, <2>2, TextAssumption, ValAssumption DEF Table
    <2>4. QED
      BY <1>3, <2>1, <2>3 DEF NeverInserted, Notable, HasRow
  <1>5. CASE InsertFailed(t, NewRow(t), Placeholder)
    <2>1. /\ stmt' = [stmt EXCEPT ![t] = "failed"] /\ bound' = [bound EXCEPT ![t] = row]
          /\ rc' = [rc EXCEPT ![t] = "error"]
          /\ HasRow(row[1]) \/ row[2] \in Refused
          /\ UNCHANGED db
      BY <1>1, <1>5 DEF InsertFailed, Return, Accepts, HasRow
    <2>2. row[1][3] = Placeholder
      BY DEF RowsFit, NeverInserted, BoundRow, NewRow
    <2> HIDE DEF row
    <2>3. bound'[t] = row /\ rc'[t] = "error"
      BY <1>2, <2>1
    <2>4. plan'[t] = <<>>
      BY <1>2, <2>3 DEF InsertRow
    <2>5. plan'[t] # <<"note">>
      BY <2>4
    <2>6. QED
      BY <2>1, <2>2, <2>3, <2>5 DEF NeverInserted, Notable, HasRow
  <1>6. QED
    BY <1>4, <1>5 DEF InsertRow, Insert
\* No other step of a worker comes before a note.
LEMMA NoNoteAhead ==
  ASSUME QInv, NEW t \in Conn, Work(t), ~InsertRow(t)
  PROVE  plan'[t] # <<"note">>
  <1>1. plan \in [Conn -> Plans] /\ plan[t] \in Plans
    BY DEF QInv, TypeOK
  <1>2. <<>> # <<"note">> /\ <<"exists">> # <<"note">> /\ <<"insert">> # <<"note">>
        /\ <<"list">> # <<"note">>
    BY PlanFacts
  <1>3. CASE Receive(t)
    BY <1>3, ReceiveOpens DEF Opened, Opens
  <1>4. CASE Begin(t)
    <2>1. plan[t] # <<"note">>
      BY <1>4, PlanFacts DEF Begin, At, DbCalls
    <2>2. QED
      BY <1>4, <2>1 DEF Begin, handlerVars
  <1>5. CASE Answer(t)
    BY <1>2, <1>5 DEF Answer
  <1>6. CASE Advance(t) /\ plan[t] # <<>>
    <2>1. Tail(plan[t]) \in {<<>>, <<"exists">>, <<"insert">>, <<"list">>}
      BY <1>1, <1>6, PlanFacts DEF Plans
    <2>2. plan'[t] = Tail(plan[t])
      BY <1>1, <1>6 DEF Advance
    <2>3. QED
      BY <1>2, <2>1, <2>2
  <1>7. Receive(t) \/ Begin(t) \/ Answer(t) \/ (Advance(t) /\ plan[t] # <<>>)
    BY DEF Work, Exists, NoteSubject, NoteChapter, RemoveRow, Count, List, Read, At
  <1>8. QED
    BY <1>3, <1>4, <1>5, <1>6, <1>7

LEMMA OtherFits ==
  ASSUME QInv, NEW t \in Conn, NothingPending(t), Placeholder \notin Question \cup {Empty},
         RowsFit(t), Work(t), ~InsertRow(t)
  PROVE  NeverInserted(t)' /\ Notable(t)'
  <1>1. UNCHANGED <<stmt, bound>>
    BY OnlyTheseWrite DEF RemoveRow, Delete, RejectDelete
  <1>2. stmt[t] # "reset" => bound[t][1] \in Key
    BY DEF QInv, SqlInv
  <1>3. [Next]_vars
    BY DEF Next
  <1>4. NeverInserted(t)'
    BY <1>1, <1>2, <1>3, RowStays DEF RowsFit, NeverInserted, HasRow
  <1>5. QED
    BY <1>4, NoNoteAhead DEF Notable
\* Names come into the caches by the notes alone.
LEMMA OnlyNotesCache ==
  ASSUME NEW t \in Conn, Work(t), ~NoteSubject(t), ~NoteChapter(t)
  PROVE  UNCHANGED <<subject_cache, chapter_cache>>
  <1>1. CASE Receive(t)
    BY <1>1, ReceiveTakes DEF Takes, cacheVars
  <1>2. CASE ~Receive(t)
    BY <1>2 DEF Work, Begin, Exists, InsertRow, RemoveRow, Count, List, Read, Answer,
       cacheVars, handlerVars
  <1>3. QED
    BY <1>1, <1>2

LEMMA CacheComes ==
  ASSUME QInv, NEW t \in Conn, Conn = {t}, [Next]_vars
  PROVE  /\ \A s \in subject_cache' : s \in subject_cache \/ (NoteSubject(t) /\ s = req[t].s)
         /\ \A s \in Subject : \A ch \in chapter_cache'[s] :
                ch \in chapter_cache[s] \/ (NoteChapter(t) /\ s = req[t].s /\ ch = req[t].ch)
  <1>1. chapter_cache \in [Subject -> SUBSET Chapter]
    BY DEF QInv, TypeOK
  <1>2. CASE UNCHANGED <<subject_cache, chapter_cache>>
    BY <1>2
  <1>3. CASE NoteSubject(t)
    BY <1>3 DEF NoteSubject
  <1>4. CASE NoteChapter(t)
    BY <1>1, <1>4 DEF NoteChapter
  <1>5. CASE Restart
    BY <1>5 DEF Restart
  <1>6. QED
    BY <1>2, <1>3, <1>4, <1>5, OnlyNotesCache DEF Next, StartPass, vars, handlerVars, cacheVars

\* The rows of the names in the caches.
LEMMA NameRows ==
  /\ \A s \in Subject : SubjectRow(s) \in Key /\ SubjectRow(s)[3] = Placeholder
  /\ \A s \in Subject, ch \in Chapter : ChapterRow(s, ch) \in Key /\ ChapterRow(s, ch)[3] = Placeholder
  /\ \A k \in Key : <<k[1], Placeholder, Placeholder>> \in Key
  BY KeyAssumption DEF Rows, SubjectRow, ChapterRow

\* A cached name is stored: its row was inserted before it was noted, and stays.
LEMMA CacheFits ==
  ASSUME QInv, NEW t \in Conn, Conn = {t}, NothingPending(t),
         Placeholder \notin Question \cup {Empty}, RowsFit(t), [Next]_vars
  PROVE  CacheIsStored'
  <1>1. subject_cache \subseteq Subject /\ chapter_cache \in [Subject -> SUBSET Chapter]
    BY DEF QInv, TypeOK
  <1>2. ASSUME NEW s \in subject_cache' PROVE HasRow(SubjectRow(s))'
    <2>1. CASE s \in subject_cache
      <3>1. HasRow(SubjectRow(s)) /\ s \in Subject
        BY <1>1, <2>1 DEF RowsFit, CacheIsStored
      <3>2. QED
        BY <3>1, NameRows, RowStays
    <2>2. CASE NoteSubject(t) /\ s = req[t].s
      <3>1. HasRow(NewRow(t)) /\ NewRow(t) = SubjectRow(s)
        BY <2>2, NoteFacts DEF NoteSubject, RowsFit, Notable, NewRow, SubjectRow
      <3>2. UNCHANGED db
        BY <2>2 DEF NoteSubject, sqlVars
      <3>3. QED
        BY <3>1, <3>2 DEF HasRow, SubjectRow
    <2>3. QED
      BY <2>1, <2>2, CacheComes
  <1>3. ASSUME NEW s \in Subject, NEW ch \in chapter_cache'[s] PROVE HasRow(ChapterRow(s, ch))'
    <2>1. CASE ch \in chapter_cache[s]
      <3>1. HasRow(ChapterRow(s, ch)) /\ ch \in Chapter
        BY <1>1, <2>1 DEF RowsFit, CacheIsStored
      <3>2. QED
        BY <3>1, NameRows, RowStays
    <2>2. CASE NoteChapter(t) /\ s = req[t].s /\ ch = req[t].ch
      <3>1. HasRow(NewRow(t)) /\ NewRow(t) = ChapterRow(s, ch)
        BY <2>2, NoteFacts DEF NoteChapter, RowsFit, Notable, NewRow, ChapterRow
      <3>2. UNCHANGED db
        BY <2>2 DEF NoteChapter, sqlVars
      <3>3. QED
        BY <3>1, <3>2 DEF HasRow, ChapterRow
    <2>3. QED
      BY <2>1, <2>2, CacheComes
  <1>4. QED
    BY <1>2, <1>3 DEF CacheIsStored

\* A chapter comes beneath a subject that subject_cache has, and that is stored.
LEMMA BelowFits ==
  ASSUME QInv, NEW t \in Conn, Conn = {t}, NothingPending(t),
         Placeholder \notin Question \cup {Empty}, RowsFit(t), ChapterBelowSubject, [Next]_vars
  PROVE  ChapterBelowSubject'
  <1> SUFFICES ASSUME NEW k \in Key, HasRow(k)', k[2] # Placeholder
               PROVE  HasRow(<<k[1], Placeholder, Placeholder>>)'
    BY DEF ChapterBelowSubject
  <1> DEFINE above == <<k[1], Placeholder, Placeholder>>
  <1>1. above \in Key /\ above[3] = Placeholder
    BY NameRows
  <1>2. HasRow(above)
    <2>1. CASE HasRow(k)
      BY <2>1 DEF ChapterBelowSubject
    <2>2. CASE ~HasRow(k)
      <3>1. At(t, "insert") /\ k = NewRow(t)
        BY <2>2, RowComes
      <3>2. req[t].cmd = "write chapter" /\ req[t].s \in subject_cache
        BY <3>1, NewRowFacts DEF NewRow
      <3>3. above = SubjectRow(req[t].s)
        BY <3>1 DEF NewRow, SubjectRow
      <3>4. QED
        BY <3>2, <3>3 DEF RowsFit, CacheIsStored
    <2>3. QED
      BY <2>1, <2>2
  <1> HIDE DEF above
  <1>3. HasRow(above)'
    BY <1>1, <1>2, RowStays
  <1>4. QED
    BY <1>3 DEF above, HasRow

LEMMA RowsFitStep ==
  ASSUME QInv, QInv', NEW t \in Conn, Conn = {t}, NothingPending(t),
         Placeholder \notin Question \cup {Empty}, RowsFit(t), [Next]_vars
  PROVE  RowsFit(t)'
  <1>1. CASE UNCHANGED vars \/ StartPass
    BY <1>1 DEF StartPass, RowsFit, NeverInserted, Notable, NewRow, HasRow, CacheIsStored,
       SubjectRow, ChapterRow, vars, handlerVars, cacheVars, sqlVars
  <1>2. CASE Restart
    <2>1. stmt'[t] = "reset" /\ plan'[t] = <<>>
      BY <1>2 DEF Restart, Reopen
    <2>2. NeverInserted(t)' /\ Notable(t)'
      BY <2>1, PlanFacts DEF NeverInserted, Notable
    <2>3. QED
      BY <2>2, CacheFits DEF RowsFit
  <1>3. CASE Work(t)
    BY <1>3, InsertFits, OtherFits, CacheFits DEF RowsFit
  <1>4. QED
    BY <1>1, <1>2, <1>3 DEF Next

LEMMA RowsFitInit ==
  ASSUME NEW t \in Conn, Init
  PROVE  NothingPending(t) /\ RowsFit(t)
  <1>1. stmt[t] = "reset" /\ plan[t] = <<>> /\ work = db
    BY DEF Init, SqlInit
  <1>2. NothingPending(t) /\ NeverInserted(t) /\ Notable(t)
    BY <1>1, PlanFacts DEF NothingPending, NeverInserted, Notable
  <1>3. CacheIsStored
    BY DEF Init, CacheIsStored
  <1>4. QED
    BY <1>2, <1>3 DEF RowsFit

\* With one worker, and no question called "placeholder", a name in the caches
\* is the name of a stored subject or chapter: addChapter, which trusts
\* subject_cache, finds its subject in the table.
THEOREM OneWorkerCaches ==
  ASSUME NEW t \in Conn, Conn = {t}, Placeholder \notin Question \cup {Empty}
  PROVE  Spec => []CacheIsStored
  <1>1. Init => NothingPending(t) /\ RowsFit(t)
    BY RowsFitInit
  <1>2. QInv /\ QInv' /\ NothingPending(t) /\ RowsFit(t) /\ [Next]_vars
            => NothingPending(t)' /\ RowsFit(t)'
    BY AloneStep, RowsFitStep
  <1>3. RowsFit(t) => CacheIsStored
    BY DEF RowsFit
  <1>4. QED
    BY QInitInv, QStepInv, <1>1, <1>2, <1>3, PTL DEF Spec

\* What a file must have been left like: the server checks nothing of it.
FilesAreOrdered ==
    \A table \in StartTables, k \in Key :
        table[k] # NoVal /\ k[2] # Placeholder
            => table[<<k[1], Placeholder, Placeholder>>] # NoVal

\* Under the same conditions, and from a file where it is so, every stored
\* chapter and question stays beneath a stored subject.
THEOREM OneWorkerChapters ==
  ASSUME NEW t \in Conn, Conn = {t}, Placeholder \notin Question \cup {Empty},
         FilesAreOrdered
  PROVE  Spec => []ChapterBelowSubject
  <1>1. Init => NothingPending(t) /\ RowsFit(t) /\ ChapterBelowSubject
    BY RowsFitInit DEF Init, SqlInit, FilesAreOrdered, ChapterBelowSubject, HasRow
  <1>2. QInv /\ QInv' /\ NothingPending(t) /\ RowsFit(t) /\ ChapterBelowSubject /\ [Next]_vars
            => NothingPending(t)' /\ RowsFit(t)' /\ ChapterBelowSubject'
    BY AloneStep, RowsFitStep, BelowFits
  <1>3. QED
    BY QInitInv, QStepInv, <1>1, <1>2, PTL DEF Spec

\* A worker that goes on from its insert to the note has inserted.
LEMMA NotedNext ==
  ASSUME QInv, NEW t \in Conn, Conn = {t}, At(t, "insert"), At(t, "note")', [Next]_vars
  PROVE  InsertRow(t) /\ plan'[t] = <<"note">>
  <1>1. plan[t] = <<"insert">> /\ plan \in [Conn -> Plans]
    BY PlanFacts DEF At, QInv, TypeOK, Plans
  <1>2. plan'[t] # <<>> /\ Head(plan'[t]) = "note"
    BY DEF At
  <1>3. plan'[t] # plan[t]
    BY <1>1, <1>2, PlanFacts
  <1>4. Work(t)
    BY <1>2, <1>3 DEF Next, StartPass, Restart, vars, handlerVars
  <1>5. \A step \in {"exists", "note", "delete", "count", "list", "read"} : ~At(t, step)
    BY <1>1, PlanFacts DEF At
  <1>6. ~Receive(t) /\ ~Answer(t)
    <2>1. Idle(t) => plan[t] = <<>>
      BY DEF QInv, PlanFits, Idle, NoRequest
    <2>2. QED
      BY <1>1, <2>1, ReceiveTakes DEF Takes, Answer, At
  <1>7. ~Begin(t)
    BY <1>3 DEF Begin, handlerVars
  <1>8. InsertRow(t)
    BY <1>4, <1>5, <1>6, <1>7
    DEF Work, Exists, NoteSubject, NoteChapter, RemoveRow, Count, List, Read
  <1>9. plan'[t] = <<"note">>
    BY <1>1, <1>2, <1>8 DEF InsertRow
  <1>10. QED
    BY <1>8, <1>9

InsertsStore == \A t \in Conn : At(t, "insert") /\ At(t, "note")' => db'[NewRow(t)] # NoVal

\* With one worker an insert that was followed by the note has put the row of
\* the request into the table, not one left over from an earlier insert.
THEOREM OneWorkerInserts ==
  ASSUME NEW t \in Conn, Conn = {t}, Placeholder \notin Question \cup {Empty}
  PROVE  Spec => InsertedIsStored
  <1>1. Init => NothingPending(t) /\ RowsFit(t)
    BY RowsFitInit
  <1>2. QInv /\ QInv' /\ NothingPending(t) /\ RowsFit(t) /\ [Next]_vars
            => NothingPending(t)' /\ RowsFit(t)'
    BY AloneStep, RowsFitStep
  <1>3. QInv /\ QInv' /\ NothingPending(t) /\ RowsFit(t) /\ [Next]_vars => [InsertsStore]_vars
    <2> SUFFICES ASSUME QInv, QInv', NothingPending(t), RowsFit(t), [Next]_vars,
                        At(t, "insert"), At(t, "note")'
                 PROVE  db'[NewRow(t)] # NoVal
      BY DEF InsertsStore
    <2>1. InsertRow(t) /\ plan'[t] = <<"note">>
      BY NotedNext
    <2>2. HasRow(NewRow(t))'
      BY <2>1, InsertFits DEF Notable
    <2>3. NewRow(t)' = NewRow(t)
      BY <2>1 DEF InsertRow, NewRow
    <2>4. QED
      BY <2>2, <2>3 DEF HasRow
  <1>4. QED
    BY QInitInv, QStepInv, <1>1, <1>2, <1>3, PTL DEF Spec, InsertedIsStored, InsertsStore
=============================================================================
