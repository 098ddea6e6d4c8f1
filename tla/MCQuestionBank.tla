--------------------------- MODULE MCQuestionBank ---------------------------
(* QuestionBank for TLC: two subjects, one of them the empty name, a chapter *)
(* and a question.  The file starts empty or with one question in it.        *)
EXTENDS QuestionBank, TLC

CONSTANTS t1, t2, s1, c1, q1, q2, none

OneWorker == {t1}
TwoWorkers == {t1, t2}
MCSubject == {s1, Empty}
OneSubject == {s1}
MCChapter == {c1}
MCQuestion == {q1}
\* A client that calls its question "placeholder" names the row of a chapter.
MCQuestionP == {q1, Placeholder}
\* q2 has an apostrophe in it.
QuotedQuestion == {q1, q2}
QuotedRows == {s1, Undefined} \X {c1, Placeholder} \X {q1, q2, Placeholder}
RowsOf(subjects) == subjects \X {c1, Placeholder} \X {q1, Placeholder}
MCRows == RowsOf({s1, Undefined})
OneSubjectRows == RowsOf({s1})
MCVal == {Placeholder}
NoNames == {}
OddQuestion == {q2}

TableOf(keys, rows) == [k \in keys |-> IF k \in rows THEN Placeholder ELSE none]
StartingTables(keys) ==
    {TableOf(keys, {}),
     TableOf(keys, {<<s1, Placeholder, Placeholder>>, <<s1, c1, Placeholder>>, <<s1, c1, q1>>})}
MCStartTables == StartingTables(MCRows)
QuotedTables == StartingTables(QuotedRows)
OneSubjectTables == StartingTables(OneSubjectRows)

\* The liveness run: a fresh file, no request that names a question.
NoQuestion == {}
PlainRows == {s1} \X {c1, Placeholder} \X {Placeholder}
FreshTable == {TableOf(PlainRows, {})}

Symmetry == Permutations(TwoWorkers)
=============================================================================
