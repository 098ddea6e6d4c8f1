----------------------------- MODULE MCFrontEnd -----------------------------
(* FrontEnd for TLC: one user, one subject, one chapter, two questions. *)
EXTENDS FrontEnd

CONSTANTS u, s, c, p, q

MCName == {u, s, c, p, q}
MCContents == [users |-> {<<u>>}, subjects |-> {<<s>>},
               chapters |-> {<<>>, <<c>>}, questions |-> {<<>>, <<p, q>>}]
MCMiscounted == {"users", "chapters"}
=============================================================================
