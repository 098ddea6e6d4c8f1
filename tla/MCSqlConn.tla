----------------------------- MODULE MCSqlConn -----------------------------
(* SqlConn for TLC: the file starts empty or with one row left in it. *)
EXTENDS SqlConn, TLC

CONSTANTS c1, c2, k1, k2, v1, v2, bad, none

MCConn == {c1, c2}
MCKey == {k1, k2}
MCVal == {v1, v2, bad}
MCRefused == {bad}
MCStartTables ==
    {[k \in MCKey |-> none], [k \in MCKey |-> IF k = k1 THEN v1 ELSE none]}

Symmetry == Permutations(MCConn)
=============================================================================
