----------------------------- MODULE MCSession -----------------------------
(* Session with strings of up to two statements, and of three around a     *)
(* BEGIN.                                                                  *)
EXTENDS Session

Strings ==
    UNION {[1..n -> Statements] : n \in 1..2} \cup {<<s1, "begin", s2>> : s1 \in Statements, s2 \in Statements}
=============================================================================
