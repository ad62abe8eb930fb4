----------------------------- MODULE MCConsole -----------------------------
\* Small instances of Console: every table in one tab, the form in the other.
EXTENDS Console, TLC

CONSTANTS t1, t2, u1, u2, f1, f2

MCTables == (t1 :> AdminTables \cup OwnTables) @@ (t2 :> {"myfeedback"})
=============================================================================
