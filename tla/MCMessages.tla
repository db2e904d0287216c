----------------------------- MODULE MCMessages -----------------------------
EXTENDS Messages, TLC

CONSTANTS f1, f2, a, b

\* Two fixed names, at the first id and between the free ones.
MCConfig == (f1 :> 1) @@ (f2 :> 3)
=============================================================================
