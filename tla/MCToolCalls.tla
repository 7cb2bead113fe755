------------------------------ MODULE MCToolCalls ------------------------------
EXTENDS ToolCalls, TLC

CONSTANTS c1, c2

\* The callers are alike.
Sym == Permutations(Clients)
=============================================================================
