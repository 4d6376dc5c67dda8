-------------------------- MODULE MCServerResponse --------------------------
\* A streaming request with one task and a plain one with two.
EXTENDS ServerResponse, TLC

CONSTANTS stream, plain, s1, p1, p2

MCOwner == (s1 :> stream) @@ (p1 :> plain) @@ (p2 :> plain)
MCOwnerOne == (s1 :> stream) @@ (p1 :> plain)
=============================================================================
