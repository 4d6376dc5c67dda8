-------------------------- MODULE MCStreamSessions --------------------------
\* Two requests of one conversation, one of another, a reader of the first.
EXTENDS StreamSessions, TLC

CONSTANTS p1, p2, p3, r1, c1, c2

MCConvOf == (p1 :> c1) @@ (p2 :> c1) @@ (p3 :> c2)
MCConvOfTwo == (p1 :> c1) @@ (p2 :> c1)
MCConvOfOne == (p1 :> c1)
MCReaderConv == (r1 :> c1)
MCNoReaderConv == [r \in {} |-> c1]
=============================================================================
