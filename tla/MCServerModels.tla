--------------------------- MODULE MCServerModels ---------------------------
(***************************************************************************)
(* Instances of the router for TLC.  The workers are interchangeable; the  *)
(* models are not, because recency starts in some order of them.           *)
(***************************************************************************)
EXTENDS ServerModels

AllEvents == {"load", "unload", "drop", "stop", "sleep"}
Requests == {}
Sleep == {"sleep"}

Workers == Permutations(Threads)
=============================================================================
