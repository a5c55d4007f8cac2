------------------------------ MODULE MCXdmcp -------------------------------
(* Xdmcp on instances small enough for TLC. *)
EXTENDS Xdmcp

CONSTANTS h1, h2, s1, s2, s3

\* The first manager gives out two sessions.
MCOwner == [s \in {s1, s2, s3} |-> IF s = s3 THEN h2 ELSE h1]

MCMgrAddr == <<h1, h2>>
=============================================================================
