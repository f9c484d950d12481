---------------------------- MODULE MCXrpcRelay ----------------------------
(* A small instance of XrpcRelay for TLC. *)
EXTENDS XrpcRelay, TLC

CONSTANTS d1, d2, s1, s2, s3, r1, r2

\* Two subdomains: s3 belongs to the second.  The requests are for the first,
\* so that a flush can strand one of them, and none is to reach s3.
MCSubOf  == [s \in Sockets |-> IF s = s3 THEN d2 ELSE d1]
MCTarget == [r \in Requests |-> d1]
=============================================================================
