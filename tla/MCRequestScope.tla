--------------------------- MODULE MCRequestScope ---------------------------
(* Instances of RequestScope for TLC.                                       *)
EXTENDS RequestScope

CONSTANTS t1, t2
=============================================================================
