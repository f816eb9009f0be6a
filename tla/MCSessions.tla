------------------------------ MODULE MCSessions ------------------------------
(***************************************************************************)
(* Sessions with a login, a chain of refreshes, logout and two resets.     *)
(***************************************************************************)
EXTENDS Sessions
=============================================================================
