----------------------------- MODULE FixedWindow -----------------------------
(***************************************************************************)
(* What a fixed-window rate limiter promises for one key: of the requests  *)
(* that arrive in a window the first Times are admitted, the others        *)
(* rejected; then a new window starts.                                     *)
(***************************************************************************)
EXTENDS Naturals

CONSTANTS Times, Req

VARIABLES
    used,     \* admissions of the current window
    verdict   \* of each request, until it is answered

vars == <<used, verdict>>

Init == used = 0 /\ verdict = [r \in Req |-> "none"]

Admit(r) ==
    /\ verdict[r] = "none" /\ used < Times
    /\ used' = used + 1
    /\ verdict' = [verdict EXCEPT ![r] = "admit"]

Reject(r) ==
    /\ verdict[r] = "none" /\ used >= Times
    /\ verdict' = [verdict EXCEPT ![r] = "reject"]
    /\ UNCHANGED used

Answer(r) ==
    /\ verdict' = [verdict EXCEPT ![r] = "none"]
    /\ UNCHANGED used

NewWindow == used' = 0 /\ UNCHANGED verdict

Next == NewWindow \/ \E r \in Req : Admit(r) \/ Reject(r) \/ Answer(r)

Spec == Init /\ [][Next]_vars
=============================================================================
