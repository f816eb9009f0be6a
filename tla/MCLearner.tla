------------------------------ MODULE MCLearner ------------------------------
(***************************************************************************)
(* A learner with a lesson and two courses, one of them with assignments.  *)
(***************************************************************************)
EXTENDS Learner, TLC

CONSTANTS a, b  \* the requests

Symmetric == Permutations(Req)
MCCourseOf == [essay |-> "python", quiz |-> "python"]
=============================================================================
