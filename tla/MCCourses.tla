----------------------------- MODULE MCCourses -----------------------------
(* Instances of Courses for TLC.                                            *)
EXTENDS Courses

CONSTANTS c1, c2, u1, u2, s1, q1, q2

NoCourse == {}
AnySlug == [c \in CourseId |-> s1]
=============================================================================
