------------------------------ MODULE MCGrading ------------------------------
(***************************************************************************)
(* An instance of Grading for TLC: an essay and a quiz, one answer sheet.  *)
(* The points of every sheet are computed for two more quizzes as well,    *)
(* one of them without points.                                             *)
(***************************************************************************)
EXTENDS Grading

MCMax == [essay |-> 6, quiz |-> 10, short |-> 7, survey |-> 10]
MCQuestions == [quiz |-> {"single", "multiple", "open"},
                short |-> {"single", "multiple"}, survey |-> {"free"}]
MCPoints == [single |-> 2, multiple |-> 4, open |-> 1, free |-> 0]
MCCorrect == [single |-> {"x"}, multiple |-> {"x", "y"}, open |-> {},
              free |-> {"x"}]
MCSheet == {[single |-> {"x"}, multiple |-> {"x"}, open |-> {}, free |-> {}]}

\* Both graders with and without feedback, with points in common and points that are
\* too many for the essay.
MCSent == {[by |-> g, points |-> n, feedback |-> f] : <<g, n, f>> \in
             {<<"g1", 5, None>>, <<"g1", 5, "t1">>, <<"g1", 13, "t2">>,
              <<"g2", 5, None>>, <<"g2", 5, "t2">>, <<"g2", 13, None>>}}

AllSheets == [{"single", "multiple", "open", "free"} -> SUBSET {"x", "y"}]

\* _auto_grade rounds to the nearest value, whatever is answered.
ASSUME ScaledNearest ==
    \A a \in DOMAIN questions, sheet \in AllSheets : Nearest(a, sheet, Scaled(a, sheet))
=============================================================================
