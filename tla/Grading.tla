------------------------------- MODULE Grading -------------------------------
(***************************************************************************)
(* Submissions and grades of one tenant: AssignmentService's submit, its   *)
(* automatic grading of quizzes and grade_submission                       *)
(* (app/modules/assignments/service.py), as concurrent READ COMMITTED      *)
(* transactions.                                                           *)
(*                                                                         *)
(* No route changes an assignment or a quiz, so these are constants.  The  *)
(* columns for points are NUMERIC(6, 2); a stored value is counted in its  *)
(* hundredths.  What publish writes to the audit log belongs to module     *)
(* RequestScope.                                                           *)
(***************************************************************************)
EXTENDS Integers, FiniteSetsExt

CONSTANTS
    Assignment,   \* published assignments (submit refuses the others)
    Quiz,         \* those of type quiz that have a quiz
    max_points,   \* of each assignment, in hundredths
    questions,    \* of each quiz
    points,       \* of each question, in hundredths
    correct,      \* of each question: its answers with is_correct
    Sheet,        \* answers a learner may send, a set for each question
    Prec, Fine,   \* one over the precision of a Decimal share (10^28) and of one
                  \* multiplied to hundredths (10^22)
    Sub,          \* ids a submission may get (uuid4)
    Grader,       \* users with grade:write
    Text,         \* texts of feedback
    Sent,         \* what graders may send: points, in half hundredths, and feedback
    Req,          \* requests in flight at once
    None          \* no grader, no submission, no assignment, no feedback

\* What the tables say of assignments and quizzes: a quiz belongs to an assignment,
\* a question and its answers to a quiz.
QuizTables ==
    /\ Quiz \subseteq Assignment
    /\ \A a \in Assignment : max_points[a] \in Nat
    /\ \A a \in Quiz : questions[a] \subseteq DOMAIN points
    /\ DOMAIN correct = DOMAIN points
    /\ \A q \in DOMAIN points : points[q] \in Nat

ASSUME GradingAssumption ==
    /\ QuizTables
    /\ Prec \in Nat \ {0} /\ Fine \in Nat \ {0}
    /\ Sent \subseteq [by : Grader, points : Nat, feedback : Text \cup {None}]
    /\ None \notin Grader \cup Sub \cup Assignment \cup Text

VARIABLES
    assignment,  \* submissions.assignment_id
    answers,     \* submissions.answers
    status,      \* submissions.status; none: no such row
    grade,       \* the row of grades for each submission
    req,         \* the requests in flight
    last,        \* history: the last grading committed for each submission, and the
                 \* last feedback
    raced        \* history: submissions where two gradings overlapped

vars == <<assignment, answers, status, grade, req, last, raced>>

SubmissionStatus == {"none", "submitted", "graded"}

Grade == [present : BOOLEAN, points : Nat, by : Grader \cup {None},
          feedback : Text \cup {None}, is_auto : BOOLEAN]
NoGrade == [present |-> FALSE, points |-> 0, by |-> None, feedback |-> None,
            is_auto |-> FALSE]

Blank == [q \in DOMAIN points |-> {}]

Request == [pc : {"idle", "insert", "auto", "related", "lookup", "mark", "write",
                  "respond", "commit"},
            op : {"none", "submit", "grade"},
            sub : Sub \cup {None},
            assignment : Assignment \cup {None},
            answers : Sheet \cup {Blank},
            status : SubmissionStatus,   \* of the submission as loaded
            loaded : Grade,              \* the grade as loaded
            new : Grade,                 \* the grade submit inserts
            by : Grader \cup {None}, given : Nat, feedback : Text \cup {None}]

Idle == [pc |-> "idle", op |-> "none", sub |-> None, assignment |-> None,
         answers |-> Blank, status |-> "none", loaded |-> NoGrade,
         new |-> NoGrade, by |-> None, given |-> 0, feedback |-> None]

NoGrading == [by |-> None, points |-> 0, feedback |-> None]

Init ==
    /\ assignment = [s \in Sub |-> None]
    /\ answers = [s \in Sub |-> Blank]
    /\ status = [s \in Sub |-> "none"]
    /\ grade = [s \in Sub |-> NoGrade]
    /\ req = [r \in Req |-> Idle]
    /\ last = [s \in Sub |-> NoGrading]
    /\ raced = {}

-----------------------------------------------------------------------------
(* Points                                                                   *)

\* The integer nearest to n / d, halves upwards.
Round(n, d) == (2 * n + d) \div (2 * d)

\* The points of the questions in S.
Worth(S) == MapThenSumSet(LAMBDA q : points[q], S)

\* The loop of _auto_grade: a question earns its points for exactly its correct
\* answers, and none if nothing is selected.
Earned(a, sheet) ==
    Worth({q \in questions[a] : sheet[q] # {} /\ sheet[q] = correct[q]})

Possible(a) == Worth(questions[a])

\* earned / possible * max_pts: the quotient and the product rounded to the digits of
\* Decimal, then the result to the column's scale.
Scaled(a, sheet) ==
    IF Possible(a) = 0 THEN 0
    ELSE LET share == Round(Earned(a, sheet) * Prec, Possible(a))
             product == Round(share * max_points[a] * Fine, Prec)
         IN  Round(product, Fine)

\* What a sum of points is, which TLC computes for its instances: a number, and no
\* less for all questions than for some.  The precision of Decimal is enough for every
\* quiz with fewer than 10^15 questions, by the width of the columns.
ASSUME SumsAssumption ==
    \A a \in Quiz :
        /\ Possible(a) \in Nat
        /\ 2 * (max_points[a] * Possible(a)) < Prec /\ 2 * Possible(a) < Fine
        /\ \A sheet \in Sheet : Earned(a, sheet) \in 0 .. Possible(a)

-----------------------------------------------------------------------------
(* submit                                                                   *)

SubmitLoad(r, s, a, sheet) ==
    /\ req[r].pc = "idle"
    /\ status[s] = "none" /\ \A o \in Req : req[o].sub # s
    /\ req' = [req EXCEPT ![r] = [Idle EXCEPT !.pc = "insert", !.op = "submit",
                 !.sub = s, !.assignment = a, !.answers = sheet,
                 !.status = "submitted"]]
    /\ UNCHANGED <<assignment, answers, status, grade, last, raced>>

\* The row is this transaction's alone until the commit.
SubmitInsert(r) ==
    /\ req[r].pc = "insert"
    /\ req' = [req EXCEPT ![r].pc = IF req[r].assignment \in Quiz THEN "auto"
                                    ELSE "respond"]
    /\ UNCHANGED <<assignment, answers, status, grade, last, raced>>

\* The submission keeps the status it was inserted with.
AutoGrade_Unmarked(r) ==
    /\ req[r].pc = "auto"
    /\ req' = [req EXCEPT ![r].pc = "respond",
                          ![r].new = [present |-> TRUE,
                             points |-> Scaled(req[r].assignment, req[r].answers),
                             by |-> None, feedback |-> None, is_auto |-> TRUE]]
    /\ UNCHANGED <<assignment, answers, status, grade, last, raced>>

\* _auto_grade and _record_grade, which finds no grade for the new submission.
AutoGrade(r) ==
    /\ req[r].pc = "auto"
    /\ req' = [req EXCEPT ![r].pc = "respond", ![r].status = "graded",
                          ![r].new = [present |-> TRUE,
                             points |-> Scaled(req[r].assignment, req[r].answers),
                             by |-> None, feedback |-> None, is_auto |-> TRUE]]
    /\ UNCHANGED <<assignment, answers, status, grade, last, raced>>

CommitSubmit(q) ==
    /\ assignment' = [assignment EXCEPT ![q.sub] = q.assignment]
    /\ answers' = [answers EXCEPT ![q.sub] = q.answers]
    /\ status' = [status EXCEPT ![q.sub] = q.status]
    /\ grade' = [grade EXCEPT ![q.sub] = q.new]
    /\ UNCHANGED last

-----------------------------------------------------------------------------
(* grade_submission                                                         *)

OtherGrading(r, s) == \E o \in Req \ {r} : req[o].op = "grade" /\ req[o].sub = s

\* get_or_404 of the submission.
GradeLoad(r, s, m) ==
    /\ req[r].pc = "idle"
    /\ status[s] # "none"
    /\ req' = [req EXCEPT ![r] = [Idle EXCEPT !.pc = "related", !.op = "grade",
                 !.sub = s, !.assignment = assignment[s], !.status = status[s],
                 !.by = m.by, !.given = m.points, !.feedback = m.feedback]]
    /\ raced' = IF OtherGrading(r, s) THEN raced \cup {s} ELSE raced
    /\ UNCHANGED <<assignment, answers, status, grade, last>>

\* Its relationship grade comes with a statement of its own (lazy="selectin").
GradeRelated(r) ==
    /\ req[r].pc = "related"
    /\ req' = [req EXCEPT ![r].pc = "lookup", ![r].loaded = grade[req[r].sub]]
    /\ UNCHANGED <<assignment, answers, status, grade, last, raced>>

\* The assignment is loaded and the points compared, before they are rounded, with
\* its maximum (422).  get_by_submission returns the object the session has, as
\* it was loaded, or else what the table has now.
GradeLookup(r) ==
    /\ req[r].pc = "lookup"
    /\ req' = [req EXCEPT ![r] =
          IF req[r].given > 2 * max_points[req[r].assignment] THEN Idle
          ELSE [req[r] EXCEPT !.pc = "mark",
                  !.loaded = IF req[r].loaded.present THEN req[r].loaded
                             ELSE grade[req[r].sub]]]
    /\ UNCHANGED <<assignment, answers, status, grade, last, raced>>

\* Has q an uncommitted UPDATE of the submission's row?
Marked(q) == q.op = "grade" /\ q.status # "graded"
             /\ q.pc \in {"write", "respond", "commit"}

\* ... or an uncommitted row of grades?
Wrote(q) == q.op = "grade" /\ q.pc \in {"respond", "commit"}

\* The flush, first statement: UPDATE submissions, if the status changes.
GradeMark(r) ==
    /\ req[r].pc = "mark"
    /\ req[r].status # "graded" =>
         \A o \in Req \ {r} : ~(Marked(req[o]) /\ req[o].sub = req[r].sub)
    /\ req' = [req EXCEPT ![r].pc = "write"]
    /\ UNCHANGED <<assignment, answers, status, grade, last, raced>>

\* Waits until every status update is committed, its own included.
GradeWrite_WaitsForMark(r) ==
    /\ req[r].pc = "write"
    /\ \A o \in Req : ~(Marked(req[o]) /\ req[o].sub = req[r].sub)
    /\ req' = [req EXCEPT ![r].pc = "respond"]
    /\ UNCHANGED <<assignment, answers, status, grade, last, raced>>

\* ... second statement: INSERT or UPDATE of the grade; both wait for another's.
\* The INSERT fails if there is a grade by now (500).
GradeWrite(r) ==
    /\ req[r].pc = "write"
    /\ \A o \in Req \ {r} : ~(Wrote(req[o]) /\ req[o].sub = req[r].sub)
    /\ req' = [req EXCEPT ![r] =
          IF ~req[r].loaded.present /\ grade[req[r].sub].present THEN Idle
          ELSE [@ EXCEPT !.pc = "respond"]]
    /\ UNCHANGED <<assignment, answers, status, grade, last, raced>>

\* Who graded an existing grade is left as it is.
Regraded_KeepsAuthor(q, old) ==
    [old EXCEPT
       !.points = IF q.given # 2 * q.loaded.points THEN Round(q.given, 2) ELSE @,
       !.feedback = IF q.feedback \notin {None, q.loaded.feedback} THEN q.feedback ELSE @]

\* All columns written back as loaded, or as changed.
Regraded_WholeRow(q, old) ==
    [present |-> TRUE, points |-> Round(q.given, 2), by |-> q.by,
     feedback |-> IF q.feedback # None THEN q.feedback ELSE q.loaded.feedback,
     is_auto |-> FALSE]

\* What the UPDATE makes of the row: it sets the columns whose new value differs
\* from the loaded one.
Regraded(q, old) ==
    [present |-> TRUE,
     points |-> IF q.given # 2 * q.loaded.points THEN Round(q.given, 2)
                ELSE old.points,
     by |-> IF q.by # q.loaded.by THEN q.by ELSE old.by,
     feedback |-> IF q.feedback \notin {None, q.loaded.feedback} THEN q.feedback
                  ELSE old.feedback,
     is_auto |-> old.is_auto /\ ~q.loaded.is_auto]

CommitGrade(q) ==
    /\ grade' = [grade EXCEPT ![q.sub] =
          IF q.loaded.present THEN Regraded(q, grade[q.sub])
          ELSE [present |-> TRUE, points |-> Round(q.given, 2), by |-> q.by,
                feedback |-> q.feedback, is_auto |-> FALSE]]
    /\ status' = [status EXCEPT ![q.sub] = "graded"]
    /\ last' = [last EXCEPT ![q.sub] = [by |-> q.by, points |-> Round(q.given, 2),
                    feedback |-> IF q.feedback # None THEN q.feedback ELSE @.feedback]]
    /\ UNCHANGED <<assignment, answers>>

-----------------------------------------------------------------------------
(* The end of a request                                                     *)

Respond(r) ==
    /\ req[r].pc = "respond"
    /\ req' = [req EXCEPT ![r].pc = "commit"]
    /\ UNCHANGED <<assignment, answers, status, grade, last, raced>>

\* get_db after the yield.
Commit(r) ==
    /\ req[r].pc = "commit"
    /\ \/ req[r].op = "submit" /\ CommitSubmit(req[r])
       \/ req[r].op = "grade" /\ CommitGrade(req[r])
    /\ req' = [req EXCEPT ![r] = Idle]
    /\ UNCHANGED raced

\* An error, a lost connection, a dying worker: rollback.
Abort(r) ==
    /\ req[r].pc # "idle"
    /\ req' = [req EXCEPT ![r] = Idle]
    /\ UNCHANGED <<assignment, answers, status, grade, last, raced>>

Next ==
    \/ \E r \in Req, s \in Sub, a \in Assignment, sheet \in Sheet :
          SubmitLoad(r, s, a, sheet)
    \/ \E r \in Req : SubmitInsert(r)
    \/ \E r \in Req : AutoGrade(r)
    \/ \E r \in Req, s \in Sub, m \in Sent : GradeLoad(r, s, m)
    \/ \E r \in Req : GradeRelated(r)
    \/ \E r \in Req : GradeLookup(r)
    \/ \E r \in Req : GradeMark(r)
    \/ \E r \in Req : GradeWrite(r)
    \/ \E r \in Req : Respond(r)
    \/ \E r \in Req : Commit(r)
    \/ \E r \in Req : Abort(r)

Spec == Init /\ [][Next]_vars

(***************************************************************************)
(* A request runs its next statement when it can; PostgreSQL serves the    *)
(* waiters of a row or a key in turn.                                      *)
(***************************************************************************)
Step(r) ==
    \/ SubmitInsert(r) \/ AutoGrade(r) \/ GradeRelated(r) \/ GradeLookup(r)
    \/ GradeMark(r) \/ GradeWrite(r) \/ Respond(r) \/ Commit(r)

FairSpec == Spec /\ \A r \in Req : SF_vars(Step(r))

-----------------------------------------------------------------------------
(* Properties                                                               *)

TypeOK ==
    /\ assignment \in [Sub -> Assignment \cup {None}]
    /\ answers \in [Sub -> Sheet \cup {Blank}]
    /\ status \in [Sub -> SubmissionStatus]
    /\ grade \in [Sub -> Grade]
    /\ req \in [Req -> Request]
    /\ raced \subseteq Sub
    /\ \A s \in Sub : grade[s].present => grade[s].points <= max_points[assignment[s]]

\* A submission says "graded" just when it has a grade, whatever gradings fail,
\* lose the race for the insert or overlap (service.py:148-170).
GradedIffGrade == \A s \in Sub : status[s] = "graded" <=> grade[s].present

\* The questions answered right: some answers, all of them correct, none missed.
Right(a, sheet) ==
    {q \in questions[a] : /\ \E x \in sheet[q] : TRUE
                          /\ \A x \in sheet[q] \cup correct[q] :
                                x \in sheet[q] /\ x \in correct[q]}

\* n is the column value nearest to the share of the maximum a sheet has earned.
Nearest(a, sheet, n) ==
    LET all == Worth(questions[a])
        off == n * all - Worth(Right(a, sheet)) * max_points[a]
    IN  IF all = 0 THEN n = 0 ELSE 2 * off <= all /\ 2 * off >= -all

\* An automatic grade is the column value nearest to the learner's share of the
\* maximum, of the answers the submission stores: three roundings do no more harm
\* than one, nothing is divided by zero, and no later grading leaves such a grade
\* half changed (service.py:105-118, 163-168).
AutoGradeNearest ==
    \A s \in Sub : grade[s].present /\ grade[s].is_auto =>
        grade[s].by = None /\ Nearest(assignment[s], answers[s], grade[s].points)

\* A grade shows the points and the grader of the grading committed last, and the
\* last feedback sent, unless two gradings of the submission overlapped: then each
\* column has the value of the last request that changed it (service.py:148, 163-168).
SerialGrade ==
    \A s \in Sub \ raced :
        /\ grade[s].feedback = last[s].feedback
        /\ grade[s].present /\ ~grade[s].is_auto =>
              grade[s].by = last[s].by /\ grade[s].points = last[s].points

\* Feedback changes only to what the grading that commits was sent: one without
\* feedback neither takes away what is there nor brings an older text back, even
\* if the text has been written since it loaded the grade (service.py:165).
FeedbackKept ==
    [][\A s \in Sub : grade'[s].feedback # grade[s].feedback =>
          \E r \in Req : /\ req[r].pc = "commit" /\ req[r].sub = s
                         /\ req[r].feedback # None
                         /\ grade'[s].feedback = req[r].feedback]_vars

\* Gradings wait for a submission's row and for its grade, never in a circle.
RequestsEnd == \A r \in Req : req[r].pc # "idle" ~> req[r].pc = "idle"
=============================================================================
