---------------------------- MODULE GradingProofs ----------------------------
(***************************************************************************)
(* Proofs that submissions and grades keep their invariants for any number *)
(* of assignments, submissions, graders and concurrent requests.           *)
(***************************************************************************)
EXTENDS Grading, TLAPS

\* The points have been compared with the maximum.
Checked == {"mark", "write", "respond", "commit"}

\* Which operation a request runs is known from where it stands.
Placed(q) ==
    /\ q.pc = "idle" <=> q.op = "none"
    /\ q.pc \in {"insert", "auto"} => q.op = "submit"
    /\ q.pc \in {"related", "lookup", "mark", "write"} => q.op = "grade"
    /\ q.op = "none" => q.sub = None

\* A submit owns its submission, which nobody else can see yet.
SubmitOK(q) ==
    q.op = "submit" =>
        /\ q.sub \in Sub /\ q.assignment \in Assignment /\ q.answers \in Sheet
        /\ q.pc = "auto" => q.assignment \in Quiz
        /\ status[q.sub] = "none" /\ q.status # "none"
        /\ q.status = "graded" <=> q.new.present
        /\ q.new.feedback = None
        /\ q.new.present => q.new.is_auto /\ q.new.points <= max_points[q.assignment]

\* A grading works on a committed submission; a grade it has loaded is still
\* there, and unchanged if no other grading overlaps; one it inserts is the first.
GradeOK(q) ==
    q.op = "grade" =>
        /\ q.sub \in Sub /\ q.by \in Grader
        /\ status[q.sub] # "none"
        /\ q.assignment = assignment[q.sub]
        /\ q.pc \in Checked => q.given <= 2 * max_points[q.assignment]
        /\ q.loaded.present => grade[q.sub].present
        /\ Wrote(q) /\ ~q.loaded.present => ~grade[q.sub].present
        /\ q.loaded.present /\ q.sub \notin raced => q.loaded = grade[q.sub]

RequestOK(q) == Placed(q) /\ SubmitOK(q) /\ GradeOK(q)

\* Two requests have a submission in common only if both grade it, and then it is
\* marked as raced.
Alone ==
    \A r, o \in Req : r # o /\ req[r].sub = req[o].sub /\ req[r].sub # None =>
        req[r].op = "grade" /\ req[o].op = "grade" /\ req[r].sub \in raced

\* No two requests have written the grade of one submission.
Writers ==
    \A r, o \in Req : r # o /\ Wrote(req[r]) /\ Wrote(req[o]) =>
        req[r].sub # req[o].sub

\* Submissions are to an assignment, and no grade has no feedback.
RowsOK ==
    /\ \A s \in Sub : status[s] # "none" => assignment[s] \in Assignment
    /\ last \in [Sub -> [by : Grader \cup {None}, points : Nat, feedback : Text \cup {None}]]
    /\ \A s \in Sub : ~grade[s].present => grade[s].feedback = None

\* The inductive invariant.
IInv ==
    /\ TypeOK /\ RowsOK
    /\ \A r \in Req : RequestOK(req[r])
    /\ Alone /\ Writers
    /\ GradedIffGrade /\ SerialGrade

\* What an automatic grade is, in the table and in the request that brings it; a
\* grade that was loaded as given by a grader has not become automatic since.
AutoOK(s) ==
    grade[s].present /\ grade[s].is_auto =>
        /\ assignment[s] \in Quiz /\ answers[s] \in Sheet
        /\ grade[s].by = None /\ grade[s].points = Scaled(assignment[s], answers[s])

NewOK(q) ==
    /\ q.op = "submit" /\ q.new.present =>
          /\ q.assignment \in Quiz /\ q.answers \in Sheet
          /\ q.new.by = None /\ q.new.points = Scaled(q.assignment, q.answers)
    /\ q.op = "grade" /\ q.loaded.present /\ q.loaded.is_auto = FALSE =>
          grade[q.sub].is_auto = FALSE

AutoInv == (\A s \in Sub : AutoOK(s)) /\ \A r \in Req : NewOK(req[r])

-----------------------------------------------------------------------------
(* Points                                                                   *)

\* Half of the divisor at most separates a rounded quotient from the exact one.
LEMMA RoundNear ==
    ASSUME NEW n \in Nat, NEW d \in Nat \ {0}
    PROVE  /\ Round(n, d) \in Nat
           /\ 2 * (d * Round(n, d)) <= 2 * n + d
           /\ 2 * n < 2 * (d * Round(n, d)) + d
<1> DEFINE k == (2 * n + d) \div (2 * d)
<1>1. k \in Nat /\ (2 * d) * k <= 2 * n + d /\ 2 * n + d < (2 * d) * k + 2 * d
    OBVIOUS
<1>2. (2 * d) * k = 2 * (d * k)
    BY <1>1
<1>3. QED
    BY <1>1, <1>2 DEF Round

LEMMA Cancel ==
    ASSUME NEW k \in Nat \ {0}, NEW i \in Int, NEW j \in Int, k * i < k * j
    PROVE  i < j
OBVIOUS

\* A quotient of at most m is rounded to at most m.
LEMMA RoundBelow ==
    ASSUME NEW n \in Nat, NEW d \in Nat \ {0}, NEW m \in Nat, n <= d * m
    PROVE  Round(n, d) <= m
<1> DEFINE k == Round(n, d)
<1>1. k \in Nat /\ 2 * (d * k) <= 2 * n + d
    BY RoundNear
<1> HIDE DEF k
<1>2. d * k < d * (m + 1)
  <2>1. d * k \in Nat /\ d * m \in Nat /\ d * (m + 1) = d * m + d
      BY <1>1
  <2>2. QED
      BY <1>1, <2>1
<1>3. k < m + 1
    BY <1>1, <1>2, Cancel
<1>4. QED
    BY <1>1, <1>3 DEF k

\* Three roundings, of e / p to a multiple of 1 / k, of m times that to one of 1 / f and
\* of the result to an integer, come as near to m * e / p as one, where k and f are large
\* enough.
LEMMA ThreeRoundings ==
    ASSUME NEW e \in Nat, NEW p \in Nat \ {0}, NEW m \in Nat, NEW k \in Nat \ {0},
           NEW f \in Nat \ {0}, e <= p, 2 * (m * p) < k, 2 * p < f
    PROVE  LET x == Round(e * k, p)
               y == Round(x * m * f, k)
               n == Round(y, f)
           IN  /\ n \in Nat /\ n <= m
               /\ 2 * (n * p - e * m) <= p /\ 2 * (n * p - e * m) >= -p
<1> DEFINE x == Round(e * k, p)
           y == Round(x * m * f, k)
           n == Round(y, f)
<1>1. x \in Nat /\ 2 * (p * x) <= 2 * (e * k) + p /\ 2 * (e * k) < 2 * (p * x) + p
    BY RoundNear
<1>2. x <= k
  <2>1. e * k \in Nat /\ e * k <= p * k
      OBVIOUS
  <2>2. QED
      BY <2>1, RoundBelow
<1> HIDE DEF x
<1>3. /\ y \in Nat
      /\ 2 * (k * y) <= 2 * (x * m * f) + k /\ 2 * (x * m * f) < 2 * (k * y) + k
  <2>1. x * m * f \in Nat
      BY <1>1
  <2>2. QED
      BY <2>1, RoundNear
<1>4. y <= m * f
  <2>1. x * m \in Nat /\ x * m <= k * m
      BY <1>1, <1>2
  <2>2. x * m * f \in Nat /\ x * m * f <= (k * m) * f
      BY <2>1
  <2>3. (k * m) * f = k * (m * f) /\ m * f \in Nat
      OBVIOUS
  <2>4. QED
      BY <2>2, <2>3, RoundBelow
<1> HIDE DEF y
<1>5. n \in Nat /\ 2 * (f * n) <= 2 * y + f /\ 2 * y < 2 * (f * n) + f
    BY <1>3, RoundNear
<1>6. n <= m
    BY <1>3, <1>4, RoundBelow
<1> HIDE DEF n
<1> DEFINE np == n * p
           em == e * m
           mp == m * p
           kf == k * f
           kp == k * p
           xmp == x * m * p
           A == kf * np
           B == kf * em
           C == kf * p
           Y == (k * y) * p
           X == xmp * f
           M == mp * f
<1>7. /\ np \in Nat /\ em \in Nat /\ mp \in Nat /\ kf \in Nat \ {0} /\ kp \in Nat /\ xmp \in Nat
      /\ A \in Nat /\ B \in Nat /\ C \in Nat /\ Y \in Nat /\ X \in Nat /\ M \in Nat
    BY <1>1, <1>3, <1>5
<1>8. 2 * A <= 2 * Y + C /\ 2 * Y <= 2 * A + C
  <2>1. /\ (2 * (f * n)) * kp <= (2 * y + f) * kp
        /\ (2 * y) * kp <= (2 * (f * n) + f) * kp
      BY <1>3, <1>5, <1>7
  <2>2. /\ (2 * (f * n)) * kp = 2 * A /\ (2 * y) * kp = 2 * Y
        /\ (2 * y + f) * kp = 2 * Y + C /\ (2 * (f * n) + f) * kp = 2 * A + C
      BY <1>3, <1>5
  <2>3. QED
      BY <2>1, <2>2
<1>9. 2 * Y <= 2 * X + kp /\ 2 * X <= 2 * Y + kp
  <2>1. /\ (2 * (k * y)) * p <= (2 * (x * m * f) + k) * p
        /\ (2 * (x * m * f)) * p <= (2 * (k * y) + k) * p
      BY <1>1, <1>3
  <2>2. /\ (2 * (k * y)) * p = 2 * Y /\ (2 * (x * m * f)) * p = 2 * X
        /\ (2 * (x * m * f) + k) * p = 2 * X + kp /\ (2 * (k * y) + k) * p = 2 * Y + kp
      BY <1>1, <1>3
  <2>3. QED
      BY <2>1, <2>2
<1>10. 2 * X <= 2 * B + M /\ 2 * B <= 2 * X + M
  <2> DEFINE mf == m * f
  <2>1. mf \in Nat
      OBVIOUS
  <2>2. /\ (2 * (p * x)) * mf <= (2 * (e * k) + p) * mf
        /\ (2 * (e * k)) * mf <= (2 * (p * x) + p) * mf
      BY <1>1, <2>1
  <2>3. /\ (2 * (p * x)) * mf = 2 * X /\ (2 * (e * k)) * mf = 2 * B
        /\ (2 * (e * k) + p) * mf = 2 * B + M /\ (2 * (p * x) + p) * mf = 2 * X + M
      BY <1>1
  <2>4. QED
      BY <2>2, <2>3
<1>11. 2 * M < kf /\ 2 * kp < kf
  <2>1. (2 * mp) * f < k * f /\ (2 * p) * k < f * k
      OBVIOUS
  <2>2. (2 * mp) * f = 2 * M /\ (2 * p) * k = 2 * kp /\ f * k = kf
      OBVIOUS
  <2>3. QED
      BY <2>1, <2>2
<1>12. kf * (2 * np) = 2 * A /\ kf * (2 * em) = 2 * B
       /\ kf * (2 * em + p + 1) = 2 * B + C + kf /\ kf * (2 * np + p + 1) = 2 * A + C + kf
    BY <1>7
<1>13. kf * (2 * np) < kf * (2 * em + p + 1) /\ kf * (2 * em) < kf * (2 * np + p + 1)
  <2> HIDE DEF np, em, mp, kf, kp, xmp, A, B, C, Y, X, M
  <2>1. QED
      BY <1>7, <1>8, <1>9, <1>10, <1>11, <1>12
<1>14. 2 * np < 2 * em + p + 1 /\ 2 * em < 2 * np + p + 1
  <2> HIDE DEF np, em, mp, kf, kp, xmp, A, B, C, Y, X, M
  <2>1. /\ 2 * np \in Int /\ 2 * em \in Int
        /\ 2 * em + p + 1 \in Int /\ 2 * np + p + 1 \in Int
      BY <1>7
  <2>2. QED
      BY <1>7, <1>13, <2>1, Cancel
<1>15. 2 * (np - em) <= p /\ 2 * (np - em) >= -p
  <2> HIDE DEF np, em
  <2>1. QED
      BY <1>7, <1>14
<1>16. QED
    BY <1>5, <1>6, <1>15 DEF n, y, x

\* An automatic grade is at most the maximum,
LEMMA ScaledBelow ==
    ASSUME NEW a \in Quiz, NEW sheet \in Sheet
    PROVE  Scaled(a, sheet) \in Nat /\ Scaled(a, sheet) <= max_points[a]
<1>1. /\ Possible(a) \in Nat /\ Earned(a, sheet) \in Nat
      /\ Earned(a, sheet) <= Possible(a)
      /\ max_points[a] \in Nat /\ Prec \in Nat \ {0} /\ Fine \in Nat \ {0}
      /\ 2 * (max_points[a] * Possible(a)) < Prec /\ 2 * Possible(a) < Fine
    BY GradingAssumption, SumsAssumption DEF QuizTables
<1>2. CASE Possible(a) = 0
    BY <1>1, <1>2 DEF Scaled
<1>3. CASE Possible(a) # 0
    BY <1>1, <1>3, ThreeRoundings DEF Scaled
<1>4. QED
    BY <1>2, <1>3

\* and the nearest to the share of it that is earned: earned is what the questions
\* answered right are worth.
LEMMA ScaledNear ==
    ASSUME NEW a \in Quiz, NEW sheet \in Sheet
    PROVE  Nearest(a, sheet, Scaled(a, sheet))
<1>1. /\ Possible(a) \in Nat /\ Earned(a, sheet) \in Nat
      /\ Earned(a, sheet) <= Possible(a)
      /\ max_points[a] \in Nat /\ Prec \in Nat \ {0} /\ Fine \in Nat \ {0}
      /\ 2 * (max_points[a] * Possible(a)) < Prec /\ 2 * Possible(a) < Fine
    BY GradingAssumption, SumsAssumption DEF QuizTables
<1>2. Right(a, sheet) = {q \in questions[a] : sheet[q] # {} /\ sheet[q] = correct[q]}
    BY DEF Right
<1>3. Worth(Right(a, sheet)) = Earned(a, sheet) /\ Worth(questions[a]) = Possible(a)
    BY <1>2 DEF Earned, Possible
<1>4. CASE Possible(a) = 0
    BY <1>3, <1>4 DEF Nearest, Scaled
<1>5. CASE Possible(a) # 0
  <2> DEFINE x == Round(Earned(a, sheet) * Prec, Possible(a))
             y == Round(x * max_points[a] * Fine, Prec)
             n == Round(y, Fine)
  <2>1. /\ 2 * (n * Possible(a) - Earned(a, sheet) * max_points[a]) <= Possible(a)
        /\ 2 * (n * Possible(a) - Earned(a, sheet) * max_points[a]) >= -Possible(a)
      BY <1>1, <1>5, ThreeRoundings
  <2>2. Scaled(a, sheet) = n
      BY <1>5 DEF Scaled
  <2>3. QED
      BY <1>3, <1>5, <2>1, <2>2 DEF Nearest
<1>6. QED
    BY <1>4, <1>5

-----------------------------------------------------------------------------

\* Nothing is submitted at first.
LEMMA InitInv == Init => IInv
<1> SUFFICES ASSUME Init PROVE IInv
    OBVIOUS
<1> USE GradingAssumption DEF Init, QuizTables
<1>1. NoGrade \in Grade
    BY DEF NoGrade, Grade
<1>2. Idle \in Request
    BY <1>1 DEF Idle, Request, SubmissionStatus
<1>3. TypeOK
    BY <1>1, <1>2 DEF TypeOK, SubmissionStatus, NoGrade
<1>4. RowsOK
    BY DEF RowsOK, NoGrading, NoGrade
<1>5. \A r \in Req : RequestOK(req[r])
    BY DEF RequestOK, Placed, SubmitOK, GradeOK, Idle
<1>6. Alone /\ Writers
    BY DEF Alone, Writers, Wrote, Idle
<1>7. GradedIffGrade /\ SerialGrade
    BY DEF GradedIffGrade, SerialGrade, NoGrade, NoGrading
<1>8. QED
    BY <1>3, <1>4, <1>5, <1>6, <1>7 DEF IInv

\* A step of one request that changes no table keeps the invariant if the request
\* does, with a submission that it had or that nobody else has.
LEMMA LocalStep ==
    ASSUME IInv, NEW r \in Req, NEW q \in Request, RequestOK(q),
           req' = [req EXCEPT ![r] = q],
           UNCHANGED <<assignment, answers, status, grade, last, raced>>,
           \/ q.sub = None
           \/ q.sub = req[r].sub /\ q.op = req[r].op
           \/ \A o \in Req \ {r} : req[o].sub # q.sub,
           Wrote(q) => \/ Wrote(req[r]) /\ q.sub = req[r].sub
                       \/ \A o \in Req \ {r} : ~(Wrote(req[o]) /\ req[o].sub = q.sub)
    PROVE  IInv'
<1>1. req \in [Req -> Request]
    BY DEF IInv, TypeOK
<1>2. /\ req' \in [Req -> Request]
      /\ req'[r] = q /\ \A o \in Req \ {r} : req'[o] = req[o]
    BY <1>1
<1>3. TypeOK'
    BY <1>2 DEF IInv, TypeOK
<1>4. RowsOK' /\ GradedIffGrade' /\ SerialGrade'
    BY DEF IInv, RowsOK, GradedIffGrade, SerialGrade
<1>5. \A o \in Req : RequestOK(req'[o])
    BY <1>2 DEF IInv
<1>6. (\A o \in Req : RequestOK(req[o]))'
    BY <1>5 DEF RequestOK, Placed, SubmitOK, GradeOK, Wrote
<1>7. Alone'
    BY <1>2 DEF IInv, Alone
<1>8. Writers'
  <2>1. \A o \in Req : Wrote(req[o])' = Wrote(req'[o])
      BY DEF Wrote
  <2>2. QED
      BY <1>2, <2>1 DEF IInv, Writers
<1>9. QED
    BY <1>3, <1>4, <1>6, <1>7, <1>8 DEF IInv

\* The steps of submit before its commit.
LEMMA SubmitSteps ==
    ASSUME IInv, NEW r \in Req,
           \/ \E s \in Sub, a \in Assignment, sheet \in Sheet :
                 SubmitLoad(r, s, a, sheet)
           \/ SubmitInsert(r) \/ AutoGrade(r)
    PROVE  IInv'
<1> USE GradingAssumption DEF QuizTables
<1>1. /\ req[r] \in Request /\ RequestOK(req[r])
      /\ NoGrade \in Grade /\ Blank \in Sheet \cup {Blank}
    BY DEF IInv, TypeOK, NoGrade, Grade
<1>2. ASSUME NEW s \in Sub, NEW a \in Assignment, NEW sheet \in Sheet,
             SubmitLoad(r, s, a, sheet)
      PROVE  IInv'
  <2> DEFINE q == [Idle EXCEPT !.pc = "insert", !.op = "submit",
                     !.sub = s, !.assignment = a, !.answers = sheet,
                     !.status = "submitted"]
  <2>1. q \in Request
      BY <1>1 DEF Idle, Request, SubmissionStatus
  <2>2. RequestOK(q) /\ ~Wrote(q)
      BY <1>2 DEF SubmitLoad, RequestOK, Placed, SubmitOK, GradeOK, Idle, NoGrade, Wrote
  <2>3. \A o \in Req \ {r} : req[o].sub # q.sub
      BY <1>2 DEF SubmitLoad, Idle
  <2>4. /\ req' = [req EXCEPT ![r] = q]
        /\ UNCHANGED <<assignment, answers, status, grade, last, raced>>
      BY <1>2 DEF SubmitLoad
  <2> HIDE DEF q
  <2>5. QED
      BY <2>1, <2>2, <2>3, <2>4, LocalStep
<1>3. ASSUME SubmitInsert(r) PROVE IInv'
  <2> DEFINE q == [req[r] EXCEPT !.pc = IF req[r].assignment \in Quiz THEN "auto"
                                        ELSE "respond"]
  <2>1. q \in Request
      BY <1>1 DEF Request
  <2>2. RequestOK(q) /\ q.sub = req[r].sub /\ q.op = req[r].op /\ ~Wrote(q)
      BY <1>1, <1>3 DEF SubmitInsert, RequestOK, Placed, SubmitOK, GradeOK, Request, Wrote
  <2>3. /\ req' = [req EXCEPT ![r] = q]
        /\ UNCHANGED <<assignment, answers, status, grade, last, raced>>
      BY <1>3 DEF SubmitInsert
  <2> HIDE DEF q
  <2>4. QED
      BY <2>1, <2>2, <2>3, LocalStep
<1>4. ASSUME AutoGrade(r) PROVE IInv'
  <2> DEFINE p == Scaled(req[r].assignment, req[r].answers)
             q == [req[r] EXCEPT !.pc = "respond", !.status = "graded",
                     !.new = [present |-> TRUE, points |-> p, by |-> None,
                              feedback |-> None, is_auto |-> TRUE]]
  <2>1. p \in Nat /\ p <= max_points[req[r].assignment]
      BY <1>1, <1>4, ScaledBelow
      DEF AutoGrade, RequestOK, Placed, SubmitOK
  <2>2. /\ req' = [req EXCEPT ![r] = q]
        /\ UNCHANGED <<assignment, answers, status, grade, last, raced>>
      BY <1>4 DEF AutoGrade
  <2> HIDE DEF p
  <2>3. q \in Request
      BY <1>1, <2>1 DEF Request, Grade, SubmissionStatus
  <2>4. RequestOK(q) /\ q.sub = req[r].sub /\ q.op = req[r].op /\ ~Wrote(q)
      BY <1>1, <1>4, <2>1
      DEF AutoGrade, RequestOK, Placed, SubmitOK, GradeOK, Request, Wrote
  <2> HIDE DEF q
  <2>5. QED
      BY <2>2, <2>3, <2>4, LocalStep
<1>5. QED
    BY <1>2, <1>3, <1>4

\* The steps of grade_submission between its first statement and its commit.
LEMMA GradeSteps ==
    ASSUME IInv, NEW r \in Req,
           GradeRelated(r) \/ GradeLookup(r) \/ GradeMark(r) \/ GradeWrite(r)
    PROVE  IInv'
<1> USE GradingAssumption DEF QuizTables
<1>1. /\ req[r] \in Request /\ RequestOK(req[r])
      /\ grade \in [Sub -> Grade] /\ NoGrade \in Grade
    BY DEF IInv, TypeOK, NoGrade, Grade
<1>2. Idle \in Request /\ RequestOK(Idle) /\ Idle.sub = None /\ ~Wrote(Idle)
    BY <1>1 DEF Idle, Request, SubmissionStatus, RequestOK, Placed, SubmitOK, GradeOK,
                 Wrote
<1>3. ASSUME GradeRelated(r) PROVE IInv'
  <2> DEFINE q == [req[r] EXCEPT !.pc = "lookup", !.loaded = grade[req[r].sub]]
  <2>1. req[r].sub \in Sub
      BY <1>1, <1>3 DEF GradeRelated, RequestOK, Placed, GradeOK
  <2>2. q \in Request
      BY <1>1, <2>1 DEF Request
  <2>3. RequestOK(q) /\ q.sub = req[r].sub /\ q.op = req[r].op /\ ~Wrote(q)
      BY <1>1, <1>3
      DEF GradeRelated, RequestOK, Placed, SubmitOK, GradeOK, Checked, Request, Wrote
  <2>4. /\ req' = [req EXCEPT ![r] = q]
        /\ UNCHANGED <<assignment, answers, status, grade, last, raced>>
      BY <1>3 DEF GradeRelated
  <2> HIDE DEF q
  <2>5. QED
      BY <2>2, <2>3, <2>4, LocalStep
<1>4. ASSUME GradeLookup(r) PROVE IInv'
  <2>1. UNCHANGED <<assignment, answers, status, grade, last, raced>>
      BY <1>4 DEF GradeLookup
  <2>2. CASE req[r].given > 2 * max_points[req[r].assignment]
    <3>1. req' = [req EXCEPT ![r] = Idle]
        BY <1>4, <2>2 DEF GradeLookup
    <3>2. QED
        BY <1>2, <2>1, <3>1, LocalStep
  <2>3. CASE ~(req[r].given > 2 * max_points[req[r].assignment])
    <3> DEFINE l == IF req[r].loaded.present THEN req[r].loaded
                    ELSE grade[req[r].sub]
               q == [req[r] EXCEPT !.pc = "mark", !.loaded = l]
    <3>1. req' = [req EXCEPT ![r] = q]
        BY <1>4, <2>3 DEF GradeLookup
    <3>2. req[r].op = "grade" /\ req[r].sub \in Sub /\ req[r].pc = "lookup"
        BY <1>1, <1>4 DEF GradeLookup, RequestOK, Placed, GradeOK
    <3>3. l \in Grade /\ (l.present => grade[req[r].sub].present)
        BY <1>1, <3>2 DEF Request, RequestOK, GradeOK
    <3>4. l.present /\ req[r].sub \notin raced => l = grade[req[r].sub]
        BY <1>1, <3>2 DEF RequestOK, GradeOK
    <3> HIDE DEF l
    <3>5. q \in Request
        BY <1>1, <3>3 DEF Request
    <3>6. req[r].given <= 2 * max_points[req[r].assignment]
      <4>1. req[r].assignment \in Assignment
          BY <1>1, <3>2 DEF IInv, RowsOK, RequestOK, GradeOK
      <4>2. QED
          BY <1>1, <2>3, <4>1 DEF Request
    <3>7. RequestOK(q) /\ q.sub = req[r].sub /\ q.op = req[r].op /\ ~Wrote(q)
        BY <1>1, <3>2, <3>3, <3>4, <3>6
        DEF RequestOK, Placed, SubmitOK, GradeOK, Request, Wrote
    <3> HIDE DEF q
    <3>8. QED
        BY <2>1, <3>1, <3>5, <3>7, LocalStep
  <2>4. QED
      BY <2>2, <2>3
<1>5. ASSUME GradeMark(r) PROVE IInv'
  <2> DEFINE q == [req[r] EXCEPT !.pc = "write"]
  <2>1. q \in Request
      BY <1>1 DEF Request
  <2>2. RequestOK(q) /\ q.sub = req[r].sub /\ q.op = req[r].op /\ ~Wrote(q)
      BY <1>1, <1>5
      DEF GradeMark, RequestOK, Placed, SubmitOK, GradeOK, Checked, Request, Wrote
  <2>3. /\ req' = [req EXCEPT ![r] = q]
        /\ UNCHANGED <<assignment, answers, status, grade, last, raced>>
      BY <1>5 DEF GradeMark
  <2> HIDE DEF q
  <2>4. QED
      BY <2>1, <2>2, <2>3, LocalStep
<1>6. ASSUME GradeWrite(r) PROVE IInv'
  <2> DEFINE q == [req[r] EXCEPT !.pc = "respond"]
  <2>1. UNCHANGED <<assignment, answers, status, grade, last, raced>>
      BY <1>6 DEF GradeWrite
  <2>2. \/ req' = [req EXCEPT ![r] = Idle]
        \/ /\ req' = [req EXCEPT ![r] = q]
           /\ ~req[r].loaded.present => ~grade[req[r].sub].present
      BY <1>6 DEF GradeWrite
  <2>3. q \in Request
      BY <1>1 DEF Request
  <2>4. ASSUME ~req[r].loaded.present => ~grade[req[r].sub].present
        PROVE  RequestOK(q)
      BY <1>1, <1>6, <2>4
      DEF GradeWrite, RequestOK, Placed, SubmitOK, GradeOK, Checked, Request
  <2>8. /\ q.sub = req[r].sub /\ q.op = req[r].op
        /\ \A o \in Req \ {r} : ~(Wrote(req[o]) /\ req[o].sub = q.sub)
      BY <1>1, <1>6 DEF GradeWrite, Request
  <2> HIDE DEF q
  <2>5. CASE req' = [req EXCEPT ![r] = Idle]
      BY <1>2, <2>1, <2>5, LocalStep
  <2>6. CASE /\ req' = [req EXCEPT ![r] = q]
             /\ ~req[r].loaded.present => ~grade[req[r].sub].present
      BY <2>1, <2>3, <2>4, <2>6, <2>8, LocalStep
  <2>7. QED
      BY <2>2, <2>5, <2>6
<1>7. QED
    BY <1>3, <1>4, <1>5, <1>6

\* Answering, and failing.
LEMMA EndSteps ==
    ASSUME IInv, NEW r \in Req, Respond(r) \/ Abort(r)
    PROVE  IInv'
<1> USE GradingAssumption DEF QuizTables
<1>1. req[r] \in Request /\ RequestOK(req[r]) /\ NoGrade \in Grade
    BY DEF IInv, TypeOK, NoGrade, Grade
<1>2. Idle \in Request /\ RequestOK(Idle) /\ Idle.sub = None /\ ~Wrote(Idle)
    BY <1>1 DEF Idle, Request, SubmissionStatus, RequestOK, Placed, SubmitOK, GradeOK,
                 Wrote
<1>3. ASSUME Respond(r) PROVE IInv'
  <2> DEFINE q == [req[r] EXCEPT !.pc = "commit"]
  <2>1. q \in Request
      BY <1>1 DEF Request
  <2>2. /\ RequestOK(q) /\ q.sub = req[r].sub /\ q.op = req[r].op
        /\ Wrote(q) => Wrote(req[r])
      BY <1>1, <1>3
      DEF Respond, RequestOK, Placed, SubmitOK, GradeOK, Checked, Request, Wrote
  <2>3. /\ req' = [req EXCEPT ![r] = q]
        /\ UNCHANGED <<assignment, answers, status, grade, last, raced>>
      BY <1>3 DEF Respond
  <2> HIDE DEF q
  <2>4. QED
      BY <2>1, <2>2, <2>3, LocalStep
<1>4. ASSUME Abort(r) PROVE IInv'
    BY <1>2, <1>4, LocalStep DEF Abort
<1>5. QED
    BY <1>3, <1>4

\* The first statement of a grading, which may make it overlap another.
LEMMA GradeLoadStep ==
    ASSUME IInv, NEW r \in Req, NEW s \in Sub, NEW m \in Sent, GradeLoad(r, s, m)
    PROVE  IInv'
<1> USE GradingAssumption DEF QuizTables
<1> DEFINE q == [Idle EXCEPT !.pc = "related", !.op = "grade",
                   !.sub = s, !.assignment = assignment[s], !.status = status[s],
                   !.by = m.by, !.given = m.points, !.feedback = m.feedback]
<1>1. /\ req' = [req EXCEPT ![r] = q]
      /\ status[s] # "none" /\ raced \subseteq raced' /\ raced' \subseteq Sub
      /\ OtherGrading(r, s) => s \in raced'
      /\ UNCHANGED <<assignment, answers, status, grade, last>>
    BY DEF GradeLoad, IInv, TypeOK
<1>2. NoGrade \in Grade /\ status[s] \in SubmissionStatus /\ assignment[s] \in Assignment
    BY <1>1 DEF IInv, TypeOK, RowsOK, NoGrade, Grade
<1>3. q \in Request
  <2>1. m.by \in Grader /\ m.points \in Nat /\ m.feedback \in Text \cup {None}
      OBVIOUS
  <2>2. QED
      BY <1>2, <2>1 DEF Idle, Request
<1>4. /\ q.op = "grade" /\ q.pc = "related" /\ q.sub = s /\ q.by = m.by /\ m.by \in Grader
      /\ q.assignment = assignment[s] /\ ~q.loaded.present /\ ~Wrote(q)
    BY DEF Idle, NoGrade, Wrote
<1> HIDE DEF q
<1>5. /\ req' \in [Req -> Request]
      /\ req'[r] = q /\ \A o \in Req \ {r} : req'[o] = req[o]
    BY <1>1, <1>3 DEF IInv, TypeOK
<1>6. TypeOK'
    BY <1>1, <1>5 DEF IInv, TypeOK
<1>7. RowsOK' /\ GradedIffGrade' /\ SerialGrade'
    BY <1>1 DEF IInv, RowsOK, GradedIffGrade, SerialGrade
<1>8. ASSUME NEW o \in Req PROVE RequestOK(req[o])'
  <2>1. CASE o = r
      BY <1>1, <1>4, <1>5, <2>1 DEF RequestOK, Placed, SubmitOK, GradeOK, Checked
  <2>2. CASE o # r
    <3>1. req'[o] = req[o] /\ RequestOK(req[o])
        BY <1>5, <2>2 DEF IInv
    <3>2. QED
        BY <1>1, <3>1 DEF RequestOK, Placed, SubmitOK, GradeOK, Wrote
  <2>3. QED
      BY <2>1, <2>2
<1>9. Alone'
  <2>1. \A o \in Req \ {r} : req[o].sub = s => req[o].op = "grade"
    <3> SUFFICES ASSUME NEW o \in Req \ {r}, req[o].sub = s
                 PROVE  req[o].op = "grade"
        OBVIOUS
    <3>1. RequestOK(req[o]) /\ req[o] \in Request
        BY DEF IInv, TypeOK
    <3>2. QED
        BY <1>1, <3>1 DEF RequestOK, Placed, SubmitOK, Request
  <2>2. \A o \in Req \ {r} : req[o].sub = s => s \in raced'
      BY <1>1, <2>1 DEF OtherGrading
  <2>3. QED
      BY <1>1, <1>4, <1>5, <2>1, <2>2 DEF IInv, Alone
<1>10. Writers'
  <2>1. \A o \in Req : Wrote(req[o])' = Wrote(req'[o])
      BY DEF Wrote
  <2>2. QED
      BY <1>4, <1>5, <2>1 DEF IInv, Writers
<1>11. QED
    BY <1>6, <1>7, <1>8, <1>9, <1>10 DEF IInv

\* What a commit of r leaves to show for the other requests: the row they are about
\* is not the one written, or they grade it too and it is marked as raced.
LEMMA CommitOthers ==
    ASSUME IInv, NEW r \in Req, req[r].sub \in Sub, req' = [req EXCEPT ![r] = Idle],
           UNCHANGED raced,
           \A s \in Sub : s # req[r].sub =>
               assignment'[s] = assignment[s] /\ status'[s] = status[s]
               /\ grade'[s] = grade[s],
           req[r].op = "grade" =>
               /\ Wrote(req[r])
               /\ assignment' = assignment /\ grade'[req[r].sub].present
               /\ status'[req[r].sub] # "none"
    PROVE  (\A o \in Req : RequestOK(req[o]))' /\ Alone' /\ Writers'
<1>1. req \in [Req -> Request]
    BY DEF IInv, TypeOK
<1>2. req'[r] = Idle /\ \A o \in Req \ {r} : req'[o] = req[o]
    BY <1>1
<1>3. ASSUME NEW o \in Req PROVE RequestOK(req[o])'
  <2>1. CASE o = r
      BY <1>2, <2>1 DEF RequestOK, Placed, SubmitOK, GradeOK, Idle, Wrote
  <2>2. CASE o # r
    <3>1. req'[o] = req[o] /\ RequestOK(req[o])
        BY <1>2, <2>2 DEF IInv
    <3>2. CASE req[o].sub = req[r].sub
      <4>1. /\ req[o].op = "grade" /\ req[r].op = "grade"
            /\ req[o].sub \in raced /\ req[o].sub \in Sub /\ ~Wrote(req[o])
        <5>1. None \notin Sub
            BY GradingAssumption
        <5>2. QED
            BY <2>2, <3>2, <5>1 DEF IInv, Alone, Writers
      <4>2. QED
          BY <3>1, <3>2, <4>1 DEF RequestOK, Placed, SubmitOK, GradeOK, Wrote
    <3>3. CASE req[o].sub # req[r].sub
        BY <3>1, <3>3 DEF RequestOK, Placed, SubmitOK, GradeOK, Wrote
    <3>4. QED
        BY <3>2, <3>3
  <2>3. QED
      BY <2>1, <2>2
<1>4. Alone'
    BY <1>2 DEF IInv, Alone, Idle
<1>5. Writers'
    BY <1>2 DEF IInv, Writers, Wrote, Idle
<1>6. QED
    BY <1>3, <1>4, <1>5

\* The commit of submit: submission and automatic grade appear together.
LEMMA CommitSubmitStep ==
    ASSUME IInv, NEW r \in Req, Commit(r), req[r].op = "submit"
    PROVE  IInv'
<1> USE GradingAssumption DEF QuizTables
<1> DEFINE q == req[r]
<1>1. /\ CommitSubmit(q) /\ req' = [req EXCEPT ![r] = Idle] /\ UNCHANGED raced
    BY DEF Commit
<1>2. q \in Request /\ RequestOK(q) /\ q.op = "submit"
    BY DEF IInv, TypeOK
<1>3. /\ q.sub \in Sub /\ q.assignment \in Assignment /\ q.answers \in Sheet
      /\ q.status # "none" /\ (q.status = "graded" <=> q.new.present)
      /\ (q.new.present => q.new.is_auto /\ q.new.points <= max_points[q.assignment])
      /\ q.new.feedback = None /\ status[q.sub] = "none"
    BY <1>2 DEF RequestOK, SubmitOK
<1>4. NoGrade \in Grade
    BY DEF NoGrade, Grade
<1>5. Idle \in Request
    BY <1>4 DEF Idle, Request, SubmissionStatus
<1>6. q.status \in SubmissionStatus /\ q.new \in Grade
    BY <1>2 DEF Request
<1> HIDE DEF q
<1>7. /\ assignment'[q.sub] = q.assignment /\ status'[q.sub] = q.status
      /\ grade'[q.sub] = q.new /\ last' = last
      /\ \A s \in Sub : s # q.sub => assignment'[s] = assignment[s]
             /\ status'[s] = status[s] /\ grade'[s] = grade[s]
    BY <1>1, <1>3 DEF CommitSubmit, IInv, TypeOK
<1>8. /\ assignment' \in [Sub -> Assignment \cup {None}]
      /\ answers' \in [Sub -> Sheet \cup {Blank}]
      /\ status' \in [Sub -> SubmissionStatus] /\ grade' \in [Sub -> Grade]
    BY <1>1, <1>3, <1>6 DEF CommitSubmit, IInv, TypeOK
<1>9. TypeOK'
  <2>1. req' \in [Req -> Request] /\ raced' \subseteq Sub
      BY <1>1, <1>5 DEF IInv, TypeOK
  <2>2. \A s \in Sub : grade'[s].present => grade'[s].points <= max_points[assignment'[s]]
      BY <1>3, <1>7 DEF IInv, TypeOK
  <2>3. QED
      BY <1>8, <2>1, <2>2 DEF TypeOK
<1>10. RowsOK'
    BY <1>3, <1>7 DEF IInv, RowsOK
<1>11. GradedIffGrade'
    BY <1>3, <1>7 DEF IInv, GradedIffGrade
<1>12. SerialGrade'
  <2>1. grade[q.sub].feedback = None
      BY <1>3 DEF IInv, GradedIffGrade, RowsOK
  <2>2. QED
      BY <1>1, <1>3, <1>7, <2>1 DEF IInv, SerialGrade
<1>13. (\A o \in Req : RequestOK(req[o]))' /\ Alone' /\ Writers'
    BY <1>1, <1>2, <1>3, <1>7, CommitOthers DEF q
<1>14. QED
    BY <1>9, <1>10, <1>11, <1>12, <1>13 DEF IInv

\* Points sent in half hundredths are stored within the same maximum; the ones that
\* are loaded come back unchanged.
LEMMA RoundHalf ==
    ASSUME NEW n \in Nat
    PROVE  /\ Round(n, 2) \in Nat
           /\ \A m \in Nat : n <= 2 * m => Round(n, 2) <= m
           /\ \A p \in Nat : n = 2 * p => Round(n, 2) = p
BY DEF Round

\* The commit of a grading.
LEMMA CommitGradeStep ==
    ASSUME IInv, NEW r \in Req, Commit(r), req[r].op = "grade"
    PROVE  IInv'
<1> USE GradingAssumption DEF QuizTables
<1> DEFINE q == req[r]
           p == Round(q.given, 2)
<1>1. /\ CommitGrade(q) /\ req' = [req EXCEPT ![r] = Idle] /\ UNCHANGED raced
      /\ q.pc \in Checked
    BY DEF Commit, Checked
<1>2. q \in Request /\ RequestOK(q) /\ q.op = "grade"
    BY DEF IInv, TypeOK
<1>3. /\ q.sub \in Sub /\ q.by \in Grader /\ status[q.sub] # "none"
      /\ q.given <= 2 * max_points[assignment[q.sub]]
      /\ (q.loaded.present => grade[q.sub].present)
      /\ (q.loaded.present /\ q.sub \notin raced => q.loaded = grade[q.sub])
      /\ (~q.loaded.present => ~grade[q.sub].present)
  <2>1. Wrote(q)
      BY DEF Commit, Wrote
  <2>2. QED
      BY <1>1, <1>2, <2>1 DEF RequestOK, GradeOK
<1>4. /\ q.given \in Nat /\ q.loaded \in Grade /\ q.feedback \in Text \cup {None}
      /\ grade[q.sub] \in Grade /\ max_points[assignment[q.sub]] \in Nat
    BY <1>2, <1>3 DEF Request, IInv, TypeOK, RowsOK
<1>5. p \in Nat /\ p <= max_points[assignment[q.sub]]
      /\ \A x \in Nat : q.given = 2 * x => p = x
    BY <1>3, <1>4, RoundHalf
<1>6. Idle \in Request
  <2>1. NoGrade \in Grade
      BY DEF NoGrade, Grade
  <2>2. QED
      BY <2>1 DEF Idle, Request, SubmissionStatus
<1> DEFINE first == [present |-> TRUE, points |-> p, by |-> q.by,
                     feedback |-> q.feedback, is_auto |-> FALSE]
           new == IF q.loaded.present THEN Regraded(q, grade[q.sub]) ELSE first
           text == IF q.feedback # None THEN q.feedback ELSE last[q.sub].feedback
<1>7. /\ grade' = [grade EXCEPT ![q.sub] = new]
      /\ status' = [status EXCEPT ![q.sub] = "graded"]
      /\ last' = [last EXCEPT ![q.sub] = [by |-> q.by, points |-> p, feedback |-> text]]
      /\ UNCHANGED <<assignment, answers>>
  <2>1. q.sub \in DOMAIN last
      BY <1>3 DEF IInv, RowsOK
  <2>2. QED
      BY <1>1, <2>1 DEF CommitGrade
<1> HIDE DEF q
<1>8. /\ new.present /\ new \in Grade
      /\ new.points <= max_points[assignment[q.sub]]
  <2> HIDE DEF p
  <2>1. CASE ~q.loaded.present
      BY <1>3, <1>4, <1>5, <2>1 DEF Grade
  <2>2. CASE q.loaded.present
    <3>1. grade[q.sub].points <= max_points[assignment[q.sub]]
        BY <1>3, <2>2 DEF IInv, TypeOK
    <3>2. Regraded(q, grade[q.sub]) \in Grade
        BY <1>3, <1>4, <1>5 DEF Regraded, Grade, p
    <3>3. QED
        BY <1>5, <2>2, <3>1, <3>2 DEF Regraded, p
  <2>3. QED
      BY <2>1, <2>2
<1>9. q.sub \notin raced => new.by = q.by /\ new.points = p /\ new.feedback = text
  <2> SUFFICES ASSUME q.sub \notin raced
               PROVE  new.by = q.by /\ new.points = p /\ new.feedback = text
      OBVIOUS
  <2>0. grade[q.sub].feedback = last[q.sub].feedback
      BY <1>3 DEF IInv, SerialGrade
  <2>1. CASE ~q.loaded.present
    <3>1. grade[q.sub].feedback = None
        BY <1>3, <2>1 DEF IInv, RowsOK
    <3>2. QED
        BY <2>0, <2>1, <3>1
  <2>2. CASE q.loaded.present
    <3>1. new.by = q.by /\ new.points = p
        BY <1>3, <1>4, <1>5, <2>2 DEF Regraded, Grade
    <3>2. new.feedback = IF q.feedback \notin {None, grade[q.sub].feedback} THEN q.feedback
                         ELSE grade[q.sub].feedback
        BY <1>3, <2>2 DEF Regraded
    <3>3. QED
        BY <2>0, <3>1, <3>2
  <2>3. QED
      BY <2>1, <2>2
<1>9a. text \in Text \cup {None}
    BY <1>3, <1>4 DEF IInv, RowsOK
<1> HIDE DEF new, p, text
<1>10. /\ grade'[q.sub] = new /\ status'[q.sub] = "graded"
       /\ last'[q.sub].by = q.by /\ last'[q.sub].points = p /\ last'[q.sub].feedback = text
       /\ \A s \in Sub : s # q.sub => grade'[s] = grade[s] /\ status'[s] = status[s]
              /\ last'[s] = last[s]
    BY <1>3, <1>7 DEF IInv, TypeOK, RowsOK
<1>11. TypeOK'
  <2>1. req' \in [Req -> Request] /\ raced' \subseteq Sub
      BY <1>1, <1>6 DEF IInv, TypeOK
  <2>2. grade' \in [Sub -> Grade] /\ status' \in [Sub -> SubmissionStatus]
      BY <1>7, <1>8 DEF IInv, TypeOK, SubmissionStatus
  <2>3. \A s \in Sub : grade'[s].present => grade'[s].points <= max_points[assignment'[s]]
      BY <1>7, <1>8, <1>10 DEF IInv, TypeOK
  <2>4. QED
      BY <1>7, <2>1, <2>2, <2>3 DEF IInv, TypeOK
<1>12. RowsOK'
    BY <1>3, <1>5, <1>7, <1>8, <1>10, <1>9a DEF IInv, RowsOK
<1>13. GradedIffGrade'
    BY <1>8, <1>10 DEF IInv, GradedIffGrade
<1>14. SerialGrade'
    BY <1>1, <1>9, <1>10 DEF IInv, SerialGrade
<1>15. (\A o \in Req : RequestOK(req[o]))' /\ Alone' /\ Writers'
  <2>1. Wrote(req[r])
      BY DEF Commit, Wrote
  <2>2. QED
      BY <1>1, <1>2, <1>3, <1>7, <1>8, <1>10, <2>1, CommitOthers DEF q
<1>16. QED
    BY <1>11, <1>12, <1>13, <1>14, <1>15 DEF IInv

-----------------------------------------------------------------------------

\* Every step keeps the invariant.
LEMMA NextInv == IInv /\ [Next]_vars => IInv'
<1> SUFFICES ASSUME IInv, [Next]_vars PROVE IInv'
    OBVIOUS
<1>1. ASSUME NEW r \in Req, NEW s \in Sub, NEW a \in Assignment, NEW sheet \in Sheet,
             SubmitLoad(r, s, a, sheet)
      PROVE  IInv'
    BY <1>1, SubmitSteps
<1>2. ASSUME NEW r \in Req, SubmitInsert(r) \/ AutoGrade(r) PROVE IInv'
    BY <1>2, SubmitSteps
<1>3. ASSUME NEW r \in Req, NEW s \in Sub, NEW m \in Sent, GradeLoad(r, s, m) PROVE IInv'
    BY <1>3, GradeLoadStep
<1>4. ASSUME NEW r \in Req,
             GradeRelated(r) \/ GradeLookup(r) \/ GradeMark(r) \/ GradeWrite(r)
      PROVE  IInv'
    BY <1>4, GradeSteps
<1>5. ASSUME NEW r \in Req, Respond(r) \/ Abort(r) PROVE IInv'
    BY <1>5, EndSteps
<1>6. ASSUME NEW r \in Req, Commit(r) PROVE IInv'
  <2>1. req[r].op = "submit" \/ req[r].op = "grade"
      BY <1>6 DEF Commit
  <2>2. QED
      BY <1>6, <2>1, CommitSubmitStep, CommitGradeStep
<1>7. CASE UNCHANGED vars
    BY <1>7 DEF vars, IInv, TypeOK, RowsOK, RequestOK, Placed, SubmitOK, GradeOK,
                Alone, Writers, Wrote, GradedIffGrade, SerialGrade
<1>8. QED
    BY <1>1, <1>2, <1>3, <1>4, <1>5, <1>6, <1>7 DEF Next

\* The inductive invariant holds in every state.
THEOREM Invariance == Spec => []IInv
<1>1. Init => IInv
    BY InitInv
<1>2. IInv /\ [Next]_vars => IInv'
    BY NextInv
<1>3. QED
    BY <1>1, <1>2, PTL DEF Spec

\* Rows and requests keep their types, and no grade exceeds the maximum of its
\* assignment (service.py:125, models.py:116-158).
THEOREM TypeCorrect == Spec => []TypeOK
<1>1. IInv => TypeOK
    BY DEF IInv
<1>2. QED
    BY <1>1, Invariance, PTL

\* A submission says "graded" just when it has a grade (service.py:148-170).
THEOREM StatusMatchesGrade == Spec => []GradedIffGrade
<1>1. IInv => GradedIffGrade
    BY DEF IInv
<1>2. QED
    BY <1>1, Invariance, PTL

\* Where gradings of a submission do not overlap, its grade is that of the last one
\* (service.py:148, 163-168).
THEOREM LastGradingShown == Spec => []SerialGrade
<1>1. IInv => SerialGrade
    BY DEF IInv
<1>2. QED
    BY <1>1, Invariance, PTL

\* Feedback changes only to what a committing grading was sent, whatever that grading
\* had loaded (service.py:165).
THEOREM FeedbackNeverLost == Spec => FeedbackKept
<1> DEFINE Kept == \A s \in Sub : grade'[s].feedback # grade[s].feedback =>
                       \E r \in Req : /\ req[r].pc = "commit" /\ req[r].sub = s
                                      /\ req[r].feedback # None
                                      /\ grade'[s].feedback = req[r].feedback
<1>1. ASSUME IInv, NEW r \in Req, Commit(r), req[r].op = "submit" PROVE Kept
  <2>1. req[r].sub \in Sub /\ grade[req[r].sub].feedback = None /\ req[r].new.feedback = None
    <3>1. RequestOK(req[r])
        BY <1>1 DEF IInv
    <3>2. req[r].sub \in Sub /\ status[req[r].sub] = "none" /\ req[r].new.feedback = None
        BY <1>1, <3>1 DEF RequestOK, SubmitOK
    <3>3. QED
        BY <1>1, <3>2 DEF IInv, RowsOK, GradedIffGrade
  <2>2. /\ \A s \in Sub : s # req[r].sub => grade'[s] = grade[s]
        /\ grade'[req[r].sub] = req[r].new
      BY <1>1, <2>1 DEF Commit, CommitSubmit, IInv, TypeOK
  <2>3. QED
      BY <2>1, <2>2
<1>2. ASSUME IInv, NEW r \in Req, Commit(r), req[r].op = "grade" PROVE Kept
  <2> DEFINE q == req[r]
  <2>1. CommitGrade(q) /\ q.pc = "commit"
      BY <1>2 DEF Commit
  <2>2. RequestOK(q) /\ q.op = "grade"
      BY <1>2 DEF IInv
  <2>3. q.sub \in Sub
      BY <2>2 DEF RequestOK, GradeOK
  <2>4. \A s \in Sub : s # q.sub => grade'[s] = grade[s]
      BY <1>2, <2>1, <2>3 DEF CommitGrade, IInv, TypeOK
  <2>5. grade'[q.sub].feedback \in {grade[q.sub].feedback, q.feedback}
        /\ (q.feedback = None => grade'[q.sub].feedback = grade[q.sub].feedback)
    <3> HIDE DEF q
    <3>1. CASE q.loaded.present
      <4>1. grade'[q.sub] = Regraded(q, grade[q.sub])
          BY <1>2, <2>1, <2>3, <3>1 DEF CommitGrade, IInv, TypeOK
      <4>2. Regraded(q, grade[q.sub]).feedback =
                IF q.feedback \notin {None, q.loaded.feedback} THEN q.feedback
                ELSE grade[q.sub].feedback
          BY Zenon DEF Regraded
      <4>3. QED
          BY <4>1, <4>2
    <3>2. CASE ~q.loaded.present
      <4>1. Wrote(q)
          BY <1>2 DEF Commit, Wrote, q
      <4>2. ~grade[q.sub].present
          BY <2>2, <3>2, <4>1 DEF RequestOK, GradeOK
      <4>3. grade[q.sub].feedback = None
          BY <1>2, <2>3, <4>2 DEF IInv, RowsOK
      <4>4. grade'[q.sub].feedback = q.feedback
          BY <1>2, <2>1, <2>3, <3>2 DEF CommitGrade, IInv, TypeOK
      <4>5. QED
          BY <4>3, <4>4
    <3>3. QED
        BY <3>1, <3>2
  <2>6. QED
      BY <2>1, <2>4, <2>5
<1>3. IInv /\ [Next]_vars => Kept
  <2> SUFFICES ASSUME IInv, [Next]_vars PROVE Kept
      OBVIOUS
  <2>1. ASSUME NEW r \in Req, Commit(r) PROVE Kept
    <3>1. req[r].op = "submit" \/ req[r].op = "grade"
        BY <2>1 DEF Commit
    <3>2. QED
        BY <2>1, <3>1, <1>1, <1>2
  <2>2. UNCHANGED grade \/ \E r \in Req : Commit(r)
      BY DEF Next, vars, SubmitLoad, SubmitInsert, AutoGrade, GradeLoad, GradeRelated,
             GradeLookup, GradeMark, GradeWrite, Respond, Abort
  <2>3. QED
      BY <2>1, <2>2
<1>4. IInv /\ [Next]_vars => [Kept]_vars
    BY <1>3
<1>5. QED
    BY <1>4, Invariance, PTL DEF Spec, FeedbackKept

-----------------------------------------------------------------------------
(* Automatic grades                                                         *)

\* A step of one request that changes no table.
LEMMA LocalAuto ==
    ASSUME IInv, AutoInv, NEW r \in Req, NEW q, req' = [req EXCEPT ![r] = q], NewOK(q),
           UNCHANGED <<assignment, answers, grade>>
    PROVE  AutoInv'
<1>1. req'[r] = q /\ \A o \in Req : o # r => req'[o] = req[o]
    BY DEF IInv, TypeOK
<1>2. \A s \in Sub : AutoOK(s)'
    BY DEF AutoInv, AutoOK
<1>3. \A o \in Req : NewOK(req[o])'
    BY <1>1 DEF AutoInv, NewOK
<1>4. QED
    BY <1>2, <1>3 DEF AutoInv

\* Up to its commit a request changes at most what it holds itself.
LEMMA QuietAuto ==
    ASSUME IInv, AutoInv, NEW r \in Req,
           \/ \E s \in Sub, a \in Assignment, sheet \in Sheet : SubmitLoad(r, s, a, sheet)
           \/ \E s \in Sub, m \in Sent : GradeLoad(r, s, m)
           \/ SubmitInsert(r) \/ AutoGrade(r) \/ GradeRelated(r) \/ GradeLookup(r)
           \/ GradeMark(r) \/ GradeWrite(r) \/ Respond(r) \/ Abort(r)
    PROVE  AutoInv'
<1>1. req[r] \in Request /\ RequestOK(req[r]) /\ NewOK(req[r])
    BY DEF IInv, TypeOK, AutoInv
<1>2. UNCHANGED <<assignment, answers, grade>>
    BY DEF SubmitLoad, GradeLoad, SubmitInsert, AutoGrade, GradeRelated, GradeLookup,
           GradeMark, GradeWrite, Respond, Abort
<1>3. NewOK(Idle)
    BY DEF NewOK, Idle
<1>4. CASE \E s \in Sub, a \in Assignment, sheet \in Sheet : SubmitLoad(r, s, a, sheet)
  <2>1. PICK s \in Sub, a \in Assignment, sheet \in Sheet : SubmitLoad(r, s, a, sheet)
      BY <1>4
  <2>2. PICK q : /\ req' = [req EXCEPT ![r] = q]
                 /\ q = [Idle EXCEPT !.pc = "insert", !.op = "submit", !.sub = s,
                           !.assignment = a, !.answers = sheet, !.status = "submitted"]
      BY <2>1 DEF SubmitLoad
  <2>3. NewOK(q)
      BY <2>2 DEF NewOK, Idle, NoGrade
  <2>4. QED
      BY <1>2, <2>2, <2>3, LocalAuto
<1>5. CASE \E s \in Sub, m \in Sent : GradeLoad(r, s, m)
  <2>1. PICK s \in Sub, m \in Sent : GradeLoad(r, s, m)
      BY <1>5
  <2>2. PICK q : /\ req' = [req EXCEPT ![r] = q]
                 /\ q = [Idle EXCEPT !.pc = "related", !.op = "grade", !.sub = s,
                           !.assignment = assignment[s], !.status = status[s],
                           !.by = m.by, !.given = m.points, !.feedback = m.feedback]
      BY <2>1 DEF GradeLoad
  <2>3. NewOK(q)
      BY <2>2 DEF NewOK, Idle, NoGrade
  <2>4. QED
      BY <1>2, <2>2, <2>3, LocalAuto
<1>6. CASE SubmitInsert(r) \/ GradeMark(r) \/ Respond(r)
  <2>1. PICK pc, q : q = [req[r] EXCEPT !.pc = pc] /\ req' = [req EXCEPT ![r] = q]
      BY <1>6 DEF SubmitInsert, GradeMark, Respond
  <2>2. NewOK(q)
      BY <1>1, <2>1 DEF Request, NewOK
  <2>3. QED
      BY <1>2, <2>1, <2>2, LocalAuto
<1>7. CASE AutoGrade(r)
  <2>1. PICK new, q :
            /\ q = [req[r] EXCEPT !.pc = "respond", !.status = "graded", !.new = new]
            /\ req' = [req EXCEPT ![r] = q] /\ req[r].pc = "auto"
            /\ new = [present |-> TRUE,
                      points |-> Scaled(req[r].assignment, req[r].answers),
                      by |-> None, feedback |-> None, is_auto |-> TRUE]
      BY <1>7 DEF AutoGrade
  <2>2. /\ q.op = "submit" /\ q.assignment = req[r].assignment /\ q.answers = req[r].answers
        /\ q.new = new /\ q.assignment \in Quiz /\ q.answers \in Sheet
      BY <1>1, <2>1 DEF Request, RequestOK, Placed, SubmitOK
  <2>3. NewOK(q)
      BY <2>1, <2>2 DEF NewOK
  <2>4. QED
      BY <1>2, <2>1, <2>3, LocalAuto
<1>8. CASE GradeRelated(r) \/ GradeLookup(r)
  <2>1. \/ req' = [req EXCEPT ![r] = Idle]
        \/ \E pc, loaded, q :
              /\ q = [req[r] EXCEPT !.pc = pc, !.loaded = loaded]
              /\ req' = [req EXCEPT ![r] = q]
              /\ loaded = req[r].loaded \/ loaded = grade[req[r].sub]
    <3>1. CASE GradeRelated(r)
        BY <3>1 DEF GradeRelated
    <3>2. CASE GradeLookup(r)
        BY <3>2 DEF GradeLookup
    <3>3. QED
        BY <1>8, <3>1, <3>2
  <2>2. ASSUME NEW pc, NEW loaded, NEW q,
               q = [req[r] EXCEPT !.pc = pc, !.loaded = loaded],
               loaded = req[r].loaded \/ loaded = grade[req[r].sub]
        PROVE  NewOK(q)
    <3>1. /\ q.op = req[r].op /\ q.sub = req[r].sub /\ q.loaded = loaded
          /\ q.new = req[r].new /\ q.assignment = req[r].assignment
          /\ q.answers = req[r].answers
        BY <1>1, <2>2 DEF Request
    <3>2. QED
        BY <1>1, <2>2, <3>1 DEF NewOK
  <2>3. QED
      BY <1>2, <1>3, <2>1, <2>2, LocalAuto
<1>9. CASE GradeWrite(r)
  <2>1. \/ req' = [req EXCEPT ![r] = Idle]
        \/ \E q : q = [req[r] EXCEPT !.pc = "respond"] /\ req' = [req EXCEPT ![r] = q]
      BY <1>9 DEF GradeWrite
  <2>2. \A q : q = [req[r] EXCEPT !.pc = "respond"] => NewOK(q)
      BY <1>1 DEF Request, NewOK
  <2>3. QED
      BY <1>2, <1>3, <2>1, <2>2, LocalAuto
<1>10. CASE Abort(r)
    BY <1>2, <1>3, <1>10, LocalAuto DEF Abort
<1>11. QED
    BY <1>4, <1>5, <1>6, <1>7, <1>8, <1>9, <1>10

\* The automatic grade appears with the answers it was computed from.
LEMMA SubmitAuto ==
    ASSUME IInv, AutoInv, NEW r \in Req, Commit(r), req[r].op = "submit"
    PROVE  AutoInv'
<1> DEFINE q == req[r]
<1>1. /\ CommitSubmit(q) /\ req' = [req EXCEPT ![r] = Idle]
      /\ q.sub \in Sub /\ status[q.sub] = "none" /\ q.op = "submit" /\ NewOK(q)
    BY DEF Commit, IInv, RequestOK, SubmitOK, AutoInv
<1>2. /\ assignment'[q.sub] = q.assignment /\ answers'[q.sub] = q.answers
      /\ grade'[q.sub] = q.new
      /\ \A s \in Sub : s # q.sub => /\ assignment'[s] = assignment[s]
                                     /\ answers'[s] = answers[s] /\ grade'[s] = grade[s]
    BY <1>1 DEF CommitSubmit, IInv, TypeOK
<1>3. /\ req'[r] = Idle
      /\ \A o \in Req : o # r => /\ req'[o] = req[o] /\ NewOK(req[o])
                                 /\ req[o].op = "grade" => req[o].sub \in Sub \ {q.sub}
    BY <1>1 DEF IInv, TypeOK, AutoInv, RequestOK, GradeOK
<1> HIDE DEF q
<1>4. \A s \in Sub : AutoOK(s)'
    BY <1>1, <1>2 DEF AutoInv, AutoOK, NewOK
<1>5. \A o \in Req : NewOK(req[o])'
    BY <1>2, <1>3 DEF NewOK, Idle
<1>6. QED
    BY <1>4, <1>5 DEF AutoInv

\* A grading makes the grade a grader's, in all its columns.
LEMMA GradeAuto ==
    ASSUME IInv, AutoInv, NEW r \in Req, Commit(r), req[r].op = "grade"
    PROVE  AutoInv'
<1> DEFINE q == req[r]
           s == q.sub
<1>1. /\ CommitGrade(q) /\ req' = [req EXCEPT ![r] = Idle] /\ q \in Request
      /\ s \in Sub /\ q.op = "grade" /\ NewOK(q)
    BY DEF Commit, IInv, TypeOK, RequestOK, GradeOK, AutoInv
<1>2. /\ UNCHANGED <<assignment, answers>>
      /\ \A x \in Sub : x # s => grade'[x] = grade[x]
    BY <1>1 DEF CommitGrade, IInv, TypeOK
<1>3. grade'[s].is_auto = FALSE
  <2>1. q.loaded \in Grade /\ grade[s] \in Grade
      BY <1>1 DEF Request, IInv, TypeOK
  <2>2. q.loaded.is_auto \in BOOLEAN /\ grade[s].is_auto \in BOOLEAN
      BY <2>1 DEF Grade
  <2>3. CASE q.loaded.present
    <3>1. grade'[s] = Regraded(q, grade[s])
        BY <1>1, <2>3 DEF CommitGrade, IInv, TypeOK
    <3>2. Regraded(q, grade[s]).is_auto = (grade[s].is_auto /\ ~q.loaded.is_auto)
        BY Zenon DEF Regraded
    <3>3. q.loaded.is_auto = FALSE => grade[s].is_auto = FALSE
        BY <1>1, <2>3 DEF NewOK
    <3> HIDE DEF q, s
    <3>4. QED
        BY <2>2, <3>1, <3>2, <3>3
  <2>4. CASE ~q.loaded.present
      BY <1>1, <2>4 DEF CommitGrade, IInv, TypeOK
  <2>5. QED
      BY <2>3, <2>4
<1>4. /\ req'[r] = Idle
      /\ \A o \in Req : o # r => req'[o] = req[o] /\ NewOK(req[o])
    BY <1>1 DEF IInv, TypeOK, AutoInv
<1>5. \A o \in Req : req[o].op = "grade" => req[o].sub \in Sub
    BY DEF IInv, RequestOK, GradeOK
<1> HIDE DEF q, s
<1>6. \A x \in Sub : AutoOK(x)'
    BY <1>2, <1>3 DEF AutoInv, AutoOK
<1>7. \A o \in Req : NewOK(req[o])'
    BY <1>2, <1>3, <1>4, <1>5 DEF NewOK, Idle
<1>8. QED
    BY <1>6, <1>7 DEF AutoInv

LEMMA AutoInvariance == Spec => []AutoInv
<1>1. Init => AutoInv
    BY DEF Init, AutoInv, AutoOK, NewOK, Idle, NoGrade
<1>2. IInv /\ AutoInv /\ [Next]_vars => AutoInv'
  <2> SUFFICES ASSUME IInv, AutoInv, [Next]_vars PROVE AutoInv'
      OBVIOUS
  <2>1. CASE UNCHANGED vars
      BY <2>1 DEF vars, AutoInv, AutoOK, NewOK
  <2>2. CASE \E r \in Req : Commit(r)
    <3>1. PICK r \in Req : Commit(r)
        BY <2>2
    <3>2. req[r].op = "submit" \/ req[r].op = "grade"
        BY <3>1 DEF Commit
    <3>3. QED
        BY <3>1, <3>2, SubmitAuto, GradeAuto
  <2>3. CASE Next /\ ~\E r \in Req : Commit(r)
      BY <2>3, QuietAuto DEF Next
  <2>4. QED
      BY <2>1, <2>2, <2>3
<1>3. QED
    BY <1>1, <1>2, Invariance, PTL DEF Spec

\* An automatic grade is the column value nearest to the learner's share of the
\* maximum, of the answers that the submission stores, however often it is rounded
\* and whatever gradings follow (service.py:105-118, 163-168).
THEOREM AutoGradesNearest == Spec => []AutoGradeNearest
<1>1. AutoInv => AutoGradeNearest
    BY ScaledNear DEF AutoInv, AutoOK, AutoGradeNearest
<1>2. QED
    BY <1>1, AutoInvariance, PTL
=============================================================================
