---------------------------- MODULE LearnerProofs ----------------------------
(***************************************************************************)
(* Proofs about a learner's tables, audit log and dashboard, for any       *)
(* number of lessons, courses, assignments and concurrent requests.        *)
(***************************************************************************)
EXTENDS Learner, FiniteSetTheorems, TLAPS

Explained(e) == Audited(e) \/ e \in unaudited

\* A write whose audit entry is done or has failed.
Published(q) == q.op \in Action /\ q.pc = "commit"

Placed(q) ==
    /\ q.pc = "idle" <=> q.op = "none"
    /\ q.op = "dashboard" => q.pc \in {"count", "commit"}
    /\ q.op \in Action => q.pc \in {"write", "publish", "commit"}
    /\ q.op = "complete" => q.item \in Lesson
    /\ q.op = "enroll" => q.item \in Course
    /\ q.op = "submit" => q.item \in Assignment

\* An enrolment that is written has its key to itself; a write is explained from its
\* publication on; a progress loaded is current if nobody else completes the lesson.
WriteOK(q) ==
    /\ Wrote(q) /\ q.op = "enroll" => q.item \notin enrollments
    /\ Published(q) => Explained(Write(q))
    /\ q.op = "complete" /\ q.item \notin raced => q.loaded = progress[q.item]

\* What a dashboard has read when: rows it counted stay, and were explained before.
DashboardOK(q) ==
    /\ q.op # "dashboard" => q.seen = NothingSeen
    /\ q.pc = "count" => q.step <= 5
    /\ q.step <= 4 => q.seen.pending = {}
    /\ q.seen.submitted \subseteq submissions
    /\ q.seen.submitted \cap q.seen.pending = {}
    /\ \A e \in Counted(q.seen) : Explained(e)
    /\ q.op = "dashboard" /\ q.pc = "commit" =>
         Len(audit_logs) > Limit
           \/ Counted(q.seen) \subseteq q.seen.activity \cup unaudited

RequestOK(q) == Placed(q) /\ WriteOK(q) /\ DashboardOK(q)

\* EntriesExplained, with the request in flight past its publication.
EntryOK(i) ==
    \/ audit_logs[i] = Other
    \/ audit_logs[i] \in rolled_back
    \/ /\ Stored(audit_logs[i])
            \/ \E r \in Req : Published(req[r]) /\ Write(req[r]) = audit_logs[i]
       /\ audit_logs[i].action = "enroll" =>
            \A j \in 1..Len(audit_logs) : audit_logs[j] = audit_logs[i] => j = i

EntriesOK == \A i \in 1..Len(audit_logs) : EntryOK(i)

\* Rows are explained before they can be seen.
RowsOK == \A e \in Entry : Stored(e) => Explained(e)

\* Two completions of a lesson have raced.
Alone ==
    \A r, o \in Req : r # o /\ req[r].op = "complete" /\ req[o].op = "complete"
                      /\ req[r].item = req[o].item => req[r].item \in raced

\* Nobody else has written the row or the key of an enrolment.
Unique ==
    \A r, o \in Req : r # o /\ Wrote(req[r]) /\ Wrote(req[o])
                      /\ req[r].op = "enroll" => Write(req[r]) # Write(req[o])

\* The inductive invariant.
IInv ==
    /\ TypeOK
    /\ \A r \in Req : RequestOK(req[r])
    /\ EntriesOK /\ RowsOK
    /\ Alone /\ Unique
    /\ SerialPosition

-----------------------------------------------------------------------------

\* The list a dashboard shows has at most Limit entries ...
LEMMA LatestBounded ==
    ASSUME NEW log \in Seq(Entry)
    PROVE  Latest(log) \subseteq Entry /\ Cardinality(Latest(log)) <= Limit
<1> USE LearnerAssumption
<1> DEFINE n == Len(log)
           S == {j \in 1..n : j > n - Limit}
           f == [i \in S |-> log[i]]
<1>1. n \in Nat /\ \A i \in 1..n : log[i] \in Entry
    OBVIOUS
<1>2. IsFiniteSet(S) /\ Cardinality(S) <= Limit
  <2>1. S \in SUBSET ((n - Limit + 1)..n)
      BY <1>1
  <2>2. IsFiniteSet((n - Limit + 1)..n)
        /\ Cardinality((n - Limit + 1)..n) <= Limit
    <3>1. n - Limit + 1 \in Int /\ n \in Int
        BY <1>1
    <3> HIDE DEF n
    <3>2. /\ IsFiniteSet((n - Limit + 1)..n)
          /\ Cardinality((n - Limit + 1)..n)
               = IF n - Limit + 1 > n THEN 0 ELSE n - (n - Limit + 1) + 1
        BY <3>1, FS_Interval
    <3>3. QED
        BY <3>1, <3>2
  <2>3. IsFiniteSet(S) /\ Cardinality(S) <= Cardinality((n - Limit + 1)..n)
      BY <2>1, <2>2, FS_Subset
  <2>4. Cardinality(S) \in Nat /\ Cardinality((n - Limit + 1)..n) \in Nat
      BY <2>2, <2>3, FS_CardinalityType
  <2> HIDE DEF S, n
  <2>5. QED
      BY <2>2, <2>3, <2>4
<1>3. f \in Surjection(S, Latest(log))
    BY DEF Surjection, Latest
<1>4. IsFiniteSet(Latest(log)) /\ Cardinality(Latest(log)) <= Cardinality(S)
    BY <1>2, <1>3, FS_Surjection
<1>5. Cardinality(S) \in Nat /\ Cardinality(Latest(log)) \in Nat
    BY <1>2, <1>4, FS_CardinalityType
<1>6. Latest(log) \subseteq Entry
    BY <1>1 DEF Latest
<1> HIDE DEF S
<1>7. QED
    BY <1>2, <1>4, <1>5, <1>6

\* ... and all of a log that is not longer.
LEMMA LatestComplete ==
    ASSUME NEW log \in Seq(Entry), Len(log) <= Limit, NEW i \in 1..Len(log)
    PROVE  log[i] \in Latest(log)
BY LearnerAssumption DEF Latest

\* Nothing is stored, written or shown at first.
LEMMA IdleOK ==
    /\ Idle \in Request
    /\ Cardinality(Idle.seen.activity) <= Limit
    /\ RequestOK(Idle) /\ ~Wrote(Idle) /\ ~Published(Idle)
<1> USE LearnerAssumption
<1>1. NothingSeen \in Seen /\ NoProgress \in Progress
    BY DEF NothingSeen, Seen, NoProgress, Progress
<1>2. Idle \in Request
    BY <1>1 DEF Idle, Request
<1>3. Cardinality(Idle.seen.activity) <= Limit
    BY FS_EmptySet DEF Idle, NothingSeen
<1>4. ~Wrote(Idle) /\ ~Published(Idle)
    BY DEF Idle, Wrote, Published, Action
<1>5. Placed(Idle)
    BY DEF Idle, Placed, Action
<1>6. WriteOK(Idle)
    BY <1>4 DEF WriteOK, Idle
<1>7. DashboardOK(Idle)
  <2>1. Counted(Idle.seen) = {}
      BY DEF Counted, Idle, NothingSeen
  <2>2. QED
      BY <2>1 DEF DashboardOK, Idle, NothingSeen
<1>8. QED
    BY <1>2, <1>3, <1>4, <1>5, <1>6, <1>7 DEF RequestOK

LEMMA InitInv == Init => IInv
<1> SUFFICES ASSUME Init PROVE IInv
    OBVIOUS
<1> USE LearnerAssumption DEF Init
<1>1. TypeOK
    BY IdleOK DEF TypeOK, NoProgress, Progress
<1>2. \A r \in Req : RequestOK(req[r])
    BY IdleOK
<1>3. EntriesOK
    BY DEF EntriesOK
<1>4. RowsOK
    BY DEF RowsOK, Stored, NoProgress
<1>5. Alone /\ Unique
    BY IdleOK DEF Alone, Unique, Idle
<1>6. SerialPosition
    BY DEF SerialPosition, NoProgress
<1>7. QED
    BY <1>1, <1>2, <1>3, <1>4, <1>5, <1>6 DEF IInv

\* A step of one request that leaves rows and log alone keeps the invariant if the
\* request does.
LEMMA LocalStep ==
    ASSUME IInv, NEW r \in Req, NEW q \in Request, RequestOK(q),
           Cardinality(q.seen.activity) <= Limit,
           req' = [req EXCEPT ![r] = q],
           UNCHANGED <<progress, enrollments, submissions, audit_logs, unaudited, last,
                       offered>>,
           rolled_back \subseteq rolled_back', rolled_back' \subseteq Entry,
           raced \subseteq raced', raced' \subseteq Lesson, events' \in Nat,
           ~Published(q),
           Published(req[r]) => Write(req[r]) \in rolled_back',
           q.op = "complete" =>
             \/ req[r].op = "complete" /\ req[r].item = q.item
             \/ \A o \in Req \ {r} : req[o].op = "complete" /\ req[o].item = q.item
                                       => q.item \in raced',
           Wrote(q) /\ q.op = "enroll" =>
             \A o \in Req \ {r} : ~(Wrote(req[o]) /\ Write(req[o]) = Write(q))
    PROVE  IInv'
<1>1. req \in [Req -> Request]
    BY DEF IInv, TypeOK
<1>2. /\ req' \in [Req -> Request]
      /\ req'[r] = q /\ \A o \in Req \ {r} : req'[o] = req[o]
    BY <1>1
<1>3. TypeOK'
    BY <1>2 DEF IInv, TypeOK
<1>4. (\A o \in Req : RequestOK(req[o]))'
  <2>1. \A o \in Req : RequestOK(req'[o])
      BY <1>2 DEF IInv
  <2>2. \A e : Explained(e)' = Explained(e)
      BY DEF Explained, Audited
  <2>3. \A p : WriteOK(p) => WriteOK(p)'
      BY DEF WriteOK, Explained, Audited, Wrote, Published, Write
  <2>4. \A p : DashboardOK(p) => DashboardOK(p)'
      BY DEF DashboardOK, Explained, Audited, Counted
  <2>5. QED
      BY <2>1, <2>3, <2>4 DEF RequestOK, Placed
<1>5. EntriesOK'
  <2> SUFFICES ASSUME NEW i \in 1..Len(audit_logs) PROVE EntryOK(i)'
      BY DEF EntriesOK
  <2>1. EntryOK(i)
      BY DEF IInv, EntriesOK
  <2>2. ASSUME NEW o \in Req, Published(req[o]), Write(req[o]) = audit_logs[i]
        PROVE  \/ audit_logs[i] \in rolled_back'
               \/ Published(req'[o]) /\ Write(req'[o]) = audit_logs[i]
      BY <1>2, <2>2
  <2>3. QED
      BY <2>1, <2>2 DEF EntryOK, Stored, Published, Write
<1>6. RowsOK'
    BY DEF IInv, RowsOK, Stored, Explained, Audited
<1>7. Alone'
    BY <1>2 DEF IInv, Alone
<1>8. Unique'
  <2>1. \A o \in Req : Wrote(req[o])' = Wrote(req'[o]) /\ Write(req[o])' = Write(req'[o])
      BY DEF Wrote, Write
  <2>2. \A p, o : Write(p) = Write(o) => p.op = o.op
      BY DEF Write
  <2>3. QED
      BY <1>2, <2>1, <2>2 DEF IInv, Unique
<1>9. SerialPosition'
    BY DEF IInv, SerialPosition
<1>10. QED
    BY <1>3, <1>4, <1>5, <1>6, <1>7, <1>8, <1>9 DEF IInv

\* A request that has just begun.
LEMMA FreshOK ==
    ASSUME NEW q \in Request, q.seen = NothingSeen, q.step = 1, Placed(q),
           q.pc \in {"write", "count"},
           q.op = "complete" => q.loaded = progress[q.item]
    PROVE  /\ RequestOK(q) /\ ~Published(q) /\ ~Wrote(q)
           /\ Cardinality(q.seen.activity) <= Limit
<1>1. ~Published(q) /\ ~Wrote(q)
    BY DEF Published, Wrote
<1>2. Cardinality(q.seen.activity) <= Limit
    BY FS_EmptySet, LearnerAssumption DEF NothingSeen
<1>3. Counted(q.seen) = {}
    BY DEF Counted, NothingSeen
<1>4. q.seen.pending = {} /\ q.seen.submitted = {}
    BY DEF NothingSeen
<1>5. WriteOK(q) /\ DashboardOK(q)
    BY <1>1, <1>3, <1>4 DEF WriteOK, DashboardOK
<1>6. QED
    BY <1>1, <1>2, <1>5 DEF RequestOK

LEMMA LoadSteps ==
    ASSUME IInv, NEW r \in Req,
           \/ \E l \in Lesson, n \in Position : CompleteLoad(r, l, n)
           \/ \E c \in Course : EnrollLoad(r, c)
           \/ \E a \in Assignment : SubmitLoad(r, a)
           \/ DashboardStart(r)
    PROVE  IInv'
<1> USE LearnerAssumption
<1>1. /\ NothingSeen \in Seen /\ NoProgress \in Progress
      /\ rolled_back \subseteq Entry /\ raced \subseteq Lesson /\ events \in Nat
      /\ progress \in [Lesson -> Progress]
    BY DEF IInv, TypeOK, NothingSeen, Seen, NoProgress, Progress
<1>2. ASSUME NEW o \in Action \cup {"dashboard"}, NEW i \in Item \cup {None},
             NEW p \in Progress, NEW n \in Position,
             o = "complete" => i \in Lesson /\ p = progress[i],
             o = "enroll" => i \in Course, o = "submit" => i \in Assignment
      PROVE  LET q == Begun(o, i, p, n) IN
             /\ q \in Request /\ RequestOK(q) /\ ~Published(q) /\ ~Wrote(q)
             /\ q.op = o /\ q.item = i
             /\ Cardinality(q.seen.activity) <= Limit
  <2> DEFINE q == Begun(o, i, p, n)
  <2>1. q \in Request /\ Placed(q)
      BY <1>1, <1>2 DEF Begun, Request, Action, Item, Placed
  <2>2. /\ q.seen = NothingSeen /\ q.step = 1 /\ q.pc \in {"write", "count"}
        /\ q.op = o /\ q.item = i /\ q.loaded = p
      BY DEF Begun
  <2> HIDE DEF q
  <2>3. /\ RequestOK(q) /\ ~Published(q) /\ ~Wrote(q)
        /\ Cardinality(q.seen.activity) <= Limit
      BY <1>2, <2>1, <2>2, FreshOK
  <2>4. QED
      BY <2>1, <2>2, <2>3 DEF q
<1>3. ASSUME req[r].pc = "idle" PROVE ~Published(req[r])
    BY <1>3 DEF Published
<1>4. ASSUME NEW l \in Lesson, NEW n \in Position, CompleteLoad(r, l, n) PROVE IInv'
  <2> DEFINE q == Begun("complete", l, progress[l], n)
  <2>1. /\ q \in Request /\ RequestOK(q) /\ ~Published(q) /\ ~Wrote(q)
        /\ q.item = l /\ Cardinality(q.seen.activity) <= Limit
      BY <1>1, <1>2 DEF Action, Item
  <2> HIDE DEF q
  <2>2. /\ raced \subseteq raced' /\ raced' \subseteq Lesson /\ events' \in Nat
        /\ \A o \in Req \ {r} : req[o].op = "complete" /\ req[o].item = q.item
                                  => q.item \in raced'
      BY <1>1, <1>4, <2>1 DEF CompleteLoad, Completing
  <2>3. req' = [req EXCEPT ![r] = q] /\ req[r].pc = "idle"
      BY <1>4 DEF CompleteLoad, q
  <2>4. QED
      BY <1>1, <1>3, <1>4, <2>1, <2>2, <2>3, LocalStep DEF CompleteLoad
<1>5. ASSUME NEW c \in Course, EnrollLoad(r, c) PROVE IInv'
  <2> DEFINE q == Begun("enroll", c, NoProgress, 0)
  <2>1. /\ q \in Request /\ RequestOK(q) /\ ~Published(q) /\ ~Wrote(q)
        /\ q.op = "enroll" /\ Cardinality(q.seen.activity) <= Limit
      BY <1>1, <1>2 DEF Action, Item
  <2> HIDE DEF q
  <2>2. req' = [req EXCEPT ![r] = q] /\ req[r].pc = "idle" /\ events' \in Nat
      BY <1>1, <1>5 DEF EnrollLoad, q
  <2>3. QED
      BY <1>1, <1>3, <1>5, <2>1, <2>2, LocalStep DEF EnrollLoad
<1>6. ASSUME NEW a \in Assignment, SubmitLoad(r, a) PROVE IInv'
  <2> DEFINE q == Begun("submit", a, NoProgress, 0)
  <2>1. /\ q \in Request /\ RequestOK(q) /\ ~Published(q) /\ ~Wrote(q)
        /\ q.op = "submit" /\ Cardinality(q.seen.activity) <= Limit
      BY <1>1, <1>2 DEF Action, Item
  <2> HIDE DEF q
  <2>2. req' = [req EXCEPT ![r] = q] /\ req[r].pc = "idle" /\ events' \in Nat
      BY <1>1, <1>6 DEF SubmitLoad, q
  <2>3. QED
      BY <1>1, <1>3, <1>6, <2>1, <2>2, LocalStep DEF SubmitLoad
<1>7. ASSUME DashboardStart(r) PROVE IInv'
  <2> DEFINE q == Begun("dashboard", None, NoProgress, 0)
  <2>1. /\ q \in Request /\ RequestOK(q) /\ ~Published(q) /\ ~Wrote(q)
        /\ q.op = "dashboard" /\ Cardinality(q.seen.activity) <= Limit
      BY <1>1, <1>2
  <2> HIDE DEF q
  <2>2. req' = [req EXCEPT ![r] = q] /\ req[r].pc = "idle" /\ events' \in Nat
      BY <1>1, <1>7 DEF DashboardStart, q
  <2>3. QED
      BY <1>1, <1>3, <1>7, <2>1, <2>2, LocalStep DEF DashboardStart
<1>8. QED
    BY <1>4, <1>5, <1>6, <1>7

\* A write that is flushed or fails.
LEMMA FlushStep ==
    ASSUME IInv, NEW r \in Req, Flush(r)
    PROVE  IInv'
<1> USE LearnerAssumption
<1>1. /\ rolled_back \subseteq Entry /\ raced \subseteq Lesson /\ events \in Nat
      /\ req[r] \in Request /\ RequestOK(req[r]) /\ req[r].pc = "write"
      /\ Cardinality(req[r].seen.activity) <= Limit
    BY DEF IInv, TypeOK, Flush
<1>2. ~Published(req[r])
    BY <1>1 DEF Published
<1>3. CASE Taken(req[r])
  <2>1. req' = [req EXCEPT ![r] = Idle]
      BY <1>3 DEF Flush
  <2>2. Idle.op # "complete"
      BY DEF Idle
  <2>3. QED
      BY <1>1, <1>2, <2>1, <2>2, IdleOK, LocalStep DEF Flush
<1>4. CASE ~Taken(req[r])
  <2> DEFINE q == [req[r] EXCEPT !.pc = "publish"]
  <2>1. req' = [req EXCEPT ![r] = q]
      BY <1>4 DEF Flush
  <2>2. /\ q \in Request /\ q.pc = "publish" /\ q.op = req[r].op
        /\ q.item = req[r].item /\ q.loaded = req[r].loaded
        /\ q.seen = req[r].seen /\ q.step = req[r].step
      BY <1>1 DEF Request
  <2> HIDE DEF q
  <2>3. Placed(q) /\ req[r].op # "dashboard"
      BY <1>1, <2>2 DEF RequestOK, Placed
  <2>4. WriteOK(q)
    <3>1. q.op = "enroll" => q.item \notin enrollments
        BY <1>4, <2>2 DEF Taken
    <3>2. QED
        BY <1>1, <2>2, <3>1 DEF RequestOK, WriteOK, Published
  <2>5. DashboardOK(q)
      BY <1>1, <2>2, <2>3 DEF RequestOK, DashboardOK
  <2>6. ~Published(q)
      BY <2>2 DEF Published
  <2>7. Wrote(q) /\ q.op = "enroll" =>
          \A o \in Req \ {r} : ~(Wrote(req[o]) /\ Write(req[o]) = Write(q))
      BY <2>2 DEF Flush, Write
  <2>8. QED
      BY <1>1, <1>2, <2>1, <2>2, <2>3, <2>4, <2>5, <2>6, <2>7, LocalStep
      DEF Flush, RequestOK
<1>5. QED
    BY <1>3, <1>4

\* A request that ends without committing.
LEMMA AbortStep ==
    ASSUME IInv, NEW r \in Req, Abort(r)
    PROVE  IInv'
<1>1. /\ rolled_back \subseteq Entry /\ raced \subseteq Lesson /\ events \in Nat
      /\ req[r] \in Request
    BY DEF IInv, TypeOK
<1>2. Wrote(req[r]) => Write(req[r]) \in Entry
    BY <1>1 DEF Wrote, Write, Entry, Request
<1>3. Published(req[r]) => Wrote(req[r])
    BY DEF Published, Wrote
<1>4. /\ rolled_back \subseteq rolled_back' /\ rolled_back' \subseteq Entry
      /\ Published(req[r]) => Write(req[r]) \in rolled_back'
    BY <1>1, <1>2, <1>3 DEF Abort
<1>5. Idle.op # "complete"
    BY DEF Idle
<1>6. QED
    BY <1>1, <1>4, <1>5, IdleOK, LocalStep DEF Abort

\* What one statement of the dashboard reads.
LEMMA CountRead ==
    ASSUME IInv, NEW q \in Request, q.step \in 1..5
    PROVE  LET c == Count(q) IN
           /\ c \in Seen
           /\ c.enrolled \in {q.seen.enrolled, enrollments}
           /\ c.completed \in {q.seen.completed, {l \in Lesson : progress[l].completed}}
           /\ c.submitted = IF q.step = 3 THEN submissions ELSE q.seen.submitted
           /\ c.pending = IF q.step = 4 THEN Pending ELSE q.seen.pending
           /\ c.activity = IF q.step = 5 THEN Latest(audit_logs) ELSE q.seen.activity
           /\ q.step = 5 => c.enrolled = q.seen.enrolled /\ c.completed = q.seen.completed
<1>1. /\ Statements[1] = "enrolled" /\ Statements[2] = "completed"
      /\ Statements[3] = "submitted" /\ Statements[4] = "pending"
      /\ Statements[5] = "activity"
    BY DEF Statements
<1>2. /\ q.seen \in Seen /\ enrollments \subseteq Course
      /\ submissions \subseteq Assignment /\ audit_logs \in Seq(Entry)
    BY DEF IInv, TypeOK, Request
<1>3. Pending \subseteq Assignment /\ Latest(audit_logs) \subseteq Entry
    BY <1>2, LatestBounded DEF Pending
<1> DEFINE done == {l \in Lesson : progress[l].completed}
<1>4. CASE q.step = 1
  <2>1. Count(q) = [q.seen EXCEPT !.enrolled = enrollments]
      BY <1>1, <1>4 DEF Count
  <2>2. QED
      BY <1>2, <1>4, <2>1 DEF Seen
<1>5. CASE q.step = 2
  <2>1. Count(q) = [q.seen EXCEPT !.completed = done]
      BY <1>1, <1>5 DEF Count
  <2>2. done \subseteq Lesson
      OBVIOUS
  <2>3. QED
      BY <1>2, <1>5, <2>1, <2>2 DEF Seen
<1>6. CASE q.step = 3
  <2>1. Count(q) = [q.seen EXCEPT !.submitted = submissions]
      BY <1>1, <1>6 DEF Count
  <2>2. QED
      BY <1>2, <1>6, <2>1 DEF Seen
<1>7. CASE q.step = 4
  <2>1. Count(q) = [q.seen EXCEPT !.pending = Pending]
      BY <1>1, <1>7 DEF Count
  <2>2. QED
      BY <1>2, <1>3, <1>7, <2>1 DEF Seen
<1>8. CASE q.step = 5
  <2>1. Count(q) = [q.seen EXCEPT !.activity = Latest(audit_logs)]
      BY <1>1, <1>8 DEF Count
  <2>2. QED
      BY <1>2, <1>3, <1>8, <2>1 DEF Seen
<1>9. QED
    BY <1>4, <1>5, <1>6, <1>7, <1>8

LEMMA CountStep ==
    ASSUME IInv, NEW r \in Req, DashboardCount(r)
    PROVE  IInv'
<1> USE LearnerAssumption
<1> DEFINE p == req[r]
           c == Count(p)
           q == [p EXCEPT !.seen = c, !.step = p.step + 1,
                          !.pc = IF p.step = Len(Statements) THEN "commit" ELSE "count"]
<1>1. /\ rolled_back \subseteq Entry /\ raced \subseteq Lesson /\ events \in Nat
      /\ p \in Request /\ RequestOK(p) /\ p.pc = "count"
      /\ Cardinality(p.seen.activity) <= Limit /\ audit_logs \in Seq(Entry)
    BY DEF IInv, TypeOK, DashboardCount
<1>2. p.step \in 1..5 /\ p.op = "dashboard" /\ Len(Statements) = 5
    BY <1>1 DEF RequestOK, Placed, DashboardOK, Action, Request, Statements
<1>3. /\ c \in Seen
      /\ c.enrolled \in {p.seen.enrolled, enrollments}
      /\ c.completed \in {p.seen.completed, {l \in Lesson : progress[l].completed}}
      /\ c.submitted = IF p.step = 3 THEN submissions ELSE p.seen.submitted
      /\ c.pending = IF p.step = 4 THEN Pending ELSE p.seen.pending
      /\ c.activity = IF p.step = 5 THEN Latest(audit_logs) ELSE p.seen.activity
      /\ p.step = 5 => c.enrolled = p.seen.enrolled /\ c.completed = p.seen.completed
    BY <1>1, <1>2, CountRead
<1>4. req' = [req EXCEPT ![r] = q]
    BY DEF DashboardCount
<1>5. p.step + 1 \in 1..6
    BY <1>2
<1> HIDE DEF c
<1>6. /\ q \in Request /\ q.op = "dashboard" /\ q.seen = c /\ q.step = p.step + 1
      /\ q.pc = IF p.step = 5 THEN "commit" ELSE "count"
      /\ q.item = p.item
    BY <1>1, <1>2, <1>3, <1>5 DEF Request
<1> HIDE DEF q, p
<1>7. \A e \in Counted(c) : e \in Counted(p.seen) \/ (e \in Entry /\ Stored(e))
  <2>1. c.enrolled \subseteq Course /\ c.completed \subseteq Lesson
        /\ c.submitted \subseteq Assignment
      BY <1>3 DEF Seen
  <2>2. ASSUME NEW l \in c.completed, l \notin p.seen.completed
        PROVE  LET e == [action |-> "complete", item |-> l] IN e \in Entry /\ Stored(e)
      BY <1>3, <2>1, <2>2 DEF Entry, Stored, Action, Item
  <2>3. ASSUME NEW i \in c.enrolled, i \notin p.seen.enrolled
        PROVE  LET e == [action |-> "enroll", item |-> i] IN e \in Entry /\ Stored(e)
      BY <1>3, <2>1, <2>3 DEF Entry, Stored, Action, Item
  <2>4. ASSUME NEW a \in c.submitted, a \notin p.seen.submitted
        PROVE  LET e == [action |-> "submit", item |-> a] IN e \in Entry /\ Stored(e)
      BY <1>3, <2>1, <2>4 DEF Entry, Stored, Action, Item
  <2>5. QED
      BY <2>2, <2>3, <2>4 DEF Counted
<1>8. \A e \in Counted(c) : Explained(e)
    BY <1>1, <1>7 DEF IInv, RowsOK, RequestOK, DashboardOK
<1>9. /\ c.submitted \subseteq submissions
      /\ c.submitted \cap c.pending = {}
      /\ q.step <= 4 => c.pending = {}
    BY <1>1, <1>2, <1>3, <1>6 DEF RequestOK, DashboardOK, Pending
<1>10. p.step = 5 =>
         Len(audit_logs) > Limit \/ Counted(c) \subseteq c.activity \cup unaudited
  <2> SUFFICES ASSUME p.step = 5, ~(Len(audit_logs) > Limit), NEW e \in Counted(c),
                      Audited(e)
               PROVE  e \in c.activity
      BY <1>8 DEF Explained
  <2>1. PICK i \in 1..Len(audit_logs) : audit_logs[i] = e
      BY DEF Audited
  <2>2. Len(audit_logs) <= Limit
      BY <1>1
  <2>3. QED
      BY <1>1, <1>3, <2>1, <2>2, LatestComplete
<1>11. DashboardOK(q)
    BY <1>2, <1>6, <1>8, <1>9, <1>10 DEF DashboardOK
<1>12. ~Wrote(q) /\ ~Published(q) /\ ~Published(p)
    BY <1>2, <1>6 DEF Wrote, Published, Action
<1>13. Placed(q) /\ WriteOK(q)
    BY <1>6, <1>12 DEF Placed, WriteOK, Action
<1>14. Cardinality(q.seen.activity) <= Limit
    BY <1>1, <1>3, <1>6, LatestBounded
<1>15. QED
    BY <1>1, <1>4, <1>6, <1>11, <1>12, <1>13, <1>14, LocalStep
    DEF RequestOK, DashboardCount, p

\* The log grows at its end.
LEMMA Appended ==
    ASSUME NEW e \in Entry, audit_logs \in Seq(Entry),
           audit_logs' = Append(audit_logs, e)
    PROVE  /\ audit_logs' \in Seq(Entry) /\ Len(audit_logs') = Len(audit_logs) + 1
           /\ Len(audit_logs) \in Nat
           /\ \A i \in 1..Len(audit_logs) : audit_logs'[i] = audit_logs[i]
           /\ audit_logs'[Len(audit_logs) + 1] = e
OBVIOUS

\* What is explained, or was counted, remains so.
LEMMA Grows ==
    ASSUME UNCHANGED <<enrollments, submissions, progress, raced>>,
           unaudited \subseteq unaudited',
           Len(audit_logs) \in Nat, Len(audit_logs') \in Nat,
           Len(audit_logs) <= Len(audit_logs'),
           \A i \in 1..Len(audit_logs) : audit_logs'[i] = audit_logs[i]
    PROVE  /\ \A e : Explained(e) => Explained(e)'
           /\ \A q : RequestOK(q) => RequestOK(q)'
<1>1. \A e : Explained(e) => Explained(e)'
  <2> TAKE e
  <2>1. Audited(e) => Audited(e)'
      BY DEF Audited
  <2>2. QED
      BY <2>1 DEF Explained
<1>2. \A q : WriteOK(q) => WriteOK(q)'
    BY <1>1 DEF WriteOK, Wrote, Published, Write
<1>3. \A q : DashboardOK(q) => DashboardOK(q)'
  <2> TAKE q
  <2>1. Len(audit_logs) > Limit => Len(audit_logs') > Limit
      BY LearnerAssumption
  <2>2. Counted(q.seen)' = Counted(q.seen)
      BY DEF Counted
  <2>3. QED
      BY <1>1, <2>1, <2>2 DEF DashboardOK
<1>4. QED
    BY <1>1, <1>2, <1>3 DEF RequestOK, Placed

\* A request publishes a write that nothing in the log describes yet, if it is an
\* enrolment, except an attempt that was rolled back.
LEMMA NewEntry ==
    ASSUME IInv, NEW r \in Req, req[r].pc = "publish", req[r].op = "enroll",
           Write(req[r]) \notin rolled_back, NEW i \in 1..Len(audit_logs)
    PROVE  audit_logs[i] # Write(req[r])
<1> SUFFICES ASSUME audit_logs[i] = Write(req[r]) PROVE FALSE
    OBVIOUS
<1>1. RequestOK(req[r]) /\ EntryOK(i)
    BY DEF IInv, EntriesOK
<1>2. Wrote(req[r]) /\ req[r].item \notin enrollments
    BY <1>1 DEF RequestOK, WriteOK, Wrote, Action
<1>3. audit_logs[i].action = "enroll" /\ audit_logs[i].item = req[r].item
    BY DEF Write
<1>4. audit_logs[i] # Other /\ ~Stored(audit_logs[i])
    BY <1>2, <1>3 DEF Other, Stored
<1>5. ASSUME NEW o \in Req, Published(req[o]), Write(req[o]) = audit_logs[i]
      PROVE  FALSE
  <2>1. o # r /\ Wrote(req[o])
      BY <1>5 DEF Published, Wrote
  <2>2. QED
      BY <1>2, <1>5, <2>1 DEF IInv, Unique
<1>6. QED
    BY <1>1, <1>4, <1>5 DEF EntryOK

LEMMA PublishSteps ==
    ASSUME IInv, NEW r \in Req, Publish(r) \/ PublishFails(r)
    PROVE  IInv'
<1>1. /\ req \in [Req -> Request] /\ req[r] \in Request /\ RequestOK(req[r])
      /\ req[r].pc = "publish" /\ audit_logs \in Seq(Entry)
      /\ unaudited \subseteq Entry
      /\ UNCHANGED <<progress, enrollments, submissions, rolled_back, last, raced, events,
                     offered>>
    BY DEF IInv, TypeOK, Publish, PublishFails
<1>2. PICK q, w, old : /\ q = [req[r] EXCEPT !.pc = "commit"] /\ w = Write(req[r])
                      /\ old = req[r] /\ req' = [req EXCEPT ![r] = q]
    BY <1>1 DEF Publish, PublishFails
<1>3. /\ q \in Request /\ q.pc = "commit" /\ q.op = req[r].op
      /\ q.item = req[r].item /\ q.loaded = req[r].loaded
      /\ q.seen = req[r].seen /\ q.step = req[r].step
    BY <1>1, <1>2 DEF Request
<1>4. req[r].op \in Action
    BY <1>1 DEF RequestOK, Placed, Request
<1>5. Wrote(req[r]) /\ ~Published(req[r]) /\ Published(q) /\ Wrote(q) /\ Write(q) = w
    BY <1>1, <1>2, <1>3, <1>4 DEF Wrote, Published, Write
<1>6. w \in Entry
    BY <1>1, <1>2, <1>4 DEF Write, Entry, Request
<1>7. \/ audit_logs' = Append(audit_logs, w) /\ unaudited' = unaudited
      \/ audit_logs' = audit_logs /\ unaudited' = unaudited \cup {w}
    BY <1>2 DEF Publish, PublishFails
<1>8. /\ audit_logs' \in Seq(Entry) /\ unaudited' \subseteq Entry
      /\ Len(audit_logs) \in Nat /\ Len(audit_logs') \in Nat
      /\ Len(audit_logs) <= Len(audit_logs') /\ unaudited \subseteq unaudited'
      /\ \A i \in 1..Len(audit_logs) : audit_logs'[i] = audit_logs[i]
      /\ \A i \in 1..Len(audit_logs') : i \in 1..Len(audit_logs) \/ audit_logs'[i] = w
      /\ \A i, j \in 1..Len(audit_logs') :
            i \notin 1..Len(audit_logs) /\ j \notin 1..Len(audit_logs) => i = j
      /\ w \in unaudited' \/ (Len(audit_logs') \in 1..Len(audit_logs')
                              /\ audit_logs'[Len(audit_logs')] = w)
  <2>1. CASE audit_logs' = Append(audit_logs, w) /\ unaudited' = unaudited
    <3>1. /\ audit_logs' \in Seq(Entry) /\ Len(audit_logs') = Len(audit_logs) + 1
          /\ Len(audit_logs) \in Nat
          /\ \A i \in 1..Len(audit_logs) : audit_logs'[i] = audit_logs[i]
          /\ audit_logs'[Len(audit_logs) + 1] = w
        BY <1>1, <1>6, <2>1, Appended
    <3>2. QED
        BY <1>1, <2>1, <3>1
  <2>2. CASE audit_logs' = audit_logs /\ unaudited' = unaudited \cup {w}
      BY <1>1, <1>6, <2>2
  <2>3. QED
      BY <1>7, <2>1, <2>2
<1>9. /\ \A e : Explained(e) => Explained(e)'
      /\ \A p : RequestOK(p) => RequestOK(p)'
    BY <1>1, <1>8, Grows
<1>10. /\ req' \in [Req -> Request]
       /\ req'[r] = q /\ \A o \in Req \ {r} : req'[o] = req[o]
    BY <1>1, <1>2, <1>3
<1>11. TypeOK'
    BY <1>1, <1>3, <1>8, <1>10 DEF IInv, TypeOK
<1>12. RequestOK(q)'
  <2>1. Explained(w)'
      BY <1>8 DEF Explained, Audited
  <2>2. RequestOK(old)
      BY <1>1, <1>2
  <2>3. WriteOK(q)'
    <3>1. old.item = q.item /\ old.op = q.op /\ old.loaded = q.loaded /\ Wrote(old)
        BY <1>2, <1>3, <1>5
    <3>2. /\ q.op = "enroll" => q.item \notin enrollments
          /\ q.op = "complete" /\ q.item \notin raced => q.loaded = progress[q.item]
        BY <2>2, <3>1 DEF RequestOK, WriteOK
    <3>3. Explained(Write(q))'
        BY <1>5, <2>1 DEF Write
    <3>4. QED
        BY <1>1, <3>2, <3>3 DEF WriteOK
  <2>4. q.op # "dashboard" /\ q.pc # "count"
      BY <1>3, <1>4 DEF Action
  <2>5. q.seen = NothingSeen
      BY <1>1, <1>3, <2>4 DEF RequestOK, DashboardOK
  <2>6. DashboardOK(q)'
    <3>1. Counted(q.seen) = {} /\ q.seen.submitted = {} /\ q.seen.pending = {}
        BY <2>5 DEF Counted, NothingSeen
    <3>2. Counted(q.seen)' = Counted(q.seen)
        BY DEF Counted
    <3>3. QED
        BY <2>4, <2>5, <3>1, <3>2 DEF DashboardOK
  <2>7. Placed(q)
      BY <1>1, <1>3, <1>4 DEF RequestOK, Placed, Action
  <2>8. QED
      BY <2>3, <2>6, <2>7 DEF RequestOK, Placed
<1>13. (\A o \in Req : RequestOK(req[o]))'
  <2>1. \A o \in Req \ {r} : RequestOK(req'[o])
      BY <1>10 DEF IInv
  <2>2. \A p : p = q \/ RequestOK(p) => RequestOK(p)'
      BY <1>9, <1>12
  <2>3. \A o \in Req : req'[o] = q \/ RequestOK(req'[o])
      BY <1>10, <2>1
  <2>4. QED
      BY <2>2, <2>3
<1>14. EntriesOK'
  <2> SUFFICES ASSUME NEW i \in 1..Len(audit_logs'), audit_logs'[i] # Other,
                      audit_logs'[i] \notin rolled_back
               PROVE  /\ Stored(audit_logs'[i])
                           \/ \E o \in Req : Published(req'[o])
                                             /\ Write(req'[o]) = audit_logs'[i]
                      /\ audit_logs'[i].action = "enroll" =>
                           \A j \in 1..Len(audit_logs') :
                             audit_logs'[j] = audit_logs'[i] => j = i
      BY <1>1 DEF EntriesOK, EntryOK, Published, Write, Stored
  <2>1. ASSUME w.action = "enroll", w \notin rolled_back
        PROVE  \A j \in 1..Len(audit_logs) : audit_logs[j] # w
    <3>1. req[r].op = "enroll"
        BY <1>2, <2>1 DEF Write
    <3>2. QED
        BY <1>1, <1>2, <2>1, <3>1, NewEntry
  <2>2. CASE i \in 1..Len(audit_logs)
    <3>1. EntryOK(i) /\ audit_logs'[i] = audit_logs[i]
        BY <1>8, <2>2 DEF IInv, EntriesOK
    <3>2. ASSUME NEW o \in Req, Published(req[o]), Write(req[o]) = audit_logs[i]
          PROVE  Published(req'[o]) /\ Write(req'[o]) = audit_logs[i]
        BY <1>5, <1>10, <3>2
    <3>3. ASSUME audit_logs[i].action = "enroll", NEW j \in 1..Len(audit_logs'),
                 audit_logs'[j] = audit_logs[i]
          PROVE  j = i
      <4>1. j \in 1..Len(audit_logs) => audit_logs[j] = audit_logs[i]
          BY <1>8, <3>3
      <4>2. j \notin 1..Len(audit_logs) => audit_logs[i] = w
          BY <1>8, <3>3
      <4>3. QED
          BY <2>1, <2>2, <3>1, <3>3, <4>1, <4>2 DEF EntryOK
    <3>4. QED
        BY <3>1, <3>2, <3>3 DEF EntryOK
  <2>3. CASE i \notin 1..Len(audit_logs)
    <3>1. audit_logs'[i] = w
        BY <1>8, <2>3
    <3>2. Published(req'[r]) /\ Write(req'[r]) = w
        BY <1>5, <1>10
    <3>3. ASSUME w.action = "enroll", NEW j \in 1..Len(audit_logs'),
                 audit_logs'[j] = w
          PROVE  j = i
      <4>1. j \notin 1..Len(audit_logs)
          BY <1>8, <2>1, <3>1, <3>3
      <4>2. QED
          BY <1>8, <2>3, <4>1
    <3>4. QED
        BY <3>1, <3>2, <3>3
  <2>4. QED
      BY <2>2, <2>3
<1>15. RowsOK'
    BY <1>1, <1>9 DEF IInv, RowsOK, Stored
<1>16. Alone'
    BY <1>1, <1>3, <1>10 DEF IInv, Alone
<1>17. Unique'
  <2>1. \A o \in Req : /\ Wrote(req'[o]) = Wrote(req[o])
                       /\ Write(req'[o]) = Write(req[o]) /\ req'[o].op = req[o].op
      BY <1>2, <1>3, <1>5, <1>10
  <2>2. \A o \in Req : Wrote(req[o])' = Wrote(req'[o]) /\ Write(req[o])' = Write(req'[o])
      BY DEF Wrote, Write
  <2>3. QED
      BY <2>1, <2>2 DEF IInv, Unique
<1>18. SerialPosition'
    BY <1>1 DEF IInv, SerialPosition
<1>19. QED
    BY <1>11, <1>13, <1>14, <1>15, <1>16, <1>17, <1>18 DEF IInv

\* An event of another kind enters the log.
LEMMA OtherStep ==
    ASSUME IInv, OtherEvent
    PROVE  IInv'
<1>1. /\ audit_logs \in Seq(Entry) /\ events \in Nat /\ Other \in Entry
      /\ audit_logs' = Append(audit_logs, Other) /\ events' = events + 1
      /\ UNCHANGED <<progress, enrollments, submissions, req, unaudited, rolled_back,
                     last, raced, offered>>
    BY DEF IInv, TypeOK, OtherEvent, Other, Entry
<1>2. /\ audit_logs' \in Seq(Entry) /\ Len(audit_logs') = Len(audit_logs) + 1
      /\ Len(audit_logs) \in Nat
      /\ \A i \in 1..Len(audit_logs) : audit_logs'[i] = audit_logs[i]
      /\ audit_logs'[Len(audit_logs) + 1] = Other
    BY <1>1, Appended
<1>3. /\ \A e : Explained(e) => Explained(e)'
      /\ \A p : RequestOK(p) => RequestOK(p)'
    BY <1>1, <1>2, Grows
<1>4. TypeOK'
    BY <1>1, <1>2 DEF IInv, TypeOK
<1>5. (\A o \in Req : RequestOK(req[o]))'
    BY <1>1, <1>3 DEF IInv
<1>6. EntriesOK'
  <2> SUFFICES ASSUME NEW i \in 1..Len(audit_logs'), audit_logs'[i] # Other
               PROVE  EntryOK(i)'
      BY DEF EntriesOK, EntryOK
  <2>1. i \in 1..Len(audit_logs) /\ audit_logs'[i] = audit_logs[i] /\ EntryOK(i)
      BY <1>2 DEF IInv, EntriesOK
  <2>2. \A j \in 1..Len(audit_logs') : audit_logs'[j] = audit_logs[i]
                                         => j \in 1..Len(audit_logs) /\ audit_logs[j] = audit_logs[i]
      BY <1>2, <2>1
  <2>3. QED
      BY <1>1, <2>1, <2>2 DEF EntryOK, Stored, Published, Write
<1>7. RowsOK'
    BY <1>1, <1>3 DEF IInv, RowsOK, Stored
<1>8. Alone' /\ Unique' /\ SerialPosition'
    BY <1>1 DEF IInv, Alone, Unique, SerialPosition, Wrote, Write
<1>9. QED
    BY <1>4, <1>5, <1>6, <1>7, <1>8 DEF IInv

\* What a commit makes of the tables.
LEMMA CommitTables ==
    ASSUME IInv, NEW r \in Req, Commit(r), NEW p, p = req[r]
    PROVE  /\ p \in Request /\ RequestOK(p) /\ p.pc = "commit"
           /\ progress' \in [Lesson -> Progress] /\ last' \in [Lesson -> Position]
           /\ enrollments' \subseteq Course /\ submissions' \subseteq Assignment
           /\ enrollments' = IF p.op = "enroll" THEN enrollments \cup {p.item}
                             ELSE enrollments
           /\ submissions' = IF p.op = "submit" THEN submissions \cup {p.item}
                             ELSE submissions
           /\ p.op = "complete" => progress'[p.item].completed
           /\ \A l \in Lesson : ~(p.op = "complete" /\ l = p.item) =>
                progress'[l] = progress[l] /\ last'[l] = last[l]
           /\ p.op = "complete" /\ p.item \notin raced =>
                progress'[p.item].last_position_seconds = last'[p.item]
<1>1. p \in Request /\ RequestOK(p) /\ p.pc = "commit"
    BY DEF IInv, TypeOK, Commit
<1>2. /\ progress \in [Lesson -> Progress] /\ last \in [Lesson -> Position]
      /\ enrollments \subseteq Course /\ submissions \subseteq Assignment
    BY DEF IInv, TypeOK
<1>3. CASE p.op = "complete"
  <2> DEFINE n == IF p.loaded.completed
                     /\ p.last_position_seconds = p.loaded.last_position_seconds
                  THEN progress[p.item].last_position_seconds
                  ELSE p.last_position_seconds
  <2>1. /\ progress' = [progress EXCEPT ![p.item] =
                          [completed |-> TRUE, last_position_seconds |-> n]]
        /\ last' = [last EXCEPT ![p.item] = p.last_position_seconds]
        /\ UNCHANGED <<enrollments, submissions>>
      BY <1>3 DEF Commit, CommitComplete, CommitEnroll, CommitSubmit, CommitRead
  <2>2. p.item \in Lesson /\ p.last_position_seconds \in Position
      BY <1>1, <1>3 DEF RequestOK, Placed, Request
  <2>3. n \in Position
      BY <1>2, <2>2 DEF Progress
  <2>4. p.item \notin raced => n = p.last_position_seconds
      BY <1>1, <1>3 DEF RequestOK, WriteOK
  <2> HIDE DEF n
  <2>5. [completed |-> TRUE, last_position_seconds |-> n] \in Progress
      BY <2>3 DEF Progress
  <2>6. QED
      BY <1>1, <1>2, <1>3, <2>1, <2>2, <2>4, <2>5
<1>4. CASE p.op = "enroll"
    BY <1>1, <1>2, <1>4 DEF Commit, CommitComplete, CommitEnroll, CommitSubmit,
                            CommitRead, RequestOK, Placed
<1>5. CASE p.op = "submit"
    BY <1>1, <1>2, <1>5 DEF Commit, CommitComplete, CommitEnroll, CommitSubmit,
                            CommitRead, RequestOK, Placed
<1>6. CASE p.op = "dashboard"
    BY <1>1, <1>2, <1>6 DEF Commit, CommitComplete, CommitEnroll, CommitSubmit,
                            CommitRead
<1>7. QED
    BY <1>3, <1>4, <1>5, <1>6 DEF Commit, CommitComplete, CommitEnroll, CommitSubmit,
                                  CommitRead

LEMMA CommitStep ==
    ASSUME IInv, NEW r \in Req, Commit(r)
    PROVE  IInv'
<1>1. PICK p : p = req[r]
    OBVIOUS
<1>2. /\ p \in Request /\ RequestOK(p) /\ p.pc = "commit"
      /\ progress' \in [Lesson -> Progress] /\ last' \in [Lesson -> Position]
      /\ enrollments' \subseteq Course /\ submissions' \subseteq Assignment
      /\ enrollments' = IF p.op = "enroll" THEN enrollments \cup {p.item}
                        ELSE enrollments
      /\ submissions' = IF p.op = "submit" THEN submissions \cup {p.item}
                        ELSE submissions
      /\ p.op = "complete" => progress'[p.item].completed
      /\ \A l \in Lesson : ~(p.op = "complete" /\ l = p.item) =>
           progress'[l] = progress[l] /\ last'[l] = last[l]
      /\ p.op = "complete" /\ p.item \notin raced =>
           progress'[p.item].last_position_seconds = last'[p.item]
    BY <1>1, CommitTables
<1>3. /\ req \in [Req -> Request] /\ req' = [req EXCEPT ![r] = Idle]
      /\ UNCHANGED <<audit_logs, unaudited, rolled_back, raced, events, offered>>
    BY DEF IInv, TypeOK, Commit
<1>4. /\ req' \in [Req -> Request] /\ req'[r] = Idle
      /\ \A o \in Req \ {r} : req'[o] = req[o]
    BY <1>3, IdleOK
<1>5. TypeOK'
    BY <1>2, <1>3, <1>4, IdleOK DEF IInv, TypeOK
<1>6. \A e : Explained(e)' = Explained(e)
    BY <1>3 DEF Explained, Audited
<1>7. \A e : Stored(e) => Stored(e)'
  <2> TAKE e
  <2>1. \A l \in Lesson : progress[l].completed => progress'[l].completed
      BY <1>2
  <2>2. QED
      BY <1>2, <2>1 DEF Stored
<1>8. (\A o \in Req : RequestOK(req[o]))'
  <2>1. ASSUME NEW o \in Req \ {r}, NEW q, q = req[o] PROVE RequestOK(q)'
    <3>1. RequestOK(q)
        BY <2>1 DEF IInv
    <3>2. Wrote(q) /\ q.op = "enroll" => q.item \notin enrollments'
      <4> SUFFICES ASSUME Wrote(q), q.op = "enroll", p.op = "enroll", p.item = q.item
                   PROVE  FALSE
          BY <1>2, <3>1 DEF RequestOK, WriteOK
      <4>1. Wrote(p) /\ Write(p) = Write(q)
          BY <1>2 DEF Wrote, Write, Action
      <4>2. QED
          BY <1>1, <2>1, <4>1 DEF IInv, Unique
    <3>3. q.op = "complete" /\ q.item \notin raced => q.loaded = progress'[q.item]
      <4> SUFFICES ASSUME q.op = "complete", q.item \notin raced
                   PROVE  q.loaded = progress'[q.item]
          OBVIOUS
      <4>1. ~(p.op = "complete" /\ p.item = q.item)
          BY <1>1, <2>1 DEF IInv, Alone
      <4>2. q.item \in Lesson /\ q.loaded = progress[q.item]
          BY <3>1 DEF RequestOK, Placed, WriteOK
      <4>3. QED
          BY <1>2, <4>1, <4>2
    <3>4. WriteOK(q)'
        BY <1>3, <1>6, <3>1, <3>2, <3>3 DEF RequestOK, WriteOK, Wrote, Published, Write
    <3>5. DashboardOK(q)'
        BY <1>2, <1>3, <1>6, <3>1 DEF RequestOK, DashboardOK, Counted
    <3>6. QED
        BY <3>1, <3>4, <3>5 DEF RequestOK, Placed
  <2>2. RequestOK(Idle)'
    <3>1. /\ Placed(Idle) /\ Idle.op = "none" /\ Idle.pc = "idle"
          /\ Idle.seen = NothingSeen /\ ~Wrote(Idle) /\ ~Published(Idle)
          /\ Counted(Idle.seen) = {}
        BY IdleOK DEF Idle, RequestOK, Counted, NothingSeen
    <3>2. PICK i : i = Idle
        OBVIOUS
    <3>3. WriteOK(i)' /\ DashboardOK(i)'
        BY <3>1, <3>2 DEF WriteOK, DashboardOK, NothingSeen, Counted, Wrote, Published
    <3>4. QED
        BY <3>1, <3>2, <3>3 DEF RequestOK, Placed, WriteOK, DashboardOK
  <2>3. ASSUME NEW o \in Req, NEW q, q = req'[o] PROVE RequestOK(q)'
    <3>1. o # r => q = req[o]
        BY <1>4, <2>3
    <3>2. o = r => q = Idle
        BY <1>4, <2>3
    <3>3. QED
        BY <2>1, <2>2, <3>1, <3>2
  <2>4. QED
      BY <2>3
<1>9. EntriesOK'
  <2> SUFFICES ASSUME NEW i \in 1..Len(audit_logs) PROVE EntryOK(i)'
      BY <1>3 DEF EntriesOK
  <2>1. EntryOK(i)
      BY DEF IInv, EntriesOK
  <2>2. ASSUME Published(p), Write(p) = audit_logs[i] PROVE Stored(audit_logs[i])'
      BY <1>2, <1>3, <2>2 DEF Published, Write, Stored, RequestOK, Placed, Action
  <2>3. ASSUME NEW o \in Req, Published(req[o]), Write(req[o]) = audit_logs[i]
        PROVE  \/ Stored(audit_logs[i])'
               \/ Published(req'[o]) /\ Write(req'[o]) = audit_logs[i]
      BY <1>1, <1>4, <2>2, <2>3
  <2>4. Stored(audit_logs[i]) => Stored(audit_logs[i])'
      BY <1>3, <1>7 DEF Stored
  <2>5. QED
      BY <1>3, <2>1, <2>3, <2>4 DEF EntryOK, Published, Write
<1>10. RowsOK'
  <2> SUFFICES ASSUME NEW e \in Entry, Stored(e)', ~Stored(e) PROVE Explained(e)
      BY <1>6 DEF IInv, RowsOK
  <2>1. e.action = p.op /\ e.item = p.item /\ p.op \in Action
      BY <1>2 DEF Stored, Action
  <2>2. e = Write(p)
      BY <2>1 DEF Entry, Write
  <2>3. QED
      BY <1>2, <2>1, <2>2 DEF RequestOK, WriteOK, Published
<1>11. Alone' /\ Unique'
  <2>1. Idle.op = "none" /\ ~Wrote(Idle)
      BY IdleOK DEF Idle
  <2>2. \A o \in Req : Wrote(req[o])' = Wrote(req'[o]) /\ Write(req[o])' = Write(req'[o])
      BY DEF Wrote, Write
  <2>3. QED
      BY <1>3, <1>4, <2>1, <2>2 DEF IInv, Alone, Unique
<1>12. SerialPosition'
    BY <1>2, <1>3 DEF IInv, SerialPosition
<1>13. QED
    BY <1>5, <1>8, <1>9, <1>10, <1>11, <1>12 DEF IInv

-----------------------------------------------------------------------------

\* What the administration adds is in none of the learner's rows yet.
LEMMA CreateStep ==
    ASSUME IInv, NEW i \in Lesson \cup Assignment, Create(i)
    PROVE  IInv'
BY DEF Create, IInv, TypeOK, RequestOK, Placed, WriteOK, DashboardOK, Wrote, Published,
       Write, Explained, Audited, Counted, EntriesOK, EntryOK, Stored, RowsOK, Alone,
       Unique, SerialPosition

LEMMA NextInv == IInv /\ [Next]_vars => IInv'
<1> SUFFICES ASSUME IInv, [Next]_vars PROVE IInv'
    OBVIOUS
<1>1. ASSUME NEW r \in Req, NEW l \in Lesson, NEW n \in Position, CompleteLoad(r, l, n)
      PROVE  IInv'
    BY <1>1, LoadSteps
<1>2. ASSUME NEW r \in Req, NEW c \in Course, EnrollLoad(r, c) PROVE IInv'
    BY <1>2, LoadSteps
<1>3. ASSUME NEW r \in Req, NEW a \in Assignment, SubmitLoad(r, a) PROVE IInv'
    BY <1>3, LoadSteps
<1>4. ASSUME NEW r \in Req, Flush(r) PROVE IInv'
    BY <1>4, FlushStep
<1>5. ASSUME NEW r \in Req, Publish(r) PROVE IInv'
    BY <1>5, PublishSteps
<1>6. ASSUME NEW r \in Req, PublishFails(r) PROVE IInv'
    BY <1>6, PublishSteps
<1>7. CASE OtherEvent
    BY <1>7, OtherStep
<1>8. ASSUME NEW r \in Req, DashboardStart(r) PROVE IInv'
    BY <1>8, LoadSteps
<1>9. ASSUME NEW r \in Req, DashboardCount(r) PROVE IInv'
    BY <1>9, CountStep
<1>10. ASSUME NEW r \in Req, Commit(r) PROVE IInv'
    BY <1>10, CommitStep
<1>11. ASSUME NEW r \in Req, Abort(r) PROVE IInv'
    BY <1>11, AbortStep
<1>12. CASE UNCHANGED vars
    BY <1>12 DEF vars, IInv, TypeOK, RequestOK, Placed, WriteOK, DashboardOK, Wrote,
                 Published, Write, Explained, Audited, Counted, EntriesOK, EntryOK,
                 Stored, RowsOK, Alone, Unique, SerialPosition
<1>13. ASSUME NEW i \in Lesson \cup Assignment, Create(i) PROVE IInv'
    BY <1>13, CreateStep
<1>14. QED
    BY <1>1, <1>2, <1>3, <1>4, <1>5, <1>6, <1>7, <1>8, <1>9, <1>10, <1>11, <1>12, <1>13
    DEF Next

\* The inductive invariant holds throughout.
THEOREM Invariance == Spec => []IInv
<1>1. Init => IInv
    BY InitInv
<1>2. IInv /\ [Next]_vars => IInv'
    BY NextInv
<1>3. QED
    BY <1>1, <1>2, PTL DEF Spec

\* Every variable keeps its type, and a dashboard lists at most Limit entries
\* (LIMIT 10, dashboard/service.py).
THEOREM TypeCorrect == Spec => []TypeOK
<1>1. IInv => TypeOK
    BY DEF IInv
<1>2. QED
    BY <1>1, Invariance, PTL

\* A dashboard never counts an assignment both as submitted and as pending: the
\* submissions it has counted stay, and the pending ones are read later
\* (dashboard/service.py).
THEOREM NeverBothCounted == Spec => []SubmittedNotPending
<1>1. IInv => SubmittedNotPending
    BY DEF IInv, RequestOK, DashboardOK, SubmittedNotPending
<1>2. QED
    BY <1>1, Invariance, PTL

\* What a dashboard counts, its recent activity explains, unless an audit entry
\* failed or the list is full (core/audit/service.py, dashboard/service.py).
THEOREM DashboardExplained == Spec => []CountedShown
<1>1. IInv => CountedShown
    BY DEF IInv, RequestOK, DashboardOK, CountedShown
<1>2. QED
    BY <1>1, Invariance, PTL

\* An audit entry describes a stored row, one in flight or one rolled back after its
\* entry, and a course is entered once (core/events/bus.py, courses/service.py).
THEOREM LogExplained == Spec => []EntriesExplained
<1>1. \A q : Published(q) => Wrote(q)
    BY DEF Published, Wrote
<1>2. IInv => EntriesExplained
    BY <1>1 DEF IInv, EntriesOK, EntryOK, EntriesExplained
<1>3. QED
    BY <1>2, Invariance, PTL

\* The position of a lesson is that of its last completion, unless two completions
\* overlapped (learning/service.py).
THEOREM LastPositionShown == Spec => []SerialPosition
<1>1. IInv => SerialPosition
    BY DEF IInv
<1>2. QED
    BY <1>1, Invariance, PTL
=============================================================================
