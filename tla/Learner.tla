------------------------------- MODULE Learner -------------------------------
(***************************************************************************)
(* One learner: LearningService.complete_lesson, the audit entry that      *)
(* every write publishes, and the dashboard, which counts what the other   *)
(* components have stored (app/modules/learning/service.py,                *)
(* app/core/audit, app/modules/dashboard/service.py).                      *)
(*                                                                         *)
(* Of enroll and submit, which are the modules Courses and Grading, only   *)
(* what the learner's tables and the audit log see is here.  Lessons and   *)
(* published assignments are added by the administration, while learners   *)
(* are at work, and never removed.                                         *)
(***************************************************************************)
EXTENDS Integers, Sequences, FiniteSets

CONSTANTS
    Lesson,
    Course,      \* published
    Assignment,  \* published
    Offered,     \* lessons and assignments there are from the start
    course_id,   \* of each assignment
    Position,    \* values of last_position_seconds
    Req,         \* requests in flight at once
    Limit,       \* entries the dashboard shows (10)
    MaxEvent,    \* bound: writes and other events of the learner
    None         \* no lesson, course or assignment

ASSUME LearnerAssumption ==
    /\ \A a \in Assignment : course_id[a] \in Course
    /\ Offered \subseteq Lesson \cup Assignment
    /\ None \notin Lesson \cup Course \cup Assignment
    /\ 0 \in Position
    /\ Limit \in Nat \ {0} /\ MaxEvent \in Nat

VARIABLES
    progress,     \* the row of lesson_progress for each lesson
    enrollments,  \* courses with a row of course_enrollments
    submissions,  \* assignments with a row of submissions, or several
    audit_logs,   \* the learner's entries, oldest first
    req,          \* the requests in flight
    unaudited,    \* history: writes whose audit entry failed
    rolled_back,  \* history: writes that were rolled back
    last,         \* history: the position each lesson's last completion sent
    raced,        \* history: lessons where two completions overlapped
    events,       \* how many writes and other events have begun
    offered       \* lessons and published assignments there are by now

vars == <<progress, enrollments, submissions, audit_logs, req, unaudited,
          rolled_back, last, raced, events, offered>>

Progress == [completed : BOOLEAN, last_position_seconds : Position]
NoProgress == [completed |-> FALSE, last_position_seconds |-> 0]

Item == Lesson \cup Course \cup Assignment
Action == {"complete", "enroll", "submit"}

\* An entry names the action and its resource; the other events of a learner (a
\* login, a grading) only take up room.
Entry == [action : Action \cup {"other"}, item : Item \cup {None}]
Other == [action |-> "other", item |-> None]

\* What a dashboard has read so far.
Seen == [enrolled : SUBSET Course, completed : SUBSET Lesson,
         submitted : SUBSET Assignment, pending : SUBSET Assignment,
         activity : SUBSET Entry]
NothingSeen == [enrolled |-> {}, completed |-> {}, submitted |-> {},
                pending |-> {}, activity |-> {}]

Request == [pc : {"idle", "write", "publish", "count", "commit"},
            op : Action \cup {"none", "dashboard"},
            item : Item \cup {None},
            loaded : Progress,              \* the progress as loaded
            last_position_seconds : Position,
            step : 1..6,                    \* the dashboard's next statement
            seen : Seen]

Idle == [pc |-> "idle", op |-> "none", item |-> None, loaded |-> NoProgress,
         last_position_seconds |-> 0, step |-> 1, seen |-> NothingSeen]

\* A request that begins, with the progress it loads and the position it was sent.
Begun(op, item, loaded, n) ==
    [pc |-> IF op = "dashboard" THEN "count" ELSE "write", op |-> op, item |-> item,
     loaded |-> loaded, last_position_seconds |-> n, step |-> 1,
     seen |-> NothingSeen]

Init ==
    /\ progress = [l \in Lesson |-> NoProgress]
    /\ enrollments = {}
    /\ submissions = {}
    /\ audit_logs = <<>>
    /\ req = [r \in Req |-> Idle]
    /\ unaudited = {}
    /\ rolled_back = {}
    /\ last = [l \in Lesson |-> 0]
    /\ raced = {}
    /\ events = 0
    /\ offered = Offered

Write(q) == [action |-> q.op, item |-> q.item]

\* Has q rows that are written and not yet committed?
Wrote(q) == q.op \in Action /\ q.pc \in {"publish", "commit"}

-----------------------------------------------------------------------------
(* complete_lesson, enroll, submit                                          *)

Completing(r, l) == \E o \in Req \ {r} : req[o].op = "complete" /\ req[o].item = l

\* get_or_404 of the lesson, get_for_user_lesson.
CompleteLoad(r, l, n) ==
    /\ l \in offered
    /\ req[r].pc = "idle" /\ events < MaxEvent /\ events' = events + 1
    /\ req' = [req EXCEPT ![r] = Begun("complete", l, progress[l], n)]
    /\ raced' = IF Completing(r, l) THEN raced \cup {l} ELSE raced
    /\ UNCHANGED <<progress, enrollments, submissions, audit_logs, unaudited,
                   rolled_back, last, offered>>

\* The test that the learner is not enrolled yet.
EnrollLoad(r, c) ==
    /\ req[r].pc = "idle" /\ events < MaxEvent /\ events' = events + 1
    /\ c \notin enrollments
    /\ req' = [req EXCEPT ![r] = Begun("enroll", c, NoProgress, 0)]
    /\ UNCHANGED <<progress, enrollments, submissions, audit_logs, unaudited,
                   rolled_back, last, raced, offered>>

\* A learner may submit again.
SubmitLoad(r, a) ==
    /\ a \in offered
    /\ req[r].pc = "idle" /\ events < MaxEvent /\ events' = events + 1
    /\ req' = [req EXCEPT ![r] = Begun("submit", a, NoProgress, 0)]
    /\ UNCHANGED <<progress, enrollments, submissions, audit_logs, unaudited,
                   rolled_back, last, raced, offered>>

\* Is the key of the row q inserts in the table by now?
Taken(q) ==
    \/ q.op = "complete" /\ ~q.loaded.completed /\ progress[q.item].completed
    \/ q.op = "enroll" /\ q.item \in enrollments

\* Publishes before it knows that the key is free.
Flush_AfterPublish(r) ==
    /\ req[r].pc = "write"
    /\ audit_logs' = Append(audit_logs, Write(req[r]))
    /\ req' = [req EXCEPT ![r] = IF Taken(req[r]) THEN Idle
                                 ELSE [req[r] EXCEPT !.pc = "commit"]]
    /\ UNCHANGED <<progress, enrollments, submissions, unaudited, rolled_back,
                   last, raced, events, offered>>

\* INSERT, or UPDATE of an existing progress: waits for another writer of the row
\* or the key, and fails if the key is taken (500).
Flush(r) ==
    /\ req[r].pc = "write"
    /\ req[r].op # "submit" =>
         \A o \in Req \ {r} : ~(Wrote(req[o]) /\ Write(req[o]) = Write(req[r]))
    /\ req' = [req EXCEPT ![r] = IF Taken(req[r]) THEN Idle
                                 ELSE [req[r] EXCEPT !.pc = "publish"]]
    /\ UNCHANGED <<progress, enrollments, submissions, audit_logs, unaudited,
                   rolled_back, last, raced, events, offered>>

\* publish, audit_domain_event, write_audit: the entry is committed in a
\* transaction of its own.
Publish(r) ==
    /\ req[r].pc = "publish"
    /\ audit_logs' = Append(audit_logs, Write(req[r]))
    /\ req' = [req EXCEPT ![r].pc = "commit"]
    /\ UNCHANGED <<progress, enrollments, submissions, unaudited, rolled_back,
                   last, raced, events, offered>>

\* The handler fails (no connection, a database error): logged, not raised.
PublishFails(r) ==
    /\ req[r].pc = "publish"
    /\ unaudited' = unaudited \cup {Write(req[r])}
    /\ req' = [req EXCEPT ![r].pc = "commit"]
    /\ UNCHANGED <<progress, enrollments, submissions, audit_logs, rolled_back,
                   last, raced, events, offered>>

\* The learner logs in, or has a submission graded or the account changed.
OtherEvent ==
    /\ events < MaxEvent /\ events' = events + 1
    /\ audit_logs' = Append(audit_logs, Other)
    /\ UNCHANGED <<progress, enrollments, submissions, req, unaudited,
                   rolled_back, last, raced, offered>>

\* AdminLessonService.create_lesson, AdminAssignmentService.create_assignment with
\* is_published: an INSERT, and nothing published to the bus.  An assignment made
\* without is_published stays out of sight: no route publishes it later.
Create(i) ==
    /\ i \notin offered
    /\ offered' = offered \cup {i}
    /\ UNCHANGED <<progress, enrollments, submissions, audit_logs, req, unaudited,
                   rolled_back, last, raced, events>>

-----------------------------------------------------------------------------
(* The dashboard                                                            *)

Pending == {a \in Assignment \cap offered : course_id[a] \in enrollments} \ submissions

\* ORDER BY created_at DESC LIMIT 10.
Latest(log) == {log[i] : i \in {j \in 1..Len(log) : j > Len(log) - Limit}}

\* The activity first, to answer sooner if there is none.
Statements_ActivityFirst ==
    <<"activity", "enrolled", "completed", "submitted", "pending">>

\* The pending assignments with the courses they depend on.
Statements_PendingEarlier ==
    <<"enrolled", "pending", "completed", "submitted", "activity">>

\* The statements of for_user, in order.
Statements == <<"enrolled", "completed", "submitted", "pending", "activity">>

DashboardStart(r) ==
    /\ req[r].pc = "idle"
    /\ req' = [req EXCEPT ![r] = Begun("dashboard", None, NoProgress, 0)]
    /\ UNCHANGED <<progress, enrollments, submissions, audit_logs, unaudited,
                   rolled_back, last, raced, events, offered>>

\* One statement, on what is committed when it runs.
Count(q) ==
    CASE Statements[q.step] = "enrolled"  -> [q.seen EXCEPT !.enrolled = enrollments]
      [] Statements[q.step] = "completed" ->
            [q.seen EXCEPT !.completed = {l \in Lesson : progress[l].completed}]
      [] Statements[q.step] = "submitted" -> [q.seen EXCEPT !.submitted = submissions]
      [] Statements[q.step] = "pending"   -> [q.seen EXCEPT !.pending = Pending]
      [] Statements[q.step] = "activity"  ->
            [q.seen EXCEPT !.activity = Latest(audit_logs)]

DashboardCount(r) ==
    /\ req[r].pc = "count"
    /\ req' = [req EXCEPT ![r] = [req[r] EXCEPT !.seen = Count(req[r]),
                                    !.step = req[r].step + 1,
                                    !.pc = IF req[r].step = Len(Statements)
                                           THEN "commit" ELSE "count"]]
    /\ UNCHANGED <<progress, enrollments, submissions, audit_logs, unaudited,
                   rolled_back, last, raced, events, offered>>

-----------------------------------------------------------------------------
(* The end of a request                                                     *)

\* A later completion is not stored.
CommitComplete_First(q) ==
    /\ q.op = "complete"
    /\ progress' = IF progress[q.item].completed THEN progress
                   ELSE [progress EXCEPT ![q.item] =
                          [completed |-> TRUE,
                           last_position_seconds |-> q.last_position_seconds]]
    /\ last' = [last EXCEPT ![q.item] = q.last_position_seconds]
    /\ UNCHANGED <<enrollments, submissions>>

\* The UPDATE leaves a column whose new value is the loaded one.
CommitComplete(q) ==
    /\ q.op = "complete"
    /\ progress' = [progress EXCEPT ![q.item] =
          [completed |-> TRUE,
           last_position_seconds |->
             IF q.loaded.completed
                /\ q.last_position_seconds = q.loaded.last_position_seconds
             THEN progress[q.item].last_position_seconds
             ELSE q.last_position_seconds]]
    /\ last' = [last EXCEPT ![q.item] = q.last_position_seconds]
    /\ UNCHANGED <<enrollments, submissions>>

CommitEnroll(q) ==
    /\ q.op = "enroll"
    /\ enrollments' = enrollments \cup {q.item}
    /\ UNCHANGED <<progress, submissions, last>>

CommitSubmit(q) ==
    /\ q.op = "submit"
    /\ submissions' = submissions \cup {q.item}
    /\ UNCHANGED <<progress, enrollments, last>>

CommitRead(q) ==
    /\ q.op = "dashboard"
    /\ UNCHANGED <<progress, enrollments, submissions, last>>

\* get_db after the yield.  The answer goes out before, which nothing here tells.
Commit(r) ==
    /\ req[r].pc = "commit"
    /\ \/ CommitComplete(req[r])
       \/ CommitEnroll(req[r])
       \/ CommitSubmit(req[r])
       \/ CommitRead(req[r])
    /\ req' = [req EXCEPT ![r] = Idle]
    /\ UNCHANGED <<audit_logs, unaudited, rolled_back, raced, events, offered>>

\* An error, a lost connection, a dying worker: rollback.
Abort(r) ==
    /\ req[r].pc # "idle"
    /\ rolled_back' = IF Wrote(req[r]) THEN rolled_back \cup {Write(req[r])}
                      ELSE rolled_back
    /\ req' = [req EXCEPT ![r] = Idle]
    /\ UNCHANGED <<progress, enrollments, submissions, audit_logs, unaudited,
                   last, raced, events, offered>>

Next ==
    \/ \E r \in Req, l \in Lesson, n \in Position : CompleteLoad(r, l, n)
    \/ \E r \in Req, c \in Course : EnrollLoad(r, c)
    \/ \E r \in Req, a \in Assignment : SubmitLoad(r, a)
    \/ \E r \in Req : Flush(r)
    \/ \E r \in Req : Publish(r)
    \/ \E r \in Req : PublishFails(r)
    \/ OtherEvent
    \/ \E i \in Lesson \cup Assignment : Create(i)
    \/ \E r \in Req : DashboardStart(r)
    \/ \E r \in Req : DashboardCount(r)
    \/ \E r \in Req : Commit(r)
    \/ \E r \in Req : Abort(r)

Spec == Init /\ [][Next]_vars

-----------------------------------------------------------------------------
(* Properties                                                               *)

Audited(e) == \E i \in 1..Len(audit_logs) : audit_logs[i] = e

\* e is stored: a row of one of the learner's tables.
Stored(e) ==
    \/ e.action = "complete" /\ e.item \in Lesson /\ progress[e.item].completed
    \/ e.action = "enroll" /\ e.item \in enrollments
    \/ e.action = "submit" /\ e.item \in submissions

\* The actions a dashboard has counted.
Counted(seen) ==
    {[action |-> "complete", item |-> l] : l \in seen.completed}
    \cup {[action |-> "enroll", item |-> c] : c \in seen.enrolled}
    \cup {[action |-> "submit", item |-> a] : a \in seen.submitted}

TypeOK ==
    /\ progress \in [Lesson -> Progress]
    /\ enrollments \subseteq Course
    /\ submissions \subseteq Assignment
    /\ audit_logs \in Seq(Entry)
    /\ req \in [Req -> Request]
    /\ unaudited \subseteq Entry /\ rolled_back \subseteq Entry
    /\ last \in [Lesson -> Position]
    /\ raced \subseteq Lesson /\ events \in Nat
    /\ offered \subseteq Lesson \cup Assignment
    /\ \A r \in Req : Cardinality(req[r].seen.activity) <= Limit

\* A dashboard never counts an assignment both as submitted and as pending, though
\* it reads the two at different times (dashboard/service.py:49-74).
SubmittedNotPending ==
    \A r \in Req : req[r].seen.submitted \cap req[r].seen.pending = {}

\* Whatever a dashboard counts, its recent activity explains, unless the audit entry
\* could not be written or the list is full: entries are committed before the rows
\* they describe, and read after them (audit/service.py:60, dashboard/service.py:31-87).
CountedShown ==
    \A r \in Req : req[r].op = "dashboard" /\ req[r].pc = "commit" =>
        \/ Len(audit_logs) > Limit
        \/ Counted(req[r].seen) \subseteq req[r].seen.activity \cup unaudited

\* An audit entry describes a stored row or one of a request in flight, and a course is
\* entered only once as enrolled in, unless the write was rolled back after its entry:
\* a write that is refused or that loses the race for its key leaves none
\* (courses/service.py:62-82, learning/service.py:40-62, core/events/bus.py:46).
EntriesExplained ==
    \A i \in 1..Len(audit_logs) :
        LET e == audit_logs[i] IN
        \/ e = Other
        \/ e \in rolled_back
        \/ /\ Stored(e) \/ \E r \in Req : Wrote(req[r]) /\ Write(req[r]) = e
           /\ e.action = "enroll" =>
                \A j \in 1..Len(audit_logs) : audit_logs[j] = e => j = i

\* The position of a lesson is that of its last completion, unless two overlapped
\* (learning/service.py:38-53).
SerialPosition ==
    \A l \in Lesson \ raced :
        progress[l].completed => progress[l].last_position_seconds = last[l]
=============================================================================
