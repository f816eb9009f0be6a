------------------------------- MODULE Courses -------------------------------
(***************************************************************************)
(* The course catalogue and enrolment of one tenant: the write operations  *)
(* of CourseService (app/modules/courses/service.py), run by concurrent    *)
(* HTTP requests.                                                          *)
(*                                                                         *)
(* A request is one READ COMMITTED transaction (get_db).  Each SELECT sees *)
(* the rows committed when it runs; an UPDATE or an INSERT takes a lock    *)
(* that lasts to the end of the transaction; what it writes is visible to  *)
(* the others at Commit.  The ORM writes literal values, and only of the   *)
(* columns the handler changed.  The response leaves before the commit:    *)
(* get_db is a dependency with yield, whose exit code runs once the        *)
(* response has been sent.                                                 *)
(***************************************************************************)
EXTENDS Integers, FiniteSets

CONSTANTS
    CourseId,    \* ids a course row may get (uuid4)
    User,        \* users of the tenant
    Slug,        \* course slugs
    Req,         \* request slots: how many requests run at once
    Seeded,      \* the courses scripts/seed.py has already published
    SeededSlug,  \* ... and the slug of each
    Nobody       \* fills the fields a request does not use

ASSUME SeedAssumption ==
    /\ Seeded \subseteq CourseId
    /\ SeededSlug \in [CourseId -> Slug]
    /\ \A c, d \in Seeded : SeededSlug[c] = SeededSlug[d] => c = d

ASSUME NobodyAssumption == Nobody \notin CourseId \cup User \cup Slug

VARIABLES
    rows,              \* ids present in table courses (soft-deleted ones too)
    slug,              \* column slug, UNIQUE (tenant_id, slug)
    status,            \* column status
    published_at,      \* whether column published_at is set
    deleted_at,        \* whether column deleted_at is set
    enrollment_count,  \* column enrollment_count
    enrollments,       \* table course_enrollments, as pairs <<course, user>>
    req,               \* the requests in flight
    reply,             \* the response the last step sent, if it sent one
    raced              \* history: courses where two enrolments overlapped

table == <<rows, slug, status, published_at, deleted_at, enrollment_count,
           enrollments>>
vars == <<table, req, reply, raced>>

Status == {"draft", "published", "archived"}
Op == {"none", "enroll", "create", "update", "delete"}

(***************************************************************************)
(* Where a request stands: the statement it will run next.  "commit" means *)
(* that the response is sent and only the commit is left.                  *)
(***************************************************************************)
Pc == {"idle", "check", "insert", "write", "publish", "respond", "commit"}

Request == [op : Op, pc : Pc, course : CourseId \cup {Nobody},
            user : User \cup {Nobody}, slug : Slug \cup {Nobody},
            status : Status,        \* status as loaded
            dated : BOOLEAN,        \* published_at as loaded
            count : Nat,            \* enrollment_count as loaded
            change : Status]        \* status asked for by update_course

Idle == [op |-> "none", pc |-> "idle", course |-> Nobody, user |-> Nobody,
         slug |-> Nobody, status |-> "draft", dated |-> FALSE, count |-> 0,
         change |-> "draft"]

Silent == [op |-> "none", code |-> 0]
Reply == [op : Op, code : {0, 200, 201, 404, 409, 422, 500}]

Init ==
    /\ rows = Seeded
    /\ slug = SeededSlug
    /\ status = [c \in CourseId |-> IF c \in Seeded THEN "published" ELSE "draft"]
    /\ published_at = [c \in CourseId |-> c \in Seeded]
    /\ deleted_at = [c \in CourseId |-> FALSE]
    /\ enrollment_count = [c \in CourseId |-> 0]
    /\ enrollments = {}
    /\ req = [r \in Req |-> Idle]
    /\ reply = Silent
    /\ raced = {}

-----------------------------------------------------------------------------
(* What the database does.                                                  *)

\* _select() of the repository: rows with deleted_at NULL.
Visible(c) == c \in rows /\ ~deleted_at[c]

\* Between the statement that wrote it and the commit a course row is locked.
Holds(q, c) ==
    /\ q.course = c
    /\ q.op \in {"enroll", "update", "delete"}
    /\ q.pc \in {"publish", "respond", "commit"}
Locked(c) == \E r \in Req : Holds(req[r], c)

\* A reservation that counts before it is granted.
Inserted_TooEarly(q, c, u) ==
    /\ q.op = "enroll" /\ q.course = c /\ q.user = u
    /\ q.pc \in {"insert", "write", "publish", "respond", "commit"}

\* The enrolment row q has inserted and not yet committed.
Inserted(q, c, u) ==
    /\ q.op = "enroll" /\ q.course = c /\ q.user = u
    /\ q.pc \in {"write", "publish", "respond", "commit"}

\* The course row q has inserted and not yet committed.
Creating(q) == q.op = "create" /\ q.pc \in {"publish", "respond", "commit"}

-----------------------------------------------------------------------------
(* Steps shared by the handlers.                                            *)

\* The handler raises: get_db rolls back, the exception handler answers.
Fail(r, code) ==
    /\ req' = [req EXCEPT ![r] = Idle]
    /\ reply' = [op |-> req[r].op, code |-> code]
    /\ UNCHANGED <<table, raced>>

\* The first statement finds no course, or one that is not open.
Refuse(op, code) ==
    /\ reply' = [op |-> op, code |-> code]
    /\ UNCHANGED <<table, req, raced>>

Goto(r, pc) ==
    /\ req' = [req EXCEPT ![r].pc = pc]
    /\ reply' = Silent

-----------------------------------------------------------------------------
(* enroll                                                                   *)

\* Does another enrolment of c run between its first read and its commit?
OtherEnrollment(r, c) ==
    \E o \in Req \ {r} : req[o].op = "enroll" /\ req[o].course = c

\* get_or_404 and the status test; the course object keeps the counter it read.
EnrollLoad(r, c, u) ==
    /\ req[r].pc = "idle"
    /\ \/ ~Visible(c) /\ Refuse("enroll", 404)
       \/ Visible(c) /\ status[c] # "published" /\ Refuse("enroll", 422)
       \/ /\ Visible(c) /\ status[c] = "published"
          /\ req' = [req EXCEPT ![r] =
                [op |-> "enroll", pc |-> "check", course |-> c, user |-> u,
                 slug |-> Nobody, status |-> "draft", dated |-> FALSE,
                 count |-> enrollment_count[c], change |-> "draft"]]
          /\ reply' = Silent
          /\ raced' = IF OtherEnrollment(r, c) THEN raced \cup {c} ELSE raced
          /\ UNCHANGED table

\* get_for_user_course: no code ever sets a row to "cancelled".
EnrollCheck(r) ==
    /\ req[r].op = "enroll" /\ req[r].pc = "check"
    /\ \/ <<req[r].course, req[r].user>> \in enrollments /\ Fail(r, 409)
       \/ /\ <<req[r].course, req[r].user>> \notin enrollments
          /\ Goto(r, "insert")
          /\ UNCHANGED <<table, raced>>

\* INSERT INTO course_enrollments.  The unique index makes it wait for an
\* uncommitted row with the same key, and fail on a committed one.
EnrollInsert(r) ==
    /\ req[r].op = "enroll" /\ req[r].pc = "insert"
    /\ \A o \in Req \ {r} : ~Inserted(req[o], req[r].course, req[r].user)
    /\ \/ <<req[r].course, req[r].user>> \in enrollments /\ Fail(r, 500)
       \/ /\ <<req[r].course, req[r].user>> \notin enrollments
          /\ Goto(r, "write")
          /\ UNCHANGED <<table, raced>>

\* The counter committed on its own instead of with the enrolment.
EnrollWrite_Autocommit(r) ==
    /\ req[r].op = "enroll" /\ req[r].pc = "write"
    /\ ~Locked(req[r].course)
    /\ Goto(r, "publish")
    /\ enrollment_count' = [enrollment_count EXCEPT ![req[r].course] =
                               req[r].count + 1]
    /\ UNCHANGED <<rows, slug, status, published_at, deleted_at, enrollments,
                   raced>>

\* UPDATE courses SET enrollment_count = <the loaded value plus one>: waits for
\* the row lock.
EnrollWrite(r) ==
    /\ req[r].op = "enroll" /\ req[r].pc = "write"
    /\ ~Locked(req[r].course)
    /\ Goto(r, "publish")
    /\ UNCHANGED <<table, raced>>

-----------------------------------------------------------------------------
(* create_course                                                            *)

\* exists(slug=...): looks at live courses only.
CreateCheck(r, c, s) ==
    /\ req[r].pc = "idle"
    /\ c \notin rows /\ \A o \in Req : req[o].course # c
    /\ \/ (\E d \in rows : Visible(d) /\ slug[d] = s) /\ Refuse("create", 409)
       \/ /\ ~\E d \in rows : Visible(d) /\ slug[d] = s
          /\ req' = [req EXCEPT ![r] =
                [op |-> "create", pc |-> "insert", course |-> c,
                 user |-> Nobody, slug |-> s, status |-> "draft",
                 dated |-> FALSE, count |-> 0, change |-> "draft"]]
          /\ reply' = Silent
          /\ UNCHANGED <<table, raced>>

\* Uniqueness of the slug left to the exists() test alone.
CreateInsert_NoUnique(r) ==
    /\ req[r].op = "create" /\ req[r].pc = "insert"
    /\ Goto(r, "publish")
    /\ UNCHANGED <<table, raced>>

\* INSERT INTO courses: the unique index covers the soft-deleted rows too.
CreateInsert(r) ==
    /\ req[r].op = "create" /\ req[r].pc = "insert"
    /\ \A o \in Req \ {r} : Creating(req[o]) => req[o].slug # req[r].slug
    /\ \/ (\E d \in rows : slug[d] = req[r].slug) /\ Fail(r, 500)
       \/ /\ \A d \in rows : slug[d] # req[r].slug
          /\ Goto(r, "publish")
          /\ UNCHANGED <<table, raced>>

-----------------------------------------------------------------------------
(* update_course and delete_course                                          *)

\* get_or_404; loaded is what the handler goes on to use of the row.
Load(r, op, c, loaded) ==
    /\ req[r].pc = "idle"
    /\ \/ ~Visible(c) /\ Refuse(op, 404)
       \/ /\ Visible(c)
          /\ req' = [req EXCEPT ![r] = loaded]
          /\ reply' = Silent
          /\ UNCHANGED <<table, raced>>

\* update_course; new is the status the body asks for (the loaded one when the
\* body leaves it alone and edits other columns).
UpdateLoad(r, c, new) ==
    Load(r, "update", c,
         [op |-> "update", pc |-> "write", course |-> c, user |-> Nobody,
          slug |-> Nobody, status |-> status[c], dated |-> published_at[c],
          count |-> enrollment_count[c], change |-> new])

\* delete_course.
DeleteLoad(r, c) ==
    Load(r, "delete", c,
         [op |-> "delete", pc |-> "write", course |-> c, user |-> Nobody,
          slug |-> Nobody, status |-> "draft", dated |-> FALSE, count |-> 0,
          change |-> "draft"])

\* The flush: UPDATE courses ..., which waits for the row lock.
AdminWrite(r) ==
    /\ req[r].op \in {"update", "delete"} /\ req[r].pc = "write"
    /\ ~Locked(req[r].course)
    /\ Goto(r, "respond")
    /\ UNCHANGED <<table, raced>>

-----------------------------------------------------------------------------
(* The end of a request                                                     *)

\* event_bus.publish: the audit handler commits a row on a connection of its
\* own, and whatever it raises is logged and dropped (module RequestScope); nothing
\* of this request's transaction changes.
Publish(r) ==
    /\ req[r].op \in {"enroll", "create"} /\ req[r].pc = "publish"
    /\ Goto(r, "respond")
    /\ UNCHANGED <<table, raced>>

Respond(r) ==
    /\ req[r].pc = "respond"
    /\ req' = [req EXCEPT ![r].pc = "commit"]
    /\ reply' = [op |-> req[r].op,
                 code |-> IF req[r].op \in {"enroll", "create"} THEN 201 ELSE 200]
    /\ UNCHANGED <<table, raced>>

CommitEnroll(q) ==
    /\ enrollments' = enrollments \cup {<<q.course, q.user>>}
    /\ enrollment_count' = [enrollment_count EXCEPT ![q.course] = q.count + 1]
    /\ UNCHANGED <<rows, slug, status, published_at, deleted_at>>

CommitCreate(q) ==
    /\ rows' = rows \cup {q.course}
    /\ slug' = [slug EXCEPT ![q.course] = q.slug]
    /\ status' = [status EXCEPT ![q.course] = "draft"]
    /\ published_at' = [published_at EXCEPT ![q.course] = FALSE]
    /\ deleted_at' = [deleted_at EXCEPT ![q.course] = FALSE]
    /\ enrollment_count' = [enrollment_count EXCEPT ![q.course] = 0]
    /\ UNCHANGED enrollments

\* Publication that forgets the date.
CommitUpdate_NoDate(q) ==
    /\ status' = [status EXCEPT ![q.course] =
                    IF q.change # q.status THEN q.change ELSE @]
    /\ UNCHANGED <<rows, slug, published_at, deleted_at, enrollment_count,
                   enrollments>>

\* An ORM that writes back every column it loaded.
CommitUpdate_WholeRow(q) ==
    /\ status' = [status EXCEPT ![q.course] = q.change]
    /\ published_at' = [published_at EXCEPT ![q.course] =
                          q.dated \/ q.change = "published"]
    /\ enrollment_count' = [enrollment_count EXCEPT ![q.course] = q.count]
    /\ UNCHANGED <<rows, slug, deleted_at, enrollments>>

\* Only the attributes whose value differs from the loaded one are written.
CommitUpdate(q) ==
    /\ status' = [status EXCEPT ![q.course] =
                    IF q.change # q.status THEN q.change ELSE @]
    /\ published_at' = [published_at EXCEPT ![q.course] =
                          @ \/ (q.change = "published" /\ ~q.dated)]
    /\ UNCHANGED <<rows, slug, deleted_at, enrollment_count, enrollments>>

CommitDelete(q) ==
    /\ deleted_at' = [deleted_at EXCEPT ![q.course] = TRUE]
    /\ UNCHANGED <<rows, slug, status, published_at, enrollment_count,
                   enrollments>>

\* get_db after the yield.
Commit(r) ==
    /\ req[r].pc = "commit"
    /\ \/ req[r].op = "enroll" /\ CommitEnroll(req[r])
       \/ req[r].op = "create" /\ CommitCreate(req[r])
       \/ req[r].op = "update" /\ CommitUpdate(req[r])
       \/ req[r].op = "delete" /\ CommitDelete(req[r])
    /\ req' = [req EXCEPT ![r] = Idle]
    /\ reply' = Silent
    /\ UNCHANGED raced

\* A worker dies, the connection drops or the commit fails: the database rolls
\* back.  The client gets a 500 unless its response has already been sent.
Abort(r) ==
    /\ req[r].pc # "idle"
    /\ req' = [req EXCEPT ![r] = Idle]
    /\ reply' = IF req[r].pc = "commit" THEN Silent
                ELSE [op |-> req[r].op, code |-> 500]
    /\ UNCHANGED <<table, raced>>

Step(r) ==
    \/ EnrollCheck(r) \/ EnrollInsert(r) \/ EnrollWrite(r)
    \/ CreateInsert(r)
    \/ AdminWrite(r)
    \/ Publish(r) \/ Respond(r) \/ Commit(r)

Next ==
    \/ \E r \in Req, c \in CourseId, u \in User : EnrollLoad(r, c, u)
    \/ \E r \in Req, c \in CourseId, s \in Slug : CreateCheck(r, c, s)
    \/ \E r \in Req, c \in CourseId, new \in Status : UpdateLoad(r, c, new)
    \/ \E r \in Req, c \in CourseId : DeleteLoad(r, c)
    \/ \E r \in Req : EnrollCheck(r)
    \/ \E r \in Req : EnrollInsert(r)
    \/ \E r \in Req : EnrollWrite(r)
    \/ \E r \in Req : CreateInsert(r)
    \/ \E r \in Req : AdminWrite(r)
    \/ \E r \in Req : Publish(r)
    \/ \E r \in Req : Respond(r)
    \/ \E r \in Req : Commit(r)
    \/ \E r \in Req : Abort(r)

Spec == Init /\ [][Next]_vars

(***************************************************************************)
(* A request runs its next statement when it can, and the waiters of a row *)
(* lock are served in turn (PostgreSQL queues them), so a statement that   *)
(* is able to proceed again and again eventually does.  Nothing makes a    *)
(* client send a request, or a worker fail.                                *)
(***************************************************************************)
Fairness == \A r \in Req : SF_vars(Step(r))

FairSpec == Spec /\ Fairness

-----------------------------------------------------------------------------
(* Properties                                                               *)

TypeOK ==
    /\ rows \subseteq CourseId
    /\ slug \in [CourseId -> Slug]
    /\ status \in [CourseId -> Status]
    /\ published_at \in [CourseId -> BOOLEAN]
    /\ deleted_at \in [CourseId -> BOOLEAN]
    /\ enrollment_count \in [CourseId -> Nat]
    /\ enrollments \subseteq CourseId \X User
    /\ req \in [Req -> Request]
    /\ reply \in Reply
    /\ raced \subseteq CourseId

Enrolled(c) == {e \in enrollments : e[1] = c}

\* The stored enrollment_count (a value read in one statement and written in a
\* later one, courses/service.py:72) may lose increments to a concurrent enroll,
\* but it never counts more enrolments than the table holds, and a course with
\* an enrolment never shows zero.
CountBounds ==
    \A c \in CourseId :
        /\ enrollment_count[c] <= Cardinality(Enrolled(c))
        /\ Enrolled(c) # {} => enrollment_count[c] > 0

\* Two overlapping enrolments of one course are the only way to lose an
\* increment: otherwise enrollment_count is exact, whatever update_course and
\* delete_course do meanwhile and wherever requests fail.
SerialCountExact ==
    \A c \in CourseId \ raced : enrollment_count[c] = Cardinality(Enrolled(c))

\* No two rows of courses share a slug, although create_course tests for it in
\* a statement of its own (courses/service.py:88-90).
SlugUnique == \A c, d \in rows : slug[c] = slug[d] => c = d

\* A published course, and a course anybody is enrolled in, carries its date of
\* publication, whatever updates ran between the load and the write of enroll
\* and of update_course (courses/service.py:104-107).
PublicationDated ==
    \A c \in CourseId :
        status[c] = "published" \/ Enrolled(c) # {} => published_at[c]

\* No lock or unique-index wait of the catalogue lasts for ever: every request
\* ends, and with it its transaction.
RequestsEnd == \A r \in Req : req[r].pc # "idle" ~> req[r].pc = "idle"

\* docs/FE_HANDOFF.md:117 "`409` if already enrolled": a user who enrols twice
\* is told so, never served an internal error.  A failing server (Abort) aside.
DuplicateAnswered409 ==
    [][\A r \in Req : EnrollInsert(r) => reply'.code # 500]_vars
=============================================================================
