---------------------------- MODULE CoursesProofs ----------------------------
(***************************************************************************)
(* Proofs that the catalogue keeps its invariants for any number of        *)
(* courses, users, slugs and concurrent requests.                          *)
(***************************************************************************)
EXTENDS Courses, FiniteSetTheorems, TLAPS

\* The type invariant with the facts about the data that every part below needs.
Typed ==
    /\ TypeOK
    /\ IsFiniteSet(enrollments)

\* What the fields of a request in flight refer to.
WellFormed ==
    \A r \in Req :
        /\ req[r].pc # "idle" <=> req[r].op # "none"
        /\ req[r].op = "enroll" => req[r].user \in User /\ req[r].course \in rows
        /\ req[r].op \in {"update", "delete"} => req[r].course \in rows
        /\ req[r].op = "create" =>
             /\ req[r].slug \in Slug
             /\ req[r].course \in CourseId \ rows
             /\ \A o \in Req \ {r} : req[o].course # req[r].course

\* Only existing courses have enrolments.
EnrolledExist == \A e \in enrollments : e[1] \in rows

\* An uncommitted enrolment is new, and the only one with its key.
InsertsNew ==
    \A r \in Req : \A c \in CourseId, u \in User :
        Inserted(req[r], c, u) =>
            /\ <<c, u>> \notin enrollments
            /\ \A o \in Req \ {r} : ~Inserted(req[o], c, u)

\* An uncommitted course has a slug of its own.
CreatesNew ==
    \A r \in Req : Creating(req[r]) =>
        /\ \A d \in rows : slug[d] # req[r].slug
        /\ \A o \in Req \ {r} : Creating(req[o]) => req[o].slug # req[r].slug

\* A counter read is a lower bound of the rows: rows are never removed.
LoadedCountBound ==
    \A r \in Req : req[r].op = "enroll" =>
        req[r].count <= Cardinality(Enrolled(req[r].course))

\* What a request has seen of publication still holds: dates are never cleared.
LoadedDates ==
    \A r \in Req :
        /\ req[r].op = "enroll" => published_at[req[r].course]
        /\ req[r].op = "update" /\ req[r].dated => published_at[req[r].course]

\* Without a race, the one enrolment in flight has the current counter.
LoadedCountExact ==
    \A r \in Req : req[r].op = "enroll" /\ req[r].course \notin raced =>
        /\ req[r].count = enrollment_count[req[r].course]
        /\ \A o \in Req \ {r} : ~(req[o].op = "enroll"
                                  /\ req[o].course = req[r].course)

\* The inductive invariant.
IInv ==
    /\ Typed /\ WellFormed /\ EnrolledExist
    /\ InsertsNew /\ CreatesNew
    /\ LoadedCountBound /\ LoadedDates /\ LoadedCountExact
    /\ CountBounds /\ SerialCountExact /\ SlugUnique /\ PublicationDated
-----------------------------------------------------------------------------

\* The catalogue starts in a state of the inductive invariant.
LEMMA InitInv == Init => IInv
<1> SUFFICES ASSUME Init PROVE IInv
    OBVIOUS
<1> USE SeedAssumption, NobodyAssumption DEF Init
<1>1. Typed
    BY FS_EmptySet DEF Typed, TypeOK, Request, Idle, Reply, Silent, Op, Pc, Status
<1>2. WellFormed
    BY DEF WellFormed, Idle
<1>3. EnrolledExist /\ InsertsNew /\ CreatesNew
    BY DEF EnrolledExist, InsertsNew, CreatesNew, Inserted, Creating, Idle
<1>4. LoadedCountBound /\ LoadedDates /\ LoadedCountExact
    BY DEF LoadedCountBound, LoadedDates, LoadedCountExact, Idle
<1>5. \A c \in CourseId : Enrolled(c) = {}
    BY DEF Enrolled
<1>6. CountBounds /\ SerialCountExact
    BY <1>5, FS_EmptySet DEF CountBounds, SerialCountExact
<1>7. SlugUnique /\ PublicationDated
    BY <1>5 DEF SlugUnique, PublicationDated
<1>8. QED
    BY <1>1, <1>2, <1>3, <1>4, <1>6, <1>7 DEF IInv

\* A step that changes no row and no request keeps the invariant.
LEMMA QuietStep ==
    ASSUME IInv, UNCHANGED <<table, req, raced>>, reply' \in Reply
    PROVE  IInv'
<1> USE DEF table
<1>1. Typed'
    BY DEF IInv, Typed, TypeOK
<1>2. \A c \in CourseId : Enrolled(c)' = Enrolled(c)
    BY DEF Enrolled
<1>3. WellFormed' /\ EnrolledExist' /\ InsertsNew' /\ CreatesNew'
    BY DEF IInv, WellFormed, EnrolledExist, InsertsNew, CreatesNew, Inserted,
           Creating
<1>4. LoadedCountBound' /\ LoadedDates' /\ LoadedCountExact'
    BY DEF IInv, LoadedCountBound, LoadedDates, LoadedCountExact, Enrolled
<1>5. CountBounds' /\ SerialCountExact' /\ SlugUnique' /\ PublicationDated'
    BY DEF IInv, CountBounds, SerialCountExact, SlugUnique, PublicationDated,
           Enrolled
<1>6. QED
    BY <1>1, <1>3, <1>4, <1>5 DEF IInv

\* A request that ends without a commit keeps the invariant.
LEMMA ResetStep ==
    ASSUME IInv, NEW r \in Req, req' = [req EXCEPT ![r] = Idle],
           UNCHANGED <<table, raced>>, reply' \in Reply
    PROVE  IInv'
<1> USE DEF table
<1>0. Idle \in Request
    BY DEF Idle, Request, Op, Pc, Status
<1>1. Typed'
    BY <1>0 DEF IInv, Typed, TypeOK
<1>a. /\ req'[r] = Idle
      /\ \A o \in Req \ {r} : req'[o] = req[o]
    BY DEF IInv, Typed, TypeOK
<1>3. WellFormed'
    BY <1>a, NobodyAssumption DEF IInv, WellFormed, Idle
<1>4. EnrolledExist' /\ InsertsNew' /\ CreatesNew'
    BY <1>a DEF IInv, EnrolledExist, InsertsNew, CreatesNew, Inserted,
           Creating, Idle
<1>5. LoadedCountBound' /\ LoadedDates' /\ LoadedCountExact'
    BY <1>a DEF IInv, LoadedCountBound, LoadedDates, LoadedCountExact, Enrolled,
           Idle
<1>6. CountBounds' /\ SerialCountExact' /\ SlugUnique' /\ PublicationDated'
    BY DEF IInv, CountBounds, SerialCountExact, SlugUnique, PublicationDated,
           Enrolled
<1>7. QED
    BY <1>1, <1>3, <1>4, <1>5, <1>6 DEF IInv

\* A request that moves on to its next statement without having inserted
\* anything keeps the invariant.
LEMMA MoveStep ==
    ASSUME IInv, NEW r \in Req, NEW pc \in Pc \ {"idle"},
           req[r].pc # "idle",
           req' = [req EXCEPT ![r].pc = pc],
           Creating(req'[r]) => Creating(req[r]),
           \A c \in CourseId, u \in User :
               Inserted(req'[r], c, u) => Inserted(req[r], c, u),
           UNCHANGED <<table, raced>>, reply' \in Reply
    PROVE  IInv'
<1> USE DEF table
<1>1. /\ req' \in [Req -> Request]
      /\ req'[r] = [req[r] EXCEPT !.pc = pc]
      /\ \A o \in Req \ {r} : req'[o] = req[o]
    BY DEF IInv, Typed, TypeOK, Request
<1>2. \A o \in Req : /\ req'[o].op = req[o].op /\ req'[o].course = req[o].course
                     /\ req'[o].user = req[o].user /\ req'[o].slug = req[o].slug
                     /\ req'[o].dated = req[o].dated
                     /\ req'[o].count = req[o].count
                     /\ req'[o].pc # "idle" <=> req[o].pc # "idle"
    BY <1>1 DEF IInv, Typed, TypeOK, Request
<1>3. Typed'
    BY <1>1 DEF IInv, Typed, TypeOK
<1>4. WellFormed' /\ EnrolledExist'
    BY <1>2 DEF IInv, WellFormed, EnrolledExist
<1>5. InsertsNew'
  <2>1. \A o \in Req : \A c \in CourseId, u \in User :
            Inserted(req'[o], c, u) => Inserted(req[o], c, u)
    BY <1>1
  <2>2. QED
    BY <2>1 DEF IInv, InsertsNew, Inserted
<1>6. CreatesNew'
  <2>1. \A o \in Req : Creating(req'[o]) => Creating(req[o])
    BY <1>1
  <2>2. QED
    BY <1>2, <2>1 DEF IInv, CreatesNew, Creating
<1>7. LoadedCountBound' /\ LoadedDates' /\ LoadedCountExact'
    BY <1>2 DEF IInv, LoadedCountBound, LoadedDates, LoadedCountExact, Enrolled
<1>8. CountBounds' /\ SerialCountExact' /\ SlugUnique' /\ PublicationDated'
    BY DEF IInv, CountBounds, SerialCountExact, SlugUnique, PublicationDated,
           Enrolled
<1>9. QED
    BY <1>3, <1>4, <1>5, <1>6, <1>7, <1>8 DEF IInv

\* The statements that only move on.
LEMMA SmallSteps ==
    ASSUME IInv, NEW r \in Req,
           EnrollCheck(r) \/ EnrollWrite(r) \/ AdminWrite(r) \/ Publish(r)
             \/ Respond(r) \/ Abort(r)
    PROVE  IInv'
<1> USE DEF Reply, Silent, Op, Pc
<1>0. req \in [Req -> Request]
    BY DEF IInv, Typed, TypeOK
<1>1. CASE EnrollCheck(r)
  <2>1. CASE Fail(r, 409)
    BY <2>1, <1>0, ResetStep DEF Fail, Request
  <2>2. CASE Goto(r, "insert") /\ UNCHANGED <<table, raced>>
    BY <2>2, <1>0, <1>1, MoveStep DEF Goto, EnrollCheck, Request, Creating, Inserted
  <2>3. QED
    BY <1>1, <2>1, <2>2 DEF EnrollCheck
<1>2. CASE EnrollWrite(r)
    BY <1>2, <1>0, MoveStep DEF Goto, EnrollWrite, Request, Creating, Inserted
<1>3. CASE AdminWrite(r)
    BY <1>3, <1>0, MoveStep DEF Goto, AdminWrite, Request, Creating, Inserted
<1>4. CASE Publish(r)
    BY <1>4, <1>0, MoveStep DEF Goto, Publish, Request, Creating, Inserted
<1>5. CASE Respond(r)
  <2>1. reply' \in Reply
    BY <1>5, <1>0 DEF Respond, Request
  <2>2. /\ req[r].pc = "respond" /\ req' = [req EXCEPT ![r].pc = "commit"]
        /\ UNCHANGED <<table, raced>>
    BY <1>5 DEF Respond
  <2>3. /\ Creating(req'[r]) => Creating(req[r])
        /\ \A c \in CourseId, u \in User :
               Inserted(req'[r], c, u) => Inserted(req[r], c, u)
    BY <2>2, <1>0 DEF Request, Creating, Inserted
  <2> HIDE DEF Reply
  <2>4. QED
    BY <2>1, <2>2, <2>3, MoveStep
<1>6. CASE Abort(r)
  <2>1. reply' \in Reply
    <3>1. req[r].op \in Op
      BY <1>0 DEF Request
    <3>2. QED
      BY <1>6, <3>1 DEF Abort
  <2>2. req' = [req EXCEPT ![r] = Idle] /\ UNCHANGED <<table, raced>>
    BY <1>6 DEF Abort
  <2>3. QED
    BY <2>1, <2>2, ResetStep
<1>7. QED
    BY <1>1, <1>2, <1>3, <1>4, <1>5, <1>6

\* The insert of an enrolment: the unique index makes its key new.
LEMMA EnrollInsertStep ==
    ASSUME IInv, NEW r \in Req, EnrollInsert(r)
    PROVE  IInv'
<1>0. req \in [Req -> Request] /\ req[r].op = "enroll" /\ req[r].pc = "insert"
    BY DEF IInv, Typed, TypeOK, EnrollInsert
<1>1. CASE Fail(r, 500)
    BY <1>0, <1>1, ResetStep DEF Fail, Request, Reply, Op
<1>2. CASE /\ <<req[r].course, req[r].user>> \notin enrollments
           /\ Goto(r, "write") /\ UNCHANGED <<table, raced>>
  <2> USE DEF table
  <2>1. /\ req' \in [Req -> Request]
        /\ req'[r] = [req[r] EXCEPT !.pc = "write"]
        /\ \A o \in Req \ {r} : req'[o] = req[o]
    BY <1>0, <1>2 DEF Goto, Request, Pc
  <2>2. \A o \in Req : /\ req'[o].op = req[o].op
                       /\ req'[o].course = req[o].course
                       /\ req'[o].user = req[o].user
                       /\ req'[o].slug = req[o].slug
                       /\ req'[o].dated = req[o].dated
                       /\ req'[o].count = req[o].count
                       /\ req'[o].pc # "idle" <=> req[o].pc # "idle"
    BY <1>0, <2>1 DEF Request
  <2>3. Typed'
    BY <1>2, <2>1 DEF IInv, Typed, TypeOK, Goto, Reply, Silent, Op
  <2>4. WellFormed' /\ EnrolledExist'
    BY <1>2, <2>2 DEF IInv, WellFormed, EnrolledExist
  <2>5. InsertsNew'
    <3>1. \A o \in Req \ {r} : ~Inserted(req[o], req[r].course, req[r].user)
      BY DEF EnrollInsert
    <3>2. \A c \in CourseId, u \in User :
             Inserted(req'[r], c, u) => c = req[r].course /\ u = req[r].user
      BY <2>2 DEF Inserted
    <3>3. QED
      BY <1>2, <2>1, <3>1, <3>2 DEF IInv, InsertsNew
  <2>6. CreatesNew'
    <3>1. \A o \in Req : Creating(req'[o]) => Creating(req[o])
      BY <1>0, <2>1, <2>2 DEF Creating
    <3>2. QED
      BY <1>2, <2>2, <3>1 DEF IInv, CreatesNew
  <2>7. LoadedCountBound' /\ LoadedDates' /\ LoadedCountExact'
    BY <1>2, <2>2 DEF IInv, LoadedCountBound, LoadedDates, LoadedCountExact,
                      Enrolled
  <2>8. CountBounds' /\ SerialCountExact' /\ SlugUnique' /\ PublicationDated'
    BY <1>2 DEF IInv, CountBounds, SerialCountExact, SlugUnique,
                PublicationDated, Enrolled
  <2>9. QED
    BY <2>3, <2>4, <2>5, <2>6, <2>7, <2>8 DEF IInv
<1>3. QED
    BY <1>1, <1>2 DEF EnrollInsert

\* The insert of a course: the unique index makes its slug new.
LEMMA CreateInsertStep ==
    ASSUME IInv, NEW r \in Req, CreateInsert(r)
    PROVE  IInv'
<1>0. req \in [Req -> Request] /\ req[r].op = "create" /\ req[r].pc = "insert"
    BY DEF IInv, Typed, TypeOK, CreateInsert
<1>1. CASE Fail(r, 500)
    BY <1>0, <1>1, ResetStep DEF Fail, Request, Reply, Op
<1>2. CASE /\ \A d \in rows : slug[d] # req[r].slug
           /\ Goto(r, "publish") /\ UNCHANGED <<table, raced>>
  <2> USE DEF table
  <2>1. /\ req' \in [Req -> Request]
        /\ req'[r] = [req[r] EXCEPT !.pc = "publish"]
        /\ \A o \in Req \ {r} : req'[o] = req[o]
    BY <1>0, <1>2 DEF Goto, Request, Pc
  <2>2. \A o \in Req : /\ req'[o].op = req[o].op
                       /\ req'[o].course = req[o].course
                       /\ req'[o].user = req[o].user
                       /\ req'[o].slug = req[o].slug
                       /\ req'[o].dated = req[o].dated
                       /\ req'[o].count = req[o].count
                       /\ req'[o].pc # "idle" <=> req[o].pc # "idle"
    BY <1>0, <2>1 DEF Request
  <2>3. Typed'
    BY <1>2, <2>1 DEF IInv, Typed, TypeOK, Goto, Reply, Silent, Op
  <2>4. WellFormed' /\ EnrolledExist'
    BY <1>2, <2>2 DEF IInv, WellFormed, EnrolledExist
  <2>5. InsertsNew'
    <3>1. \A o \in Req : \A c \in CourseId, u \in User :
             Inserted(req'[o], c, u) => Inserted(req[o], c, u)
      BY <1>0, <2>1, <2>2 DEF Inserted
    <3>2. QED
      BY <1>2, <3>1 DEF IInv, InsertsNew
  <2>6. CreatesNew'
    <3>1. \A o \in Req \ {r} : Creating(req[o]) => req[o].slug # req[r].slug
      BY DEF CreateInsert
    <3>2. \A o \in Req \ {r} : Creating(req'[o]) <=> Creating(req[o])
      BY <2>1
    <3>3. QED
      BY <1>2, <2>2, <3>1, <3>2 DEF IInv, CreatesNew
  <2>7. LoadedCountBound' /\ LoadedDates' /\ LoadedCountExact'
    BY <1>2, <2>2 DEF IInv, LoadedCountBound, LoadedDates, LoadedCountExact,
                      Enrolled
  <2>8. CountBounds' /\ SerialCountExact' /\ SlugUnique' /\ PublicationDated'
    BY <1>2 DEF IInv, CountBounds, SerialCountExact, SlugUnique,
                PublicationDated, Enrolled
  <2>9. QED
    BY <2>3, <2>4, <2>5, <2>6, <2>7, <2>8 DEF IInv
<1>3. QED
    BY <1>1, <1>2 DEF CreateInsert

\* A request that begins with a course it has found keeps the invariant.
LEMMA BeginStep ==
    ASSUME IInv, NEW r \in Req, req[r].pc = "idle", NEW q \in Request,
           q.op \in {"update", "delete"}, q.pc = "write", q.course \in rows,
           q.op = "update" => q.dated = published_at[q.course],
           req' = [req EXCEPT ![r] = q],
           UNCHANGED <<table, raced>>, reply' \in Reply
    PROVE  IInv'
<1> USE DEF table
<1>1. /\ req' \in [Req -> Request]
      /\ req'[r] = q /\ \A o \in Req \ {r} : req'[o] = req[o]
    BY DEF IInv, Typed, TypeOK
<1>2. Typed'
    BY <1>1 DEF IInv, Typed, TypeOK
<1>3. WellFormed' /\ EnrolledExist'
    BY <1>1 DEF IInv, WellFormed, EnrolledExist
<1>4. InsertsNew' /\ CreatesNew'
    BY <1>1 DEF IInv, InsertsNew, CreatesNew, Inserted, Creating
<1>5. LoadedCountBound' /\ LoadedDates' /\ LoadedCountExact'
    BY <1>1 DEF IInv, LoadedCountBound, LoadedDates, LoadedCountExact, Enrolled
<1>6. CountBounds' /\ SerialCountExact' /\ SlugUnique' /\ PublicationDated'
    BY DEF IInv, CountBounds, SerialCountExact, SlugUnique, PublicationDated,
           Enrolled
<1>7. QED
    BY <1>2, <1>3, <1>4, <1>5, <1>6 DEF IInv

\* update_course and delete_course load their course.
LEMMA LoadStep ==
    ASSUME IInv, NEW r \in Req, NEW c \in CourseId,
           DeleteLoad(r, c) \/ \E new \in Status : UpdateLoad(r, c, new)
    PROVE  IInv'
<1> USE DEF Reply, Silent
<1>0. TypeOK
    BY DEF IInv, Typed
<1>1. CASE DeleteLoad(r, c)
  <2> DEFINE q == [op |-> "delete", pc |-> "write", course |-> c,
                   user |-> Nobody, slug |-> Nobody, status |-> "draft",
                   dated |-> FALSE, count |-> 0, change |-> "draft"]
  <2>1. q \in Request
    BY DEF Request, Op, Pc, Status
  <2>3. CASE Refuse("delete", 404)
    BY <2>3, QuietStep DEF Refuse, Op
  <2>4. CASE /\ Visible(c) /\ req' = [req EXCEPT ![r] = q]
             /\ reply' = Silent /\ UNCHANGED <<table, raced>>
    <3>1. c \in rows /\ req[r].pc = "idle" /\ reply' \in Reply
      BY <1>1, <2>4 DEF Visible, DeleteLoad, Load, Op
    <3>2. q.op = "delete" /\ q.pc = "write" /\ q.course = c
      OBVIOUS
    <3> HIDE DEF q
    <3>3. QED
      BY <2>1, <2>4, <3>1, <3>2, BeginStep
  <2>5. QED
    BY <1>1, <2>3, <2>4 DEF DeleteLoad, Load
<1>2. ASSUME NEW new \in Status, UpdateLoad(r, c, new) PROVE IInv'
  <2> DEFINE q == [op |-> "update", pc |-> "write", course |-> c,
                   user |-> Nobody, slug |-> Nobody, status |-> status[c],
                   dated |-> published_at[c], count |-> enrollment_count[c],
                   change |-> new]
  <2>1. q \in Request
    BY <1>0 DEF TypeOK, Request, Op, Pc, Status
  <2>3. CASE Refuse("update", 404)
    BY <2>3, QuietStep DEF Refuse, Op
  <2>4. CASE /\ Visible(c) /\ req' = [req EXCEPT ![r] = q]
             /\ reply' = Silent /\ UNCHANGED <<table, raced>>
    <3>1. c \in rows /\ req[r].pc = "idle" /\ reply' \in Reply
      BY <1>2, <2>4 DEF Visible, UpdateLoad, Load, Op
    <3>2. /\ q.op = "update" /\ q.pc = "write" /\ q.course = c
          /\ q.dated = published_at[c]
      OBVIOUS
    <3> HIDE DEF q
    <3>3. QED
      BY <2>1, <2>4, <3>1, <3>2, BeginStep
  <2>5. QED
    BY <1>2, <2>3, <2>4 DEF UpdateLoad, Load
<1>3. QED
    BY <1>1, <1>2

\* enroll reads its course: its counter and its publication are current.
LEMMA EnrollLoadStep ==
    ASSUME IInv, NEW r \in Req, NEW c \in CourseId, NEW u \in User,
           EnrollLoad(r, c, u)
    PROVE  IInv'
<1>0. TypeOK /\ reply' \in Reply
    BY DEF IInv, Typed, EnrollLoad, Refuse, Reply, Op, Silent
<1>1. CASE Refuse("enroll", 404) \/ Refuse("enroll", 422)
    BY <1>0, <1>1, QuietStep DEF Refuse
<1>2. CASE ~(Refuse("enroll", 404) \/ Refuse("enroll", 422))
  <2> DEFINE q == [op |-> "enroll", pc |-> "check", course |-> c, user |-> u,
                   slug |-> Nobody, status |-> "draft", dated |-> FALSE,
                   count |-> enrollment_count[c], change |-> "draft"]
  <2> USE DEF table
  <2>1. q \in Request
    BY <1>0 DEF TypeOK, Request, Op, Pc, Status
  <2>2. /\ q.op = "enroll" /\ q.pc = "check" /\ q.course = c /\ q.user = u
        /\ q.count = enrollment_count[c] /\ q.slug = Nobody
    OBVIOUS
  <2>3. /\ req[r].pc = "idle" /\ c \in rows /\ status[c] = "published"
        /\ req' = [req EXCEPT ![r] = q]
        /\ UNCHANGED table
        /\ raced' = IF OtherEnrollment(r, c) THEN raced \cup {c} ELSE raced
    BY <1>2 DEF EnrollLoad, Visible
  <2> HIDE DEF q
  <2>4. /\ req' \in [Req -> Request]
        /\ req'[r] = q /\ \A o \in Req \ {r} : req'[o] = req[o]
    BY <1>0, <2>1, <2>3 DEF TypeOK
  <2>5. Typed'
    BY <1>0, <2>3, <2>4 DEF IInv, Typed, TypeOK
  <2>6. WellFormed' /\ EnrolledExist'
    BY <2>2, <2>3, <2>4, NobodyAssumption DEF IInv, WellFormed, EnrolledExist
  <2>7. InsertsNew' /\ CreatesNew'
    BY <2>2, <2>3, <2>4 DEF IInv, InsertsNew, CreatesNew, Inserted, Creating
  <2>8. LoadedCountBound' /\ LoadedDates'
    BY <2>2, <2>3, <2>4 DEF IInv, LoadedCountBound, LoadedDates, CountBounds,
                            PublicationDated, Enrolled
  <2>9. LoadedCountExact'
    BY <2>2, <2>3, <2>4 DEF IInv, LoadedCountExact, OtherEnrollment
  <2>10. CountBounds' /\ SlugUnique' /\ PublicationDated'
    BY <2>3 DEF IInv, CountBounds, SlugUnique, PublicationDated, Enrolled
  <2>11. SerialCountExact'
    BY <2>3 DEF IInv, SerialCountExact, Enrolled
  <2>12. QED
    BY <2>5, <2>6, <2>7, <2>8, <2>9, <2>10, <2>11 DEF IInv
<1>3. QED
    BY <1>1, <1>2

\* create_course picks a fresh id.
LEMMA CreateCheckStep ==
    ASSUME IInv, NEW r \in Req, NEW c \in CourseId, NEW s \in Slug,
           CreateCheck(r, c, s)
    PROVE  IInv'
<1>0. TypeOK /\ reply' \in Reply
    BY DEF IInv, Typed, CreateCheck, Refuse, Reply, Op, Silent
<1>1. CASE Refuse("create", 409)
    BY <1>0, <1>1, QuietStep DEF Refuse
<1>2. CASE ~Refuse("create", 409)
  <2> DEFINE q == [op |-> "create", pc |-> "insert", course |-> c,
                   user |-> Nobody, slug |-> s, status |-> "draft",
                   dated |-> FALSE, count |-> 0, change |-> "draft"]
  <2> USE DEF table
  <2>1. q \in Request
    BY DEF Request, Op, Pc, Status
  <2>2. /\ q.op = "create" /\ q.pc = "insert" /\ q.course = c /\ q.slug = s
    OBVIOUS
  <2>3. /\ req[r].pc = "idle" /\ c \notin rows
        /\ \A o \in Req : req[o].course # c
        /\ req' = [req EXCEPT ![r] = q]
        /\ UNCHANGED <<table, raced>>
    BY <1>2 DEF CreateCheck
  <2> HIDE DEF q
  <2>4. /\ req' \in [Req -> Request]
        /\ req'[r] = q /\ \A o \in Req \ {r} : req'[o] = req[o]
    BY <1>0, <2>1, <2>3 DEF TypeOK
  <2>5. Typed'
    BY <1>0, <2>3, <2>4 DEF IInv, Typed, TypeOK
  <2>6. WellFormed' /\ EnrolledExist'
    BY <2>2, <2>3, <2>4 DEF IInv, WellFormed, EnrolledExist
  <2>7. InsertsNew' /\ CreatesNew'
    BY <2>2, <2>3, <2>4 DEF IInv, InsertsNew, CreatesNew, Inserted, Creating
  <2>8. LoadedCountBound' /\ LoadedDates' /\ LoadedCountExact'
    BY <2>2, <2>3, <2>4 DEF IInv, LoadedCountBound, LoadedDates,
                            LoadedCountExact, Enrolled
  <2>9. CountBounds' /\ SerialCountExact' /\ SlugUnique' /\ PublicationDated'
    BY <2>3 DEF IInv, CountBounds, SerialCountExact, SlugUnique,
                PublicationDated, Enrolled
  <2>10. QED
    BY <2>5, <2>6, <2>7, <2>8, <2>9 DEF IInv
<1>3. QED
    BY <1>1, <1>2

\* The commit of an enrolment: one row more, and the loaded counter plus one.
LEMMA CommitEnrollStep ==
    ASSUME IInv, NEW r \in Req, Commit(r), req[r].op = "enroll"
    PROVE  IInv'
<1>a. /\ TypeOK /\ IsFiniteSet(enrollments) /\ req[r].course \in rows
      /\ req[r].user \in User /\ req[r].count \in Nat
    BY DEF IInv, Typed, TypeOK, WellFormed, Request
<1>b. PICK c \in CourseId, u \in User, n \in Nat :
        c = req[r].course /\ u = req[r].user /\ n = req[r].count
    BY <1>a DEF TypeOK
<1>0. TypeOK /\ IsFiniteSet(enrollments) /\ c \in rows
    BY <1>a, <1>b
<1>1. /\ enrollments' = enrollments \cup {<<c, u>>}
      /\ enrollment_count' = [enrollment_count EXCEPT ![c] = n + 1]
      /\ UNCHANGED <<rows, slug, status, published_at, deleted_at, raced>>
      /\ req' = [req EXCEPT ![r] = Idle] /\ reply' = Silent
      /\ req[r].pc = "commit"
    BY <1>b DEF Commit, CommitEnroll
<1>2. /\ <<c, u>> \notin enrollments
      /\ \A o \in Req \ {r} : ~Inserted(req[o], c, u)
    BY <1>b, <1>0, <1>1 DEF IInv, InsertsNew, Inserted
<1>3. /\ n <= Cardinality(Enrolled(c)) /\ published_at[c]
      /\ c \notin raced => /\ n = enrollment_count[c]
                          /\ \A o \in Req \ {r} :
                                ~(req[o].op = "enroll" /\ req[o].course = c)
    BY <1>b, <1>0 DEF IInv, LoadedCountBound, LoadedDates, LoadedCountExact
<1>4. Idle \in Request /\ Silent \in Reply
    BY DEF Idle, Request, Silent, Reply, Op, Pc, Status
<1>5. /\ req'[r] = Idle /\ \A o \in Req \ {r} : req'[o] = req[o]
    BY <1>0, <1>1 DEF TypeOK
<1>6. Typed'
  <2>1. IsFiniteSet(enrollments')
    BY <1>0, <1>1, FS_AddElement
  <2>2. QED
    BY <1>0, <1>1, <1>4, <2>1 DEF Typed, TypeOK
<1>7. \A d \in CourseId : IsFiniteSet(Enrolled(d)) /\ Cardinality(Enrolled(d)) \in Nat
    BY <1>0, FS_Subset, FS_CardinalityType DEF Enrolled
<1>8. \A d \in CourseId \ {c} : Enrolled(d)' = Enrolled(d)
    BY <1>1 DEF Enrolled
<1>9. /\ Cardinality(Enrolled(c)') = Cardinality(Enrolled(c)) + 1
      /\ Enrolled(c)' # {}
  <2>1. Enrolled(c)' = Enrolled(c) \cup {<<c, u>>} /\ <<c, u>> \notin Enrolled(c)
    BY <1>1, <1>2 DEF Enrolled
  <2>2. QED
    BY <1>0, <1>7, <2>1, FS_AddElement
<1>10. WellFormed'
    BY <1>1, <1>5, NobodyAssumption DEF IInv, WellFormed, Idle
<1>11. EnrolledExist'
    BY <1>0, <1>1 DEF IInv, EnrolledExist
<1>12. InsertsNew'
    BY <1>1, <1>2, <1>5 DEF IInv, InsertsNew, Inserted, Idle
<1>13. CreatesNew'
    BY <1>1, <1>5 DEF IInv, CreatesNew, Creating, Idle
<1>14. LoadedCountBound'
  <2>1. \A d \in CourseId : Cardinality(Enrolled(d)) <= Cardinality(Enrolled(d)')
    BY <1>7, <1>8, <1>9
  <2>2. ASSUME NEW o \in Req \ {r}, req[o].op = "enroll"
        PROVE  req[o].count <= Cardinality(Enrolled(req[o].course)')
    <3>1. /\ req[o].course \in CourseId /\ req[o].count \in Nat
          /\ req[o].count <= Cardinality(Enrolled(req[o].course))
      BY <1>0, <2>2 DEF IInv, WellFormed, TypeOK, Request, LoadedCountBound
    <3>2. PICK d \in CourseId : d = req[o].course
      BY <3>1
    <3>3. d = req'[o].course
      BY <1>5, <3>2
    <3>4. /\ Cardinality(Enrolled(d)') \in Nat
      BY <1>7, <1>8, <1>9
    <3>5. req[o].count <= Cardinality(Enrolled(d)')
      BY <1>7, <2>1, <3>1, <3>2, <3>4
    <3>6. QED
      BY <3>3, <3>5
  <2>3. QED
    BY <1>5, <2>2 DEF LoadedCountBound, Idle
<1>15. LoadedDates'
    BY <1>1, <1>5 DEF IInv, LoadedDates, Idle
<1>16. LoadedCountExact'
    BY <1>0, <1>1, <1>3, <1>5 DEF IInv, LoadedCountExact, WellFormed, TypeOK, Idle
<1>17. CountBounds'
  <2> SUFFICES ASSUME NEW d \in CourseId
               PROVE  /\ enrollment_count'[d] <= Cardinality(Enrolled(d)')
                      /\ Enrolled(d)' # {} => enrollment_count'[d] > 0
    BY DEF CountBounds
  <2>1. CASE d = c
    BY <1>0, <1>1, <1>3, <1>7, <1>9, <2>1 DEF TypeOK
  <2>2. CASE d # c
    BY <1>0, <1>1, <1>8, <2>2 DEF TypeOK, IInv, CountBounds
  <2>3. QED
    BY <2>1, <2>2
<1>18. SerialCountExact'
  <2> SUFFICES ASSUME NEW d \in CourseId \ raced
               PROVE  enrollment_count'[d] = Cardinality(Enrolled(d)')
    BY <1>1 DEF SerialCountExact
  <2>0. enrollment_count[d] = Cardinality(Enrolled(d))
    BY DEF IInv, SerialCountExact
  <2>1. CASE d = c
    BY <1>0, <1>1, <1>3, <1>9, <2>0, <2>1 DEF TypeOK
  <2>2. CASE d # c
    BY <1>0, <1>1, <1>8, <2>0, <2>2 DEF TypeOK
  <2>3. QED
    BY <2>1, <2>2
<1>19. SlugUnique'
    BY <1>1 DEF IInv, SlugUnique
<1>20. PublicationDated'
    BY <1>1, <1>3, <1>8 DEF IInv, PublicationDated
<1>21. QED
    BY <1>6, <1>10, <1>11, <1>12, <1>13, <1>14, <1>15, <1>16, <1>17, <1>18,
       <1>19, <1>20 DEF IInv

\* The commit of a new course: its id has no enrolment and no request yet.
LEMMA CommitCreateStep ==
    ASSUME IInv, NEW r \in Req, Commit(r), req[r].op = "create"
    PROVE  IInv'
<1>a. /\ TypeOK /\ IsFiniteSet(enrollments)
      /\ req[r].course \in CourseId \ rows /\ req[r].slug \in Slug
      /\ \A o \in Req \ {r} : req[o].course # req[r].course
    BY DEF IInv, Typed, WellFormed
<1>b. PICK c \in CourseId, s \in Slug : c = req[r].course /\ s = req[r].slug
    BY <1>a
<1>0. /\ TypeOK /\ IsFiniteSet(enrollments) /\ c \notin rows
      /\ \A o \in Req \ {r} : req[o].course # c
    BY <1>a, <1>b
<1>1. /\ rows' = rows \cup {c}
      /\ slug' = [slug EXCEPT ![c] = s]
      /\ status' = [status EXCEPT ![c] = "draft"]
      /\ published_at' = [published_at EXCEPT ![c] = FALSE]
      /\ deleted_at' = [deleted_at EXCEPT ![c] = FALSE]
      /\ enrollment_count' = [enrollment_count EXCEPT ![c] = 0]
      /\ UNCHANGED <<enrollments, raced>>
      /\ req' = [req EXCEPT ![r] = Idle] /\ reply' = Silent
      /\ req[r].pc = "commit"
    BY <1>b DEF Commit, CommitCreate
<1>2. /\ \A d \in rows : slug[d] # s
      /\ \A o \in Req \ {r} : Creating(req[o]) => req[o].slug # s
    BY <1>b, <1>1 DEF IInv, CreatesNew, Creating
<1>4. Idle \in Request /\ Silent \in Reply
    BY DEF Idle, Request, Silent, Reply, Op, Pc, Status
<1>5. /\ req'[r] = Idle /\ \A o \in Req \ {r} : req'[o] = req[o]
    BY <1>0, <1>1 DEF TypeOK
<1>6. Typed'
    BY <1>0, <1>1, <1>4 DEF Typed, TypeOK, Status
<1>7. \A d \in CourseId : Enrolled(d)' = Enrolled(d)
    BY <1>1 DEF Enrolled
<1>8. Enrolled(c) = {} /\ Cardinality(Enrolled(c)) = 0
  <2>1. Enrolled(c) = {}
    BY <1>0 DEF IInv, EnrolledExist, Enrolled
  <2>2. QED
    BY <2>1, FS_EmptySet
<1>9. WellFormed'
    BY <1>0, <1>1, <1>5, NobodyAssumption DEF IInv, WellFormed, Idle
<1>10. EnrolledExist' /\ InsertsNew'
    BY <1>1, <1>5 DEF IInv, EnrolledExist, InsertsNew, Inserted, Idle
<1>11. CreatesNew'
    BY <1>0, <1>1, <1>2, <1>5 DEF IInv, CreatesNew, Creating, Idle, TypeOK
<1>12. LoadedCountBound'
    BY <1>1, <1>5 DEF IInv, LoadedCountBound, Enrolled, Idle
<1>13. LoadedDates'
    BY <1>0, <1>1, <1>5 DEF IInv, LoadedDates, WellFormed, TypeOK, Idle
<1>14. LoadedCountExact'
    BY <1>0, <1>1, <1>5 DEF IInv, LoadedCountExact, WellFormed, TypeOK, Idle
<1>15. CountBounds' /\ SerialCountExact'
  <2>1. /\ enrollment_count'[c] = 0
        /\ \A d \in CourseId \ {c} : enrollment_count'[d] = enrollment_count[d]
    BY <1>0, <1>1 DEF TypeOK
  <2>2. Enrolled(c)' = {} /\ Cardinality(Enrolled(c)') = 0
    BY <1>7, <1>8
  <2>3. CountBounds'
    BY <1>7, <2>1, <2>2 DEF IInv, CountBounds
  <2>4. SerialCountExact'
    BY <1>1, <1>7, <2>1, <2>2 DEF IInv, SerialCountExact
  <2>5. QED
    BY <2>3, <2>4
<1>16. SlugUnique'
    BY <1>0, <1>1, <1>2 DEF IInv, SlugUnique, TypeOK
<1>17. PublicationDated'
    BY <1>0, <1>1, <1>7, <1>8 DEF IInv, PublicationDated, TypeOK
<1>18. QED
    BY <1>6, <1>9, <1>10, <1>11, <1>12, <1>13, <1>14, <1>15, <1>16, <1>17
    DEF IInv

\* The commit of update_course and of delete_course: the counter stays, and a
\* course that becomes published is dated.
LEMMA CommitAdminStep ==
    ASSUME IInv, NEW r \in Req, Commit(r), req[r].op \in {"update", "delete"}
    PROVE  IInv'
<1>a. TypeOK /\ IsFiniteSet(enrollments) /\ req[r] \in Request
    BY DEF IInv, Typed, TypeOK
<1>b. req[r].course \in rows /\ rows \subseteq CourseId
    BY <1>a DEF IInv, WellFormed, TypeOK
<1>c. PICK c \in rows : c = req[r].course
    BY <1>b
<1>0. TypeOK /\ IsFiniteSet(enrollments) /\ c \in CourseId
    BY <1>a, <1>b
<1>1. /\ UNCHANGED <<rows, slug, enrollment_count, enrollments, raced>>
      /\ req' = [req EXCEPT ![r] = Idle] /\ reply' = Silent
    BY DEF Commit, CommitUpdate, CommitDelete
<1>2. /\ status' \in [CourseId -> Status]
      /\ published_at' \in [CourseId -> BOOLEAN]
      /\ deleted_at' \in [CourseId -> BOOLEAN]
      /\ \A d \in CourseId : published_at[d] => published_at'[d]
    BY <1>a, <1>0, <1>c DEF Commit, CommitUpdate, CommitDelete, TypeOK, Request
<1>3. \A d \in CourseId : status'[d] = "published" =>
          status[d] = "published" \/ published_at'[d]
  <2>1. CASE req[r].op = "delete"
    BY <2>1, <1>0 DEF Commit, CommitDelete
  <2>2. CASE req[r].op = "update"
    <3>1. req[r].dated => published_at[c]
      BY <1>c, <2>2 DEF IInv, LoadedDates
    <3>2. /\ status' = [status EXCEPT ![c] =
                IF req[r].change # req[r].status THEN req[r].change ELSE @]
          /\ published_at' = [published_at EXCEPT ![c] =
                @ \/ (req[r].change = "published" /\ ~req[r].dated)]
      BY <1>c, <2>2 DEF Commit, CommitUpdate
    <3>3. QED
      BY <1>0, <3>1, <3>2 DEF TypeOK
  <2>3. QED
    BY <2>1, <2>2
<1>4. Idle \in Request /\ Silent \in Reply
    BY DEF Idle, Request, Silent, Reply, Op, Pc, Status
<1>5. /\ req'[r] = Idle /\ \A o \in Req \ {r} : req'[o] = req[o]
    BY <1>0, <1>1 DEF TypeOK
<1>6. Typed'
    BY <1>0, <1>1, <1>2, <1>4 DEF Typed, TypeOK
<1>7. WellFormed' /\ EnrolledExist'
    BY <1>1, <1>5, NobodyAssumption DEF IInv, WellFormed, EnrolledExist, Idle
<1>8. InsertsNew' /\ CreatesNew'
    BY <1>1, <1>5 DEF IInv, InsertsNew, CreatesNew, Inserted, Creating, Idle
<1>9. LoadedCountBound' /\ LoadedCountExact'
    BY <1>1, <1>5 DEF IInv, LoadedCountBound, LoadedCountExact, Enrolled, Idle
<1>10. LoadedDates'
    BY <1>0, <1>1, <1>2, <1>5 DEF IInv, LoadedDates, WellFormed, TypeOK, Idle
<1>11. CountBounds' /\ SerialCountExact' /\ SlugUnique'
    BY <1>1 DEF IInv, CountBounds, SerialCountExact, SlugUnique, Enrolled
<1>12. PublicationDated'
    BY <1>1, <1>2, <1>3 DEF IInv, PublicationDated, Enrolled
<1>13. QED
    BY <1>6, <1>7, <1>8, <1>9, <1>10, <1>11, <1>12 DEF IInv

\* Every step keeps the inductive invariant.
LEMMA NextInv == IInv /\ [Next]_vars => IInv'
<1> SUFFICES ASSUME IInv, [Next]_vars PROVE IInv'
    OBVIOUS
<1>1. ASSUME NEW r \in Req, Commit(r) PROVE IInv'
    BY <1>1, CommitEnrollStep, CommitCreateStep, CommitAdminStep DEF Commit
<1>2. CASE UNCHANGED vars
  <2>1. UNCHANGED <<table, req, raced>> /\ reply' \in Reply
    BY <1>2 DEF vars, IInv, Typed, TypeOK
  <2>2. QED
    BY <2>1, QuietStep
<1>3. ASSUME NEW r \in Req, NEW c \in CourseId,
             DeleteLoad(r, c) \/ \E new \in Status : UpdateLoad(r, c, new)
      PROVE  IInv'
    BY <1>3, LoadStep
<1>4. QED
    BY <1>1, <1>2, <1>3, SmallSteps, EnrollInsertStep, CreateInsertStep,
       EnrollLoadStep, CreateCheckStep DEF Next

\* The inductive invariant holds of every behaviour.
THEOREM Invariance == Spec => []IInv
    BY InitInv, NextInv, PTL DEF Spec

\* Type correctness of the catalogue.
THEOREM TypeCorrect == Spec => []TypeOK
<1>1. IInv => TypeOK
    BY DEF IInv, Typed
<1>2. QED
    BY <1>1, Invariance, PTL

\* The enrolment counter never exceeds the enrolments and is not zero where
\* there are some, however many enrolments run at once.
THEOREM CounterBounded == Spec => []CountBounds
<1>1. IInv => CountBounds
    BY DEF IInv
<1>2. QED
    BY <1>1, Invariance, PTL

\* The counter is exact for a course no two enrolments of which overlapped.
THEOREM CounterExactWithoutRace == Spec => []SerialCountExact
<1>1. IInv => SerialCountExact
    BY DEF IInv
<1>2. QED
    BY <1>1, Invariance, PTL

\* Slugs stay unique under concurrent create_course.
THEOREM SlugsUnique == Spec => []SlugUnique
<1>1. IInv => SlugUnique
    BY DEF IInv
<1>2. QED
    BY <1>1, Invariance, PTL

\* Published courses and courses with enrolments are dated.
THEOREM Dated == Spec => []PublicationDated
<1>1. IInv => PublicationDated
    BY DEF IInv
<1>2. QED
    BY <1>1, Invariance, PTL
=============================================================================
