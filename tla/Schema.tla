------------------------------- MODULE Schema -------------------------------
(***************************************************************************)
(* The database schema and the statements that build it: the two Alembic   *)
(* migrations (alembic/versions) and the SQL files that scripts/dump_sql   *)
(* writes from the same models.                                            *)
(*                                                                         *)
(* A table is its name, the tables its foreign keys point to, the enum     *)
(* types its columns bring with them and whether it has a tenant_id; plain *)
(* columns, indexes and the ON DELETE rules are left out.  The statements  *)
(* about one table that follow each other (CREATE TYPE, CREATE TABLE and   *)
(* its indexes; ENABLE, FORCE and CREATE POLICY) are one statement here.   *)
(***************************************************************************)
EXTENDS Naturals, Sequences, SequencesExt

Row(name, tenant, references, types) ==
    [name |-> name, tenant |-> tenant, references |-> references, types |-> types]

-----------------------------------------------------------------------------
(* 0b3936dfb7ef: the tables in the order upgrade creates them               *)

PlatformTables == <<
    Row("modules", FALSE, {}, {}),
    Row("permissions", FALSE, {}, {}),
    Row("tenants", FALSE, {}, {"isolation_mode"})>>

TenantTables == <<
    Row("audit_logs", TRUE, {"tenants"}, {}),
    Row("categories", TRUE, {"categories", "tenants"}, {}),
    Row("roles", TRUE, {"tenants"}, {}),
    Row("tenant_modules", TRUE, {"modules", "tenants"}, {})>>

AccountTables == <<
    Row("users", TRUE, {"tenants"}, {}),
    Row("courses", TRUE, {"categories", "tenants"}, {"course_status", "course_level"}),
    Row("role_permissions", FALSE, {"permissions", "roles"}, {}),
    Row("user_roles", FALSE, {"roles", "users"}, {}),
    Row("user_sessions", TRUE, {"tenants", "users"}, {})>>

CourseTables == <<
    Row("assignments", TRUE, {"courses", "tenants"}, {"assignment_type"}),
    Row("course_enrollments", TRUE, {"courses", "tenants", "users"}, {"enrollment_status"}),
    Row("course_instructors", TRUE, {"courses", "tenants", "users"}, {})>>

ContentTables == <<
    Row("course_modules", TRUE, {"courses", "tenants"}, {}),
    Row("lessons", TRUE, {"courses", "course_modules", "tenants"}, {"lesson_type"}),
    Row("quizzes", TRUE, {"assignments", "tenants"}, {})>>

WorkTables == <<
    Row("submissions", TRUE, {"assignments", "tenants", "users"}, {"submission_status"}),
    Row("document_assets", TRUE, {"lessons", "tenants"}, {}),
    Row("grades", TRUE, {"assignments", "submissions", "tenants"}, {})>>

ProgressTables == <<
    Row("lesson_progress", TRUE, {"courses", "lessons", "tenants", "users"}, {"progress_status"}),
    Row("quiz_questions", TRUE, {"quizzes", "tenants"}, {"question_type"})>>

AssetTables == <<
    Row("video_assets", TRUE, {"lessons", "tenants"}, {}),
    Row("quiz_answers", TRUE, {"quiz_questions", "tenants"}, {})>>

InitialTables ==
    PlatformTables \o TenantTables \o AccountTables \o CourseTables
        \o ContentTables \o WorkTables \o ProgressTables \o AssetTables

Tables == {InitialTables[i] : i \in DOMAIN InitialTables}
TableNames == {t.name : t \in Tables}
Named == [name \in TableNames |-> CHOOSE t \in Tables : t.name = name]

-----------------------------------------------------------------------------
(* Statements                                                               *)

CreateTable(t) == [op |-> "create", table |-> t.name, types |-> t.types]
DropTable(t) == [op |-> "drop", table |-> t.name, types |-> {}]
Protect(name) == [op |-> "protect", table |-> name, types |-> {}]
Unprotect(name) == [op |-> "unprotect", table |-> name, types |-> {}]

InitialUpgrade == [i \in DOMAIN InitialTables |-> CreateTable(InitialTables[i])]

InitialDowngrade_Unordered == [i \in DOMAIN InitialTables |-> DropTable(InitialTables[i])]

\* The enum types stay: downgrade drops tables and indexes only.
InitialDowngrade ==
    LET last == Reverse(InitialTables)
    IN  [i \in DOMAIN last |-> DropTable(last[i])]

\* RLS_TABLES of 0002_rls.
RLS_TABLES == <<
    "users", "roles", "user_sessions", "categories", "courses", "course_instructors",
    "course_enrollments", "course_modules", "lessons", "video_assets",
    "document_assets", "lesson_progress", "assignments", "quizzes", "quiz_questions",
    "quiz_answers", "submissions", "grades", "audit_logs">>

RlsUpgrade == [i \in DOMAIN RLS_TABLES |-> Protect(RLS_TABLES[i])]
RlsDowngrade == [i \in DOMAIN RLS_TABLES |-> Unprotect(RLS_TABLES[i])]

\* Revisions are numbered by their place in the chain of down_revision; 0 is
\* base.
Upgrades == <<InitialUpgrade, RlsUpgrade>>
Downgrades == <<InitialDowngrade, RlsDowngrade>>
Revisions == 0 .. Len(Upgrades)

\* sql/01_schema.sql: the types first, then the tables without them, in the
\* order of Base.metadata.sorted_tables.
SortedTypes == <<
    "isolation_mode", "assignment_type", "question_type", "submission_status",
    "course_status", "course_level", "enrollment_status", "lesson_type",
    "progress_status">>

SortedTables == <<
    "modules", "tenants", "permissions", "audit_logs", "tenant_modules", "roles",
    "users", "categories", "user_roles", "role_permissions", "user_sessions",
    "courses", "assignments", "course_instructors", "course_enrollments",
    "course_modules", "quizzes", "submissions", "lessons", "quiz_questions",
    "grades", "video_assets", "document_assets", "lesson_progress", "quiz_answers">>

\* sql/02_rls.sql: the tables dump_sql picks, by their columns.
DumpedRls ==
    SelectSeq(SortedTables, LAMBDA n : Named[n].tenant /\ n # "tenant_modules")

\* The files of a checkout whose last revision is 1 or 2.
SqlFiles ==
    LET schema == [i \in DOMAIN SortedTypes |->
                      [op |-> "type", table |-> "modules", types |-> {SortedTypes[i]}]]
                  \o [i \in DOMAIN SortedTables |->
                         [op |-> "create", table |-> SortedTables[i], types |-> {}]]
    IN  <<schema, schema \o [i \in DOMAIN DumpedRls |-> Protect(DumpedRls[i])]>>

-----------------------------------------------------------------------------
(* What PostgreSQL makes of a statement                                     *)

\* A database: its tables, enum types and tables with a policy, and alembic_version.
Empty == [tables |-> {}, types |-> {}, protected |-> {}, version |-> 0]

\* The statement raises no error.
Accepts(d, s) ==
    CASE s.op = "type" -> s.types \cap d.types = {}
      [] s.op = "create" ->
            /\ s.table \notin d.tables
            /\ Named[s.table].references \subseteq d.tables \cup {s.table}
            /\ s.types \cap d.types = {}
      [] s.op = "drop" ->
            /\ s.table \in d.tables
            /\ \A n \in d.tables \ {s.table} : s.table \notin Named[n].references
      [] s.op = "protect" -> s.table \in d.tables \ d.protected
      [] s.op = "unprotect" -> s.table \in d.tables

Run(d, s) ==
    [d EXCEPT
        !.types = @ \cup s.types,
        !.tables = CASE s.op = "create" -> @ \cup {s.table}
                     [] s.op = "drop" -> @ \ {s.table}
                     [] OTHER -> @,
        !.protected = CASE s.op = "protect" -> @ \cup {s.table}
                        [] s.op \in {"unprotect", "drop"} -> @ \ {s.table}
                        [] OTHER -> @]

-----------------------------------------------------------------------------
(* What a revision means                                                    *)

\* The schema the code of a revision expects: every table, and from 0002 on a
\* policy on each one with a tenant_id but the control-plane tenant_modules.
Expected(v) ==
    [tables |-> IF v >= 1 THEN TableNames ELSE {},
     protected |-> IF v >= 2
                   THEN {t.name : t \in {u \in Tables : u.tenant}} \ {"tenant_modules"}
                   ELSE {}]

-----------------------------------------------------------------------------
(* The lists as they are, which TLC reads through                           *)

Table == [name : TableNames, tenant : BOOLEAN, references : SUBSET TableNames,
          types : SUBSET Range(SortedTypes)]

\* The list s has every member of S, each once.
Lists(s, S) == s \in Seq(S) /\ IsInjective(s) /\ Range(s) = S

\* No list names a thing twice or a table before one that it refers to, and both
\* ways to build the schema are about the same tables, types and policies.
ASSUME TablesAssumption ==
    /\ InitialTables \in Seq(Table)
    /\ \A i, j \in DOMAIN InitialTables : i < j =>
          /\ InitialTables[i].name # InitialTables[j].name
          /\ InitialTables[i].types \cap InitialTables[j].types = {}
          /\ InitialTables[j].name \notin InitialTables[i].references
    /\ \A i, j \in DOMAIN SortedTables :
          i < j => SortedTables[j] \notin Named[SortedTables[i]].references
    /\ Lists(SortedTables, TableNames)
    /\ Lists(SortedTypes, UNION {t.types : t \in Tables})
    /\ Lists(RLS_TABLES, Expected(2).protected)
    /\ Lists(DumpedRls, Expected(2).protected)

=============================================================================
