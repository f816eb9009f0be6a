----------------------------- MODULE Deployment -----------------------------
(***************************************************************************)
(* How a pushed commit reaches the running service: the polling script     *)
(* deploy/auto-deploy.sh with its systemd units, the checkout it pulls     *)
(* into, the migrations of alembic/ and the uvicorn workers, which load    *)
(* the code on disk whenever one of them starts.                           *)
(*                                                                         *)
(* Commits are numbered in the order they are pushed, and main only moves  *)
(* forward.  One Alembic run or SQL load is in progress at a time.         *)
(***************************************************************************)
EXTENDS Schema

CONSTANTS
    Worker,       \* processes of lms-backend.service
    LastCommit,   \* bound: commits that are pushed
    Revision,     \* the last migration in the tree of a commit
    MaxFaults,    \* bound: failures and kills
    MaxManual     \* bound: what the operator does by hand

Commit == 1 .. LastCommit

ASSUME DeploymentAssumption ==
    /\ LastCommit \in Nat \ {0}
    /\ Revision \in [Commit -> Revisions \ {0}]
    /\ \A c, d \in Commit : c <= d => Revision[c] <= Revision[d]
    /\ MaxFaults \in Nat /\ MaxManual \in Nat

VARIABLES
    remote,   \* main of the remote
    tree,     \* the checkout
    script,   \* the run of auto-deploy.sh
    db,       \* the committed schema
    tx,       \* the Alembic run in progress
    load,     \* the run of the SQL files
    worker,   \* the commit each worker has loaded; 0: not started
    left,     \* history: who left the schema behind the code on disk
    lost,     \* history: a run ended after its pull without a restart
    faults, manual

treeVars == <<remote, tree, script>>
dbVars == <<db, tx, load>>
history == <<left, lost, faults, manual>>
vars == <<treeVars, dbVars, worker, history>>

\* base is the newest commit of the remote in the files on disk, local says
\* that commits of this machine lie on top, edited that the files differ from
\* HEAD, and onMain that HEAD is the branch main.
Checkout == [base : Commit, local : BOOLEAN, edited : BOOLEAN, onMain : BOOLEAN]

\* before and after are what rev-parse HEAD and origin/main returned: the
\* local commits on top make a hash of their own.
Hash == [base : Commit, local : BOOLEAN]

Script == [pc : {"idle", "fetch", "pull", "migrate", "alembic", "restart"}, before : Hash]

\* done statements of the files of revision of have run; pc is "running" for as
\* long as psql or the operator is at it.
Load == [pc : {"none", "running", "stopped", "stamped"}, of : Revisions,
         done : Nat, stamp : Revisions]

\* A run of Alembic is by the script or the operator; schema is what its
\* transaction sees, next the statement it comes to within the migration from
\* schema.version towards target.
NoAlembic == [by |-> "nobody", schema |-> Empty, target |-> 0, next |-> 1]

\* What the tables, types and policies are is the subject of SchemaWhole.
TypeOK ==
    /\ remote \in Commit
    /\ tree \in Checkout
    /\ script \in Script
    /\ {db.version, tx.schema.version, tx.target} \subseteq Revisions
    /\ tx.by \in {"nobody", "script", "operator"} /\ tx.next \in Nat
    /\ load \in Load
    /\ worker \in [Worker -> Commit \cup {0}]
    /\ left \in {"nobody", "script", "operator"}
    /\ lost \in BOOLEAN
    /\ faults \in 0 .. MaxFaults
    /\ manual \in 0 .. MaxManual

Init ==
    /\ remote = 1
    /\ tree = [base |-> 1, local |-> FALSE, edited |-> FALSE, onMain |-> TRUE]
    /\ script = [pc |-> "idle", before |-> [base |-> 1, local |-> FALSE]]
    /\ db = Empty
    /\ tx = NoAlembic
    /\ load = [pc |-> "none", of |-> 0, done |-> 0, stamp |-> 0]
    /\ worker = [w \in Worker |-> 0]
    /\ left = "operator"
    /\ lost = FALSE
    /\ faults = 0
    /\ manual = 0

\* psql has statements to run.
Loading == load.pc = "running" /\ load.done < Len(SqlFiles[load.of])

HeadHash == [base |-> tree.base, local |-> tree.local]

Fault == faults < MaxFaults /\ faults' = faults + 1
ByHand == manual < MaxManual /\ manual' = manual + 1

-----------------------------------------------------------------------------
(* auto-deploy.sh                                                           *)

\* The timer, the lock, the branch test and rev-parse HEAD.
Poll ==
    /\ script.pc = "idle"
    /\ tree.onMain
    /\ script' = [pc |-> "fetch", before |-> HeadHash]
    /\ UNCHANGED <<remote, tree, dbVars, worker, history>>

\* The comparison is with origin/main as the last pull left it.
Fetch_Stale ==
    /\ script.pc = "fetch"
    /\ script' = [script EXCEPT !.pc = IF script.before.local THEN "pull" ELSE "idle"]
    /\ UNCHANGED <<remote, tree, dbVars, worker, history>>

\* git fetch, and the comparison of HEAD with origin/main.
Fetch ==
    /\ script.pc = "fetch"
    /\ script' = [script EXCEPT
            !.pc = IF script.before = [base |-> remote, local |-> FALSE] THEN "idle" ELSE "pull"]
    /\ UNCHANGED <<remote, tree, dbVars, worker, history>>

FetchFails ==
    /\ script.pc = "fetch"
    /\ Fault
    /\ script' = [script EXCEPT !.pc = "idle"]
    /\ UNCHANGED <<remote, tree, dbVars, worker, left, lost, manual>>

Pull_SkipMigration ==
    /\ script.pc = "pull"
    /\ ~tree.edited
    /\ tree' = [tree EXCEPT !.base = remote]
    /\ script' = [script EXCEPT !.pc = "restart"]
    /\ UNCHANGED <<remote, dbVars, worker, history>>

\* git pull --rebase fetches once more and puts the local commits on top.
Pull ==
    /\ script.pc = "pull"
    /\ ~tree.edited
    /\ tree' = [tree EXCEPT !.base = remote]
    /\ script' = [script EXCEPT !.pc = "migrate"]
    /\ UNCHANGED <<remote, dbVars, worker, history>>

\* It refuses to start over edited files; a conflict with a local commit is
\* aborted.
PullRefused ==
    /\ script.pc = "pull"
    /\ tree.edited \/ tree.local
    /\ script' = [script EXCEPT !.pc = "idle"]
    /\ UNCHANGED <<remote, tree, dbVars, worker, history>>

\* alembic upgrade head, with the revisions of the files just pulled.
ScriptMigrates ==
    /\ script.pc = "migrate"
    /\ tx.by = "nobody"
    /\ ~Loading
    /\ tx' = [by |-> "script", schema |-> db, target |-> Revision[tree.base], next |-> 1]
    /\ script' = [script EXCEPT !.pc = "alembic"]
    /\ UNCHANGED <<remote, tree, db, load, worker, history>>

\* systemctl restart: every worker loads the files on disk.
Restart ==
    /\ script.pc = "restart"
    /\ worker' = [w \in Worker |-> tree.base]
    /\ script' = [script EXCEPT !.pc = "idle"]
    /\ lost' = FALSE
    /\ UNCHANGED <<remote, tree, dbVars, left, faults, manual>>

RestartFails ==
    /\ script.pc = "restart"
    /\ Fault
    /\ script' = [script EXCEPT !.pc = "idle"]
    /\ lost' = TRUE
    /\ UNCHANGED <<remote, tree, dbVars, worker, left, manual>>

\* TimeoutStartSec: systemd kills the script with its children.  A rebase of
\* local commits stops with HEAD detached at the new base; a transaction of
\* Alembic is rolled back.
Kill ==
    /\ script.pc # "idle"
    /\ Fault
    /\ \/ tree' = tree
       \/ /\ script.pc = "pull" /\ tree.local /\ ~tree.edited
          /\ tree' = [tree EXCEPT !.base = remote, !.onMain = FALSE]
    /\ tx' = IF tx.by = "script" THEN NoAlembic ELSE tx
    /\ left' = IF script.pc \in {"migrate", "alembic"} \/ tree'.base # tree.base
               THEN "script" ELSE left
    /\ lost' = (lost \/ script.pc \in {"migrate", "alembic", "restart"} \/ tree'.base # tree.base)
    /\ script' = [script EXCEPT !.pc = "idle"]
    /\ UNCHANGED <<remote, db, load, worker, manual>>

-----------------------------------------------------------------------------
(* alembic/env.py: all migrations of one command in one transaction         *)

\* The statements of the migration the run is in.
Current ==
    IF tx.target > tx.schema.version
    THEN Upgrades[tx.schema.version + 1]
    ELSE Downgrades[tx.schema.version]

Step_Autocommit ==
    /\ tx.by # "nobody"
    /\ tx.schema.version # tx.target
    /\ tx.next <= Len(Current)
    /\ Accepts(tx.schema, Current[tx.next])
    /\ tx' = [tx EXCEPT !.schema = Run(@, Current[tx.next]), !.next = @ + 1]
    /\ db' = Run(db, Current[tx.next])
    /\ UNCHANGED <<treeVars, load, worker, history>>

Step ==
    /\ tx.by # "nobody"
    /\ tx.schema.version # tx.target
    /\ tx.next <= Len(Current)
    /\ Accepts(tx.schema, Current[tx.next])
    /\ tx' = [tx EXCEPT !.schema = Run(@, Current[tx.next]), !.next = @ + 1]
    /\ UNCHANGED <<treeVars, db, load, worker, history>>

\* alembic_version follows the migration that has ended.
Stamp ==
    /\ tx.by # "nobody"
    /\ tx.schema.version # tx.target
    /\ tx.next > Len(Current)
    /\ tx' = [tx EXCEPT !.next = 1,
            !.schema.version = IF tx.target > @ THEN @ + 1 ELSE @ - 1]
    /\ UNCHANGED <<treeVars, db, load, worker, history>>

\* The command has succeeded, and the script goes on to the restart.
CommitRun ==
    /\ tx.by # "nobody"
    /\ tx.schema.version = tx.target
    /\ db' = tx.schema
    /\ left' = IF tx.target = Revision[tree.base] THEN "nobody"
               ELSE IF tx.target < db.version THEN "operator"
               ELSE left
    /\ script' = [script EXCEPT !.pc = IF tx.by = "script" THEN "restart" ELSE @]
    /\ tx' = NoAlembic
    /\ UNCHANGED <<remote, tree, load, worker, lost, faults, manual>>

\* A statement is refused, or the connection is lost: everything is rolled
\* back, and the script gives up.
RollBack ==
    /\ tx.by # "nobody"
    /\ \/ /\ tx.schema.version # tx.target
          /\ tx.next <= Len(Current)
          /\ ~Accepts(tx.schema, Current[tx.next])
          /\ UNCHANGED faults
       \/ Fault
    /\ left' = IF tx.by = "script" THEN "script" ELSE left
    /\ lost' = (lost \/ tx.by = "script")
    /\ script' = [script EXCEPT !.pc = IF tx.by = "script" THEN "idle" ELSE @]
    /\ tx' = NoAlembic
    /\ UNCHANGED <<remote, tree, db, load, worker, manual>>

-----------------------------------------------------------------------------
(* The operator, and everyone who pushes                                    *)

Push ==
    /\ remote < LastCommit
    /\ remote' = remote + 1
    /\ UNCHANGED <<tree, script, dbVars, worker, history>>

\* make migrate, make downgrade.
Migrate ==
    /\ tx.by = "nobody" /\ ~Loading
    /\ ByHand
    /\ \E target \in {Revision[tree.base], db.version - 1} \cap Revisions :
           tx' = [by |-> "operator", schema |-> db, target |-> target, next |-> 1]
    /\ UNCHANGED <<treeVars, db, load, worker, left, lost, faults>>

\* psql -f sql/01_schema.sql, then 02_rls.sql.
StartLoad ==
    /\ load.pc = "none"
    /\ tx.by = "nobody"
    /\ db = Empty
    /\ ByHand
    /\ load' = [load EXCEPT !.pc = "running", !.of = Revision[tree.base]]
    /\ UNCHANGED <<treeVars, db, tx, worker, left, lost, faults>>

\* Each statement commits.
LoadStep ==
    /\ Loading
    /\ db' = Run(db, SqlFiles[load.of][load.done + 1])
    /\ load' = [load EXCEPT !.done = @ + 1]
    /\ UNCHANGED <<treeVars, tx, worker, history>>

\* psql is interrupted, or the operator does not go on to the stamp.
LoadStops ==
    /\ load.pc = "running"
    /\ Fault
    /\ load' = [load EXCEPT !.pc = "stopped"]
    /\ UNCHANGED <<treeVars, db, tx, worker, left, lost, manual>>

\* alembic stamp head: the head of the files that are there by now.
StampHead ==
    /\ load.pc = "running" /\ ~Loading
    /\ tx.by = "nobody"
    /\ db' = [db EXCEPT !.version = Revision[tree.base]]
    /\ load' = [load EXCEPT !.pc = "stamped", !.stamp = Revision[tree.base]]
    /\ left' = "nobody"
    /\ UNCHANGED <<treeVars, tx, worker, lost, faults, manual>>

\* Commits and edits made on the machine itself, and their removal.
EditCheckout ==
    /\ tree.onMain
    /\ ByHand
    /\ \E l, e \in BOOLEAN :
           /\ <<l, e>> # <<tree.local, tree.edited>>
           /\ tree' = [tree EXCEPT !.local = l, !.edited = e]
    /\ UNCHANGED <<remote, script, dbVars, worker, left, lost, faults>>

\* A worker dies and is started again, or the service is started by hand.
WorkerStarts(w) ==
    /\ worker' = [worker EXCEPT ![w] = tree.base]
    /\ UNCHANGED <<treeVars, dbVars, history>>

ScriptStep == Poll \/ Fetch \/ Pull \/ PullRefused \/ ScriptMigrates \/ Restart
AlembicStep == Step \/ Stamp \/ CommitRun \/ RollBack

Next ==
    \/ ScriptStep
    \/ FetchFails \/ RestartFails \/ Kill
    \/ AlembicStep
    \/ Push \/ Migrate \/ StartLoad \/ LoadStep \/ LoadStops \/ StampHead \/ EditCheckout
    \/ \E w \in Worker : WorkerStarts(w)

\* systemd fires the timer and runs what it has started; Alembic and psql work
\* off their statements.  Nobody has to push, to edit or to start anything.
Spec == /\ Init /\ [][Next]_vars
        /\ WF_vars(ScriptStep) /\ WF_vars(AlembicStep) /\ WF_vars(LoadStep)

-----------------------------------------------------------------------------
(* Properties                                                               *)

\* The files were stamped with a head that a pull had moved after they ran.
Misstamped == load.stamp > load.of

\* Whatever fails or is killed, and wherever: what is committed is a whole
\* revision, with every foreign key resolved, and from 0002 on with a policy on
\* every table that has a tenant_id but tenant_modules.  Short of it are only SQL
\* files stopped half way, which Alembic knows nothing of, and, by policies alone,
\* files stamped with a newer head (alembic/env.py, alembic/versions,
\* scripts/dump_sql.py).
SchemaWhole ==
    /\ \A n \in db.tables : Named[n].references \subseteq db.tables
    /\ db.protected \subseteq db.tables
    /\ \/ /\ db.tables = Expected(db.version).tables
          /\ db.protected \subseteq Expected(db.version).protected
          /\ db.protected = Expected(db.version).protected \/ Misstamped
       \/ db.version = 0 /\ load.pc \in {"running", "stopped"}

\* The order of the tables is right in both directions and in the SQL files: no
\* statement is refused, but where enum types are left over from a downgrade
\* to base, which drops no type, or by SQL files that were never stamped
\* (0b3936dfb7ef upgrade and downgrade).
StatementsAccepted ==
    /\ tx.by # "nobody" /\ tx.schema.version # tx.target /\ tx.next <= Len(Current) =>
          \/ Accepts(tx.schema, Current[tx.next])
          \/ db.version = 0 /\ db.types # {}
    /\ Loading => Accepts(db, SqlFiles[load.of][load.done + 1])

\* No worker runs code whose migrations the database does not have, but while
\* the script is between its pull and the end of the migration (a worker that
\* dies then comes back with the new code), after a run that ended there, or
\* where the operator has not migrated or has downgraded (auto-deploy.sh,
\* lms-backend.service).
AheadExplained ==
    (\E w \in Worker : worker[w] # 0 /\ Revision[worker[w]] > db.version) =>
        left # "nobody" \/ script.pc \in {"migrate", "alembic"}

\* auto-deploy.sh:9 "Restarts lms-backend only when HEAD actually advanced": when the
\* script restarts the service, HEAD is not where the run found it.
RestartOnlyOnAdvance == [][Restart => HeadHash # script.before]_vars

\* A pushed commit is served by every worker in the end, unless a run ended
\* after its pull without a restart - the next poll finds HEAD where it should
\* be and does not try again - or the checkout keeps the script from pulling.
ServedUnlessLost ==
    \A c \in 2 .. LastCommit :
        remote >= c ~> \/ \A w \in Worker : worker[w] >= c
                      \/ lost
                      \/ tree.local \/ tree.edited \/ ~tree.onMain

=============================================================================
