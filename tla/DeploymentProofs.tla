-------------------------- MODULE DeploymentProofs --------------------------
(***************************************************************************)
(* What the script, the operator and failing workers can do to code and    *)
(* schema, for any number of commits, workers and faults: proofs about     *)
(* Deployment.                                                             *)
(***************************************************************************)
EXTENDS Deployment, SequenceTheorems, TLAPS

\* d has an alembic_version.
Versioned(d) == "version" \in DOMAIN d /\ d.version \in Revisions

\* Whatever else a database and a run of Alembic hold, they hold their versions.
Shape ==
    /\ Versioned(db) /\ Versioned(tx.schema)
    /\ DOMAIN tx = {"by", "schema", "target", "next"}

\* Nothing is ahead of where it comes from.
Order ==
    /\ tree.base <= remote
    /\ \A w \in Worker : worker[w] <= tree.base

\* While the script waits for its run of Alembic the checkout stays.
Owned ==
    /\ tx.by = "script" <=> script.pc = "alembic"
    /\ tx.by = "script" => tx.target = Revision[tree.base]

\* Unless somebody is known to have left it behind, the schema is good for the code on
\* disk, but between pull and migration.
Ready ==
    left = "nobody" /\ script.pc \notin {"migrate", "alembic"} =>
        Revision[tree.base] <= db.version

IInv == TypeOK /\ Shape /\ Order /\ Owned /\ Ready

-----------------------------------------------------------------------------

LEMMA RunVersion ==
    ASSUME NEW d, NEW s, Versioned(d)
    PROVE  Versioned(Run(d, s)) /\ Run(d, s).version = d.version
BY Zenon DEF Versioned, Run

LEMMA Constants ==
    /\ Revisions = 0 .. 2
    /\ Commit \subseteq Nat \ {0}
    /\ \A c \in Commit : Revision[c] \in Revisions
    /\ \A c, d \in Commit : c <= d => Revision[c] <= Revision[d]
<1>1. Revisions = 0 .. 2
    BY DEF Revisions, Upgrades
<1>2. QED
    BY <1>1, DeploymentAssumption DEF Commit

LEMMA NoAlembicOK ==
    /\ NoAlembic.by = "nobody" /\ NoAlembic.target \in Revisions /\ NoAlembic.next \in Nat
    /\ Versioned(NoAlembic.schema) /\ DOMAIN NoAlembic = {"by", "schema", "target", "next"}
    /\ Versioned(Empty) /\ Empty.version = 0
BY Constants DEF NoAlembic, Versioned, Empty

\* The types of what the comparisons are about.
LEMMA Numbers ==
    ASSUME TypeOK
    PROVE  /\ remote \in Nat /\ tree.base \in Nat
           /\ \A w \in Worker : worker[w] \in Nat
           /\ tree.base \in Commit /\ Revision[tree.base] \in Revisions
           /\ Revision[tree.base] \in Nat
<1>1. remote \in Nat /\ tree.base \in Commit /\ tree.base \in Nat
    BY Constants DEF TypeOK, Checkout
<1>2. \A w \in Worker : worker[w] \in Nat
  <2>1. worker \in [Worker -> Commit \cup {0}]
      BY DEF TypeOK
  <2>2. \A w \in Worker : worker[w] \in Commit \cup {0}
      BY <2>1
  <2>3. Commit \cup {0} \subseteq Nat
      BY DEF Commit
  <2>4. QED
      BY <2>2, <2>3, Zenon
<1>3. Revision[tree.base] \in Revisions /\ Revision[tree.base] \in Nat
    BY <1>1, Constants
<1>4. QED
    BY <1>1, <1>2, <1>3

LEMMA InitInv == Init => IInv
<1> SUFFICES ASSUME Init PROVE IInv
    OBVIOUS
<1>1. 1 \in Commit /\ 0 \in Revisions
    BY Constants, DeploymentAssumption DEF Commit
<1>2. TypeOK
  <2>1. remote \in Commit /\ tree \in Checkout /\ script \in Script /\ load \in Load
      BY <1>1 DEF Init, Checkout, Script, Hash, Load
  <2>2. /\ {db.version, tx.schema.version, tx.target} \subseteq Revisions
        /\ tx.by = "nobody" /\ tx.next \in Nat
      BY <1>1, NoAlembicOK DEF Init, Versioned
  <2>3. /\ worker \in [Worker -> Commit \cup {0}] /\ left = "operator"
        /\ faults \in 0 .. MaxFaults /\ manual \in 0 .. MaxManual
      BY DeploymentAssumption DEF Init
  <2>4. lost \in BOOLEAN
      BY Zenon DEF Init
  <2>5. QED
      BY <2>1, <2>2, <2>3, <2>4 DEF TypeOK
<1>3. Shape
    BY NoAlembicOK DEF Init, Shape
<1>4. Order /\ Owned /\ Ready
    BY <1>1, NoAlembicOK DEF Init, Order, Owned, Ready
<1>5. QED
    BY <1>2, <1>3, <1>4 DEF IInv

\* The script goes to pc, and neither the schema nor the workers change.
LEMMA ScriptSteps ==
    ASSUME IInv, Poll \/ Fetch \/ FetchFails \/ Pull \/ PullRefused \/ RestartFails
    PROVE  IInv'
<1>1. /\ remote \in Commit /\ tree \in Checkout /\ script \in Script
      /\ tree.base \in Commit /\ tree.base \in Nat /\ remote \in Nat
    BY Constants DEF IInv, TypeOK, Checkout
<1>2. CASE Poll
  <2>1. HeadHash \in Hash /\ HeadHash.base = tree.base
      BY <1>1 DEF HeadHash, Hash, Checkout
  <2>2. /\ script' \in Script /\ script'.pc = "fetch" /\ script'.before.base = tree.base
        /\ UNCHANGED <<remote, tree, db, tx, load, worker, left, lost, faults, manual>>
      BY <1>2, <2>1 DEF Poll, Script, dbVars, history
  <2>3. script.pc # "alembic"
      BY <1>2 DEF Poll
  <2>4. QED
      BY <1>1, <1>2, <2>2, <2>3 DEF Poll, IInv, TypeOK, Shape, Versioned, Order, Owned, Ready
<1>3. CASE Fetch \/ FetchFails \/ PullRefused \/ RestartFails
  <2>1. PICK pc \in {"idle", "pull"} : script' = [script EXCEPT !.pc = pc]
    <3>1. CASE Fetch
      <4>1. CASE script.before = [base |-> remote, local |-> FALSE]
          BY <3>1, <4>1, Zenon DEF Fetch
      <4>2. CASE script.before # [base |-> remote, local |-> FALSE]
          BY <3>1, <4>2, Zenon DEF Fetch
      <4>3. QED
          BY <4>1, <4>2
    <3>2. CASE FetchFails \/ PullRefused \/ RestartFails
        BY <3>2, Zenon DEF FetchFails, PullRefused, RestartFails
    <3>3. QED
        BY <1>3, <3>1, <3>2
  <2>2. script' \in Script /\ script'.pc = pc /\ script'.before = script.before
      BY <1>1, <2>1 DEF Script
  <2>3. /\ UNCHANGED <<remote, tree, db, tx, load, worker, left, manual>>
        /\ lost' \in BOOLEAN /\ faults' \in 0 .. MaxFaults
    <3>1. UNCHANGED <<remote, tree, db, tx, load, worker, left, manual>>
        BY <1>3 DEF Fetch, FetchFails, PullRefused, RestartFails, dbVars, history
    <3>2. lost' \in BOOLEAN
        BY <1>3, Zenon DEF Fetch, FetchFails, PullRefused, RestartFails, history, IInv, TypeOK
    <3>3. faults' \in 0 .. MaxFaults
        BY <1>3, DeploymentAssumption
        DEF Fetch, FetchFails, PullRefused, RestartFails, Fault, history, IInv, TypeOK
    <3>4. QED
        BY <3>1, <3>2, <3>3
  <2>4. script.pc \notin {"migrate", "alembic"}
      BY <1>3 DEF Fetch, FetchFails, PullRefused, RestartFails
  <2>5. QED
      BY <1>1, <2>2, <2>3, <2>4
      DEF IInv, TypeOK, Shape, Versioned, Order, Owned, Ready
<1>4. CASE Pull
  <2>1. /\ tree' \in Checkout /\ tree'.base = remote
        /\ script' \in Script /\ script'.pc = "migrate" /\ script'.before = script.before
        /\ script.pc = "pull"
        /\ UNCHANGED <<remote, db, tx, load, worker, left, lost, faults, manual>>
    <3>1. tree' \in Checkout /\ tree'.base = remote
        BY <1>1, <1>4 DEF Pull, Checkout
    <3>2. /\ script' \in Script /\ script'.pc = "migrate" /\ script'.before = script.before
          /\ script.pc = "pull"
        BY <1>1, <1>4 DEF Pull, Script
    <3>3. UNCHANGED <<remote, db, tx, load, worker, left, lost, faults, manual>>
        BY <1>4 DEF Pull, dbVars, history
    <3>4. QED
        BY <3>1, <3>2, <3>3
  <2>2. \A w \in Worker : worker[w] \in Nat
      BY Numbers DEF IInv
  <2>3. tx.by # "script"
      BY <2>1 DEF IInv, Owned
  <2>4. Order'
      BY <1>1, <2>1, <2>2 DEF IInv, Order
  <2>5. QED
      BY <1>1, <2>1, <2>2, <2>3, <2>4
      DEF IInv, TypeOK, Shape, Versioned, Owned, Ready
<1>5. QED
    BY <1>2, <1>3, <1>4

\* A run of Alembic begins.
LEMMA MigrateSteps ==
    ASSUME IInv, ScriptMigrates \/ Migrate
    PROVE  IInv'
<1>1. /\ tree \in Checkout /\ script \in Script /\ tree.base \in Commit
      /\ Revision[tree.base] \in Revisions
    BY Constants DEF IInv, TypeOK, Checkout
<1>2. PICK by \in {"script", "operator"}, target \in Revisions :
          /\ tx' = [by |-> by, schema |-> db, target |-> target, next |-> 1]
          /\ by = "script" => target = Revision[tree.base] /\ script.pc = "migrate"
          /\ script' = [script EXCEPT !.pc = IF by = "script" THEN "alembic" ELSE script.pc]
    BY <1>1 DEF ScriptMigrates, Migrate, treeVars, Script
<1>3. /\ tx'.by = by /\ tx'.schema = db /\ tx'.target = target /\ tx'.next = 1
      /\ DOMAIN tx' = {"by", "schema", "target", "next"}
    BY <1>2
<1>4. /\ script' \in Script /\ script'.before = script.before
      /\ script'.pc = IF by = "script" THEN "alembic" ELSE script.pc
    BY <1>1, <1>2 DEF Script
<1>5. /\ UNCHANGED <<remote, tree, db, load, worker, left, lost, faults>>
      /\ manual' \in 0 .. MaxManual /\ tx.by = "nobody"
    BY DeploymentAssumption
    DEF ScriptMigrates, Migrate, ByHand, treeVars, history, IInv, TypeOK
<1>6. TypeOK'
    BY <1>2, <1>3, <1>4, <1>5 DEF IInv, TypeOK
<1>7. QED
    BY <1>2, <1>3, <1>4, <1>5, <1>6
    DEF IInv, Shape, Versioned, Order, Owned, Ready

\* Statements of the transaction change no version; a stamp that of the transaction.
LEMMA StatementSteps ==
    ASSUME IInv, Step \/ Stamp
    PROVE  IInv'
<1>1. /\ tx.schema.version \in 0 .. 2 /\ tx.target \in 0 .. 2 /\ tx.next \in Nat
      /\ tx.schema.version # tx.target
      /\ UNCHANGED <<remote, tree, script, db, load, worker, left, lost, faults, manual>>
    BY Constants DEF IInv, TypeOK, Step, Stamp, treeVars, history
<1>2. /\ tx'.by = tx.by /\ tx'.target = tx.target /\ tx'.next \in Nat
      /\ DOMAIN tx' = DOMAIN tx /\ Versioned(tx'.schema)
  <2>1. CASE Step
    <3>1. PICK n, new : /\ tx' = [tx EXCEPT !.schema = new, !.next = n]
                        /\ n = tx.next + 1 /\ new = Run(tx.schema, Current[tx.next])
        BY <2>1 DEF Step
    <3>2. Versioned(new)
        BY <3>1, RunVersion DEF IInv, Shape
    <3>3. tx'.by = tx.by /\ tx'.target = tx.target /\ tx'.next = n /\ tx'.schema = new
          /\ DOMAIN tx' = DOMAIN tx
        BY <3>1, Zenon DEF IInv, Shape
    <3>4. n \in Nat
        BY <1>1, <3>1
    <3>5. QED
        BY <3>2, <3>3, <3>4
  <2>2. CASE Stamp
    <3>1. PICK v, new : /\ tx' = [tx EXCEPT !.next = 1, !.schema = new]
                        /\ v = (IF tx.target > tx.schema.version THEN tx.schema.version + 1
                                                                 ELSE tx.schema.version - 1)
                        /\ new = [tx.schema EXCEPT !.version = v]
        BY <2>2, Zenon DEF Stamp
    <3>2. v \in Revisions
        BY <1>1, <3>1, Constants
    <3>3. Versioned(new)
        BY <3>1, <3>2, Zenon DEF IInv, Shape, Versioned
    <3>4. tx'.by = tx.by /\ tx'.target = tx.target /\ tx'.next = 1 /\ tx'.schema = new
          /\ DOMAIN tx' = DOMAIN tx
        BY <3>1, Zenon DEF IInv, Shape
    <3>5. QED
        BY <3>3, <3>4
  <2>3. QED
      BY <2>1, <2>2
<1>3. QED
    BY <1>1, <1>2 DEF IInv, TypeOK, Shape, Versioned, Order, Owned, Ready

\* The transaction commits.
LEMMA CommitStep ==
    ASSUME IInv, CommitRun
    PROVE  IInv'
<1>1. /\ script \in Script /\ tree \in Checkout /\ tree.base \in Commit
      /\ Revision[tree.base] \in 0 .. 2 /\ db.version \in 0 .. 2 /\ tx.target \in 0 .. 2
      /\ tx.by \in {"script", "operator"} /\ tx.schema.version = tx.target
      /\ db' = tx.schema /\ tx' = NoAlembic
      /\ left' = IF tx.target = Revision[tree.base] THEN "nobody"
                 ELSE IF tx.target < db.version THEN "operator" ELSE left
      /\ UNCHANGED <<remote, tree, load, worker, lost, faults, manual>>
    BY Constants DEF IInv, TypeOK, Checkout, CommitRun
<1>2. /\ script' \in Script /\ script'.before = script.before
      /\ script'.pc = IF tx.by = "script" THEN "restart" ELSE script.pc
    BY <1>1 DEF CommitRun, Script
<1>3. db'.version = tx.target /\ Versioned(db')
    BY <1>1 DEF IInv, Shape
<1>4. left' \in {"nobody", "script", "operator"}
    BY <1>1 DEF IInv, TypeOK
<1>5. TypeOK'
    BY <1>1, <1>2, <1>3, <1>4, NoAlembicOK DEF IInv, TypeOK, Versioned
<1>6. Shape'
    BY <1>1, <1>3, NoAlembicOK DEF Shape, Versioned
<1>7. Order' /\ Owned'
    BY <1>1, <1>2, NoAlembicOK DEF IInv, Order, Owned
<1>8. Ready'
    BY <1>1, <1>2, <1>3 DEF IInv, Owned, Ready
<1>9. QED
    BY <1>5, <1>6, <1>7, <1>8 DEF IInv

\* A run of Alembic is rolled back, or the script killed.
LEMMA BreakSteps ==
    ASSUME IInv, RollBack \/ Kill
    PROVE  IInv'
<1>1. /\ script \in Script /\ tree \in Checkout /\ tree.base \in Commit /\ remote \in Commit
      /\ tree.base \in Nat /\ remote \in Nat
    BY Constants DEF IInv, TypeOK, Checkout
<1>2. /\ tree' \in Checkout /\ tree'.base \in {tree.base, remote}
      /\ tree'.base # tree.base => left' = "script" /\ script.pc = "pull"
  <2>1. CASE tree' = tree
      BY <1>1, <2>1
  <2>2. CASE tree' # tree
    <3>1. /\ tree' = [tree EXCEPT !.base = remote, !.onMain = FALSE]
          /\ script.pc = "pull"
          /\ left' = IF script.pc \in {"migrate", "alembic"} \/ tree'.base # tree.base
                     THEN "script" ELSE left
        BY <2>2, Zenon DEF RollBack, Kill
    <3>2. tree' \in Checkout /\ tree'.base = remote
        BY <1>1, <3>1 DEF Checkout
    <3>3. QED
        BY <3>1, <3>2
  <2>3. QED
      BY <2>1, <2>2
<1>3. /\ tx' = NoAlembic \/ (tx' = tx /\ tx.by # "script")
      /\ UNCHANGED <<remote, db, load, worker, manual>>
      /\ left' \in {"script", left} /\ lost' \in BOOLEAN /\ faults' \in 0 .. MaxFaults
      /\ script.pc \in {"migrate", "alembic"} => left' = "script" \/ script'.pc = script.pc
  <2>1. UNCHANGED <<remote, db, load, worker, manual>>
      BY DEF RollBack, Kill
  <2>2. tx' = NoAlembic \/ (tx' = tx /\ tx.by # "script")
      BY Zenon DEF RollBack, Kill
  <2>3. faults' \in 0 .. MaxFaults
      BY DeploymentAssumption DEF RollBack, Kill, Fault, IInv, TypeOK
  <2>4. lost' \in BOOLEAN
    <3>1. \A b : (lost \/ b) \in BOOLEAN
        OBVIOUS
    <3>2. CASE Kill
        BY <3>1, <3>2, Zenon DEF Kill
    <3>3. CASE RollBack
        BY <3>1, <3>3, Zenon DEF RollBack
    <3>4. QED
        BY <3>2, <3>3
  <2>5. /\ left' \in {"script", left}
        /\ script.pc \in {"migrate", "alembic"} => left' = "script" \/ script'.pc = script.pc
    <3>1. CASE Kill
        BY <3>1 DEF Kill
    <3>2. CASE RollBack
      <4>1. /\ left' = IF tx.by = "script" THEN "script" ELSE left
            /\ script' = [script EXCEPT !.pc = IF tx.by = "script" THEN "idle" ELSE @]
          BY <3>2, Zenon DEF RollBack
      <4>2. QED
          BY <1>1, <4>1 DEF Script
    <3>3. QED
        BY <3>1, <3>2
  <2>6. QED
      BY <2>1, <2>2, <2>3, <2>4, <2>5
<1>4. /\ script' \in Script /\ script'.before = script.before
      /\ script'.pc = "idle" \/ (script'.pc = script.pc /\ tx.by # "script" /\ tree' = tree)
  <2>1. CASE Kill
      BY <1>1, <2>1 DEF Kill, Script
  <2>2. CASE RollBack
    <3>1. /\ script' = [script EXCEPT !.pc = IF tx.by = "script" THEN "idle" ELSE @]
          /\ tree' = tree
        BY <2>2, Zenon DEF RollBack
    <3>2. QED
        BY <1>1, <3>1 DEF Script
  <2>3. QED
      BY <2>1, <2>2
<1>5. TypeOK'
    BY <1>2, <1>3, <1>4, NoAlembicOK DEF IInv, TypeOK, Versioned
<1>6. Shape'
    BY <1>3, NoAlembicOK DEF IInv, Shape, Versioned
<1>7. Order'
  <2>1. \A w \in Worker : worker[w] \in Nat
      BY Numbers DEF IInv
  <2>2. QED
      BY <1>1, <1>2, <1>3, <1>4, <2>1 DEF IInv, Order
<1>8. Owned' /\ Ready'
    BY <1>1, <1>2, <1>3, <1>4, NoAlembicOK DEF IInv, Owned, Ready
<1>9. QED
    BY <1>5, <1>6, <1>7, <1>8 DEF IInv

\* The service is restarted, by the script or a worker at a time.
LEMMA WorkerSteps ==
    ASSUME IInv, Restart \/ \E w \in Worker : WorkerStarts(w)
    PROVE  IInv'
<1>1. tree \in Checkout /\ tree.base \in Commit /\ tree.base \in Nat /\ script \in Script
    BY Constants DEF IInv, TypeOK, Checkout
<1>2. worker \in [Worker -> Commit \cup {0}]
    BY DEF IInv, TypeOK
<1>3. /\ worker' \in [Worker -> Commit \cup {0}]
      /\ \A w \in Worker : worker'[w] \in {tree.base, worker[w]}
    BY <1>1, <1>2 DEF Restart, WorkerStarts
<1>4. /\ script' \in Script /\ script'.before = script.before
      /\ script'.pc = script.pc \/ (script.pc = "restart" /\ script'.pc = "idle")
  <2>1. CASE Restart
      BY <1>1, <2>1 DEF Restart, Script
  <2>2. CASE \E w \in Worker : WorkerStarts(w)
      BY <1>1, <2>2 DEF WorkerStarts, treeVars
  <2>3. QED
      BY <2>1, <2>2
<1>5. UNCHANGED <<remote, tree, db, tx, load, left, faults, manual>> /\ lost' \in BOOLEAN
    BY DEF Restart, WorkerStarts, treeVars, dbVars, history, IInv, TypeOK
<1>6. Order'
    BY <1>1, <1>3, <1>4, <1>5 DEF IInv, Order
<1>7. QED
    BY <1>3, <1>4, <1>5, <1>6 DEF IInv, TypeOK, Shape, Versioned, Owned, Ready

\* A push, an edit of the checkout.
LEMMA TreeSteps ==
    ASSUME IInv, Push \/ EditCheckout
    PROVE  IInv'
<1>1. /\ remote \in Commit /\ remote \in Nat /\ tree \in Checkout
      /\ tree.base \in Nat
    BY Numbers DEF IInv, TypeOK
<1>2. remote' \in Commit /\ remote' \in {remote, remote + 1}
  <2>1. CASE Push
      BY <1>1, <2>1, DeploymentAssumption DEF Push, Commit
  <2>2. CASE EditCheckout
      BY <1>1, <2>2 DEF EditCheckout
  <2>3. QED
      BY <2>1, <2>2
<1>3. tree' \in Checkout /\ tree'.base = tree.base
    BY <1>1 DEF Push, EditCheckout, Checkout
<1>4. /\ UNCHANGED <<script, db, tx, load, worker, left, lost, faults>>
      /\ manual' \in 0 .. MaxManual
  <2>1. CASE Push
      BY <2>1 DEF Push, dbVars, history, IInv, TypeOK
  <2>2. CASE EditCheckout
    <3>1. UNCHANGED <<script, db, tx, load, worker, left, lost, faults>>
        BY <2>2 DEF EditCheckout, dbVars
    <3>2. manual \in 0 .. MaxManual
        BY DEF IInv, TypeOK
    <3>3. manual < MaxManual /\ manual' = manual + 1
        BY <2>2 DEF EditCheckout, ByHand
    <3>4. QED
        BY <3>1, <3>2, <3>3, DeploymentAssumption
  <2>3. QED
      BY <2>1, <2>2
<1>5. QED
    BY <1>1, <1>2, <1>3, <1>4
    DEF IInv, TypeOK, Shape, Versioned, Order, Owned, Ready

\* The SQL files: only the stamp sets a version.
LEMMA LoadSteps ==
    ASSUME IInv, StartLoad \/ LoadStep \/ LoadStops \/ StampHead
    PROVE  IInv'
<1>1. /\ load \in Load /\ Revision[tree.base] \in Revisions /\ Revision[tree.base] \in Nat
    BY Numbers DEF IInv, TypeOK
<1>2. load' \in Load
  <2>1. CASE StartLoad
      BY <1>1, <2>1 DEF StartLoad, Load
  <2>2. CASE LoadStep
      BY <1>1, <2>2 DEF LoadStep, Load
  <2>3. CASE LoadStops
      BY <1>1, <2>3 DEF LoadStops, Load
  <2>4. CASE StampHead
      BY <1>1, <2>4 DEF StampHead, Load
  <2>5. QED
      BY <2>1, <2>2, <2>3, <2>4
<1>3. /\ UNCHANGED <<remote, tree, script, tx, worker, lost>>
      /\ faults' \in 0 .. MaxFaults /\ manual' \in 0 .. MaxManual
    BY DeploymentAssumption
    DEF StartLoad, LoadStep, LoadStops, StampHead, ByHand, Fault, treeVars, history,
        IInv, TypeOK
<1>4. /\ Versioned(db')
      /\ \/ db'.version = db.version /\ left' = left
         \/ db'.version = Revision[tree.base] /\ left' = "nobody"
  <2>1. CASE StartLoad \/ LoadStops
      BY <2>1 DEF StartLoad, LoadStops, IInv, Shape
  <2>2. CASE LoadStep
      BY <2>2, RunVersion DEF LoadStep, history, IInv, Shape
  <2>3. CASE StampHead
    <3>1. PICK v : v = Revision[tree.base] /\ db' = [db EXCEPT !.version = v] /\ left' = "nobody"
        BY <2>3 DEF StampHead
    <3>2. "version" \in DOMAIN db' /\ db'.version = v
        BY <3>1, Zenon DEF IInv, Shape, Versioned
    <3>3. QED
        BY <1>1, <3>1, <3>2 DEF Versioned
  <2>4. QED
      BY <2>1, <2>2, <2>3
<1>5. TypeOK'
    BY <1>2, <1>3, <1>4 DEF IInv, TypeOK, Versioned
<1>6. Ready'
    BY <1>1, <1>3, <1>4 DEF IInv, Ready
<1>7. QED
    BY <1>3, <1>4, <1>5, <1>6 DEF IInv, Shape, Versioned, Order, Owned

LEMMA NextInv == IInv /\ [Next]_vars => IInv'
<1> SUFFICES ASSUME IInv, [Next]_vars PROVE IInv'
    OBVIOUS
<1>1. CASE Poll \/ Fetch \/ FetchFails \/ Pull \/ PullRefused \/ RestartFails
    BY <1>1, ScriptSteps
<1>2. CASE ScriptMigrates \/ Migrate
    BY <1>2, MigrateSteps
<1>3. CASE Step \/ Stamp
    BY <1>3, StatementSteps
<1>4. CASE CommitRun
    BY <1>4, CommitStep
<1>5. CASE RollBack \/ Kill
    BY <1>5, BreakSteps
<1>6. CASE Restart \/ \E w \in Worker : WorkerStarts(w)
    BY <1>6, WorkerSteps
<1>7. CASE Push \/ EditCheckout
    BY <1>7, TreeSteps
<1>8. CASE StartLoad \/ LoadStep \/ LoadStops \/ StampHead
    BY <1>8, LoadSteps
<1>9. CASE UNCHANGED vars
    BY <1>9 DEF vars, treeVars, dbVars, history, IInv, TypeOK, Shape, Versioned, Order,
                Owned, Ready
<1>10. QED
    BY <1>1, <1>2, <1>3, <1>4, <1>5, <1>6, <1>7, <1>8, <1>9
    DEF Next, ScriptStep, AlembicStep

\* The inductive invariant holds throughout.
THEOREM Invariance == Spec => []IInv
    BY InitInv, NextInv, PTL DEF Spec

\* Checkout, script, Alembic run and workers keep their types.
THEOREM TypeCorrect == Spec => []TypeOK
<1>1. IInv => TypeOK
    BY DEF IInv
<1>2. QED
    BY <1>1, Invariance, PTL

\* A worker ahead of the database is explained, for any number of commits, workers,
\* faults and interventions (auto-deploy.sh, lms-backend.service).
THEOREM AheadOnlyExplained == Spec => []AheadExplained
<1>1. IInv => AheadExplained
  <2> SUFFICES ASSUME IInv, left = "nobody", script.pc \notin {"migrate", "alembic"},
                      NEW w \in Worker, worker[w] # 0
               PROVE  ~(Revision[worker[w]] > db.version)
      BY DEF AheadExplained
  <2>1. /\ worker[w] \in Commit /\ tree.base \in Commit /\ worker[w] <= tree.base
        /\ Revision[tree.base] <= db.version
      BY DEF IInv, TypeOK, Checkout, Order, Ready
  <2>2. /\ Revision[worker[w]] <= Revision[tree.base]
        /\ Revision[worker[w]] \in 0 .. 2 /\ Revision[tree.base] \in 0 .. 2
        /\ db.version \in 0 .. 2
      BY <2>1, Constants DEF IInv, TypeOK
  <2>3. QED
      BY <2>1, <2>2
<1>2. QED
    BY <1>1, Invariance, PTL

-----------------------------------------------------------------------------
(* What the database holds, at every statement of a migration and of the    *)
(* SQL files                                                                *)

\* What upgrade of the first revision has brought after n statements, and 0002.
Made(n) == {InitialTables[i].name : i \in 1 .. n}
MadeTypes(n) == UNION {InitialTables[i].types : i \in 1 .. n}
Secured(n) == {RLS_TABLES[i] : i \in 1 .. n}
Policies == Expected(2).protected
TypeNames == Range(SortedTypes)

Database ==
    [tables : SUBSET TableNames, types : SUBSET TypeNames,
     protected : SUBSET TableNames, version : Revisions]

\* d is a whole revision, but for policies a wrong stamp has made up.
Whole(d) ==
    /\ d.version = 0 => d.tables = {} /\ d.protected = {}
    /\ d.version # 0 => d.tables = TableNames
    /\ d.version = 1 => d.protected = {}
    /\ d.version = 2 => /\ d.protected \subseteq Policies
                        /\ d.protected = Policies \/ Misstamped

\* d is what n statements of the SQL files have brought.
First(s, n) == {s[i] : i \in {j \in DOMAIN s : j <= n}}
Loaded(d, n) ==
    /\ d.version = 0
    /\ d.types = First(SortedTypes, n)
    /\ d.tables = First(SortedTables, n - Len(SortedTypes))
    /\ d.protected = First(DumpedRls, n - Len(SortedTypes) - Len(SortedTables))

LoadOK ==
    /\ load.pc # "none" =>
          /\ load.of \in {1, 2} /\ load.of <= Revision[tree.base]
          /\ load.done <= Len(SqlFiles[load.of])
    /\ load.pc = "none" => load.done = 0 /\ load.of = 0
    /\ load.pc = "running" => Loaded(db, load.done)

DbOK ==
    /\ db \in Database /\ tx.schema \in Database
    /\ Whole(db) \/ (load.pc \in {"running", "stopped"} /\ Loaded(db, load.done))

\* d is n statements into the migration to the next revision.
Rising(d, n) ==
    /\ d.version = 0 =>
          /\ db.version = 0
          /\ d.tables = db.tables \cup Made(n)
          /\ d.types = db.types \cup MadeTypes(n)
          /\ d.protected = db.protected
          /\ db.types \cap MadeTypes(n) = {}
    /\ d.version = 1 => d.tables = TableNames /\ d.protected = Secured(n)

\* d is n statements into the migration to the revision before.
Falling(d, n) ==
    /\ d.version = 2 =>
          /\ d.tables = TableNames
          /\ d.protected \subseteq Policies \ Secured(n)
          /\ d.protected = Policies \ Secured(n) \/ Misstamped
    /\ d.version = 1 => d.tables = Made(Len(InitialTables) - n) /\ d.protected = {}

TxOK ==
    tx.by # "nobody" =>
        /\ ~Loading
        /\ load.pc = "running" => tx.schema.version = 0 /\ tx.target # 0
        /\ tx.schema.version = tx.target => Whole(tx.schema)
        /\ tx.schema.version # tx.target => tx.next \in 1 .. Len(Current) + 1
        /\ tx.schema.version < tx.target => Rising(tx.schema, tx.next - 1)
        /\ tx.schema.version > tx.target => Falling(tx.schema, tx.next - 1)

SchemaInv == LoadOK /\ DbOK /\ TxOK

-----------------------------------------------------------------------------
(* The lists                                                                *)

LEMMA FunctionIsSeq ==
    ASSUME NEW n \in Nat, NEW f, DOMAIN f = 1 .. n, NEW S, f \in [1 .. n -> S]
    PROVE  f \in Seq(S) /\ Len(f) = n
<1>1. f \in Seq(S)
    BY SeqDef
<1>2. Len(f) \in Nat /\ DOMAIN f = 1 .. Len(f)
    BY <1>1, LenProperties
<1>3. QED
    BY <1>1, <1>2

\* Len(s) is the number of places of a list.
LEMMA ListsOK ==
    ASSUME NEW s, NEW S, Lists(s, S)
    PROVE  /\ Len(s) \in Nat /\ DOMAIN s = 1 .. Len(s) /\ s \in Seq(S)
           /\ \A i \in 1 .. Len(s) : s[i] \in S
           /\ \A i, j \in 1 .. Len(s) : s[i] = s[j] => i = j
           /\ \A x \in S : \E i \in 1 .. Len(s) : s[i] = x
<1>1. s \in Seq(S) /\ IsInjective(s) /\ Range(s) = S
    BY DEF Lists
<1>2. Len(s) \in Nat /\ DOMAIN s = 1 .. Len(s) /\ s \in [1 .. Len(s) -> S]
    BY <1>1, LenProperties
<1>3. QED
    BY <1>1, <1>2 DEF IsInjective, Range

\* The tables of the first revision, their types and the policies of the second.
LEMMA TheTables ==
    /\ Len(InitialTables) \in Nat /\ DOMAIN InitialTables = 1 .. Len(InitialTables)
    /\ InitialTables \in Seq(Table)
    /\ \A i \in 1 .. Len(InitialTables) :
          /\ InitialTables[i] \in Table /\ InitialTables[i] \in Tables
          /\ Named[InitialTables[i].name] = InitialTables[i]
    /\ \A i, j \in 1 .. Len(InitialTables) : i < j =>
          /\ InitialTables[i].name # InitialTables[j].name
          /\ InitialTables[i].types \cap InitialTables[j].types = {}
          /\ InitialTables[j].name \notin InitialTables[i].references
    /\ \A n \in TableNames :
          Named[n].references \subseteq TableNames
          /\ \E i \in 1 .. Len(InitialTables) : n = InitialTables[i].name
<1>1. /\ Len(InitialTables) \in Nat /\ DOMAIN InitialTables = 1 .. Len(InitialTables)
      /\ InitialTables \in Seq(Table)
      /\ \A i \in 1 .. Len(InitialTables) : InitialTables[i] \in Table
    BY TablesAssumption, LenProperties, ElementOfSeq
<1>2. \A i, j \in 1 .. Len(InitialTables) : i < j =>
          /\ InitialTables[i].name # InitialTables[j].name
          /\ InitialTables[i].types \cap InitialTables[j].types = {}
          /\ InitialTables[j].name \notin InitialTables[i].references
    BY <1>1, TablesAssumption
<1>3. \A t \in Tables : \E i \in 1 .. Len(InitialTables) : t = InitialTables[i]
    BY <1>1 DEF Tables
<1>4. \A t, u \in Tables : t.name = u.name => t = u
  <2> SUFFICES ASSUME NEW t \in Tables, NEW u \in Tables, t.name = u.name
               PROVE  t = u
      OBVIOUS
  <2>1. PICK i, j \in 1 .. Len(InitialTables) : t = InitialTables[i] /\ u = InitialTables[j]
      BY <1>3
  <2>2. ~(i < j) /\ ~(j < i)
      BY <1>2, <2>1
  <2>3. i = j
      BY <1>1, <2>2
  <2>4. QED
      BY <2>1, <2>3
<1>5. \A i \in 1 .. Len(InitialTables) :
          InitialTables[i] \in Tables /\ InitialTables[i].name \in TableNames
    BY <1>1 DEF Tables, TableNames
<1>6. \A n \in TableNames : Named[n] \in Tables /\ Named[n].name = n
  <2> SUFFICES ASSUME NEW n \in TableNames PROVE Named[n] \in Tables /\ Named[n].name = n
      OBVIOUS
  <2>1. \E t \in Tables : t.name = n
      BY DEF TableNames
  <2>2. Named[n] = CHOOSE t \in Tables : t.name = n
      BY DEF Named
  <2>3. QED
      BY <2>1, <2>2
<1>7. \A i \in 1 .. Len(InitialTables) : Named[InitialTables[i].name] = InitialTables[i]
    BY <1>4, <1>5, <1>6
<1>8. \A n \in TableNames :
          Named[n].references \subseteq TableNames
          /\ \E i \in 1 .. Len(InitialTables) : n = InitialTables[i].name
  <2> SUFFICES ASSUME NEW n \in TableNames
               PROVE  Named[n].references \subseteq TableNames
                      /\ \E i \in 1 .. Len(InitialTables) : n = InitialTables[i].name
      OBVIOUS
  <2>1. PICK i \in 1 .. Len(InitialTables) : Named[n] = InitialTables[i]
      BY <1>3, <1>6
  <2>2. QED
      BY <1>1, <1>6, <2>1 DEF Table
<1>9. QED
    BY <1>1, <1>2, <1>5, <1>7, <1>8

LEMMA TheLists ==
    /\ Lists(SortedTables, TableNames) /\ Lists(SortedTypes, TypeNames)
    /\ Lists(RLS_TABLES, Policies) /\ Lists(DumpedRls, Policies)
    /\ Policies \subseteq TableNames
    /\ Len(SortedTypes) # 0
    /\ \A x \in TypeNames : \E i \in 1 .. Len(InitialTables) : x \in InitialTables[i].types
<1>1. /\ Lists(SortedTables, TableNames) /\ Lists(RLS_TABLES, Policies)
      /\ Lists(DumpedRls, Policies)
      /\ Lists(SortedTypes, UNION {t.types : t \in Tables})
    BY TablesAssumption DEF Policies
<1>2. Lists(SortedTypes, TypeNames) /\ TypeNames = UNION {t.types : t \in Tables}
    BY <1>1 DEF Lists, TypeNames
<1>3. Policies \subseteq TableNames
    BY DEF Policies, Expected, TableNames
<1>4. Len(SortedTypes) = 9
    BY DEF SortedTypes
<1>5. \A x \in TypeNames : \E i \in 1 .. Len(InitialTables) : x \in InitialTables[i].types
    BY <1>2, TheTables DEF Tables
<1>6. QED
    BY <1>1, <1>2, <1>3, <1>4, <1>5

\* The statements of the migrations, one by one.
LEMMA Migrations ==
    /\ Len(Upgrades[1]) = Len(InitialTables) /\ Len(Downgrades[1]) = Len(InitialTables)
    /\ \A i \in 1 .. Len(InitialTables) :
          /\ Upgrades[1][i] = CreateTable(InitialTables[i])
          /\ Downgrades[1][i] = DropTable(InitialTables[Len(InitialTables) - i + 1])
    /\ Len(Upgrades[2]) = Len(RLS_TABLES) /\ Len(Downgrades[2]) = Len(RLS_TABLES)
    /\ \A i \in 1 .. Len(RLS_TABLES) :
          /\ Upgrades[2][i] = Protect(RLS_TABLES[i])
          /\ Downgrades[2][i] = Unprotect(RLS_TABLES[i])
<1> DEFINE N == Len(InitialTables)
           R == Len(RLS_TABLES)
<1>1. /\ Upgrades[1] = InitialUpgrade /\ Upgrades[2] = RlsUpgrade
      /\ Downgrades[1] = InitialDowngrade /\ Downgrades[2] = RlsDowngrade
    BY DEF Upgrades, Downgrades
<1>2. N \in Nat /\ DOMAIN InitialTables = 1 .. N
    BY TheTables
<1>3. R \in Nat /\ DOMAIN RLS_TABLES = 1 .. R
    BY TheLists, ListsOK
<1>4. InitialUpgrade = [i \in 1 .. N |-> CreateTable(InitialTables[i])]
    BY <1>2 DEF InitialUpgrade
<1>5. InitialDowngrade = [i \in 1 .. N |-> DropTable(InitialTables[N - i + 1])]
  <2>1. Reverse(InitialTables) = [i \in 1 .. N |-> InitialTables[N - i + 1]]
      BY DEF Reverse
  <2>2. QED
      BY <2>1 DEF InitialDowngrade
<1>6. /\ RlsUpgrade = [i \in 1 .. R |-> Protect(RLS_TABLES[i])]
      /\ RlsDowngrade = [i \in 1 .. R |-> Unprotect(RLS_TABLES[i])]
    BY <1>3 DEF RlsUpgrade, RlsDowngrade
<1> HIDE DEF N, R
<1>7. Len(InitialUpgrade) = N /\ Len(InitialDowngrade) = N
  <2>1. \A f : DOMAIN f = 1 .. N /\ f \in [1 .. N -> Range(f)] => Len(f) = N
      BY <1>2, FunctionIsSeq
  <2>2. DOMAIN InitialUpgrade = 1 .. N /\ InitialUpgrade \in [1 .. N -> Range(InitialUpgrade)]
      BY <1>4 DEF Range
  <2>3. DOMAIN InitialDowngrade = 1 .. N /\ InitialDowngrade \in [1 .. N -> Range(InitialDowngrade)]
      BY <1>5 DEF Range
  <2>4. QED
      BY <2>1, <2>2, <2>3
<1>8. Len(RlsUpgrade) = R /\ Len(RlsDowngrade) = R
  <2>1. \A f : DOMAIN f = 1 .. R /\ f \in [1 .. R -> Range(f)] => Len(f) = R
      BY <1>3, FunctionIsSeq
  <2>2. DOMAIN RlsUpgrade = 1 .. R /\ RlsUpgrade \in [1 .. R -> Range(RlsUpgrade)]
      BY <1>6 DEF Range
  <2>3. DOMAIN RlsDowngrade = 1 .. R /\ RlsDowngrade \in [1 .. R -> Range(RlsDowngrade)]
      BY <1>6 DEF Range
  <2>4. QED
      BY <2>1, <2>2, <2>3
<1>9. \A i \in 1 .. N : /\ InitialUpgrade[i] = CreateTable(InitialTables[i])
                        /\ InitialDowngrade[i] = DropTable(InitialTables[N - i + 1])
    BY <1>4, <1>5
<1>10. \A i \in 1 .. R : /\ RlsUpgrade[i] = Protect(RLS_TABLES[i])
                         /\ RlsDowngrade[i] = Unprotect(RLS_TABLES[i])
    BY <1>6
<1>11. QED
    BY <1>1, <1>7, <1>8, <1>9, <1>10 DEF N, R

LEMMA Joined ==
    ASSUME NEW S, NEW s \in Seq(S), NEW t \in Seq(S)
    PROVE  /\ s \o t \in Seq(S) /\ Len(s \o t) = Len(s) + Len(t)
           /\ \A i \in 1 .. Len(s) : (s \o t)[i] = s[i]
           /\ \A i \in 1 .. Len(t) : (s \o t)[Len(s) + i] = t[i]
<1>1. /\ s \o t \in Seq(S) /\ Len(s \o t) = Len(s) + Len(t)
      /\ \A i \in 1 .. Len(s) + Len(t) :
            (s \o t)[i] = IF i <= Len(s) THEN s[i] ELSE t[i - Len(s)]
    BY ConcatProperties
<1>2. Len(s) \in Nat /\ Len(t) \in Nat
    BY LenProperties
<1>3. \A i \in 1 .. Len(s) : i \in 1 .. Len(s) + Len(t)
    BY <1>2
<1>4. \A i \in 1 .. Len(t) : /\ Len(s) + i \in 1 .. Len(s) + Len(t)
                             /\ ~(Len(s) + i <= Len(s)) /\ Len(s) + i - Len(s) = i
    BY <1>2
<1>5. QED
    BY <1>1, <1>3, <1>4

\* The statements of the SQL files, one by one.
LEMMA Files ==
    /\ Len(SqlFiles[1]) = Len(SortedTypes) + Len(SortedTables)
    /\ Len(SqlFiles[2]) = Len(SortedTypes) + Len(SortedTables) + Len(DumpedRls)
    /\ \A f \in {1, 2} :
          /\ \A i \in 1 .. Len(SortedTypes) : SqlFiles[f][i] =
                [op |-> "type", table |-> "modules", types |-> {SortedTypes[i]}]
          /\ \A i \in 1 .. Len(SortedTables) : SqlFiles[f][Len(SortedTypes) + i] =
                [op |-> "create", table |-> SortedTables[i], types |-> {}]
    /\ \A i \in 1 .. Len(DumpedRls) :
          SqlFiles[2][Len(SortedTypes) + Len(SortedTables) + i] = Protect(DumpedRls[i])
<1> DEFINE T == Len(SortedTypes)
           B == Len(SortedTables)
           R == Len(DumpedRls)
           types == [i \in DOMAIN SortedTypes |->
                        [op |-> "type", table |-> "modules", types |-> {SortedTypes[i]}]]
           tables == [i \in DOMAIN SortedTables |->
                         [op |-> "create", table |-> SortedTables[i], types |-> {}]]
           rls == [i \in DOMAIN DumpedRls |-> Protect(DumpedRls[i])]
           S == Range(types) \cup Range(tables) \cup Range(rls)
<1>1. SqlFiles[1] = types \o tables /\ SqlFiles[2] = (types \o tables) \o rls
    BY DEF SqlFiles
<1>2. /\ T \in Nat /\ DOMAIN SortedTypes = 1 .. T
      /\ B \in Nat /\ DOMAIN SortedTables = 1 .. B
      /\ R \in Nat /\ DOMAIN DumpedRls = 1 .. R
    BY TheLists, ListsOK
<1>3. /\ DOMAIN types = 1 .. T /\ DOMAIN tables = 1 .. B /\ DOMAIN rls = 1 .. R
      /\ types \in [1 .. T -> S] /\ tables \in [1 .. B -> S] /\ rls \in [1 .. R -> S]
    BY <1>2 DEF Range
<1>4. /\ \A i \in 1 .. T : types[i] =
            [op |-> "type", table |-> "modules", types |-> {SortedTypes[i]}]
      /\ \A i \in 1 .. B : tables[i] = [op |-> "create", table |-> SortedTables[i], types |-> {}]
      /\ \A i \in 1 .. R : rls[i] = Protect(DumpedRls[i])
    BY <1>2
<1> HIDE DEF T, B, R, types, tables, rls, S
<1>5. /\ types \in Seq(S) /\ tables \in Seq(S) /\ rls \in Seq(S)
      /\ Len(types) = T /\ Len(tables) = B /\ Len(rls) = R
    BY <1>2, <1>3, FunctionIsSeq
<1>6. PICK first :
          /\ first = types \o tables /\ first \in Seq(S) /\ Len(first) = T + B
          /\ \A i \in 1 .. T : first[i] = types[i]
          /\ \A i \in 1 .. B : first[T + i] = tables[i]
  <2>1. PICK first : first = types \o tables
      OBVIOUS
  <2>2. /\ first \in Seq(S) /\ Len(first) = Len(types) + Len(tables)
        /\ \A i \in 1 .. Len(types) : first[i] = types[i]
        /\ \A i \in 1 .. Len(tables) : first[Len(types) + i] = tables[i]
    <3>1. types \in Seq(S) /\ tables \in Seq(S)
        BY <1>5
    <3>2. QED
        BY <2>1, <3>1, Joined
  <2>3. QED
      BY <1>5, <2>1, <2>2
<1>7. PICK all :
          /\ all = first \o rls /\ Len(all) = (T + B) + R
          /\ \A i \in 1 .. T + B : all[i] = first[i]
          /\ \A i \in 1 .. R : all[T + B + i] = rls[i]
  <2>1. PICK all : all = first \o rls
      OBVIOUS
  <2>2. /\ Len(all) = Len(first) + Len(rls)
        /\ \A i \in 1 .. Len(first) : all[i] = first[i]
        /\ \A i \in 1 .. Len(rls) : all[Len(first) + i] = rls[i]
    <3>1. first \in Seq(S) /\ rls \in Seq(S)
        BY <1>5, <1>6
    <3>2. QED
        BY <2>1, <3>1, Joined
  <2>3. Len(first) = T + B /\ Len(rls) = R
      BY <1>5, <1>6
  <2>4. /\ Len(all) = (T + B) + R
        /\ \A i \in 1 .. T + B : all[i] = first[i]
        /\ \A i \in 1 .. R : all[T + B + i] = rls[i]
      BY <2>2, <2>3
  <2>5. QED
      BY <2>1, <2>4
<1>8. /\ \A i \in 1 .. T : SqlFiles[1][i] = types[i] /\ SqlFiles[2][i] = types[i]
      /\ \A i \in 1 .. B : SqlFiles[1][T + i] = tables[i] /\ SqlFiles[2][T + i] = tables[i]
      /\ \A i \in 1 .. R : SqlFiles[2][T + B + i] = rls[i]
  <2>1. T \in Nat /\ B \in Nat
      BY <1>2
  <2>2. \A i \in 1 .. T : i \in 1 .. T + B
      BY <2>1
  <2>3. \A i \in 1 .. B : T + i \in 1 .. T + B
      BY <2>1
  <2>4. QED
      BY <1>1, <1>6, <1>7, <2>2, <2>3
<1>9. Len(SqlFiles[1]) = T + B /\ Len(SqlFiles[2]) = T + B + R
    BY <1>1, <1>6, <1>7
<1>10. QED
    BY <1>4, <1>8, <1>9 DEF T, B, R

\* What each kind of statement makes of a database.
LEMMA RunStatement ==
    ASSUME NEW d \in Database, NEW s
    PROVE  \E b, c :
               /\ Run(d, s) = [tables |-> b, types |-> d.types \cup s.types,
                               protected |-> c, version |-> d.version]
               /\ s.op = "type" => b = d.tables /\ c = d.protected
               /\ s.op = "create" => b = d.tables \cup {s.table} /\ c = d.protected
               /\ s.op = "drop" => b = d.tables \ {s.table} /\ c = d.protected \ {s.table}
               /\ s.op = "protect" => b = d.tables /\ c = d.protected \cup {s.table}
               /\ s.op = "unprotect" => b = d.tables /\ c = d.protected \ {s.table}
<1>1. PICK a, b, c :
          /\ Run(d, s) = [d EXCEPT !.types = a, !.tables = b, !.protected = c]
          /\ a = d.types \cup s.types
          /\ b = CASE s.op = "create" -> d.tables \cup {s.table}
                   [] s.op = "drop" -> d.tables \ {s.table}
                   [] OTHER -> d.tables
          /\ c = CASE s.op = "protect" -> d.protected \cup {s.table}
                   [] s.op \in {"unprotect", "drop"} -> d.protected \ {s.table}
                   [] OTHER -> d.protected
    BY Zenon DEF Run
<1>2. Run(d, s) = [tables |-> b, types |-> a, protected |-> c, version |-> d.version]
    BY <1>1 DEF Database
<1>3. /\ s.op = "type" => b = d.tables /\ c = d.protected
      /\ s.op = "create" => b = d.tables \cup {s.table} /\ c = d.protected
      /\ s.op = "drop" => b = d.tables \ {s.table} /\ c = d.protected \ {s.table}
      /\ s.op = "protect" => b = d.tables /\ c = d.protected \cup {s.table}
      /\ s.op = "unprotect" => b = d.tables /\ c = d.protected \ {s.table}
    BY <1>1
<1>4. QED
    BY <1>1, <1>2, <1>3, Zenon

\* What PostgreSQL asks of each kind of statement.
LEMMA AcceptStatement ==
    ASSUME NEW d, NEW s
    PROVE  /\ s.op = "type" => (Accepts(d, s) <=> s.types \cap d.types = {})
           /\ s.op = "create" =>
                 (Accepts(d, s) <=> /\ s.table \notin d.tables
                                    /\ Named[s.table].references \subseteq d.tables \cup {s.table}
                                    /\ s.types \cap d.types = {})
           /\ s.op = "drop" =>
                 (Accepts(d, s) <=>
                     /\ s.table \in d.tables
                     /\ \A n \in d.tables \ {s.table} : s.table \notin Named[n].references)
           /\ s.op = "protect" => (Accepts(d, s) <=> s.table \in d.tables \ d.protected)
           /\ s.op = "unprotect" => (Accepts(d, s) <=> s.table \in d.tables)
BY DEF Accepts

\* How tables and policies come and go, a statement at a time.
LEMMA Growth ==
    /\ Made(0) = {} /\ MadeTypes(0) = {}
    /\ Made(Len(InitialTables)) = TableNames /\ MadeTypes(Len(InitialTables)) = TypeNames
    /\ \A n \in 1 .. Len(InitialTables) :
          /\ Made(n) = Made(n - 1) \cup {InitialTables[n].name}
          /\ Made(n - 1) = Made(n) \ {InitialTables[n].name}
          /\ InitialTables[n].name \notin Made(n - 1)
          /\ InitialTables[n].references \subseteq Made(n)
          /\ \A t \in Made(n - 1) : InitialTables[n].name \notin Named[t].references
          /\ MadeTypes(n) = MadeTypes(n - 1) \cup InitialTables[n].types
          /\ InitialTables[n].types \cap MadeTypes(n - 1) = {}
<1> DEFINE N == Len(InitialTables)
<1>1. /\ N \in Nat
      /\ \A i \in 1 .. N : /\ InitialTables[i] \in Table
                           /\ Named[InitialTables[i].name] = InitialTables[i]
    BY TheTables
<1>2. Made(0) = {} /\ MadeTypes(0) = {}
    BY DEF Made, MadeTypes
<1>3. Made(N) = TableNames
    BY TheTables DEF Made, Table
<1>4. MadeTypes(N) = TypeNames
  <2>1. \A i \in 1 .. N : InitialTables[i].types \subseteq TypeNames
      BY <1>1 DEF Table, TypeNames
  <2>2. QED
      BY <2>1, TheLists DEF MadeTypes
<1>5. ASSUME NEW n \in 1 .. N
      PROVE  /\ Made(n) = Made(n - 1) \cup {InitialTables[n].name}
             /\ Made(n - 1) = Made(n) \ {InitialTables[n].name}
             /\ InitialTables[n].name \notin Made(n - 1)
             /\ InitialTables[n].references \subseteq Made(n)
             /\ \A t \in Made(n - 1) : InitialTables[n].name \notin Named[t].references
             /\ MadeTypes(n) = MadeTypes(n - 1) \cup InitialTables[n].types
             /\ InitialTables[n].types \cap MadeTypes(n - 1) = {}
  <2>1. /\ 1 .. n = (1 .. n - 1) \cup {n}
        /\ \A i \in 1 .. n - 1 : i \in 1 .. N /\ i < n
        /\ \A i \in 1 .. N : i \in 1 .. n \/ n < i
      BY <1>1
  <2>2. \A i, j \in 1 .. N : i < j =>
            /\ InitialTables[i].name # InitialTables[j].name
            /\ InitialTables[i].types \cap InitialTables[j].types = {}
            /\ InitialTables[j].name \notin InitialTables[i].references
      BY TheTables
  <2>3. \A t : t \in Made(n) <=> \E i \in 1 .. n : t = InitialTables[i].name
      BY DEF Made
  <2>4. \A t : t \in Made(n - 1) <=> \E i \in 1 .. n - 1 : t = InitialTables[i].name
      BY DEF Made
  <2>5. Made(n) = Made(n - 1) \cup {InitialTables[n].name}
      BY <2>1 DEF Made
  <2>6. InitialTables[n].name \notin Made(n - 1)
      BY <2>1, <2>2, <2>4
  <2>7. InitialTables[n].references \subseteq Made(n)
    <3> SUFFICES ASSUME NEW t \in InitialTables[n].references
                 PROVE  t \in Made(n)
        OBVIOUS
    <3>1. t \in TableNames
        BY <1>1 DEF Table
    <3>2. PICK i \in 1 .. N : t = InitialTables[i].name
        BY <3>1, TheTables
    <3>3. ~(n < i)
        BY <2>2, <3>2
    <3>4. QED
        BY <2>1, <2>3, <3>2, <3>3
  <2>8. \A t \in Made(n - 1) : InitialTables[n].name \notin Named[t].references
      BY <1>1, <2>1, <2>2, <2>4
  <2>9. MadeTypes(n) = MadeTypes(n - 1) \cup InitialTables[n].types
    <3>1. \A x : x \in MadeTypes(n) <=> \E i \in 1 .. n : x \in InitialTables[i].types
        BY DEF MadeTypes
    <3>2. \A x : x \in MadeTypes(n - 1) <=> \E i \in 1 .. n - 1 : x \in InitialTables[i].types
        BY DEF MadeTypes
    <3>3. QED
        BY <2>1, <3>1, <3>2
  <2>10. InitialTables[n].types \cap MadeTypes(n - 1) = {}
    <3>1. \A x \in MadeTypes(n - 1) : \E i \in 1 .. n - 1 : x \in InitialTables[i].types
        BY DEF MadeTypes
    <3>2. QED
        BY <2>1, <2>2, <3>1
  <2>11. QED
      BY <2>5, <2>6, <2>7, <2>8, <2>9, <2>10
<1>6. QED
    BY <1>2, <1>3, <1>4, <1>5

LEMMA Securing ==
    /\ Secured(0) = {} /\ Secured(Len(RLS_TABLES)) = Policies
    /\ \A n \in 1 .. Len(RLS_TABLES) :
          /\ Secured(n) = Secured(n - 1) \cup {RLS_TABLES[n]}
          /\ RLS_TABLES[n] \notin Secured(n - 1)
          /\ RLS_TABLES[n] \in Policies /\ RLS_TABLES[n] \in TableNames
<1> DEFINE R == Len(RLS_TABLES)
<1>1. /\ R \in Nat
      /\ \A i \in 1 .. R : RLS_TABLES[i] \in Policies
      /\ \A i, j \in 1 .. R : RLS_TABLES[i] = RLS_TABLES[j] => i = j
      /\ \A x \in Policies : \E i \in 1 .. R : RLS_TABLES[i] = x
    BY TheLists, ListsOK
<1>2. Secured(0) = {} /\ Secured(R) = Policies
    BY <1>1 DEF Secured
<1>3. ASSUME NEW n \in 1 .. R
      PROVE  /\ Secured(n) = Secured(n - 1) \cup {RLS_TABLES[n]}
             /\ RLS_TABLES[n] \notin Secured(n - 1)
  <2>1. 1 .. n = (1 .. n - 1) \cup {n} /\ \A i \in 1 .. n - 1 : i \in 1 .. R /\ i # n
      BY <1>1
  <2>2. QED
      BY <1>1, <2>1 DEF Secured
<1>4. QED
    BY <1>1, <1>2, <1>3, TheLists
-----------------------------------------------------------------------------
(* A statement of a migration                                               *)

\* The first upgrade: PostgreSQL accepts the n-th statement unless a type or a table is
\* there already, and what it accepts brings the next table.
LEMMA CreateTables ==
    ASSUME NEW d \in Database, NEW n \in 1 .. Len(InitialTables), d.version = 0,
           Rising(d, n - 1)
    PROVE  LET s == Upgrades[1][n] IN
           /\ Accepts(d, s) =>
                 Run(d, s) \in Database /\ Run(d, s).version = 0 /\ Rising(Run(d, s), n)
           /\ db.tables = {} /\ db.types = {} => Accepts(d, s)
<1>1. PICK s : s = Upgrades[1][n] /\ s = CreateTable(InitialTables[n])
    BY Migrations
<1>2. /\ s.op = "create" /\ s.table = InitialTables[n].name /\ s.types = InitialTables[n].types
    BY <1>1 DEF CreateTable
<1>3. /\ s.table \in TableNames /\ s.types \subseteq TypeNames
      /\ Named[s.table].references = InitialTables[n].references
    BY <1>2, TheTables DEF Table, TypeNames
<1>4. /\ db.version = 0
      /\ d.tables = db.tables \cup Made(n - 1)
      /\ d.types = db.types \cup MadeTypes(n - 1)
      /\ d.protected = db.protected
      /\ db.types \cap MadeTypes(n - 1) = {}
    BY DEF Rising
<1>5. /\ Made(n) = Made(n - 1) \cup {s.table}
      /\ MadeTypes(n) = MadeTypes(n - 1) \cup s.types
      /\ s.table \notin Made(n - 1)
      /\ Named[s.table].references \subseteq Made(n)
      /\ s.types \cap MadeTypes(n - 1) = {}
    BY <1>2, <1>3, Growth
<1>6. Run(d, s) = [tables |-> d.tables \cup {s.table}, types |-> d.types \cup s.types,
                   protected |-> d.protected, version |-> d.version]
    BY <1>2, RunStatement
<1>7. ASSUME Accepts(d, s)
      PROVE  Run(d, s) \in Database /\ Run(d, s).version = 0 /\ Rising(Run(d, s), n)
  <2>1. s.types \cap d.types = {}
      BY <1>2, <1>7, AcceptStatement
  <2>2. Run(d, s) \in Database
      BY <1>3, <1>6 DEF Database
  <2>3. /\ Run(d, s).tables = d.tables \cup {s.table} /\ Run(d, s).types = d.types \cup s.types
        /\ Run(d, s).protected = d.protected /\ Run(d, s).version = 0
      BY <1>6
  <2>4. db.types \cap MadeTypes(n) = {}
      BY <1>4, <1>5, <2>1
  <2>5. Rising(Run(d, s), n)
      BY <1>4, <1>5, <2>3, <2>4 DEF Rising
  <2>6. QED
      BY <2>2, <2>3, <2>5
<1>8. ASSUME db.tables = {}, db.types = {}
      PROVE  Accepts(d, s)
  <2>1. /\ s.table \notin d.tables /\ Named[s.table].references \subseteq d.tables \cup {s.table}
        /\ s.types \cap d.types = {}
      BY <1>4, <1>5, <1>8
  <2>2. QED
      BY <1>2, <2>1, AcceptStatement
<1>9. QED
    BY <1>1, <1>7, <1>8

\* 0002: every statement is accepted and protects the next table.
LEMMA ProtectTables ==
    ASSUME NEW d \in Database, NEW n \in 1 .. Len(RLS_TABLES), d.version = 1,
           Rising(d, n - 1)
    PROVE  LET s == Upgrades[2][n] IN
           /\ Run(d, s) \in Database /\ Run(d, s).version = 1 /\ Rising(Run(d, s), n)
           /\ Accepts(d, s)
<1>1. PICK s : s = Upgrades[2][n] /\ s = Protect(RLS_TABLES[n])
    BY Migrations
<1>2. s.op = "protect" /\ s.table = RLS_TABLES[n] /\ s.types = {}
    BY <1>1 DEF Protect
<1>3. d.tables = TableNames /\ d.protected = Secured(n - 1)
    BY DEF Rising
<1>4. /\ Secured(n) = Secured(n - 1) \cup {s.table} /\ s.table \notin Secured(n - 1)
      /\ s.table \in TableNames
    BY <1>2, Securing
<1>5. Run(d, s) = [tables |-> d.tables, types |-> d.types \cup s.types,
                   protected |-> d.protected \cup {s.table}, version |-> d.version]
    BY <1>2, RunStatement
<1>6. Run(d, s) \in Database
    BY <1>2, <1>4, <1>5 DEF Database
<1>7. Run(d, s).version = 1 /\ Rising(Run(d, s), n)
    BY <1>3, <1>4, <1>5 DEF Rising
<1>8. Accepts(d, s)
    BY <1>2, <1>3, <1>4, AcceptStatement
<1>9. QED
    BY <1>1, <1>6, <1>7, <1>8

\* The downgrade of 0002: every statement is accepted and removes the next policy.
LEMMA UnprotectTables ==
    ASSUME NEW d \in Database, NEW n \in 1 .. Len(RLS_TABLES), d.version = 2,
           Falling(d, n - 1)
    PROVE  LET s == Downgrades[2][n] IN
           /\ Run(d, s) \in Database /\ Run(d, s).version = 2 /\ Falling(Run(d, s), n)
           /\ Accepts(d, s)
<1>1. PICK s : s = Downgrades[2][n] /\ s = Unprotect(RLS_TABLES[n])
    BY Migrations
<1>2. s.op = "unprotect" /\ s.table = RLS_TABLES[n] /\ s.types = {}
    BY <1>1 DEF Unprotect
<1>3. /\ d.tables = TableNames /\ d.protected \subseteq Policies \ Secured(n - 1)
      /\ d.protected = Policies \ Secured(n - 1) \/ Misstamped
    BY DEF Falling
<1>4. Secured(n) = Secured(n - 1) \cup {s.table} /\ s.table \in TableNames
    BY <1>2, Securing
<1>5. Run(d, s) = [tables |-> d.tables, types |-> d.types \cup s.types,
                   protected |-> d.protected \ {s.table}, version |-> d.version]
    BY <1>2, RunStatement
<1>6. Run(d, s) \in Database
    BY <1>2, <1>5 DEF Database
<1>7. Run(d, s).version = 2 /\ Falling(Run(d, s), n)
    BY <1>3, <1>4, <1>5 DEF Falling
<1>8. Accepts(d, s)
    BY <1>2, <1>3, <1>4, AcceptStatement
<1>9. QED
    BY <1>1, <1>6, <1>7, <1>8

\* The downgrade of the first revision: every statement is accepted and drops the last
\* table that is left.
LEMMA DropTables ==
    ASSUME NEW d \in Database, NEW n \in 1 .. Len(InitialTables), d.version = 1,
           Falling(d, n - 1)
    PROVE  LET s == Downgrades[1][n] IN
           /\ Run(d, s) \in Database /\ Run(d, s).version = 1 /\ Falling(Run(d, s), n)
           /\ Accepts(d, s)
<1>1. PICK k : k = Len(InitialTables) - n + 1
    OBVIOUS
<1>2. /\ k \in 1 .. Len(InitialTables) /\ k = Len(InitialTables) - (n - 1)
      /\ k - 1 = Len(InitialTables) - n
  <2>1. Len(InitialTables) \in Nat
      BY TheTables
  <2>2. QED
      BY <1>1, <2>1
<1>3. PICK s : s = Downgrades[1][n] /\ s = DropTable(InitialTables[k])
    BY <1>1, Migrations
<1>4. s.op = "drop" /\ s.table = InitialTables[k].name /\ s.types = {}
    BY <1>3 DEF DropTable
<1>5. d.tables = Made(k) /\ d.protected = {}
    BY <1>2 DEF Falling
<1>6. /\ Made(k - 1) = Made(k) \ {s.table} /\ s.table \in Made(k)
      /\ \A t \in Made(k - 1) : s.table \notin Named[t].references
    BY <1>2, <1>4, Growth
<1>7. Run(d, s) = [tables |-> d.tables \ {s.table}, types |-> d.types \cup s.types,
                   protected |-> d.protected \ {s.table}, version |-> d.version]
    BY <1>4, RunStatement
<1>8. Run(d, s) \in Database
    BY <1>4, <1>7 DEF Database
<1>9. Run(d, s).version = 1 /\ Falling(Run(d, s), n)
  <2>1. /\ Run(d, s).version = 1 /\ Run(d, s).tables = Made(k - 1)
        /\ Run(d, s).protected = {}
      BY <1>5, <1>6, <1>7
  <2>2. QED
      BY <1>2, <2>1 DEF Falling
<1>10. Accepts(d, s)
    BY <1>4, <1>5, <1>6, AcceptStatement
<1>11. QED
    BY <1>3, <1>8, <1>9, <1>10
-----------------------------------------------------------------------------
(* A statement of the SQL files                                             *)

LEMMA FirstOf ==
    ASSUME NEW s, NEW S, Lists(s, S), NEW n \in Int
    PROVE  /\ First(s, n) \subseteq S
           /\ n <= 0 => First(s, n) = {}
           /\ n >= Len(s) => First(s, n) = S
           /\ n + 1 \in 1 .. Len(s) =>
                 First(s, n + 1) = First(s, n) \cup {s[n + 1]} /\ s[n + 1] \notin First(s, n)
           /\ n + 1 \notin 1 .. Len(s) => First(s, n + 1) = First(s, n)
<1>1. /\ Len(s) \in Nat /\ DOMAIN s = 1 .. Len(s)
      /\ \A i \in 1 .. Len(s) : s[i] \in S
      /\ \A i, j \in 1 .. Len(s) : s[i] = s[j] => i = j
      /\ \A x \in S : \E i \in 1 .. Len(s) : s[i] = x
    BY ListsOK
<1>2. \A k, x : x \in First(s, k) <=> \E i \in 1 .. Len(s) : i <= k /\ x = s[i]
    BY <1>1 DEF First
<1>3. First(s, n) \subseteq S /\ (n <= 0 => First(s, n) = {})
    BY <1>1, <1>2
<1>4. n >= Len(s) => First(s, n) = S
  <2> SUFFICES ASSUME n >= Len(s) PROVE First(s, n) = S
      OBVIOUS
  <2>1. \A i \in 1 .. Len(s) : i <= n
      BY <1>1
  <2>2. QED
      BY <1>1, <1>2, <1>3, <2>1
<1>5. \A i \in 1 .. Len(s) : i <= n + 1 <=> i <= n \/ i = n + 1
    BY <1>1
<1>6. n + 1 \in 1 .. Len(s) => First(s, n + 1) = First(s, n) \cup {s[n + 1]}
    BY <1>2, <1>5
<1>7. n + 1 \in 1 .. Len(s) => s[n + 1] \notin First(s, n)
  <2> SUFFICES ASSUME n + 1 \in 1 .. Len(s), s[n + 1] \in First(s, n) PROVE FALSE
      OBVIOUS
  <2>1. PICK i \in 1 .. Len(s) : i <= n /\ s[n + 1] = s[i]
      BY <1>2
  <2>2. i = n + 1
      BY <1>1, <2>1
  <2>3. QED
      BY <1>1, <2>1, <2>2
<1>8. n + 1 \notin 1 .. Len(s) => First(s, n + 1) = First(s, n)
  <2> SUFFICES ASSUME n + 1 \notin 1 .. Len(s) PROVE First(s, n + 1) = First(s, n)
      OBVIOUS
  <2>1. \A i \in 1 .. Len(s) : i <= n + 1 <=> i <= n
      BY <1>5
  <2>2. \A x : x \in First(s, n + 1) <=> x \in First(s, n)
      BY <1>2, <2>1
  <2>3. QED
      BY <2>2
<1>9. QED
    BY <1>3, <1>4, <1>6, <1>7, <1>8

\* Every statement of the files is accepted, and brings the next type, table or policy.
LEMMA LoadStatement ==
    ASSUME NEW d \in Database, NEW f \in {1, 2}, NEW n \in Nat, n < Len(SqlFiles[f]),
           Loaded(d, n)
    PROVE  LET s == SqlFiles[f][n + 1] IN
           Accepts(d, s) /\ Run(d, s) \in Database /\ Loaded(Run(d, s), n + 1)
<1> DEFINE T == Len(SortedTypes)
           B == Len(SortedTables)
           R == Len(DumpedRls)
<1>1. T \in Nat /\ B \in Nat /\ R \in Nat
    BY TheLists, ListsOK
<1>2. PICK s : s = SqlFiles[f][n + 1]
    OBVIOUS
<1>3. /\ d.version = 0 /\ d.types = First(SortedTypes, n)
      /\ d.tables = First(SortedTables, n - T)
      /\ d.protected = First(DumpedRls, n - T - B)
    BY DEF Loaded
<1>4. \A b, c, x : Run(d, s) = [tables |-> b, types |-> x, protected |-> c, version |-> d.version]
                   /\ x = First(SortedTypes, n + 1)
                   /\ b = First(SortedTables, (n - T) + 1)
                   /\ c = First(DumpedRls, (n - T - B) + 1)
                   => Run(d, s) \in Database /\ Loaded(Run(d, s), n + 1)
  <2> SUFFICES ASSUME NEW b, NEW c, NEW x,
                      Run(d, s) = [tables |-> b, types |-> x, protected |-> c, version |-> d.version],
                      x = First(SortedTypes, n + 1),
                      b = First(SortedTables, (n - T) + 1),
                      c = First(DumpedRls, (n - T - B) + 1)
               PROVE  Run(d, s) \in Database /\ Loaded(Run(d, s), n + 1)
      OBVIOUS
  <2>1. (n - T) + 1 = n + 1 - T /\ (n - T - B) + 1 = n + 1 - T - B
        /\ (n - T) + 1 \in Int /\ (n - T - B) + 1 \in Int /\ n + 1 \in Int
      BY <1>1
  <2>2. x \subseteq TypeNames
      BY <2>1, TheLists, FirstOf
  <2>3. b \subseteq TableNames
      BY <2>1, TheLists, FirstOf
  <2>4. c \subseteq TableNames
      BY <2>1, TheLists, FirstOf
  <2>5. Run(d, s) \in Database
      BY <2>2, <2>3, <2>4 DEF Database
  <2>6. Loaded(Run(d, s), n + 1)
    <3>1. /\ Run(d, s).version = 0 /\ Run(d, s).types = x
          /\ Run(d, s).tables = b /\ Run(d, s).protected = c
        BY <1>3
    <3>2. b = First(SortedTables, n + 1 - Len(SortedTypes))
        BY <2>1
    <3>3. c = First(DumpedRls, n + 1 - Len(SortedTypes) - Len(SortedTables))
        BY <2>1
    <3>4. PICK e : e = Run(d, s)
        OBVIOUS
    <3>5. /\ e.version = 0 /\ e.types = First(SortedTypes, n + 1)
          /\ e.tables = First(SortedTables, n + 1 - Len(SortedTypes))
          /\ e.protected = First(DumpedRls, n + 1 - Len(SortedTypes) - Len(SortedTables))
        BY <3>1, <3>2, <3>3, <3>4
    <3>6. Loaded(e, n + 1)
        BY <3>5 DEF Loaded
    <3>7. QED
        BY <3>4, <3>6
  <2>7. QED
      BY <2>5, <2>6
<1>5. /\ n \in Int /\ n - T \in Int /\ n - T - B \in Int
    BY <1>1
<1>6. CASE n < T
  <2>1. n + 1 \in 1 .. T /\ (n - T) + 1 \notin 1 .. B /\ (n - T - B) + 1 \notin 1 .. R
      BY <1>1, <1>6
  <2>2. s = [op |-> "type", table |-> "modules", types |-> {SortedTypes[n + 1]}]
      BY <1>2, <2>1, Files
  <2>3. s.op = "type" /\ s.types = {SortedTypes[n + 1]}
      BY <2>2
  <2>4. /\ First(SortedTypes, n + 1) = d.types \cup s.types
        /\ SortedTypes[n + 1] \notin d.types
      BY <1>3, <1>5, <2>1, <2>3, TheLists, FirstOf
  <2>5. First(SortedTables, (n - T) + 1) = d.tables
      BY <1>3, <1>5, <2>1, TheLists, FirstOf
  <2>6. First(DumpedRls, (n - T - B) + 1) = d.protected
      BY <1>3, <1>5, <2>1, TheLists, FirstOf
  <2>7. Accepts(d, s)
      BY <2>3, <2>4, AcceptStatement
  <2>8. Run(d, s) = [tables |-> d.tables, types |-> d.types \cup s.types,
                     protected |-> d.protected, version |-> d.version]
      BY <2>3, RunStatement
  <2>9. QED
      BY <1>2, <1>4, <2>4, <2>5, <2>6, <2>7, <2>8
<1>7. CASE T <= n /\ n < T + B
  <2> DEFINE k == (n - T) + 1
  <2>1. /\ n + 1 \notin 1 .. T /\ k \in 1 .. B /\ (n - T - B) + 1 \notin 1 .. R
        /\ n + 1 = T + k
      BY <1>1, <1>7
  <2>2. s = [op |-> "create", table |-> SortedTables[k], types |-> {}]
      BY <1>2, <2>1, Files
  <2>3. s.op = "create" /\ s.table = SortedTables[k] /\ s.types = {}
      BY <2>2
  <2>4. First(SortedTypes, n + 1) = d.types \cup s.types
      BY <1>3, <1>5, <2>1, <2>3, TheLists, FirstOf
  <2>5. /\ First(SortedTables, k) = d.tables \cup {s.table}
        /\ s.table \notin d.tables
    <3>1. PICK m \in Int : m = n - T
        BY <1>5
    <3>2. Lists(SortedTables, TableNames) /\ m + 1 \in 1 .. Len(SortedTables)
        BY <2>1, <3>1, TheLists
    <3>3. /\ First(SortedTables, m + 1) = First(SortedTables, m) \cup {SortedTables[m + 1]}
          /\ SortedTables[m + 1] \notin First(SortedTables, m)
        BY <3>2, FirstOf
    <3>4. QED
        BY <1>3, <2>3, <3>1, <3>3
  <2>6. First(DumpedRls, (n - T - B) + 1) = d.protected
      BY <1>3, <1>5, <2>1, TheLists, FirstOf
  <2>7. Named[s.table].references \subseteq First(SortedTables, k)
    <3> SUFFICES ASSUME NEW t \in Named[s.table].references PROVE t \in First(SortedTables, k)
        OBVIOUS
    <3>1. /\ DOMAIN SortedTables = 1 .. B
          /\ \A i \in 1 .. B : SortedTables[i] \in TableNames
          /\ \A x \in TableNames : \E i \in 1 .. B : SortedTables[i] = x
      <4>1. Lists(SortedTables, TableNames)
          BY TheLists
      <4>2. QED
          BY <4>1, ListsOK
    <3>2. t \in TableNames
        BY <2>1, <2>3, <3>1, TheTables
    <3>3. PICK i \in 1 .. B : SortedTables[i] = t
        BY <3>1, <3>2
    <3>4. ~(k < i)
        BY <2>1, <2>3, <3>1, <3>3, TablesAssumption
    <3>5. i <= k
        BY <1>1, <2>1, <3>4
    <3>6. QED
        BY <3>1, <3>3, <3>5 DEF First
  <2>8. Accepts(d, s)
      BY <2>3, <2>5, <2>7, AcceptStatement
  <2>9. Run(d, s) = [tables |-> d.tables \cup {s.table}, types |-> d.types \cup s.types,
                     protected |-> d.protected, version |-> d.version]
      BY <2>3, RunStatement
  <2>10. QED
      BY <1>2, <1>4, <2>4, <2>5, <2>6, <2>8, <2>9
<1>8. CASE T + B <= n
  <2> DEFINE k == (n - T - B) + 1
  <2>1. f = 2 /\ n < T + B + R
      BY <1>1, <1>8, Files
  <2>2. /\ n + 1 \notin 1 .. T /\ (n - T) + 1 \notin 1 .. B /\ k \in 1 .. R
        /\ n + 1 = T + B + k /\ n - T >= B
      BY <1>1, <1>8, <2>1
  <2>3. s = Protect(DumpedRls[k])
      BY <1>2, <2>1, <2>2, Files
  <2>4. s.op = "protect" /\ s.table = DumpedRls[k] /\ s.types = {}
      BY <2>3 DEF Protect
  <2>5. First(SortedTypes, n + 1) = d.types \cup s.types
      BY <1>3, <1>5, <2>2, <2>4, TheLists, FirstOf
  <2>6. First(SortedTables, (n - T) + 1) = d.tables /\ d.tables = TableNames
      BY <1>3, <1>5, <2>2, TheLists, FirstOf
  <2>7. First(DumpedRls, k) = d.protected \cup {s.table} /\ s.table \notin d.protected
    <3>1. PICK m \in Int : m = n - T - B
        BY <1>5
    <3>2. Lists(DumpedRls, Policies) /\ m + 1 \in 1 .. Len(DumpedRls)
        BY <2>2, <3>1, TheLists
    <3>3. /\ First(DumpedRls, m + 1) = First(DumpedRls, m) \cup {DumpedRls[m + 1]}
          /\ DumpedRls[m + 1] \notin First(DumpedRls, m)
        BY <3>2, FirstOf
    <3>4. QED
        BY <1>3, <2>4, <3>1, <3>3
  <2>8. s.table \in TableNames
      BY <2>2, <2>4, TheLists, ListsOK
  <2>9. Accepts(d, s)
      BY <2>4, <2>6, <2>7, <2>8, AcceptStatement
  <2>10. Run(d, s) = [tables |-> d.tables, types |-> d.types \cup s.types,
                      protected |-> d.protected \cup {s.table}, version |-> d.version]
      BY <2>4, RunStatement
  <2>11. QED
      BY <1>2, <1>4, <2>5, <2>6, <2>7, <2>9, <2>10
<1>9. QED
    BY <1>1, <1>6, <1>7, <1>8
-----------------------------------------------------------------------------
(* The second invariant, step by step                                       *)

\* The migration between two revisions; Current is that of the run.
Migration(v, target) == IF target > v THEN Upgrades[v + 1] ELSE Downgrades[v]

LEMMA MigrationIs ==
    ASSUME NEW v \in 0 .. 2, NEW target \in 0 .. 2, v # target
    PROVE  /\ Len(Migration(v, target)) \in Nat
           /\ v < target /\ v = 0 => Migration(v, target) = Upgrades[1]
           /\ v < target /\ v = 1 => Migration(v, target) = Upgrades[2]
           /\ v > target /\ v = 2 => Migration(v, target) = Downgrades[2]
           /\ v > target /\ v = 1 => Migration(v, target) = Downgrades[1]
           /\ v < target => v \in {0, 1}
           /\ v > target => v \in {1, 2}
<1>1. Len(RLS_TABLES) \in Nat /\ Len(InitialTables) \in Nat
    BY TheLists, ListsOK, TheTables
<1>2. /\ Len(Upgrades[1]) \in Nat /\ Len(Upgrades[2]) \in Nat
      /\ Len(Downgrades[1]) \in Nat /\ Len(Downgrades[2]) \in Nat
    BY <1>1, Migrations
<1>3. CASE v < target
  <2>1. Migration(v, target) = Upgrades[v + 1] /\ v \in {0, 1}
      BY <1>3 DEF Migration
  <2>2. QED
      BY <1>2, <1>3, <2>1
<1>4. CASE v > target
  <2>1. Migration(v, target) = Downgrades[v] /\ v \in {1, 2}
      BY <1>4 DEF Migration
  <2>2. QED
      BY <1>2, <1>4, <2>1
<1>5. QED
    BY <1>3, <1>4

LEMMA EmptyOK ==
    /\ Empty \in Database /\ Empty.version = 0
    /\ Empty.tables = {} /\ Empty.types = {} /\ Empty.protected = {}
    /\ NoAlembic.by = "nobody" /\ NoAlembic.schema = Empty
<1>1. 0 \in Revisions
    BY Constants
<1>2. QED
    BY <1>1 DEF Empty, Database, NoAlembic

\* The first step of a proof about an action.
LEMMA SchemaTypes ==
    ASSUME IInv
    PROVE  /\ tx.schema.version \in 0 .. 2 /\ tx.target \in 0 .. 2 /\ tx.next \in Nat
           /\ db.version \in 0 .. 2
           /\ tree.base \in Commit /\ Revision[tree.base] \in {1, 2}
           /\ load \in Load /\ load.of \in 0 .. 2 /\ load.done \in Nat /\ load.stamp \in 0 .. 2
<1>1. /\ tx.schema.version \in 0 .. 2 /\ tx.target \in 0 .. 2 /\ tx.next \in Nat
      /\ db.version \in 0 .. 2
    BY Constants DEF IInv, TypeOK
<1>2. load \in Load /\ load.of \in 0 .. 2 /\ load.done \in Nat /\ load.stamp \in 0 .. 2
    BY Constants DEF IInv, TypeOK, Load
<1>3. tree.base \in Commit
    BY DEF IInv, TypeOK, Checkout
<1>4. Revision[tree.base] \in Revisions \ {0}
    BY <1>3, DeploymentAssumption
<1>5. QED
    BY <1>1, <1>2, <1>3, <1>4, Constants

\* Where nothing is left over of the types, nothing is of the files.
LEMMA NoTypes ==
    ASSUME IInv, SchemaInv, db.version = 0, db.types = {}
    PROVE  /\ db.tables = {} /\ db.protected = {}
           /\ tx.by # "nobody" => load.pc # "running"
<1>1. /\ load.done \in Nat /\ Len(SortedTypes) \in Nat /\ Len(SortedTypes) # 0
      /\ Len(SortedTables) \in Nat /\ Len(DumpedRls) \in Nat
    BY SchemaTypes, TheLists, ListsOK
<1>2. Loaded(db, load.done) => load.done = 0
  <2> SUFFICES ASSUME Loaded(db, load.done), load.done # 0 PROVE FALSE
      OBVIOUS
  <2>1. First(SortedTypes, load.done) = {}
      BY DEF Loaded
  <2>2. DOMAIN SortedTypes = 1 .. Len(SortedTypes)
      BY TheLists, ListsOK
  <2>3. 1 \in DOMAIN SortedTypes /\ 1 <= load.done
      BY <1>1, <2>2
  <2>4. SortedTypes[1] \in First(SortedTypes, load.done)
      BY <2>3 DEF First
  <2>5. QED
      BY <2>1, <2>4
<1>3. CASE Loaded(db, load.done)
  <2>1. /\ db.tables = First(SortedTables, 0 - Len(SortedTypes))
        /\ db.protected = First(DumpedRls, 0 - Len(SortedTypes) - Len(SortedTables))
      BY <1>2, <1>3 DEF Loaded
  <2>2. PICK m \in Int : m = 0 - Len(SortedTypes) /\ m <= 0
      BY <1>1
  <2>3. PICK k \in Int : k = 0 - Len(SortedTypes) - Len(SortedTables) /\ k <= 0
    <3>1. /\ 0 - Len(SortedTypes) - Len(SortedTables) \in Int
          /\ 0 - Len(SortedTypes) - Len(SortedTables) <= 0
        BY <1>1
    <3>2. QED
        BY <3>1
  <2>4. First(SortedTables, m) = {}
      BY <2>2, TheLists, FirstOf
  <2>5. First(DumpedRls, k) = {}
      BY <2>3, TheLists, FirstOf
  <2>6. QED
    <3>1. db.tables = {} /\ db.protected = {}
        BY <2>1, <2>2, <2>3, <2>4, <2>5
    <3>2. ASSUME tx.by # "nobody", load.pc = "running" PROVE FALSE
      <4>1. /\ ~Loading /\ load.of \in {1, 2}
          BY <3>2 DEF SchemaInv, TxOK, LoadOK
      <4>2. Len(SqlFiles[load.of]) \in Nat /\ Len(SqlFiles[load.of]) > 0
          BY <1>1, <4>1, Files
      <4>3. QED
          BY <1>2, <1>3, <3>2, <4>1, <4>2 DEF Loading
    <3>3. QED
        BY <3>1, <3>2
<1>4. CASE ~Loaded(db, load.done)
    BY <1>4 DEF SchemaInv, DbOK, LoadOK, Whole
<1>5. QED
    BY <1>3, <1>4

LEMMA SchemaInit == Init => SchemaInv
<1> SUFFICES ASSUME Init PROVE SchemaInv
    OBVIOUS
<1>1. db = Empty /\ tx = NoAlembic /\ load = [pc |-> "none", of |-> 0, done |-> 0, stamp |-> 0]
    BY DEF Init
<1>2. LoadOK
    BY <1>1 DEF LoadOK
<1>3. DbOK
    BY <1>1, EmptyOK DEF DbOK, Whole
<1>4. TxOK
    BY <1>1, EmptyOK DEF TxOK
<1>5. QED
    BY <1>2, <1>3, <1>4 DEF SchemaInv

\* The database stays, and a run of Alembic goes on or is gone.
LEMMA StillSteps ==
    ASSUME IInv, SchemaInv, UNCHANGED <<db, load>>, tx' = tx \/ tx' = NoAlembic,
           tree'.base \in Commit, tree.base <= tree'.base
    PROVE  SchemaInv'
<1>1. Revision[tree.base] <= Revision[tree'.base] /\ Revision[tree'.base] \in 0 .. 2
    BY SchemaTypes, Constants
<1>2. LoadOK'
    BY <1>1, SchemaTypes DEF SchemaInv, LoadOK, Loaded
<1>3. DbOK'
    BY EmptyOK DEF SchemaInv, DbOK, Whole, Loaded, Misstamped
<1>4. TxOK'
  <2>1. CASE tx' = tx
      BY <2>1 DEF SchemaInv, TxOK, Whole, Rising, Falling, Misstamped, Loading, Current
  <2>2. CASE tx' = NoAlembic
      BY <2>2, EmptyOK DEF TxOK
  <2>3. QED
      BY <2>1, <2>2
<1>5. QED
    BY <1>2, <1>3, <1>4 DEF SchemaInv
\* A run of Alembic begins, on what is committed.
LEMMA BeginSteps ==
    ASSUME IInv, SchemaInv, ScriptMigrates \/ Migrate
    PROVE  SchemaInv'
<1>1. /\ db.version \in 0 .. 2 /\ Revision[tree.base] \in {1, 2}
      /\ db \in Database /\ load \in Load
    BY SchemaTypes DEF SchemaInv, DbOK
<1>2. /\ tx.by = "nobody" /\ ~Loading /\ UNCHANGED <<tree, db, load>>
    BY DEF ScriptMigrates, Migrate, treeVars
<1>3. PICK by \in {"script", "operator"}, target \in 0 .. 2 :
          /\ tx' = [by |-> by, schema |-> db, target |-> target, next |-> 1]
          /\ target \in {Revision[tree.base], db.version - 1}
  <2>1. CASE ScriptMigrates
      BY <1>1, <2>1 DEF ScriptMigrates
  <2>2. CASE Migrate
      BY <1>1, <2>2, Constants DEF Migrate
  <2>3. QED
      BY <2>1, <2>2
<1>4. tx'.schema = db /\ tx'.target = target /\ tx'.next = 1
    BY <1>3
<1>5. LoadOK' /\ DbOK'
    BY <1>1, <1>2, <1>4 DEF SchemaInv, LoadOK, DbOK, Loaded, Whole, Misstamped
<1>6. db.version # 0 => Whole(db)
    BY DEF SchemaInv, DbOK, Loaded
<1>7. load.pc = "running" => db.version = 0
    BY DEF SchemaInv, LoadOK, Loaded
<1>8. db.version = 0 => target # 0
    BY <1>1, <1>3
<1>9. db.version # target => 1 \in 1 .. Len(Current') + 1
  <2> SUFFICES ASSUME db.version # target PROVE 1 \in 1 .. Len(Current') + 1
      OBVIOUS
  <2>1. Current' = Migration(db.version, target)
      BY <1>4 DEF Current, Migration
  <2>2. Len(Migration(db.version, target)) \in Nat
      BY <1>1, MigrationIs
  <2>3. QED
      BY <2>1, <2>2
<1>10. db.version < target => Rising(db, 0)
  <2>1. CASE db.version = 0
    <3>1. Made(0) = {} /\ MadeTypes(0) = {}
        BY Growth
    <3>2. QED
        BY <2>1, <3>1 DEF Rising
  <2>2. CASE db.version = 1
    <3>1. Secured(0) = {}
        BY Securing
    <3>2. db.tables = TableNames /\ db.protected = {}
        BY <1>6, <2>2 DEF Whole
    <3>3. QED
        BY <2>2, <3>1, <3>2 DEF Rising
  <2>3. QED
      BY <1>1, <2>1, <2>2
<1>11. db.version > target => Falling(db, 0)
  <2>1. Len(InitialTables) - 0 = Len(InitialTables)
      BY TheTables
  <2>2. QED
      BY <1>1, <1>6, <2>1, Growth, Securing DEF Falling, Whole
<1>12. TxOK'
  <2>1. tx'.next - 1 = 0
      BY <1>4
  <2>2. (~Loading)'
      BY <1>2 DEF Loading
  <2>3. db.version = target => Whole(db)
      BY <1>6, <1>8
  <2>4. QED
      BY <1>2, <1>4, <1>7, <1>8, <1>9, <1>10, <1>11, <2>1, <2>2, <2>3
      DEF TxOK, Rising, Falling, Whole, Misstamped
<1>13. QED
    BY <1>5, <1>12 DEF SchemaInv

\* The run makes schema of its transaction and comes to statement next.
LEMMA RunSteps ==
    ASSUME IInv, SchemaInv, UNCHANGED <<tree, db, load>>, tx.by # "nobody",
           NEW schema \in Database, NEW next,
           tx' = [tx EXCEPT !.schema = schema, !.next = next],
           load.pc = "running" => schema.version = 0,
           schema.version = tx.target => Whole(schema),
           schema.version # tx.target =>
               next \in 1 .. Len(Migration(schema.version, tx.target)) + 1,
           schema.version < tx.target => Rising(schema, next - 1),
           schema.version > tx.target => Falling(schema, next - 1)
    PROVE  SchemaInv'
<1>1. tx'.by = tx.by /\ tx'.target = tx.target /\ tx'.next = next /\ tx'.schema = schema
    BY Zenon DEF IInv, Shape
<1>2. LoadOK' /\ DbOK'
    BY <1>1 DEF SchemaInv, LoadOK, DbOK, Loaded, Whole, Misstamped
<1>3. Current' = Migration(schema.version, tx.target)
    BY <1>1 DEF Current, Migration
<1>4. /\ (~Loading)'
      /\ load.pc = "running" => tx.target # 0
    BY DEF SchemaInv, TxOK, Loading
<1>5. TxOK'
    BY <1>1, <1>3, <1>4 DEF TxOK, Rising, Falling, Whole, Misstamped
<1>6. QED
    BY <1>2, <1>5 DEF SchemaInv

LEMMA StepKeeps ==
    ASSUME IInv, SchemaInv, Step
    PROVE  SchemaInv'
<1> DEFINE v == tx.schema.version
<1>1. /\ v \in 0 .. 2 /\ tx.target \in 0 .. 2 /\ v # tx.target /\ tx.next \in Nat
      /\ tx.schema \in Database /\ tx.by # "nobody"
      /\ UNCHANGED <<tree, db, load>>
    BY SchemaTypes DEF Step, treeVars, SchemaInv, DbOK
<1>2. Current = Migration(v, tx.target)
    BY DEF Current, Migration
<1>3. tx.next \in 1 .. Len(Current) /\ Accepts(tx.schema, Current[tx.next])
  <2>1. tx.next \in 1 .. Len(Current) + 1 /\ tx.next <= Len(Current)
      BY <1>1 DEF SchemaInv, TxOK, Step
  <2>2. Len(Current) \in Nat
      BY <1>1, <1>2, MigrationIs
  <2>3. QED
      BY <2>1, <2>2 DEF Step
<1>4. PICK new, n : /\ new = Run(tx.schema, Current[tx.next]) /\ n = tx.next + 1
                    /\ tx' = [tx EXCEPT !.schema = new, !.next = n]
    BY DEF Step
<1>5. n - 1 = tx.next /\ n \in 1 .. Len(Current) + 1
  <2>1. Len(Current) \in Nat
      BY <1>1, <1>2, MigrationIs
  <2>2. QED
      BY <1>1, <1>3, <1>4, <2>1
<1>6. /\ new \in Database /\ new.version = v
      /\ v < tx.target => Rising(new, tx.next)
      /\ v > tx.target => Falling(new, tx.next)
  <2>1. CASE v < tx.target
    <3>1. Rising(tx.schema, tx.next - 1)
        BY <1>1, <2>1 DEF SchemaInv, TxOK
    <3>2. CASE v = 0
      <4>1. Current = Upgrades[1] /\ tx.next \in 1 .. Len(InitialTables)
          BY <1>1, <1>2, <1>3, <2>1, <3>2, MigrationIs, Migrations
      <4>2. QED
          BY <1>1, <1>3, <1>4, <2>1, <3>1, <3>2, <4>1, CreateTables
    <3>3. CASE v = 1
      <4>1. Current = Upgrades[2] /\ tx.next \in 1 .. Len(RLS_TABLES)
          BY <1>1, <1>2, <1>3, <2>1, <3>3, MigrationIs, Migrations
      <4>2. QED
          BY <1>1, <1>4, <2>1, <3>1, <3>3, <4>1, ProtectTables
    <3>4. QED
        BY <1>1, <2>1, <3>2, <3>3
  <2>2. CASE v > tx.target
    <3>1. Falling(tx.schema, tx.next - 1)
        BY <1>1, <2>2 DEF SchemaInv, TxOK
    <3>2. CASE v = 2
      <4>1. Current = Downgrades[2] /\ tx.next \in 1 .. Len(RLS_TABLES)
          BY <1>1, <1>2, <1>3, <2>2, <3>2, MigrationIs, Migrations
      <4>2. QED
          BY <1>1, <1>4, <2>2, <3>1, <3>2, <4>1, UnprotectTables
    <3>3. CASE v = 1
      <4>1. Current = Downgrades[1] /\ tx.next \in 1 .. Len(InitialTables)
          BY <1>1, <1>2, <1>3, <2>2, <3>3, MigrationIs, Migrations
      <4>2. QED
          BY <1>1, <1>4, <2>2, <3>1, <3>3, <4>1, DropTables
    <3>4. QED
        BY <1>1, <2>2, <3>2, <3>3
  <2>3. QED
      BY <1>1, <2>1, <2>2
<1>7. load.pc = "running" => new.version = 0
    BY <1>1, <1>6 DEF SchemaInv, TxOK
<1>8. QED
  <2>1. /\ new.version # tx.target
        /\ n \in 1 .. Len(Migration(new.version, tx.target)) + 1
        /\ new.version < tx.target => Rising(new, n - 1)
        /\ new.version > tx.target => Falling(new, n - 1)
      BY <1>1, <1>2, <1>5, <1>6
  <2>2. QED
      BY <1>1, <1>4, <1>6, <1>7, <2>1, RunSteps
\* A migration has ended: its revision is whole.
LEMMA StampKeeps ==
    ASSUME IInv, SchemaInv, Stamp
    PROVE  SchemaInv'
<1> DEFINE v == tx.schema.version
           N == Len(InitialTables)
           R == Len(RLS_TABLES)
<1>1. /\ v \in 0 .. 2 /\ tx.target \in 0 .. 2 /\ v # tx.target /\ tx.next \in Nat
      /\ tx.schema \in Database /\ tx.by # "nobody"
      /\ UNCHANGED <<tree, db, load>>
    BY SchemaTypes DEF Stamp, treeVars, SchemaInv, DbOK
<1>2. Current = Migration(v, tx.target)
    BY DEF Current, Migration
<1>3. tx.next - 1 = Len(Current)
  <2>1. tx.next \in 1 .. Len(Current) + 1 /\ tx.next > Len(Current)
      BY <1>1 DEF SchemaInv, TxOK, Stamp
  <2>2. Len(Current) \in Nat
      BY <1>1, <1>2, MigrationIs
  <2>3. QED
      BY <2>1, <2>2
<1>4. PICK to, new : /\ to = (IF tx.target > v THEN v + 1 ELSE v - 1)
                     /\ new = [tx.schema EXCEPT !.version = to]
                     /\ tx' = [tx EXCEPT !.schema = new, !.next = 1]
  <2>1. PICK to : /\ to = (IF tx.target > v THEN v + 1 ELSE v - 1)
                  /\ tx' = [tx EXCEPT !.next = 1, !.schema.version = to]
      BY Zenon DEF Stamp
  <2>2. PICK new : new = [tx.schema EXCEPT !.version = to]
      OBVIOUS
  <2>3. tx' = [tx EXCEPT !.schema = new, !.next = 1]
      BY <2>1, <2>2
  <2>4. QED
      BY <2>1, <2>2, <2>3
<1>5. to \in Revisions /\ to \in 0 .. 2
    BY <1>1, <1>4, Constants
<1>6. /\ new \in Database /\ new.version = to /\ new.tables = tx.schema.tables
      /\ new.protected = tx.schema.protected
    BY <1>1, <1>4, <1>5 DEF Database
<1>7. N - 0 = N /\ N - N = 0
    BY TheTables
<1>8. /\ load.pc = "running" => to = 0
      /\ to = tx.target => Whole(new)
      /\ to < tx.target => Rising(new, 0)
      /\ to > tx.target => Falling(new, 0)
  <2>1. CASE v < tx.target
    <3>1. Rising(tx.schema, Len(Current)) /\ to = v + 1
        BY <1>1, <1>3, <1>4, <2>1 DEF SchemaInv, TxOK
    <3>2. CASE v = 0
      <4>1. Len(Current) = N
          BY <1>1, <1>2, <2>1, <3>2, MigrationIs, Migrations
      <4>2. /\ db.version = 0 /\ new.tables = db.tables \cup TableNames
            /\ new.protected = db.protected
            /\ db.types \cap TypeNames = {}
          BY <1>6, <3>1, <3>2, <4>1, Growth DEF Rising
      <4>3. db.types \subseteq TypeNames /\ db.tables \subseteq TableNames
          BY DEF SchemaInv, DbOK, Database
      <4>4. db.types = {}
          BY <4>2, <4>3
      <4>5. db.tables = {} /\ db.protected = {} /\ load.pc # "running"
          BY <1>1, <4>2, <4>4, NoTypes
      <4>6. to = 1 /\ new.tables = TableNames /\ new.protected = {}
          BY <3>1, <3>2, <4>2, <4>5
      <4>7. QED
        <5>1. Whole(new)
            BY <1>6, <4>6 DEF Whole
        <5>2. Secured(0) = {}
            BY Securing
        <5>3. Rising(new, 0)
            BY <1>6, <4>6, <5>2 DEF Rising
        <5>4. ~(to > tx.target)
            BY <1>1, <2>1, <3>2, <4>6
        <5>5. QED
            BY <4>5, <5>1, <5>3, <5>4
    <3>3. CASE v = 1
      <4>1. Len(Current) = R
          BY <1>1, <1>2, <2>1, <3>3, MigrationIs, Migrations
      <4>2. new.tables = TableNames /\ new.protected = Policies
          BY <1>6, <3>1, <3>3, <4>1, Securing DEF Rising
      <4>3. to = 2 /\ tx.target = 2
          BY <1>1, <2>1, <3>1, <3>3
      <4>4. load.pc # "running"
          BY <1>1, <3>3 DEF SchemaInv, TxOK
      <4>5. QED
          BY <1>6, <4>2, <4>3, <4>4 DEF Whole
    <3>4. QED
        BY <1>1, <2>1, <3>2, <3>3
  <2>2. CASE v > tx.target
    <3>1. Falling(tx.schema, Len(Current)) /\ to = v - 1 /\ load.pc # "running"
        BY <1>1, <1>3, <1>4, <2>2 DEF SchemaInv, TxOK
    <3>2. CASE v = 2
      <4>1. Len(Current) = R
          BY <1>1, <1>2, <2>2, <3>2, MigrationIs, Migrations
      <4>2. new.tables = TableNames /\ new.protected = {}
          BY <1>6, <3>1, <3>2, <4>1, Securing DEF Falling
      <4>3. QED
        <5>1. to = 1
            BY <3>1, <3>2
        <5>2. Whole(new)
            BY <1>6, <4>2, <5>1 DEF Whole
        <5>3. Made(N - 0) = TableNames
            BY <1>7, Growth
        <5>4. Falling(new, 0)
            BY <1>6, <4>2, <5>1, <5>3 DEF Falling
        <5>5. ~(to < tx.target)
            BY <1>1, <2>2, <3>2, <5>1
        <5>6. QED
            BY <3>1, <5>2, <5>4, <5>5
    <3>3. CASE v = 1
      <4>1. Len(Current) = N
          BY <1>1, <1>2, <2>2, <3>3, MigrationIs, Migrations
      <4>2. new.tables = {} /\ new.protected = {}
          BY <1>6, <1>7, <3>1, <3>3, <4>1, Growth DEF Falling
      <4>3. to = 0 /\ tx.target = 0
          BY <1>1, <2>2, <3>1, <3>3
      <4>4. QED
          BY <1>6, <3>1, <4>2, <4>3 DEF Whole
    <3>4. QED
        BY <1>1, <2>2, <3>2, <3>3
  <2>3. QED
      BY <1>1, <2>1, <2>2
<1>9. to # tx.target => 1 \in 1 .. Len(Migration(to, tx.target)) + 1
  <2> SUFFICES ASSUME to # tx.target PROVE 1 \in 1 .. Len(Migration(to, tx.target)) + 1
      OBVIOUS
  <2>1. Len(Migration(to, tx.target)) \in Nat
      BY <1>1, <1>5, MigrationIs
  <2>2. QED
      BY <2>1
<1>10. QED
  <2>1. PICK n : n = 1 /\ n - 1 = 0
      OBVIOUS
  <2>2. QED
      BY <1>1, <1>4, <1>6, <1>8, <1>9, <2>1, RunSteps

\* The run commits a whole revision, and never beside the files of a load.
LEMMA CommitKeeps ==
    ASSUME IInv, SchemaInv, CommitRun
    PROVE  SchemaInv'
<1>1. /\ tx.by # "nobody" /\ tx.schema.version = tx.target
      /\ db' = tx.schema /\ tx' = NoAlembic /\ UNCHANGED <<tree, load>>
    BY DEF CommitRun
<1>2. Whole(tx.schema) /\ tx.schema \in Database /\ load.pc # "running"
    BY <1>1 DEF SchemaInv, TxOK, DbOK
<1>3. LoadOK'
    BY <1>1, <1>2 DEF SchemaInv, LoadOK
<1>4. DbOK'
    BY <1>1, <1>2, EmptyOK DEF DbOK, Whole, Misstamped
<1>5. TxOK'
    BY <1>1, EmptyOK DEF TxOK
<1>6. QED
    BY <1>3, <1>4, <1>5 DEF SchemaInv
\* The files that have run to their end are those of their revision.
LEMMA FilesWhole ==
    ASSUME NEW d, NEW f \in {1, 2}, Loaded(d, Len(SqlFiles[f]))
    PROVE  d.tables = TableNames /\ d.protected = IF f = 2 THEN Policies ELSE {}
<1> DEFINE T == Len(SortedTypes)
           B == Len(SortedTables)
           R == Len(DumpedRls)
<1>1. T \in Nat /\ B \in Nat /\ R \in Nat
    BY TheLists, ListsOK
<1>2. PICK n \in Nat : n = Len(SqlFiles[f]) /\ n = IF f = 2 THEN T + B + R ELSE T + B
    BY <1>1, Files
<1>3. PICK m, k \in Int : m = n - T /\ k = n - T - B
  <2>1. n - T \in Int /\ n - T - B \in Int
      BY <1>1
  <2>2. QED
      BY <2>1
<1>4. d.tables = First(SortedTables, m) /\ d.protected = First(DumpedRls, k)
    BY <1>2, <1>3 DEF Loaded
<1>5. m >= B /\ k = IF f = 2 THEN R ELSE 0
    BY <1>1, <1>2, <1>3
<1>6. First(SortedTables, m) = TableNames
    BY <1>5, TheLists, FirstOf
<1>7. Lists(DumpedRls, Policies)
    BY TheLists
<1>8. CASE f = 2
  <2>1. k >= Len(DumpedRls)
      BY <1>1, <1>5, <1>8
  <2>2. First(DumpedRls, k) = Policies
      BY <1>7, <2>1, FirstOf
  <2>3. QED
      BY <1>4, <1>6, <1>8, <2>2
<1>9. CASE f = 1
  <2>1. k <= 0
      BY <1>5, <1>9
  <2>2. First(DumpedRls, k) = {}
      BY <1>7, <2>1, FirstOf
  <2>3. QED
      BY <1>4, <1>6, <1>9, <2>2
<1>10. QED
    BY <1>8, <1>9

\* No run of Alembic sees the files at work.
LEMMA LoadKeeps ==
    ASSUME IInv, SchemaInv, StartLoad \/ LoadStep \/ LoadStops \/ StampHead
    PROVE  SchemaInv'
<1>1. /\ load \in Load /\ load.done \in Nat /\ load.of \in 0 .. 2 /\ load.stamp \in 0 .. 2
      /\ Revision[tree.base] \in {1, 2} /\ db \in Database /\ tx.schema \in Database
    BY SchemaTypes DEF SchemaInv, DbOK
<1>2. UNCHANGED <<tree, tx>>
    BY DEF StartLoad, LoadStep, LoadStops, StampHead, treeVars
<1>3. load.pc = "running" =>
          /\ load.of \in {1, 2} /\ load.of <= Revision[tree.base]
          /\ load.done <= Len(SqlFiles[load.of]) /\ Loaded(db, load.done)
    BY DEF SchemaInv, LoadOK
<1>4. \A f \in {1, 2} : Len(SqlFiles[f]) \in Nat
  <2>1. Len(SortedTypes) \in Nat /\ Len(SortedTables) \in Nat /\ Len(DumpedRls) \in Nat
      BY TheLists, ListsOK
  <2>2. QED
      BY <2>1, Files
<1>5. CASE StartLoad
  <2>1. /\ load.pc = "none" /\ tx.by = "nobody" /\ db = Empty /\ db' = db
        /\ load' = [load EXCEPT !.pc = "running", !.of = Revision[tree.base]]
      BY <1>5 DEF StartLoad
  <2>2. load.done = 0
      BY <2>1 DEF SchemaInv, LoadOK
  <2>3. load'.pc = "running" /\ load'.of = Revision[tree.base] /\ load'.done = 0
      BY <1>1, <2>1, <2>2 DEF Load
  <2>4. Loaded(Empty, 0)
    <3>1. Len(SortedTypes) \in Nat /\ Len(SortedTables) \in Nat
        BY TheLists, ListsOK
    <3>2. PICK m, k \in Int : /\ m = 0 - Len(SortedTypes) /\ m <= 0
                              /\ k = 0 - Len(SortedTypes) - Len(SortedTables) /\ k <= 0
      <4>1. /\ 0 - Len(SortedTypes) \in Int /\ 0 - Len(SortedTypes) <= 0
            /\ 0 - Len(SortedTypes) - Len(SortedTables) \in Int
            /\ 0 - Len(SortedTypes) - Len(SortedTables) <= 0
          BY <3>1
      <4>2. QED
          BY <4>1
    <3>3. First(SortedTables, m) = {}
        BY <3>2, TheLists, FirstOf
    <3>4. First(DumpedRls, k) = {}
        BY <3>2, TheLists, FirstOf
    <3>5. First(SortedTypes, 0) = {}
        BY TheLists, FirstOf
    <3>6. QED
        BY <3>2, <3>3, <3>4, <3>5, EmptyOK DEF Loaded
  <2>5. LoadOK'
    <3>1. Loaded(db, load.done)'
        BY <2>1, <2>3, <2>4 DEF Loaded
    <3>2. QED
        BY <1>1, <1>2, <1>4, <2>3, <3>1 DEF LoadOK
  <2>6. DbOK' /\ TxOK'
      BY <1>1, <1>2, <2>1, EmptyOK DEF DbOK, Whole, TxOK
  <2>7. QED
      BY <2>5, <2>6 DEF SchemaInv
<1>6. CASE LoadStep
  <2>1. /\ load.pc = "running" /\ load.done < Len(SqlFiles[load.of]) /\ Loading
        /\ db' = Run(db, SqlFiles[load.of][load.done + 1])
        /\ load' = [load EXCEPT !.done = load.done + 1]
      BY <1>6 DEF LoadStep, Loading
  <2>2. load'.pc = "running" /\ load'.of = load.of /\ load'.done = load.done + 1
      BY <1>1, <2>1 DEF Load
  <2>3. PICK new : new = db' /\ new \in Database /\ Loaded(new, load.done + 1)
      BY <1>1, <1>3, <2>1, LoadStatement
  <2>4. tx.by = "nobody"
      BY <2>1 DEF SchemaInv, TxOK
  <2>5. Loaded(db, load.done)'
      BY <2>2, <2>3 DEF Loaded
  <2>6. LoadOK'
    <3>1. load.of \in {1, 2} /\ load.done + 1 <= Len(SqlFiles[load.of])
        BY <1>1, <1>3, <1>4, <2>1
    <3>2. QED
        BY <1>2, <1>3, <2>1, <2>2, <2>5, <3>1 DEF LoadOK
  <2>7. DbOK' /\ TxOK'
      BY <1>1, <1>2, <2>2, <2>3, <2>4, <2>5 DEF DbOK, TxOK
  <2>8. QED
      BY <2>6, <2>7 DEF SchemaInv
<1>7. CASE LoadStops
  <2>1. load.pc = "running" /\ db' = db /\ load' = [load EXCEPT !.pc = "stopped"]
      BY <1>7 DEF LoadStops
  <2>2. /\ load'.pc = "stopped" /\ load'.of = load.of /\ load'.done = load.done
        /\ load'.stamp = load.stamp
      BY <1>1, <2>1 DEF Load
  <2>3. LoadOK' /\ DbOK'
      BY <1>1, <1>2, <1>3, <2>1, <2>2 DEF LoadOK, DbOK, Loaded
  <2>4. TxOK'
      BY <1>2, <2>1, <2>2
      DEF SchemaInv, TxOK, Loading, Whole, Rising, Falling, Misstamped, Current
  <2>5. QED
      BY <2>3, <2>4 DEF SchemaInv
<1>8. CASE StampHead
  <2>1. /\ load.pc = "running" /\ ~Loading /\ tx.by = "nobody"
        /\ db' = [db EXCEPT !.version = Revision[tree.base]]
        /\ load' = [load EXCEPT !.pc = "stamped", !.stamp = Revision[tree.base]]
      BY <1>8 DEF StampHead
  <2>2. /\ load'.pc = "stamped" /\ load'.of = load.of /\ load'.done = load.done
        /\ load'.stamp = Revision[tree.base]
      BY <1>1, <2>1 DEF Load
  <2>3. load.of \in {1, 2} /\ load.done = Len(SqlFiles[load.of])
      BY <1>1, <1>3, <1>4, <2>1 DEF Loading
  <2>4. db.tables = TableNames /\ db.protected = IF load.of = 2 THEN Policies ELSE {}
      BY <1>3, <2>1, <2>3, FilesWhole
  <2>5. PICK new : /\ new = db' /\ new \in Database /\ new.version = Revision[tree.base]
                   /\ new.tables = TableNames
                   /\ new.protected = IF load.of = 2 THEN Policies ELSE {}
    <3>1. Revision[tree.base] \in Revisions
        BY <1>1, Constants
    <3>2. QED
        BY <1>1, <2>1, <2>4, <3>1 DEF Database
  <2>6. Whole(db)'
    <3>1. CASE load.of = 2
        BY <1>1, <1>3, <2>1, <2>5, <3>1 DEF Whole
    <3>2. CASE load.of = 1
        BY <1>1, <2>2, <2>5, <3>2 DEF Whole, Misstamped
    <3>3. QED
        BY <2>3, <3>1, <3>2
  <2>7. LoadOK'
      BY <1>2, <1>3, <2>1, <2>2 DEF LoadOK
  <2>8. DbOK' /\ TxOK'
      BY <1>1, <1>2, <2>1, <2>5, <2>6 DEF DbOK, TxOK
  <2>9. QED
      BY <2>7, <2>8 DEF SchemaInv
<1>9. QED
    BY <1>5, <1>6, <1>7, <1>8

LEMMA SchemaNext == IInv /\ SchemaInv /\ [Next]_vars => SchemaInv'
<1> SUFFICES ASSUME IInv, SchemaInv, [Next]_vars PROVE SchemaInv'
    OBVIOUS
<1>1. /\ tree \in Checkout /\ tree.base \in Commit /\ tree.base \in Nat /\ remote \in Commit
      /\ remote \in Nat /\ tree.base <= remote
    BY Numbers DEF IInv, TypeOK, Order
<1>2. CASE \/ Poll \/ Fetch \/ FetchFails \/ PullRefused \/ RestartFails \/ Restart \/ Push
           \/ \E w \in Worker : WorkerStarts(w)
           \/ UNCHANGED vars
  <2>1. UNCHANGED <<tree, db, tx, load>>
      BY <1>2
      DEF Poll, Fetch, FetchFails, PullRefused, RestartFails, Restart, Push, WorkerStarts,
          vars, treeVars, dbVars
  <2>2. QED
      BY <1>1, <2>1, StillSteps
<1>3. CASE Pull \/ EditCheckout
  <2>1. UNCHANGED <<db, tx, load>>
      BY <1>3 DEF Pull, EditCheckout, dbVars
  <2>2. tree'.base \in {tree.base, remote}
      BY <1>1, <1>3 DEF Pull, EditCheckout, Checkout
  <2>3. QED
      BY <1>1, <2>1, <2>2, StillSteps
<1>4. CASE RollBack \/ Kill
  <2>1. UNCHANGED <<db, load>> /\ (tx' = tx \/ tx' = NoAlembic)
      BY <1>4, Zenon DEF RollBack, Kill
  <2>2. tree' = tree \/ tree' = [tree EXCEPT !.base = remote, !.onMain = FALSE]
      BY <1>4, Zenon DEF RollBack, Kill
  <2>3. tree'.base \in {tree.base, remote}
      BY <1>1, <2>2 DEF Checkout
  <2>4. QED
      BY <1>1, <2>1, <2>3, StillSteps
<1>5. CASE ScriptMigrates \/ Migrate
    BY <1>5, BeginSteps
<1>6. CASE Step
    BY <1>6, StepKeeps
<1>7. CASE Stamp
    BY <1>7, StampKeeps
<1>8. CASE CommitRun
    BY <1>8, CommitKeeps
<1>9. CASE StartLoad \/ LoadStep \/ LoadStops \/ StampHead
    BY <1>9, LoadKeeps
<1>10. QED
    BY <1>2, <1>3, <1>4, <1>5, <1>6, <1>7, <1>8, <1>9 DEF Next, ScriptStep, AlembicStep

\* What the database and the transaction hold, statement by statement.
THEOREM SchemaInvariance == Spec => []SchemaInv
    BY SchemaInit, SchemaNext, Invariance, PTL DEF Spec

\* What is committed is a whole revision with its foreign keys resolved and its policies,
\* whatever fails and whoever is killed, for any number of commits, workers, faults and
\* interventions (alembic/env.py, alembic/versions, scripts/dump_sql.py).
THEOREM SchemaStaysWhole == Spec => []SchemaWhole
<1>1. IInv /\ SchemaInv => SchemaWhole
  <2> SUFFICES ASSUME IInv, SchemaInv PROVE SchemaWhole
      OBVIOUS
  <2>1. db \in Database /\ db.version \in 0 .. 2
      BY SchemaTypes DEF SchemaInv, DbOK
  <2>2. Policies \subseteq TableNames
      BY TheLists
  <2>3. /\ Expected(db.version).tables = IF db.version >= 1 THEN TableNames ELSE {}
        /\ Expected(db.version).protected = IF db.version >= 2 THEN Policies ELSE {}
      BY <2>1 DEF Expected, Policies
  <2>4. CASE Whole(db)
    <3>1. /\ db.protected \subseteq db.tables
          /\ db.tables = {} \/ db.tables = TableNames
        BY <2>1, <2>2, <2>4 DEF Whole, Database
    <3>2. \A n \in db.tables : Named[n].references \subseteq db.tables
        BY <3>1, TheTables
    <3>3. /\ db.tables = Expected(db.version).tables
          /\ db.protected \subseteq Expected(db.version).protected
          /\ db.protected = Expected(db.version).protected \/ Misstamped
        BY <2>1, <2>3, <2>4 DEF Whole
    <3>4. QED
        BY <3>1, <3>2, <3>3 DEF SchemaWhole
  <2>5. CASE load.pc \in {"running", "stopped"} /\ Loaded(db, load.done)
    <3> DEFINE m == load.done - Len(SortedTypes)
               k == load.done - Len(SortedTypes) - Len(SortedTables)
    <3>1. /\ db.version = 0 /\ db.tables = First(SortedTables, m)
          /\ db.protected = First(DumpedRls, k)
        BY <2>5 DEF Loaded
    <3>2. /\ Len(SortedTypes) \in Nat /\ Len(SortedTables) \in Nat
          /\ Lists(SortedTables, TableNames) /\ Lists(DumpedRls, Policies)
        BY TheLists, ListsOK
    <3>3. m \in Int /\ k \in Int /\ (k <= 0 \/ m >= Len(SortedTables))
        BY <3>2, SchemaTypes
    <3>4. db.protected \subseteq db.tables
      <4>1. CASE k <= 0
          BY <3>1, <3>2, <3>3, <4>1, FirstOf
      <4>2. CASE m >= Len(SortedTables)
        <5>1. First(SortedTables, m) = TableNames
            BY <3>2, <3>3, <4>2, FirstOf
        <5>2. QED
            BY <2>1, <3>1, <5>1 DEF Database
      <4>3. QED
          BY <3>3, <4>1, <4>2
    <3>5. \A n \in db.tables : Named[n].references \subseteq db.tables
      <4> SUFFICES ASSUME NEW n \in db.tables, NEW t \in Named[n].references
                   PROVE  t \in db.tables
          OBVIOUS
      <4>1. /\ DOMAIN SortedTables = 1 .. Len(SortedTables)
            /\ \A x \in TableNames : \E i \in 1 .. Len(SortedTables) : SortedTables[i] = x
          BY <3>2, ListsOK
      <4>2. PICK i \in 1 .. Len(SortedTables) : i <= m /\ n = SortedTables[i]
          BY <3>1, <4>1 DEF First
      <4>3. n \in TableNames
          BY <2>1 DEF Database
      <4>4. t \in TableNames
          BY <4>3, TheTables
      <4>5. PICK j \in 1 .. Len(SortedTables) : t = SortedTables[j]
          BY <4>1, <4>4
      <4>6. ~(i < j)
          BY <4>1, <4>2, <4>5, TablesAssumption
      <4>7. j <= m
          BY <3>2, <3>3, <4>2, <4>6
      <4>8. QED
          BY <3>1, <4>1, <4>5, <4>7 DEF First
    <3>6. QED
        BY <2>5, <3>1, <3>4, <3>5 DEF SchemaWhole
  <2>6. QED
      BY <2>4, <2>5 DEF SchemaInv, DbOK
<1>2. QED
    BY <1>1, Invariance, SchemaInvariance, PTL

\* PostgreSQL accepts every statement of a migration in either direction and of the SQL
\* files, but over types that a downgrade or unstamped files have left
\* (0b3936dfb7ef upgrade and downgrade, 0002_rls, sql/).
THEOREM StatementsAreAccepted == Spec => []StatementsAccepted
<1>1. IInv /\ SchemaInv => StatementsAccepted
  <2> SUFFICES ASSUME IInv, SchemaInv PROVE StatementsAccepted
      OBVIOUS
  <2>1. ASSUME tx.by # "nobody", tx.schema.version # tx.target, tx.next <= Len(Current),
               ~(db.version = 0 /\ db.types # {})
        PROVE  Accepts(tx.schema, Current[tx.next])
    <3> DEFINE v == tx.schema.version
    <3>1. /\ v \in 0 .. 2 /\ tx.target \in 0 .. 2 /\ tx.schema \in Database
        BY SchemaTypes DEF SchemaInv, DbOK
    <3>2. Current = Migration(v, tx.target)
        BY DEF Current, Migration
    <3>3. tx.next \in 1 .. Len(Current)
      <4>1. tx.next \in 1 .. Len(Current) + 1
          BY <2>1 DEF SchemaInv, TxOK
      <4>2. Len(Current) \in Nat
          BY <2>1, <3>1, <3>2, MigrationIs
      <4>3. QED
          BY <2>1, <4>1, <4>2
    <3>4. CASE v < tx.target
      <4>1. Rising(tx.schema, tx.next - 1)
          BY <2>1, <3>4 DEF SchemaInv, TxOK
      <4>2. CASE v = 0
        <5>1. Current = Upgrades[1] /\ tx.next \in 1 .. Len(InitialTables)
            BY <3>1, <3>2, <3>3, <3>4, <4>2, MigrationIs, Migrations
        <5>2. db.version = 0
            BY <4>1, <4>2 DEF Rising
        <5>3. db.types = {} /\ db.tables = {}
            BY <2>1, <5>2, NoTypes
        <5>4. QED
            BY <3>1, <4>1, <4>2, <5>1, <5>3, CreateTables
      <4>3. CASE v = 1
        <5>1. Current = Upgrades[2] /\ tx.next \in 1 .. Len(RLS_TABLES)
            BY <3>1, <3>2, <3>3, <3>4, <4>3, MigrationIs, Migrations
        <5>2. QED
            BY <3>1, <4>1, <4>3, <5>1, ProtectTables
      <4>4. QED
          BY <3>1, <3>4, <4>2, <4>3
    <3>5. CASE v > tx.target
      <4>1. Falling(tx.schema, tx.next - 1)
          BY <2>1, <3>5 DEF SchemaInv, TxOK
      <4>2. CASE v = 2
        <5>1. Current = Downgrades[2] /\ tx.next \in 1 .. Len(RLS_TABLES)
            BY <3>1, <3>2, <3>3, <3>5, <4>2, MigrationIs, Migrations
        <5>2. QED
            BY <3>1, <4>1, <4>2, <5>1, UnprotectTables
      <4>3. CASE v = 1
        <5>1. Current = Downgrades[1] /\ tx.next \in 1 .. Len(InitialTables)
            BY <3>1, <3>2, <3>3, <3>5, <4>3, MigrationIs, Migrations
        <5>2. QED
            BY <3>1, <4>1, <4>3, <5>1, DropTables
      <4>4. QED
          BY <3>1, <3>5, <4>2, <4>3
    <3>6. QED
        BY <2>1, <3>1, <3>4, <3>5
  <2>2. ASSUME Loading PROVE Accepts(db, SqlFiles[load.of][load.done + 1])
    <3>1. /\ load.of \in {1, 2} /\ load.done \in Nat /\ db \in Database
          /\ load.done < Len(SqlFiles[load.of]) /\ Loaded(db, load.done)
        BY <2>2, SchemaTypes DEF Loading, SchemaInv, LoadOK, DbOK
    <3>2. QED
        BY <3>1, LoadStatement
  <2>3. QED
      BY <2>1, <2>2 DEF StatementsAccepted
<1>2. QED
    BY <1>1, Invariance, SchemaInvariance, PTL
=============================================================================
