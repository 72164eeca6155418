------------------------------ MODULE Migrate ------------------------------
(***************************************************************************)
(* The migrator, db/migrate.js: npm run migrate, started on any number of  *)
(* instances at once and again after any failure.                          *)
(*                                                                         *)
(* A runner is one connection to the database.  Its advisory lock belongs  *)
(* to the session, so it goes with the connection; what it executed since  *)
(* BEGIN is visible to nobody and goes with it too.                        *)
(***************************************************************************)
EXTENDS Naturals

CONSTANTS
  Files,       \* migration files; their order as numbers is that of their names
  Releases,    \* the sets of files a checkout of the repository can hold
  Statements,  \* statements in a file
  Runners,     \* connections of migrators
  Nobody       \* nobody holds the lock

ASSUME FilesOrdered     == Files \subseteq Nat
ASSUME ReleasesHold     == Releases \subseteq SUBSET Files
ASSUME StatementsPositive == Statements \in Nat \ {0}
ASSUME NobodyIsNoRunner == Nobody \notin Runners

VARIABLES
  lock,      \* who holds pg_advisory_lock(LOCK_ID)
  recorded,  \* the rows of schema_migrations
  executed,  \* how many statements of each file have taken effect
  pc,        \* where a runner stands
  release,   \* the files of its migrations directory
  todo,      \* those it has still to apply
  file,      \* the one it is at
  work       \* statements of it executed in the open transaction

database == <<recorded, executed>>
vars == <<lock, recorded, executed, pc, release, todo, file, work>>

(* The log the migrator keeps is the table itself and what the files did.  *)
Log == INSTANCE MigrationLog WITH
         Files <- Files, Releases <- Releases, Statements <- Statements,
         recorded <- recorded, executed <- executed

Holding == {"locked", "scanning", "begun", "inserted", "finished"}
InTransaction == {"begun", "inserted"}

TypeOK ==
  /\ lock \in Runners \cup {Nobody}
  /\ recorded \in SUBSET Files
  /\ executed \in [Files -> 0 .. Statements]
  /\ pc \in [Runners -> {"idle", "waiting"} \cup Holding]
  /\ release \in [Runners -> Releases \cup {{}}]
  /\ todo \in [Runners -> SUBSET Files]
  /\ file \in [Runners -> Files \cup {Nobody}]
  /\ work \in [Runners -> 0 .. Statements]
  /\ \A r \in Runners : pc[r] \notin InTransaction => work[r] = 0

Init ==
  /\ lock = Nobody
  /\ recorded = {}
  /\ executed = [f \in Files |-> 0]
  /\ pc = [r \in Runners |-> "idle"]
  /\ release = [r \in Runners |-> {}]
  /\ todo = [r \in Runners |-> {}]
  /\ file = [r \in Runners |-> Nobody]
  /\ work = [r \in Runners |-> 0]

Goto(r, there) == pc' = [pc EXCEPT ![r] = there]

---------------------------------------------------------------------------
(* runMigrations of a checkout gets its connection.                        *)
Connect(r, d) ==
  /\ pc[r] = "idle"
  /\ Goto(r, "waiting")
  /\ release' = [release EXCEPT ![r] = d]
  /\ UNCHANGED <<lock, database, todo, file, work>>

(* The lock is asked for and not waited for.                               *)
LockIgnored(r) ==
  /\ pc[r] = "waiting"
  /\ lock' = r
  /\ Goto(r, "locked")
  /\ UNCHANGED <<database, release, todo, file, work>>

(* pg_advisory_lock returns once no other session holds the lock.          *)
Lock(r) ==
  /\ pc[r] = "waiting" /\ lock = Nobody
  /\ lock' = r
  /\ Goto(r, "locked")
  /\ UNCHANGED <<database, release, todo, file, work>>

(* CREATE TABLE IF NOT EXISTS, then the names in the table, then those in  *)
(* the directory.  A table that is not there yet is as good as an empty    *)
(* one.                                                                    *)
ReadDone(r) ==
  /\ pc[r] = "locked"
  /\ todo' = [todo EXCEPT ![r] = release[r] \ recorded]
  /\ Goto(r, "scanning")
  /\ UNCHANGED <<lock, database, release, file, work>>

(* BEGIN for the next file in the order of the names.                      *)
Begin(r, f) ==
  /\ pc[r] = "scanning"
  /\ f \in todo[r] /\ \A g \in todo[r] : f <= g
  /\ file' = [file EXCEPT ![r] = f]
  /\ Goto(r, "begun")
  /\ UNCHANGED <<lock, database, release, todo, work>>

(* There is no transaction: the statement takes effect at once.            *)
ExecuteOutside(r) ==
  /\ pc[r] = "begun" /\ work[r] < Statements
  /\ executed' = [executed EXCEPT ![file[r]] = work[r] + 1]
  /\ work' = [work EXCEPT ![r] = @ + 1]
  /\ UNCHANGED <<lock, recorded, pc, release, todo, file>>

(* One more statement of the file.                                         *)
Execute(r) ==
  /\ pc[r] = "begun" /\ work[r] < Statements
  /\ work' = [work EXCEPT ![r] = @ + 1]
  /\ UNCHANGED <<lock, database, pc, release, todo, file>>

(* INSERT INTO schema_migrations.  The primary key makes it wait for       *)
(* another open transaction that inserted the same name, and fail (Fail)   *)
(* if that name is there.                                                  *)
Insert(r) ==
  /\ pc[r] = "begun" /\ work[r] = Statements
  /\ file[r] \notin recorded
  /\ \A q \in Runners : pc[q] = "inserted" => file[q] # file[r]
  /\ Goto(r, "inserted")
  /\ UNCHANGED <<lock, database, release, todo, file, work>>

Commit(r) ==
  /\ pc[r] = "inserted"
  /\ recorded' = recorded \cup {file[r]}
  /\ executed' = [executed EXCEPT ![file[r]] = @ + work[r]]
  /\ todo' = [todo EXCEPT ![r] = @ \ {file[r]}]
  /\ work' = [work EXCEPT ![r] = 0]
  /\ Goto(r, "scanning")
  /\ UNCHANGED <<lock, release, file>>

Finish(r) ==
  /\ pc[r] = "scanning" /\ todo[r] = {}
  /\ Goto(r, "finished")
  /\ UNCHANGED <<lock, database, release, todo, file, work>>

---------------------------------------------------------------------------
(* The transaction is left open.                                           *)
FailWithoutRollback(r) ==
  /\ pc[r] \in {"locked", "scanning"} \cup InTransaction
  /\ Goto(r, "finished")
  /\ UNCHANGED <<lock, database, release, todo, file, work>>

(* There is no finally: the error leaves runMigrations with the lock held  *)
(* by a connection that went back to the pool.                             *)
FailKeepingLock(r) ==
  /\ pc[r] \in {"locked", "scanning"} \cup InTransaction
  /\ work' = [work EXCEPT ![r] = 0]
  /\ Goto(r, "idle")
  /\ UNCHANGED <<lock, database, release, todo, file>>

(* A statement fails, or a file cannot be read: ROLLBACK if a transaction  *)
(* is open, and the remaining files are not tried.                         *)
Fail(r) ==
  /\ pc[r] \in {"locked", "scanning"} \cup InTransaction
  /\ work' = [work EXCEPT ![r] = 0]
  /\ Goto(r, "finished")
  /\ UNCHANGED <<lock, database, release, todo, file>>

(* finally: the lock is given up, whatever came before.                    *)
Unlock(r) ==
  /\ pc[r] = "finished"
  /\ lock' = Nobody
  /\ Goto(r, "idle")
  /\ UNCHANGED <<database, release, todo, file, work>>

(* The process dies or the connection breaks, while it waits for the lock  *)
(* or later: the server rolls back and releases.                           *)
Lose(r) ==
  /\ pc[r] # "idle"
  /\ lock' = IF lock = r THEN Nobody ELSE lock
  /\ work' = [work EXCEPT ![r] = 0]
  /\ Goto(r, "idle")
  /\ UNCHANGED <<database, release, todo, file>>

Proceed(r) ==
  \/ ReadDone(r)
  \/ \E f \in Files : Begin(r, f)
  \/ Execute(r) \/ Insert(r) \/ Commit(r) \/ Finish(r) \/ Fail(r) \/ Unlock(r)

Next == \E r \in Runners :
  \/ \E d \in Releases : Connect(r, d)
  \/ Lock(r)
  \/ Proceed(r)
  \/ Lose(r)

Spec == Init /\ [][Next]_vars

(* A statement that was sent is answered, if only by an error, and the     *)
(* server serves those who wait for the lock in turn.                      *)
FairSpec ==
  /\ Spec
  /\ \A r \in Runners : WF_vars(Proceed(r)) /\ SF_vars(Lock(r))

---------------------------------------------------------------------------
(* The rules of migrate.js:9-12: whatever fails and whoever else runs, the *)
(* database goes from whole file to whole file, each once, in order.       *)
Implements == Log!Spec

(* The rule of migrate.js:13: nobody ever is at a file somebody else has   *)
(* applied since the table was read, so no run fails because of another.   *)
NoCollision ==
  \A r \in Runners : pc[r] \in InTransaction => file[r] \notin recorded

(* Every run comes to an end, those that wait for the lock included: a run *)
(* that fails or is lost leaves nothing locked behind (migrate.js:70-72).  *)
EveryRunEnds == \A r \in Runners : pc[r] # "idle" ~> pc[r] = "idle"
=============================================================================
