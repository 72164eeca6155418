---------------------------- MODULE MigrateProofs ----------------------------
(* What Migrate promises for any files, releases, numbers of statements    *)
(* and of runners, whatever fails and whenever connections break.          *)
EXTENDS Migrate, TLAPS

(* A runner that holds the lock is the only one that does.                 *)
Held(r) == pc[r] \in Holding => lock = r

(* What it has read is still so: its files without those in the table, of  *)
(* which it is at the first.                                               *)
UpToDate(r) ==
  /\ pc[r] # "idle" => release[r] \in Releases
  /\ pc[r] \in {"scanning", "begun", "inserted"} => todo[r] = release[r] \ recorded
  /\ pc[r] \in InTransaction =>
       file[r] \in todo[r] /\ \A g \in todo[r] : file[r] <= g
  /\ pc[r] = "inserted" => work[r] = Statements

(* The database is made of whole files.                                    *)
WholeFiles == \A f \in Files : executed[f] = IF f \in recorded THEN Statements ELSE 0

IInv == TypeOK /\ WholeFiles /\ \A r \in Runners : Held(r) /\ UpToDate(r)

LEMMA InitIInv == Init => IInv
  BY NobodyIsNoRunner, StatementsPositive
     DEF Init, IInv, TypeOK, WholeFiles, Held, UpToDate, Holding, InTransaction

(* A step of r that changes neither the table nor another runner, and      *)
(* leaves the lock to whoever else has it.                                 *)
LEMMA OthersUndisturbed ==
  ASSUME IInv, TypeOK', NEW r \in Runners, UNCHANGED database,
         \A q \in Runners \ {r} :
           /\ pc'[q] = pc[q] /\ release'[q] = release[q] /\ todo'[q] = todo[q]
           /\ file'[q] = file[q] /\ work'[q] = work[q]
           /\ lock = q => lock' = q,
         Held(r)', UpToDate(r)'
  PROVE  IInv'
<1>1. WholeFiles'
  BY DEF IInv, WholeFiles, database
<1>2. ASSUME NEW q \in Runners \ {r} PROVE Held(q)' /\ UpToDate(q)'
  BY <1>2 DEF IInv, Held, UpToDate, database
<1>3. QED
  BY <1>1, <1>2 DEF IInv

LEMMA ConnectStep ==
  ASSUME IInv, NEW r \in Runners, NEW d \in Releases, Connect(r, d)
  PROVE  IInv'
<1>1. TypeOK'
  BY DEF IInv, TypeOK, Connect, Goto, database, Holding, InTransaction
<1>2. pc'[r] = "waiting" /\ release'[r] = d
  BY DEF IInv, TypeOK, Connect, Goto
<1>3. Held(r)' /\ UpToDate(r)'
  BY <1>2 DEF Held, UpToDate, Holding, InTransaction
<1>4. QED
  BY <1>1, <1>3, OthersUndisturbed DEF IInv, TypeOK, Connect, Goto

LEMMA LockStep ==
  ASSUME IInv, NEW r \in Runners, Lock(r)
  PROVE  IInv'
<1>1. TypeOK'
  BY DEF IInv, TypeOK, Lock, Goto, database, Holding, InTransaction
<1>2. pc'[r] = "locked" /\ lock' = r /\ lock = Nobody
  BY DEF IInv, TypeOK, Lock, Goto
<1>3. Held(r)' /\ UpToDate(r)'
  BY <1>2 DEF IInv, Held, UpToDate, Holding, InTransaction, Lock
<1>4. QED
  BY <1>1, <1>2, <1>3, OthersUndisturbed, NobodyIsNoRunner DEF IInv, TypeOK, Lock, Goto

LEMMA ReadDoneStep ==
  ASSUME IInv, NEW r \in Runners, ReadDone(r)
  PROVE  IInv'
<1>1. release[r] \in SUBSET Files
  BY ReleasesHold DEF IInv, TypeOK
<1>2. TypeOK'
  BY <1>1 DEF IInv, TypeOK, ReadDone, Goto, database, Holding, InTransaction
<1>3. pc'[r] = "scanning" /\ todo'[r] = release[r] \ recorded
  BY DEF IInv, TypeOK, ReadDone, Goto
<1>4. Held(r)' /\ UpToDate(r)'
  BY <1>3 DEF IInv, Held, UpToDate, Holding, InTransaction, ReadDone, database
<1>5. QED
  BY <1>2, <1>4, OthersUndisturbed DEF IInv, TypeOK, ReadDone, Goto

LEMMA BeginStep ==
  ASSUME IInv, NEW r \in Runners, NEW f \in Files, Begin(r, f)
  PROVE  IInv'
<1>1. TypeOK'
  <2>1. pc' \in [Runners -> {"idle", "waiting"} \cup Holding]
    BY DEF IInv, TypeOK, Begin, Goto, Holding
  <2>2. file' \in [Runners -> Files \cup {Nobody}]
    BY DEF IInv, TypeOK, Begin
  <2>3. \A q \in Runners : pc'[q] \notin InTransaction => work'[q] = 0
    BY DEF IInv, TypeOK, Begin, Goto, InTransaction
  <2>4. QED
    BY <2>1, <2>2, <2>3 DEF IInv, TypeOK, Begin, database
<1>2. pc[r] = "scanning" /\ pc'[r] = "begun" /\ file'[r] = f
  BY DEF IInv, TypeOK, Begin, Goto
<1>3. Held(r)' /\ UpToDate(r)'
  BY <1>2 DEF IInv, Held, UpToDate, Holding, InTransaction, Begin, database
<1>4. QED
  BY <1>1, <1>3, OthersUndisturbed DEF IInv, TypeOK, Begin, Goto

LEMMA ExecuteStep ==
  ASSUME IInv, NEW r \in Runners, Execute(r)
  PROVE  IInv'
<1>1. work[r] + 1 \in 0 .. Statements
  BY StatementsPositive DEF IInv, TypeOK, Execute
<1>2. work' \in [Runners -> 0 .. Statements]
  BY <1>1 DEF IInv, TypeOK, Execute
<1>3. TypeOK'
  BY <1>2 DEF IInv, TypeOK, Execute, database, InTransaction
<1>4. Held(r)' /\ UpToDate(r)'
  BY DEF IInv, Held, UpToDate, Execute, database
<1>5. QED
  BY <1>3, <1>4, OthersUndisturbed DEF IInv, TypeOK, Execute

LEMMA InsertStep ==
  ASSUME IInv, NEW r \in Runners, Insert(r)
  PROVE  IInv'
<1>1. TypeOK'
  <2>1. pc' \in [Runners -> {"idle", "waiting"} \cup Holding]
    BY DEF IInv, TypeOK, Insert, Goto, Holding
  <2>2. \A q \in Runners : pc'[q] \notin InTransaction => work'[q] = 0
    BY DEF IInv, TypeOK, Insert, Goto, InTransaction
  <2>3. QED
    BY <2>1, <2>2 DEF IInv, TypeOK, Insert, database
<1>2. pc[r] = "begun" /\ pc'[r] = "inserted"
  BY DEF IInv, TypeOK, Insert, Goto
<1>3. Held(r)' /\ UpToDate(r)'
  BY <1>2 DEF IInv, Held, UpToDate, Holding, InTransaction, Insert, database
<1>4. QED
  BY <1>1, <1>3, OthersUndisturbed DEF IInv, TypeOK, Insert, Goto

(* The one step that changes the database: the first file not in the table *)
(* takes effect as a whole, with its row.                                  *)
LEMMA CommitApplies ==
  ASSUME IInv, NEW r \in Runners, Commit(r)
  PROVE  /\ release[r] \in Releases /\ file[r] \in release[r] \ recorded
         /\ file[r] \in Files /\ work[r] = Statements
         /\ executed[file[r]] = 0 /\ todo[r] = release[r] \ recorded
         /\ Log!Apply(release[r], file[r])
<1>1. pc[r] = "inserted"
  BY DEF Commit
<1>2. /\ release[r] \in Releases /\ work[r] = Statements
      /\ todo[r] = release[r] \ recorded
      /\ file[r] \in todo[r] /\ \A g \in todo[r] : file[r] <= g
  BY <1>1 DEF IInv, UpToDate, InTransaction
<1>3. file[r] \in Files
  BY <1>2 DEF IInv, TypeOK
<1>4. executed[file[r]] = 0
  BY <1>2, <1>3 DEF IInv, WholeFiles
<1>5. executed' = [executed EXCEPT ![file[r]] = Statements]
  BY <1>2, <1>3, <1>4, StatementsPositive DEF Commit, IInv, TypeOK
<1>6. QED
  BY <1>2, <1>3, <1>4, <1>5 DEF Log!Apply, Commit

LEMMA CommitStep ==
  ASSUME IInv, NEW r \in Runners, Commit(r)
  PROVE  IInv'
<1>1. /\ file[r] \in Files /\ work[r] = Statements
      /\ todo[r] = release[r] \ recorded
      /\ executed' = [executed EXCEPT ![file[r]] = Statements]
  BY CommitApplies DEF Log!Apply
<1>2. WholeFiles'
  BY <1>1 DEF IInv, TypeOK, WholeFiles, Commit
<1>3. TypeOK'
  <2>1. executed' \in [Files -> 0 .. Statements]
    BY <1>1, StatementsPositive DEF IInv, TypeOK
  <2>2. /\ recorded' \in SUBSET Files /\ todo' \in [Runners -> SUBSET Files]
        /\ work' \in [Runners -> 0 .. Statements]
    BY <1>1, StatementsPositive DEF IInv, TypeOK, Commit
  <2>3. pc' \in [Runners -> {"idle", "waiting"} \cup Holding]
    BY DEF IInv, TypeOK, Commit, Goto, Holding
  <2>4. \A q \in Runners : pc'[q] \notin InTransaction => work'[q] = 0
    BY DEF IInv, TypeOK, Commit, Goto
  <2>5. QED
    BY <2>1, <2>2, <2>3, <2>4 DEF IInv, TypeOK, Commit
<1>4. lock = r /\ lock' = r
  BY DEF IInv, Held, Holding, Commit
<1>5. Held(r)' /\ UpToDate(r)'
  <2>1. /\ pc[r] = "inserted" /\ pc'[r] = "scanning" /\ release' = release
        /\ todo'[r] = todo[r] \ {file[r]} /\ recorded' = recorded \cup {file[r]}
    BY DEF IInv, TypeOK, Commit, Goto
  <2>2. todo'[r] = release'[r] \ recorded'
    BY <1>1, <2>1
  <2>3. release'[r] \in Releases
    BY CommitApplies, <2>1
  <2>4. QED
    BY <1>4, <2>1, <2>2, <2>3 DEF Held, UpToDate, InTransaction
<1>6. ASSUME NEW q \in Runners \ {r} PROVE Held(q)' /\ UpToDate(q)'
  <2>1. pc[q] \notin Holding
    BY <1>4 DEF IInv, Held
  <2>2. pc'[q] = pc[q] /\ release' = release
    BY DEF IInv, TypeOK, Commit, Goto
  <2>3. QED
    BY <2>1, <2>2 DEF IInv, Held, UpToDate, Holding, InTransaction
<1>7. QED
  BY <1>2, <1>3, <1>5, <1>6 DEF IInv

(* Finish, Fail, Unlock and Lose: r leaves its work, and perhaps the lock. *)
LEMMA LeavingStep ==
  ASSUME IInv, NEW r \in Runners, Finish(r) \/ Fail(r) \/ Unlock(r) \/ Lose(r)
  PROVE  IInv'
<1>1. /\ pc' \in [Runners -> {"idle", "waiting"} \cup Holding]
      /\ pc'[r] \in {"idle", "finished"}
      /\ \A q \in Runners \ {r} : pc'[q] = pc[q]
  BY DEF IInv, TypeOK, Finish, Fail, Unlock, Lose, Goto, Holding
<1>2. /\ work' \in [Runners -> 0 .. Statements] /\ work'[r] = 0
      /\ \A q \in Runners \ {r} : work'[q] = work[q]
  <2>1. CASE Finish(r) \/ Unlock(r)
    BY <2>1 DEF IInv, TypeOK, Finish, Unlock, InTransaction
  <2>2. CASE Fail(r) \/ Lose(r)
    BY <2>2, StatementsPositive DEF IInv, TypeOK, Fail, Lose
  <2>3. QED
    BY <2>1, <2>2
<1>3. UNCHANGED <<database, release, todo, file>>
  BY DEF Finish, Fail, Unlock, Lose
<1>4. /\ lock' \in Runners \cup {Nobody}
      /\ \A q \in Runners \ {r} : lock = q => lock' = q
      /\ pc'[r] = "finished" => lock' = lock /\ pc[r] \in Holding
  <2>1. CASE Finish(r) \/ Fail(r)
    BY <2>1 DEF IInv, TypeOK, Finish, Fail, Holding, InTransaction
  <2>2. CASE Unlock(r)
    <3>1. lock = r /\ pc'[r] = "idle" /\ lock' = Nobody
      BY <2>2 DEF IInv, TypeOK, Held, Holding, Unlock, Goto
    <3>2. QED
      BY <3>1
  <2>3. CASE Lose(r)
    <3>1. pc'[r] = "idle" /\ lock' = IF lock = r THEN Nobody ELSE lock
      BY <2>3 DEF IInv, TypeOK, Lose, Goto
    <3>2. QED
      BY <3>1 DEF IInv, TypeOK
  <2>4. QED
    BY <2>1, <2>2, <2>3
<1>5. TypeOK'
  <2>1. \A q \in Runners : pc'[q] \notin InTransaction => work'[q] = 0
    BY <1>1, <1>2 DEF IInv, TypeOK
  <2>2. QED
    BY <1>1, <1>2, <1>3, <1>4, <2>1 DEF IInv, TypeOK, database
<1>6. Held(r)' /\ UpToDate(r)'
  <2>1. pc'[r] = "finished" => release'[r] \in Releases
    BY <1>3, <1>4 DEF IInv, UpToDate, Holding
  <2>2. pc'[r] = "finished" => lock' = r
    BY <1>4 DEF IInv, Held
  <2>3. QED
    BY <1>1, <2>1, <2>2 DEF Held, UpToDate, Holding, InTransaction
<1>7. QED
  BY <1>1, <1>2, <1>3, <1>4, <1>5, <1>6, OthersUndisturbed

LEMMA StepKeepsIInv == IInv /\ [Next]_vars => IInv'
<1> SUFFICES ASSUME IInv, [Next]_vars PROVE IInv'
  OBVIOUS
<1>1. ASSUME NEW r \in Runners, NEW d \in Releases, Connect(r, d) PROVE IInv'
  BY <1>1, ConnectStep
<1>2. ASSUME NEW r \in Runners, Lock(r) PROVE IInv'
  BY <1>2, LockStep
<1>3. ASSUME NEW r \in Runners, Proceed(r) PROVE IInv'
  <2>1. CASE ReadDone(r)
    BY <2>1, ReadDoneStep
  <2>2. CASE \E f \in Files : Begin(r, f)
    BY <2>2, BeginStep
  <2>3. CASE Execute(r)
    BY <2>3, ExecuteStep
  <2>4. CASE Insert(r)
    BY <2>4, InsertStep
  <2>5. CASE Commit(r)
    BY <2>5, CommitStep
  <2>6. CASE Finish(r) \/ Fail(r) \/ Unlock(r)
    BY <2>6, LeavingStep
  <2>7. QED
    BY <1>3, <2>1, <2>2, <2>3, <2>4, <2>5, <2>6 DEF Proceed
<1>4. ASSUME NEW r \in Runners, Lose(r) PROVE IInv'
  BY <1>4, LeavingStep
<1>5. CASE UNCHANGED vars
  BY <1>5 DEF vars, database, IInv, TypeOK, WholeFiles, Held, UpToDate
<1>6. QED
  BY <1>1, <1>2, <1>3, <1>4, <1>5 DEF Next

LEMMA Invariant == Spec => []IInv
  BY InitIInv, StepKeepsIInv, PTL DEF Spec

---------------------------------------------------------------------------
(* The lock, the table and every runner stay well formed.                  *)
THEOREM TypeCorrect == Spec => []TypeOK
<1>1. IInv => TypeOK
  BY DEF IInv
<1>2. QED
  BY <1>1, Invariant, PTL

(* No runner is ever at a file that is in the table already                *)
(* (migrate.js:13): the lock is held from before the table is read until   *)
(* after the last COMMIT.                                                  *)
THEOREM LockPreventsCollisions == Spec => []NoCollision
<1>1. IInv => NoCollision
  BY DEF IInv, UpToDate, NoCollision, InTransaction
<1>2. QED
  BY <1>1, Invariant, PTL

(* A COMMIT is one Apply of the log, and nothing else changes the database.*)
LEMMA StepsAreLogSteps == IInv /\ [Next]_vars => [Log!Next]_<<recorded, executed>>
<1> SUFFICES ASSUME IInv, [Next]_vars,
                    ~ UNCHANGED <<recorded, executed>>
             PROVE  Log!Next
  OBVIOUS
<1>1. PICK r \in Runners : Commit(r)
  BY DEF Next, vars, database, Connect, Lock, Proceed, ReadDone, Begin, Execute, Insert,
         Finish, Fail, Unlock, Lose
<1>2. /\ release[r] \in Releases /\ file[r] \in release[r]
      /\ Log!Apply(release[r], file[r])
  BY <1>1, CommitApplies
<1>3. QED
  BY <1>2 DEF Log!Next

(* The migrator implements its promise (migrate.js:9-12): a COMMIT is one  *)
(* Apply of the log, and nothing else changes the database.                *)
THEOREM MigratorImplementsLog == Spec => Implements
<1>1. Init => Log!Init
  BY DEF Init, Log!Init
<1>2. QED
  BY <1>1, StepsAreLogSteps, Invariant, PTL DEF Spec, Implements, Log!Spec

---------------------------------------------------------------------------
(* At every moment, whatever failed and whoever died, a file has taken     *)
(* effect as a whole and is in the table, or has not and is not            *)
(* (migrate.js:12).                                                        *)
THEOREM DatabaseIsWholeFiles == Spec => []WholeFiles
<1>1. IInv => WholeFiles
  BY DEF IInv
<1>2. QED
  BY <1>1, Invariant, PTL

(* What the log promises of a file that is in it: it stays, and is never   *)
(* executed again.                                                         *)
AppliedOnce ==
  [][\A f \in recorded : f \in recorded' /\ executed'[f] = executed[f]]_vars

(* No file is applied twice (migrate.js:11), by whatever run: a step of    *)
(* the log only adds a file that is not there.                             *)
THEOREM FilesAreAppliedOnce == Spec => AppliedOnce
<1>1. IInv /\ [Log!Next]_<<recorded, executed>> =>
        \A f \in recorded : f \in recorded' /\ executed'[f] = executed[f]
  BY DEF IInv, TypeOK, Log!Next, Log!Apply
<1>2. IInv /\ [Next]_vars =>
        [\A f \in recorded : f \in recorded' /\ executed'[f] = executed[f]]_vars
  BY <1>1, StepsAreLogSteps
<1>3. QED
  BY <1>2, Invariant, PTL DEF Spec, AppliedOnce

(* Releases grow at their end: a file one release has and another has not  *)
(* comes after all the files of the other.                                 *)
ReleasesGrow ==
  \A d, e \in Releases : \A f \in d, g \in e : g < f => g \in d

(* No file is in the table before one that precedes it in a release.       *)
InOrder == \A d \in Releases : \A f \in recorded, g \in d : g < f => g \in recorded

(* Whichever releases run, in whatever order and however often they are    *)
(* interrupted, the files in the table are the first ones (migrate.js:10), *)
(* as long as new migrations are named after the old ones; a file that is  *)
(* slipped in later is applied after those that are there.                 *)
THEOREM FilesAreAppliedInOrder == ReleasesGrow /\ Spec => []InOrder
<1> SUFFICES ASSUME ReleasesGrow PROVE Spec => []InOrder
  OBVIOUS
<1>1. Init => InOrder
  BY DEF Init, InOrder
<1>2. IInv /\ InOrder /\ [Next]_vars => InOrder'
  <2> SUFFICES ASSUME IInv, InOrder, [Next]_vars PROVE InOrder'
    OBVIOUS
  <2>1. CASE UNCHANGED <<recorded, executed>>
    BY <2>1 DEF InOrder
  <2>2. ASSUME NEW e \in Releases, NEW f \in e, Log!Apply(e, f) PROVE InOrder'
    <3>1. /\ recorded' = recorded \cup {f}
          /\ \A g \in e \ recorded : f <= g
      BY <2>2 DEF Log!Apply
    <3>2. ASSUME NEW d \in Releases, NEW h \in recorded', NEW g \in d, g < h
          PROVE  g \in recorded'
      <4>1. CASE h \in recorded
        BY <3>1, <3>2, <4>1 DEF InOrder
      <4>2. CASE h = f
        <5>1. g \in e
          BY <3>2, <4>2 DEF ReleasesGrow
        <5>2. g \in Nat /\ f \in Nat
          BY ReleasesHold, FilesOrdered
        <5>3. g \in recorded
          BY <3>1, <3>2, <4>2, <5>1, <5>2
        <5>4. QED
          BY <3>1, <5>3
      <4>3. QED
        BY <3>1, <4>1, <4>2
    <3>3. QED
      BY <3>2 DEF InOrder
  <2>3. QED
    BY <2>1, <2>2, StepsAreLogSteps DEF Log!Next
<1>3. QED
  BY <1>1, <1>2, Invariant, PTL DEF Spec
=============================================================================
