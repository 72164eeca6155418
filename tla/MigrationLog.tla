---------------------------- MODULE MigrationLog ----------------------------
(***************************************************************************)
(* What the migrator promises (the rules at the head of db/migrate.js):    *)
(* each file of a release takes effect once, as a whole, together with its *)
(* row in schema_migrations, and in the order of the files' names.         *)
(***************************************************************************)
EXTENDS Naturals

CONSTANTS
  Files,      \* migration files; their order as numbers is that of their names
  Releases,   \* the sets of files a checkout of the repository can hold
  Statements  \* statements in a file

VARIABLES
  recorded,   \* the rows of schema_migrations
  executed    \* how many statements of each file have taken effect

Init ==
  /\ recorded = {}
  /\ executed = [f \in Files |-> 0]

Apply(release, f) ==
  /\ f \in release \ recorded
  /\ \A g \in release \ recorded : f <= g
  /\ recorded' = recorded \cup {f}
  /\ executed' = [executed EXCEPT ![f] = Statements]

Next == \E release \in Releases : \E f \in release : Apply(release, f)

Spec == Init /\ [][Next]_<<recorded, executed>>
=============================================================================
