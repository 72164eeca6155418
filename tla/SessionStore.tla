---------------------------- MODULE SessionStore ----------------------------
(***************************************************************************)
(* What the admin sessions promise to the rest of the program              *)
(* (db/repositories/adminSessions.js): a session is opened once, lives for *)
(* its absolute limit at the longest, whatever is done with it, and once   *)
(* it is over it stays so; a request is let in only under a session that   *)
(* is open.                                                                *)
(***************************************************************************)
EXTENDS Integers

CONSTANTS
  Sessions,   \* rows of admin_sessions with their tokens
  Requests,   \* handlers of requests that present a session
  Lifetime,   \* the absolute limit, in ticks
  Nobody      \* the handler serves no session

VARIABLES
  known,      \* the sessions the table holds
  left,       \* ticks until a session is over; 0 once it is
  user        \* the session a handler serves

vars == <<known, left, user>>

Init ==
  /\ known = {}
  /\ left = [s \in Sessions |-> 0]
  /\ user = [r \in Requests |-> Nobody]

(* A login opens a session nobody knew.                                    *)
Open(s) ==
  /\ s \notin known
  /\ known' = known \cup {s}
  /\ left' = [left EXCEPT ![s] = Lifetime]
  /\ UNCHANGED user

(* A login or a logout ends sessions.                                      *)
Close(S) ==
  /\ left' = [s \in Sessions |-> IF s \in S THEN 0 ELSE left[s]]
  /\ UNCHANGED <<known, user>>

(* Only what is over is deleted.                                           *)
Forget(S) ==
  /\ \A s \in S : left[s] = 0
  /\ known' = known \ S
  /\ UNCHANGED <<left, user>>

Enter(r, s) ==
  /\ user[r] = Nobody /\ s \in known /\ left[s] > 0
  /\ user' = [user EXCEPT ![r] = s]
  /\ UNCHANGED <<known, left>>

Leave(R) ==
  /\ user' = [r \in Requests |-> IF r \in R THEN Nobody ELSE user[r]]
  /\ UNCHANGED <<known, left>>

Tick ==
  /\ left' = [s \in Sessions |-> IF left[s] > 0 THEN left[s] - 1 ELSE 0]
  /\ UNCHANGED <<known, user>>

Next ==
  \/ \E s \in Sessions : Open(s)
  \/ \E S \in SUBSET Sessions : Close(S) \/ Forget(S)
  \/ \E r \in Requests, s \in Sessions : Enter(r, s)
  \/ \E R \in SUBSET Requests : Leave(R)
  \/ Tick

Spec == Init /\ [][Next]_vars
=============================================================================
