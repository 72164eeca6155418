--------------------------- MODULE LoginThrottle ---------------------------
(***************************************************************************)
(* The two limits on admin login attempts: the in-memory limiter of the    *)
(* route (middleware/rateLimit.js, lost on restart) and the durable one,   *)
(* the table login_attempts that services/adminAuth.js consults before it  *)
(* tests a password and writes after it.  The consultation (isBlocked) and *)
(* the insertion (record) are separate statements, so the attempts in      *)
(* flight between the two are not counted by anybody yet.                  *)
(*                                                                         *)
(* An element of Attempts is one POST /admin/login together with the row   *)
(* of login_attempts it may insert; it can stand for a new request as soon *)
(* as that row is too old for isBlocked, its only reader.  Rows with       *)
(* ok = TRUE are never counted and are left out.  Time is the age of a row *)
(* in ticks, so that it need not be bounded; the history variables told    *)
(* and heard have a clock of their own and never look at the table.        *)
(***************************************************************************)
EXTENDS Integers, FiniteSets

CONSTANTS
  Attempts,          \* login requests and their rows
  Identifiers,       \* normalized e-mail addresses, with or without an account
  Ips,               \* client addresses
  NoRequest,         \* what an unused element of Attempts holds
  MaxPerIdentifier,  \* config.admin.lockout.maxPerIdentifier
  MaxPerIp,          \* config.admin.lockout.maxPerIp
  Window,            \* config.admin.lockout.windowMinutes, in ticks
  LoginMax,          \* config.rateLimit.loginMax
  LimiterWindow,     \* config.rateLimit.windowMinutes, in ticks
  MaxConcurrent      \* login requests the process serves at once

ASSUME AttemptsFinite == IsFiniteSet(Attempts)
ASSUME LimitsPositive ==
  /\ MaxPerIdentifier \in Nat \ {0} /\ MaxPerIp \in Nat \ {0}
  /\ Window \in Nat \ {0}           /\ LimiterWindow \in Nat \ {0}
  /\ LoginMax \in Nat \ {0}         /\ MaxConcurrent \in Nat \ {0}
ASSUME NoRequestIsNone == NoRequest \notin [identifier : Identifiers, ip : Ips, valid : BOOLEAN]

VARIABLES
  pc,        \* where the handler of an attempt stands
  req,       \* what was submitted; valid: the password is right and the account active
  rows,      \* attempts whose ok = FALSE row is within the window
  age,       \* ticks since that row was inserted, up to Window
  told,      \* history: attempts whose failure was answered in the last Window ticks
  heard,     \* history: ticks since that answer
  limiter    \* the in-memory limiter: hits of an address in its current window

vars == <<pc, req, rows, age, told, heard, limiter>>

Request == [identifier : Identifiers, ip : Ips, valid : BOOLEAN]
NoHits  == [hits |-> 0, age |-> 0]

TypeOK ==
  /\ pc \in [Attempts -> {"free", "arrived", "admitted", "recorded"}]
  /\ req \in [Attempts -> Request \cup {NoRequest}]
  /\ rows \subseteq Attempts
  /\ told \subseteq Attempts
  /\ age \in [Attempts -> 0 .. Window]
  /\ heard \in [Attempts -> 0 .. Window - 1]
  /\ limiter \in [Ips -> [hits : 0 .. LoginMax, age : 0 .. LimiterWindow - 1]]

Init ==
  /\ pc = [a \in Attempts |-> "free"]
  /\ req = [a \in Attempts |-> NoRequest]
  /\ rows = {}
  /\ told = {}
  /\ age = [a \in Attempts |-> 0]
  /\ heard = [a \in Attempts |-> 0]
  /\ limiter = [p \in Ips |-> NoHits]

Serving  == {a \in Attempts : pc[a] # "free"}
InFlight == {a \in Attempts : pc[a] \in {"arrived", "admitted"}}

FailuresOf(i) == {a \in rows : req[a].identifier = i}
FailuresAt(p) == {a \in rows : req[a].ip = p}

(* isBlocked with > instead of >=, and without the address.                *)
BlockedOffByOne(i, p) ==
  \/ Cardinality(FailuresOf(i)) > MaxPerIdentifier
  \/ Cardinality(FailuresAt(p)) > MaxPerIp
BlockedByIdentifierOnly(i, p) == Cardinality(FailuresOf(i)) >= MaxPerIdentifier

(* loginAttempts.isBlocked: one SELECT that counts the failures of the     *)
(* identifier and those of the address within the window.                  *)
IsBlocked(i, p) ==
  \/ Cardinality(FailuresOf(i)) >= MaxPerIdentifier
  \/ Cardinality(FailuresAt(p)) >= MaxPerIp

(* An attempt that leaves nothing behind frees its element.                *)
Forget(a) ==
  /\ pc' = [pc EXCEPT ![a] = "free"]
  /\ req' = [req EXCEPT ![a] = IF a \in rows THEN @ ELSE NoRequest]

---------------------------------------------------------------------------
(* The limiter counts and never refuses.                                   *)
SubmitUnlimited(a, r) ==
  /\ pc[a] = "free" /\ a \notin rows \cup told
  /\ limiter' = [limiter EXCEPT ![r.ip].hits = @ + 1]
  /\ pc' = [pc EXCEPT ![a] = "arrived"]
  /\ req' = [req EXCEPT ![a] = r]
  /\ UNCHANGED <<rows, age, told, heard>>

(* POST /admin/login gets past loginLimiter, which counts every request of *)
(* the address in a fixed window, and past requireCsrf.  A request over    *)
(* the limit is answered 429 and changes nothing here.                     *)
Submit(a, r) ==
  /\ pc[a] = "free" /\ a \notin rows \cup told
  /\ Cardinality(Serving) < MaxConcurrent
  /\ limiter[r.ip].hits < LoginMax
  /\ limiter' = [limiter EXCEPT ![r.ip].hits = @ + 1]
  /\ pc' = [pc EXCEPT ![a] = "arrived"]
  /\ req' = [req EXCEPT ![a] = r]
  /\ UNCHANGED <<rows, age, told, heard>>

(* A blocked attempt is itself recorded as a failure.                      *)
CheckRecordingBlocked(a) ==
  /\ pc[a] = "arrived"
  /\ IF IsBlocked(req[a].identifier, req[a].ip)
       THEN /\ rows' = rows \cup {a}
            /\ age' = [age EXCEPT ![a] = 0]
            /\ pc' = [pc EXCEPT ![a] = "free"]
       ELSE pc' = [pc EXCEPT ![a] = "admitted"] /\ UNCHANGED <<rows, age>>
  /\ UNCHANGED <<req, told, heard, limiter>>

(* login asks isBlocked first.  Blocked: audited and refused, the password *)
(* is not tested and no row is written.                                    *)
CheckLockout(a) ==
  /\ pc[a] = "arrived"
  /\ \/ /\ IsBlocked(req[a].identifier, req[a].ip)
        /\ Forget(a)
     \/ /\ ~ IsBlocked(req[a].identifier, req[a].ip)
        /\ pc' = [pc EXCEPT ![a] = "admitted"]
        /\ UNCHANGED req
  /\ UNCHANGED <<rows, age, told, heard, limiter>>

(* The handler answers without waiting for the insertion, which is lost.   *)
AnswerWithoutRecord(a) ==
  /\ pc[a] = "admitted" /\ ~ req[a].valid
  /\ told' = told \cup {a}
  /\ heard' = [heard EXCEPT ![a] = 0]
  /\ pc' = [pc EXCEPT ![a] = "free"]
  /\ UNCHANGED <<req, rows, age, limiter>>

(* Missing credentials, no account, wrong password or inactive account:    *)
(* record(identifier, ip, false) is awaited.                               *)
RecordFailure(a) ==
  /\ pc[a] = "admitted" /\ ~ req[a].valid
  /\ rows' = rows \cup {a}
  /\ age' = [age EXCEPT ![a] = 0]
  /\ pc' = [pc EXCEPT ![a] = "recorded"]
  /\ UNCHANGED <<req, told, heard, limiter>>

(* The audit entry is written and the failure answered (401), however long *)
(* that took and whatever the table holds by then.                         *)
AnswerFailure(a) ==
  /\ pc[a] = "recorded"
  /\ told' = told \cup {a}
  /\ heard' = [heard EXCEPT ![a] = 0]
  /\ pc' = [pc EXCEPT ![a] = "free"]
  /\ UNCHANGED <<req, rows, age, limiter>>

(* The credentials are right: the row written has ok = TRUE and the        *)
(* sessions (module AdminSessions) take over.                              *)
AcceptLogin(a) ==
  /\ pc[a] = "admitted" /\ req[a].valid
  /\ Forget(a)
  /\ UNCHANGED <<rows, age, told, heard, limiter>>

(* A statement of the handler fails: the error goes to errorHandler (500). *)
RequestFails(a) ==
  /\ pc[a] \in {"arrived", "admitted"}
  /\ Forget(a)
  /\ UNCHANGED <<rows, age, told, heard, limiter>>

(* The process dies and starts again: handlers and the limiter are gone,   *)
(* the table is not.                                                       *)
Restart ==
  /\ pc' = [a \in Attempts |-> "free"]
  /\ req' = [a \in Attempts |-> IF a \in rows \cup told THEN req[a] ELSE NoRequest]
  /\ limiter' = [p \in Ips |-> NoHits]
  /\ UNCHANGED <<rows, age, told, heard>>

(* One tick: rows leave the window of isBlocked, answers that of told, the *)
(* limiter's fixed window may end, and elements without use are freed.     *)
Tick ==
  /\ rows' = {a \in rows : age[a] + 1 < Window}
  /\ told' = {a \in told : heard[a] + 1 < Window}
  /\ LET dated == rows' \cup told' \cup {a \in Attempts : pc[a] = "recorded"} IN
       age' = [a \in Attempts |->
                 IF a \in dated THEN IF age[a] < Window THEN age[a] + 1 ELSE Window
                                ELSE 0]
  /\ heard' = [a \in Attempts |-> IF a \in told' THEN heard[a] + 1 ELSE 0]
  /\ req' = [a \in Attempts |->
               IF a \in rows' \cup told' \cup Serving THEN req[a] ELSE NoRequest]
  /\ limiter' = [p \in Ips |->
                   IF limiter[p].hits = 0 \/ limiter[p].age + 1 = LimiterWindow
                     THEN NoHits
                     ELSE [limiter[p] EXCEPT !.age = @ + 1]]
  /\ UNCHANGED pc

Handle(a) ==
  \/ CheckLockout(a)
  \/ RecordFailure(a)
  \/ AnswerFailure(a)
  \/ AcceptLogin(a)
  \/ RequestFails(a)

Next ==
  \/ \E a \in Attempts, r \in Request : Submit(a, r)
  \/ \E a \in Attempts : Handle(a)
  \/ Restart
  \/ Tick

Spec == Init /\ [][Next]_vars

(* Only the clock is fair: whether and when a request arrives, is answered *)
(* or dies is up to its client and the database.                           *)
FairSpec == Spec /\ WF_vars(Tick)

---------------------------------------------------------------------------
(* The failures counted against one identifier overshoot the limit by at   *)
(* most the attempts that were in flight together: isBlocked admits below  *)
(* the limit only, and who was admitted before the others recorded can     *)
(* still add its row (adminAuth.js:45 against :56, :65 and :76).           *)
IdentifierBounded ==
  \A i \in Identifiers :
    Cardinality(FailuresOf(i)) <= MaxPerIdentifier - 1 + MaxConcurrent

(* The same for the failures counted against one address.                  *)
IpBounded ==
  \A p \in Ips : Cardinality(FailuresAt(p)) <= MaxPerIp - 1 + MaxConcurrent

(* Of the failures that clients were told of within the last window, the  *)
(* table no longer counts at most as many as the process serves at once:   *)
(* those whose answer, delayed behind the row (adminAuth.js:56-57, :65-66, *)
(* :76-77), left a whole window after it.  No restart, no interleaving and *)
(* no repetition lets more of them escape isBlocked: the durable layer     *)
(* forgets nothing before its time (loginAttempts.js:4-5).                 *)
UncountedBounded == Cardinality(told \ rows) <= MaxConcurrent

(* A locked identifier (or address) is unlocked again, although its client *)
(* goes on trying: a refused attempt does not renew the lock               *)
(* (adminAuth.js:45-51 writes no row).                                     *)
LockoutEnds ==
  /\ \A i \in Identifiers :
       Cardinality(FailuresOf(i)) >= MaxPerIdentifier
         ~> Cardinality(FailuresOf(i)) < MaxPerIdentifier
  /\ \A p \in Ips :
       Cardinality(FailuresAt(p)) >= MaxPerIp ~> Cardinality(FailuresAt(p)) < MaxPerIp
=============================================================================
