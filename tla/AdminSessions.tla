--------------------------- MODULE AdminSessions ---------------------------
(***************************************************************************)
(* The admin sessions: the table admin_sessions                            *)
(* (db/repositories/adminSessions.js), the end of a successful login and   *)
(* the requests that present a session (services/adminAuth.js).            *)
(*                                                                         *)
(* Every query is a statement of its own: a login handler revokes, then    *)
(* creates, then answers; a request reads its session, then acts on what   *)
(* it read; the write of last_seen_at is started and never awaited.  All   *)
(* of these interleave, and the process may die between any two of them.   *)
(*                                                                         *)
(* Time is in ticks: a row holds its age against expires_at and the time   *)
(* since last_seen_at, both stopping where findValid stops accepting, so   *)
(* that the clock need not be bounded.                                     *)
(***************************************************************************)
EXTENDS Integers, FiniteSets

CONSTANTS
  Sessions,    \* rows of admin_sessions with their tokens
  Admins,      \* accounts of admin_users
  Logins,      \* login handlers that can run at once
  Requests,    \* handlers of requests that present a session
  Absolute,    \* config.admin.absoluteHours, in ticks
  Idle,        \* config.admin.idleMinutes, in ticks
  TouchDelay,  \* ticks the write of last_seen_at may wait for a connection
  NoRow,       \* the session is not in the table
  NoSession    \* what a handler without a session holds

Row == [admin : Admins, revoked : BOOLEAN, age : 0 .. Absolute, idle : 0 .. Idle]

ASSUME HandlersFinite == IsFiniteSet(Logins) /\ IsFiniteSet(Sessions)
ASSUME ClocksPositive ==
  Absolute \in Nat \ {0} /\ Idle \in Nat \ {0} /\ TouchDelay \in Nat
ASSUME NoRowIsNone == NoRow \notin Row
ASSUME NoSessionIsNone == NoSession \notin Sessions

VARIABLES
  active,     \* admin_users.is_active
  row,        \* the table admin_sessions
  cookies,    \* sessions whose token a client was given
  login,      \* the login handlers
  request,    \* the request handlers
  touch,      \* requests whose write of last_seen_at is still to come, and its delay
  closed,     \* history: sessions whose logout was answered
  unseen      \* history: ticks since a session was created or last accepted

vars == <<active, row, cookies, login, request, touch, closed, unseen>>

NoLogin   == [pc |-> "idle", admin |-> NoSession, session |-> NoSession, before |-> {}]
NoRequest == [pc |-> "idle", session |-> NoSession]
NoTouch   == [session |-> NoSession, delay |-> 0]

TypeOK ==
  /\ active \in [Admins -> BOOLEAN]
  /\ row \in [Sessions -> Row \cup {NoRow}]
  /\ cookies \subseteq Sessions
  /\ login \in [Logins -> [pc : {"idle", "verified", "revoked", "created"},
                           admin : Admins \cup {NoSession},
                           session : Sessions \cup {NoSession},
                           before : SUBSET Sessions]]
  /\ request \in [Requests -> [pc : {"idle", "loaded", "loggedOut"},
                               session : Sessions \cup {NoSession}]]
  /\ touch \in [Requests -> [session : Sessions \cup {NoSession}, delay : 0 .. TouchDelay]]
  /\ closed \subseteq Sessions
  /\ unseen \in [Sessions -> 0 .. Idle + TouchDelay]
  /\ \A l \in Logins : /\ login[l].pc # "idle" => login[l].admin \in Admins
                       /\ login[l].pc = "created" => login[l].session \in Sessions
  /\ \A r \in Requests : request[r].pc # "idle" => request[r].session \in Sessions

Init ==
  /\ active = [a \in Admins |-> TRUE]
  /\ row = [s \in Sessions |-> NoRow]
  /\ cookies = {}
  /\ login = [l \in Logins |-> NoLogin]
  /\ request = [r \in Requests |-> NoRequest]
  /\ touch = [r \in Requests |-> NoTouch]
  /\ closed = {}
  /\ unseen = [s \in Sessions |-> 0]

Capped(n, cap) == IF n < cap THEN n + 1 ELSE cap

AsRow(a, r, n, i) == [admin |-> a, revoked |-> r, age |-> n, idle |-> i]
NewRow(a) == AsRow(a, FALSE, 0, 0)
Revoke(w) == AsRow(w.admin, TRUE, w.age, w.idle)
Seen(w)   == AsRow(w.admin, w.revoked, w.age, 0)
Older(w)  == AsRow(w.admin, w.revoked, Capped(w.age, Absolute), Capped(w.idle, Idle))

Exists(s)    == row[s] # NoRow
Unrevoked(a) == {s \in Sessions : Exists(s) /\ row[s].admin = a /\ ~ row[s].revoked}

(* findValid without the idle clock, and without the account's is_active.  *)
FindIdle(s)     == Exists(s) /\ ~ row[s].revoked /\ row[s].age < Absolute /\ active[row[s].admin]
FindInactive(s) == Exists(s) /\ ~ row[s].revoked /\ row[s].age < Absolute /\ row[s].idle < Idle

(* adminSessions.findValid: one SELECT joined with admin_users.            *)
FindValid(s) ==
  /\ Exists(s)
  /\ ~ row[s].revoked
  /\ row[s].age < Absolute
  /\ row[s].idle < Idle
  /\ active[row[s].admin]

---------------------------------------------------------------------------
(* The password was right and the account active when findForLogin read    *)
(* it.  "before" remembers the admin's sessions of that moment.            *)
Verify(l, a) ==
  /\ login[l].pc = "idle" /\ active[a]
  /\ login' = [login EXCEPT ![l] =
       [NoLogin EXCEPT !.pc = "verified", !.admin = a,
                       !.before = {s \in Sessions : Exists(s) /\ row[s].admin = a}]]
  /\ UNCHANGED <<active, row, cookies, request, touch, closed, unseen>>

(* Only one of the admin's sessions is revoked.                            *)
RevokeOne(l) ==
  /\ login[l].pc = "verified"
  /\ \/ \E s \in Unrevoked(login[l].admin) : row' = [row EXCEPT ![s] = Revoke(@)]
     \/ Unrevoked(login[l].admin) = {} /\ UNCHANGED row
  /\ login' = [login EXCEPT ![l].pc = "revoked"]
  /\ UNCHANGED <<active, cookies, request, touch, closed, unseen>>

(* The call is forgotten.                                                  *)
RevokeNothing(l) ==
  /\ login[l].pc = "verified"
  /\ login' = [login EXCEPT ![l].pc = "revoked"]
  /\ UNCHANGED <<active, row, cookies, request, touch, closed, unseen>>

(* adminSessions.revokeAllForAdmin, awaited by login.                      *)
RevokeAll(l) ==
  /\ login[l].pc = "verified"
  /\ row' = [s \in Sessions |->
               IF s \in Unrevoked(login[l].admin) THEN Revoke(row[s])
                                                  ELSE row[s]]
  /\ login' = [login EXCEPT ![l].pc = "revoked"]
  /\ UNCHANGED <<active, cookies, request, touch, closed, unseen>>

(* A row nobody holds a reference to: its identifiers are random, so no    *)
(* handler, cookie or pending write names a session before it is created.  *)
Fresh(s) ==
  /\ ~ Exists(s) /\ s \notin cookies
  /\ \A l \in Logins : login[l].session # s /\ s \notin login[l].before
  /\ \A r \in Requests : request[r].session # s /\ touch[r].session # s

(* The new row has no last_seen_at.                                        *)
CreateUnseen(l, s) ==
  /\ login[l].pc = "revoked" /\ Fresh(s)
  /\ row' = [row EXCEPT ![s] = [NewRow(login[l].admin) EXCEPT !.idle = NoRow]]
  /\ login' = [login EXCEPT ![l].pc = "created", ![l].session = s]
  /\ UNCHANGED <<active, cookies, request, touch, closed, unseen>>

(* adminSessions.create: both clocks of the new row start now.             *)
CreateSession(l, s) ==
  /\ login[l].pc = "revoked" /\ Fresh(s)
  /\ row' = [row EXCEPT ![s] = NewRow(login[l].admin)]
  /\ login' = [login EXCEPT ![l].pc = "created", ![l].session = s]
  /\ unseen' = [unseen EXCEPT ![s] = 0]
  /\ UNCHANGED <<active, cookies, request, touch, closed>>

(* The attempt and the login are recorded, and the cookies are sent.       *)
AnswerLogin(l) ==
  /\ login[l].pc = "created"
  /\ cookies' = cookies \cup {login[l].session}
  /\ login' = [login EXCEPT ![l] = NoLogin]
  /\ UNCHANGED <<active, row, request, touch, closed, unseen>>

(* A statement of login throws: errorHandler answers 500, no cookie is set *)
(* and what was written stays.                                             *)
LoginFails(l) ==
  /\ login[l].pc # "idle"
  /\ login' = [login EXCEPT ![l] = NoLogin]
  /\ UNCHANGED <<active, row, cookies, request, touch, closed, unseen>>

---------------------------------------------------------------------------
(* loadSession finds the session of a cookie valid, starts the write of    *)
(* last_seen_at without waiting for it, and hands the session to the       *)
(* middleware behind it.  A session not found valid changes nothing.       *)
LoadSession(r, s) ==
  /\ request[r].pc = "idle" /\ touch[r] = NoTouch
  /\ s \in cookies /\ FindValid(s)
  /\ request' = [request EXCEPT ![r] = [pc |-> "loaded", session |-> s]]
  /\ touch' = [touch EXCEPT ![r] = [session |-> s, delay |-> 0]]
  /\ unseen' = [unseen EXCEPT ![s] = 0]
  /\ UNCHANGED <<active, row, cookies, login, closed>>

(* The write slides the absolute limit too.                                *)
TouchSliding(r) ==
  LET s == touch[r].session IN
  /\ s # NoSession
  /\ row' = IF Exists(s) THEN [row EXCEPT ![s].idle = 0, ![s].age = 0] ELSE row
  /\ touch' = [touch EXCEPT ![r] = NoTouch]
  /\ UNCHANGED <<active, cookies, login, request, closed, unseen>>

(* adminSessions.touch: UPDATE ... SET last_seen_at WHERE id, with no look *)
(* at revoked_at or the clocks.                                            *)
Touch(r) ==
  LET s == touch[r].session IN
  /\ s # NoSession
  /\ row' = IF Exists(s) THEN [row EXCEPT ![s] = Seen(@)] ELSE row
  /\ touch' = [touch EXCEPT ![r] = NoTouch]
  /\ UNCHANGED <<active, cookies, login, request, closed, unseen>>

(* The write is refused (no connection in time); loadSession logs that.    *)
TouchFails(r) ==
  /\ touch[r].session # NoSession
  /\ touch' = [touch EXCEPT ![r] = NoTouch]
  /\ UNCHANGED <<active, row, cookies, login, request, closed, unseen>>

(* The handler does its work for the session it was given, or fails.       *)
Serve(r) ==
  /\ request[r].pc = "loaded"
  /\ request' = [request EXCEPT ![r] = NoRequest]
  /\ UNCHANGED <<active, row, cookies, login, touch, closed, unseen>>

(* submitLogout clears the cookies and leaves the row alone.               *)
LogoutCookieOnly(r) ==
  /\ request[r].pc = "loaded"
  /\ request' = [request EXCEPT ![r].pc = "loggedOut"]
  /\ UNCHANGED <<active, row, cookies, login, touch, closed, unseen>>

(* The logout revokes all the account's sessions.                          *)
LogoutEverywhere(r) ==
  LET s == request[r].session IN
  /\ request[r].pc = "loaded"
  /\ row' = [t \in Sessions |->
               IF Exists(s) /\ t \in Unrevoked(row[s].admin) THEN Revoke(row[t])
                                                            ELSE row[t]]
  /\ request' = [request EXCEPT ![r].pc = "loggedOut"]
  /\ UNCHANGED <<active, cookies, login, touch, closed, unseen>>

(* POST /admin/logout: revokeByTokenHash of the cookie's token.            *)
Logout(r) ==
  LET s == request[r].session IN
  /\ request[r].pc = "loaded"
  /\ row' = IF Exists(s) THEN [row EXCEPT ![s] = Revoke(@)] ELSE row
  /\ request' = [request EXCEPT ![r].pc = "loggedOut"]
  /\ UNCHANGED <<active, cookies, login, touch, closed, unseen>>

(* The logout is audited and answered.  The token stays known: a client    *)
(* may still present it.                                                   *)
AnswerLogout(r) ==
  /\ request[r].pc = "loggedOut"
  /\ closed' = closed \cup {s \in {request[r].session} : Exists(s)}
  /\ request' = [request EXCEPT ![r] = NoRequest]
  /\ UNCHANGED <<active, row, cookies, login, touch, unseen>>

---------------------------------------------------------------------------
(* adminSessions.purge: expired rows go.  A row revoked seven days ago has *)
(* expired long before.  Nobody refers to a row that is gone any more      *)
(* except by a token, which finds nothing.                                 *)
Purge ==
  LET gone == {s \in Sessions : Exists(s) /\ row[s].age = Absolute} IN
  /\ gone # {}
  /\ row' = [s \in Sessions |-> IF s \in gone THEN NoRow ELSE row[s]]
  /\ cookies' = cookies \ gone
  /\ closed' = closed \ gone
  /\ login' = [l \in Logins |-> [login[l] EXCEPT !.before = @ \ gone]]
  /\ unseen' = [s \in Sessions |-> IF s \in gone THEN 0 ELSE unseen[s]]
  /\ UNCHANGED <<active, request, touch>>

(* The operator switches an account off or on in the database.             *)
SetActive(a, on) ==
  /\ active[a] # on
  /\ active' = [active EXCEPT ![a] = on]
  /\ UNCHANGED <<row, cookies, login, request, touch, closed, unseen>>

(* The process dies: every handler and every pending write with it.        *)
Restart ==
  /\ login' = [l \in Logins |-> NoLogin]
  /\ request' = [r \in Requests |-> NoRequest]
  /\ touch' = [r \in Requests |-> NoTouch]
  /\ UNCHANGED <<active, row, cookies, closed, unseen>>

(* One tick of the database's clock.  No write waits longer than           *)
(* TouchDelay.                                                             *)
Tick ==
  /\ \A r \in Requests : touch[r].delay < TouchDelay \/ touch[r] = NoTouch
  /\ row' = [s \in Sessions |->
               IF Exists(s) THEN Older(row[s]) ELSE NoRow]
  /\ touch' = [r \in Requests |->
                 IF touch[r] = NoTouch THEN NoTouch
                                       ELSE [touch[r] EXCEPT !.delay = @ + 1]]
  /\ unseen' = [s \in Sessions |->
                  IF Exists(s) THEN Capped(unseen[s], Idle + TouchDelay) ELSE 0]
  /\ UNCHANGED <<active, cookies, login, request, closed>>

LoginStep(l) ==
  \/ \E a \in Admins : Verify(l, a)
  \/ RevokeAll(l)
  \/ \E s \in Sessions : CreateSession(l, s)
  \/ AnswerLogin(l)
  \/ LoginFails(l)

RequestStep(r) ==
  \/ \E s \in Sessions : LoadSession(r, s)
  \/ Touch(r) \/ TouchFails(r)
  \/ Serve(r)
  \/ Logout(r)
  \/ AnswerLogout(r)

Next ==
  \/ \E l \in Logins : LoginStep(l)
  \/ \E r \in Requests : RequestStep(r)
  \/ Purge
  \/ \E a \in Admins, on \in BOOLEAN : SetActive(a, on)
  \/ Restart
  \/ Tick

Spec == Init /\ [][Next]_vars

---------------------------------------------------------------------------
(* Defence against session fixation: once a login has revoked, no session  *)
(* the admin had when the password was verified is valid, in whatever      *)
(* order other logins, late writes of last_seen_at and logouts run         *)
(* (adminAuth.js:86-89).                                                   *)
EarlierSessionsDead ==
  \A l \in Logins : login[l].pc \in {"revoked", "created"} =>
    \A s \in login[l].before : ~ Exists(s) \/ row[s].revoked

(* Logins that overlap can leave more than one session unrevoked, but      *)
(* never more than the handlers that ran at once (revokeAllForAdmin at     *)
(* adminAuth.js:89, create at :95).                                        *)
UnrevokedBounded ==
  \A a \in Admins : Cardinality(Unrevoked(a)) <= Cardinality(Logins)

(* A session whose logout was answered is never found valid again, although*)
(* touch writes rows it does not look at (adminAuth.js:136, :145).         *)
LogoutIsFinal == \A s \in closed : ~ FindValid(s)

(* A session found valid was created or accepted less than Idle ticks ago, *)
(* plus the delay a write of last_seen_at can have: a late write prolongs  *)
(* a session, but never by more than that.                                 *)
IdleBounded == \A s \in Sessions : FindValid(s) => unseen[s] < Idle + TouchDelay

(* From the moment a session is revoked or its account switched off no     *)
(* further request gets it (README.md:75, adminSessions.js:40-41); what     *)
(* still runs for it had passed loadSession before.                        *)
Dead(s) == Exists(s) /\ (row[s].revoked \/ ~ active[row[s].admin])
NoNewUseOfDead ==
  [][\A s \in Sessions, r \in Requests :
       Dead(s) /\ request'[r].session = s => request[r].session = s]_vars

(* A session is revoked only by its own logout or by a login of its own    *)
(* admin; nothing another admin does ends it.                              *)
RevocationHasCause ==
  [][\A s \in Sessions :
       (Exists(s) /\ ~ row[s].revoked /\ row'[s] # NoRow /\ row'[s].revoked) =>
         \/ \E l \in Logins : login[l].admin = row[s].admin
                             /\ login[l].pc = "verified" /\ login'[l].pc = "revoked"
         \/ \E r \in Requests : request[r].session = s /\ request'[r].pc = "loggedOut"]_vars

(* To the rest of the program a row is a session with as much time left as *)
(* expires_at leaves it, unless it is revoked.  No late write of           *)
(* last_seen_at, no login, purge or restart opens a session again or makes *)
(* it last longer than its absolute limit.  The idle clock and is_active   *)
(* are not part of this: a late write may turn the one back, an operator   *)
(* the other.                                                              *)
Left(s) == IF Exists(s) /\ ~ row[s].revoked THEN Absolute - row[s].age ELSE 0

Store == INSTANCE SessionStore WITH
           Lifetime <- Absolute,
           Nobody   <- NoSession,
           known    <- {s \in Sessions : Exists(s)},
           left     <- [s \in Sessions |-> Left(s)],
           user     <- [r \in Requests |-> request[r].session]

Implements == Store!Spec

(* The reading of a test of login ("only one live session"): an admin has  *)
(* at most one unrevoked session.                                          *)
OneLiveSession == \A a \in Admins : Cardinality(Unrevoked(a)) <= 1
=============================================================================
