------------------------ MODULE AdminSessionsProofs ------------------------
(* What AdminSessions promises for any number of accounts, sessions,       *)
(* handlers and any length of the clocks.                                  *)
EXTENDS AdminSessions, FiniteSetTheorems, TLAPS

LoginState == [pc : {"idle", "verified", "revoked", "created"},
               admin : Admins \cup {NoSession},
               session : Sessions \cup {NoSession},
               before : SUBSET Sessions]

(* The parts of TypeOK.                                                    *)
TypeLogin ==
  /\ login \in [Logins -> LoginState]
  /\ \A l \in Logins : /\ login[l].pc # "idle" => login[l].admin \in Admins
                       /\ login[l].pc = "created" => login[l].session \in Sessions
TypeRequest ==
  /\ request \in [Requests -> [pc : {"idle", "loaded", "loggedOut"},
                               session : Sessions \cup {NoSession}]]
  /\ \A r \in Requests : request[r].pc # "idle" => request[r].session \in Sessions
TypeTouch == touch \in [Requests -> [session : Sessions \cup {NoSession}, delay : 0 .. TouchDelay]]
TypeRow   == row \in [Sessions -> Row \cup {NoRow}]
TypeRest  ==
  /\ active \in [Admins -> BOOLEAN]
  /\ cookies \subseteq Sessions
  /\ closed \subseteq Sessions
  /\ unseen \in [Sessions -> 0 .. Idle + TouchDelay]

LEMMA TypeParts ==
  /\ TypeOK <=> TypeLogin /\ TypeRequest /\ TypeTouch /\ TypeRow /\ TypeRest
  /\ TypeOK' <=> TypeLogin' /\ TypeRequest' /\ TypeTouch' /\ TypeRow' /\ TypeRest'
  BY DEF TypeOK, TypeLogin, TypeRequest, TypeTouch, TypeRow, TypeRest, LoginState

(* What the updates of a row return.                                       *)
LEMMA RowUpdates ==
  ASSUME NEW w \in Row
  PROVE  /\ Revoke(w) \in Row /\ Revoke(w).admin = w.admin /\ Revoke(w).revoked
         /\ Revoke(w).idle = w.idle
         /\ Seen(w) \in Row /\ Seen(w).admin = w.admin /\ Seen(w).revoked = w.revoked
         /\ Seen(w).idle = 0
         /\ Older(w) \in Row /\ Older(w).admin = w.admin /\ Older(w).revoked = w.revoked
         /\ Older(w).idle = Capped(w.idle, Idle)
<1>1. /\ w.admin \in Admins /\ w.revoked \in BOOLEAN
      /\ w.age \in 0 .. Absolute /\ w.idle \in 0 .. Idle
  BY DEF Row
<1>2. Capped(w.age, Absolute) \in 0 .. Absolute /\ Capped(w.idle, Idle) \in 0 .. Idle
  BY <1>1, ClocksPositive DEF Capped
<1>3. 0 \in 0 .. Idle
  BY ClocksPositive
<1>4. Revoke(w) \in Row /\ Seen(w) \in Row /\ Older(w) \in Row
  BY <1>1, <1>2, <1>3 DEF Row, Revoke, Seen, Older, AsRow
<1>5. QED
  BY <1>4 DEF Revoke, Seen, Older, AsRow

LEMMA NewRowIsRow ==
  ASSUME NEW a \in Admins
  PROVE  NewRow(a) \in Row /\ NewRow(a).admin = a /\ ~ NewRow(a).revoked /\ NewRow(a).idle = 0
  BY ClocksPositive DEF NewRow, AsRow, Row

(* The table keeps its type.                                               *)
LEMMA RowStep == TypeOK /\ [Next]_vars => TypeRow'
<1> SUFFICES ASSUME TypeLogin, TypeRequest, TypeTouch, TypeRow, [Next]_vars PROVE TypeRow'
  BY TypeParts
<1> USE RowUpdates, NewRowIsRow
<1>1. ASSUME NEW l \in Logins, RevokeAll(l) PROVE TypeRow'
  BY <1>1 DEF RevokeAll, TypeRow, Unrevoked, Exists
<1>2. ASSUME NEW l \in Logins, NEW s \in Sessions, CreateSession(l, s) PROVE TypeRow'
  <2>1. login[l].admin \in Admins
    BY <1>2 DEF CreateSession, TypeLogin
  <2>2. row' = [row EXCEPT ![s] = NewRow(login[l].admin)]
    BY <1>2 DEF CreateSession
  <2>3. QED
    BY <2>1, <2>2 DEF TypeRow
<1>3. ASSUME NEW r \in Requests, Touch(r) PROVE TypeRow'
  <2> DEFINE s == touch[r].session
  <2>1. row' = row \/ (row[s] # NoRow /\ row' = [row EXCEPT ![s] = Seen(row[s])])
    BY <1>3 DEF Touch, Exists
  <2> HIDE DEF s
  <2>2. QED
    BY <2>1 DEF TypeRow
<1>4. ASSUME NEW r \in Requests, Logout(r) PROVE TypeRow'
  <2> DEFINE s == request[r].session
  <2>1. row' = row \/ (row[s] # NoRow /\ row' = [row EXCEPT ![s] = Revoke(row[s])])
    BY <1>4 DEF Logout, Exists
  <2> HIDE DEF s
  <2>2. QED
    BY <2>1 DEF TypeRow
<1>5. CASE Tick
  BY <1>5 DEF Tick, TypeRow, Exists
<1>6. CASE Purge
  BY <1>6 DEF Purge, TypeRow
<1>7. CASE UNCHANGED row
  BY <1>7 DEF TypeRow
<1>8. QED
  BY <1>1, <1>2, <1>3, <1>4, <1>5, <1>6, <1>7
     DEF Next, LoginStep, RequestStep, vars, Verify, AnswerLogin, LoginFails, LoadSession,
         TouchFails, Serve, AnswerLogout, SetActive, Restart

(* The login handlers keep their type.                                     *)
LEMMA LoginTypeStep == TypeOK /\ [Next]_vars => TypeLogin'
<1> SUFFICES ASSUME TypeLogin, [Next]_vars PROVE TypeLogin'
  BY TypeParts
<1>1. NoLogin \in LoginState /\ NoLogin.pc = "idle"
  BY DEF NoLogin, LoginState
<1>2. ASSUME NEW l \in Logins, NEW a \in Admins, Verify(l, a) PROVE TypeLogin'
  <2> DEFINE B == {s \in Sessions : Exists(s) /\ row[s].admin = a}
             new == [NoLogin EXCEPT !.pc = "verified", !.admin = a, !.before = B]
  <2>1. B \in SUBSET Sessions
    OBVIOUS
  <2> HIDE DEF B
  <2>2. new \in LoginState /\ new.pc = "verified" /\ new.admin = a
    BY <2>1 DEF NoLogin, LoginState
  <2>3. login' = [login EXCEPT ![l] = new]
    BY <1>2 DEF Verify, B
  <2> HIDE DEF new
  <2>4. QED
    BY <2>2, <2>3 DEF TypeLogin
<1>3. ASSUME NEW l \in Logins, RevokeAll(l) PROVE TypeLogin'
  <2> DEFINE new == [login[l] EXCEPT !.pc = "revoked"]
  <2>1. login' = [login EXCEPT ![l] = new] /\ login[l].pc = "verified"
    BY <1>3 DEF RevokeAll, TypeLogin
  <2>2. new \in LoginState /\ new.pc = "revoked" /\ new.admin \in Admins
    BY <2>1 DEF TypeLogin, LoginState
  <2> HIDE DEF new
  <2>3. QED
    BY <2>1, <2>2 DEF TypeLogin
<1>4. ASSUME NEW l \in Logins, NEW s \in Sessions, CreateSession(l, s) PROVE TypeLogin'
  <2> DEFINE new == [login[l] EXCEPT !.pc = "created", !.session = s]
  <2>1. login' = [login EXCEPT ![l] = new] /\ login[l].pc = "revoked"
    BY <1>4 DEF CreateSession, TypeLogin
  <2>2. new \in LoginState /\ new.pc = "created" /\ new.admin \in Admins /\ new.session \in Sessions
    BY <2>1 DEF TypeLogin, LoginState
  <2> HIDE DEF new
  <2>3. QED
    BY <2>1, <2>2 DEF TypeLogin
<1>5. ASSUME NEW l \in Logins, AnswerLogin(l) \/ LoginFails(l) PROVE TypeLogin'
  <2>1. login' = [login EXCEPT ![l] = NoLogin]
    BY <1>5 DEF AnswerLogin, LoginFails
  <2>2. QED
    BY <1>1, <2>1 DEF TypeLogin
<1>6. CASE Purge
  <2> DEFINE gone == {s \in Sessions : Exists(s) /\ row[s].age = Absolute}
             new(l) == [login[l] EXCEPT !.before = @ \ gone]
  <2>1. login' = [l \in Logins |-> new(l)]
    BY <1>6 DEF Purge
  <2>2. ASSUME NEW l \in Logins
        PROVE  new(l) \in LoginState /\ new(l).pc = login[l].pc
                 /\ new(l).admin = login[l].admin /\ new(l).session = login[l].session
    <3>1. login[l] \in LoginState /\ login[l].before \ gone \in SUBSET Sessions
      BY DEF TypeLogin, LoginState
    <3> HIDE DEF gone
    <3>2. QED
      BY <3>1 DEF LoginState
  <2> HIDE DEF new
  <2>3. QED
    BY <2>1, <2>2 DEF TypeLogin
<1>7. CASE Restart
  BY <1>1, <1>7 DEF Restart, TypeLogin
<1>8. CASE UNCHANGED login
  BY <1>8 DEF TypeLogin
<1>9. QED
  BY <1>2, <1>3, <1>4, <1>5, <1>6, <1>7, <1>8
     DEF Next, LoginStep, RequestStep, vars, LoadSession, Touch, TouchFails, Serve, Logout,
         AnswerLogout, SetActive, Tick

(* The request handlers and their pending writes keep their types.         *)
LEMMA RequestTypeStep == TypeOK /\ [Next]_vars => TypeRequest' /\ TypeTouch'
<1> SUFFICES ASSUME TypeRequest, TypeTouch, TypeRest, [Next]_vars
             PROVE  TypeRequest' /\ TypeTouch'
  BY TypeParts
<1> USE ClocksPositive
<1>1. ASSUME NEW r \in Requests, NEW s \in Sessions, LoadSession(r, s)
      PROVE  TypeRequest' /\ TypeTouch'
  BY <1>1 DEF LoadSession, TypeRequest, TypeTouch
<1>2. ASSUME NEW r \in Requests, Touch(r) \/ TouchFails(r) PROVE TypeRequest' /\ TypeTouch'
  BY <1>2 DEF Touch, TouchFails, TypeRequest, TypeTouch, NoTouch
<1>3. ASSUME NEW r \in Requests, Serve(r) \/ AnswerLogout(r) PROVE TypeRequest' /\ TypeTouch'
  <2>1. request' = [request EXCEPT ![r] = NoRequest] /\ touch' = touch
    BY <1>3 DEF Serve, AnswerLogout
  <2>2. QED
    BY <2>1 DEF TypeRequest, TypeTouch, NoRequest
<1>4. ASSUME NEW r \in Requests, Logout(r) PROVE TypeRequest' /\ TypeTouch'
  <2>1. request' = [request EXCEPT ![r] = [request[r] EXCEPT !.pc = "loggedOut"]]
        /\ request[r].pc = "loaded" /\ touch' = touch
    BY <1>4 DEF Logout, TypeRequest
  <2>2. QED
    BY <2>1 DEF TypeRequest, TypeTouch
<1>5. CASE Restart
  BY <1>5 DEF Restart, TypeRequest, TypeTouch, NoRequest, NoTouch
<1>6. CASE Tick
  <2>1. request' = request
    BY <1>6 DEF Tick
  <2>2. ASSUME NEW r \in Requests
        PROVE  (IF touch[r] = NoTouch THEN NoTouch ELSE [touch[r] EXCEPT !.delay = @ + 1])
                 \in [session : Sessions \cup {NoSession}, delay : 0 .. TouchDelay]
    <3>1. touch[r].delay < TouchDelay \/ touch[r] = NoTouch
      BY <1>6 DEF Tick
    <3>2. QED
      BY <3>1 DEF TypeTouch, NoTouch
  <2>3. touch' = [r \in Requests |-> IF touch[r] = NoTouch THEN NoTouch
                                                    ELSE [touch[r] EXCEPT !.delay = @ + 1]]
    BY <1>6 DEF Tick
  <2>4. QED
    BY <2>1, <2>2, <2>3 DEF TypeRequest, TypeTouch
<1>7. CASE UNCHANGED <<request, touch>>
  BY <1>7 DEF TypeRequest, TypeTouch
<1>8. QED
  BY <1>1, <1>2, <1>3, <1>4, <1>5, <1>6, <1>7
     DEF Next, LoginStep, RequestStep, vars, Verify, RevokeAll, CreateSession, AnswerLogin,
         LoginFails, Purge, SetActive

(* The remaining variables keep their types.                               *)
LEMMA RestStep == TypeOK /\ [Next]_vars => TypeRest'
<1> SUFFICES ASSUME TypeLogin, TypeRequest, TypeTouch, TypeRest, [Next]_vars PROVE TypeRest'
  BY TypeParts
<1> USE ClocksPositive
<1>1. ASSUME NEW l \in Logins, AnswerLogin(l) PROVE TypeRest'
  BY <1>1 DEF AnswerLogin, TypeLogin, TypeRest
<1>2. ASSUME NEW l \in Logins, NEW s \in Sessions, CreateSession(l, s) PROVE TypeRest'
  BY <1>2 DEF CreateSession, TypeRest
<1>3. ASSUME NEW r \in Requests, NEW s \in Sessions, LoadSession(r, s) PROVE TypeRest'
  BY <1>3 DEF LoadSession, TypeRest
<1>4. ASSUME NEW r \in Requests, AnswerLogout(r) PROVE TypeRest'
  BY <1>4 DEF AnswerLogout, TypeRequest, TypeRest
<1>5. ASSUME NEW a \in Admins, NEW on \in BOOLEAN, SetActive(a, on) PROVE TypeRest'
  BY <1>5 DEF SetActive, TypeRest
<1>6. CASE Purge
  BY <1>6 DEF Purge, TypeRest
<1>7. CASE Tick
  <2>1. ASSUME NEW s \in Sessions
        PROVE  (IF Exists(s) THEN Capped(unseen[s], Idle + TouchDelay) ELSE 0)
                 \in 0 .. Idle + TouchDelay
    BY DEF TypeRest, Capped
  <2>2. QED
    BY <1>7, <2>1 DEF Tick, TypeRest
<1>8. CASE UNCHANGED <<active, cookies, closed, unseen>>
  BY <1>8 DEF TypeRest
<1>9. QED
  BY <1>1, <1>2, <1>3, <1>4, <1>5, <1>6, <1>7, <1>8
     DEF Next, LoginStep, RequestStep, vars, Verify, RevokeAll, LoginFails, Touch, TouchFails,
         Serve, Logout, Restart

(* TypeOK is an invariant, for any constants.                              *)
THEOREM TypeCorrect == Spec => []TypeOK
<1>1. Init => TypeOK
  BY ClocksPositive DEF Init, TypeOK, NoLogin, NoRequest, NoTouch
<1>2. TypeOK /\ [Next]_vars => TypeOK'
  BY TypeParts, RowStep, LoginTypeStep, RequestTypeStep, RestStep
<1>3. QED
  BY <1>1, <1>2, PTL DEF Spec

---------------------------------------------------------------------------
(* The number of unrevoked sessions is not inductive: a login that has     *)
(* revoked will still add one.  Unrevoked sessions and such logins         *)
(* together stay within the handlers, since a revocation leaves nothing    *)
(* but logins.                                                             *)
Owed(a) == {l \in Logins : login[l].pc = "revoked" /\ login[l].admin = a}
OwedBounded ==
  \A a \in Admins : Cardinality(Unrevoked(a)) + Cardinality(Owed(a)) <= Cardinality(Logins)

LEMMA FiniteParts ==
  \A a : /\ IsFiniteSet(Unrevoked(a)) /\ IsFiniteSet(Owed(a))
         /\ Cardinality(Unrevoked(a)) \in Nat /\ Cardinality(Owed(a)) \in Nat
         /\ Cardinality(Owed(a)) <= Cardinality(Logins)
  BY HandlersFinite, FS_Subset, FS_CardinalityType DEF Unrevoked, Owed

(* A step that adds neither an unrevoked session nor a login that owes one *)
(* keeps the bound.                                                        *)
LEMMA ShrinkingKeepsOwed ==
  ASSUME OwedBounded,
         \A a \in Admins : Unrevoked(a)' \subseteq Unrevoked(a) /\ Owed(a)' \subseteq Owed(a)
  PROVE  OwedBounded'
<1> SUFFICES ASSUME NEW a \in Admins
             PROVE  Cardinality(Unrevoked(a)') + Cardinality(Owed(a)') <= Cardinality(Logins)
  BY DEF OwedBounded
<1>1. /\ Cardinality(Unrevoked(a)') <= Cardinality(Unrevoked(a))
      /\ Cardinality(Owed(a)') <= Cardinality(Owed(a))
      /\ Cardinality(Unrevoked(a)') \in Nat /\ Cardinality(Owed(a)') \in Nat
  BY FiniteParts, FS_Subset, FS_CardinalityType
<1>2. Cardinality(Unrevoked(a)) + Cardinality(Owed(a)) <= Cardinality(Logins)
  BY DEF OwedBounded
<1>3. Cardinality(Logins) \in Nat
  BY HandlersFinite, FS_CardinalityType
<1>4. QED
  BY <1>1, <1>2, <1>3, FiniteParts

LEMMA OwedStep == TypeOK /\ OwedBounded /\ [Next]_vars => OwedBounded'
<1> SUFFICES ASSUME TypeLogin, TypeRow, OwedBounded, [Next]_vars PROVE OwedBounded'
  BY TypeParts
<1>1. ASSUME NEW l \in Logins, NEW b \in Admins, Verify(l, b) PROVE OwedBounded'
  <2>1. \A a \in Admins : Unrevoked(a)' \subseteq Unrevoked(a) /\ Owed(a)' \subseteq Owed(a)
    BY <1>1 DEF Verify, NoLogin, Unrevoked, Exists, Owed, TypeLogin
  <2>2. QED
    BY <2>1, ShrinkingKeepsOwed
<1>2. ASSUME NEW l \in Logins, RevokeAll(l) PROVE OwedBounded'
  <2> SUFFICES ASSUME NEW a \in Admins
               PROVE  Cardinality(Unrevoked(a)') + Cardinality(Owed(a)') <= Cardinality(Logins)
    BY DEF OwedBounded
  <2>1. CASE a = login[l].admin
    <3>1. Unrevoked(a)' = {}
      BY <1>2, <2>1, RowUpdates DEF RevokeAll, Unrevoked, Exists, TypeRow
    <3>2. Owed(a)' \subseteq Logins
      BY DEF Owed
    <3>3. Cardinality(Owed(a)') <= Cardinality(Logins) /\ Cardinality(Owed(a)') \in Nat
      BY <3>2, HandlersFinite, FS_Subset, FS_CardinalityType
    <3>4. Cardinality(Unrevoked(a)') = 0
      BY <3>1, FS_EmptySet
    <3>5. QED
      BY <3>3, <3>4
  <2>2. CASE a # login[l].admin
    <3>1. Owed(a)' \subseteq Owed(a)
      BY <1>2, <2>2 DEF RevokeAll, Owed, TypeLogin, LoginState
    <3>2. Unrevoked(a)' \subseteq Unrevoked(a)
      <4>1. ASSUME NEW s \in Sessions, s \in Unrevoked(a)' PROVE s \in Unrevoked(a)
        <5>1. row'[s] = row[s]
          BY <1>2, <4>1, RowUpdates DEF RevokeAll, Unrevoked, Exists, TypeRow
        <5>2. QED
          BY <4>1, <5>1 DEF Unrevoked, Exists
      <4>2. QED
        BY <4>1 DEF Unrevoked
    <3>3. /\ Cardinality(Unrevoked(a)') <= Cardinality(Unrevoked(a))
          /\ Cardinality(Owed(a)') <= Cardinality(Owed(a))
          /\ Cardinality(Unrevoked(a)') \in Nat /\ Cardinality(Owed(a)') \in Nat
      BY <3>1, <3>2, FiniteParts, FS_Subset, FS_CardinalityType
    <3>4. Cardinality(Logins) \in Nat
      BY HandlersFinite, FS_CardinalityType
    <3>5. QED
      BY <3>3, <3>4, FiniteParts DEF OwedBounded
  <2>3. QED
    BY <2>1, <2>2
<1>3. ASSUME NEW l \in Logins, NEW s \in Sessions, CreateSession(l, s) PROVE OwedBounded'
  <2> SUFFICES ASSUME NEW a \in Admins
               PROVE  Cardinality(Unrevoked(a)') + Cardinality(Owed(a)') <= Cardinality(Logins)
    BY DEF OwedBounded
  <2>1. /\ login[l].pc = "revoked" /\ login[l].admin \in Admins
        /\ row' = [row EXCEPT ![s] = NewRow(login[l].admin)]
        /\ login' = [login EXCEPT ![l].pc = "created", ![l].session = s]
        /\ row[s] = NoRow
    BY <1>3 DEF CreateSession, Fresh, Exists, TypeLogin
  <2>2. CASE a = login[l].admin
    <3>1. Unrevoked(a)' \subseteq Unrevoked(a) \cup {s}
      BY <2>1 DEF Unrevoked, Exists, TypeRow
    <3>2. Owed(a)' \subseteq Owed(a) \ {l} /\ l \in Owed(a)
      BY <2>1, <2>2 DEF Owed, TypeLogin, LoginState
    <3>3. Cardinality(Unrevoked(a) \cup {s}) = Cardinality(Unrevoked(a)) + 1
            \/ Cardinality(Unrevoked(a) \cup {s}) = Cardinality(Unrevoked(a))
      BY FiniteParts, FS_AddElement, Zenon
    <3>4. Cardinality(Owed(a) \ {l}) = Cardinality(Owed(a)) - 1
      BY <3>2, FiniteParts, FS_RemoveElement, Zenon
    <3>5. IsFiniteSet(Unrevoked(a) \cup {s}) /\ IsFiniteSet(Owed(a) \ {l})
      BY FiniteParts, FS_AddElement, FS_RemoveElement, Zenon
    <3>6. /\ Cardinality(Unrevoked(a)') <= Cardinality(Unrevoked(a) \cup {s})
          /\ Cardinality(Owed(a)') <= Cardinality(Owed(a) \ {l})
          /\ Cardinality(Unrevoked(a)') \in Nat /\ Cardinality(Owed(a)') \in Nat
      BY <3>1, <3>2, <3>5, FS_Subset, FS_CardinalityType
    <3>7. /\ Cardinality(Logins) \in Nat
          /\ Cardinality(Unrevoked(a)) + Cardinality(Owed(a)) <= Cardinality(Logins)
      BY HandlersFinite, FS_CardinalityType DEF OwedBounded
    <3>8. QED
      BY <3>3, <3>4, <3>6, <3>7, FiniteParts
  <2>3. CASE a # login[l].admin
    <3>1. Unrevoked(a)' \subseteq Unrevoked(a) /\ Owed(a)' \subseteq Owed(a)
      BY <2>1, <2>3, NewRowIsRow DEF Unrevoked, Exists, Owed, TypeRow, TypeLogin, LoginState
    <3>2. /\ Cardinality(Unrevoked(a)') <= Cardinality(Unrevoked(a))
          /\ Cardinality(Owed(a)') <= Cardinality(Owed(a))
          /\ Cardinality(Unrevoked(a)') \in Nat /\ Cardinality(Owed(a)') \in Nat
      BY <3>1, FiniteParts, FS_Subset, FS_CardinalityType
    <3>3. Cardinality(Logins) \in Nat
      BY HandlersFinite, FS_CardinalityType
    <3>4. QED
      BY <3>2, <3>3, FiniteParts DEF OwedBounded
  <2>4. QED
    BY <2>2, <2>3
<1>4. ASSUME NEW l \in Logins, AnswerLogin(l) \/ LoginFails(l) PROVE OwedBounded'
  <2>1. \A a \in Admins : Unrevoked(a)' \subseteq Unrevoked(a) /\ Owed(a)' \subseteq Owed(a)
    BY <1>4 DEF AnswerLogin, LoginFails, NoLogin, Unrevoked, Exists, Owed, TypeLogin
  <2>2. QED
    BY <2>1, ShrinkingKeepsOwed
<1>5. ASSUME login' = login \/ (\A l \in Logins : login'[l].pc # "revoked")
               \/ (\A l \in Logins : /\ login'[l].pc = login[l].pc
                                     /\ login'[l].admin = login[l].admin),
             \A s \in Sessions : \/ row'[s] = row[s]
                                 \/ row'[s] = NoRow
                                 \/ row[s] \in Row /\ row'[s] \in {Revoke(row[s]), Seen(row[s]), Older(row[s])}
      PROVE  OwedBounded'
  <2>1. \A a \in Admins : Owed(a)' \subseteq Owed(a)
    BY <1>5 DEF Owed
  <2>2. \A a \in Admins : Unrevoked(a)' \subseteq Unrevoked(a)
    <3> SUFFICES ASSUME NEW a \in Admins, NEW s \in Sessions, s \in Unrevoked(a)'
                 PROVE  s \in Unrevoked(a)
      BY DEF Unrevoked
    <3>1. row'[s] # NoRow /\ row'[s].admin = a /\ ~ row'[s].revoked
      BY DEF Unrevoked, Exists
    <3>2. row[s] # NoRow /\ row[s].admin = a /\ ~ row[s].revoked
      BY <1>5, <3>1, RowUpdates, NoRowIsNone
    <3>3. QED
      BY <3>2 DEF Unrevoked, Exists
  <2>3. QED
    BY <2>1, <2>2, ShrinkingKeepsOwed
<1>6. ASSUME NEW r \in Requests, RequestStep(r) PROVE OwedBounded'
  <2>1. login' = login
    BY <1>6 DEF RequestStep, LoadSession, Touch, TouchFails, Serve, Logout, AnswerLogout
  <2>2. \A s \in Sessions : \/ row'[s] = row[s]
                            \/ row[s] \in Row /\ row'[s] \in {Revoke(row[s]), Seen(row[s])}
    BY <1>6 DEF RequestStep, LoadSession, Touch, TouchFails, Serve, Logout, AnswerLogout,
                Exists, TypeRow
  <2>3. QED
    BY <1>5, <2>1, <2>2
<1>7. CASE Purge
  <2>1. ASSUME NEW l \in Logins
        PROVE  login'[l].pc = login[l].pc /\ login'[l].admin = login[l].admin
    <3> DEFINE gone == {s \in Sessions : Exists(s) /\ row[s].age = Absolute}
    <3>1. login' = [k \in Logins |-> [login[k] EXCEPT !.before = @ \ gone]]
      BY <1>7 DEF Purge
    <3>2. login[l] \in LoginState
      BY DEF TypeLogin
    <3> HIDE DEF gone
    <3>3. login'[l] = [login[l] EXCEPT !.before = @ \ gone]
      BY <3>1
    <3>4. QED
      BY <3>2, <3>3 DEF LoginState
  <2>2. \A s \in Sessions : row'[s] = row[s] \/ row'[s] = NoRow
    BY <1>7 DEF Purge
  <2>3. QED
    BY <1>5, <2>1, <2>2
<1>8. CASE Tick
  <2>1. login' = login
    BY <1>8 DEF Tick
  <2>2. \A s \in Sessions : row'[s] = NoRow \/ (row[s] \in Row /\ row'[s] = Older(row[s]))
    BY <1>8 DEF Tick, Exists, TypeRow
  <2>3. QED
    BY <1>5, <2>1, <2>2
<1>9. CASE Restart
  <2>1. row' = row /\ \A l \in Logins : login'[l].pc # "revoked"
    BY <1>9 DEF Restart, NoLogin
  <2>2. QED
    BY <1>5, <2>1
<1>10. CASE UNCHANGED <<row, login>>
  BY <1>5, <1>10
<1>11. QED
  BY <1>1, <1>2, <1>3, <1>4, <1>6, <1>7, <1>8, <1>9, <1>10
     DEF Next, LoginStep, vars, SetActive

(* However logins overlap, fail or die half-way, an admin never has more   *)
(* unrevoked sessions than login handlers that run at once; with one login *)
(* at a time this is the single live session the tests expect.             *)
THEOREM LoginsBoundSessions == Spec => []UnrevokedBounded
<1>1. Init => OwedBounded
  <2> SUFFICES ASSUME Init, NEW a \in Admins
               PROVE  Cardinality(Unrevoked(a)) + Cardinality(Owed(a)) <= Cardinality(Logins)
    BY DEF OwedBounded
  <2>1. Unrevoked(a) = {} /\ Owed(a) = {}
    BY DEF Init, Unrevoked, Exists, Owed, NoLogin
  <2>2. QED
    BY <2>1, FS_EmptySet, HandlersFinite, FS_CardinalityType
<1>2. OwedBounded => UnrevokedBounded
  <2> SUFFICES ASSUME OwedBounded, NEW a \in Admins
               PROVE  Cardinality(Unrevoked(a)) <= Cardinality(Logins)
    BY DEF UnrevokedBounded
  <2>1. Cardinality(Logins) \in Nat
    BY HandlersFinite, FS_CardinalityType
  <2>2. QED
    BY <2>1, FiniteParts DEF OwedBounded
<1>3. QED
  BY <1>1, <1>2, TypeCorrect, OwedStep, PTL DEF Spec

---------------------------------------------------------------------------
(* How a row of the table can change in one step.                          *)
Kept(s) ==
  \/ row'[s] = row[s]
  \/ row'[s] = NoRow
  \/ row[s] \in Row /\ row'[s] \in {Revoke(row[s]), Seen(row[s]), Older(row[s])}

LEMMA RowMoves ==
  ASSUME TypeOK, [Next]_vars, NEW s \in Sessions
  PROVE  Kept(s) \/ \E l \in Logins : CreateSession(l, s)
<1> USE TypeParts DEF TypeRow, Kept
<1>1. ASSUME NEW l \in Logins, RevokeAll(l) PROVE Kept(s)
  BY <1>1 DEF RevokeAll, Unrevoked, Exists
<1>2. ASSUME NEW l \in Logins, NEW t \in Sessions, CreateSession(l, t), t # s PROVE Kept(s)
  BY <1>2 DEF CreateSession
<1>3. ASSUME NEW r \in Requests, RequestStep(r) PROVE Kept(s)
  BY <1>3 DEF RequestStep, LoadSession, Touch, TouchFails, Serve, Logout, AnswerLogout, Exists
<1>4. CASE Tick
  BY <1>4 DEF Tick, Exists
<1>5. CASE Purge
  BY <1>5 DEF Purge
<1>6. CASE UNCHANGED row
  BY <1>6
<1>7. QED
  BY <1>1, <1>2, <1>3, <1>4, <1>5, <1>6
     DEF Next, LoginStep, vars, Verify, AnswerLogin, LoginFails, SetActive, Restart

(* The sessions a login remembers are its admin's, and those that are      *)
(* still there are revoked once it has revoked.                            *)
Doomed(l, s) ==
  \/ ~ Exists(s)
  \/ /\ row[s].admin = login[l].admin
     /\ login[l].pc \in {"revoked", "created"} => row[s].revoked
EarlierInv == \A l \in Logins : \A s \in login[l].before : Doomed(l, s)

LEMMA EarlierStep == TypeOK /\ EarlierInv /\ [Next]_vars => EarlierInv'
<1> SUFFICES ASSUME TypeOK, EarlierInv, [Next]_vars PROVE EarlierInv'
  OBVIOUS
<1> SUFFICES ASSUME NEW l \in Logins, NEW s \in Sessions, s \in login'[l].before
             PROVE  Doomed(l, s)'
  <2>1. \A l \in Logins : login'[l].before \subseteq Sessions
    BY LoginTypeStep DEF TypeLogin, LoginState
  <2>2. QED
    BY <2>1, Zenon DEF EarlierInv
<1>1. TypeLogin /\ TypeRow
  BY TypeParts
<1>2. ASSUME s \in login[l].before, login'[l].admin = login[l].admin,
             login'[l].pc \in {"revoked", "created"} => login[l].pc \in {"revoked", "created"}
      PROVE  Doomed(l, s)'
  <2>1. Doomed(l, s)
    BY <1>2 DEF EarlierInv
  <2>2. CASE Kept(s)
    BY <1>1, <1>2, <2>1, <2>2, RowUpdates, NoRowIsNone DEF Kept, Doomed, Exists, TypeRow
  <2>3. ASSUME NEW k \in Logins, CreateSession(k, s) PROVE FALSE
    BY <1>2, <2>3 DEF CreateSession, Fresh
  <2>4. QED
    BY <2>2, <2>3, RowMoves
<1>3. ASSUME NEW a \in Admins, Verify(l, a) PROVE Doomed(l, s)'
  <2> DEFINE B == {t \in Sessions : Exists(t) /\ row[t].admin = a}
             new == [NoLogin EXCEPT !.pc = "verified", !.admin = a, !.before = B]
  <2>1. login' = [login EXCEPT ![l] = new] /\ row' = row
    BY <1>3 DEF Verify
  <2>2. new.before = B /\ new.admin = a /\ new.pc = "verified"
    BY DEF NoLogin
  <2>3. login'[l] = new
    BY <1>1, <2>1 DEF TypeLogin
  <2>4. s \in B
    BY <2>2, <2>3
  <2> HIDE DEF new
  <2>5. QED
    BY <2>1, <2>2, <2>3, <2>4 DEF Doomed, Exists
<1>4. CASE RevokeAll(l)
  <2> DEFINE new == [login[l] EXCEPT !.pc = "revoked"]
  <2>1. login' = [login EXCEPT ![l] = new]
    BY <1>1, <1>4 DEF RevokeAll, TypeLogin
  <2>2. new.before = login[l].before /\ new.admin = login[l].admin
    BY <1>1 DEF TypeLogin, LoginState
  <2>3. login'[l] = new
    BY <1>1, <2>1 DEF TypeLogin
  <2> HIDE DEF new
  <2>4. Doomed(l, s)
    BY <2>2, <2>3 DEF EarlierInv
  <2>5. row'[s] = IF s \in Unrevoked(login[l].admin) THEN Revoke(row[s]) ELSE row[s]
    BY <1>4 DEF RevokeAll
  <2>6. QED
    BY <1>1, <2>2, <2>3, <2>4, <2>5, RowUpdates DEF Doomed, Exists, Unrevoked, TypeRow
<1>5. CASE login'[l] = NoLogin
  BY <1>5 DEF NoLogin
<1>6. CASE \E t \in Sessions : CreateSession(l, t)
  <2>1. PICK t \in Sessions : CreateSession(l, t)
    BY <1>6
  <2> DEFINE new == [login[l] EXCEPT !.pc = "created", !.session = t]
  <2>2. login' = [login EXCEPT ![l] = new] /\ login[l].pc = "revoked"
    BY <1>1, <2>1 DEF CreateSession, TypeLogin
  <2>3. login'[l] = new
    BY <1>1, <2>2 DEF TypeLogin
  <2>4. new.before = login[l].before /\ new.admin = login[l].admin
    BY <1>1 DEF TypeLogin, LoginState
  <2> HIDE DEF new
  <2>5. QED
    BY <1>2, <2>2, <2>3, <2>4
<1>7. CASE Purge
  <2> DEFINE gone == {t \in Sessions : Exists(t) /\ row[t].age = Absolute}
  <2>1. login' = [k \in Logins |-> [login[k] EXCEPT !.before = @ \ gone]]
    BY <1>7 DEF Purge
  <2>2. login[l] \in LoginState
    BY <1>1 DEF TypeLogin
  <2> HIDE DEF gone
  <2>3. login'[l] = [login[l] EXCEPT !.before = @ \ gone]
    BY <2>1
  <2>4. /\ login'[l].pc = login[l].pc /\ login'[l].admin = login[l].admin
        /\ login'[l].before = login[l].before \ gone
    BY <2>2, <2>3 DEF LoginState
  <2>5. QED
    BY <1>2, <2>4
<1>8. CASE login'[l] = login[l]
  BY <1>2, <1>8
<1>9. ASSUME NEW k \in Logins, LoginStep(k) PROVE Doomed(l, s)'
  <2>1. CASE k = l
    BY <1>1, <1>3, <1>4, <1>5, <1>6, <1>9, <2>1 DEF LoginStep, AnswerLogin, LoginFails, TypeLogin
  <2>2. CASE k # l
    <3>1. login'[l] = login[l]
      BY <1>1, <1>9, <2>2 DEF LoginStep, Verify, RevokeAll, CreateSession, AnswerLogin,
                              LoginFails, TypeLogin
    <3>2. QED
      BY <1>8, <3>1
  <2>3. QED
    BY <2>1, <2>2
<1>10. ASSUME NEW r \in Requests, RequestStep(r) PROVE Doomed(l, s)'
  BY <1>8, <1>10 DEF RequestStep, LoadSession, Touch, TouchFails, Serve, Logout, AnswerLogout
<1>11. CASE Restart
  BY <1>5, <1>11 DEF Restart
<1>12. CASE Tick \/ UNCHANGED vars \/ (\E a \in Admins, on \in BOOLEAN : SetActive(a, on))
  BY <1>8, <1>12 DEF Tick, vars, SetActive
<1>13. QED
  BY <1>7, <1>9, <1>10, <1>11, <1>12 DEF Next

(* Once a login has revoked, every session its admin had when the password *)
(* was verified is gone or revoked, and nothing that happens until the     *)
(* cookies are sent brings one back.                                       *)
THEOREM LoginKillsEarlierSessions == Spec => []EarlierSessionsDead
<1>1. Init => EarlierInv
  BY DEF Init, EarlierInv, NoLogin
<1>2. EarlierInv => EarlierSessionsDead
  BY DEF EarlierInv, EarlierSessionsDead, Doomed
<1>3. QED
  BY <1>1, <1>2, TypeCorrect, EarlierStep, PTL DEF Spec

---------------------------------------------------------------------------
(* The time since a session was last accepted is behind its idle clock by  *)
(* no more than the delay of a write, because a write that is still        *)
(* pending is no older than the acceptance it belongs to.                  *)
IdleInv ==
  \A s \in Sessions : Exists(s) =>
    /\ unseen[s] <= row[s].idle + TouchDelay
    /\ \A r \in Requests : touch[r].session = s => unseen[s] <= touch[r].delay

LEMMA IdleStep == TypeOK /\ IdleInv /\ [Next]_vars => IdleInv'
<1> SUFFICES ASSUME TypeOK, IdleInv, [Next]_vars, NEW s \in Sessions, Exists(s)'
             PROVE  /\ unseen'[s] <= row'[s].idle + TouchDelay
                    /\ \A r \in Requests : touch'[r].session = s => unseen'[s] <= touch'[r].delay
  BY DEF IdleInv
<1> DEFINE Goal == /\ unseen'[s] <= row'[s].idle + TouchDelay
                   /\ \A r \in Requests : touch'[r].session = s => unseen'[s] <= touch'[r].delay
<1>1. TypeTouch /\ TypeRow /\ TypeRest /\ TypeTouch' /\ TypeRow' /\ TypeRest'
  BY TypeParts, RowStep, RequestTypeStep, RestStep
<1>2. NoTouch.session = NoSession /\ s # NoSession
  BY NoSessionIsNone DEF NoTouch
<1>3. /\ Exists(s) => row[s] \in Row
      /\ row'[s] \in Row /\ row'[s].idle \in 0 .. Idle
      /\ TouchDelay \in Nat /\ Idle \in Nat
      /\ unseen[s] \in Nat /\ unseen'[s] \in 0 .. Idle + TouchDelay
  BY <1>1, ClocksPositive DEF TypeRow, TypeRest, Exists, Row
<1>4. ASSUME row'[s].idle = row[s].idle, Exists(s), unseen'[s] = unseen[s],
             \A r \in Requests : touch'[r] = touch[r] \/ touch'[r] = NoTouch
      PROVE  Goal
  BY <1>2, <1>4 DEF IdleInv
<1>5. ASSUME NEW l \in Logins, RevokeAll(l) PROVE Goal
  <2>1. Exists(s) /\ row'[s].idle = row[s].idle /\ unseen' = unseen /\ touch' = touch
    BY <1>3, <1>5, RowUpdates DEF RevokeAll, Unrevoked, Exists
  <2>2. QED
    BY <1>4, <2>1
<1>6. ASSUME NEW l \in Logins, NEW t \in Sessions, CreateSession(l, t) PROVE Goal
  <2>1. CASE t = s
    <3>1. unseen'[s] = 0 /\ touch' = touch
      BY <1>1, <1>6, <2>1 DEF CreateSession, TypeRest
    <3>2. \A r \in Requests : touch'[r].session # s
      BY <1>6, <2>1 DEF CreateSession, Fresh
    <3>3. QED
      BY <1>3, <3>1, <3>2
  <2>2. CASE t # s
    <3>1. row'[s] = row[s] /\ unseen'[s] = unseen[s] /\ touch' = touch
      BY <1>1, <1>6, <2>2 DEF CreateSession, TypeRest, TypeRow
    <3>2. QED
      BY <1>4, <3>1 DEF Exists
  <2>3. QED
    BY <2>1, <2>2
<1>7. ASSUME NEW r \in Requests, NEW t \in Sessions, LoadSession(r, t) PROVE Goal
  <2>1. row' = row /\ Exists(s)
    BY <1>7 DEF LoadSession, Exists
  <2>2. \A k \in Requests : touch'[k] = touch[k] \/ (touch'[k].session = t /\ touch'[k].delay = 0)
    BY <1>1, <1>7 DEF LoadSession, TypeTouch
  <2>3. unseen'[s] = IF s = t THEN 0 ELSE unseen[s]
    BY <1>1, <1>7 DEF LoadSession, TypeRest
  <2>4. \A k \in Requests : touch'[k].delay \in Nat
    BY <1>1, ClocksPositive DEF TypeTouch
  <2>5. CASE s = t
    BY <1>3, <2>1, <2>3, <2>4, <2>5
  <2>6. CASE s # t
    BY <2>1, <2>2, <2>3, <2>6 DEF IdleInv
  <2>7. QED
    BY <2>5, <2>6
<1>8. ASSUME NEW r \in Requests, Touch(r) PROVE Goal
  <2>1. touch' = [touch EXCEPT ![r] = NoTouch] /\ unseen' = unseen
    BY <1>8 DEF Touch
  <2>2. \A k \in Requests : touch'[k] = touch[k] \/ touch'[k] = NoTouch
    BY <1>1, <2>1 DEF TypeTouch
  <2>3. CASE touch[r].session = s
    <3>1. Exists(s)
      BY <1>1, <1>8, <2>3 DEF Touch, Exists
    <3>2. unseen[s] <= touch[r].delay /\ touch[r].delay \in 0 .. TouchDelay
      BY <1>1, <2>3, <3>1 DEF IdleInv, TypeTouch
    <3>3. \A k \in Requests : touch'[k].session = s => unseen'[s] <= touch'[k].delay
      BY <1>2, <2>1, <2>2, <3>1 DEF IdleInv
    <3>4. QED
      BY <1>3, <2>1, <3>2, <3>3
  <2>4. CASE touch[r].session # s
    <3>1. row'[s] = row[s]
      <4> DEFINE t == touch[r].session
      <4>1. row' = row \/ row' = [row EXCEPT ![t] = Seen(row[t])]
        BY <1>8 DEF Touch
      <4>2. QED
        BY <1>1, <2>4, <4>1 DEF TypeRow
    <3>2. QED
      BY <1>4, <2>1, <2>2, <3>1 DEF Exists
  <2>5. QED
    BY <2>3, <2>4
<1>9. ASSUME NEW r \in Requests, Logout(r) PROVE Goal
  <2>1. unseen' = unseen /\ touch' = touch
    BY <1>9 DEF Logout
  <2>2. Exists(s) /\ row'[s].idle = row[s].idle
    <3> DEFINE t == request[r].session
    <3>1. row' = row \/ (row[t] # NoRow /\ row' = [row EXCEPT ![t] = Revoke(row[t])])
      BY <1>9 DEF Logout, Exists
    <3> HIDE DEF t
    <3>2. QED
      BY <1>1, <1>3, <3>1, RowUpdates DEF Exists, TypeRow
  <2>3. QED
    BY <1>4, <2>1, <2>2
<1>10. ASSUME NEW r \in Requests, TouchFails(r) PROVE Goal
  <2>1. /\ row' = row /\ unseen' = unseen
        /\ \A k \in Requests : touch'[k] = touch[k] \/ touch'[k] = NoTouch
    BY <1>1, <1>10 DEF TouchFails, TypeTouch
  <2>2. QED
    BY <1>4, <2>1 DEF Exists
<1>11. CASE Purge
  <2>1. touch' = touch /\ row'[s] = row[s] /\ unseen'[s] = unseen[s]
    BY <1>3, <1>11, NoRowIsNone DEF Purge
  <2>2. QED
    BY <1>4, <2>1 DEF Exists
<1>12. CASE Tick
  <2>1. Exists(s) /\ row'[s] = Older(row[s]) /\ unseen'[s] = Capped(unseen[s], Idle + TouchDelay)
    BY <1>3, <1>12, NoRowIsNone DEF Tick, Exists
  <2>2. row'[s].idle = Capped(row[s].idle, Idle) /\ row[s].idle \in 0 .. Idle
    BY <1>3, <2>1, RowUpdates DEF Row
  <2>3. unseen[s] <= row[s].idle + TouchDelay /\ unseen[s] \in 0 .. Idle + TouchDelay
    BY <1>1, <2>1 DEF IdleInv, TypeRest
  <2>4. unseen'[s] <= row'[s].idle + TouchDelay
    BY <1>3, <2>1, <2>2, <2>3 DEF Capped
  <2>5. ASSUME NEW r \in Requests, touch'[r].session = s PROVE unseen'[s] <= touch'[r].delay
    <3>1. touch'[r] = IF touch[r] = NoTouch THEN NoTouch ELSE [touch[r] EXCEPT !.delay = @ + 1]
      BY <1>12 DEF Tick
    <3>2. touch[r] # NoTouch
      BY <1>2, <2>5, <3>1
    <3>3. touch[r].delay \in 0 .. TouchDelay /\ touch'[r].delay = touch[r].delay + 1
            /\ touch'[r].session = touch[r].session
      BY <1>1, <3>1, <3>2 DEF TypeTouch
    <3>4. unseen[s] <= touch[r].delay
      BY <2>1, <2>5, <3>3 DEF IdleInv
    <3>5. QED
      BY <1>3, <2>1, <2>3, <3>3, <3>4 DEF Capped
  <2>6. QED
    BY <2>4, <2>5
<1>13. CASE Restart
  <2>1. row' = row /\ unseen' = unseen /\ \A r \in Requests : touch'[r] = NoTouch
    BY <1>13 DEF Restart
  <2>2. QED
    BY <1>4, <2>1 DEF Exists
<1>14. CASE UNCHANGED <<row, touch, unseen>>
  BY <1>4, <1>14 DEF Exists
<1>15. QED
  BY <1>5, <1>6, <1>7, <1>8, <1>9, <1>10, <1>11, <1>12, <1>13, <1>14
     DEF Next, LoginStep, RequestStep, vars, Verify, AnswerLogin, LoginFails, Serve,
         AnswerLogout, SetActive

(* A session findValid returns was created or accepted within Idle ticks,  *)
(* plus the longest delay of a write of last_seen_at.                      *)
THEOREM IdleClockHolds == Spec => []IdleBounded
<1>1. Init => IdleInv
  BY DEF Init, IdleInv, Exists
<1>2. TypeOK /\ IdleInv => IdleBounded
  <2> SUFFICES ASSUME TypeOK, IdleInv, NEW s \in Sessions, FindValid(s)
               PROVE  unseen[s] < Idle + TouchDelay
    BY DEF IdleBounded
  <2>1. row[s] \in Row /\ row[s].idle < Idle /\ unseen[s] <= row[s].idle + TouchDelay
    BY TypeParts DEF FindValid, Exists, IdleInv, TypeRow
  <2>2. row[s].idle \in Nat /\ unseen[s] \in Nat
    BY <2>1, TypeParts, ClocksPositive DEF Row, TypeRest
  <2>3. QED
    BY <2>1, <2>2, ClocksPositive
<1>3. QED
  BY <1>1, <1>2, TypeCorrect, IdleStep, PTL DEF Spec

---------------------------------------------------------------------------
(* A session with an answered logout is in the table, revoked; one whose   *)
(* logout is still to be answered is revoked, unless it was purged.        *)
LoggedOutRevoked(r) ==
  request[r].pc = "loggedOut" /\ Exists(request[r].session) =>
    row[request[r].session].revoked
LogoutInv ==
  /\ \A s \in closed : Exists(s) /\ row[s].revoked
  /\ \A r \in Requests : LoggedOutRevoked(r)

(* Nothing that happens to a revoked row makes it unrevoked, except that   *)
(* it goes; and it comes back only when nobody refers to it.               *)
LEMMA RevokedStays ==
  ASSUME TypeOK, [Next]_vars, NEW s \in Sessions, Exists(s), row[s].revoked
  PROVE  Exists(s)' => row'[s].revoked
<1>1. row[s] \in Row
  BY TypeParts DEF TypeRow, Exists
<1>2. CASE Kept(s)
  BY <1>1, <1>2, RowUpdates DEF Kept, Exists
<1>3. ASSUME NEW l \in Logins, CreateSession(l, s) PROVE FALSE
  BY <1>3 DEF CreateSession, Fresh
<1>4. QED
  BY <1>2, <1>3, RowMoves

LEMMA GoneStaysReferred ==
  ASSUME TypeOK, [Next]_vars, NEW r \in Requests, NEW s \in Sessions,
         request[r].session = s, ~ Exists(s)
  PROVE  ~ Exists(s)'
<1>1. CASE Kept(s)
  BY <1>1, NoRowIsNone DEF Kept, Exists
<1>2. ASSUME NEW l \in Logins, CreateSession(l, s) PROVE FALSE
  BY <1>2 DEF CreateSession, Fresh
<1>3. QED
  BY <1>1, <1>2, RowMoves

(* Rows go only by Purge, which forgets their logouts.                     *)
LEMMA ClosedStay ==
  ASSUME TypeOK, [Next]_vars, NEW s \in closed, s \in closed', Exists(s)
  PROVE  Exists(s)'
<1>1. s \in Sessions /\ row[s] \in Row /\ row[s] # NoRow
  BY TypeParts DEF TypeRest, TypeRow, Exists
<1> USE <1>1, TypeParts, RowUpdates, NoRowIsNone DEF TypeRow, Exists
<1>2. ASSUME NEW l \in Logins, RevokeAll(l) PROVE Exists(s)'
  BY <1>2 DEF RevokeAll, Unrevoked
<1>3. ASSUME NEW l \in Logins, NEW t \in Sessions, CreateSession(l, t) PROVE Exists(s)'
  BY <1>3 DEF CreateSession, Fresh
<1>4. ASSUME NEW r \in Requests, Touch(r) PROVE Exists(s)'
  BY <1>4 DEF Touch
<1>5. ASSUME NEW r \in Requests, Logout(r) PROVE Exists(s)'
  BY <1>5 DEF Logout
<1>6. CASE Tick
  BY <1>6 DEF Tick
<1>7. CASE Purge
  BY <1>7 DEF Purge
<1>8. CASE UNCHANGED row
  BY <1>8
<1>9. QED
  BY <1>2, <1>3, <1>4, <1>5, <1>6, <1>7, <1>8
     DEF Next, LoginStep, RequestStep, vars, Verify, AnswerLogin, LoginFails, LoadSession,
         TouchFails, Serve, AnswerLogout, SetActive, Restart

(* A logout comes to be answered, and a session to be closed, only by the  *)
(* steps of a request.                                                     *)
LEMMA LogoutsCome ==
  ASSUME TypeOK, [Next]_vars, NEW r \in Requests, request'[r].pc = "loggedOut"
  PROVE  request'[r].session = request[r].session /\ (request[r].pc = "loggedOut" \/ Logout(r))
<1> USE TypeParts DEF TypeRequest, NoRequest
<1>1. ASSUME NEW q \in Requests, RequestStep(q)
      PROVE  request'[r].session = request[r].session /\ (request[r].pc = "loggedOut" \/ Logout(r))
  <2>1. CASE Logout(q)
    BY <2>1 DEF Logout
  <2>2. CASE request' = request
    BY <2>2
  <2>3. CASE request' = [request EXCEPT ![q] = NoRequest]
    BY <2>3
  <2>4. ASSUME NEW s \in Sessions, LoadSession(q, s) PROVE request'[r] = request[r]
    BY <2>4 DEF LoadSession
  <2>5. QED
    BY <1>1, <2>1, <2>2, <2>3, <2>4
       DEF RequestStep, Touch, TouchFails, Serve, AnswerLogout
<1>2. CASE Restart
  BY <1>2 DEF Restart
<1>3. CASE UNCHANGED request
  BY <1>3
<1>4. QED
  BY <1>1, <1>2, <1>3
     DEF Next, LoginStep, vars, Verify, RevokeAll, CreateSession, AnswerLogin, LoginFails,
         Purge, SetActive, Tick

LEMMA ClosingCome ==
  ASSUME [Next]_vars, NEW s \in closed', s \notin closed
  PROVE  \E r \in Requests : AnswerLogout(r) /\ request[r].session = s /\ Exists(s)
<1>1. ASSUME NEW r \in Requests, AnswerLogout(r)
      PROVE  request[r].session = s /\ Exists(s)
  BY <1>1 DEF AnswerLogout
<1>2. ASSUME NEW r \in Requests, RequestStep(r), ~ AnswerLogout(r) PROVE closed' = closed
  BY <1>2 DEF RequestStep, LoadSession, Touch, TouchFails, Serve, Logout
<1>3. CASE Purge
  BY <1>3 DEF Purge
<1>4. QED
  BY <1>1, <1>2, <1>3
     DEF Next, LoginStep, vars, Verify, RevokeAll, CreateSession, AnswerLogin, LoginFails,
         SetActive, Restart, Tick

LEMMA LogoutStep == TypeOK /\ LogoutInv /\ [Next]_vars => LogoutInv'
<1> SUFFICES ASSUME TypeOK, LogoutInv, [Next]_vars PROVE LogoutInv'
  OBVIOUS
<1>1. TypeRequest /\ TypeRow /\ TypeRest
  BY TypeParts
<1>2. ASSUME NEW s \in closed' PROVE Exists(s)' /\ row'[s].revoked
  <2>1. CASE s \in closed
    <3>1. s \in Sessions /\ Exists(s) /\ row[s].revoked
      BY <1>1, <2>1 DEF LogoutInv, TypeRest
    <3>2. QED
      BY <1>2, <2>1, <3>1, ClosedStay, RevokedStays
  <2>2. CASE s \notin closed
    <3>1. PICK r \in Requests : AnswerLogout(r) /\ request[r].session = s /\ Exists(s)
      BY <1>2, <2>2, ClosingCome
    <3>2. row[s].revoked /\ row' = row
      BY <3>1 DEF AnswerLogout, LogoutInv, LoggedOutRevoked
    <3>3. QED
      BY <3>1, <3>2 DEF Exists
  <2>3. QED
    BY <2>1, <2>2
<1>3. ASSUME NEW r \in Requests, request'[r].pc = "loggedOut", NEW s, request[r].session = s,
             row'[s] # NoRow
      PROVE  row'[s].revoked
  <2>1. request'[r].session = s /\ (request[r].pc = "loggedOut" \/ Logout(r))
    BY <1>3, LogoutsCome
  <2>2. s \in Sessions
    BY <1>1, <1>3, <2>1 DEF TypeRequest, Logout
  <2>3. Exists(s)
    BY <1>3, <2>2, GoneStaysReferred DEF Exists
  <2>4. CASE request[r].pc = "loggedOut"
    <3>1. row[s].revoked
      BY <1>3, <2>3, <2>4 DEF LogoutInv, LoggedOutRevoked
    <3>2. QED
      BY <1>3, <2>2, <2>3, <3>1, RevokedStays DEF Exists
  <2>5. CASE Logout(r)
    <3>1. row' = [row EXCEPT ![s] = Revoke(row[s])] /\ row[s] \in Row
      BY <1>1, <1>3, <2>2, <2>3, <2>5 DEF Logout, TypeRow, Exists
    <3>2. row'[s] = Revoke(row[s])
      BY <1>1, <2>2, <3>1 DEF TypeRow
    <3>3. QED
      BY <3>1, <3>2, RowUpdates
  <2>6. QED
    BY <2>1, <2>4, <2>5
<1>4. ASSUME NEW r \in Requests PROVE LoggedOutRevoked(r)'
  <2>1. request'[r].pc = "loggedOut" => request'[r].session = request[r].session
    BY LogoutsCome
  <2>2. QED
    BY <1>3, <2>1 DEF LoggedOutRevoked, Exists
<1>5. QED
  BY <1>2, <1>4 DEF LogoutInv

(* A session whose logout was answered is never found valid again,         *)
(* whatever writes of last_seen_at, logins or purges come later.           *)
THEOREM LogoutEndsSession == Spec => []LogoutIsFinal
<1>1. Init => LogoutInv
  BY DEF Init, LogoutInv, LoggedOutRevoked, NoRequest
<1>2. LogoutInv => LogoutIsFinal
  BY DEF LogoutInv, LogoutIsFinal, FindValid
<1>3. QED
  BY <1>1, <1>2, TypeCorrect, LogoutStep, PTL DEF Spec

---------------------------------------------------------------------------
LEMMA RevocationStep ==
  ASSUME TypeOK, [Next]_vars, NEW s \in Sessions,
         Exists(s), ~ row[s].revoked, row'[s] # NoRow, row'[s].revoked
  PROVE  \/ \E l \in Logins : login[l].admin = row[s].admin
                             /\ login[l].pc = "verified" /\ login'[l].pc = "revoked"
         \/ \E r \in Requests : request[r].session = s /\ request'[r].pc = "loggedOut"
<1> DEFINE Goal ==
      \/ \E l \in Logins : login[l].admin = row[s].admin
                          /\ login[l].pc = "verified" /\ login'[l].pc = "revoked"
      \/ \E r \in Requests : request[r].session = s /\ request'[r].pc = "loggedOut"
<1>1. row[s] \in Row /\ TypeLogin /\ TypeRequest /\ TypeRow
  BY TypeParts DEF TypeRow, Exists
<1>2. ASSUME NEW l \in Logins, RevokeAll(l) PROVE Goal
  <2>1. s \in Unrevoked(login[l].admin)
    BY <1>2 DEF RevokeAll
  <2>2. login[l].pc = "verified" /\ login'[l].pc = "revoked"
    BY <1>1, <1>2 DEF RevokeAll, TypeLogin, LoginState
  <2>3. QED
    BY <2>1, <2>2 DEF Unrevoked
<1>3. ASSUME NEW l \in Logins, NEW t \in Sessions, CreateSession(l, t) PROVE FALSE
  BY <1>1, <1>3 DEF CreateSession, Fresh, TypeRow
<1>4. ASSUME NEW r \in Requests, Touch(r) PROVE FALSE
  <2> DEFINE t == touch[r].session
  <2>1. row' = row \/ row' = [row EXCEPT ![t] = Seen(row[t])]
    BY <1>4 DEF Touch
  <2>2. row'[s] = row[s] \/ row'[s] = Seen(row[s])
    BY <1>1, <2>1 DEF TypeRow
  <2>3. QED
    BY <1>1, <2>2, RowUpdates
<1>5. ASSUME NEW r \in Requests, Logout(r) PROVE Goal
  <2> DEFINE t == request[r].session
  <2>1. row' = row \/ row' = [row EXCEPT ![t] = Revoke(row[t])]
    BY <1>5 DEF Logout
  <2>2. t = s
    BY <1>1, <2>1 DEF TypeRow
  <2>3. request'[r].pc = "loggedOut"
    BY <1>1, <1>5 DEF Logout, TypeRequest
  <2>4. QED
    BY <2>2, <2>3
<1>6. CASE Tick
  BY <1>1, <1>6, RowUpdates DEF Tick, Exists
<1>7. CASE Purge
  BY <1>7 DEF Purge
<1>8. CASE UNCHANGED row
  BY <1>8
<1>9. QED
  BY <1>2, <1>3, <1>4, <1>5, <1>6, <1>7, <1>8
     DEF Next, LoginStep, RequestStep, vars, Verify, AnswerLogin, LoginFails, LoadSession,
         TouchFails, Serve, AnswerLogout, SetActive, Restart

(* A session is revoked only by its own logout or by a login of its own    *)
(* admin, never by what another admin does.                                *)
THEOREM RevocationsAreOwn == Spec => RevocationHasCause
<1>1. TypeOK /\ [Next]_vars =>
        [\A s \in Sessions :
           (Exists(s) /\ ~ row[s].revoked /\ row'[s] # NoRow /\ row'[s].revoked) =>
             \/ \E l \in Logins : login[l].admin = row[s].admin
                                 /\ login[l].pc = "verified" /\ login'[l].pc = "revoked"
             \/ \E r \in Requests : request[r].session = s /\ request'[r].pc = "loggedOut"]_vars
  BY RevocationStep
<1>2. QED
  BY <1>1, TypeCorrect, PTL DEF Spec, RevocationHasCause

(* A request gets a session only while the session is neither revoked nor  *)
(* of an account that is switched off.                                     *)
THEOREM DeadSessionsAreRefused == Spec => NoNewUseOfDead
<1>1. TypeOK /\ [Next]_vars =>
        [\A s \in Sessions, r \in Requests :
           Dead(s) /\ request'[r].session = s => request[r].session = s]_vars
  <2> SUFFICES ASSUME TypeOK, [Next]_vars, NEW s \in Sessions, NEW r \in Requests,
                      Dead(s), request'[r].session = s
               PROVE  request[r].session = s
    BY Zenon
  <2>1. TypeRequest /\ NoRequest.session # s
    BY TypeParts, NoSessionIsNone DEF NoRequest
  <2>2. ASSUME NEW q \in Requests, RequestStep(q) PROVE request[r].session = s
    <3>1. ASSUME NEW t \in Sessions, LoadSession(q, t) PROVE request[r].session = s
      <4>1. t # s
        BY <3>1 DEF LoadSession, FindValid, Dead
      <4>2. QED
        BY <2>1, <3>1, <4>1 DEF LoadSession, TypeRequest
    <3>2. CASE Logout(q)
      BY <2>1, <3>2 DEF Logout, TypeRequest
    <3>3. CASE request' = request
      BY <3>3
    <3>4. CASE request' = [request EXCEPT ![q] = NoRequest]
      BY <2>1, <3>4 DEF TypeRequest
    <3>5. QED
      BY <2>2, <3>1, <3>2, <3>3, <3>4 DEF RequestStep, Touch, TouchFails, Serve, AnswerLogout
  <2>3. CASE Restart
    BY <2>1, <2>3 DEF Restart
  <2>4. CASE UNCHANGED request
    BY <2>4
  <2>5. QED
    BY <2>2, <2>3, <2>4
       DEF Next, LoginStep, vars, Verify, RevokeAll, CreateSession, AnswerLogin, LoginFails,
           Purge, SetActive, Tick
<1>2. QED
  BY <1>1, TypeCorrect, PTL DEF Spec, NoNewUseOfDead

---------------------------------------------------------------------------
(* A handler that serves no request holds no session.                      *)
IdleHoldsNone == \A r \in Requests : request[r].pc = "idle" => request[r].session = NoSession

LEMMA IdleHoldsNoneStep == TypeOK /\ IdleHoldsNone /\ [Next]_vars => IdleHoldsNone'
<1> SUFFICES ASSUME TypeOK, IdleHoldsNone, [Next]_vars PROVE IdleHoldsNone'
  OBVIOUS
<1> USE TypeParts DEF TypeRequest, IdleHoldsNone, NoRequest
<1>1. ASSUME NEW q \in Requests, RequestStep(q) PROVE IdleHoldsNone'
  <2>1. CASE request' = request
    BY <2>1
  <2>2. CASE request' = [request EXCEPT ![q] = NoRequest]
    BY <2>2
  <2>3. CASE Logout(q)
    BY <2>3 DEF Logout
  <2>4. ASSUME NEW s \in Sessions, LoadSession(q, s) PROVE IdleHoldsNone'
    BY <2>4 DEF LoadSession
  <2>5. QED
    BY <1>1, <2>1, <2>2, <2>3, <2>4 DEF RequestStep, Touch, TouchFails, Serve, AnswerLogout
<1>2. CASE Restart
  BY <1>2 DEF Restart
<1>3. CASE UNCHANGED request
  BY <1>3
<1>4. QED
  BY <1>1, <1>2, <1>3
     DEF Next, LoginStep, vars, Verify, RevokeAll, CreateSession, AnswerLogin, LoginFails,
         Purge, SetActive, Tick

(* The time a row has left, before and after each update of it.            *)
LEMMA LeftOfRows ==
  ASSUME TypeOK, NEW s \in Sessions
  PROVE  /\ Left(s) \in 0 .. Absolute
         /\ row'[s] = row[s] => Exists(s)' = Exists(s) /\ Left(s)' = Left(s)
         /\ Exists(s) /\ row'[s] = Seen(row[s]) => Exists(s)' /\ Left(s)' = Left(s)
         /\ Exists(s) /\ row'[s] = Revoke(row[s]) => Exists(s)' /\ Left(s)' = 0
         /\ Exists(s) /\ row'[s] = Older(row[s]) =>
              Exists(s)' /\ Left(s)' = IF Left(s) > 0 THEN Left(s) - 1 ELSE 0
<1>1. CASE Exists(s)
  <2>1. row[s] \in Row /\ row[s] # NoRow
    BY <1>1, TypeParts DEF TypeRow, Exists
  <2>2. /\ row[s].revoked \in BOOLEAN /\ row[s].age \in 0 .. Absolute
        /\ Absolute \in Nat
    BY <2>1, ClocksPositive DEF Row
  <2>3. Left(s) \in 0 .. Absolute
    BY <2>2 DEF Left
  <2>4. /\ Seen(row[s]) # NoRow /\ Revoke(row[s]) # NoRow /\ Older(row[s]) # NoRow
    BY <2>1, RowUpdates, NoRowIsNone
  <2>5. /\ Seen(row[s]).revoked = row[s].revoked /\ Seen(row[s]).age = row[s].age
        /\ Revoke(row[s]).revoked
        /\ Older(row[s]).revoked = row[s].revoked
        /\ Older(row[s]).age = IF row[s].age < Absolute THEN row[s].age + 1 ELSE Absolute
    BY DEF Seen, Revoke, Older, AsRow, Capped
  <2>6. row'[s] = Older(row[s]) => Left(s)' = IF Left(s) > 0 THEN Left(s) - 1 ELSE 0
    BY <1>1, <2>2, <2>4, <2>5 DEF Left, Exists
  <2>7. QED
    BY <1>1, <2>3, <2>4, <2>5, <2>6 DEF Left, Exists
<1>2. CASE ~ Exists(s)
  BY <1>2, ClocksPositive DEF Left, Exists
<1>3. QED
  BY <1>1, <1>2

(* The handlers' sessions and the rows, as the store sees them.            *)
LEMMA SameRows ==
  ASSUME TypeOK, row' = row
  PROVE  UNCHANGED << {s \in Sessions : Exists(s)}, [s \in Sessions |-> Left(s)] >>
  BY DEF Exists, Left

LEMMA SameUsers ==
  ASSUME request' = request
  PROVE  UNCHANGED [r \in Requests |-> request[r].session]
  OBVIOUS

LEMMA CreateOpens ==
  ASSUME TypeOK, NEW l \in Logins, NEW s \in Sessions, CreateSession(l, s)
  PROVE  Store!Open(s)
<1>1. ~ Exists(s) /\ row' = [row EXCEPT ![s] = NewRow(login[l].admin)] /\ request' = request
  BY DEF CreateSession, Fresh
<1>2. login[l].admin \in Admins
  BY TypeParts DEF TypeLogin, CreateSession
<1>3. row'[s] # NoRow /\ ~ row'[s].revoked /\ row'[s].age = 0
  BY <1>1, <1>2, TypeParts, NewRowIsRow, NoRowIsNone DEF TypeRow, NewRow, AsRow
<1>4. Exists(s)' /\ Left(s)' = Absolute
  BY <1>3, ClocksPositive DEF Exists, Left
<1>5. ASSUME NEW t \in Sessions, t # s PROVE Exists(t)' = Exists(t) /\ Left(t)' = Left(t)
  <2>1. row'[t] = row[t]
    BY <1>1, <1>5, TypeParts DEF TypeRow
  <2>2. QED
    BY <2>1, LeftOfRows
<1>6. {t \in Sessions : Exists(t)}' = {t \in Sessions : Exists(t)} \cup {s}
  BY <1>4, <1>5
<1>7. [t \in Sessions |-> Left(t)]' = [[t \in Sessions |-> Left(t)] EXCEPT ![s] = Absolute]
  BY <1>4, <1>5
<1>8. QED
  BY <1>1, <1>6, <1>7, SameUsers DEF Store!Open

(* A step that revokes the rows of a set, or only writes last_seen_at.     *)
LEMMA RevokingCloses ==
  ASSUME TypeOK, NEW S \in SUBSET Sessions,
         UNCHANGED [r \in Requests |-> request[r].session],
         \A s \in S : Exists(s) /\ row'[s] = Revoke(row[s]),
         \A s \in Sessions \ S : row'[s] = row[s] \/ (Exists(s) /\ row'[s] = Seen(row[s]))
  PROVE  Store!Close(S)
<1>1. ASSUME NEW s \in S PROVE Exists(s)' /\ Exists(s) /\ Left(s)' = 0
  <2>1. s \in Sessions /\ Exists(s) /\ row'[s] = Revoke(row[s])
    BY <1>1
  <2>2. QED
    BY <2>1, LeftOfRows
<1>2. ASSUME NEW s \in Sessions \ S PROVE Exists(s)' = Exists(s) /\ Left(s)' = Left(s)
  <2>1. row'[s] = row[s] \/ (Exists(s) /\ row'[s] = Seen(row[s]))
    BY <1>2
  <2>2. s \in Sessions
    BY <1>2
  <2>3. /\ row'[s] = row[s] => Exists(s)' = Exists(s) /\ Left(s)' = Left(s)
        /\ Exists(s) /\ row'[s] = Seen(row[s]) => Exists(s)' /\ Left(s)' = Left(s)
    BY <2>2, LeftOfRows
  <2>4. QED
    BY <2>1, <2>3
<1>3. {s \in Sessions : Exists(s)}' = {s \in Sessions : Exists(s)}
  BY <1>1, <1>2
<1>4. [s \in Sessions |-> Left(s)]' =
        [s \in Sessions |-> IF s \in S THEN 0 ELSE [t \in Sessions |-> Left(t)][s]]
  BY <1>1, <1>2
<1>5. QED
  BY <1>3, <1>4 DEF Store!Close

LEMMA TickTicks == ASSUME TypeOK, Tick PROVE Store!Tick
<1>1. ASSUME NEW s \in Sessions
      PROVE  /\ Exists(s)' = Exists(s)
             /\ Left(s)' = IF Left(s) > 0 THEN Left(s) - 1 ELSE 0
  <2>1. CASE Exists(s)
    <3>1. row'[s] = Older(row[s])
      BY <2>1 DEF Tick
    <3>2. QED
      BY <2>1, <3>1, LeftOfRows
  <2>2. CASE ~ Exists(s)
    <3>1. row'[s] = row[s]
      BY <2>2 DEF Tick, Exists
    <3>2. Left(s) = 0
      BY <2>2 DEF Left
    <3>3. QED
      BY <3>1, <3>2, LeftOfRows
  <2>3. QED
    BY <2>1, <2>2
<1>2. {s \in Sessions : Exists(s)}' = {s \in Sessions : Exists(s)}
  BY <1>1
<1>3. [s \in Sessions |-> Left(s)]' =
        [s \in Sessions |-> IF [t \in Sessions |-> Left(t)][s] > 0
                             THEN [t \in Sessions |-> Left(t)][s] - 1 ELSE 0]
  BY <1>1
<1>4. QED
  BY <1>2, <1>3 DEF Tick, Store!Tick

LEMMA PurgeForgets == ASSUME TypeOK, Purge PROVE \E S \in SUBSET Sessions : Store!Forget(S)
<1> DEFINE gone == {s \in Sessions : Exists(s) /\ row[s].age = Absolute}
<1>1. row' = [s \in Sessions |-> IF s \in gone THEN NoRow ELSE row[s]] /\ request' = request
  BY DEF Purge
<1>2. ASSUME NEW s \in gone PROVE Left(s) = 0 /\ ~ Exists(s)' /\ Left(s)' = 0
  BY <1>1, ClocksPositive DEF Left, Exists
<1>3. ASSUME NEW s \in Sessions \ gone PROVE Exists(s)' = Exists(s) /\ Left(s)' = Left(s)
  BY <1>1, LeftOfRows
<1>4. {s \in Sessions : Exists(s)}' = {s \in Sessions : Exists(s)} \ gone
  BY <1>2, <1>3
<1>5. [s \in Sessions |-> Left(s)]' = [s \in Sessions |-> Left(s)]
  BY <1>2, <1>3
<1>6. Store!Forget(gone)
  BY <1>1, <1>2, <1>4, <1>5 DEF Store!Forget
<1>7. QED
  BY <1>6

LEMMA LoadEnters ==
  ASSUME TypeOK, IdleHoldsNone, NEW r \in Requests, NEW s \in Sessions, LoadSession(r, s)
  PROVE  Store!Enter(r, s)
<1>1. /\ request[r].session = NoSession /\ row' = row
      /\ request' = [request EXCEPT ![r] = [pc |-> "loaded", session |-> s]]
  BY DEF LoadSession, IdleHoldsNone
<1>2. Exists(s) /\ ~ row[s].revoked /\ row[s].age < Absolute /\ row[s].age \in Nat
  BY TypeParts DEF LoadSession, FindValid, TypeRow, Exists, Row
<1>3. Left(s) > 0
  BY <1>2, ClocksPositive DEF Left
<1>4. [q \in Requests |-> request[q].session]' =
        [[q \in Requests |-> request[q].session] EXCEPT ![r] = s]
  BY <1>1, TypeParts DEF TypeRequest
<1>5. QED
  BY <1>1, <1>2, <1>3, <1>4, SameRows DEF Store!Enter

LEMMA AnsweringLeaves ==
  ASSUME TypeOK, row' = row, NEW R \in SUBSET Requests,
         \A r \in Requests : request'[r] = IF r \in R THEN NoRequest ELSE request[r]
  PROVE  Store!Leave(R)
<1>1. [q \in Requests |-> request[q].session]' =
        [q \in Requests |-> IF q \in R THEN NoSession
                                       ELSE [r \in Requests |-> request[r].session][q]]
  BY DEF NoRequest
<1>2. QED
  BY <1>1, SameRows DEF Store!Leave

(* Every step of the sessions is a step of the store, or none.             *)
LEMMA StepsAreStoreSteps ==
  ASSUME TypeOK, IdleHoldsNone, [Next]_vars
  PROVE  [Store!Next]_(Store!vars)
<1> DEFINE Goal == [Store!Next]_(Store!vars)
<1>1. ASSUME NEW l \in Logins, NEW s \in Sessions, CreateSession(l, s) PROVE Goal
  BY <1>1, CreateOpens DEF Store!Next
<1>2. ASSUME NEW l \in Logins, RevokeAll(l) PROVE Goal
  <2> DEFINE S == Unrevoked(login[l].admin)
  <2>1. S \in SUBSET Sessions /\ request' = request
    BY <1>2 DEF RevokeAll, Unrevoked
  <2>2. /\ \A s \in S : Exists(s) /\ row'[s] = Revoke(row[s])
        /\ \A s \in Sessions \ S : row'[s] = row[s]
    BY <1>2 DEF RevokeAll, Unrevoked
  <2>3. Store!Close(S)
    BY <2>1, <2>2, SameUsers, RevokingCloses
  <2>4. QED
    BY <2>1, <2>3 DEF Store!Next
<1>3. ASSUME NEW r \in Requests, Touch(r) PROVE Goal
  <2> DEFINE t == touch[r].session
  <2>1. row' = row \/ (Exists(t) /\ row' = [row EXCEPT ![t] = Seen(row[t])])
    BY <1>3 DEF Touch
  <2>2. t \in Sessions
    BY <1>3, TypeParts DEF Touch, TypeTouch
  <2>3. \A s \in Sessions : row'[s] = row[s] \/ (Exists(s) /\ row'[s] = Seen(row[s]))
    BY <2>1, <2>2, TypeParts DEF TypeRow
  <2>4. Store!Close({})
    BY <1>3, <2>3, SameUsers, RevokingCloses DEF Touch
  <2>5. QED
    BY <2>4 DEF Store!Next
<1>4. ASSUME NEW r \in Requests, Logout(r) PROVE Goal
  <2> DEFINE t == request[r].session
  <2>1. [q \in Requests |-> request[q].session]' = [q \in Requests |-> request[q].session]
    BY <1>4, TypeParts DEF Logout, TypeRequest
  <2>2. t \in Sessions
    BY <1>4, TypeParts DEF Logout, TypeRequest
  <2>3. CASE Exists(t)
    <3>1. row' = [row EXCEPT ![t] = Revoke(row[t])]
      BY <1>4, <2>3 DEF Logout
    <3>2. row'[t] = Revoke(row[t]) /\ \A s \in Sessions \ {t} : row'[s] = row[s]
      BY <2>2, <3>1, TypeParts DEF TypeRow
    <3>3. Store!Close({t})
      BY <2>1, <2>2, <2>3, <3>2, RevokingCloses
    <3>4. QED
      BY <2>2, <3>3 DEF Store!Next
  <2>4. CASE ~ Exists(t)
    <3>1. row' = row
      BY <1>4, <2>4 DEF Logout
    <3>2. Store!Close({})
      BY <2>1, <3>1, RevokingCloses
    <3>3. QED
      BY <3>2 DEF Store!Next
  <2>5. QED
    BY <2>3, <2>4
<1>5. ASSUME NEW r \in Requests, NEW s \in Sessions, LoadSession(r, s) PROVE Goal
  BY <1>5, LoadEnters DEF Store!Next
<1>6. ASSUME NEW r \in Requests, Serve(r) \/ AnswerLogout(r) PROVE Goal
  <2>1. /\ row' = row
        /\ \A q \in Requests : request'[q] = IF q \in {r} THEN NoRequest ELSE request[q]
    BY <1>6, TypeParts DEF Serve, AnswerLogout, TypeRequest
  <2>2. Store!Leave({r})
    BY <2>1, AnsweringLeaves
  <2>3. QED
    BY <2>2 DEF Store!Next
<1>7. CASE Restart
  <2>1. Store!Leave(Requests)
    BY <1>7, AnsweringLeaves DEF Restart
  <2>2. QED
    BY <2>1 DEF Store!Next
<1>8. CASE Purge
  BY <1>8, PurgeForgets DEF Store!Next
<1>9. CASE Tick
  BY <1>9, TickTicks DEF Store!Next
<1>10. CASE UNCHANGED <<row, request>>
  BY <1>10, SameRows, SameUsers DEF Store!vars
<1>11. QED
  BY <1>1, <1>2, <1>3, <1>4, <1>5, <1>6, <1>7, <1>8, <1>9, <1>10
     DEF Next, LoginStep, RequestStep, vars, Verify, AnswerLogin, LoginFails, TouchFails,
         SetActive

(* The table, its two clocks and its late writes implement a store in which*)
(* a session is open once, for its absolute limit at the longest.          *)
THEOREM SessionsImplementStore == Spec => Implements
<1>1. Init => Store!Init
  BY DEF Init, Store!Init, Exists, Left, NoRequest
<1>2. Init => IdleHoldsNone
  BY DEF Init, IdleHoldsNone, NoRequest
<1>3. QED
  BY <1>1, <1>2, TypeCorrect, IdleHoldsNoneStep, StepsAreStoreSteps, PTL
     DEF Spec, Implements, Store!Spec

---------------------------------------------------------------------------
(* The tests of login expect one live session, which two logins of one     *)
(* admin can break (OneLiveSession).  The window is exactly that between   *)
(* the statement that revokes and the statement that creates: as long as   *)
(* no two logins of one admin are in it at once, the revocation of each    *)
(* leaves nothing, and what it creates is alone until the next one.        *)
NoTwoBetween == \A a \in Admins : \A k, l \in Owed(a) : k = l
LiveInv ==
  /\ \A a \in Admins : Owed(a) # {} => Unrevoked(a) = {}
  /\ \A a \in Admins : \A s, t \in Unrevoked(a) : s = t

(* Outside RevokeAll and CreateSession no session becomes unrevoked and no *)
(* login enters the window.                                                *)
LEMMA WindowMoves ==
  ASSUME TypeOK, [Next]_vars
  PROVE  \/ \E l \in Logins : RevokeAll(l)
         \/ \E l \in Logins, s \in Sessions : CreateSession(l, s)
         \/ /\ \A a \in Admins : Unrevoked(a)' \subseteq Unrevoked(a)
            /\ \A l \in Logins : login'[l].pc = "revoked" =>
                  login[l].pc = "revoked" /\ login'[l].admin = login[l].admin
<1> SUFFICES ASSUME \A l \in Logins : ~ RevokeAll(l),
                    \A l \in Logins, s \in Sessions : ~ CreateSession(l, s)
             PROVE  /\ \A a \in Admins : Unrevoked(a)' \subseteq Unrevoked(a)
                    /\ \A l \in Logins : login'[l].pc = "revoked" =>
                          login[l].pc = "revoked" /\ login'[l].admin = login[l].admin
  BY Zenon
<1>1. TypeLogin /\ TypeRow
  BY TypeParts
<1>2. ASSUME NEW a \in Admins, NEW s \in Sessions, s \in Unrevoked(a)' PROVE s \in Unrevoked(a)
  <2>1. Kept(s)
    BY RowMoves
  <2>2. row'[s] # NoRow /\ row'[s].admin = a /\ ~ row'[s].revoked
    BY <1>2 DEF Unrevoked, Exists
  <2>3. row[s] # NoRow /\ row[s].admin = a /\ ~ row[s].revoked
    BY <2>1, <2>2, RowUpdates, NoRowIsNone DEF Kept
  <2>4. QED
    BY <2>3 DEF Unrevoked, Exists
<1>3. ASSUME NEW l \in Logins, login'[l].pc = "revoked"
      PROVE  login[l].pc = "revoked" /\ login'[l].admin = login[l].admin
  <2>1. ASSUME NEW k \in Logins, NEW a \in Admins, Verify(k, a)
        PROVE  login[l].pc = "revoked" /\ login'[l].admin = login[l].admin
    <3>1. login'[k].pc = "verified" /\ (k # l => login'[l] = login[l])
      BY <1>1, <2>1 DEF Verify, TypeLogin, NoLogin
    <3>2. QED
      BY <1>3, <3>1
  <2>2. ASSUME NEW k \in Logins, login' = [login EXCEPT ![k] = NoLogin]
        PROVE  login[l].pc = "revoked" /\ login'[l].admin = login[l].admin
    BY <1>1, <1>3, <2>2 DEF TypeLogin, NoLogin
  <2>3. CASE Restart
    BY <1>3, <2>3 DEF Restart, NoLogin
  <2>4. CASE Purge
    <3> DEFINE gone == {s \in Sessions : Exists(s) /\ row[s].age = Absolute}
    <3>1. login' = [k \in Logins |-> [login[k] EXCEPT !.before = @ \ gone]]
      BY <2>4 DEF Purge
    <3>2. login[l] \in LoginState
      BY <1>1 DEF TypeLogin
    <3> HIDE DEF gone
    <3>3. login'[l] = [login[l] EXCEPT !.before = @ \ gone]
      BY <3>1
    <3>4. QED
      BY <1>3, <3>2, <3>3 DEF LoginState
  <2>5. CASE UNCHANGED login
    BY <1>3, <2>5
  <2>6. QED
    BY <2>1, <2>2, <2>3, <2>4, <2>5
       DEF Next, LoginStep, RequestStep, vars, AnswerLogin, LoginFails, LoadSession, Touch,
           TouchFails, Serve, Logout, AnswerLogout, SetActive, Tick
<1>4. \A a \in Admins : Unrevoked(a)' \subseteq Unrevoked(a)
  BY <1>2 DEF Unrevoked
<1>5. QED
  BY <1>3, <1>4

LEMMA LiveStep == TypeOK /\ TypeOK' /\ NoTwoBetween /\ LiveInv /\ [Next]_vars => LiveInv'
<1> SUFFICES ASSUME TypeOK, TypeOK', NoTwoBetween, LiveInv, [Next]_vars PROVE LiveInv'
  OBVIOUS
<1>1. TypeLogin /\ TypeRow /\ TypeLogin'
  BY TypeParts
<1>2. ASSUME NEW l \in Logins, RevokeAll(l) PROVE LiveInv'
  <2>1. PICK b \in Admins : b = login[l].admin
    BY <1>1, <1>2 DEF RevokeAll, TypeLogin
  <2>2. \A s \in Sessions : row'[s] = IF s \in Unrevoked(b) THEN Revoke(row[s]) ELSE row[s]
    BY <1>2, <2>1 DEF RevokeAll
  <2>3. Unrevoked(b)' = {}
    BY <1>1, <2>2, RowUpdates DEF Unrevoked, Exists, TypeRow
  <2>4. ASSUME NEW a \in Admins PROVE Unrevoked(a)' \subseteq Unrevoked(a)
    <3>1. ASSUME NEW s \in Sessions, s \in Unrevoked(a)' PROVE s \in Unrevoked(a)
      <4>1. row'[s] = row[s]
        BY <1>1, <2>2, <3>1, RowUpdates DEF Unrevoked, Exists, TypeRow
      <4>2. QED
        BY <3>1, <4>1 DEF Unrevoked, Exists
    <3>2. QED
      BY <3>1 DEF Unrevoked
  <2>5. ASSUME NEW a \in Admins, NEW k \in Logins, k \in Owed(a)' PROVE Unrevoked(a)' = {}
    <3>1. CASE k = l
      <4>1. a = b
        BY <1>1, <1>2, <2>1, <2>5, <3>1 DEF RevokeAll, TypeLogin, LoginState, Owed
      <4>2. QED
        BY <2>3, <4>1
    <3>2. CASE k # l
      <4>1. k \in Owed(a)
        BY <1>1, <1>2, <2>5, <3>2 DEF RevokeAll, TypeLogin, Owed
      <4>2. Unrevoked(a) = {}
        BY <4>1 DEF LiveInv
      <4>3. QED
        BY <2>4, <4>2
    <3>3. QED
      BY <3>1, <3>2
  <2>6. QED
    <3>1. \A a \in Admins : Owed(a)' # {} => Unrevoked(a)' = {}
      BY <2>5 DEF Owed
    <3>2. \A a \in Admins : \A s, t \in Unrevoked(a)' : s = t
      BY <2>4 DEF LiveInv
    <3>3. QED
      BY <3>1, <3>2 DEF LiveInv
<1>3. ASSUME NEW l \in Logins, NEW n \in Sessions, CreateSession(l, n) PROVE LiveInv'
  <2> PICK b \in Admins : b = login[l].admin
    BY <1>1, <1>3 DEF CreateSession, TypeLogin
  <2>1. /\ login[l].pc = "revoked" /\ row[n] = NoRow
        /\ row' = [row EXCEPT ![n] = NewRow(b)]
        /\ login' = [login EXCEPT ![l].pc = "created", ![l].session = n]
    BY <1>1, <1>3 DEF CreateSession, Fresh, Exists, TypeLogin
  <2>2. Unrevoked(b) = {}
    BY <2>1 DEF LiveInv, Owed
  <2>3. ASSUME NEW a \in Admins
        PROVE  Unrevoked(a)' \subseteq IF a = b THEN {n} ELSE Unrevoked(a)
    <3>1. ASSUME NEW s \in Sessions, s \in Unrevoked(a)', s # n PROVE s \in Unrevoked(a)
      BY <1>1, <2>1, <3>1 DEF Unrevoked, Exists, TypeRow
    <3>2. n \in Unrevoked(a)' => a = b
      BY <1>1, <2>1, NewRowIsRow DEF Unrevoked, TypeRow
    <3>3. Unrevoked(a)' \subseteq Sessions
      BY DEF Unrevoked
    <3>4. QED
      BY <2>2, <3>1, <3>2, <3>3
  <2>4. \A a \in Admins : \A s, t \in Unrevoked(a)' : s = t
    <3> SUFFICES ASSUME NEW a \in Admins, NEW s \in Unrevoked(a)', NEW t \in Unrevoked(a)'
                 PROVE  s = t
      OBVIOUS
    <3>1. CASE a = b
      BY <2>3, <3>1
    <3>2. CASE a # b
      <4>1. s \in Unrevoked(a) /\ t \in Unrevoked(a)
        BY <2>3, <3>2
      <4>2. QED
        BY <4>1 DEF LiveInv
    <3>3. QED
      BY <3>1, <3>2
  <2>5. ASSUME NEW a \in Admins, NEW k \in Logins, k \in Owed(a)' PROVE Unrevoked(a)' = {}
    <3>1. k # l
      BY <1>1, <2>1, <2>5 DEF TypeLogin, LoginState, Owed
    <3>2. k \in Owed(a)
      BY <1>1, <2>1, <2>5, <3>1 DEF TypeLogin, Owed
    <3>3. Unrevoked(a) = {}
      BY <3>2 DEF LiveInv
    <3>4. a # b
      BY <2>1, <3>1, <3>2 DEF NoTwoBetween, Owed
    <3>5. QED
      BY <2>3, <3>3, <3>4
  <2>6. QED
    <3>1. \A a \in Admins : Owed(a)' # {} => Unrevoked(a)' = {}
      BY <2>5 DEF Owed
    <3>2. QED
      BY <2>4, <3>1 DEF LiveInv
<1>4. ASSUME \A a \in Admins : Unrevoked(a)' \subseteq Unrevoked(a),
             \A l \in Logins : login'[l].pc = "revoked" =>
               login[l].pc = "revoked" /\ login'[l].admin = login[l].admin
      PROVE  LiveInv'
  <2>1. \A a \in Admins : \A s, t \in Unrevoked(a)' : s = t
    BY <1>4 DEF LiveInv
  <2>2. ASSUME NEW a \in Admins, Owed(a)' # {} PROVE Unrevoked(a)' = {}
    <3>1. Owed(a) # {}
      BY <1>4, <2>2 DEF Owed
    <3>2. QED
      BY <1>4, <3>1 DEF LiveInv
  <2>3. QED
    BY <2>1, <2>2 DEF LiveInv
<1>5. QED
  BY <1>2, <1>3, <1>4, WindowMoves

(* While no two logins of one admin are between their two statements, an   *)
(* admin has one live session at most, whatever fails, dies, logs out or   *)
(* writes last_seen_at late: the reading of the tests of login.            *)
THEOREM LoginsApartLeaveOneSession == Spec /\ []NoTwoBetween => []OneLiveSession
<1>1. Init => LiveInv
  BY DEF Init, LiveInv, Unrevoked, Exists
<1>2. LiveInv => OneLiveSession
  <2> SUFFICES ASSUME LiveInv, NEW a \in Admins PROVE Cardinality(Unrevoked(a)) <= 1
    BY DEF OneLiveSession
  <2>1. CASE Unrevoked(a) = {}
    BY <2>1, FS_EmptySet
  <2>2. CASE Unrevoked(a) # {}
    <3>1. PICK s \in Unrevoked(a) : TRUE
      BY <2>2
    <3>2. Unrevoked(a) = {s}
      BY <3>1 DEF LiveInv
    <3>3. Cardinality({s}) = 1
      BY FS_Singleton
    <3>4. QED
      BY <3>2, <3>3
  <2>3. QED
    BY <2>1, <2>2
<1>3. QED
  BY <1>1, <1>2, TypeCorrect, LiveStep, PTL DEF Spec

---------------------------------------------------------------------------
(* No step gives a session that is in the table more time: neither a write *)
(* of last_seen_at, however late, nor a login, a purge or a restart; and   *)
(* one that is over stays over until its row is gone.                      *)
NeverProlonged == [][\A s \in Sessions : Exists(s) => Left(s)' <= Left(s)]_vars

(* expires_at is written once: the absolute limit is never moved           *)
(* (adminSessions.js, touch and create).                                   *)
THEOREM AbsoluteLimitHolds == Spec => NeverProlonged
<1>1. TypeOK /\ [Next]_vars => [\A s \in Sessions : Exists(s) => Left(s)' <= Left(s)]_vars
  <2> SUFFICES ASSUME TypeOK, [Next]_vars, NEW s \in Sessions, Exists(s)
               PROVE  Left(s)' <= Left(s)
    BY Zenon
  <2>1. Left(s) \in 0 .. Absolute /\ Absolute \in Nat
    BY LeftOfRows, ClocksPositive
  <2>2. CASE row'[s] = NoRow
    BY <2>1, <2>2 DEF Left, Exists
  <2>3. CASE Kept(s) /\ row'[s] # NoRow
    BY <2>1, <2>3, LeftOfRows DEF Kept
  <2>4. ASSUME NEW l \in Logins, CreateSession(l, s) PROVE FALSE
    BY <2>4 DEF CreateSession, Fresh
  <2>5. QED
    BY <2>2, <2>3, <2>4, RowMoves
<1>2. QED
  BY <1>1, TypeCorrect, PTL DEF Spec, NeverProlonged
=============================================================================
