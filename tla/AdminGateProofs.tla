-------------------------- MODULE AdminGateProofs --------------------------
(* What AdminGate promises for any number of tabs and of sessions.         *)
EXTENDS AdminGate, FiniteSetTheorems, TLAPS

---------------------------------------------------------------------------
(* There is always a token nobody refers to.                               *)
LEMMA FewValues ==
  ASSUME NEW S, IsFiniteSet(S), NEW f, f = [x \in S |-> f[x]]
  PROVE  /\ IsFiniteSet({f[x] : x \in S})
         /\ Cardinality({f[x] : x \in S}) <= Cardinality(S)
<1>1. f \in Surjection(S, {f[x] : x \in S})
  BY DEF Surjection
<1>2. QED
  BY <1>1, FS_Surjection

LEMMA FewInUnion ==
  ASSUME NEW S, IsFiniteSet(S), NEW T, IsFiniteSet(T)
  PROVE  /\ IsFiniteSet(S \cup T)
         /\ Cardinality(S \cup T) <= Cardinality(S) + Cardinality(T)
<1>1. /\ IsFiniteSet(S \cup T)
      /\ Cardinality(S \cup T) = Cardinality(S) + Cardinality(T) - Cardinality(S \cap T)
  BY FS_Union
<1>2. IsFiniteSet(S \cap T)
  BY FS_Subset
<1>3. Cardinality(S) \in Nat /\ Cardinality(T) \in Nat /\ Cardinality(S \cap T) \in Nat
  BY <1>2, FS_CardinalityType
<1>4. QED
  BY <1>1, <1>3

LEMMA NewTokenIsNew == TypeOK => NewToken \in Tokens /\ NewToken \notin Mentioned
<1> SUFFICES ASSUME TypeOK PROVE NewToken \in Tokens /\ NewToken \notin Mentioned
  OBVIOUS
<1> DEFINE A == [t \in Tabs |-> page[t].token]
           B == [t \in Tabs |-> request[t].cookies.public]
           C == [t \in Tabs |-> request[t].public]
           D == [t \in Tabs |-> request[t].form.token]
           As == {A[t] : t \in Tabs}
           Bs == {B[t] : t \in Tabs}
           Cs == {C[t] : t \in Tabs}
           Ds == {D[t] : t \in Tabs}
           Few == As \cup Bs \cup Cs \cup Ds \cup {jar.public}
           n == Cardinality(Tabs)
<1>1. Tokens \cap Mentioned \subseteq Few
  <2>1. \A t \in Tabs : /\ request[t].cookies.session \in Sessions \cup {None}
                        /\ request[t].session \in Sessions \cup {None}
    BY DEF TypeOK, Request, Jar
  <2>2. jar.session \in Sessions \cup {None} /\ open \subseteq Sessions
    BY DEF TypeOK, Jar
  <2>3. SUFFICES ASSUME NEW k \in Tokens, k \in Mentioned PROVE k \in Few
    OBVIOUS
  <2>4. k \notin Sessions /\ k # None
    BY TokensApart, NoneIsNothing
  <2>5. CASE k \in {jar.public, jar.session} \cup open
    BY <2>2, <2>4, <2>5
  <2>6. CASE \E t \in Tabs :
               k \in {page[t].token, request[t].cookies.public, request[t].cookies.session,
                     request[t].public, request[t].session, request[t].form.token}
    BY <2>1, <2>4, <2>6
  <2>7. k \in {jar.public, jar.session} \cup open \/ \E t \in Tabs :
          k \in {page[t].token, request[t].cookies.public, request[t].cookies.session,
                request[t].public, request[t].session, request[t].form.token}
    BY <2>3 DEF Mentioned
  <2>8. QED
    BY <2>5, <2>6, <2>7
<1>2. n \in Nat /\ IsFiniteSet(Tabs) /\ Cardinality(Tokens) \in Nat
  BY EnoughTokens, FS_CardinalityType
<1>3. /\ IsFiniteSet(As) /\ Cardinality(As) <= n
      /\ IsFiniteSet(Bs) /\ Cardinality(Bs) <= n
      /\ IsFiniteSet(Cs) /\ Cardinality(Cs) <= n
      /\ IsFiniteSet(Ds) /\ Cardinality(Ds) <= n
  <2>1. A = [t \in Tabs |-> A[t]] /\ B = [t \in Tabs |-> B[t]]
        /\ C = [t \in Tabs |-> C[t]] /\ D = [t \in Tabs |-> D[t]]
    OBVIOUS
  <2> HIDE DEF A, B, C, D
  <2>2. QED
    BY <1>2, <2>1, FewValues
<1>4. IsFiniteSet({jar.public}) /\ Cardinality({jar.public}) = 1
  BY FS_Singleton
<1> HIDE DEF A, B, C, D, As, Bs, Cs, Ds
<1>5. IsFiniteSet(As \cup Bs) /\ Cardinality(As \cup Bs) <= Cardinality(As) + Cardinality(Bs)
  BY <1>3, FewInUnion
<1>6. /\ IsFiniteSet(As \cup Bs \cup Cs)
      /\ Cardinality(As \cup Bs \cup Cs) <= Cardinality(As \cup Bs) + Cardinality(Cs)
  BY <1>3, <1>5, FewInUnion
<1>7. /\ IsFiniteSet(As \cup Bs \cup Cs \cup Ds)
      /\ Cardinality(As \cup Bs \cup Cs \cup Ds) <= Cardinality(As \cup Bs \cup Cs) + Cardinality(Ds)
  BY <1>3, <1>6, FewInUnion
<1>8. /\ IsFiniteSet(Few)
      /\ Cardinality(Few) <= Cardinality(As \cup Bs \cup Cs \cup Ds) + 1
  BY <1>4, <1>7, FewInUnion
<1>9. /\ Cardinality(As) \in Nat /\ Cardinality(Bs) \in Nat /\ Cardinality(Cs) \in Nat
      /\ Cardinality(Ds) \in Nat /\ Cardinality(As \cup Bs) \in Nat
      /\ Cardinality(As \cup Bs \cup Cs) \in Nat
      /\ Cardinality(As \cup Bs \cup Cs \cup Ds) \in Nat /\ Cardinality(Few) \in Nat
  BY <1>3, <1>5, <1>6, <1>7, <1>8, FS_CardinalityType
<1>10. Cardinality(Few) <= 4 * n + 1
  BY <1>2, <1>3, <1>5, <1>6, <1>7, <1>8, <1>9
<1>11. ~ Tokens \subseteq Few
  <2>1. Cardinality(Few) < Cardinality(Tokens)
    BY <1>2, <1>9, <1>10, EnoughTokens
  <2>2. Tokens \subseteq Few => Cardinality(Tokens) <= Cardinality(Few)
    BY <1>8, FS_Subset
  <2>3. QED
    BY <1>2, <1>9, <2>1, <2>2
<1>12. \E k \in Tokens : k \notin Mentioned
  BY <1>1, <1>11
<1>13. QED
  BY <1>12 DEF NewToken

---------------------------------------------------------------------------
(* Where a request stands, and which answers its kind can get.             *)
Stage(r) ==
  /\ r.pc = "answered" <=> r.answer # "none"
  /\ r.public # None <=> r.pc = "answered" /\ r.cookies.public = None
  /\ r.pc \in {"verified", "revoked", "created"} => r.to = "submitLogin"
  /\ r.pc = "leaving" => r.to = "submitLogout"
  /\ r.session # None => /\ r.to = "submitLogin"
                         /\ r.pc = "created" \/ r.answer \in {"loggedIn", "error"}
  /\ r.answer = "login" => r.to \in {"showLogin", "submitLogin"}
  /\ r.answer = "toAdmin" => r.to = "showLogin"
  /\ r.answer = "toLogin" => r.to = "dashboard"
  /\ r.answer = "loggedIn" => r.to = "submitLogin"
  /\ r.answer = "loggedOut" => r.to = "submitLogout"

(* The cookies of a session and of its token are a pair wherever they are, *)
(* and so are a form of the admin pages and its session.                   *)
FormSound(p) == p.kind = "admin" => p.token = p.under
Paired(r) ==
  /\ r.cookies.csrf = r.cookies.session
  /\ r.to \in {"write", "submitLogout"} => r.form.token = r.form.under
  /\ r.pc = "leaving" => r.form.token = r.cookies.session
  /\ r.answer \in {"accepted", "loggedOut"} =>
       r.to \in {"write", "submitLogout"} /\ r.form.token = r.cookies.session
  /\ r.answer = "forbidden" =>
       \/ r.to = "submitLogin"
       \/ r.to \in {"write", "submitLogout"} /\ r.form.token # r.cookies.session
FormsInv ==
  /\ jar.csrf = jar.session
  /\ \A t \in Tabs : FormSound(page[t]) /\ Paired(request[t])

(* The token of a login form nobody shook is the browser's.  A request     *)
(* without a token that is not racing runs alone.                          *)
PageSure(p) == p.kind = "login" /\ ~ p.shaken => p.token = jar.public /\ p.token # None
Sure(r) ==
  /\ r.pc # "none" /\ r.to \in {"showLogin", "submitLogin"} /\ ~ r.shaken =>
       r.cookies.public \in {None, jar.public}
  /\ r.pc # "none" /\ r.to = "submitLogin" /\ ~ r.form.shaken =>
       r.form.token = r.cookies.public /\ r.form.token # None
  /\ r.answer = "forbidden" /\ r.to = "submitLogin" => r.form.shaken
AloneWithout(t) ==
  t \in Cookieless \ racing => jar.public = None /\ Cookieless = {t}
TokensInv ==
  /\ \A t \in Tabs : PageSure(page[t]) /\ Sure(request[t])
  /\ \A t \in Tabs : AloneWithout(t)

(* Who was redirected since the last session came or went holds the        *)
(* cookies of now; after the second time the matter is settled.            *)
Settled(r) ==
  r.hops > 0 =>
    /\ r.hops <= 2
    /\ r.cookies.session = jar.session
    /\ r.to \in {"showLogin", "dashboard"}
    /\ r.answer = "toAdmin" => jar.session \in open
    /\ r.answer = "toLogin" => jar.session \notin open
    /\ r.hops = 2 => (r.to = "dashboard" <=> jar.session \in open)
SettledInv == \A t \in Tabs : Settled(request[t])

(* A login that nothing overlapped leaves no session but its own; without  *)
(* trouble there is one login or logout at a time.                         *)
LoneLogin(t) ==
  t \in Changing /\ request[t].to = "submitLogin" /\ request[t].alone =>
    /\ Changing = {t}
    /\ request[t].pc = "revoked" => open = {}
    /\ request[t].pc = "created" \/ request[t].answer = "loggedIn" =>
         open \subseteq {request[t].session}
LoneLogout(t) ==
  t \in Changing /\ request[t].to = "submitLogout" =>
    jar.session \in {request[t].cookies.session, None}
OrphansInv ==
  /\ \A t \in Tabs : LoneLogin(t)
  /\ \A t \in Tabs : request[t].answer = "loggedOut" => request[t].cookies.session \notin open
  /\ ~ troubled => /\ \A t, u \in Changing : t = u
                   /\ \A t \in Changing : request[t].to = "submitLogin" => request[t].alone
                   /\ \A t \in Tabs : LoneLogout(t)
  /\ OrphansHaveCause

StagesInv == \A t \in Tabs : Stage(request[t])

---------------------------------------------------------------------------
(* What the updates of a request leave alone.                              *)
Carried(q, r) ==
  /\ q.to = r.to /\ q.cookies = r.cookies /\ q.form = r.form
  /\ q.alone = r.alone /\ q.shaken = r.shaken
Alike(q, r) ==
  /\ Carried(q, r)
  /\ q.pc = r.pc /\ q.answer = r.answer /\ q.public = r.public /\ q.session = r.session

LEMMA UnsettledIs ==
  ASSUME NEW q, q \in [Tabs -> Request]
  PROVE  /\ Unsettled(q) \in [Tabs -> Request]
         /\ \A t \in Tabs : Alike(Unsettled(q)[t], q[t]) /\ Unsettled(q)[t].hops = 0
<1> SUFFICES ASSUME NEW t \in Tabs
             PROVE  /\ Unsettled(q)[t] \in Request
                    /\ Alike(Unsettled(q)[t], q[t]) /\ Unsettled(q)[t].hops = 0
  BY DEF Unsettled
<1> DEFINE r == q[t]
<1>1. r \in Request
  OBVIOUS
<1>2. Unsettled(q)[t] = [r EXCEPT !.hops = 0]
  BY DEF Unsettled
<1> HIDE DEF r
<1>3. /\ [r EXCEPT !.hops = 0] \in Request
      /\ Alike([r EXCEPT !.hops = 0], r)
      /\ [r EXCEPT !.hops = 0].hops = 0
  BY <1>1 DEF Request, Alike, Carried
<1>4. QED
  BY <1>2, <1>3 DEF r

(* An answer carries a token exactly when the request brought none.        *)
Outcome(q, r, answer) ==
  /\ Carried(q, r)
  /\ q.pc = "answered" /\ q.answer = answer /\ q.session = r.session /\ q.hops = r.hops
  /\ q.public # None <=> r.cookies.public = None

LEMMA AnsweredIs ==
  ASSUME TypeOK, NEW t \in Tabs, NEW answer \in Answers
  PROVE  /\ Answered(t, answer) \in [Tabs -> Request]
         /\ \A u \in Tabs : u # t => Answered(t, answer)[u] = request[u]
         /\ Outcome(Answered(t, answer)[t], request[t], answer)
<1> DEFINE r == request[t]
           k == IF r.cookies.public = None THEN NewToken ELSE None
<1>1. r \in Request /\ request \in [Tabs -> Request]
  BY DEF TypeOK
<1>2. k \in Tokens \cup {None} /\ (k # None <=> r.cookies.public = None)
  BY NewTokenIsNew, NoneIsNothing
<1>3. Answered(t, answer) =
        [request EXCEPT ![t] = [r EXCEPT !.pc = "answered", !.answer = answer, !.public = k]]
  BY <1>1 DEF Answered
<1> HIDE DEF r, k
<1>4. LET q == [r EXCEPT !.pc = "answered", !.answer = answer, !.public = k]
      IN  q \in Request /\ Outcome(q, r, answer)
  BY <1>1, <1>2 DEF Request, Outcome, Carried
<1>5. QED
  BY <1>1, <1>3, <1>4 DEF r

---------------------------------------------------------------------------
(* What every step of a handler is: it takes the request of one tab        *)
(* further, by its own cookies and form, and leaves the browser alone.     *)
Served(q, r) ==
  /\ r.pc \notin {"none", "answered"} /\ q.pc \notin {"none", "sent"}
  /\ Carried(q, r) /\ q.hops \in {0, r.hops}
  /\ Stage(q) /\ Paired(q)
  /\ q.answer = "login" => q.to = "submitLogin" \/ r.cookies.session \notin open
  /\ q.answer = "toAdmin" => r.cookies.session \in open
  /\ q.answer = "toLogin" => r.cookies.session \notin open
  /\ q.answer = "forbidden" /\ q.to = "submitLogin" =>
       r.cookies.public = None \/ r.form.token # r.cookies.public
ServerStep(t) ==
  /\ request' \in [Tabs -> Request]
  /\ UNCHANGED <<jar, page, racing>>
  /\ \A u \in Tabs : u # t => /\ Alike(request'[u], request[u])
                              /\ request'[u].hops \in {0, request[u].hops}
  /\ Served(request'[t], request[t])
  /\ open' = open \/ \A u \in Tabs : request'[u].hops = 0
Sound(t) == TypeOK /\ Stage(request[t]) /\ Paired(request[t])

LEMMA AnsweringServes ==
  ASSUME NEW t \in Tabs, Sound(t), NEW answer \in Answers \ {"none"},
         Answer(t, answer), UNCHANGED <<open, jar, page, racing>>,
         request[t].pc \notin {"none", "answered"},
         answer = "login" => /\ request[t].to \in {"showLogin", "submitLogin"}
                             /\ request[t].to = "showLogin" => ~ Valid(t),
         answer = "toAdmin" => request[t].to = "showLogin" /\ Valid(t),
         answer = "toLogin" => request[t].to = "dashboard" /\ ~ Valid(t),
         answer = "loggedIn" => request[t].to = "submitLogin",
         answer = "loggedOut" => request[t].to = "submitLogout",
         answer \in {"accepted", "loggedOut"} =>
           request[t].to \in {"write", "submitLogout"} /\ CsrfMatchesSession(t),
         answer = "forbidden" =>
           \/ /\ request[t].to = "submitLogin"
              /\ \/ request[t].cookies.public = None
                 \/ request[t].form.token # request[t].cookies.public
           \/ request[t].to \in {"write", "submitLogout"} /\ ~ CsrfMatchesSession(t),
         request[t].session # None => answer \in {"loggedIn", "error"}
  PROVE  ServerStep(t)
<1> DEFINE r == request[t]
           q == request'[t]
<1>1. /\ request' \in [Tabs -> Request]
      /\ \A u \in Tabs : u # t => request'[u] = request[u]
      /\ Outcome(q, r, answer)
  BY AnsweredIs DEF Answer, Sound
<1>2. Stage(r) /\ Paired(r)
  BY DEF Sound
<1>3. Stage(q)
  BY <1>1, <1>2 DEF Stage, Outcome, Carried
<1>4. Paired(q)
  BY <1>1, <1>2 DEF Paired, Outcome, Carried, CsrfMatchesSession
<1>5. Served(q, r)
  BY <1>1, <1>3, <1>4 DEF Served, Outcome, Valid, Carried
<1>6. QED
  BY <1>1, <1>5 DEF ServerStep, Alike, Carried

LEMMA ServedByShowLogin ==
  ASSUME NEW t \in Tabs, Sound(t), ShowLogin(t) PROVE ServerStep(t)
<1>1. PICK answer \in {"toAdmin", "login"} :
        Answer(t, answer) /\ (answer = "toAdmin" <=> Valid(t))
  BY DEF ShowLogin
<1>2. request[t].session = None
  BY DEF Sound, Stage, ShowLogin, ToDo
<1>3. QED
  BY <1>1, <1>2, AnsweringServes DEF ShowLogin, ToDo, Answers

LEMMA ServedByDashboard ==
  ASSUME NEW t \in Tabs, Sound(t), Dashboard(t) PROVE ServerStep(t)
<1>1. PICK answer \in {"admin", "toLogin"} :
        Answer(t, answer) /\ (answer = "admin" <=> Valid(t))
  BY DEF Dashboard
<1>2. request[t].session = None
  BY DEF Sound, Stage, Dashboard, ToDo
<1>3. QED
  BY <1>1, <1>2, AnsweringServes DEF Dashboard, ToDo, Answers

LEMMA ServedByWrite ==
  ASSUME NEW t \in Tabs, Sound(t), Write(t) PROVE ServerStep(t)
<1>1. Verdict(t) \in {"unauthenticated", "accepted", "forbidden"}
      /\ (Verdict(t) = "accepted" => CsrfMatchesSession(t))
      /\ (Verdict(t) = "forbidden" => ~ CsrfMatchesSession(t))
  BY DEF Verdict
<1>2. request[t].session = None
  BY DEF Sound, Stage, Write, ToDo
<1>3. QED
  BY <1>1, <1>2, AnsweringServes DEF Write, ToDo, Answers

LEMMA AdvanceServes ==
  ASSUME NEW t \in Tabs, Sound(t), NEW q, q \in Request,
         request' = [request EXCEPT ![t] = q] \/ request' = Unsettled([request EXCEPT ![t] = q]),
         UNCHANGED <<jar, page, racing>>,
         open' = open \/ request' = Unsettled([request EXCEPT ![t] = q]),
         request[t].pc \notin {"none", "answered"}, q.pc \notin {"none", "sent"},
         Carried(q, request[t]), q.hops = request[t].hops, q.answer \in {"none", "loggedOut"},
         Stage(q), Paired(q)
  PROVE  ServerStep(t)
<1> DEFINE new == [request EXCEPT ![t] = q]
<1>1. /\ new \in [Tabs -> Request] /\ new[t] = q
      /\ \A u \in Tabs : u # t => new[u] = request[u]
  BY DEF Sound, TypeOK
<1>2. request' = new \/ request' = Unsettled(new)
  OBVIOUS
<1> HIDE DEF new
<1>3. CASE request' = new /\ open' = open
  BY <1>1, <1>3 DEF ServerStep, Served, Alike, Carried
<1>4. CASE request' = Unsettled(new)
  <2>1. /\ request' \in [Tabs -> Request]
        /\ \A u \in Tabs : Alike(request'[u], new[u]) /\ request'[u].hops = 0
    BY <1>1, <1>4, UnsettledIs
  <2>2. Stage(request'[t]) /\ Paired(request'[t])
    BY <1>1, <2>1 DEF Alike, Carried, Stage, Paired
  <2>3. QED
    BY <1>1, <2>1, <2>2 DEF ServerStep, Served, Alike, Carried
<1>5. QED
  BY <1>2, <1>3, <1>4 DEF new

LEMMA ServedByEnterLogout ==
  ASSUME NEW t \in Tabs, Sound(t), EnterLogout(t) PROVE ServerStep(t)
<1> DEFINE r == request[t]
<1>1. Verdict(t) \in {"unauthenticated", "accepted", "forbidden"}
      /\ (Verdict(t) = "accepted" => CsrfMatchesSession(t))
      /\ (Verdict(t) = "forbidden" => ~ CsrfMatchesSession(t))
  BY DEF Verdict
<1>2. r.pc = "sent" /\ r.to = "submitLogout"
  BY DEF EnterLogout, ToDo
<1>3. r.session = None
  BY <1>2 DEF Sound, Stage
<1>4. CASE Verdict(t) # "accepted"
  <2>1. Answer(t, Verdict(t))
    BY <1>4 DEF EnterLogout
  <2>2. QED
    BY <1>1, <1>2, <1>3, <1>4, <2>1, AnsweringServes DEF EnterLogout, Answers
<1>5. CASE Verdict(t) = "accepted"
  <2> DEFINE q == [r EXCEPT !.pc = "leaving"]
  <2>1. r \in Request /\ Stage(r) /\ Paired(r) /\ r.form.token = r.cookies.session
    BY <1>1, <1>5 DEF Sound, TypeOK, CsrfMatchesSession
  <2> HIDE DEF r
  <2>2. /\ q \in Request /\ q.pc = "leaving" /\ q.answer = r.answer /\ q.public = r.public
        /\ Carried(q, r) /\ q.hops = r.hops /\ q.session = r.session
    BY <2>1 DEF Request, Carried
  <2> HIDE DEF q
  <2>3. Stage(q) /\ Paired(q) /\ q.answer = "none"
    BY <1>2, <1>3, <2>1, <2>2 DEF Stage, Paired, Carried
  <2>4. request' = [request EXCEPT ![t] = q]
    BY <1>5 DEF EnterLogout, q, r
  <2>5. QED
    BY <1>2, <2>2, <2>3, <2>4, AdvanceServes DEF EnterLogout, r
<1>6. QED
  BY <1>4, <1>5

LEMMA ServedByLogout ==
  ASSUME NEW t \in Tabs, Sound(t), Logout(t) PROVE ServerStep(t)
<1> DEFINE r == request[t]
           q == Answered(t, "loggedOut")[t]
<1>1. r.pc = "leaving" /\ Stage(r) /\ Paired(r)
  BY DEF Logout, Sound
<1>2. /\ Answered(t, "loggedOut") \in [Tabs -> Request]
      /\ \A u \in Tabs : u # t => Answered(t, "loggedOut")[u] = request[u]
      /\ Outcome(q, r, "loggedOut")
  BY AnsweredIs DEF Sound, Answers
<1>3. request \in [Tabs -> Request]
  BY DEF Sound, TypeOK
<1> DEFINE new == Answered(t, "loggedOut")
<1>4. request' = Unsettled(new)
  BY DEF Logout
<1> HIDE DEF new, q, r
<1>5. new = [request EXCEPT ![t] = q]
  BY <1>2, <1>3 DEF new, q
<1>6. Stage(q) /\ Paired(q)
  BY <1>1, <1>2 DEF Stage, Paired, Outcome, Carried
<1>7. q \in Request
  BY <1>2 DEF q
<1>8. QED
  BY <1>1, <1>2, <1>4, <1>5, <1>6, <1>7, AdvanceServes DEF Logout, Outcome, r

LEMMA ServedByEnterLogin ==
  ASSUME NEW t \in Tabs, Sound(t), EnterLogin(t) PROVE ServerStep(t)
<1> DEFINE r == request[t]
<1>1. r.pc = "sent" /\ r.to = "submitLogin"
  BY DEF EnterLogin, ToDo
<1>2. r \in Request /\ Stage(r) /\ Paired(r)
  BY DEF Sound, TypeOK
<1>3. r.session = None /\ r.answer = "none"
  BY <1>1, <1>2 DEF Stage
<1>4. CASE /\ Answer(t, "forbidden")
           /\ r.cookies.public = None \/ r.form.token # r.cookies.public
  BY <1>1, <1>3, <1>4, AnsweringServes DEF EnterLogin, Answers
<1>5. CASE Answer(t, "login")
  BY <1>1, <1>3, <1>5, AnsweringServes DEF EnterLogin, Answers
<1>6. CASE request' = [request EXCEPT ![t].pc = "verified"]
  <2> DEFINE q == [r EXCEPT !.pc = "verified"]
  <2> HIDE DEF r
  <2>1. /\ q \in Request /\ q.pc = "verified" /\ q.answer = r.answer /\ q.public = r.public
        /\ Carried(q, r) /\ q.hops = r.hops /\ q.session = r.session
    BY <1>2 DEF Request, Carried
  <2> HIDE DEF q
  <2>2. Stage(q) /\ Paired(q)
    BY <1>1, <1>2, <1>3, <2>1 DEF Stage, Paired, Carried
  <2>3. request' = [request EXCEPT ![t] = q]
    BY <1>6 DEF q, r
  <2>4. QED
    BY <1>1, <1>3, <2>1, <2>2, <2>3, AdvanceServes DEF EnterLogin, r
<1>7. QED
  BY <1>4, <1>5, <1>6 DEF EnterLogin

LEMMA ServedByRevokeAll ==
  ASSUME NEW t \in Tabs, Sound(t), RevokeAll(t) PROVE ServerStep(t)
<1> DEFINE r == request[t]
           q == [r EXCEPT !.pc = "revoked"]
<1>1. r.pc = "verified" /\ r \in Request /\ Stage(r) /\ Paired(r)
  BY DEF RevokeAll, Sound, TypeOK
<1> HIDE DEF r
<1>2. /\ q \in Request /\ q.pc = "revoked" /\ q.answer = r.answer /\ q.public = r.public
      /\ Carried(q, r) /\ q.hops = r.hops /\ q.session = r.session
  BY <1>1 DEF Request, Carried
<1> HIDE DEF q
<1>3. Stage(q) /\ Paired(q) /\ q.answer = "none"
  BY <1>1, <1>2 DEF Stage, Paired, Carried
<1>4. request' = Unsettled([request EXCEPT ![t] = q])
  BY DEF RevokeAll, q, r
<1>5. QED
  BY <1>1, <1>2, <1>3, <1>4, AdvanceServes DEF RevokeAll, r

LEMMA ServedByCreateSession ==
  ASSUME NEW t \in Tabs, Sound(t), CreateSession(t) PROVE ServerStep(t)
<1>1. PICK s \in Sessions \ Mentioned :
        request' = Unsettled([request EXCEPT ![t].pc = "created", ![t].session = s])
  BY DEF CreateSession
<1> DEFINE r == request[t]
           q == [r EXCEPT !.pc = "created", !.session = s]
<1>2. r.pc = "revoked" /\ r \in Request /\ Stage(r) /\ Paired(r)
  BY DEF CreateSession, Sound, TypeOK
<1>3. request \in [Tabs -> Request]
  BY DEF Sound, TypeOK
<1>4. [request EXCEPT ![t].pc = "created", ![t].session = s] = [request EXCEPT ![t] = q]
  BY <1>3
<1> HIDE DEF r
<1>5. /\ q \in Request /\ q.pc = "created" /\ q.answer = r.answer /\ q.public = r.public
      /\ Carried(q, r) /\ q.hops = r.hops /\ q.session = s
  BY <1>2 DEF Request, Carried
<1> HIDE DEF q
<1>6. Stage(q) /\ Paired(q) /\ q.answer = "none"
  BY <1>2, <1>5 DEF Stage, Paired, Carried
<1>7. QED
  BY <1>1, <1>2, <1>4, <1>5, <1>6, AdvanceServes DEF CreateSession, r

LEMMA ServedByAnswerLogin ==
  ASSUME NEW t \in Tabs, Sound(t), AnswerLogin(t) PROVE ServerStep(t)
<1>1. request[t].pc = "created" /\ request[t].to = "submitLogin"
  BY DEF AnswerLogin, Sound, Stage
<1>2. QED
  BY <1>1, AnsweringServes DEF AnswerLogin, Answers

LEMMA ServedByFail ==
  ASSUME NEW t \in Tabs, Sound(t), Fail(t) PROVE ServerStep(t)
BY AnsweringServes DEF Fail, Answers

LEMMA EveryHandlerServes ==
  ASSUME NEW t \in Tabs, Sound(t), Handle(t) PROVE ServerStep(t)
BY ServedByShowLogin, ServedByDashboard, ServedByWrite, ServedByEnterLogout, ServedByLogout,
   ServedByEnterLogin, ServedByRevokeAll, ServedByCreateSession, ServedByAnswerLogin,
   ServedByFail DEF Handle

---------------------------------------------------------------------------
(* What the steps of the browser do to the requests under way.             *)
Kept(q, r) ==
  /\ q.to = r.to /\ q.cookies = r.cookies /\ q.form = r.form /\ q.pc = r.pc
  /\ q.answer = r.answer /\ q.public = r.public /\ q.session = r.session
Asked(q, to, cookies, form) ==
  /\ q.pc = "sent" /\ q.to = to /\ q.cookies = cookies /\ q.form = form
  /\ q.public = None /\ q.session = None /\ q.answer = "none" /\ q.shaken = FALSE
Idle(q) ==
  /\ q.pc = "none" /\ q.answer = "none" /\ q.public = None /\ q.session = None /\ q.hops = 0
  /\ q.to = "showLogin" /\ q.cookies = NoCookies /\ q.form = Blank

LEMMA KeptIsSound ==
  ASSUME NEW q, NEW r, Kept(q, r)
  PROVE  (Stage(r) => Stage(q)) /\ (Paired(r) => Paired(q))
BY DEF Kept, Stage, Paired

LEMMA AlikeIsKept == ASSUME NEW q, NEW r, Alike(q, r) PROVE Kept(q, r)
BY DEF Alike, Carried, Kept

LEMMA BlankIs == Blank \in Page /\ NoCookies \in Jar /\ Nothing \in Request /\ Idle(Nothing)
<1>1. Blank \in Page
  BY DEF Blank, Page
<1>2. NoCookies \in Jar
  BY DEF NoCookies, Jar
<1>3. Nothing \in Request
  BY <1>1, <1>2 DEF Nothing, Request, Kinds, Answers
<1>4. QED
  BY <1>1, <1>2, <1>3 DEF Idle, Nothing

LEMMA AskingIs ==
  ASSUME NEW to \in Kinds, NEW cookies \in Jar, NEW form \in Page
  PROVE  /\ Asking(to, cookies, form) \in Request
         /\ Asked(Asking(to, cookies, form), to, cookies, form)
         /\ Asking(to, cookies, form).hops = 0
         /\ Asking(to, cookies, form).alone = (to # "submitLogin" \/ Changing = {})
<1> DEFINE lone == to # "submitLogin" \/ Changing = {}
<1>1. Asking(to, cookies, form) =
        [Nothing EXCEPT !.pc = "sent", !.to = to, !.cookies = cookies, !.form = form,
                        !.alone = lone]
  BY DEF Asking
<1>2. lone \in BOOLEAN
  OBVIOUS
<1> HIDE DEF lone
<1>3. /\ Nothing \in Request /\ Nothing.public = None /\ Nothing.session = None
      /\ Nothing.answer = "none" /\ Nothing.shaken = FALSE /\ Nothing.hops = 0
  BY BlankIs DEF Nothing
<1>4. QED
  BY <1>1, <1>2, <1>3 DEF Request, Asked, lone

LEMMA AskedIsSound ==
  ASSUME NEW q, NEW to \in Kinds, NEW cookies, NEW form, Asked(q, to, cookies, form),
         cookies.csrf = cookies.session,
         to \in {"write", "submitLogout"} => form.token = form.under
  PROVE  Stage(q) /\ Paired(q)
BY DEF Asked, Stage, Paired

LEMMA IdleIsSound == ASSUME NEW q, Idle(q) PROVE Stage(q) /\ Paired(q)
BY DEF Idle, Stage, Paired, NoCookies, Blank

LEMMA ShakingIs ==
  /\ \A p \in Page : /\ Shake(p) \in Page
                     /\ Shake(p).kind = p.kind /\ Shake(p).token = p.token
                     /\ Shake(p).under = p.under
                     /\ Shake(p).shaken = (p.shaken \/ p.kind = "login")
  /\ \A r \in Request :
       /\ Shaken(r) \in Request /\ Kept(Shaken(r), r)
       /\ Shaken(r).alone = r.alone /\ Shaken(r).hops = r.hops
       /\ Shaken(r).shaken =
            (r.shaken \/ (r.pc # "none" /\ r.to \in {"showLogin", "submitLogin"}))
<1>1. ASSUME NEW p \in Page
      PROVE  /\ Shake(p) \in Page
             /\ Shake(p).kind = p.kind /\ Shake(p).token = p.token
             /\ Shake(p).under = p.under
             /\ Shake(p).shaken = (p.shaken \/ p.kind = "login")
  <2> DEFINE b == p.shaken \/ p.kind = "login"
  <2>1. Shake(p) = [p EXCEPT !.shaken = b] /\ b \in BOOLEAN
    BY DEF Shake
  <2> HIDE DEF b
  <2>2. QED
    BY <2>1 DEF Page, b
<1>2. ASSUME NEW r \in Request
      PROVE  /\ Shaken(r) \in Request /\ Kept(Shaken(r), r)
             /\ Shaken(r).alone = r.alone /\ Shaken(r).hops = r.hops
             /\ Shaken(r).shaken =
                  (r.shaken \/ (r.pc # "none" /\ r.to \in {"showLogin", "submitLogin"}))
  <2> DEFINE b == r.shaken \/ (r.pc # "none" /\ r.to \in {"showLogin", "submitLogin"})
  <2>1. Shaken(r) = [r EXCEPT !.shaken = b] /\ b \in BOOLEAN
    BY DEF Shaken
  <2> HIDE DEF b
  <2>2. QED
    BY <2>1 DEF Request, Kept, b
<1>3. QED
  BY <1>1, <1>2

LEMMA SendIs ==
  ASSUME TypeOK, NEW t \in Tabs, NEW to \in Kinds, Send(t, to)
  PROVE  LET form == IF to \in Submits THEN page[t] ELSE Blank IN
         /\ request' \in [Tabs -> Request] /\ page' \in [Tabs -> Page] /\ racing' \subseteq Tabs
         /\ troubled' \in BOOLEAN
         /\ Asked(request'[t], to, jar, form) /\ request'[t].hops = 0
         /\ request'[t].alone = (to # "submitLogin" \/ Changing = {})
         /\ \A u \in Tabs : u # t =>
              /\ Kept(request'[u], request[u])
              /\ request'[u].shaken = request[u].shaken /\ request'[u].hops = request[u].hops
              /\ request'[u].alone =
                   (request[u].alone /\ ~ (to \in {"submitLogin", "submitLogout"}
                                           /\ request[u].to = "submitLogin"))
              /\ page'[u] = page[u]
         /\ page'[t] = Blank
<1> DEFINE form == IF to \in Submits THEN page[t] ELSE Blank
           lone(u) == request[u].alone /\ ~ (to \in {"submitLogin", "submitLogout"}
                                             /\ request[u].to = "submitLogin")
<1>1. jar \in Jar /\ form \in Page /\ page \in [Tabs -> Page] /\ Blank \in Page
      /\ racing \subseteq Tabs /\ troubled \in BOOLEAN
  BY BlankIs DEF TypeOK
<1>2. /\ page' \in [Tabs -> Page] /\ page'[t] = Blank
      /\ \A u \in Tabs : u # t => page'[u] = page[u]
  BY <1>1 DEF Send
<1>3. request' = [u \in Tabs |-> IF u = t THEN Asking(to, jar, form)
                                 ELSE [request[u] EXCEPT !.alone = lone(u)]]
  BY DEF Send
<1> HIDE DEF form
<1>4. /\ Asking(to, jar, form) \in Request /\ Asked(Asking(to, jar, form), to, jar, form)
      /\ Asking(to, jar, form).hops = 0
      /\ Asking(to, jar, form).alone = (to # "submitLogin" \/ Changing = {})
  BY <1>1, AskingIs
<1>5. ASSUME NEW u \in Tabs, u # t
      PROVE  /\ request'[u] \in Request /\ Kept(request'[u], request[u])
             /\ request'[u].shaken = request[u].shaken /\ request'[u].hops = request[u].hops
             /\ request'[u].alone = lone(u)
  <2> DEFINE r == request[u]
             b == lone(u)
  <2>1. r \in Request /\ b \in BOOLEAN
    BY DEF TypeOK
  <2>2. request'[u] = [r EXCEPT !.alone = b]
    BY <1>3, <1>5
  <2> HIDE DEF r, b
  <2>3. LET q == [r EXCEPT !.alone = b] IN
          /\ q \in Request /\ Kept(q, r) /\ q.shaken = r.shaken /\ q.hops = r.hops /\ q.alone = b
    BY <2>1 DEF Request, Kept
  <2>4. QED
    BY <2>2, <2>3 DEF r, b
<1>6. request' \in [Tabs -> Request] /\ request'[t] = Asking(to, jar, form)
  BY <1>3, <1>4, <1>5
<1>7. racing' \subseteq Tabs /\ troubled' \in BOOLEAN
  BY <1>1 DEF Send, Rivals, Cookieless
<1>8. QED
  BY <1>2, <1>4, <1>5, <1>6, <1>7 DEF form

Moves(t) == request[t].answer \in DOMAIN Redirects

LEMMA RedirectsAre ==
  /\ DOMAIN Redirects = {"toLogin", "loggedOut", "toAdmin", "loggedIn", "accepted"}
  /\ Redirects.toLogin = "showLogin" /\ Redirects.loggedOut = "showLogin"
  /\ Redirects.toAdmin = "dashboard" /\ Redirects.loggedIn = "dashboard"
  /\ Redirects.accepted = "dashboard"
BY DEF Redirects

LEMMA SetCookiesIs ==
  ASSUME TypeOK, NEW t \in Tabs
  PROVE  LET r == request[t] IN
         /\ SetCookies(t) \in Jar
         /\ r.public # None => SetCookies(t).public = r.public
         /\ r.public = None => SetCookies(t).public = jar.public
         /\ SetCookies(t).session = CASE r.answer = "loggedIn" -> r.session
                                      [] r.answer = "loggedOut" -> None
                                      [] OTHER -> jar.session
         /\ jar.csrf = jar.session => SetCookies(t).csrf = SetCookies(t).session
<1>1. request[t] \in Request /\ jar \in Jar
  BY DEF TypeOK
<1>2. QED
  BY <1>1 DEF SetCookies, Request, Jar

LEMMA ShownIs ==
  ASSUME TypeOK, NEW t \in Tabs
  PROVE  LET r == request[t] IN
         /\ Shown(t) \in Page
         /\ r.answer = "login" =>
              /\ Shown(t).kind = "login" /\ Shown(t).shaken = r.shaken
              /\ Shown(t).token = IF r.public # None THEN r.public ELSE r.cookies.public
         /\ r.answer = "admin" =>
              /\ Shown(t).kind = "admin"
              /\ Shown(t).token = r.cookies.csrf /\ Shown(t).under = r.cookies.session
         /\ r.answer \notin {"login", "admin"} => Shown(t) = Blank
<1>1. request[t] \in Request /\ Blank \in Page
  BY BlankIs DEF TypeOK
<1>2. QED
  BY <1>1 DEF Shown, Request, Jar, Page

LEMMA DeliverIs ==
  ASSUME TypeOK, NEW t \in Tabs, Deliver(t)
  PROVE  LET r == request[t] IN
         /\ r.pc = "answered"
         /\ jar' = SetCookies(t) /\ jar' \in Jar
         /\ page' \in [Tabs -> Page] /\ racing' \subseteq Tabs
         /\ request' \in [Tabs -> Request] /\ troubled' \in BOOLEAN
         /\ Moves(t) =>
              /\ page'[t] = Blank
              /\ Asked(request'[t], Redirects[r.answer], jar', Blank)
              /\ request'[t].hops = IF r.answer \notin {"toLogin", "toAdmin"} THEN 0
                                    ELSE IF r.hops < 3 THEN r.hops + 1 ELSE 3
         /\ ~ Moves(t) => page'[t] = Shown(t) /\ Idle(request'[t])
         /\ \A u \in Tabs : u # t =>
              /\ page'[u] = IF t \in racing THEN Shake(page[u]) ELSE page[u]
              /\ Kept(request'[u], request[u]) /\ request'[u].alone = request[u].alone
              /\ request'[u].hops = IF jar'.session = jar.session THEN request[u].hops ELSE 0
              /\ request'[u].shaken = IF t \in racing THEN Shaken(request[u]).shaken
                                                      ELSE request[u].shaken
<1> DEFINE r == request[t]
           rest == [u \in Tabs |-> IF t \in racing THEN Shaken(request[u]) ELSE request[u]]
           then == IF jar'.session = jar.session THEN rest ELSE Unsettled(rest)
           next == IF Moves(t) THEN Following(r) ELSE Nothing
<1>1. /\ r \in Request /\ request \in [Tabs -> Request] /\ page \in [Tabs -> Page]
      /\ racing \subseteq Tabs /\ troubled \in BOOLEAN
  BY DEF TypeOK
<1>2. r.pc = "answered" /\ jar' = SetCookies(t) /\ jar' \in Jar
  BY SetCookiesIs DEF Deliver
<1>3. page' = [u \in Tabs |->
        CASE u = t /\ Moves(t) -> Blank
          [] u = t /\ ~ Moves(t) -> Shown(t)
          [] u # t -> IF t \in racing THEN Shake(page[u]) ELSE page[u]]
  BY DEF Deliver, Moves
<1>4. /\ page' \in [Tabs -> Page]
      /\ Moves(t) => page'[t] = Blank
      /\ ~ Moves(t) => page'[t] = Shown(t)
      /\ \A u \in Tabs : u # t => page'[u] = IF t \in racing THEN Shake(page[u]) ELSE page[u]
  BY <1>1, <1>3, ShownIs, ShakingIs, BlankIs
<1>5. racing' \subseteq Tabs /\ troubled' \in BOOLEAN
  BY <1>1 DEF Deliver, Rivals, Cookieless
<1>6. request' = [then EXCEPT ![t] = next]
  BY DEF Deliver, Moves
<1>7. /\ rest \in [Tabs -> Request]
      /\ \A u \in Tabs : /\ Kept(rest[u], request[u]) /\ rest[u].alone = request[u].alone
                         /\ rest[u].hops = request[u].hops
                         /\ rest[u].shaken = IF t \in racing THEN Shaken(request[u]).shaken
                                                             ELSE request[u].shaken
  BY <1>1, ShakingIs DEF Kept
<1> HIDE DEF rest
<1>8. /\ then \in [Tabs -> Request]
      /\ \A u \in Tabs : /\ Kept(then[u], request[u]) /\ then[u].alone = request[u].alone
                         /\ then[u].hops = IF jar'.session = jar.session THEN request[u].hops ELSE 0
                         /\ then[u].shaken = IF t \in racing THEN Shaken(request[u]).shaken
                                                             ELSE request[u].shaken
  <2>1. CASE jar'.session = jar.session
    BY <1>7, <2>1
  <2>2. CASE jar'.session # jar.session
    <3>1. /\ Unsettled(rest) \in [Tabs -> Request]
          /\ \A u \in Tabs : Alike(Unsettled(rest)[u], rest[u]) /\ Unsettled(rest)[u].hops = 0
      BY <1>7, UnsettledIs
    <3>2. QED
      BY <1>7, <2>2, <3>1 DEF Alike, Carried, Kept
  <2>3. QED
    BY <2>1, <2>2
<1>9. Moves(t) =>
        /\ next \in Request /\ Asked(next, Redirects[r.answer], jar', Blank)
        /\ next.hops = IF r.answer \notin {"toLogin", "toAdmin"} THEN 0
                       ELSE IF r.hops < 3 THEN r.hops + 1 ELSE 3
  <2> SUFFICES ASSUME Moves(t)
               PROVE  /\ next \in Request /\ Asked(next, Redirects[r.answer], jar', Blank)
                      /\ next.hops = IF r.answer \notin {"toLogin", "toAdmin"} THEN 0
                                     ELSE IF r.hops < 3 THEN r.hops + 1 ELSE 3
    OBVIOUS
  <2> DEFINE asking == Asking(Redirects[r.answer], jar', Blank)
             n == IF r.hops < 3 THEN r.hops + 1 ELSE 3
  <2>1. Redirects[r.answer] \in Kinds
    BY RedirectsAre DEF Moves, Kinds
  <2>2. asking \in Request /\ Asked(asking, Redirects[r.answer], jar', Blank) /\ asking.hops = 0
    BY <1>2, <2>1, AskingIs, BlankIs
  <2>3. n \in 0 .. 3
    BY <1>1 DEF Request
  <2>4. next = IF r.answer \in {"toLogin", "toAdmin"} THEN [asking EXCEPT !.hops = n] ELSE asking
    BY DEF Following
  <2> HIDE DEF asking, n
  <2>5. LET q == [asking EXCEPT !.hops = n] IN
          q \in Request /\ Asked(q, Redirects[r.answer], jar', Blank) /\ q.hops = n
    BY <2>2, <2>3 DEF Request, Asked
  <2>6. QED
    BY <2>2, <2>4, <2>5 DEF n
<1>10. ~ Moves(t) => next \in Request /\ Idle(next)
  BY BlankIs
<1> HIDE DEF then, next
<1>11. /\ request' \in [Tabs -> Request] /\ request'[t] = next
       /\ \A u \in Tabs : u # t => request'[u] = then[u]
  BY <1>6, <1>8, <1>9, <1>10
<1>12. Moves(t) =>
         /\ Asked(request'[t], Redirects[r.answer], jar', Blank)
         /\ request'[t].hops = IF r.answer \notin {"toLogin", "toAdmin"} THEN 0
                               ELSE IF r.hops < 3 THEN r.hops + 1 ELSE 3
  BY <1>9, <1>11
<1>13. ~ Moves(t) => Idle(request'[t])
  BY <1>10, <1>11
<1>14. \A u \in Tabs : u # t =>
         /\ Kept(request'[u], request[u]) /\ request'[u].alone = request[u].alone
         /\ request'[u].hops = IF jar'.session = jar.session THEN request[u].hops ELSE 0
         /\ request'[u].shaken = IF t \in racing THEN Shaken(request[u]).shaken
                                                 ELSE request[u].shaken
  BY <1>8, <1>11
<1>15. QED
  BY <1>2, <1>4, <1>5, <1>11, <1>12, <1>13, <1>14

---------------------------------------------------------------------------
(* Types, stages and forms.                                                *)
CoreInv == TypeOK /\ StagesInv /\ FormsInv

LEMMA CoreIsSound == ASSUME CoreInv, NEW t \in Tabs PROVE Sound(t)
BY DEF CoreInv, StagesInv, FormsInv, Sound

LEMMA CoreByHandle ==
  ASSUME CoreInv, NEW t \in Tabs, Handle(t) PROVE CoreInv'
<1>1. ServerStep(t)
  BY CoreIsSound, EveryHandlerServes
<1>2. open' \subseteq Sessions /\ troubled' \in BOOLEAN
  BY DEF CoreInv, TypeOK, Handle, ShowLogin, Dashboard, Write, EnterLogout, Logout, EnterLogin,
         RevokeAll, CreateSession, AnswerLogin, Fail
<1>3. TypeOK'
  BY <1>1, <1>2 DEF CoreInv, TypeOK, ServerStep
<1>4. ASSUME NEW u \in Tabs PROVE Stage(request'[u]) /\ Paired(request'[u])
  <2>1. CASE u = t
    BY <1>1, <2>1 DEF ServerStep, Served
  <2>2. CASE u # t
    BY <1>1, <2>2, AlikeIsKept, KeptIsSound DEF ServerStep, CoreInv, StagesInv, FormsInv
  <2>3. QED
    BY <2>1, <2>2
<1>5. StagesInv'
  BY <1>4 DEF StagesInv
<1>6. FormsInv'
  BY <1>1, <1>4 DEF ServerStep, CoreInv, FormsInv
<1>7. QED
  BY <1>3, <1>5, <1>6 DEF CoreInv

LEMMA CoreBySend ==
  ASSUME CoreInv, NEW t \in Tabs, NEW to \in Kinds, Send(t, to) PROVE CoreInv'
<1> DEFINE form == IF to \in Submits THEN page[t] ELSE Blank
<1>1. TypeOK /\ StagesInv /\ FormsInv
  BY DEF CoreInv
<1>2. /\ request' \in [Tabs -> Request] /\ page' \in [Tabs -> Page] /\ racing' \subseteq Tabs
      /\ troubled' \in BOOLEAN /\ UNCHANGED <<open, jar>>
      /\ Asked(request'[t], to, jar, form) /\ page'[t] = Blank
      /\ \A u \in Tabs : u # t => Kept(request'[u], request[u]) /\ page'[u] = page[u]
  <2>1. UNCHANGED <<open, jar>>
    BY DEF Send
  <2>2. QED
    BY <1>1, <2>1, SendIs
<1>3. TypeOK'
  BY <1>1, <1>2 DEF TypeOK
<1>4. to \in {"write", "submitLogout"} => form.token = form.under
  BY <1>1 DEF Send, Submits, FormsInv, FormSound
<1> HIDE DEF form
<1>5. ASSUME NEW u \in Tabs
      PROVE  Stage(request'[u]) /\ Paired(request'[u]) /\ FormSound(page'[u])
  <2>1. CASE u = t
    BY <1>1, <1>2, <1>4, <2>1, AskedIsSound DEF FormsInv, FormSound, Blank
  <2>2. CASE u # t
    BY <1>1, <1>2, <2>2, KeptIsSound DEF StagesInv, FormsInv
  <2>3. QED
    BY <2>1, <2>2
<1>6. StagesInv' /\ FormsInv'
  BY <1>1, <1>2, <1>5 DEF StagesInv, FormsInv
<1>7. QED
  BY <1>3, <1>6 DEF CoreInv

LEMMA CoreByDeliver ==
  ASSUME CoreInv, NEW t \in Tabs, Deliver(t) PROVE CoreInv'
<1> DEFINE r == request[t]
<1>1. TypeOK /\ StagesInv /\ FormsInv
  BY DEF CoreInv
<1>2. /\ jar' = SetCookies(t) /\ jar' \in Jar
      /\ page' \in [Tabs -> Page] /\ racing' \subseteq Tabs
      /\ request' \in [Tabs -> Request] /\ troubled' \in BOOLEAN /\ open' = open
  BY <1>1, DeliverIs DEF Deliver
<1>3. /\ Moves(t) => page'[t] = Blank /\ Asked(request'[t], Redirects[r.answer], jar', Blank)
      /\ ~ Moves(t) => page'[t] = Shown(t) /\ Idle(request'[t])
  BY <1>1, DeliverIs
<1>4. \A u \in Tabs : u # t =>
        /\ page'[u] = IF t \in racing THEN Shake(page[u]) ELSE page[u]
        /\ Kept(request'[u], request[u])
  BY <1>1, DeliverIs
<1>5. TypeOK'
  BY <1>1, <1>2 DEF TypeOK
<1>6. jar'.csrf = jar'.session
  BY <1>1, <1>2, SetCookiesIs DEF FormsInv
<1>7. Stage(request'[t]) /\ Paired(request'[t]) /\ FormSound(page'[t])
  <2>1. CASE Moves(t)
    <3>1. Redirects[r.answer] \in Kinds /\ Redirects[r.answer] \notin {"write", "submitLogout"}
      BY <2>1, RedirectsAre DEF Moves, Kinds
    <3>2. QED
      BY <1>3, <1>6, <2>1, <3>1, AskedIsSound DEF FormSound, Blank
  <2>2. CASE ~ Moves(t)
    <3>1. r.cookies.csrf = r.cookies.session
      BY <1>1 DEF FormsInv, Paired
    <3>2. FormSound(Shown(t))
      BY <1>1, <3>1, ShownIs DEF FormSound, Blank
    <3>3. QED
      BY <1>3, <2>2, <3>2, IdleIsSound
  <2>3. QED
    BY <2>1, <2>2
<1>8. ASSUME NEW u \in Tabs, u # t
      PROVE  Stage(request'[u]) /\ Paired(request'[u]) /\ FormSound(page'[u])
  <2>1. page[u] \in Page /\ FormSound(page[u]) /\ Stage(request[u]) /\ Paired(request[u])
    BY <1>1 DEF TypeOK, StagesInv, FormsInv
  <2>2. FormSound(page'[u])
    BY <1>4, <1>8, <2>1, ShakingIs DEF FormSound
  <2>3. QED
    BY <1>4, <1>8, <2>1, <2>2, KeptIsSound
<1>9. StagesInv' /\ FormsInv'
  BY <1>6, <1>7, <1>8 DEF StagesInv, FormsInv
<1>10. QED
  BY <1>5, <1>9 DEF CoreInv

LEMMA CoreByLose ==
  ASSUME CoreInv, NEW t \in Tabs, Lose(t) PROVE CoreInv'
<1>1. TypeOK /\ StagesInv /\ FormsInv
  BY DEF CoreInv
<1>2. /\ request' \in [Tabs -> Request] /\ request'[t] = Nothing
      /\ \A u \in Tabs : u # t => request'[u] = request[u]
  BY <1>1, BlankIs DEF Lose, TypeOK
<1>3. TypeOK'
  BY <1>1, <1>2 DEF Lose, TypeOK
<1>4. \A u \in Tabs : Stage(request'[u]) /\ Paired(request'[u])
  BY <1>1, <1>2, IdleIsSound, BlankIs DEF StagesInv, FormsInv
<1>5. StagesInv' /\ FormsInv'
  BY <1>1, <1>4 DEF StagesInv, FormsInv, Lose
<1>6. QED
  BY <1>3, <1>5 DEF CoreInv

LEMMA CoreByEnding ==
  ASSUME CoreInv, request' = Unsettled(request), UNCHANGED <<page, racing, troubled>>,
         open' \subseteq Sessions, jar' \in Jar, jar'.csrf = jar'.session
  PROVE  CoreInv'
<1>1. TypeOK /\ StagesInv /\ FormsInv
  BY DEF CoreInv
<1>2. /\ request' \in [Tabs -> Request]
      /\ \A u \in Tabs : Alike(request'[u], request[u])
  BY <1>1, UnsettledIs DEF TypeOK
<1>3. TypeOK'
  BY <1>1, <1>2 DEF TypeOK
<1>4. \A u \in Tabs : Stage(request'[u]) /\ Paired(request'[u])
  BY <1>1, <1>2, AlikeIsKept, KeptIsSound DEF StagesInv, FormsInv
<1>5. StagesInv' /\ FormsInv'
  BY <1>1, <1>4 DEF StagesInv, FormsInv
<1>6. QED
  BY <1>3, <1>5 DEF CoreInv

LEMMA CoreByExpiry ==
  ASSUME CoreInv, PublicCookieExpires PROVE CoreInv'
<1>1. TypeOK /\ StagesInv /\ FormsInv
  BY DEF CoreInv
<1>2. /\ request' \in [Tabs -> Request] /\ page' \in [Tabs -> Page]
      /\ \A u \in Tabs : Kept(request'[u], request[u]) /\ page'[u] = Shake(page[u])
  BY <1>1, ShakingIs DEF TypeOK, PublicCookieExpires
<1>3. jar' \in Jar /\ jar'.csrf = jar.csrf /\ jar'.session = jar.session
  BY <1>1 DEF TypeOK, Jar, PublicCookieExpires
<1>4. TypeOK'
  BY <1>1, <1>2, <1>3 DEF TypeOK, PublicCookieExpires
<1>5. ASSUME NEW u \in Tabs
      PROVE  Stage(request'[u]) /\ Paired(request'[u]) /\ FormSound(page'[u])
  <2>1. page[u] \in Page /\ FormSound(page[u]) /\ Stage(request[u]) /\ Paired(request[u])
    BY <1>1 DEF TypeOK, StagesInv, FormsInv
  <2>2. FormSound(page'[u])
    BY <1>2, <2>1, ShakingIs DEF FormSound
  <2>3. QED
    BY <1>2, <2>1, <2>2, KeptIsSound
<1>6. StagesInv' /\ FormsInv'
  BY <1>1, <1>3, <1>5 DEF StagesInv, FormsInv
<1>7. QED
  BY <1>4, <1>6 DEF CoreInv

LEMMA CoreAtFirst == Init => CoreInv
<1> SUFFICES ASSUME Init PROVE CoreInv
  OBVIOUS
<1>1. TypeOK
  BY BlankIs DEF Init, TypeOK
<1>2. \A t \in Tabs : Idle(request[t]) /\ page[t] = Blank
  BY BlankIs DEF Init
<1>3. StagesInv /\ FormsInv
  BY <1>2, IdleIsSound DEF Init, StagesInv, FormsInv, FormSound, Blank, NoCookies
<1>4. QED
  BY <1>1, <1>3 DEF CoreInv

LEMMA CoreStays == CoreInv /\ [Next]_vars => CoreInv'
<1> SUFFICES ASSUME CoreInv, [Next]_vars PROVE CoreInv'
  OBVIOUS
<1>1. TypeOK /\ FormsInv
  BY DEF CoreInv
<1>2. ASSUME NEW t \in Tabs, NEW to \in Kinds, Send(t, to) PROVE CoreInv'
  BY <1>2, CoreBySend
<1>3. ASSUME NEW t \in Tabs, Handle(t) PROVE CoreInv'
  BY <1>3, CoreByHandle
<1>4. ASSUME NEW t \in Tabs, Deliver(t) PROVE CoreInv'
  BY <1>4, CoreByDeliver
<1>5. ASSUME NEW t \in Tabs, Lose(t) PROVE CoreInv'
  BY <1>5, CoreByLose
<1>6. ASSUME NEW s \in Sessions, Close(s) PROVE CoreInv'
  BY <1>1, <1>6, CoreByEnding DEF Close, TypeOK, FormsInv
<1>7. CASE AdminCookiesExpire
  <2>1. jar' \in Jar /\ jar'.csrf = jar'.session
    BY <1>1, <1>7 DEF AdminCookiesExpire, TypeOK, Jar
  <2>2. QED
    BY <1>1, <1>7, <2>1, CoreByEnding DEF AdminCookiesExpire, TypeOK
<1>8. CASE PublicCookieExpires
  BY <1>8, CoreByExpiry
<1>9. CASE UNCHANGED vars
  BY <1>9 DEF vars, CoreInv, TypeOK, StagesInv, FormsInv
<1>10. QED
  BY <1>2, <1>3, <1>4, <1>5, <1>6, <1>7, <1>8, <1>9 DEF Next

(* Types hold.                                                             *)
THEOREM TypeCorrect == Spec => []TypeOK
<1>1. CoreInv => TypeOK
  BY DEF CoreInv
<1>2. QED
  BY <1>1, CoreAtFirst, CoreStays, PTL DEF Spec

(* With however many tabs logging in and out, writing and loading pages at *)
(* once, a write or a logout is carried out only for a form the session    *)
(* itself was shown.                                                       *)
THEOREM WritesComeFromOwnForms == Spec => []WritesFromOwnForms
<1>1. CoreInv => WritesFromOwnForms
  BY DEF CoreInv, FormsInv, Paired, WritesFromOwnForms
<1>2. QED
  BY <1>1, CoreAtFirst, CoreStays, PTL DEF Spec

(* A form that the session it was rendered for submits is never refused    *)
(* for its token.                                                          *)
THEOREM OwnFormsAreAccepted == Spec => []OwnFormsPass
<1>1. CoreInv => OwnFormsPass
  BY DEF CoreInv, FormsInv, Paired, OwnFormsPass
<1>2. QED
  BY <1>1, CoreAtFirst, CoreStays, PTL DEF Spec

---------------------------------------------------------------------------
(* Redirections.                                                           *)
LEMMA SettledIsKept ==
  ASSUME NEW u \in Tabs, Settled(request[u]), UNCHANGED open, jar'.session = jar.session,
         Kept(request'[u], request[u]), request'[u].hops \in {0, request[u].hops}
  PROVE  Settled(request[u])'
BY DEF Settled, Kept

LEMMA SettledAtRest ==
  ASSUME NEW u \in Tabs, request'[u].hops = 0 PROVE Settled(request[u])'
BY DEF Settled

LEMMA SettledByHandle ==
  ASSUME CoreInv, SettledInv, NEW t \in Tabs, Handle(t) PROVE SettledInv'
<1>1. ServerStep(t)
  BY CoreIsSound, EveryHandlerServes
<1>2. SUFFICES ASSUME NEW u \in Tabs PROVE Settled(request[u])'
  BY DEF SettledInv
<1>3. CASE request'[u].hops = 0
  BY <1>3, SettledAtRest
<1>4. CASE request'[u].hops # 0 /\ u # t
  BY <1>1, <1>4, AlikeIsKept, SettledIsKept DEF ServerStep, SettledInv
<1>5. CASE request'[u].hops # 0 /\ u = t
  <2>1. /\ open' = open /\ jar' = jar /\ Served(request'[t], request[t])
        /\ request'[t].hops = request[t].hops /\ request[t].hops \in Nat
    BY <1>1, <1>5 DEF ServerStep, Served, CoreInv, TypeOK, Request
  <2>2. Settled(request[t])
    BY DEF SettledInv
  <2>3. QED
    BY <1>5, <2>1, <2>2 DEF Served, Carried, Settled
<1>6. QED
  BY <1>3, <1>4, <1>5

LEMMA SettledByDeliver ==
  ASSUME CoreInv, SettledInv, NEW t \in Tabs, Deliver(t) PROVE SettledInv'
<1> DEFINE r == request[t]
<1>1. TypeOK /\ Stage(r) /\ Settled(r) /\ open' = open
  BY DEF CoreInv, StagesInv, SettledInv, Deliver
<1>2. SUFFICES ASSUME NEW u \in Tabs PROVE Settled(request[u])'
  BY DEF SettledInv
<1>3. CASE u # t
  <2>1. /\ Kept(request'[u], request[u])
        /\ request'[u].hops = IF jar'.session = jar.session THEN request[u].hops ELSE 0
    BY <1>1, <1>3, DeliverIs
  <2>2. CASE jar'.session = jar.session
    BY <1>1, <2>1, <2>2, SettledIsKept DEF SettledInv
  <2>3. CASE jar'.session # jar.session
    BY <2>1, <2>3, SettledAtRest
  <2>4. QED
    BY <2>2, <2>3
<1>4. CASE u = t /\ r.answer \in {"toLogin", "toAdmin"}
  <2>1. Moves(t)
    BY <1>4, RedirectsAre DEF Moves
  <2>2. /\ Asked(request'[t], Redirects[r.answer], jar', Blank)
        /\ request'[t].hops = IF r.hops < 3 THEN r.hops + 1 ELSE 3
    BY <1>1, <1>4, <2>1, DeliverIs
  <2>3. jar'.session = jar.session
    BY <1>1, <1>4, DeliverIs, SetCookiesIs
  <2>4. /\ Redirects[r.answer] \in {"showLogin", "dashboard"}
        /\ Redirects[r.answer] = "dashboard" <=> r.answer = "toAdmin"
    BY <1>4, RedirectsAre
  <2>5. r.hops \in 0 .. 1
    <3>1. r.hops \in 0 .. 3
      BY <1>1 DEF TypeOK, Request
    <3>2. r.hops # 2
      BY <1>1, <1>4 DEF Stage, Settled
    <3>3. QED
      BY <1>1, <3>1, <3>2 DEF Settled
  <2>6. r.hops = 1 => (r.answer = "toAdmin" <=> jar.session \in open)
    BY <1>1, <1>4 DEF Settled
  <2>7. QED
    BY <1>1, <1>4, <2>2, <2>3, <2>4, <2>5, <2>6 DEF Settled, Asked
<1>5. CASE u = t /\ r.answer \notin {"toLogin", "toAdmin"}
  <2>1. request'[t].hops = 0
    BY <1>1, <1>5, DeliverIs DEF Idle
  <2>2. QED
    BY <1>5, <2>1, SettledAtRest
<1>6. QED
  BY <1>3, <1>4, <1>5

LEMMA SettledStays == CoreInv /\ SettledInv /\ [Next]_vars => SettledInv'
<1> SUFFICES ASSUME CoreInv, SettledInv, [Next]_vars PROVE SettledInv'
  OBVIOUS
<1>1. TypeOK
  BY DEF CoreInv
<1>2. ASSUME NEW t \in Tabs, NEW to \in Kinds, Send(t, to) PROVE SettledInv'
  <2>1. UNCHANGED <<open, jar>>
    BY <1>2 DEF Send
  <2>2. /\ request'[t].hops = 0
        /\ \A u \in Tabs : u # t => /\ Kept(request'[u], request[u])
                                    /\ request'[u].hops = request[u].hops
    BY <1>1, <1>2, SendIs
  <2>3. QED
    BY <2>1, <2>2, SettledIsKept, SettledAtRest DEF SettledInv
<1>3. ASSUME NEW t \in Tabs, Handle(t) PROVE SettledInv'
  BY <1>3, SettledByHandle
<1>4. ASSUME NEW t \in Tabs, Deliver(t) PROVE SettledInv'
  BY <1>4, SettledByDeliver
<1>5. ASSUME NEW t \in Tabs, Lose(t) PROVE SettledInv'
  <2>1. /\ UNCHANGED <<open, jar>>
        /\ request'[t].hops = 0
        /\ \A u \in Tabs : u # t => request'[u] = request[u]
    BY <1>1, <1>5, BlankIs DEF Lose, TypeOK, Idle
  <2>2. QED
    BY <2>1, SettledAtRest DEF SettledInv, Settled
<1>6. ASSUME request' = Unsettled(request) PROVE SettledInv'
  <2>1. \A u \in Tabs : request'[u].hops = 0
    BY <1>1, <1>6, UnsettledIs DEF TypeOK
  <2>2. QED
    BY <2>1, SettledAtRest DEF SettledInv
<1>7. CASE PublicCookieExpires
  <2>1. open' = open /\ jar'.session = jar.session
    BY <1>1, <1>7 DEF PublicCookieExpires, TypeOK, Jar
  <2>2. \A u \in Tabs : Kept(request'[u], request[u]) /\ request'[u].hops = request[u].hops
    BY <1>1, <1>7, ShakingIs DEF PublicCookieExpires, TypeOK
  <2>3. QED
    BY <2>1, <2>2, SettledIsKept DEF SettledInv
<1>8. CASE UNCHANGED vars
  BY <1>8 DEF vars, SettledInv, Settled
<1>9. QED
  BY <1>2, <1>3, <1>4, <1>5, <1>6, <1>7, <1>8 DEF Next, Close, AdminCookiesExpire

(* However sessions come and go, no request is redirected between login    *)
(* form and admin pages more than twice in a row without one having come   *)
(* or gone.                                                                *)
THEOREM RedirectionsSettle == Spec => []RedirectsSettle
<1>1. Init => CoreInv /\ SettledInv
  <2>1. Init => SettledInv
    BY DEF Init, SettledInv, Settled, Nothing
  <2>2. QED
    BY <2>1, CoreAtFirst
<1>2. CoreInv /\ SettledInv /\ [Next]_vars => (CoreInv /\ SettledInv)'
  BY CoreStays, SettledStays
<1>3. CoreInv /\ SettledInv => RedirectsSettle
  <2> SUFFICES ASSUME CoreInv, SettledInv, NEW t \in Tabs PROVE request[t].hops <= 2
    BY DEF RedirectsSettle
  <2>1. request[t].hops \in 0 .. 3
    BY DEF CoreInv, TypeOK, Request
  <2>2. QED
    BY <2>1 DEF SettledInv, Settled
<1>4. QED
  BY <1>1, <1>2, <1>3, PTL DEF Spec

---------------------------------------------------------------------------
(* The public token.                                                       *)
LEMMA CookielessIs ==
  \A u \in Tabs : u \in Cookieless' <=>
    request'[u].pc # "none" /\ request'[u].cookies.public = None
BY DEF Cookieless, Waiting

LEMMA SureIsKept ==
  ASSUME NEW u \in Tabs, Sure(request[u]), Kept(request'[u], request[u]),
         jar'.public = jar.public, request[u].shaken => request'[u].shaken
  PROVE  Sure(request[u])'
BY DEF Sure, Kept

LEMMA SureWhenShaken ==
  ASSUME NEW u \in Tabs, Sure(request[u]), Kept(request'[u], request[u]),
         request[u].pc # "none" /\ request[u].to \in {"showLogin", "submitLogin"} =>
           request'[u].shaken
  PROVE  Sure(request[u])'
BY DEF Sure, Kept

LEMMA PageSureIsKept ==
  ASSUME NEW u \in Tabs, page[u] \in Page, PageSure(page[u]), jar'.public = jar.public,
         page'[u] \in {page[u], Shake(page[u])}
  PROVE  PageSure(page[u])'
<1>1. /\ page'[u].kind = page[u].kind /\ page'[u].token = page[u].token
      /\ page[u].shaken => page'[u].shaken
  BY ShakingIs
<1>2. QED
  BY <1>1 DEF PageSure

LEMMA PageSureWhenShaken ==
  ASSUME NEW u \in Tabs, page[u] \in Page, page'[u] = Shake(page[u])
  PROVE  PageSure(page[u])'
<1>1. page'[u].kind = "login" => page'[u].shaken
  BY ShakingIs
<1>2. QED
  BY <1>1 DEF PageSure

LEMMA TokensByHandle ==
  ASSUME CoreInv, TokensInv, NEW t \in Tabs, Handle(t) PROVE TokensInv'
<1>1. ServerStep(t)
  BY CoreIsSound, EveryHandlerServes
<1>2. UNCHANGED <<jar, page, racing>>
  BY <1>1 DEF ServerStep
<1>3. ASSUME NEW u \in Tabs PROVE Sure(request[u])'
  <2>1. CASE u # t
    <3>1. Kept(request'[u], request[u]) /\ request'[u].shaken = request[u].shaken
      BY <1>1, <2>1, AlikeIsKept DEF ServerStep, Alike, Carried
    <3>2. QED
      BY <1>2, <3>1, SureIsKept DEF TokensInv
  <2>2. CASE u = t
    <3>1. Sure(request[t]) /\ Served(request'[t], request[t])
      BY <1>1 DEF TokensInv, ServerStep
    <3>2. QED
      BY <1>2, <2>2, <3>1 DEF Sure, Served, Carried
  <2>3. QED
    BY <2>1, <2>2
<1>4. Cookieless' = Cookieless
  <2>1. \A u \in Tabs : u \in Cookieless' <=> u \in Cookieless
    BY <1>1, CookielessIs DEF ServerStep, Served, Alike, Carried, Cookieless, Waiting
  <2>2. QED
    BY <2>1 DEF Cookieless
<1>5. QED
  BY <1>2, <1>3, <1>4 DEF TokensInv, PageSure, AloneWithout

LEMMA TokensBySend ==
  ASSUME CoreInv, TokensInv, NEW t \in Tabs, NEW to \in Kinds, Send(t, to) PROVE TokensInv'
<1> DEFINE form == IF to \in Submits THEN page[t] ELSE Blank
<1>1. TypeOK /\ UNCHANGED <<open, jar>> /\ request[t].pc = "none"
  BY DEF CoreInv, Send, Waiting
<1>2. /\ Asked(request'[t], to, jar, form) /\ page'[t] = Blank
      /\ \A u \in Tabs : u # t => /\ Kept(request'[u], request[u]) /\ page'[u] = page[u]
                                  /\ request'[u].shaken = request[u].shaken
  BY <1>1, SendIs
<1>3. to = "submitLogin" /\ ~ form.shaken => form.token = jar.public /\ form.token # None
  BY DEF Send, Submits, TokensInv, PageSure
<1> HIDE DEF form
<1>4. \A u \in Tabs : PageSure(page[u])'
  BY <1>1, <1>2 DEF TokensInv, PageSure, Blank
<1>5. ASSUME NEW u \in Tabs PROVE Sure(request[u])'
  <2>1. CASE u # t
    BY <1>1, <1>2, <2>1, SureIsKept DEF TokensInv
  <2>2. CASE u = t
    BY <1>1, <1>2, <1>3, <2>2 DEF Sure, Asked
  <2>3. QED
    BY <2>1, <2>2
<1>6. \A u \in Tabs : u \in Cookieless' <=> u \in Cookieless \/ (u = t /\ jar.public = None)
  BY <1>1, <1>2, CookielessIs DEF Cookieless, Waiting, Kept, Asked
<1>7. t \notin Cookieless
  BY <1>1 DEF Cookieless, Waiting
<1>8. racing' = racing \cup Rivals(t, jar)
  BY DEF Send
<1>9. ASSUME NEW u \in Tabs, u \in Cookieless' \ racing'
      PROVE  jar'.public = None /\ Cookieless' = {u}
  <2>1. CASE jar.public # None
    BY <1>6, <1>8, <1>9, <2>1 DEF TokensInv, AloneWithout
  <2>2. CASE jar.public = None /\ Cookieless = {}
    <3>1. \A v \in Tabs : v \in Cookieless' <=> v = t
      BY <1>6, <2>2
    <3>2. Cookieless' \subseteq Tabs
      BY DEF Cookieless
    <3>3. QED
      BY <1>1, <1>9, <2>2, <3>1, <3>2
  <2>3. CASE jar.public = None /\ Cookieless # {}
    BY <1>6, <1>7, <1>8, <1>9, <2>3 DEF Rivals
  <2>4. QED
    BY <2>1, <2>2, <2>3
<1>10. \A u \in Tabs : AloneWithout(u)'
  BY <1>9 DEF AloneWithout
<1>11. QED
  BY <1>4, <1>5, <1>10 DEF TokensInv

(* An answer without a token leaves the browser's as it is.                *)
LEMMA TokensByPlainAnswer ==
  ASSUME CoreInv, TokensInv, NEW t \in Tabs, Deliver(t), t \notin Cookieless PROVE TokensInv'
<1> DEFINE r == request[t]
<1>1. TypeOK /\ Stage(r) /\ Sure(r) /\ r.pc = "answered"
  BY DEF CoreInv, StagesInv, TokensInv, Deliver
<1>2. r.cookies.public # None /\ r.public = None
  BY <1>1 DEF Cookieless, Waiting, Stage
<1>3. jar' = SetCookies(t) /\ jar'.public = jar.public
  BY <1>1, <1>2, DeliverIs, SetCookiesIs
<1>4. \A u \in Tabs : u # t =>
        /\ Kept(request'[u], request[u])
        /\ request'[u].shaken = IF t \in racing THEN Shaken(request[u]).shaken
                                                ELSE request[u].shaken
        /\ page'[u] = IF t \in racing THEN Shake(page[u]) ELSE page[u]
  BY <1>1, DeliverIs
<1>5. /\ Moves(t) => page'[t] = Blank /\ Asked(request'[t], Redirects[r.answer], jar', Blank)
      /\ ~ Moves(t) => page'[t] = Shown(t) /\ Idle(request'[t])
  BY <1>1, DeliverIs
<1>6. ASSUME NEW u \in Tabs, u # t PROVE PageSure(page[u])' /\ Sure(request[u])'
  <2>1. page[u] \in Page /\ PageSure(page[u]) /\ request[u] \in Request /\ Sure(request[u])
    BY DEF CoreInv, TypeOK, TokensInv
  <2>2. PageSure(page[u])'
    BY <1>3, <1>4, <1>6, <2>1, PageSureIsKept
  <2>3. request[u].shaken => request'[u].shaken
    BY <1>4, <1>6, <2>1, ShakingIs
  <2>4. QED
    BY <1>3, <1>4, <1>6, <2>1, <2>2, <2>3, SureIsKept
<1>7. PageSure(page[t])'
  <2>1. CASE r.answer = "login" /\ ~ Moves(t)
    BY <1>1, <1>2, <1>3, <1>5, <2>1, ShownIs DEF PageSure, Sure, Stage
  <2>2. CASE ~ (r.answer = "login" /\ ~ Moves(t))
    <3>1. page'[t].kind # "login"
      BY <1>1, <1>5, <2>2, ShownIs DEF Blank
    <3>2. QED
      BY <3>1 DEF PageSure
  <2>3. QED
    BY <2>1, <2>2
<1>8. Moves(t) => Redirects[r.answer] \in {"showLogin", "dashboard"}
  BY RedirectsAre DEF Moves
<1>9. Sure(request[t])'
  BY <1>5, <1>8 DEF Sure, Asked, Idle, NoCookies, Blank
<1>10. \A u \in Tabs : u # t => (u \in Cookieless' <=> u \in Cookieless)
  BY <1>4, CookielessIs DEF Kept, Cookieless, Waiting
<1>11. t \in Cookieless' <=> Moves(t) /\ jar.public = None
  BY <1>3, <1>5, CookielessIs DEF Asked, Idle
<1>12. racing' = (racing \ {t}) \cup (IF Moves(t) THEN Rivals(t, jar') ELSE {})
  BY DEF Deliver, Moves
<1>13. Cookieless \subseteq Tabs /\ Cookieless' \subseteq Tabs
  BY DEF Cookieless
<1>14. ASSUME NEW u \in Tabs, u \in Cookieless' \ racing'
       PROVE  jar'.public = None /\ Cookieless' = {u}
  <2>1. CASE Moves(t) /\ jar.public = None
    <3>1. Cookieless = {}
      BY <1>3, <1>10, <1>12, <1>14, <2>1 DEF Rivals
    <3>2. QED
      BY <1>3, <1>10, <1>11, <1>13, <1>14, <2>1, <3>1
  <2>2. CASE ~ (Moves(t) /\ jar.public = None)
    <3>1. u \in Cookieless \ racing /\ Cookieless' = Cookieless
      BY <1>10, <1>11, <1>12, <1>13, <1>14, <2>2
    <3>2. QED
      BY <1>3, <3>1 DEF TokensInv, AloneWithout
  <2>3. QED
    BY <2>1, <2>2
<1>15. \A u \in Tabs : AloneWithout(u)'
  BY <1>14 DEF AloneWithout
<1>16. QED
  BY <1>6, <1>7, <1>9, <1>15 DEF TokensInv

(* An answer with a token changes the browser's: nobody else is sure of    *)
(* his any more, or there is nobody else.                                  *)
LEMMA TokensByNewToken ==
  ASSUME CoreInv, TokensInv, NEW t \in Tabs, Deliver(t), t \in Cookieless PROVE TokensInv'
<1> DEFINE r == request[t]
<1>1. TypeOK /\ Stage(r) /\ AloneWithout(t) /\ r.pc = "answered"
  BY DEF CoreInv, StagesInv, TokensInv, Deliver
<1>2. r.cookies.public = None /\ r.public # None
  BY <1>1 DEF Cookieless, Stage
<1>3. jar' = SetCookies(t) /\ jar'.public = r.public
  BY <1>1, <1>2, DeliverIs, SetCookiesIs
<1>4. \A u \in Tabs : u # t =>
        /\ Kept(request'[u], request[u])
        /\ request'[u].shaken = IF t \in racing THEN Shaken(request[u]).shaken
                                                ELSE request[u].shaken
        /\ page'[u] = IF t \in racing THEN Shake(page[u]) ELSE page[u]
  BY <1>1, DeliverIs
<1>5. /\ Moves(t) => page'[t] = Blank /\ Asked(request'[t], Redirects[r.answer], jar', Blank)
      /\ ~ Moves(t) => page'[t] = Shown(t) /\ Idle(request'[t])
  BY <1>1, DeliverIs
<1>6. ASSUME NEW u \in Tabs, u # t PROVE PageSure(page[u])' /\ Sure(request[u])'
  <2>1. page[u] \in Page /\ PageSure(page[u]) /\ request[u] \in Request /\ Sure(request[u])
    BY DEF CoreInv, TypeOK, TokensInv
  <2>2. CASE t \in racing
    <3>1. PageSure(page[u])'
      BY <1>4, <1>6, <2>1, <2>2, PageSureWhenShaken
    <3>2. request[u].pc # "none" /\ request[u].to \in {"showLogin", "submitLogin"} =>
            request'[u].shaken
      BY <1>4, <1>6, <2>1, <2>2, ShakingIs
    <3>3. QED
      BY <1>4, <1>6, <2>1, <3>1, <3>2, SureWhenShaken
  <2>3. CASE t \notin racing
    <3>1. jar.public = None /\ Cookieless = {t}
      BY <1>1, <2>3 DEF AloneWithout
    <3>2. PageSure(page[u])'
      BY <1>4, <1>6, <2>1, <2>3, <3>1 DEF PageSure
    <3>3. request[u].pc # "none" => request[u].cookies.public # None
      BY <1>6, <3>1 DEF Cookieless, Waiting
    <3>4. request[u].pc # "none" /\ request[u].to \in {"showLogin", "submitLogin"} =>
            request'[u].shaken
      BY <1>4, <1>6, <2>1, <2>3, <3>1, <3>3 DEF Sure
    <3>5. QED
      BY <1>4, <1>6, <2>1, <3>2, <3>4, SureWhenShaken
  <2>4. QED
    BY <2>2, <2>3
<1>7. PageSure(page[t])'
  <2>1. CASE r.answer = "login" /\ ~ Moves(t)
    BY <1>1, <1>2, <1>3, <1>5, <2>1, ShownIs DEF PageSure
  <2>2. CASE ~ (r.answer = "login" /\ ~ Moves(t))
    <3>1. page'[t].kind # "login"
      BY <1>1, <1>5, <2>2, ShownIs DEF Blank
    <3>2. QED
      BY <3>1 DEF PageSure
  <2>3. QED
    BY <2>1, <2>2
<1>8. Moves(t) => Redirects[r.answer] \in {"showLogin", "dashboard"}
  BY RedirectsAre DEF Moves
<1>9. Sure(request[t])'
  BY <1>5, <1>8 DEF Sure, Asked, Idle, NoCookies, Blank
<1>10. \A u \in Tabs : u \in Cookieless' <=> u \in Cookieless /\ u # t
  <2>1. \A u \in Tabs : u # t => (u \in Cookieless' <=> u \in Cookieless)
    BY <1>4, CookielessIs DEF Kept, Cookieless, Waiting
  <2>2. t \notin Cookieless'
    BY <1>2, <1>3, <1>5, CookielessIs DEF Asked, Idle
  <2>3. QED
    BY <2>1, <2>2
<1>11. racing' = racing \ {t}
  <2>1. racing' = (racing \ {t}) \cup (IF Moves(t) THEN Rivals(t, jar') ELSE {})
    BY DEF Deliver, Moves
  <2>2. Rivals(t, jar') = {}
    BY <1>2, <1>3 DEF Rivals
  <2>3. QED
    BY <2>1, <2>2
<1>12. \A u \in Tabs : u \notin Cookieless' \ racing'
  BY <1>10, <1>11 DEF TokensInv, AloneWithout
<1>13. \A u \in Tabs : AloneWithout(u)'
  BY <1>12 DEF AloneWithout
<1>14. QED
  BY <1>6, <1>7, <1>9, <1>13 DEF TokensInv

LEMMA TokensByLose ==
  ASSUME CoreInv, TokensInv, NEW t \in Tabs, Lose(t) PROVE TokensInv'
<1>1. /\ Idle(request'[t]) /\ UNCHANGED <<jar, page>> /\ racing' = racing \ {t}
      /\ \A u \in Tabs : u # t => request'[u] = request[u]
  BY BlankIs DEF Lose, CoreInv, TypeOK
<1>2. \A u \in Tabs : Sure(request[u])'
  BY <1>1 DEF TokensInv, Sure, Idle
<1>3. \A u \in Tabs : u \in Cookieless' <=> u \in Cookieless /\ u # t
  BY <1>1, CookielessIs DEF Idle, Cookieless, Waiting
<1>4. Cookieless' \subseteq Tabs
  BY DEF Cookieless
<1>5. \A u \in Tabs : AloneWithout(u)'
  BY <1>1, <1>3, <1>4 DEF TokensInv, AloneWithout
<1>6. QED
  BY <1>1, <1>2, <1>5 DEF TokensInv, PageSure

LEMMA TokensByEnding ==
  ASSUME CoreInv, TokensInv, request' = Unsettled(request), UNCHANGED <<page, racing>>,
         jar'.public = jar.public
  PROVE  TokensInv'
<1>1. \A u \in Tabs : Alike(request'[u], request[u])
  BY UnsettledIs DEF CoreInv, TypeOK
<1>2. \A u \in Tabs : Sure(request[u])'
  BY <1>1, AlikeIsKept, SureIsKept DEF TokensInv, Alike, Carried
<1>3. Cookieless' = Cookieless
  <2>1. \A u \in Tabs : u \in Cookieless' <=> u \in Cookieless
    BY <1>1, CookielessIs DEF Alike, Carried, Cookieless, Waiting
  <2>2. QED
    BY <2>1 DEF Cookieless
<1>4. QED
  BY <1>2, <1>3 DEF TokensInv, PageSure, AloneWithout

LEMMA TokensByExpiry ==
  ASSUME CoreInv, TokensInv, PublicCookieExpires PROVE TokensInv'
<1>1. /\ \A u \in Tabs : request'[u] = Shaken(request[u]) /\ page'[u] = Shake(page[u])
      /\ \A u \in Tabs : request[u] \in Request /\ page[u] \in Page
      /\ racing' = racing /\ jar.public # None
  BY DEF PublicCookieExpires, CoreInv, TypeOK
<1>2. \A u \in Tabs : PageSure(page[u])'
  BY <1>1, PageSureWhenShaken
<1>3. \A u \in Tabs : Sure(request[u])'
  BY <1>1, ShakingIs, SureWhenShaken DEF TokensInv
<1>4. \A u \in Tabs : u \in Cookieless' <=> u \in Cookieless
  BY <1>1, ShakingIs, CookielessIs DEF Kept, Cookieless, Waiting
<1>5. \A u \in Tabs : u \notin Cookieless' \ racing'
  BY <1>1, <1>4 DEF TokensInv, AloneWithout
<1>6. \A u \in Tabs : AloneWithout(u)'
  BY <1>5 DEF AloneWithout
<1>7. QED
  BY <1>2, <1>3, <1>6 DEF TokensInv

LEMMA TokensStay == CoreInv /\ TokensInv /\ [Next]_vars => TokensInv'
<1> SUFFICES ASSUME CoreInv, TokensInv, [Next]_vars PROVE TokensInv'
  OBVIOUS
<1>1. ASSUME NEW s \in Sessions, Close(s) PROVE TokensInv'
  BY <1>1, TokensByEnding DEF Close
<1>2. CASE AdminCookiesExpire
  <2>1. jar'.public = jar.public
    BY <1>2 DEF AdminCookiesExpire, CoreInv, TypeOK, Jar
  <2>2. QED
    BY <1>2, <2>1, TokensByEnding DEF AdminCookiesExpire
<1>3. CASE UNCHANGED vars
  BY <1>3 DEF vars, TokensInv, PageSure, Sure, AloneWithout, Cookieless, Waiting
<1>4. QED
  BY <1>1, <1>2, <1>3, TokensByHandle, TokensBySend, TokensByPlainAnswer, TokensByNewToken,
     TokensByLose, TokensByExpiry DEF Next

(* The form of the login is refused for its token only if the cookie it    *)
(* was rendered with expired or two requests without one ran side by side, *)
(* however many tabs there are.                                            *)
THEOREM LoginRefusalsHaveCause == Spec => []LoginRefusalHasCause
<1>1. Init => CoreInv /\ TokensInv
  <2>1. Init => TokensInv
    BY DEF Init, TokensInv, PageSure, Sure, AloneWithout, Cookieless, Waiting, Nothing, Blank
  <2>2. QED
    BY <2>1, CoreAtFirst
<1>2. CoreInv /\ TokensInv /\ [Next]_vars => (CoreInv /\ TokensInv)'
  BY CoreStays, TokensStay
<1>3. CoreInv /\ TokensInv => LoginRefusalHasCause
  BY DEF TokensInv, Sure, LoginRefusalHasCause
<1>4. QED
  BY <1>1, <1>2, <1>3, PTL DEF Spec

---------------------------------------------------------------------------
(* Sessions left behind.                                                   *)
LEMMA ChangingIs ==
  /\ \A u \in Tabs : u \in Changing' <=>
       request'[u].pc # "none" /\ request'[u].to \in {"submitLogin", "submitLogout"}
  /\ Changing \subseteq Tabs /\ Changing' \subseteq Tabs
BY DEF Changing, Waiting

LEMMA OpenAreSessions == CoreInv => \A s \in open : s # None
BY NoneIsNothing DEF CoreInv, TypeOK

(* Handlers that open no session.                                          *)
LEMMA OrphansByServing ==
  ASSUME CoreInv, OrphansInv, NEW t \in Tabs, ServerStep(t), open' \subseteq open,
         troubled => troubled',
         request'[t].pc = "revoked" => open' = {}, request'[t].pc # "created",
         request'[t].answer = "loggedIn" => request[t].pc = "created",
         request'[t].answer = "loggedOut" => request[t].cookies.session \notin open',
         request'[t].session = request[t].session,
         request'[t].answer = "error" => request[t].session = None \/ troubled'
  PROVE  OrphansInv'
<1> DEFINE r == request[t]
           q == request'[t]
<1>1. /\ UNCHANGED jar /\ Carried(q, r) /\ r.pc \notin {"none", "answered"} /\ q.pc # "none"
      /\ \A u \in Tabs : u # t => Alike(request'[u], request[u])
  BY DEF ServerStep, Served
<1>2. Changing' = Changing
  <2>1. \A u \in Tabs : u \in Changing' <=> u \in Changing
    BY <1>1, ChangingIs DEF Alike, Carried, Changing, Waiting
  <2>2. QED
    BY <2>1, ChangingIs
<1>3. ASSUME NEW u \in Tabs PROVE LoneLogin(u)'
  <2>1. LoneLogin(u)
    BY DEF OrphansInv
  <2>2. CASE u = t
    BY <1>1, <1>2, <2>1, <2>2 DEF LoneLogin, Carried
  <2>3. CASE u # t
    BY <1>1, <1>2, <2>1, <2>3 DEF LoneLogin, Alike, Carried
  <2>4. QED
    BY <2>2, <2>3
<1>4. \A u \in Tabs : request'[u].answer = "loggedOut" => request'[u].cookies.session \notin open'
  BY <1>1 DEF OrphansInv, Alike, Carried
<1>5. ~ troubled' => /\ \A u, v \in Changing' : u = v
                     /\ \A u \in Changing' : request'[u].to = "submitLogin" => request'[u].alone
                     /\ \A u \in Tabs : LoneLogout(u)'
  <2> SUFFICES ASSUME ~ troubled'
               PROVE  /\ \A u, v \in Changing' : u = v
                      /\ \A u \in Changing' : request'[u].to = "submitLogin" => request'[u].alone
                      /\ \A u \in Tabs : LoneLogout(u)'
    OBVIOUS
  <2>1. /\ \A u, v \in Changing : u = v
        /\ \A u \in Changing : request[u].to = "submitLogin" => request[u].alone
        /\ \A u \in Tabs : LoneLogout(u)
    BY DEF OrphansInv
  <2>2. \A u \in Tabs : request'[u].to = request[u].to /\ request'[u].alone = request[u].alone
                        /\ request'[u].cookies = request[u].cookies
    BY <1>1 DEF Alike, Carried
  <2>3. QED
    BY <1>1, <1>2, <2>1, <2>2, ChangingIs DEF LoneLogout
<1>6. OrphansHaveCause'
  <2> SUFFICES ASSUME NEW s \in open', jar'.session # s, ~ troubled'
               PROVE  \E u \in Tabs : request'[u].session = s /\ request'[u].answer # "error"
    BY DEF OrphansHaveCause
  <2>1. s \in open /\ jar.session # s /\ ~ troubled /\ s # None
    BY <1>1, OpenAreSessions
  <2>2. PICK u \in Tabs : request[u].session = s /\ request[u].answer # "error"
    BY <2>1 DEF OrphansInv, OrphansHaveCause
  <2>3. CASE u = t
    BY <2>1, <2>2, <2>3
  <2>4. CASE u # t
    BY <1>1, <2>2, <2>4 DEF Alike
  <2>5. QED
    BY <2>3, <2>4
<1>7. QED
  BY <1>3, <1>4, <1>5, <1>6 DEF OrphansInv

LEMMA OrphansByAnswer ==
  ASSUME CoreInv, OrphansInv, NEW t \in Tabs, ServerStep(t), UNCHANGED open,
         NEW answer \in Answers, Answer(t, answer), answer # "loggedOut",
         troubled => troubled', request[t].pc \notin {"none", "answered"},
         answer = "loggedIn" => request[t].pc = "created",
         answer = "error" => request[t].session = None \/ troubled'
  PROVE  OrphansInv'
<1>1. Outcome(request'[t], request[t], answer)
  BY AnsweredIs DEF Answer, CoreInv
<1>2. QED
  BY <1>1, OrphansByServing DEF Outcome

LEMMA OrphansByCreateSession ==
  ASSUME CoreInv, OrphansInv, NEW t \in Tabs, ServerStep(t), CreateSession(t) PROVE OrphansInv'
<1>1. PICK s \in Sessions \ Mentioned :
        /\ open' = open \cup {s}
        /\ request' = Unsettled([request EXCEPT ![t].pc = "created", ![t].session = s])
  BY DEF CreateSession
<1> DEFINE r == request[t]
           new == [request EXCEPT ![t].pc = "created", ![t].session = s]
<1>2. r.pc = "revoked" /\ r.to = "submitLogin" /\ r.answer = "none" /\ r.session = None
  BY DEF CreateSession, CoreInv, StagesInv, Stage
<1>3. new \in [Tabs -> Request] /\ new[t].pc = "created" /\ new[t].session = s
      /\ new[t].answer = "none"
  <2> DEFINE q == [r EXCEPT !.pc = "created", !.session = s]
  <2>1. r \in Request /\ request \in [Tabs -> Request]
    BY DEF CoreInv, TypeOK
  <2>2. new = [request EXCEPT ![t] = q]
    BY <2>1
  <2> HIDE DEF r, new
  <2>3. q \in Request /\ q.pc = "created" /\ q.session = s /\ q.answer = "none"
    BY <1>2, <2>1 DEF Request
  <2> HIDE DEF q
  <2>4. QED
    BY <2>1, <2>2, <2>3
<1>4. request'[t].pc = "created" /\ request'[t].session = s /\ request'[t].answer = "none"
  <2> HIDE DEF new
  <2>1. Alike(request'[t], new[t])
    BY <1>1, <1>3, UnsettledIs DEF new
  <2>2. QED
    BY <1>3, <2>1 DEF Alike
<1>5. /\ UNCHANGED <<jar, troubled>> /\ Carried(request'[t], r)
      /\ \A u \in Tabs : u # t => Alike(request'[u], request[u])
  BY DEF ServerStep, Served, CreateSession
<1>6. Changing' = Changing /\ t \in Changing
  <2>1. \A u \in Tabs : u \in Changing' <=> u \in Changing
    BY <1>2, <1>4, <1>5, ChangingIs DEF Alike, Carried, Changing, Waiting
  <2>2. t \in Changing
    BY <1>2 DEF Changing, Waiting
  <2>3. QED
    BY <2>1, <2>2, ChangingIs
<1>7. \A u \in Tabs : request[u].cookies.session # s
  BY <1>1 DEF Mentioned
<1>8. ASSUME NEW u \in Tabs PROVE LoneLogin(u)'
  <2>1. LoneLogin(u)
    BY DEF OrphansInv
  <2>2. CASE u = t
    BY <1>1, <1>2, <1>4, <1>5, <1>6, <2>1, <2>2 DEF LoneLogin, Carried
  <2>3. CASE u # t
    BY <1>5, <1>6, <2>1, <2>3 DEF LoneLogin, Alike, Carried
  <2>4. QED
    BY <2>2, <2>3
<1>9. \A u \in Tabs : request'[u].answer = "loggedOut" => request'[u].cookies.session \notin open'
  <2> SUFFICES ASSUME NEW u \in Tabs, request'[u].answer = "loggedOut"
               PROVE  request'[u].cookies.session \notin open'
    OBVIOUS
  <2>1. u # t
    BY <1>4
  <2>2. request[u].answer = "loggedOut" /\ request'[u].cookies = request[u].cookies
    BY <1>5, <2>1 DEF Alike, Carried
  <2>3. request[u].cookies.session \notin open
    BY <2>2 DEF OrphansInv
  <2>4. QED
    BY <1>1, <1>7, <2>2, <2>3
<1>10. ~ troubled' => /\ \A u, v \in Changing' : u = v
                      /\ \A u \in Changing' : request'[u].to = "submitLogin" => request'[u].alone
                      /\ \A u \in Tabs : LoneLogout(u)'
  <2> SUFFICES ASSUME ~ troubled'
               PROVE  /\ \A u, v \in Changing' : u = v
                      /\ \A u \in Changing' : request'[u].to = "submitLogin" => request'[u].alone
                      /\ \A u \in Tabs : LoneLogout(u)'
    OBVIOUS
  <2>1. /\ \A u, v \in Changing : u = v
        /\ \A u \in Changing : request[u].to = "submitLogin" => request[u].alone
        /\ \A u \in Tabs : LoneLogout(u)
    BY <1>5 DEF OrphansInv
  <2>2. \A u \in Tabs : request'[u].to = request[u].to /\ request'[u].alone = request[u].alone
                        /\ request'[u].cookies = request[u].cookies
    BY <1>5 DEF Alike, Carried
  <2>3. QED
    BY <1>5, <1>6, <2>1, <2>2, ChangingIs DEF LoneLogout
<1>11. OrphansHaveCause'
  <2> SUFFICES ASSUME NEW v \in open', jar'.session # v, ~ troubled'
               PROVE  \E u \in Tabs : request'[u].session = v /\ request'[u].answer # "error"
    BY DEF OrphansHaveCause
  <2>1. CASE v = s
    BY <1>4, <2>1
  <2>2. CASE v # s
    <3>1. v \in open /\ jar.session # v /\ ~ troubled /\ v # None
      BY <1>1, <1>5, <2>2, OpenAreSessions
    <3>2. PICK u \in Tabs : request[u].session = v /\ request[u].answer # "error"
      BY <3>1 DEF OrphansInv, OrphansHaveCause
    <3>3. QED
      BY <1>2, <1>5, <3>1, <3>2 DEF Alike
  <2>3. QED
    BY <2>1, <2>2
<1>12. QED
  BY <1>8, <1>9, <1>10, <1>11 DEF OrphansInv

LEMMA OrphansByHandle ==
  ASSUME CoreInv, OrphansInv, NEW t \in Tabs, Handle(t) PROVE OrphansInv'
<1> DEFINE r == request[t]
<1>1. ServerStep(t)
  BY CoreIsSound, EveryHandlerServes
<1>2. Stage(r)
  BY DEF CoreInv, StagesInv
<1>3. CASE ShowLogin(t)
  BY <1>1, <1>3, OrphansByAnswer DEF ShowLogin, ToDo, Answers
<1>4. CASE Dashboard(t)
  BY <1>1, <1>4, OrphansByAnswer DEF Dashboard, ToDo, Answers
<1>5. CASE Write(t)
  BY <1>1, <1>5, OrphansByAnswer DEF Write, ToDo, Answers, Verdict
<1>6. CASE EnterLogout(t) /\ Verdict(t) # "accepted"
  BY <1>1, <1>6, OrphansByAnswer DEF EnterLogout, ToDo, Answers, Verdict
<1>7. CASE EnterLogin(t) /\ \E answer \in {"forbidden", "login"} : Answer(t, answer)
  BY <1>1, <1>7, OrphansByAnswer DEF EnterLogin, ToDo, Answers
<1>8. CASE AnswerLogin(t)
  BY <1>1, <1>8, OrphansByAnswer DEF AnswerLogin, Answers
<1>9. CASE Fail(t)
  BY <1>1, <1>2, <1>9, OrphansByAnswer DEF Fail, Answers, Stage
<1>10. r \in Request /\ request \in [Tabs -> Request]
  BY DEF CoreInv, TypeOK
<1>11. ASSUME NEW pc \in {"leaving", "verified"}, request' = [request EXCEPT ![t].pc = pc],
              UNCHANGED <<open, troubled>>, r.pc = "sent"
       PROVE  OrphansInv'
  <2>1. request'[t].pc = pc /\ request'[t].answer = r.answer /\ request'[t].session = r.session
    BY <1>10, <1>11 DEF Request
  <2>2. r.answer = "none"
    BY <1>2, <1>11 DEF Stage
  <2>3. QED
    BY <1>1, <1>11, <2>1, <2>2, OrphansByServing
<1>12. CASE EnterLogout(t) /\ Verdict(t) = "accepted"
  BY <1>11, <1>12 DEF EnterLogout, ToDo
<1>13. CASE EnterLogin(t) /\ request' = [request EXCEPT ![t].pc = "verified"]
  BY <1>11, <1>13 DEF EnterLogin, ToDo
<1>14. CASE RevokeAll(t)
  <2> DEFINE new == [request EXCEPT ![t].pc = "revoked"]
  <2>1. /\ new \in [Tabs -> Request] /\ new[t].pc = "revoked"
        /\ new[t].answer = r.answer /\ new[t].session = r.session
    BY <1>10 DEF Request
  <2>2. request' = Unsettled(new) /\ open' = {} /\ troubled' = troubled /\ r.pc = "verified"
    BY <1>14 DEF RevokeAll
  <2> HIDE DEF new
  <2>3. Alike(request'[t], new[t])
    BY <2>1, <2>2, UnsettledIs
  <2>4. r.answer = "none"
    BY <1>2, <2>2 DEF Stage
  <2>5. QED
    BY <1>1, <2>1, <2>2, <2>3, <2>4, OrphansByServing DEF Alike
<1>15. CASE Logout(t)
  <2> DEFINE new == Answered(t, "loggedOut")
  <2>1. new \in [Tabs -> Request] /\ Outcome(new[t], r, "loggedOut")
    BY AnsweredIs DEF CoreInv, Answers
  <2>2. /\ request' = Unsettled(new) /\ open' = open \ {r.cookies.session}
        /\ troubled' = troubled /\ r.pc = "leaving"
    BY <1>15 DEF Logout
  <2> HIDE DEF new
  <2>3. Alike(request'[t], new[t])
    BY <2>1, <2>2, UnsettledIs
  <2>4. QED
    BY <1>1, <2>1, <2>2, <2>3, OrphansByServing DEF Alike, Outcome
<1>16. CASE CreateSession(t)
  BY <1>1, <1>16, OrphansByCreateSession
<1>17. EnterLogin(t) => \/ \E answer \in {"forbidden", "login"} : Answer(t, answer)
                        \/ request' = [request EXCEPT ![t].pc = "verified"]
  BY DEF EnterLogin
<1>18. QED
  BY <1>3, <1>4, <1>5, <1>6, <1>7, <1>8, <1>9, <1>12, <1>13, <1>14, <1>15, <1>16, <1>17
     DEF Handle

LEMMA OrphansBySend ==
  ASSUME CoreInv, OrphansInv, NEW t \in Tabs, NEW to \in Kinds, Send(t, to) PROVE OrphansInv'
<1> DEFINE form == IF to \in Submits THEN page[t] ELSE Blank
           changes == to \in {"submitLogin", "submitLogout"}
<1>1. /\ TypeOK /\ UNCHANGED <<open, jar>> /\ request[t].pc = "none"
      /\ troubled' = (troubled \/ (changes /\ Changing # {}))
  BY DEF CoreInv, Send, Waiting
<1>2. /\ Asked(request'[t], to, jar, form)
      /\ request'[t].alone = (to # "submitLogin" \/ Changing = {})
      /\ \A u \in Tabs : u # t =>
           /\ Kept(request'[u], request[u])
           /\ request'[u].alone =
                (request[u].alone /\ ~ (changes /\ request[u].to = "submitLogin"))
  BY <1>1, SendIs
<1> HIDE DEF form
<1>3. request[t].session = None /\ request[t].answer = "none"
  BY <1>1 DEF CoreInv, StagesInv, Stage
<1>4. \A u \in Tabs : u # t => /\ request'[u].to = request[u].to
                               /\ request'[u].answer = request[u].answer
                               /\ request'[u].pc = request[u].pc
                               /\ request'[u].cookies = request[u].cookies
                               /\ request'[u].session = request[u].session
  BY <1>2 DEF Kept
<1>5. /\ request'[t].to = to /\ request'[t].answer = "none" /\ request'[t].pc = "sent"
      /\ request'[t].cookies = jar
  BY <1>2 DEF Asked
<1>6. t \notin Changing /\ \A u \in Tabs : u \in Changing' <=> u \in Changing \/ (u = t /\ changes)
  BY <1>1, <1>4, <1>5, ChangingIs DEF Changing, Waiting
<1>7. ASSUME NEW u \in Tabs PROVE LoneLogin(u)'
  <2>1. CASE u # t /\ ~ changes
    <3>1. Changing' = Changing
      BY <1>6, <2>1, ChangingIs
    <3>2. LoneLogin(u) /\ request'[u].alone => request[u].alone
      BY <1>2, <2>1 DEF OrphansInv
    <3>3. LoneLogin(u)
      BY DEF OrphansInv
    <3>4. QED
      BY <1>1, <1>2, <1>4, <2>1, <3>1, <3>2, <3>3 DEF LoneLogin
  <2>2. CASE u # t /\ changes
    BY <1>2, <1>4, <2>2 DEF LoneLogin
  <2>3. CASE u = t
    <3>1. to = "submitLogin" /\ Changing = {} => Changing' = {t}
      BY <1>6, ChangingIs
    <3>2. QED
      BY <1>2, <1>5, <1>6, <2>3, <3>1 DEF LoneLogin
  <2>4. QED
    BY <2>1, <2>2, <2>3
<1>8. \A u \in Tabs : request'[u].answer = "loggedOut" => request'[u].cookies.session \notin open'
  BY <1>1, <1>4, <1>5 DEF OrphansInv
<1>9. ASSUME ~ troubled'
      PROVE  /\ \A u, v \in Changing' : u = v
             /\ \A u \in Changing' : request'[u].to = "submitLogin" => request'[u].alone
             /\ \A u \in Tabs : LoneLogout(u)'
  <2>1. /\ ~ troubled
        /\ \A u, v \in Changing : u = v
        /\ \A u \in Changing : request[u].to = "submitLogin" => request[u].alone
        /\ \A u \in Tabs : LoneLogout(u)
    BY <1>1, <1>9 DEF OrphansInv
  <2>2. CASE ~ changes
    <3>1. Changing' = Changing
      BY <1>6, <2>2, ChangingIs
    <3>2. \A u \in Tabs : u # t => request'[u].alone = request[u].alone
      BY <1>2, <2>2 DEF CoreInv, TypeOK, Request
    <3>3. QED
      BY <1>1, <1>4, <1>6, <2>1, <2>2, <3>1, <3>2, ChangingIs DEF LoneLogout
  <2>3. CASE changes
    <3>1. Changing = {} /\ Changing' = {t}
      BY <1>1, <1>6, <1>9, <2>3, ChangingIs
    <3>2. QED
      BY <1>1, <1>2, <1>5, <2>3, <3>1 DEF LoneLogout
  <2>4. QED
    BY <2>2, <2>3
<1>10. OrphansHaveCause'
  <2> SUFFICES ASSUME NEW s \in open', jar'.session # s, ~ troubled'
               PROVE  \E u \in Tabs : request'[u].session = s /\ request'[u].answer # "error"
    BY DEF OrphansHaveCause
  <2>1. s \in open /\ jar.session # s /\ ~ troubled /\ s # None
    BY <1>1, OpenAreSessions
  <2>2. PICK u \in Tabs : request[u].session = s /\ request[u].answer # "error"
    BY <2>1 DEF OrphansInv, OrphansHaveCause
  <2>3. QED
    BY <1>3, <1>4, <2>1, <2>2
<1>11. QED
  BY <1>7, <1>8, <1>9, <1>10 DEF OrphansInv

LEMMA OrphansByDeliver ==
  ASSUME CoreInv, OrphansInv, NEW t \in Tabs, Deliver(t) PROVE OrphansInv'
<1> DEFINE r == request[t]
           clears == r.answer = "loggedIn" /\ r.alone
<1>1. /\ TypeOK /\ Stage(r) /\ r.pc = "answered" /\ open' = open
      /\ troubled' = (troubled /\ ~ clears)
  BY DEF CoreInv, StagesInv, Deliver
<1>2. /\ jar'.session = CASE r.answer = "loggedIn" -> r.session
                          [] r.answer = "loggedOut" -> None
                          [] OTHER -> jar.session
  BY <1>1, DeliverIs, SetCookiesIs
<1>3. /\ Moves(t) => Asked(request'[t], Redirects[r.answer], jar', Blank)
      /\ ~ Moves(t) => Idle(request'[t])
      /\ \A u \in Tabs : u # t => Kept(request'[u], request[u]) /\ request'[u].alone = request[u].alone
  BY <1>1, DeliverIs
<1>4. \A u \in Tabs : u # t => /\ request'[u].to = request[u].to
                               /\ request'[u].answer = request[u].answer
                               /\ request'[u].pc = request[u].pc
                               /\ request'[u].cookies = request[u].cookies
                               /\ request'[u].session = request[u].session
                               /\ request'[u].alone = request[u].alone
  BY <1>3 DEF Kept
<1>5. Moves(t) => Redirects[r.answer] \in {"showLogin", "dashboard"}
  BY RedirectsAre DEF Moves
<1>6. request'[t].answer = "none" /\ request'[t].to \in {"showLogin", "dashboard"}
  BY <1>3, <1>5 DEF Asked, Idle
<1>7. \A u \in Tabs : u \in Changing' <=> u \in Changing /\ u # t
  BY <1>4, <1>6, ChangingIs DEF Changing, Waiting
<1>8. r.answer \in {"loggedIn", "loggedOut"} => t \in Changing
  BY <1>1 DEF Stage, Changing, Waiting
<1>9. ASSUME NEW u \in Tabs PROVE LoneLogin(u)'
  <2>1. CASE u = t
    BY <1>7, <2>1 DEF LoneLogin
  <2>2. CASE u # t
    <3>1. LoneLogin(u)
      BY DEF OrphansInv
    <3>2. Changing = {u} => Changing' = {u}
      BY <1>7, <2>2, ChangingIs
    <3>3. QED
      BY <1>1, <1>4, <1>7, <2>2, <3>1, <3>2 DEF LoneLogin
  <2>3. QED
    BY <2>1, <2>2
<1>10. \A u \in Tabs : request'[u].answer = "loggedOut" => request'[u].cookies.session \notin open'
  BY <1>1, <1>4, <1>6 DEF OrphansInv
<1>11. clears => Changing = {t} /\ open \subseteq {r.session}
  BY <1>1, <1>8 DEF OrphansInv, LoneLogin, Stage
<1>12. ASSUME ~ troubled'
       PROVE  /\ \A u, v \in Changing' : u = v
              /\ \A u \in Changing' : request'[u].to = "submitLogin" => request'[u].alone
              /\ \A u \in Tabs : LoneLogout(u)'
  <2>1. CASE clears
    <3>1. Changing' = {}
      BY <1>7, <1>11, <2>1, ChangingIs
    <3>2. QED
      BY <3>1 DEF LoneLogout
  <2>2. CASE ~ clears
    <3>1. /\ ~ troubled
          /\ \A u, v \in Changing : u = v
          /\ \A u \in Changing : request[u].to = "submitLogin" => request[u].alone
          /\ \A u \in Tabs : LoneLogout(u)
      BY <1>1, <1>12, <2>2 DEF OrphansInv
    <3>2. ASSUME NEW u \in Tabs PROVE LoneLogout(u)'
      <4>1. CASE t \in Changing
        BY <1>7, <3>1, <4>1 DEF LoneLogout
      <4>2. CASE t \notin Changing
        <5>1. jar'.session = jar.session
          BY <1>2, <1>8, <4>2
        <5>2. LoneLogout(u)
          BY <3>1
        <5>3. QED
          BY <1>4, <1>7, <5>1, <5>2 DEF LoneLogout
      <4>3. QED
        BY <4>1, <4>2
    <3>3. QED
      BY <1>4, <1>7, <3>1, <3>2, ChangingIs
  <2>3. QED
    BY <2>1, <2>2
<1>13. OrphansHaveCause'
  <2> SUFFICES ASSUME NEW s \in open', jar'.session # s, ~ troubled'
               PROVE  \E u \in Tabs : request'[u].session = s /\ request'[u].answer # "error"
    BY DEF OrphansHaveCause
  <2>1. s \in open /\ s # None
    BY <1>1, OpenAreSessions
  <2>2. ~ clears
    BY <1>2, <1>11, <2>1
  <2>3. ~ troubled
    BY <1>1, <2>2
  <2>4. r.answer # "loggedIn"
    BY <1>1, <1>8, <2>2, <2>3 DEF OrphansInv, Stage
  <2>5. jar.session # s
    <3>1. CASE r.answer = "loggedOut"
      <4>1. r.cookies.session \notin open
        BY <3>1 DEF OrphansInv
      <4>2. LoneLogout(t) /\ r.to = "submitLogout"
        BY <1>1, <2>3, <3>1 DEF OrphansInv, Stage
      <4>3. QED
        BY <1>8, <2>1, <3>1, <4>1, <4>2 DEF LoneLogout
    <3>2. CASE r.answer # "loggedOut"
      BY <1>2, <2>4, <3>2
    <3>3. QED
      BY <3>1, <3>2
  <2>6. PICK u \in Tabs : request[u].session = s /\ request[u].answer # "error"
    BY <2>1, <2>3, <2>5 DEF OrphansInv, OrphansHaveCause
  <2>7. u # t
    BY <1>1, <2>1, <2>4, <2>6 DEF Stage
  <2>8. QED
    BY <1>4, <2>6, <2>7
<1>14. QED
  BY <1>9, <1>10, <1>12, <1>13 DEF OrphansInv

LEMMA OrphansByLose ==
  ASSUME CoreInv, OrphansInv, NEW t \in Tabs, Lose(t) PROVE OrphansInv'
<1> DEFINE r == request[t]
<1>1. /\ TypeOK /\ Stage(r) /\ r.pc = "answered" /\ UNCHANGED <<open, jar>>
      /\ troubled' = (troubled \/ r.answer = "loggedIn")
  BY DEF CoreInv, StagesInv, Lose
<1>2. Idle(request'[t]) /\ \A u \in Tabs : u # t => request'[u] = request[u]
  BY <1>1, BlankIs DEF Lose, TypeOK
<1>3. \A u \in Tabs : u \in Changing' <=> u \in Changing /\ u # t
  BY <1>2, ChangingIs DEF Idle, Changing, Waiting
<1>4. ASSUME NEW u \in Tabs PROVE LoneLogin(u)'
  <2>1. CASE u = t
    BY <1>3, <2>1 DEF LoneLogin
  <2>2. CASE u # t
    <3>1. LoneLogin(u)
      BY DEF OrphansInv
    <3>2. Changing = {u} => Changing' = {u}
      BY <1>3, <2>2, ChangingIs
    <3>3. QED
      BY <1>1, <1>2, <1>3, <2>2, <3>1, <3>2 DEF LoneLogin
  <2>3. QED
    BY <2>1, <2>2
<1>5. \A u \in Tabs : request'[u].answer = "loggedOut" => request'[u].cookies.session \notin open'
  BY <1>1, <1>2 DEF OrphansInv, Idle
<1>6. ASSUME ~ troubled'
      PROVE  /\ \A u, v \in Changing' : u = v
             /\ \A u \in Changing' : request'[u].to = "submitLogin" => request'[u].alone
             /\ \A u \in Tabs : LoneLogout(u)'
  BY <1>1, <1>2, <1>3, <1>6, ChangingIs DEF OrphansInv, LoneLogout
<1>7. OrphansHaveCause'
  <2> SUFFICES ASSUME NEW s \in open', jar'.session # s, ~ troubled'
               PROVE  \E u \in Tabs : request'[u].session = s /\ request'[u].answer # "error"
    BY DEF OrphansHaveCause
  <2>1. s \in open /\ jar.session # s /\ ~ troubled /\ r.answer # "loggedIn" /\ s # None
    BY <1>1, OpenAreSessions
  <2>2. PICK u \in Tabs : request[u].session = s /\ request[u].answer # "error"
    BY <2>1 DEF OrphansInv, OrphansHaveCause
  <2>3. u # t
    BY <1>1, <2>1, <2>2 DEF Stage
  <2>4. QED
    BY <1>2, <2>2, <2>3
<1>8. QED
  BY <1>4, <1>5, <1>6, <1>7 DEF OrphansInv

(* Sessions that end, cookies that expire.                                 *)
LEMMA OrphansByEnding ==
  ASSUME CoreInv, OrphansInv, UNCHANGED troubled, open' \subseteq open,
         \A u \in Tabs : Kept(request'[u], request[u]) /\ request'[u].alone = request[u].alone,
         jar'.session = jar.session \/ (jar'.session = None /\ jar.session \notin open)
  PROVE  OrphansInv'
<1>1. \A u \in Tabs : /\ request'[u].to = request[u].to
                      /\ request'[u].answer = request[u].answer
                      /\ request'[u].pc = request[u].pc
                      /\ request'[u].cookies = request[u].cookies
                      /\ request'[u].session = request[u].session
                      /\ request'[u].alone = request[u].alone
  BY DEF Kept
<1>2. Changing' = Changing
  <2>1. \A u \in Tabs : u \in Changing' <=> u \in Changing
    BY <1>1, ChangingIs DEF Changing, Waiting
  <2>2. QED
    BY <2>1, ChangingIs
<1>3. ASSUME NEW u \in Tabs PROVE LoneLogin(u)'
  <2>1. LoneLogin(u)
    BY DEF OrphansInv
  <2>2. QED
    BY <1>1, <1>2, <2>1 DEF LoneLogin
<1>4. \A u \in Tabs : request'[u].answer = "loggedOut" => request'[u].cookies.session \notin open'
  BY <1>1 DEF OrphansInv
<1>5. ASSUME ~ troubled'
      PROVE  /\ \A u, v \in Changing' : u = v
             /\ \A u \in Changing' : request'[u].to = "submitLogin" => request'[u].alone
             /\ \A u \in Tabs : LoneLogout(u)'
  BY <1>1, <1>2, <1>5, ChangingIs DEF OrphansInv, LoneLogout
<1>6. OrphansHaveCause'
  <2> SUFFICES ASSUME NEW s \in open', jar'.session # s, ~ troubled'
               PROVE  \E u \in Tabs : request'[u].session = s /\ request'[u].answer # "error"
    BY DEF OrphansHaveCause
  <2>1. s \in open /\ jar.session # s /\ ~ troubled
    OBVIOUS
  <2>2. PICK u \in Tabs : request[u].session = s /\ request[u].answer # "error"
    BY <2>1 DEF OrphansInv, OrphansHaveCause
  <2>3. QED
    BY <1>1, <2>2
<1>7. QED
  BY <1>3, <1>4, <1>5, <1>6 DEF OrphansInv

LEMMA OrphansStay == CoreInv /\ OrphansInv /\ [Next]_vars => OrphansInv'
<1> SUFFICES ASSUME CoreInv, OrphansInv, [Next]_vars PROVE OrphansInv'
  OBVIOUS
<1>1. TypeOK
  BY DEF CoreInv
<1>2. ASSUME request' = Unsettled(request)
      PROVE  \A u \in Tabs : Kept(request'[u], request[u]) /\ request'[u].alone = request[u].alone
  BY <1>1, <1>2, UnsettledIs, AlikeIsKept DEF TypeOK, Alike, Carried
<1>3. ASSUME NEW s \in Sessions, Close(s) PROVE OrphansInv'
  BY <1>2, <1>3, OrphansByEnding DEF Close
<1>4. CASE AdminCookiesExpire
  <2>1. jar'.session = None
    BY <1>1, <1>4 DEF AdminCookiesExpire, TypeOK, Jar
  <2>2. QED
    BY <1>2, <1>4, <2>1, OrphansByEnding DEF AdminCookiesExpire
<1>5. CASE PublicCookieExpires
  <2>1. jar'.session = jar.session
    BY <1>1, <1>5 DEF PublicCookieExpires, TypeOK, Jar
  <2>2. \A u \in Tabs : Kept(request'[u], request[u]) /\ request'[u].alone = request[u].alone
    BY <1>1, <1>5, ShakingIs DEF PublicCookieExpires, TypeOK
  <2>3. QED
    BY <1>5, <2>1, <2>2, OrphansByEnding DEF PublicCookieExpires
<1>6. CASE UNCHANGED vars
  BY <1>6, OrphansByEnding DEF vars, Kept
<1>7. QED
  BY <1>3, <1>4, <1>5, <1>6, OrphansByHandle, OrphansBySend, OrphansByDeliver, OrphansByLose
     DEF Next

(* A live session nobody holds was left by logins and logouts that         *)
(* overlapped or whose answer did not come, however many tabs there are    *)
(* and however often they logged in and out.                               *)
THEOREM OrphanSessionsHaveCause == Spec => []OrphansHaveCause
<1>1. Init => CoreInv /\ OrphansInv
  <2> SUFFICES ASSUME Init PROVE OrphansInv
    BY CoreAtFirst
  <2>1. \A t \in Tabs : request[t].pc = "none" /\ request[t].answer = "none"
    BY DEF Init, Nothing
  <2>2. open = {} /\ Changing = {}
    BY <2>1 DEF Init, Changing, Waiting
  <2>3. QED
    BY <2>1, <2>2 DEF OrphansInv, LoneLogin, LoneLogout, OrphansHaveCause
<1>2. CoreInv /\ OrphansInv /\ [Next]_vars => (CoreInv /\ OrphansInv)'
  BY CoreStays, OrphansStay
<1>3. CoreInv /\ OrphansInv => OrphansHaveCause
  BY DEF OrphansInv
<1>4. QED
  BY <1>1, <1>2, <1>3, PTL DEF Spec
=============================================================================
