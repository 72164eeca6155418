----------------------------- MODULE AdminGate -----------------------------
(***************************************************************************)
(* The way of a browser into the admin pages: the public token of the      *)
(* login form (middleware/security.js), the session cookie and the token   *)
(* bound to it (middleware/adminAuth.js), and the handlers that set and    *)
(* clear them (controllers/adminAuthController.js).                        *)
(*                                                                         *)
(* One browser with several tabs.  A request carries the cookies of the    *)
(* moment it is sent, an answer sets cookies when it arrives, and nothing  *)
(* orders the requests of different tabs.  The sessions are those of       *)
(* SessionStore: opened once, over for good; that AdminSessions keeps it   *)
(* so is shown there.                                                      *)
(***************************************************************************)
EXTENDS Naturals, FiniteSets

CONSTANTS
  Sessions,  \* sessions of the account, each with its two tokens
  Tokens,    \* values of the public token
  Tabs,      \* tabs of the browser
  None       \* no cookie, no token, no session

ASSUME NoneIsNothing == None \notin Sessions /\ None \notin Tokens
ASSUME TokensApart   == Sessions \cap Tokens = {}
ASSUME EnoughTokens  ==   \* for a random one to be a new one
  /\ IsFiniteSet(Tabs) /\ IsFiniteSet(Tokens)
  /\ Cardinality(Tokens) > 4 * Cardinality(Tabs) + 1

VARIABLES
  open,      \* the sessions findValid finds
  jar,       \* the browser's cookies
  page,      \* what a tab shows
  request,   \* what a tab waits for
  racing,    \* history: tabs whose requests without a public token overlapped
  troubled   \* history: a login or logout overlapped another or got no answer

vars == <<open, jar, page, request, racing, troubled>>

Jar == [session : Sessions \cup {None}, csrf : Sessions \cup {None},
        public : Tokens \cup {None}]

(* A form carries a token; "under" remembers the session it was rendered   *)
(* for, "shaken" that the public token may have changed since the page was *)
(* asked for.                                                              *)
Page == [kind : {"blank", "login", "admin"},
         token : Sessions \cup Tokens \cup {None},
         under : Sessions \cup {None}, shaken : BOOLEAN]

Submits == {"submitLogin", "write", "submitLogout"}
Kinds   == {"showLogin", "dashboard"} \cup Submits
Answers == {"none", "login", "admin", "toLogin", "toAdmin", "loggedIn", "loggedOut",
            "accepted", "forbidden", "unauthenticated", "error"}

(* "public" is the token the answer sets, "session" the one a login has    *)
(* created.  "alone" remembers that no other login or logout overlapped a  *)
(* login, "hops" how often the tab was sent to and fro between the login   *)
(* form and the admin pages since a session last came or went.             *)
Request == [pc : {"none", "sent", "verified", "revoked", "created", "leaving", "answered"},
            to : Kinds, cookies : Jar, form : Page, public : Tokens \cup {None},
            session : Sessions \cup {None}, alone : BOOLEAN, shaken : BOOLEAN, hops : 0 .. 3,
            answer : Answers]

Blank     == [kind |-> "blank", token |-> None, under |-> None, shaken |-> FALSE]
NoCookies == [session |-> None, csrf |-> None, public |-> None]
Nothing   == [pc |-> "none", to |-> "showLogin", cookies |-> NoCookies, form |-> Blank,
              public |-> None, session |-> None, alone |-> TRUE, shaken |-> FALSE,
              hops |-> 0, answer |-> "none"]

TypeOK ==
  /\ open \subseteq Sessions
  /\ jar \in Jar
  /\ page \in [Tabs -> Page]
  /\ request \in [Tabs -> Request]
  /\ racing \subseteq Tabs
  /\ troubled \in BOOLEAN

Init ==
  /\ open = {}
  /\ jar = NoCookies
  /\ page = [t \in Tabs |-> Blank]
  /\ request = [t \in Tabs |-> Nothing]
  /\ racing = {}
  /\ troubled = FALSE

Waiting(t) == request[t].pc # "none"
Valid(t)   == request[t].cookies.session \in open
ToDo(t, to) == request[t].pc = "sent" /\ request[t].to = to

(* The values somebody refers to; a new random one is none of them.        *)
Mentioned ==
  (UNION {{page[t].token, request[t].cookies.public, request[t].cookies.session,
           request[t].public, request[t].session, request[t].form.token} : t \in Tabs})
    \cup {jar.public, jar.session} \cup open

Changing   == {t \in Tabs : Waiting(t) /\ request[t].to \in {"submitLogin", "submitLogout"}}
Cookieless == {t \in Tabs : Waiting(t) /\ request[t].cookies.public = None}

---------------------------------------------------------------------------
(* A session came or went: whoever is sent to and fro is so for a reason.  *)
Unsettled(q) == [t \in Tabs |-> [q[t] EXCEPT !.hops = 0]]

(* The request a tab sends with the cookies of that moment.                *)
Asking(to, cookies, form) ==
  [Nothing EXCEPT !.pc = "sent", !.to = to, !.cookies = cookies, !.form = form,
                  !.alone = to # "submitLogin" \/ Changing = {}]

(* The requests that run without a token beside the one a tab sends so.    *)
Rivals(t, cookies) ==
  IF cookies.public = None /\ Cookieless \ {t} # {} THEN Cookieless \cup {t} ELSE {}

(* The user opens a page, or submits the form the tab shows.               *)
Send(t, to) ==
  /\ ~ Waiting(t)
  /\ \/ to \in {"showLogin", "dashboard"}
     \/ to = "submitLogin" /\ page[t].kind = "login"
     \/ to \in {"write", "submitLogout"} /\ page[t].kind = "admin"
  /\ LET changes == to \in {"submitLogin", "submitLogout"} IN
     /\ request' = [u \in Tabs |->
          IF u = t THEN Asking(to, jar, IF to \in Submits THEN page[t] ELSE Blank)
          ELSE [request[u] EXCEPT !.alone = @ /\ ~ (changes /\ request[u].to = "submitLogin")]]
     /\ troubled' = (troubled \/ (changes /\ Changing # {}))
  /\ page' = [page EXCEPT ![t] = Blank]
  /\ racing' = racing \cup Rivals(t, jar)
  /\ UNCHANGED <<open, jar>>

NewToken == CHOOSE p \in Tokens : p \notin Mentioned

(* Every answer brings a new token.                                        *)
AnsweredAnew(t, answer) ==
  [request EXCEPT ![t].pc = "answered", ![t].answer = answer, ![t].public = NewToken]

(* csrfToken runs before everything else: a request without the token is   *)
(* answered with a new one.                                                *)
Answered(t, answer) ==
  [request EXCEPT ![t].pc = "answered", ![t].answer = answer,
                  ![t].public = IF request[t].cookies.public = None THEN NewToken ELSE None]
Answer(t, answer) == request' = Answered(t, answer)

(* GET /admin/login, for a browser that holds any session cookie.          *)
ShowLoginByCookie(t) ==
  /\ ToDo(t, "showLogin")
  /\ Answer(t, IF request[t].cookies.session # None THEN "toAdmin" ELSE "login")
  /\ UNCHANGED <<open, jar, page, racing, troubled>>

(* GET /admin/login: who is logged in already is sent to the admin pages.  *)
ShowLogin(t) ==
  /\ ToDo(t, "showLogin")
  /\ Answer(t, IF Valid(t) THEN "toAdmin" ELSE "login")
  /\ UNCHANGED <<open, jar, page, racing, troubled>>

(* GET of an admin page.                                                   *)
Dashboard(t) ==
  /\ ToDo(t, "dashboard")
  /\ Answer(t, IF Valid(t) THEN "admin" ELSE "toLogin")
  /\ UNCHANGED <<open, jar, page, racing, troubled>>

(* Any token will do.                                                      *)
AnyToken(t) == request[t].form.token # None

(* csrfMatchesSession: the token of the form against the hash on the row.  *)
CsrfMatchesSession(t) == request[t].form.token = request[t].cookies.session

(* requireAdminAuth, then requireAdminCsrf.                                *)
Verdict(t) ==
  IF ~ Valid(t) THEN "unauthenticated"
  ELSE IF CsrfMatchesSession(t) THEN "accepted" ELSE "forbidden"

(* POST of anything that changes the catalogue.                            *)
Write(t) ==
  /\ ToDo(t, "write")
  /\ Answer(t, Verdict(t))
  /\ UNCHANGED <<open, jar, page, racing, troubled>>

(* POST /admin/logout, up to the handler.                                  *)
EnterLogout(t) ==
  /\ ToDo(t, "submitLogout")
  /\ IF Verdict(t) = "accepted" THEN request' = [request EXCEPT ![t].pc = "leaving"]
                                ELSE Answer(t, Verdict(t))
  /\ UNCHANGED <<open, jar, page, racing, troubled>>

(* The cookies are cleared and the session left as it is.                  *)
LogoutCookieOnly(t) ==
  /\ request[t].pc = "leaving"
  /\ Answer(t, "loggedOut")
  /\ UNCHANGED <<open, jar, page, racing, troubled>>

(* submitLogout revokes the session of the request's own cookie.           *)
Logout(t) ==
  /\ request[t].pc = "leaving"
  /\ open' = open \ {request[t].cookies.session}
  /\ request' = Unsettled(Answered(t, "loggedOut"))
  /\ UNCHANGED <<jar, page, racing, troubled>>

---------------------------------------------------------------------------
(* POST /admin/login: requireCsrf wants the cookie the request brought and *)
(* the token of the form to be the same.  A wrong password gets the form   *)
(* again.                                                                  *)
EnterLogin(t) ==
  LET r == request[t] IN
  /\ ToDo(t, "submitLogin")
  /\ IF r.cookies.public = None \/ r.form.token # r.cookies.public
     THEN Answer(t, "forbidden")
     ELSE \/ Answer(t, "login")
          \/ request' = [request EXCEPT ![t].pc = "verified"]
  /\ UNCHANGED <<open, jar, page, racing, troubled>>

RevokeAll(t) ==
  /\ request[t].pc = "verified"
  /\ open' = {}
  /\ request' = Unsettled([request EXCEPT ![t].pc = "revoked"])
  /\ UNCHANGED <<jar, page, racing, troubled>>

CreateSession(t) ==
  /\ request[t].pc = "revoked"
  /\ \E s \in Sessions \ Mentioned :
       /\ open' = open \cup {s}
       /\ request' = Unsettled([request EXCEPT ![t].pc = "created", ![t].session = s])
  /\ UNCHANGED <<jar, page, racing, troubled>>

AnswerLogin(t) ==
  /\ request[t].pc = "created"
  /\ Answer(t, "loggedIn")
  /\ UNCHANGED <<open, jar, page, racing, troubled>>

(* A statement throws; errorHandler answers.  What was written stays.      *)
Fail(t) ==
  /\ request[t].pc \notin {"none", "answered"}
  /\ Answer(t, "error")
  /\ troubled' = (troubled \/ request[t].pc = "created")
  /\ UNCHANGED <<open, jar, page, racing>>

---------------------------------------------------------------------------
(* Only the session cookie is set.                                         *)
SetSessionCookie(t) ==
  LET r == request[t] IN
  [public |-> IF r.public # None THEN r.public ELSE jar.public,
   session |-> CASE r.answer = "loggedIn" -> r.session
                 [] r.answer = "loggedOut" -> None
                 [] OTHER -> jar.session,
   csrf |-> jar.csrf]

(* The cookies of the browser once the answer of a tab has come.           *)
SetCookies(t) ==
  LET r == request[t] IN
  [public |-> IF r.public # None THEN r.public ELSE jar.public,
   session |-> CASE r.answer = "loggedIn" -> r.session
                 [] r.answer = "loggedOut" -> None
                 [] OTHER -> jar.session,
   csrf |-> CASE r.answer = "loggedIn" -> r.session
              [] r.answer = "loggedOut" -> None
              [] OTHER -> jar.csrf]

(* A tab stays at whatever came.                                           *)
ShownRaw(t) == [Blank EXCEPT !.kind = request[t].answer]

(* What the tab shows then: a form with the token the server put into it.  *)
Shown(t) ==
  LET r == request[t] IN
  CASE r.answer = "login" ->
         [kind |-> "login", token |-> IF r.public # None THEN r.public ELSE r.cookies.public,
          under |-> None, shaken |-> r.shaken]
    [] r.answer = "admin" ->
         [kind |-> "admin", token |-> r.cookies.csrf, under |-> r.cookies.session,
          shaken |-> FALSE]
    [] OTHER -> Blank

Redirects == [toLogin |-> "showLogin", loggedOut |-> "showLogin", toAdmin |-> "dashboard",
              loggedIn |-> "dashboard", accepted |-> "dashboard"]

(* Login pages on the screen or on their way are no more sure of their     *)
(* token.                                                                  *)
Shake(p) == [p EXCEPT !.shaken = @ \/ p.kind = "login"]
Shaken(r) ==
  [r EXCEPT !.shaken = @ \/ (r.pc # "none" /\ r.to \in {"showLogin", "submitLogin"})]

(* The answer of a redirection, and the request that follows it.           *)
Following(r) ==
  LET next == Asking(Redirects[r.answer], jar', Blank) IN
  IF r.answer \in {"toLogin", "toAdmin"}
  THEN [next EXCEPT !.hops = IF r.hops < 3 THEN r.hops + 1 ELSE 3]
  ELSE next

(* The answer arrives: cookies first, then the page or the redirection.    *)
Deliver(t) ==
  LET r     == request[t]
      moves == r.answer \in DOMAIN Redirects
      race  == t \in racing
      rest  == [u \in Tabs |-> IF race THEN Shaken(request[u]) ELSE request[u]]
  IN
  /\ r.pc = "answered"
  /\ jar' = SetCookies(t)
  /\ page' = [u \in Tabs |->
       CASE u = t /\ moves -> Blank
         [] u = t /\ ~ moves -> Shown(t)
         [] u # t -> IF race THEN Shake(page[u]) ELSE page[u]]
  /\ request' = [IF jar'.session = jar.session THEN rest ELSE Unsettled(rest)
                    EXCEPT ![t] = IF moves THEN Following(r) ELSE Nothing]
  /\ racing' = (racing \ {t}) \cup (IF moves THEN Rivals(t, jar') ELSE {})
  /\ troubled' = (troubled /\ ~ (r.answer = "loggedIn" /\ r.alone))
  /\ UNCHANGED open

(* The connection breaks before the answer is there.                       *)
Lose(t) ==
  /\ request[t].pc = "answered"
  /\ request' = [request EXCEPT ![t] = Nothing]
  /\ racing' = racing \ {t}
  /\ troubled' = (troubled \/ request[t].answer = "loggedIn")
  /\ UNCHANGED <<open, jar, page>>

---------------------------------------------------------------------------
(* A session expires, stands idle, or is ended by a login elsewhere or by  *)
(* the operator.                                                           *)
Close(s) ==
  /\ s \in open
  /\ open' = open \ {s}
  /\ request' = Unsettled(request)
  /\ UNCHANGED <<jar, page, racing, troubled>>

(* The two admin cookies were set together, for as long as the session     *)
(* lasts at the longest.                                                   *)
AdminCookiesExpire ==
  /\ jar.session # None /\ jar.session \notin open
  /\ jar' = [jar EXCEPT !.session = None, !.csrf = None]
  /\ request' = Unsettled(request)
  /\ UNCHANGED <<open, page, racing, troubled>>

(* Nothing renews the cookie of the public token.                          *)
PublicCookieExpires ==
  /\ jar.public # None
  /\ jar' = [jar EXCEPT !.public = None]
  /\ page' = [u \in Tabs |-> Shake(page[u])]
  /\ request' = [u \in Tabs |-> Shaken(request[u])]
  /\ UNCHANGED <<open, racing, troubled>>

Handle(t) ==
  \/ ShowLogin(t) \/ Dashboard(t) \/ Write(t)
  \/ EnterLogout(t) \/ Logout(t)
  \/ EnterLogin(t) \/ RevokeAll(t) \/ CreateSession(t) \/ AnswerLogin(t)
  \/ Fail(t)

Next ==
  \/ \E t \in Tabs : \/ \E to \in Kinds : Send(t, to)
                     \/ Handle(t)
                     \/ Deliver(t) \/ Lose(t)
  \/ \E s \in Sessions : Close(s)
  \/ AdminCookiesExpire
  \/ PublicCookieExpires

Spec == Init /\ [][Next]_vars

---------------------------------------------------------------------------
(* The order loadAdminSession, requireAdminAuth, requireAdminCsrf of       *)
(* adminAuth.js:4-10: what is carried out for a session came from a form   *)
(* rendered for that session, whatever other tabs logged in and out        *)
(* meanwhile.                                                              *)
WritesFromOwnForms ==
  \A t \in Tabs : request[t].answer \in {"accepted", "loggedOut"} =>
    request[t].form.under = request[t].cookies.session

(* A form of the session that submits it is never refused for its token:   *)
(* the cookie that carries the token into the form and the cookie of the   *)
(* session come and go together (adminAuthController.js:51-52, 69-70).     *)
OwnFormsPass ==
  \A t \in Tabs : request[t].answer = "forbidden" /\ request[t].to # "submitLogin" =>
    request[t].form.under # request[t].cookies.session

(* The login form is refused for its token only when the cookie it was     *)
(* rendered with has expired, or when two requests without the cookie were *)
(* under way at once, each given a token of its own (security.js:63-67).   *)
LoginRefusalHasCause ==
  \A t \in Tabs : request[t].answer = "forbidden" /\ request[t].to = "submitLogin" =>
    request[t].form.shaken

(* A live session that the browser neither holds nor is about to be given  *)
(* was left behind by logins and logouts that overlapped or by one whose   *)
(* answer never came, and a login that runs alone puts an end to it        *)
(* (adminAuth.js:86-89, adminAuthController.js:59-75).                     *)
OrphansHaveCause ==
  \A s \in open : \/ jar.session = s
                  \/ \E t \in Tabs : request[t].session = s /\ request[t].answer # "error"
                  \/ troubled

(* The admin pages send to the login form who is not logged in, the form   *)
(* sends back who is: a browser is not sent to and fro for ever.  The first*)
(* redirection may answer a request sent before the last session came or   *)
(* went, the second tells what holds now                                   *)
(* (adminAuthController.js:16-18, adminAuth.js:103-108).                   *)
RedirectsSettle == \A t \in Tabs : request[t].hops <= 2
=============================================================================
