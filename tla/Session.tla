------------------------------ MODULE Session -------------------------------
(***************************************************************************)
(* Logging in and out.  The tabs of one browser share the local storage    *)
(* with the token; each has its own idea of who the user is, its timers    *)
(* that wait for a token and its websocket connections.  A login runs in a *)
(* popup: the server sends it to OpenStreetMap to authorize, from where it *)
(* comes back to the callback, which creates the token, and the landing    *)
(* page stores it.  Logins share the callback URL of the server.           *)
(*                                                                         *)
(* A request that is granted has no effect here and is not a step; only    *)
(* refusals and errors are on their way for a while.                       *)
(***************************************************************************)
EXTENDS Integers, Sequences

CONSTANTS
    User, Tab,
    MaxLogins, MaxTimers, MaxRestarts,  \* bounds
    Nobody,                             \* the user without name and id
    NoUser, NoToken

ASSUME SessionAssumption ==
    /\ MaxLogins \in Nat \ {0} /\ MaxTimers \in Nat \ {0} /\ MaxRestarts \in Nat
    /\ Nobody \notin User /\ NoUser \notin User \cup {Nobody}

VARIABLES
    alive,        \* the tokens the server accepts
    callbackUrl,  \* the login whose key is in the shared callback URL
    configs,      \* the logins whose configuration is stored by its key
    restarts,
    logins,       \* the login processes, in the order of the clicks
    auth_token,   \* in the local storage
    tab           \* the state of each tab

vars == <<alive, callbackUrl, configs, restarts, logins, auth_token, tab>>
server == <<alive, callbackUrl, configs, restarts>>

-----------------------------------------------------------------------------
Login == 1 .. MaxLogins
Account == User \cup {Nobody}
Token == [user : Account, login : Login]

ASSUME TokenAssumption == NoToken \notin Token

Phase == {"clicked", "named", "asked", "authorizing", "authorized", "landing", "done", "failed"}

\* callback: the key in the callback URL that OpenStreetMap got for the login.
\* by: who authorized it.  token: what the server created.  trouble: what went
\* wrong with it that has nothing to do with other logins.
LoginState == [tab : Tab, phase : Phase, callback : Login \cup {0}, by : User \cup {NoUser},
               token : Token \cup {NoToken}, trouble : {"none", "osm", "restart"}]

\* Of a refusal it matters which token the request had, of another error not.
Answer == [status : {401}, token : Token \cup {NoToken}] \cup [status : {500}]

\* sockets: the tokens with which it has made websocket connections, see Open.
\* answers: failed requests, on their way to the tab.  switched: the user changed
\* under the page without a login here.  asked: for a login that has not come to
\* anything since.
TabState == [page : {"blank", "login", "inside"}, currentUser : Account \cup {NoUser}, timers : 0 .. MaxTimers,
             sockets : SUBSET Token, answers : SUBSET Answer,
             switched : BOOLEAN, asked : BOOLEAN]

TypeOK ==
    /\ alive \subseteq Token
    /\ callbackUrl \in Login \cup {0}
    /\ configs \subseteq Login
    /\ restarts \in 0 .. MaxRestarts
    /\ logins \in Seq(LoginState) /\ Len(logins) <= MaxLogins
    /\ auth_token \in Token \cup {NoToken}
    /\ tab \in [Tab -> TabState]

Unloaded == [page |-> "login", currentUser |-> NoUser, timers |-> 0, sockets |-> {}, answers |-> {},
             switched |-> FALSE, asked |-> FALSE]

Init ==
    /\ alive = {} /\ callbackUrl = 0 /\ configs = {} /\ restarts = 0
    /\ logins = <<>>
    /\ auth_token = NoToken
    /\ tab = [t \in Tab |-> Unloaded]

-----------------------------------------------------------------------------
\* The server's side of a login: three steps of OauthLogin, around the request
\* for a request token, and OauthCallback.
At(n, phase) == n \in DOMAIN logins /\ logins[n].phase = phase

OauthLogin(n) ==
    /\ At(n, "clicked")
    /\ callbackUrl' = n
    /\ logins' = [logins EXCEPT ![n].phase = "named"]
    /\ UNCHANGED <<alive, configs, restarts, auth_token, tab>>

\* OpenStreetMap answers with an error, or not at all: the login ends.
Broken(n) == [logins[n] EXCEPT !.phase = "failed", !.trouble = "osm"]

GetRequestToken(n) ==
    /\ At(n, "named")
    /\ logins' \in {[logins EXCEPT ![n].phase = "asked", ![n].callback = callbackUrl],
                    [logins EXCEPT ![n] = Broken(n)]}
    /\ UNCHANGED <<server, auth_token, tab>>

RedirectToAuthorize(n) ==
    /\ At(n, "asked")
    /\ configs' = configs \cup {n}
    /\ logins' = [logins EXCEPT ![n].phase = "authorizing"]
    /\ UNCHANGED <<alive, callbackUrl, restarts, auth_token, tab>>

\* The popup window has a name: the tab's next login takes it over.
InPopup(n) == \A m \in DOMAIN logins : m > n => logins[m].tab # logins[n].tab

\* OpenStreetMap, where a user authorizes what the popup shows.
Authorize(n) ==
    /\ At(n, "authorizing")
    /\ InPopup(n)
    /\ \E u \in User : logins' = [logins EXCEPT ![n].phase = "authorized", ![n].by = u]
    /\ UNCHANGED <<server, auth_token, tab>>

\* It gives the access token for a request token to who brings the verifier of
\* its authorization.
AccessGranted_Unverified(requestToken, verifier) == logins[requestToken].by # NoUser

AccessGranted(requestToken, verifier) == requestToken = verifier

\* What becomes of a login whose configuration is found: access token and user
\* are asked for.  Of the answer to the latter the status is not looked at; an
\* error is taken for a user without name and id.
Failed(n) == [logins[n] EXCEPT !.phase = "failed"]

Outcomes(n, key) ==
    LET Landing(user, trouble) ==
            [logins[n] EXCEPT !.phase = "landing", !.token = [user |-> user, login |-> n], !.trouble = trouble]
    IN  {Broken(n)} \cup
        (IF AccessGranted(key, n)
         THEN {Landing(logins[key].by, logins[n].trouble), Landing(Nobody, "osm")} ELSE {Failed(n)})

Without_All(key) == {}

Without(key) == configs \ {key}

OauthCallback(n) ==
    LET key == logins[n].callback
    IN  /\ At(n, "authorized")
        /\ configs' = Without(key)
        /\ \E l \in IF key \in configs THEN Outcomes(n, key) ELSE {Failed(n)} :
              /\ logins' = [logins EXCEPT ![n] = l]
              /\ alive' = IF l.phase = "landing" THEN alive \cup {l.token} ELSE alive
        /\ UNCHANGED <<callbackUrl, restarts, auth_token, tab>>

\* With the start comes a new key for the secrets of the tokens, so that no
\* websocket stays open.  Requests of a login that are under way fail, and a
\* login that is still at OpenStreetMap will find no configuration.
Struck(l) ==
    CASE l.phase \in {"clicked", "named", "asked"} -> [l EXCEPT !.phase = "failed", !.trouble = "restart"]
      [] l.phase \in {"authorizing", "authorized"} -> [l EXCEPT !.trouble = "restart"]
      [] OTHER -> l

Restart ==
    /\ restarts < MaxRestarts
    /\ restarts' = restarts + 1
    /\ alive' = {} /\ callbackUrl' = 0 /\ configs' = {}
    /\ logins' = [n \in DOMAIN logins |-> Struck(logins[n])]
    /\ UNCHANGED <<auth_token, tab>>

Expire ==
    /\ \E token \in alive : alive' = alive \ {token}
    /\ UNCHANGED <<callbackUrl, configs, restarts, logins, auth_token, tab>>

-----------------------------------------------------------------------------
\* The browser.  What a request of the tab comes to: the interceptor adds the
\* token from the storage, whoever the tab takes for its user.
Answered(s, token) ==
    IF token \in alive THEN s ELSE [s EXCEPT !.answers = @ \cup {[status |-> 401, token |-> token]}]

\* AuthGuard of a page inside, and the requests of its resolvers: without a
\* token to the login page; if they are refused the old page stays.
canActivate(s, token) ==
    IF token = NoToken THEN [s EXCEPT !.page = "login", !.currentUser = NoUser, !.switched = FALSE]
    ELSE LET known == [s EXCEPT !.currentUser = token.user,
                                !.switched = @ \/ (s.page = "inside" /\ s.currentUser # token.user)]
         IN  IF token \in alive THEN [known EXCEPT !.page = "inside"] ELSE Answered(known, token)

\* The websocket client connects with the token of the moment.  Whenever the
\* connection is lost or refused, it tries again a second later, for ever and
\* with the same token, which the server accepts or not.
connect(s, token) == IF token = NoToken THEN s ELSE [s EXCEPT !.sockets = @ \cup {token}]

\* The sockets that get messages, or will in a second.  One whose token has
\* expired may be open, but is not opened again.
Open(t) == tab[t].sockets \cap alive

browser == <<logins, auth_token>>

\* The tab is loaded anew; with a token the websocket client connects.
Load(t) ==
    /\ tab' = [tab EXCEPT ![t] =
                 canActivate(connect([Unloaded EXCEPT !.page = "blank"], auth_token), auth_token)]
    /\ UNCHANGED <<server, browser>>

Navigate(t) ==
    /\ tab[t].page = "inside"
    /\ tab' = [tab EXCEPT ![t] = canActivate(@, auth_token)]
    /\ UNCHANGED <<server, browser>>

\* A request of the page that fails.  Bound: no other failure is on its way.
Request(t) ==
    /\ tab[t].page = "inside"
    /\ \A u \in Tab : tab[u].answers = {}
    /\ \E answer \in {[status |-> 500]} \cup
                    (IF auth_token \in alive THEN {} ELSE {[status |-> 401, token |-> auth_token]}) :
          tab' = [tab EXCEPT ![t].answers = {answer}]
    /\ UNCHANGED <<server, browser>>

\* Each click starts a login and another timer.
requestLogin(t) ==
    /\ tab[t].page = "login"
    /\ Len(logins) < MaxLogins /\ tab[t].timers < MaxTimers
    /\ logins' = Append(logins, [tab |-> t, phase |-> "clicked", callback |-> 0, by |-> NoUser,
                                 token |-> NoToken, trouble |-> "none"])
    /\ tab' = [tab EXCEPT ![t].timers = @ + 1, ![t].asked = TRUE]
    /\ UNCHANGED <<server, auth_token>>

\* OauthLandingComponent, in the popup, which then closes.
OauthLanding(n) ==
    /\ At(n, "landing")
    /\ InPopup(n)
    /\ auth_token' = logins[n].token
    /\ logins' = [logins EXCEPT ![n].phase = "done"]
    /\ UNCHANGED <<server, tab>>

\* The callback of the login component: it connects and goes inside.
loggedIn_Unconnected(s, token) ==
    canActivate([s EXCEPT !.currentUser = token.user, !.switched = FALSE, !.asked = FALSE], token)

loggedIn(s, token) ==
    canActivate(connect([s EXCEPT !.currentUser = token.user, !.switched = FALSE, !.asked = FALSE],
                        token), token)

waitForLocalStorageToken_Once(t) ==
    /\ tab[t].timers > 0
    /\ tab' = LET s == [tab[t] EXCEPT !.timers = @ - 1]
              IN  [tab EXCEPT ![t] = IF auth_token = NoToken THEN s ELSE loggedIn(s, auth_token)]
    /\ UNCHANGED <<server, browser>>

\* A timer sees a token.
waitForLocalStorageToken(t) ==
    /\ tab[t].timers > 0
    /\ auth_token # NoToken
    /\ tab' = [tab EXCEPT ![t] = loggedIn([tab[t] EXCEPT !.timers = @ - 1], auth_token)]
    /\ UNCHANGED <<server, browser>>

logout(t, s) ==
    /\ auth_token' = NoToken
    /\ tab' = [tab EXCEPT ![t] = [s EXCEPT !.currentUser = NoUser, !.page = "login", !.switched = FALSE]]

onLogoutClicked(t) ==
    /\ tab[t].page = "inside"
    /\ logout(t, tab[t])
    /\ UNCHANGED <<server, logins>>

\* The interceptor gets an answer: not authorized, by whatever token, is a
\* logout.
intercept_AnyError(t) == \E answer \in tab[t].answers :
    LET s == [tab[t] EXCEPT !.answers = @ \ {answer}]
    IN  /\ logout(t, s)
        /\ UNCHANGED <<server, logins>>

intercept(t) == \E answer \in tab[t].answers :
    LET s == [tab[t] EXCEPT !.answers = @ \ {answer}]
    IN  /\ IF answer.status = 401 THEN logout(t, s)
           ELSE tab' = [tab EXCEPT ![t] = s] /\ UNCHANGED auth_token
        /\ UNCHANGED <<server, logins>>

Next ==
    \/ \E n \in Login : \/ OauthLogin(n) \/ GetRequestToken(n) \/ RedirectToAuthorize(n)
                        \/ Authorize(n) \/ OauthCallback(n) \/ OauthLanding(n)
    \/ Restart \/ Expire
    \/ \E t \in Tab : \/ Load(t) \/ Navigate(t) \/ Request(t) \/ requestLogin(t)
                      \/ waitForLocalStorageToken(t) \/ onLogoutClicked(t) \/ intercept(t)

\* Timers run.
Spec == Init /\ [][Next]_vars /\ \A t \in Tab : WF_vars(waitForLocalStorageToken(t))

-----------------------------------------------------------------------------
\* However logins mix up, a token is of the user who authorized in the popup
\* that the token comes back to, or of nobody if OpenStreetMap did not tell who
\* he is; it is never of another user.
TokenIsOwn == \A n \in DOMAIN logins : logins[n].token # NoToken =>
    /\ logins[n].token.login = n
    /\ \/ logins[n].token.user = logins[n].by
       \/ logins[n].token.user = Nobody /\ logins[n].trouble = "osm"

SessionOK == TypeOK /\ TokenIsOwn

\* A login that fails without an error of OpenStreetMap and without a restart of
\* the server fails because of another one: both were in OauthLogin at the same
\* time and their callback URLs were mixed up.
FailsByOther ==
    \A n \in DOMAIN logins : logins[n].phase = "failed" /\ logins[n].trouble = "none" =>
        \/ logins[n].callback # n
        \/ \E m \in (DOMAIN logins) \ {n} : logins[m].callback = n

\* A tab that is inside, however it came there, has a websocket of its user, unless
\* a login in another tab has switched the user; and one that gets his messages,
\* unless the stored token is no longer accepted or the tab never connected with
\* it, since another tab got it.
InsideIsConnected == \A t \in Tab :
    tab[t].page = "inside" /\ ~tab[t].switched =>
        \E token \in tab[t].sockets :
            /\ token.user = tab[t].currentUser
            /\ auth_token \in Open(t) => token \in Open(t)

\* A token the server accepts goes from the storage only by a logout, a login,
\* or by an answer that was late: to a request with an older token, or none.
SessionKept ==
    [][auth_token' # auth_token /\ auth_token \in alive =>
          \/ \E t \in Tab : onLogoutClicked(t)
          \/ \E n \in Login : OauthLanding(n)
          \/ \E t \in Tab : \E answer \in tab[t].answers :
                /\ answer.status = 401 /\ answer.token # auth_token
                /\ answer \notin tab'[t].answers]_vars

\* Whoever asked for a login is taken inside by the first token that stays,
\* though another tab may have got it; if it is no longer accepted he must ask
\* again.
LoginLeadsIn == \A t \in Tab : []<>(~tab[t].asked \/ auth_token = NoToken)
=============================================================================
