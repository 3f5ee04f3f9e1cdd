--------------------------- MODULE Session_proofs ---------------------------
(***************************************************************************)
(* Proofs about Session.tla, for any number of users, tabs, logins and     *)
(* restarts.  The invariant follows a token from the callback to the       *)
(* popup, the storage and the requests: a refused one was not accepted     *)
(* when it was sent and is never accepted again, since each login makes a  *)
(* token of its own.                                                       *)
(***************************************************************************)
EXTENDS Session, SequenceTheorems, TLAPS

\* The login has got its token.
HasToken(n) == At(n, "landing") \/ At(n, "done")

\* It has been stored in the browser.
Landed(token) == At(token.login, "done")

\* A token that exists, or none.
Made(token) == token = NoToken \/ (token \in Token /\ HasToken(token.login))

\* What a login knows in each phase.
LoginsOK == \A n \in DOMAIN logins :
    LET l == logins[n] IN
    /\ l.phase \in {"clicked", "named"} => l.callback = 0
    /\ l.phase \in {"authorized", "landing", "done"} => l.by \in User
    /\ IF l.phase \in {"landing", "done"}
       THEN /\ l.token \in Token /\ l.token.login = n
            /\ l.token.user = l.by \/ (l.token.user = Nobody /\ l.trouble = "osm")
       ELSE l.token = NoToken

\* The configuration of a login that is still to come back is missing only after
\* a restart, or if the callback of another one took it.
ConfigsOK ==
    \A n \in DOMAIN logins :
        logins[n].phase \in {"authorizing", "authorized"} /\ n \notin configs
            /\ logins[n].trouble = "none" =>
            \E m \in (DOMAIN logins) \ {n} : logins[m].callback = n

\* A refused token is dead.
Dead(answer) == answer.status = 401 => Made(answer.token) /\ answer.token \notin alive

AnswersOK == \A t \in Tab : \A answer \in tab[t].answers : Dead(answer)

StorageOK == auth_token = NoToken \/ (auth_token \in Token /\ Landed(auth_token))

\* A tab connects with tokens that were stored, and is inside as the user of the
\* token that is, if it has connected with that one.
Connected == \A t \in Tab :
    /\ \A token \in tab[t].sockets : Landed(token)
    /\ tab[t].page = "inside" /\ auth_token \in tab[t].sockets => tab[t].currentUser = auth_token.user
    /\ tab[t].page = "inside" /\ ~tab[t].switched =>
          \E token \in tab[t].sockets : token.user = tab[t].currentUser

IInv == TypeOK /\ LoginsOK /\ ConfigsOK /\ FailsByOther /\ StorageOK /\ AnswersOK
          /\ Connected

-----------------------------------------------------------------------------
\* The logins as a function on the numbers of those that were started.
LEMMA LoginsType ==
    ASSUME TypeOK
    PROVE  /\ DOMAIN logins = 1 .. Len(logins) /\ Len(logins) \in 0 .. MaxLogins
           /\ \A n \in DOMAIN logins : logins[n] \in LoginState /\ n \in Login
  BY LenProperties, ElementOfSeq, SessionAssumption DEF TypeOK, Login

\* One login moves on.
LEMMA LoginMoves ==
    ASSUME TypeOK, NEW n \in DOMAIN logins, NEW l \in LoginState,
           logins' = [logins EXCEPT ![n] = l]
    PROVE  /\ logins' \in Seq(LoginState) /\ Len(logins') = Len(logins)
           /\ DOMAIN logins' = DOMAIN logins
           /\ logins'[n] = l
           /\ \A m \in DOMAIN logins : m # n => logins'[m] = logins[m]
  <1>1. logins \in Seq(LoginState) /\ DOMAIN logins = 1 .. Len(logins)
    BY LoginsType DEF TypeOK
  <1>2. logins' \in Seq(LoginState) /\ Len(logins') = Len(logins)
    BY <1>1, ExceptSeq
  <1> QED
    BY <1>1, <1>2

\* What a restart does to a login.
LEMMA StruckLogin ==
    ASSUME NEW l \in LoginState
    PROVE  /\ Struck(l) \in LoginState
           /\ Struck(l).token = l.token /\ Struck(l).by = l.by /\ Struck(l).callback = l.callback
           /\ \/ Struck(l) = l /\ l.phase \in {"landing", "done", "failed"}
              \/ /\ Struck(l).trouble = "restart"
                 /\ Struck(l).phase \in {l.phase, "failed"}
                 /\ l.phase \notin {"landing", "done", "failed"}
  BY DEF Struck, LoginState, Phase

LEMMA LoginsStruck ==
    ASSUME TypeOK, Restart
    PROVE  /\ logins' \in Seq(LoginState) /\ Len(logins') = Len(logins)
           /\ DOMAIN logins' = DOMAIN logins
           /\ \A n \in DOMAIN logins : logins'[n] = Struck(logins[n])
  <1> DEFINE L == [n \in DOMAIN logins |-> Struck(logins[n])]
  <1>1. DOMAIN logins = 1 .. Len(logins) /\ Len(logins) \in Nat
    BY LoginsType, SessionAssumption
  <1>2. \A n \in DOMAIN logins : L[n] \in LoginState
    BY LoginsType, StruckLogin
  <1>3. L \in [1 .. Len(logins) -> LoginState]
    BY <1>1, <1>2
  <1>4. L \in Seq(LoginState) /\ Len(L) = Len(logins)
    BY <1>1, <1>3
  <1>5. logins' = L
    BY DEF Restart
  <1> QED
    BY <1>1, <1>4, <1>5

\* A token stays made while its login goes on.
LEMMA TokensStay ==
    ASSUME TypeOK, NEW n \in DOMAIN logins, NEW l \in LoginState,
           logins' = [logins EXCEPT ![n] = l],
           logins[n].phase \in {"landing", "done"} => l.phase \in {"landing", "done"}
    PROVE  \A token : Made(token) => Made(token)'
  BY LoginMoves DEF Made, HasToken, At

\* And stays stored.
LEMMA LandedStay ==
    ASSUME TypeOK, NEW n \in DOMAIN logins, NEW l \in LoginState,
           logins' = [logins EXCEPT ![n] = l],
           logins[n].phase = "done" => l.phase = "done"
    PROVE  \A token : Landed(token) => Landed(token)'
  BY LoginMoves DEF Landed, At

LEMMA StoredIsMade ==
    ASSUME IInv
    PROVE  Made(auth_token) /\ (auth_token = NoToken \/ auth_token.user \in Account)
  BY DEF IInv, StorageOK, Landed, Made, HasToken, Token

\* The part of a step that is about the logins, if no token is created.
LEMMA LoginKeeps ==
    ASSUME IInv, NEW n \in DOMAIN logins, NEW l \in LoginState,
           logins' = [logins EXCEPT ![n] = l],
           UNCHANGED <<alive, restarts, auth_token, tab>>,
           callbackUrl' \in Login \cup {0}, configs' \subseteq Login,
           l.phase \notin {"landing", "done"} /\ l.token = NoToken,
           logins[n].phase \notin {"landing", "done"}
    PROVE  TypeOK' /\ StorageOK' /\ AnswersOK' /\ Connected'
  <1>1. logins' \in Seq(LoginState) /\ Len(logins') = Len(logins)
    BY LoginMoves DEF IInv
  <1>2. TypeOK'
    BY <1>1 DEF IInv, TypeOK
  <1>3. \A token : (Made(token) => Made(token)') /\ (Landed(token) => Landed(token)')
    BY TokensStay, LandedStay DEF IInv
  <1>4. Connected'
    BY <1>3 DEF IInv, Connected
  <1>5. StorageOK'
    BY <1>3 DEF IInv, StorageOK
  <1>6. AnswersOK'
    BY <1>3 DEF IInv, AnswersOK, Dead
  <1> QED
    BY <1>2, <1>4, <1>5, <1>6

\* OauthLogin only says which login it is; with its answer the server learns
\* which key OpenStreetMap got; then it stores the configuration.
LEMMA OauthLoginKeeps ==
    ASSUME IInv, NEW n \in Login, OauthLogin(n)
    PROVE  IInv'
  <1> DEFINE l == [logins[n] EXCEPT !.phase = "named"]
  <1>1. /\ n \in DOMAIN logins /\ logins[n].phase = "clicked" /\ logins[n] \in LoginState
        /\ logins' = [logins EXCEPT ![n] = l]
        /\ UNCHANGED <<alive, restarts, auth_token, tab, configs>> /\ callbackUrl' = n
    BY LoginsType DEF OauthLogin, At, IInv
  <1>2. logins[n].callback = 0 /\ logins[n].token = NoToken
    BY <1>1 DEF IInv, LoginsOK
  <1>3. /\ l \in LoginState /\ l.phase = "named" /\ l.callback = 0 /\ l.token = NoToken
        /\ l.by = logins[n].by /\ l.trouble = logins[n].trouble
    BY <1>1, <1>2 DEF LoginState, Phase
  <1> HIDE DEF l
  <1>4. TypeOK' /\ StorageOK' /\ AnswersOK' /\ Connected'
    BY <1>1, <1>3, LoginKeeps DEF IInv, TypeOK
  <1>5. /\ DOMAIN logins' = DOMAIN logins /\ logins'[n] = l
        /\ \A m \in DOMAIN logins : m # n => logins'[m] = logins[m]
    BY <1>1, <1>3, LoginMoves DEF IInv
  <1>6. LoginsOK'
    BY <1>3, <1>5 DEF IInv, LoginsOK
  <1>7. \A m \in DOMAIN logins : logins'[m].callback = logins[m].callback
    BY <1>2, <1>3, <1>5
  <1>8. ConfigsOK'
    BY <1>1, <1>3, <1>5, <1>7 DEF IInv, ConfigsOK
  <1>9. FailsByOther'
    BY <1>1, <1>3, <1>5, <1>7 DEF IInv, FailsByOther
  <1> QED
    BY <1>4, <1>6, <1>8, <1>9 DEF IInv

\* A login that OpenStreetMap breaks has its excuse.
LEMMA BrokenKeeps ==
    ASSUME IInv, NEW n \in DOMAIN logins, logins[n].phase \notin {"landing", "done"},
           logins' = [logins EXCEPT ![n] = Broken(n)],
           \/ configs' = configs
           \/ configs' = configs \ {logins[n].callback} /\ logins[n].phase = "authorized",
           UNCHANGED <<alive, restarts, auth_token, tab, callbackUrl>>
    PROVE  IInv'
  <1> DEFINE l == Broken(n)
  <1>1. logins[n] \in LoginState /\ logins[n].token = NoToken
    BY LoginsType DEF IInv, LoginsOK
  <1>2. /\ l \in LoginState /\ l.phase = "failed" /\ l.token = NoToken /\ l.trouble = "osm"
        /\ l.callback = logins[n].callback
    BY <1>1 DEF Broken, LoginState, Phase
  <1>10. logins' = [logins EXCEPT ![n] = l]
    OBVIOUS
  <1> HIDE DEF l
  <1>3. configs' \subseteq Login /\ callbackUrl' \in Login \cup {0}
    BY DEF IInv, TypeOK
  <1>4. TypeOK' /\ StorageOK' /\ AnswersOK' /\ Connected'
    BY <1>2, <1>3, <1>10, LoginKeeps
  <1>5. /\ DOMAIN logins' = DOMAIN logins /\ logins'[n] = l
        /\ \A m \in DOMAIN logins : m # n => logins'[m] = logins[m]
    BY <1>2, <1>10, LoginMoves DEF IInv
  <1>6. LoginsOK'
    BY <1>2, <1>5 DEF IInv, LoginsOK
  <1>7. \A m \in DOMAIN logins : logins'[m].callback = logins[m].callback
    BY <1>2, <1>5
  <1>8. ConfigsOK'
    BY <1>2, <1>5, <1>7 DEF IInv, ConfigsOK
  <1>9. FailsByOther'
    BY <1>2, <1>5, <1>7 DEF IInv, FailsByOther
  <1> QED
    BY <1>4, <1>6, <1>8, <1>9 DEF IInv

\* OpenStreetMap gets the key that is in the shared URL.
LEMMA GetRequestTokenKeeps ==
    ASSUME IInv, NEW n \in Login, GetRequestToken(n)
    PROVE  IInv'
  <1> DEFINE l == [logins[n] EXCEPT !.phase = "asked", !.callback = callbackUrl]
  <1>1. /\ n \in DOMAIN logins /\ logins[n].phase = "named" /\ logins[n] \in LoginState
        /\ UNCHANGED <<alive, restarts, auth_token, tab, configs, callbackUrl>>
    BY LoginsType DEF GetRequestToken, At, IInv, server
  <1>10. logins' = [logins EXCEPT ![n] = l] \/ logins' = [logins EXCEPT ![n] = Broken(n)]
    BY DEF GetRequestToken
  <1>11. ASSUME logins' = [logins EXCEPT ![n] = Broken(n)]
         PROVE  IInv'
    BY <1>1, <1>11, BrokenKeeps
  <1>12. SUFFICES ASSUME logins' = [logins EXCEPT ![n] = l]
                  PROVE  IInv'
    BY <1>10, <1>11
  <1>2. logins[n].callback = 0 /\ logins[n].token = NoToken
    BY <1>1 DEF IInv, LoginsOK
  <1>3. /\ l \in LoginState /\ l.phase = "asked" /\ l.token = NoToken
        /\ l.by = logins[n].by /\ l.trouble = logins[n].trouble
    BY <1>1, <1>2 DEF LoginState, Phase, IInv, TypeOK
  <1> HIDE DEF l
  <1>4. TypeOK' /\ StorageOK' /\ AnswersOK' /\ Connected'
    BY <1>1, <1>3, <1>12, LoginKeeps DEF IInv, TypeOK
  <1>5. /\ DOMAIN logins' = DOMAIN logins /\ logins'[n] = l
        /\ \A m \in DOMAIN logins : m # n => logins'[m] = logins[m]
        /\ 0 \notin DOMAIN logins
    BY <1>1, <1>3, <1>12, LoginMoves, LoginsType DEF IInv, Login
  <1>6. LoginsOK'
    BY <1>3, <1>5 DEF IInv, LoginsOK
  <1>7. \A m, o \in DOMAIN logins : logins[m].callback = o => logins'[m].callback = o
    BY <1>2, <1>5
  <1>8. ConfigsOK'
    BY <1>1, <1>3, <1>5, <1>7 DEF IInv, ConfigsOK
  <1>9. FailsByOther'
    BY <1>1, <1>3, <1>5, <1>7 DEF IInv, FailsByOther
  <1> QED
    BY <1>4, <1>6, <1>8, <1>9 DEF IInv

\* The configuration is stored by the key of the login.
LEMMA RedirectKeeps ==
    ASSUME IInv, NEW n \in Login, RedirectToAuthorize(n)
    PROVE  IInv'
  <1> DEFINE l == [logins[n] EXCEPT !.phase = "authorizing"]
  <1>1. /\ n \in DOMAIN logins /\ logins[n].phase = "asked" /\ logins[n] \in LoginState
        /\ logins' = [logins EXCEPT ![n] = l]
        /\ UNCHANGED <<alive, restarts, auth_token, tab, callbackUrl>>
        /\ configs' = configs \cup {n} /\ configs' \subseteq Login
    BY LoginsType DEF RedirectToAuthorize, At, IInv, TypeOK
  <1>2. logins[n].token = NoToken
    BY <1>1 DEF IInv, LoginsOK
  <1>3. /\ l \in LoginState /\ l.phase = "authorizing" /\ l.token = NoToken
        /\ l.callback = logins[n].callback /\ l.trouble = logins[n].trouble
    BY <1>1, <1>2 DEF LoginState, Phase
  <1> HIDE DEF l
  <1>4. TypeOK' /\ StorageOK' /\ AnswersOK' /\ Connected'
    BY <1>1, <1>3, LoginKeeps DEF IInv, TypeOK
  <1>5. /\ DOMAIN logins' = DOMAIN logins /\ logins'[n] = l
        /\ \A m \in DOMAIN logins : m # n => logins'[m] = logins[m]
    BY <1>1, <1>3, LoginMoves DEF IInv
  <1>6. LoginsOK'
    BY <1>3, <1>5 DEF IInv, LoginsOK
  <1>7. \A m \in DOMAIN logins : logins'[m].callback = logins[m].callback
    BY <1>3, <1>5
  <1>8. ConfigsOK'
    BY <1>1, <1>3, <1>5, <1>7 DEF IInv, ConfigsOK
  <1>9. FailsByOther'
    BY <1>1, <1>3, <1>5, <1>7 DEF IInv, FailsByOther
  <1> QED
    BY <1>4, <1>6, <1>8, <1>9 DEF IInv

\* Some user authorizes what his popup shows.
LEMMA AuthorizeKeeps ==
    ASSUME IInv, NEW n \in Login, Authorize(n)
    PROVE  IInv'
  <1>1. PICK u \in User : logins' = [logins EXCEPT ![n].phase = "authorized", ![n].by = u]
    BY DEF Authorize
  <1> DEFINE l == [logins[n] EXCEPT !.phase = "authorized", !.by = u]
  <1>2. /\ n \in DOMAIN logins /\ logins[n].phase = "authorizing" /\ logins[n] \in LoginState
        /\ logins' = [logins EXCEPT ![n] = l]
        /\ UNCHANGED <<alive, restarts, auth_token, tab, callbackUrl, configs>>
    BY <1>1, LoginsType DEF Authorize, At, IInv, TypeOK, server
  <1>3. logins[n].token = NoToken
    BY <1>2 DEF IInv, LoginsOK
  <1>4. /\ l \in LoginState /\ l.phase = "authorized" /\ l.token = NoToken /\ l.by \in User
        /\ l.callback = logins[n].callback /\ l.trouble = logins[n].trouble
    BY <1>2, <1>3 DEF LoginState, Phase
  <1> HIDE DEF l
  <1>5. TypeOK' /\ StorageOK' /\ AnswersOK' /\ Connected'
    BY <1>2, <1>4, LoginKeeps DEF IInv, TypeOK
  <1>6. /\ DOMAIN logins' = DOMAIN logins /\ logins'[n] = l
        /\ \A m \in DOMAIN logins : m # n => logins'[m] = logins[m]
    BY <1>2, <1>4, LoginMoves DEF IInv
  <1>7. LoginsOK'
    BY <1>4, <1>6 DEF IInv, LoginsOK
  <1>8. \A m \in DOMAIN logins : logins'[m].callback = logins[m].callback
    BY <1>4, <1>6
  <1>9. ConfigsOK'
    BY <1>2, <1>4, <1>6, <1>8 DEF IInv, ConfigsOK
  <1>10. FailsByOther'
    BY <1>2, <1>4, <1>6, <1>8 DEF IInv, FailsByOther
  <1> QED
    BY <1>5, <1>7, <1>9, <1>10 DEF IInv

\* A token nobody has used is created.
LEMMA TokenKeeps ==
    ASSUME IInv, NEW n \in DOMAIN logins, logins[n].phase = "authorized",
           NEW token \in Token, token.login = n,
           NEW trouble \in {"none", "osm", "restart"},
           token.user = logins[n].by \/ (token.user = Nobody /\ trouble = "osm"),
           NEW l, l = [logins[n] EXCEPT !.phase = "landing", !.token = token, !.trouble = trouble],
           logins' = [logins EXCEPT ![n] = l],
           alive' = alive \cup {token}, configs' = configs \ {n}, logins[n].callback = n,
           UNCHANGED <<callbackUrl, restarts, auth_token, tab>>
    PROVE  IInv'
  <1>1. logins[n] \in LoginState /\ configs' \subseteq Login /\ logins[n].by \in User
    BY LoginsType DEF IInv, TypeOK, LoginsOK
  <1>2. /\ l \in LoginState /\ l.phase = "landing" /\ l.token = token /\ l.trouble = trouble
        /\ l.by = logins[n].by /\ l.callback = logins[n].callback
    BY <1>1 DEF LoginState, Phase
  <1>4. /\ DOMAIN logins' = DOMAIN logins /\ logins'[n] = l
        /\ logins' \in Seq(LoginState) /\ Len(logins') = Len(logins)
        /\ \A m \in DOMAIN logins : m # n => logins'[m] = logins[m]
    BY <1>2, LoginMoves DEF IInv
  <1>5. TypeOK'
    BY <1>1, <1>4 DEF IInv, TypeOK
  <1>6. LoginsOK'
    BY <1>1, <1>2, <1>4 DEF IInv, LoginsOK
  <1>7. \A m \in DOMAIN logins : logins'[m].callback = logins[m].callback
    BY <1>2, <1>4
  <1>8. ConfigsOK'
    BY <1>2, <1>4, <1>7 DEF IInv, ConfigsOK
  <1>9. FailsByOther'
    BY <1>2, <1>4, <1>7 DEF IInv, FailsByOther
  <1>10. \A k : Made(k) => Made(k)' /\ k # token
    <2>1. \A k : Made(k) => Made(k)'
      BY <1>2, TokensStay DEF IInv
    <2>2. ~Made(token)
      BY TokenAssumption DEF Made, HasToken, At
    <2> QED
      BY <2>1, <2>2
  <1>14. \A k : Landed(k) => Landed(k)'
    BY <1>2, LandedStay DEF IInv
  <1>11. StorageOK'
    BY <1>14 DEF IInv, StorageOK
  <1>12. AnswersOK'
    BY <1>10 DEF IInv, AnswersOK, Dead
  <1>13. Connected'
    BY <1>14 DEF IInv, Connected
  <1> QED
    BY <1>5, <1>6, <1>8, <1>9, <1>11, <1>12, <1>13 DEF IInv

\* The callback creates a token, or the login fails, for want of its
\* configuration, for that of another one or by an error of OpenStreetMap.
LEMMA OauthCallbackKeeps ==
    ASSUME IInv, NEW n \in Login, OauthCallback(n)
    PROVE  IInv'
  <1> DEFINE key == logins[n].callback
  <1>1. /\ n \in DOMAIN logins /\ logins[n].phase = "authorized" /\ logins[n] \in LoginState
        /\ configs' = configs \ {key} /\ configs' \subseteq Login
        /\ UNCHANGED <<callbackUrl, restarts, auth_token, tab>>
    BY LoginsType DEF OauthCallback, Without, At, IInv, TypeOK
  <1>2. logins[n].token = NoToken /\ logins[n].by \in User
    BY <1>1 DEF IInv, LoginsOK
  <1>3. PICK l \in IF key \in configs THEN Outcomes(n, key) ELSE {Failed(n)} :
          /\ logins' = [logins EXCEPT ![n] = l]
          /\ alive' = IF l.phase = "landing" THEN alive \cup {l.token} ELSE alive
    BY DEF OauthCallback
  <1>4. ASSUME l = Broken(n)
        PROVE  IInv'
    <2>1. l.phase = "failed"
      BY <1>1, <1>4 DEF Broken, LoginState
    <2> QED
      BY <1>1, <1>3, <1>4, <2>1, BrokenKeeps
  <1>5. ASSUME NEW user \in Account, NEW trouble \in {"none", "osm", "restart"}, key = n,
               user = logins[n].by \/ (user = Nobody /\ trouble = "osm"),
               l = [logins[n] EXCEPT !.phase = "landing", !.token = [user |-> user, login |-> n],
                                     !.trouble = trouble]
        PROVE  IInv'
    <2> DEFINE token == [user |-> user, login |-> n]
    <2>1. token \in Token /\ token.user = user /\ token.login = n
      BY DEF Token
    <2> HIDE DEF token
    <2>2. l.phase = "landing" /\ l.token = token
      BY <1>1, <1>5 DEF LoginState, token
    <2> QED
      BY <1>1, <1>3, <1>5, <2>1, <2>2, TokenKeeps DEF token
  <1>6. ASSUME l = Failed(n), key \notin configs \/ key # n
        PROVE  IInv'
    <2>1. /\ l \in LoginState /\ l.phase = "failed" /\ l.token = NoToken
          /\ l.callback = logins[n].callback /\ l.trouble = logins[n].trouble
      BY <1>1, <1>2, <1>6 DEF Failed, LoginState, Phase
    <2>2. alive' = alive
      BY <1>3, <2>1
    <2>3. TypeOK' /\ StorageOK' /\ AnswersOK' /\ Connected'
      BY <1>1, <1>3, <2>1, <2>2, LoginKeeps DEF IInv, TypeOK
    <2>4. /\ DOMAIN logins' = DOMAIN logins /\ logins'[n] = l
          /\ \A m \in DOMAIN logins : m # n => logins'[m] = logins[m]
      BY <1>1, <1>3, <2>1, LoginMoves DEF IInv
    <2>5. LoginsOK'
      BY <2>1, <2>4 DEF IInv, LoginsOK
    <2>6. \A m \in DOMAIN logins : logins'[m].callback = logins[m].callback
      BY <2>1, <2>4
    <2>7. ConfigsOK'
      BY <1>1, <2>1, <2>4, <2>6 DEF IInv, ConfigsOK
    <2>8. logins[n].trouble = "none" =>
            key # n \/ \E m \in (DOMAIN logins) \ {n} : logins[m].callback = n
      BY <1>1, <1>6 DEF IInv, ConfigsOK
    <2>9. FailsByOther'
      BY <1>1, <2>1, <2>4, <2>6, <2>8 DEF IInv, FailsByOther
    <2> QED
      BY <2>3, <2>5, <2>7, <2>9 DEF IInv
  <1>7. CASE key \in configs /\ AccessGranted(key, n)
    <2>1. key = n /\ logins[n].by \in Account /\ Nobody \in Account
      BY <1>2, <1>7 DEF AccessGranted, Account
    <2>2. \/ l = Broken(n)
          \/ l = [logins[n] EXCEPT !.phase = "landing", !.token = [user |-> logins[n].by, login |-> n],
                                   !.trouble = logins[n].trouble]
          \/ l = [logins[n] EXCEPT !.phase = "landing", !.token = [user |-> Nobody, login |-> n],
                                   !.trouble = "osm"]
      BY <1>3, <1>7, <2>1 DEF Outcomes
    <2>3. logins[n].trouble \in {"none", "osm", "restart"}
      BY <1>1 DEF LoginState
    <2> QED
      BY <1>4, <1>5, <2>1, <2>2, <2>3
  <1>8. CASE ~(key \in configs /\ AccessGranted(key, n))
    <2>1. (l = Broken(n) \/ l = Failed(n)) /\ (key \notin configs \/ key # n)
      BY <1>3, <1>8 DEF Outcomes, AccessGranted
    <2> QED
      BY <1>4, <1>6, <2>1
  <1> QED
    BY <1>7, <1>8

\* The popup hands its token to the storage.
LEMMA OauthLandingKeeps ==
    ASSUME IInv, NEW n \in Login, OauthLanding(n)
    PROVE  IInv'
  <1> DEFINE l == [logins[n] EXCEPT !.phase = "done"]
  <1>1. /\ n \in DOMAIN logins /\ logins[n].phase = "landing" /\ logins[n] \in LoginState
        /\ logins' = [logins EXCEPT ![n] = l] /\ auth_token' = logins[n].token
        /\ UNCHANGED <<alive, restarts, tab, callbackUrl, configs>>
    BY LoginsType DEF OauthLanding, At, IInv, TypeOK, server
  <1>2. /\ logins[n].by \in User /\ auth_token' \in Token /\ auth_token'.login = n
        /\ logins[n].token \in Token /\ logins[n].token.login = n
        /\ logins[n].token.user = logins[n].by
              \/ (logins[n].token.user = Nobody /\ logins[n].trouble = "osm")
    BY <1>1 DEF IInv, LoginsOK
  <1>3. /\ l \in LoginState /\ l.phase = "done" /\ l.token = logins[n].token
        /\ l.by = logins[n].by /\ l.callback = logins[n].callback
        /\ l.trouble = logins[n].trouble
    BY <1>1 DEF LoginState, Phase
  <1> HIDE DEF l
  <1>4. /\ DOMAIN logins' = DOMAIN logins /\ logins'[n] = l
        /\ logins' \in Seq(LoginState) /\ Len(logins') = Len(logins)
        /\ \A m \in DOMAIN logins : m # n => logins'[m] = logins[m]
    BY <1>1, <1>3, LoginMoves DEF IInv
  <1>5. TypeOK'
    BY <1>1, <1>2, <1>4 DEF IInv, TypeOK
  <1>6. LoginsOK'
    BY <1>2, <1>3, <1>4 DEF IInv, LoginsOK
  <1>7. \A m \in DOMAIN logins : logins'[m].callback = logins[m].callback
    BY <1>3, <1>4
  <1>8. ConfigsOK'
    BY <1>1, <1>3, <1>4, <1>7 DEF IInv, ConfigsOK
  <1>9. FailsByOther'
    BY <1>1, <1>3, <1>4, <1>7 DEF IInv, FailsByOther
  <1>10. \A k : Made(k) => Made(k)'
    BY <1>1, <1>3, TokensStay DEF IInv
  <1>14. \A k : Landed(k) => Landed(k)'
    BY <1>1, <1>3, LandedStay DEF IInv
  <1>15. ~Landed(auth_token')
    BY <1>1, <1>2 DEF Landed, At
  <1>11. StorageOK'
    BY <1>1, <1>2, <1>3, <1>4 DEF StorageOK, Landed, At
  <1>12. AnswersOK'
    BY <1>1, <1>10 DEF IInv, AnswersOK, Dead
  <1>13. Connected'
    BY <1>1, <1>14, <1>15 DEF IInv, Connected
  <1> QED
    BY <1>5, <1>6, <1>8, <1>9, <1>11, <1>12, <1>13 DEF IInv

\* After a restart no token is accepted; the tokens still exist.
LEMMA RestartKeeps ==
    ASSUME IInv, Restart
    PROVE  IInv'
  <1>13. /\ restarts < MaxRestarts /\ restarts' = restarts + 1
         /\ alive' = {} /\ callbackUrl' = 0 /\ configs' = {}
         /\ UNCHANGED <<auth_token, tab>>
    BY DEF Restart
  <1>1. /\ restarts' \in 0 .. MaxRestarts
        /\ alive' = {} /\ callbackUrl' = 0 /\ configs' = {}
        /\ UNCHANGED <<auth_token, tab>>
    BY <1>13, SessionAssumption DEF IInv, TypeOK
  <1>2. /\ DOMAIN logins' = DOMAIN logins
        /\ logins' \in Seq(LoginState) /\ Len(logins') = Len(logins)
        /\ \A m \in DOMAIN logins : logins'[m] = Struck(logins[m])
    BY LoginsStruck DEF IInv
  <1>5. TypeOK'
    BY <1>1, <1>2 DEF IInv, TypeOK
  <1>6. \A m \in DOMAIN logins :
          /\ logins'[m].token = logins[m].token /\ logins'[m].by = logins[m].by
          /\ logins'[m].callback = logins[m].callback
          /\ \/ logins'[m] = logins[m] /\ logins[m].phase \in {"landing", "done", "failed"}
             \/ /\ logins'[m].trouble = "restart"
                /\ logins'[m].phase \in {logins[m].phase, "failed"}
                /\ logins[m].phase \notin {"landing", "done", "failed"}
    BY <1>2, LoginsType, StruckLogin DEF IInv
  <1>7. LoginsOK'
    BY <1>2, <1>6 DEF IInv, LoginsOK
  <1>8. ConfigsOK'
    BY <1>2, <1>6 DEF ConfigsOK
  <1>9. FailsByOther'
    BY <1>2, <1>6 DEF IInv, FailsByOther
  <1>10. \A k : (Made(k) => Made(k)') /\ (Landed(k) => Landed(k)')
    BY <1>2, <1>6 DEF Made, HasToken, Landed, At
  <1>11. StorageOK' /\ AnswersOK'
    BY <1>1, <1>10 DEF IInv, StorageOK, AnswersOK, Dead
  <1>12. Connected'
    BY <1>1, <1>10 DEF IInv, Connected
  <1> QED
    BY <1>5, <1>7, <1>8, <1>9, <1>11, <1>12 DEF IInv

\* A token that expires is accepted no more.
LEMMA ExpireKeeps ==
    ASSUME IInv, Expire
    PROVE  IInv'
  <1>1. /\ alive' \subseteq alive
        /\ UNCHANGED <<callbackUrl, configs, restarts, logins, auth_token, tab>>
    BY DEF Expire
  <1>2. TypeOK'
    BY <1>1 DEF IInv, TypeOK
  <1>3. LoginsOK' /\ ConfigsOK' /\ FailsByOther'
    BY <1>1 DEF IInv, LoginsOK, ConfigsOK, FailsByOther
  <1>4. \A k : (Made(k) => Made(k)') /\ (Landed(k) => Landed(k)')
    BY <1>1 DEF Made, HasToken, Landed, At
  <1>5. StorageOK' /\ AnswersOK' /\ Connected'
    BY <1>1, <1>4 DEF IInv, StorageOK, AnswersOK, Dead, Connected
  <1> QED
    BY <1>2, <1>3, <1>5 DEF IInv

-----------------------------------------------------------------------------
(* The tabs.                                                               *)

\* The tab has a websocket of the user.
ConnectsAs(s, user) == \E token \in s.sockets : token.user = user

\* A state a tab may be in, and what of it needs no connection.
Fit(s) ==
    /\ s \in TabState
    /\ \A answer \in s.answers : Dead(answer)
    /\ \A token \in s.sockets : Landed(token)

Agrees(s) == s.page = "inside" /\ auth_token \in s.sockets => s.currentUser = auth_token.user

TabOK(s) ==
    /\ Fit(s)
    /\ Agrees(s)
    /\ s.page = "inside" /\ ~s.switched => ConnectsAs(s, s.currentUser)

\* Every tab is in such a state.
LEMMA TabsOK ==
    ASSUME IInv, NEW t \in Tab
    PROVE  TabOK(tab[t])
  BY DEF IInv, TypeOK, AnswersOK, Connected, TabOK, Fit, Agrees, ConnectsAs

\* To connect takes nothing from a tab, and adds its token.
LEMMA ConnectOK ==
    ASSUME IInv, NEW s, Fit(s)
    PROVE  /\ Fit(connect(s, auth_token))
           /\ connect(s, auth_token).page = s.page
           /\ connect(s, auth_token).switched = s.switched
           /\ connect(s, auth_token).currentUser = s.currentUser
           /\ auth_token # NoToken => ConnectsAs(connect(s, auth_token), auth_token.user)
  <1>1. CASE auth_token = NoToken
    BY <1>1 DEF connect
  <1>2. CASE auth_token # NoToken
    <2> DEFINE opened == [s EXCEPT !.sockets = @ \cup {auth_token}]
    <2>1. auth_token \in Token /\ Landed(auth_token)
      BY <1>2 DEF IInv, StorageOK
    <2>2. connect(s, auth_token) = opened
      BY <1>2 DEF connect
    <2>3. /\ opened \in TabState /\ opened.answers = s.answers /\ opened.page = s.page
          /\ opened.switched = s.switched /\ opened.currentUser = s.currentUser
          /\ opened.sockets = s.sockets \cup {auth_token}
      BY <2>1 DEF Fit, TabState
    <2> HIDE DEF opened
    <2>4. Fit(opened) /\ ConnectsAs(opened, auth_token.user)
      BY <2>1, <2>3 DEF Fit, ConnectsAs
    <2> QED
      BY <2>2, <2>3, <2>4
  <1> QED
    BY <1>1, <1>2

\* The guard and the resolvers take a tab inside as the user whose token it has,
\* if he is connected when he comes from outside.
LEMMA CanActivateOK ==
    ASSUME IInv, NEW s, TabOK(s),
           s.page # "inside" /\ auth_token # NoToken => ConnectsAs(s, auth_token.user)
    PROVE  TabOK(canActivate(s, auth_token))
  <1> DEFINE known == [s EXCEPT !.currentUser = auth_token.user,
                                !.switched = @ \/ (s.page = "inside"
                                                    /\ s.currentUser # auth_token.user)]
             away == [s EXCEPT !.page = "login", !.currentUser = NoUser, !.switched = FALSE]
             refused == [known EXCEPT !.answers = @ \cup {[status |-> 401, token |-> auth_token]}]
  <1>1. auth_token = NoToken \/ (auth_token \in Token /\ auth_token.user \in Account)
    BY DEF IInv, StorageOK, Token
  <1>2. CASE auth_token = NoToken
    <2>1. canActivate(s, auth_token) = away
      BY <1>2 DEF canActivate
    <2>2. TabOK(away)
      BY DEF TabOK, Fit, Agrees, TabState
    <2> QED
      BY <2>1, <2>2
  <1>3. CASE auth_token # NoToken
    <2>1. /\ known \in TabState /\ known.answers = s.answers /\ known.page = s.page
          /\ known.sockets = s.sockets
          /\ known.currentUser = auth_token.user
      BY <1>1, <1>3 DEF TabOK, Fit, TabState
    <2>2. known.page = "inside" /\ ~known.switched =>
            /\ s.page = "inside" /\ ~s.switched /\ s.currentUser = auth_token.user
      BY <2>1 DEF TabOK, Fit, TabState
    <2> DEFINE inside == [known EXCEPT !.page = "inside"]
    <2>3. CASE auth_token \in alive
      <3>1. canActivate(s, auth_token) = inside
        BY <1>3, <2>3 DEF canActivate
      <3> HIDE DEF known
      <3>2. /\ inside \in TabState /\ inside.answers = s.answers /\ inside.page = "inside"
            /\ inside.sockets = s.sockets
            /\ inside.currentUser = auth_token.user /\ inside.switched = known.switched
        BY <2>1 DEF TabState
      <3> HIDE DEF inside
      <3>3. inside.switched \/ ConnectsAs(s, auth_token.user)
        <4>1. s.page = "inside" /\ ~known.switched => ConnectsAs(s, auth_token.user)
          BY <2>1, <2>2 DEF TabOK, Fit
        <4> QED
          BY <1>3, <3>2, <4>1
      <3>4. ConnectsAs(s, auth_token.user) => ConnectsAs(inside, inside.currentUser)
        BY <3>2 DEF ConnectsAs
      <3> QED
        BY <3>1, <3>2, <3>3, <3>4 DEF TabOK, Fit, Agrees
    <2>4. CASE auth_token \notin alive
      <3>1. canActivate(s, auth_token) = refused
        BY <1>3, <2>4 DEF canActivate, Answered
      <3> DEFINE a == [status |-> 401, token |-> auth_token]
      <3> HIDE DEF known
      <3>2. /\ refused.answers = s.answers \cup {a} /\ refused.page = known.page
            /\ refused.switched = known.switched /\ refused.sockets = known.sockets
            /\ refused.currentUser = known.currentUser
        BY <2>1 DEF TabOK, Fit, TabState
      <3>3. refused \in TabState
        <4>1. a \in Answer
          BY <1>1 DEF Answer
        <4> QED
          BY <2>1, <4>1 DEF TabState
      <3>4. \A answer \in refused.answers : Dead(answer)
        BY <2>4, <3>2, StoredIsMade DEF TabOK, Fit, Dead
      <3>5. refused.page = "inside" /\ ~refused.switched => ConnectsAs(s, s.currentUser)
                                                           /\ s.currentUser = refused.currentUser
        BY <2>1, <2>2, <3>2 DEF TabOK, Fit
      <3>6. ConnectsAs(s, s.currentUser) => ConnectsAs(refused, s.currentUser)
        BY <2>1, <3>2 DEF ConnectsAs
      <3> HIDE DEF refused
      <3> QED
        BY <2>1, <3>1, <3>2, <3>3, <3>4, <3>5, <3>6 DEF TabOK, Fit, Agrees
    <2> QED
      BY <2>3, <2>4
  <1> QED
    BY <1>2, <1>3

\* A step of a tab to a good state keeps the invariant.
LEMMA TabKeeps ==
    ASSUME IInv, NEW t \in Tab, NEW s, TabOK(s), tab' = [tab EXCEPT ![t] = s],
           auth_token' \in {auth_token, NoToken}, UNCHANGED <<server, logins>>
    PROVE  IInv'
  <1>1. UNCHANGED <<alive, callbackUrl, configs, restarts, logins>>
    BY DEF server
  <1>2. tab' \in [Tab -> TabState] /\ \A z \in Tab : TabOK(tab'[z])
    BY TabsOK DEF IInv, TypeOK, TabOK, Fit
  <1>3. TypeOK'
    BY <1>1, <1>2 DEF IInv, TypeOK
  <1>4. LoginsOK' /\ ConfigsOK' /\ FailsByOther'
    BY <1>1 DEF IInv, LoginsOK, ConfigsOK, FailsByOther
  <1>5. \A k : (Made(k) => Made(k)') /\ (Landed(k) => Landed(k)')
    BY <1>1 DEF Made, HasToken, Landed, At
  <1>6. StorageOK'
    BY <1>5 DEF IInv, StorageOK
  <1>7. AnswersOK'
    BY <1>1, <1>2, <1>5 DEF AnswersOK, TabOK, Fit, Dead
  <1>9. \A z \in Tab : NoToken \notin tab'[z].sockets
    BY <1>2, TokenAssumption DEF TabState
  <1>8. Connected'
    BY <1>2, <1>5, <1>9 DEF Connected, TabOK, Fit, Agrees, ConnectsAs
  <1> QED
    BY <1>3, <1>4, <1>6, <1>7, <1>8 DEF IInv

\* Loading a tab.
LEMMA LoadKeeps ==
    ASSUME IInv, NEW t \in Tab, Load(t)
    PROVE  IInv'
  <1> DEFINE u == Unloaded
             s == [u EXCEPT !.page = "blank"]
             c == connect(s, auth_token)
  <1>1. u \in TabState /\ u.answers = {} /\ u.sockets = {}
    BY SessionAssumption DEF TabState, Unloaded, Account
  <1>2. tab' = [tab EXCEPT ![t] = canActivate(c, auth_token)]
    BY DEF Load
  <1> HIDE DEF u
  <1>3. s \in TabState /\ s.page = "blank" /\ s.answers = {} /\ s.sockets = {}
    BY <1>1 DEF TabState
  <1> HIDE DEF s
  <1>4. TabOK(s)
    BY <1>3 DEF TabOK, Fit, Agrees
  <1>5. TabOK(c) /\ (auth_token # NoToken => ConnectsAs(c, auth_token.user))
    BY <1>3, <1>4, ConnectOK DEF TabOK, Agrees
  <1> HIDE DEF c
  <1>6. TabOK(canActivate(c, auth_token))
    BY <1>5, CanActivateOK
  <1> QED
    BY <1>2, <1>6, TabKeeps DEF Load, browser

\* A click on a link.
LEMMA NavigateKeeps ==
    ASSUME IInv, NEW t \in Tab, Navigate(t)
    PROVE  IInv'
  <1>1. TabOK(canActivate(tab[t], auth_token))
    BY TabsOK, CanActivateOK DEF Navigate
  <1>2. tab' = [tab EXCEPT ![t] = canActivate(tab[t], auth_token)]
    BY DEF Navigate
  <1> QED
    BY <1>1, <1>2, TabKeeps DEF Navigate, browser

\* A request is refused only if its token is dead.
LEMMA RequestKeeps ==
    ASSUME IInv, NEW t \in Tab, Request(t)
    PROVE  IInv'
  <1>1. PICK answer \in {[status |-> 500]} \cup
                    (IF auth_token \in alive THEN {} ELSE {[status |-> 401, token |-> auth_token]}) :
          tab' = [tab EXCEPT ![t].answers = {answer}]
    BY DEF Request
  <1> DEFINE s == [tab[t] EXCEPT !.answers = {answer}]
  <1>2. tab' = [tab EXCEPT ![t] = s] /\ TabOK(tab[t]) /\ tab[t] \in TabState
    BY <1>1, TabsOK DEF TabOK, Fit
  <1>3. answer \in Answer /\ Dead(answer)
    <2>1. CASE answer = [status |-> 500]
      BY <2>1 DEF Answer, Dead
    <2>2. CASE answer = [status |-> 401, token |-> auth_token] /\ auth_token \notin alive
      BY <2>2, StoredIsMade DEF Answer, Dead, IInv, TypeOK
    <2> QED
      BY <1>1, <2>1, <2>2
  <1>4. /\ s \in TabState /\ s.answers = {answer} /\ s.page = tab[t].page
        /\ s.switched = tab[t].switched /\ s.sockets = tab[t].sockets
        /\ s.currentUser = tab[t].currentUser
    BY <1>2, <1>3 DEF TabState
  <1>5. TabOK(s)
    BY <1>2, <1>3, <1>4 DEF TabOK, Fit, Agrees, ConnectsAs
  <1> HIDE DEF s
  <1> QED
    BY <1>2, <1>5, TabKeeps DEF Request, browser

\* A timer that sees a token connects its user before it takes the tab inside.
LEMMA TimerKeeps ==
    ASSUME IInv, NEW t \in Tab, waitForLocalStorageToken(t)
    PROVE  IInv'
  <1> DEFINE less == tab[t].timers - 1
             w == [tab[t] EXCEPT !.timers = less]
             s == [w EXCEPT !.currentUser = auth_token.user, !.switched = FALSE, !.asked = FALSE]
             c == connect(s, auth_token)
  <1>1. TabOK(tab[t]) /\ tab[t].timers > 0 /\ auth_token # NoToken /\ auth_token.user \in Account
    BY TabsOK, StoredIsMade DEF waitForLocalStorageToken
  <1>2. less \in 0 .. MaxTimers
    BY <1>1, SessionAssumption DEF TabOK, Fit, TabState
  <1>3. tab' = [tab EXCEPT ![t] = canActivate(c, auth_token)]
    BY DEF waitForLocalStorageToken, loggedIn
  <1> HIDE DEF less
  <1>4. w \in TabState /\ w.answers = tab[t].answers /\ w.sockets = tab[t].sockets
    BY <1>1, <1>2 DEF TabOK, Fit, TabState
  <1> HIDE DEF w
  <1>5. /\ s \in TabState /\ s.answers = w.answers /\ s.sockets = w.sockets
        /\ s.currentUser = auth_token.user
    BY <1>1, <1>4 DEF TabState
  <1> HIDE DEF s
  <1>6. Fit(s)
    BY <1>1, <1>4, <1>5 DEF TabOK, Fit
  <1>7. TabOK(c) /\ ConnectsAs(c, auth_token.user)
    BY <1>1, <1>5, <1>6, ConnectOK DEF TabOK, Agrees
  <1>8. TabOK(canActivate(c, auth_token))
    BY <1>7, CanActivateOK
  <1> QED
    BY <1>3, <1>8, TabKeeps DEF waitForLocalStorageToken, browser

\* After a logout the tab shows the login page.
LEMMA LogoutOK ==
    ASSUME NEW s, TabOK(s)
    PROVE  TabOK([s EXCEPT !.currentUser = NoUser, !.page = "login", !.switched = FALSE])
  BY DEF TabOK, Fit, Agrees, TabState

\* The button.
LEMMA LogoutKeeps ==
    ASSUME IInv, NEW t \in Tab, onLogoutClicked(t)
    PROVE  IInv'
  BY TabsOK, LogoutOK, TabKeeps DEF onLogoutClicked, logout

\* Answers only become fewer.
LEMMA InterceptKeeps ==
    ASSUME IInv, NEW t \in Tab, intercept(t)
    PROVE  IInv'
  <1>1. PICK answer \in tab[t].answers :
          LET s == [tab[t] EXCEPT !.answers = @ \ {answer}]
          IN  /\ IF answer.status = 401 THEN logout(t, s)
                 ELSE tab' = [tab EXCEPT ![t] = s] /\ UNCHANGED auth_token
              /\ UNCHANGED <<server, logins>>
    BY DEF intercept
  <1> DEFINE s == [tab[t] EXCEPT !.answers = @ \ {answer}]
             out == [s EXCEPT !.currentUser = NoUser, !.page = "login", !.switched = FALSE]
  <1>2. TabOK(tab[t])
    BY TabsOK
  <1>3. /\ s \in TabState /\ s.answers \subseteq tab[t].answers /\ s.page = tab[t].page
        /\ s.switched = tab[t].switched /\ s.sockets = tab[t].sockets
        /\ s.currentUser = tab[t].currentUser
    BY <1>2 DEF TabOK, Fit, TabState
  <1>4. TabOK(s)
    BY <1>2, <1>3 DEF TabOK, Fit, Agrees, ConnectsAs
  <1>5. TabOK(out)
    BY <1>4, LogoutOK
  <1>6. CASE answer.status = 401
    <2>1. tab' = [tab EXCEPT ![t] = out] /\ auth_token' = NoToken
      BY <1>1, <1>6 DEF logout
    <2> HIDE DEF out
    <2> QED
      BY <1>1, <1>5, <2>1, TabKeeps
  <1>7. CASE answer.status # 401
    <2>1. tab' = [tab EXCEPT ![t] = s] /\ auth_token' = auth_token
      BY <1>1, <1>7
    <2> HIDE DEF s
    <2> QED
      BY <1>1, <1>4, <2>1, TabKeeps
  <1> QED
    BY <1>6, <1>7

\* A click starts a login that is the last one, without a token.
LEMMA requestLoginKeeps ==
    ASSUME IInv, NEW t \in Tab, requestLogin(t)
    PROVE  IInv'
  <1> DEFINE l == [tab |-> t, phase |-> "clicked", callback |-> 0, by |-> NoUser,
                   token |-> NoToken, trouble |-> "none"]
             more == tab[t].timers + 1
             s == [tab[t] EXCEPT !.timers = more, !.asked = TRUE]
             N == Len(logins) + 1
  <1>1. /\ logins' = Append(logins, l) /\ tab' = [tab EXCEPT ![t] = s]
        /\ tab[t].timers < MaxTimers /\ Len(logins) < MaxLogins
        /\ UNCHANGED <<alive, callbackUrl, configs, restarts, auth_token>>
    BY DEF requestLogin, server
  <1>2. /\ l \in LoginState /\ l.phase = "clicked" /\ l.callback = 0 /\ l.token = NoToken
    BY DEF LoginState, Phase
  <1> HIDE DEF l
  <1>3. /\ DOMAIN logins = 1 .. Len(logins) /\ Len(logins) \in Nat /\ logins \in Seq(LoginState)
        /\ \A m \in DOMAIN logins : logins[m] \in LoginState
    BY LoginsType, SessionAssumption DEF IInv, TypeOK
  <1>4. /\ logins' \in Seq(LoginState) /\ Len(logins') = N
        /\ logins'[N] = l /\ \A m \in DOMAIN logins : logins'[m] = logins[m]
    BY <1>1, <1>2, <1>3, AppendProperties
  <1>5. DOMAIN logins' = (DOMAIN logins) \cup {N} /\ N \notin DOMAIN logins
    <2>1. DOMAIN logins' = 1 .. N
      BY <1>4, LenProperties
    <2> QED
      BY <1>3, <2>1
  <1>6. TabOK(tab[t])
    BY TabsOK
  <1>7. /\ s \in TabState /\ s.answers = tab[t].answers /\ s.page = tab[t].page
        /\ s.switched = tab[t].switched /\ s.sockets = tab[t].sockets
        /\ s.currentUser = tab[t].currentUser
    <2>1. more \in 0 .. MaxTimers
      <3>1. tab[t].timers \in 0 .. MaxTimers
        BY <1>6 DEF TabOK, Fit, TabState
      <3> QED
        BY <1>1, <3>1, SessionAssumption
    <2> HIDE DEF more
    <2> QED
      BY <1>6, <2>1 DEF TabOK, Fit, TabState
  <1> HIDE DEF s
  <1>8. TypeOK'
    <2>1. Len(logins') <= MaxLogins
      BY <1>1, <1>3, <1>4, SessionAssumption
    <2>2. tab' \in [Tab -> TabState]
      BY <1>1, <1>7 DEF IInv, TypeOK
    <2> QED
      BY <1>1, <1>4, <2>1, <2>2 DEF IInv, TypeOK
  <1> HIDE DEF N
  <1>9. \A k : (Made(k) => Made(k)') /\ (Landed(k) => Landed(k)')
    BY <1>4, <1>5 DEF Made, HasToken, Landed, At
  <1>10. LoginsOK'
    BY <1>2, <1>4, <1>5 DEF IInv, LoginsOK
  <1>11. ConfigsOK'
    BY <1>1, <1>2, <1>4, <1>5 DEF IInv, ConfigsOK
  <1>12. FailsByOther'
    BY <1>1, <1>2, <1>4, <1>5 DEF IInv, FailsByOther
  <1>13. StorageOK'
    BY <1>1, <1>9 DEF IInv, StorageOK
  <1>14. \A q \in Tab : tab'[q] = IF q = t THEN s ELSE tab[q]
    BY <1>1 DEF IInv, TypeOK
  <1>15. AnswersOK'
    BY <1>1, <1>7, <1>9, <1>14 DEF IInv, AnswersOK, Dead
  <1>16. Connected'
    BY <1>1, <1>7, <1>9, <1>14 DEF IInv, Connected
  <1> QED
    BY <1>8, <1>10, <1>11, <1>12, <1>13, <1>15, <1>16 DEF IInv

-----------------------------------------------------------------------------
(* The theorems.                                                           *)

\* Nobody is logged in and no token is out at first.
LEMMA InitIInv == Init => IInv
  <1> SUFFICES ASSUME Init PROVE IInv
    OBVIOUS
  <1>1. Unloaded \in TabState /\ Unloaded.answers = {} /\ Unloaded.sockets = {}
        /\ Unloaded.page = "login"
    BY SessionAssumption DEF TabState, Unloaded
  <1>2. DOMAIN logins = {} /\ logins \in Seq(LoginState) /\ Len(logins) = 0
    BY DEF Init
  <1>3. \A t \in Tab : tab[t] = Unloaded
    BY DEF Init
  <1>4. TypeOK
    <2>1. tab \in [Tab -> TabState]
      BY <1>1 DEF Init
    <2> QED
      BY <1>2, <2>1, SessionAssumption DEF Init, TypeOK
  <1>5. LoginsOK /\ ConfigsOK /\ FailsByOther
    BY <1>2 DEF LoginsOK, ConfigsOK, FailsByOther
  <1>6. StorageOK /\ AnswersOK /\ Connected
    BY <1>1, <1>3 DEF Init, StorageOK, AnswersOK, Connected
  <1> QED
    BY <1>4, <1>5, <1>6 DEF IInv

\* Every step keeps the invariant.
LEMMA StepIInv == IInv /\ [Next]_vars => IInv'
  <1> SUFFICES ASSUME IInv, [Next]_vars
               PROVE  IInv'
    OBVIOUS
  <1>1. CASE UNCHANGED vars
    BY <1>1 DEF vars, IInv, TypeOK, LoginsOK, ConfigsOK, FailsByOther, StorageOK, AnswersOK,
             Connected, Made, HasToken, Landed, Dead, At
  <1>2. ASSUME NEW n \in Login, OauthLogin(n) PROVE IInv'
    BY <1>2, OauthLoginKeeps
  <1>3. ASSUME NEW n \in Login, GetRequestToken(n) PROVE IInv'
    BY <1>3, GetRequestTokenKeeps
  <1>4. ASSUME NEW n \in Login, RedirectToAuthorize(n) PROVE IInv'
    BY <1>4, RedirectKeeps
  <1>5. ASSUME NEW n \in Login, Authorize(n) PROVE IInv'
    BY <1>5, AuthorizeKeeps
  <1>6. ASSUME NEW n \in Login, OauthCallback(n) PROVE IInv'
    BY <1>6, OauthCallbackKeeps
  <1>7. ASSUME NEW n \in Login, OauthLanding(n) PROVE IInv'
    BY <1>7, OauthLandingKeeps
  <1>8. CASE Restart
    BY <1>8, RestartKeeps
  <1>9. CASE Expire
    BY <1>9, ExpireKeeps
  <1>10. ASSUME NEW t \in Tab, Load(t) PROVE IInv'
    BY <1>10, LoadKeeps
  <1>11. ASSUME NEW t \in Tab, Navigate(t) PROVE IInv'
    BY <1>11, NavigateKeeps
  <1>12. ASSUME NEW t \in Tab, Request(t) PROVE IInv'
    BY <1>12, RequestKeeps
  <1>13. ASSUME NEW t \in Tab, requestLogin(t) PROVE IInv'
    BY <1>13, requestLoginKeeps
  <1>14. ASSUME NEW t \in Tab, waitForLocalStorageToken(t) PROVE IInv'
    BY <1>14, TimerKeeps
  <1>15. ASSUME NEW t \in Tab, onLogoutClicked(t) PROVE IInv'
    BY <1>15, LogoutKeeps
  <1>16. ASSUME NEW t \in Tab, intercept(t) PROVE IInv'
    BY <1>16, InterceptKeeps
  <1> QED
    BY <1>1, <1>2, <1>3, <1>4, <1>5, <1>6, <1>7, <1>8, <1>9, <1>10, <1>11, <1>12, <1>13,
       <1>14, <1>15, <1>16 DEF Next

\* The invariant holds in every state.
THEOREM Inductive == Spec => []IInv
  BY InitIInv, StepIInv, PTL DEF Spec

\* SessionOK: the types, and that a token is of the user who authorized in the
\* popup that the token came back to, however the logins mix up, or of nobody
\* if OpenStreetMap did not tell who he is.
THEOREM OwnTokens == Spec => []SessionOK
  <1>1. IInv => SessionOK
    <2> SUFFICES ASSUME IInv PROVE SessionOK
      OBVIOUS
    <2>1. TokenIsOwn
      BY DEF IInv, LoginsOK, TokenIsOwn
    <2> QED
      BY <2>1 DEF IInv, SessionOK
  <1> QED
    BY <1>1, Inductive, PTL

\* FailsByOther: a login that no error of OpenStreetMap and no restart has
\* struck fails only if its callback URL was mixed up with that of another one.
THEOREM OnlyOthersFailALogin == Spec => []FailsByOther
  <1>1. IInv => FailsByOther
    BY DEF IInv
  <1> QED
    BY <1>1, Inductive, PTL

\* InsideIsConnected: a tab inside has a websocket of its user, unless a login in
\* another tab has switched him; one that is open, if the stored token is still
\* accepted and the tab has connected with it.
THEOREM InsideConnected == Spec => []InsideIsConnected
  <1>1. IInv => InsideIsConnected
    <2> SUFFICES ASSUME IInv, NEW t \in Tab, tab[t].page = "inside", ~tab[t].switched
                 PROVE  \E token \in tab[t].sockets :
                          /\ token.user = tab[t].currentUser
                          /\ auth_token \in Open(t) => token \in Open(t)
      BY DEF InsideIsConnected
    <2>1. CASE auth_token \in tab[t].sockets
      BY <2>1 DEF IInv, Connected
    <2>2. CASE auth_token \notin tab[t].sockets
      BY <2>2 DEF IInv, Connected, Open
    <2> QED
      BY <2>1, <2>2
  <1> QED
    BY <1>1, Inductive, PTL

\* SessionKept: a token that is accepted leaves the storage only by a logout, a
\* login or the late refusal of another token.
THEOREM AcceptedStays == Spec => SessionKept
  <1> DEFINE Gone == auth_token' # auth_token /\ auth_token \in alive =>
          \/ \E t \in Tab : onLogoutClicked(t)
          \/ \E n \in Login : OauthLanding(n)
          \/ \E t \in Tab : \E answer \in tab[t].answers :
                /\ answer.status = 401 /\ answer.token # auth_token
                /\ answer \notin tab'[t].answers
  <1>1. IInv /\ [Next]_vars => Gone
    <2> SUFFICES ASSUME IInv, [Next]_vars, auth_token' # auth_token, auth_token \in alive
                 PROVE  \/ \E t \in Tab : onLogoutClicked(t)
                        \/ \E n \in Login : OauthLanding(n)
                        \/ \E t \in Tab : \E answer \in tab[t].answers :
                              /\ answer.status = 401 /\ answer.token # auth_token
                              /\ answer \notin tab'[t].answers
      OBVIOUS
    <2>1. \/ \E t \in Tab : onLogoutClicked(t)
          \/ \E n \in Login : OauthLanding(n)
          \/ \E t \in Tab : intercept(t)
      BY DEF vars, Next, OauthLogin, GetRequestToken, RedirectToAuthorize, Authorize,
             OauthCallback, Restart, Expire, Load, Navigate, Request, requestLogin,
             waitForLocalStorageToken, browser
    <2>2. ASSUME NEW t \in Tab, intercept(t)
          PROVE  \E answer \in tab[t].answers :
                   /\ answer.status = 401 /\ answer.token # auth_token
                   /\ answer \notin tab'[t].answers
      <3>1. PICK answer \in tab[t].answers :
              LET s == [tab[t] EXCEPT !.answers = @ \ {answer}]
              IN  /\ IF answer.status = 401 THEN logout(t, s)
                     ELSE tab' = [tab EXCEPT ![t] = s] /\ UNCHANGED auth_token
                  /\ UNCHANGED <<server, logins>>
        BY <2>2 DEF intercept
      <3> DEFINE s == [tab[t] EXCEPT !.answers = @ \ {answer}]
                 out == [s EXCEPT !.currentUser = NoUser, !.page = "login", !.switched = FALSE]
      <3>2. answer.status = 401 /\ tab' = [tab EXCEPT ![t] = out]
        BY <3>1 DEF logout
      <3>3. tab[t] \in TabState /\ tab'[t] = out
        BY <3>2 DEF IInv, TypeOK
      <3>4. out.answers = tab[t].answers \ {answer}
        BY <3>3 DEF TabState
      <3>5. answer.token \notin alive
        BY <3>2 DEF IInv, AnswersOK, Dead
      <3> QED
        BY <3>2, <3>3, <3>4, <3>5
    <2> QED
      BY <2>1, <2>2
  <1>2. Spec => [][Next]_vars
    BY PTL DEF Spec
  <1>3. IInv /\ [Next]_vars => [Gone]_vars
    BY <1>1
  <1> QED
    BY <1>2, <1>3, Inductive, PTL DEF SessionKept
=============================================================================
