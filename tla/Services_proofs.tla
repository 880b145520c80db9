---------------------------- MODULE Services_proofs ----------------------------
(***************************************************************************)
(* Theorems of Services.  A part that a behaviour is about starts and goes *)
(* on as its module says; each section below takes one part, shows that    *)
(* its invariant is inductive there, and carries it over to Services.      *)
(***************************************************************************)
EXTENDS Services, FiniteSetTheorems, SequenceTheorems, TLAPS

LEMMA Bounds ==
    /\ MaxVersion \in Nat /\ MaxTokens \in Nat /\ LimitTime \in Nat /\ MaxChecks \in Nat
    /\ MaxRequests \in Nat /\ MaxAttempts \in Nat /\ Day \in Nat \ {0}
  BY ServicesAssumption

LEMMA PartStays == ASSUME [Next]_vars PROVE part' = part
  BY DEF Next, vars

-----------------------------------------------------------------------------
(* Cookies: AuthSessions *)

LEMMA CookiesStart == Init /\ part = "cookies" => AuthCookies!Init
  BY DEF Init

LEMMA CookiesStep ==
    ASSUME [Next]_vars, part = "cookies"
    PROVE  [AuthCookies!Next]_AuthCookies!vars
  BY DEF Next, vars, cookies, AuthCookies!vars

LEMMA CookieRecords ==
    /\ 0 \in AuthCookies!Token
    /\ AuthCookies!NoRequest \in AuthCookies!Request /\ AuthCookies!NoReply \in AuthCookies!Reply
  BY Bounds DEF AuthCookies!Token, AuthCookies!Request, AuthCookies!NoRequest,
     AuthCookies!Kinds, AuthCookies!Reply, AuthCookies!NoReply

LEMMA CookiesInit == ASSUME AuthCookies!Init PROVE AuthCookies!IInv
<1>1. AuthCookies!TypeOK
  BY CookieRecords DEF AuthCookies!Init, AuthCookies!TypeOK
<1>2. \A p \in Pages : reply[p].kind = "None" /\ request[p].kind = "None"
  BY DEF AuthCookies!Init, AuthCookies!NoReply, AuthCookies!NoRequest
<1> QED
  BY <1>1, <1>2 DEF AuthCookies!Init, AuthCookies!IInv, AuthCookies!CookieHoldsLiveToken,
     AuthCookies!LastAnswerIsGood, AuthCookies!Good, AuthCookies!RepliesFit

\* An answer that touches the cookie comes after all that are on their way: from now on
\* it is the last of them.  One that does not leaves the last one as good as it was.
LEMMA HandlersAnswer ==
    ASSUME AuthCookies!IInv, NEW p \in Pages, NEW kind, NEW token \in AuthCookies!Token,
           request[p].kind # "None", AuthCookies!Respond(p, kind, token),
           kind \in {"Tokens", "Cleared", "CSRF", "Plain"},
           issued' \in AuthCookies!Token, session' \in [1..MaxTokens -> AuthCookies!Token],
           live' \subseteq 1..issued', ended' \subseteq 1..issued',
           kind = "Tokens" => token # 0 /\ AuthCookies!Good(token)',
           kind \notin {"Tokens", "Cleared"} =>
               \A t \in AuthCookies!Token : AuthCookies!Good(t) => AuthCookies!Good(t)'
    PROVE  AuthCookies!IInv'
<1> DEFINE a == [kind |-> kind, token |-> token,
                 after |-> {r \in Pages : AuthCookies!Touches(r)}]
<1>1. /\ request' = [request EXCEPT ![p] = AuthCookies!NoRequest]
      /\ reply' = [reply EXCEPT ![p] = a] /\ UNCHANGED <<cookie, known, astray>>
  BY DEF AuthCookies!Respond
<1>2. AuthCookies!TypeOK /\ reply[p] = AuthCookies!NoReply
  BY DEF AuthCookies!IInv, AuthCookies!RepliesFit
<1>3. AuthCookies!TypeOK'
  BY <1>1, <1>2, CookieRecords DEF AuthCookies!TypeOK, AuthCookies!Reply
<1>4. AuthCookies!RepliesFit'
  BY <1>1, <1>2 DEF AuthCookies!TypeOK, AuthCookies!RepliesFit, AuthCookies!NoRequest,
     AuthCookies!IInv
<1>5. /\ \A r \in Pages \ {p} : reply'[r] = reply[r]
      /\ reply'[p].kind = kind /\ reply'[p].token = token
      /\ reply'[p].after = {r \in Pages : AuthCookies!Touches(r)}
      /\ reply[p].kind = "None"
  BY <1>1, <1>2 DEF AuthCookies!TypeOK, AuthCookies!NoReply
<1>6. CASE kind \in {"Tokens", "Cleared"}
  <2>1. AuthCookies!CookieHoldsLiveToken'
    BY <1>5, <1>6 DEF AuthCookies!CookieHoldsLiveToken, AuthCookies!Touches
  <2>2. AuthCookies!LastAnswerIsGood'
    BY <1>5, <1>6 DEF AuthCookies!LastAnswerIsGood, AuthCookies!Touches
  <2> QED
    BY <1>3, <1>4, <2>1, <2>2 DEF AuthCookies!IInv
<1>7. CASE kind \notin {"Tokens", "Cleared"}
  <2>1. \A r \in Pages : AuthCookies!Touches(r)' <=> AuthCookies!Touches(r)
    BY <1>5, <1>7 DEF AuthCookies!Touches
  <2>2. AuthCookies!CookieHoldsLiveToken'
    BY <1>1, <1>2, <1>7, <2>1 DEF AuthCookies!CookieHoldsLiveToken, AuthCookies!IInv,
       AuthCookies!TypeOK, AuthCookies!Good
  <2>3. AuthCookies!LastAnswerIsGood'
    <3> SUFFICES ASSUME ~astray', NEW q \in Pages, reply'[q].kind = "Tokens",
                        \A r \in Pages : AuthCookies!Touches(r)' => q \notin reply'[r].after
                 PROVE  AuthCookies!Good(reply[q].token)'
      BY DEF AuthCookies!LastAnswerIsGood
    <3>1. q # p /\ reply'[q] = reply[q] /\ reply[q].token \in AuthCookies!Token
      BY <1>2, <1>5, <1>7 DEF AuthCookies!TypeOK, AuthCookies!Reply
    <3>2. \A r \in Pages : AuthCookies!Touches(r) => q \notin reply[r].after
      BY <1>5, <1>7, <2>1 DEF AuthCookies!Touches
    <3>3. AuthCookies!Good(reply[q].token)
      BY <1>1, <3>1, <3>2 DEF AuthCookies!LastAnswerIsGood, AuthCookies!IInv
    <3> QED
      BY <1>7, <3>1, <3>3 DEF AuthCookies!Good
  <2> QED
    BY <1>3, <1>4, <2>2, <2>3 DEF AuthCookies!IInv
<1> QED
  BY <1>6, <1>7

\* An answer that is not on its way any more: if it touched the cookie and none before it
\* is missing, the last one is another one, or it was the last one itself.
LEMMA AnswersLeave ==
    ASSUME AuthCookies!IInv, NEW p \in Pages, reply[p].kind # "None", AuthCookies!Forget(p),
           cookie' \in [refresh : AuthCookies!Token, csrf : AuthCookies!Token],
           known' \in [Pages -> [csrf : AuthCookies!Token, session : AuthCookies!Token]],
           astray' \in BOOLEAN, ~astray' => ~astray,
           AuthCookies!Touches(p) /\ ~astray' =>
               /\ reply[p].after = {}
               /\ cookie'.refresh = IF reply[p].kind = "Tokens" THEN reply[p].token ELSE 0,
           ~AuthCookies!Touches(p) => cookie'.refresh = cookie.refresh
    PROVE  AuthCookies!IInv'
<1>1. AuthCookies!TypeOK
  BY DEF AuthCookies!IInv
<1>2. /\ reply' = [r \in Pages |-> IF r = p THEN AuthCookies!NoReply
                                   ELSE [reply[r] EXCEPT !.after = @ \ {p}]]
      /\ UNCHANGED <<request, issued, session, live, ended>>
  BY DEF AuthCookies!Forget
<1>3. AuthCookies!TypeOK'
  BY <1>1, <1>2, CookieRecords DEF AuthCookies!TypeOK, AuthCookies!Reply
<1>4. /\ reply'[p] = AuthCookies!NoReply /\ reply'[p].kind = "None"
      /\ \A r \in Pages \ {p} : /\ reply'[r].kind = reply[r].kind /\ reply'[r].token = reply[r].token
                                /\ reply'[r].after = reply[r].after \ {p}
  BY <1>1, <1>2 DEF AuthCookies!TypeOK, AuthCookies!Reply, AuthCookies!NoReply
<1>5. AuthCookies!RepliesFit'
  <2>1. \A r \in Pages : reply[r] = AuthCookies!NoReply => reply'[r] = AuthCookies!NoReply
    <3> SUFFICES ASSUME NEW r \in Pages, reply[r] = AuthCookies!NoReply
                 PROVE  reply'[r] = AuthCookies!NoReply
      OBVIOUS
    <3>1. reply'[r] \in AuthCookies!Reply
      BY <1>3 DEF AuthCookies!TypeOK
    <3>2. reply'[r].kind = "None" /\ reply'[r].token = 0 /\ reply'[r].after = {}
      BY <1>4 DEF AuthCookies!NoReply
    <3> QED
      BY <3>1, <3>2 DEF AuthCookies!Reply, AuthCookies!NoReply
  <2> QED
    BY <1>2, <1>4, <2>1 DEF AuthCookies!IInv, AuthCookies!RepliesFit
<1>6. \A t : AuthCookies!Good(t)' <=> AuthCookies!Good(t)
  BY <1>2 DEF AuthCookies!Good
<1>7. \A r \in Pages \ {p} : AuthCookies!Touches(r)' <=> AuthCookies!Touches(r)
  BY <1>4 DEF AuthCookies!Touches
<1>8. AuthCookies!LastAnswerIsGood'
  <2> SUFFICES ASSUME ~astray', NEW q \in Pages, reply'[q].kind = "Tokens",
                      \A r \in Pages : AuthCookies!Touches(r)' => q \notin reply'[r].after
               PROVE  AuthCookies!Good(reply[q].token)'
    BY DEF AuthCookies!LastAnswerIsGood
  <2>1. q # p /\ reply[q].kind = "Tokens" /\ reply'[q].token = reply[q].token
    BY <1>4
  <2>2. \A r \in Pages : AuthCookies!Touches(r) => q \notin reply[r].after
    BY <1>4, <1>7, <2>1
  <2> QED
    BY <1>6, <2>1, <2>2 DEF AuthCookies!LastAnswerIsGood, AuthCookies!IInv
<1>9. AuthCookies!CookieHoldsLiveToken'
  <2> SUFFICES ASSUME ~astray', \A r \in Pages : ~AuthCookies!Touches(r)'
               PROVE  AuthCookies!Good(cookie'.refresh)
    BY <1>6 DEF AuthCookies!CookieHoldsLiveToken, AuthCookies!Good
  <2>1. CASE ~AuthCookies!Touches(p)
    BY <1>7, <2>1 DEF AuthCookies!CookieHoldsLiveToken, AuthCookies!IInv
  <2>2. CASE AuthCookies!Touches(p) /\ reply[p].kind = "Tokens"
    <3>1. \A r \in Pages : AuthCookies!Touches(r) => p \notin reply[r].after
      BY <1>7, <2>2
    <3> QED
      BY <2>2, <3>1 DEF AuthCookies!LastAnswerIsGood, AuthCookies!IInv
  <2>3. CASE AuthCookies!Touches(p) /\ reply[p].kind # "Tokens"
    BY <2>3 DEF AuthCookies!Good
  <2> QED
    BY <2>1, <2>2, <2>3
<1> QED
  BY <1>3, <1>5, <1>8, <1>9 DEF AuthCookies!IInv

\* A session that ends without a word to the browser leaves its tokens excused.
LEMMA EndedIsExcused ==
    ASSUME AuthCookies!TypeOK, NEW s \in 1..issued, AuthCookies!Ends({s}),
           ended' = ended \cup {s}, UNCHANGED session
    PROVE  /\ live' \subseteq 1..issued /\ ended' \subseteq 1..issued
           /\ \A t : AuthCookies!Good(t) => AuthCookies!Good(t)'
<1>1. live' = {t \in live : session[t] # s}
  BY DEF AuthCookies!Ends
<1> QED
  BY <1>1 DEF AuthCookies!TypeOK, AuthCookies!Good

\* A step leads from states with the invariant to such states again.
LEMMA CookiesNext ==
    ASSUME AuthCookies!IInv, [AuthCookies!Next]_AuthCookies!vars
    PROVE  AuthCookies!IInv'
<1>0. AuthCookies!TypeOK
  BY DEF AuthCookies!IInv
<1>1. CASE UNCHANGED AuthCookies!vars
  BY <1>1 DEF AuthCookies!vars, AuthCookies!IInv, AuthCookies!TypeOK, AuthCookies!RepliesFit,
     AuthCookies!CookieHoldsLiveToken, AuthCookies!LastAnswerIsGood, AuthCookies!Touches,
     AuthCookies!Good
<1>2. ASSUME NEW p \in Pages, AuthCookies!Send(p) PROVE AuthCookies!IInv'
  <2>1. PICK kind \in AuthCookies!Kinds \ {"None"}, identity \in {0, known[p].session},
             token \in {known[p].csrf, cookie.csrf} :
            request' = [request EXCEPT ![p] =
                [kind |-> kind, identity |-> identity, refresh |-> cookie.refresh,
                 csrf |-> AuthCookies!ValidCSRF(token)]]
    BY <1>2 DEF AuthCookies!Send
  <2>2. identity \in AuthCookies!Token /\ cookie.refresh \in AuthCookies!Token
    BY <1>0, CookieRecords DEF AuthCookies!TypeOK
  <2>3. AuthCookies!ValidCSRF(token) \in BOOLEAN
    BY DEF AuthCookies!ValidCSRF
  <2>4. /\ reply[p] = AuthCookies!NoReply
        /\ UNCHANGED <<cookie, known, reply, issued, session, live, ended, astray>>
    BY <1>2 DEF AuthCookies!Send
  <2>5. request' \in [Pages -> AuthCookies!Request]
    BY <1>0, <2>1, <2>2, <2>3 DEF AuthCookies!TypeOK, AuthCookies!Request
  <2>6. AuthCookies!RepliesFit'
    BY <1>0, <2>1, <2>4 DEF AuthCookies!RepliesFit, AuthCookies!IInv, AuthCookies!TypeOK
  <2> QED
    BY <2>4, <2>5, <2>6 DEF AuthCookies!IInv, AuthCookies!TypeOK,
       AuthCookies!CookieHoldsLiveToken, AuthCookies!LastAnswerIsGood, AuthCookies!Touches,
       AuthCookies!Good
<1>3. ASSUME NEW p \in Pages, AuthCookies!Refuse(p) PROVE AuthCookies!IInv'
  <2>1. PICK kind \in {"Cleared", "Plain"} : AuthCookies!Respond(p, kind, 0)
    BY <1>3 DEF AuthCookies!Refuse
  <2>2. request[p].kind # "None" /\ UNCHANGED <<issued, session, live, ended>>
    BY <1>3 DEF AuthCookies!Refuse
  <2> QED
    BY <1>0, <2>1, <2>2, CookieRecords, HandlersAnswer DEF AuthCookies!TypeOK, AuthCookies!Good
<1>4. ASSUME NEW p \in Pages, AuthCookies!Issue(p) PROVE AuthCookies!IInv'
  <2> DEFINE q == request[p]
  <2>1. /\ q.kind \in {"Login", "Refresh"} /\ (q.kind = "Refresh" => q.refresh \in live)
        /\ issued < MaxTokens /\ issued' = issued + 1
        /\ session' = [session EXCEPT ![issued'] =
                          IF q.kind = "Login" THEN issued' ELSE session[q.refresh]]
        /\ live' = IF q.kind = "Login" THEN live \cup {issued'}
                   ELSE (live \ {q.refresh}) \cup {issued'}
        /\ AuthCookies!Respond(p, "Tokens", issued') /\ UNCHANGED ended
    BY <1>4 DEF AuthCookies!Issue
  <2>2. PICK n \in 1..MaxTokens : n = issued'
    BY <1>0, <2>1, Bounds DEF AuthCookies!TypeOK, AuthCookies!Token
  <2>3. /\ n \in AuthCookies!Token /\ n = issued + 1 /\ n # 0
        /\ 1..issued \subseteq 1..n /\ 1..issued \subseteq 1..MaxTokens /\ n \in 1..n
    BY <1>0, <2>1, <2>2, Bounds DEF AuthCookies!TypeOK, AuthCookies!Token
  <2>4. session' \in [1..MaxTokens -> AuthCookies!Token]
    <3>1. q.kind = "Refresh" => session[q.refresh] \in AuthCookies!Token
      BY <1>0, <2>1, <2>3 DEF AuthCookies!TypeOK
    <3> QED
      BY <1>0, <2>1, <2>2, <2>3, <3>1 DEF AuthCookies!TypeOK
  <2>5. live' \subseteq 1..issued' /\ ended' \subseteq 1..issued' /\ n \in live'
    BY <1>0, <2>1, <2>2, <2>3 DEF AuthCookies!TypeOK
  <2>6. AuthCookies!Good(n)'
    BY <2>5 DEF AuthCookies!Good
  <2>7. request[p].kind # "None" /\ AuthCookies!Respond(p, "Tokens", n) /\ issued' \in AuthCookies!Token
    BY <2>1, <2>2, <2>3
  <2> QED
    BY <2>3, <2>4, <2>5, <2>6, <2>7, HandlersAnswer
<1>5. ASSUME NEW p \in Pages, AuthCookies!Revoke(p) PROVE AuthCookies!IInv'
  <2>1. request[p].kind \in {"Logout", "Revoke"} /\ AuthCookies!Respond(p, "Cleared", 0)
    BY <1>5 DEF AuthCookies!Revoke, AuthCookies!Clears
  <2>2. live' \subseteq live /\ UNCHANGED <<issued, session, ended>>
    BY <1>5 DEF AuthCookies!Revoke, AuthCookies!Ends
  <2> QED
    BY <1>0, <2>1, <2>2, CookieRecords, HandlersAnswer DEF AuthCookies!TypeOK
<1>6. ASSUME NEW p \in Pages, AuthCookies!RevokeOther(p) PROVE AuthCookies!IInv'
  <2>1. PICK s \in 1..issued \ {request[p].identity} :
            AuthCookies!Ends({s}) /\ ended' = ended \cup {s}
    BY <1>6 DEF AuthCookies!RevokeOther
  <2>2. /\ request[p].kind # "None" /\ AuthCookies!Respond(p, "Plain", 0)
        /\ UNCHANGED <<issued, session>>
    BY <1>6 DEF AuthCookies!RevokeOther
  <2>3. /\ live' \subseteq 1..issued /\ ended' \subseteq 1..issued
        /\ \A t : AuthCookies!Good(t) => AuthCookies!Good(t)'
    BY <1>0, <2>1, <2>2, EndedIsExcused
  <2> QED
    BY <1>0, <2>2, <2>3, CookieRecords, HandlersAnswer DEF AuthCookies!TypeOK
<1>7. ASSUME NEW p \in Pages, AuthCookies!Fail(p) PROVE AuthCookies!IInv'
  BY <1>0, <1>7, CookieRecords, HandlersAnswer DEF AuthCookies!Fail, AuthCookies!TypeOK,
     AuthCookies!Good
<1>8. ASSUME NEW p \in Pages, AuthCookies!IssueCSRF(p) PROVE AuthCookies!IInv'
  <2>1. /\ request[p].kind # "None" /\ AuthCookies!Respond(p, "CSRF", issued')
        /\ issued < MaxTokens /\ issued' = issued + 1 /\ UNCHANGED <<session, live, ended>>
    BY <1>8 DEF AuthCookies!IssueCSRF
  <2>2. issued' \in AuthCookies!Token /\ 1..issued \subseteq 1..issued'
    BY <1>0, <2>1, Bounds DEF AuthCookies!TypeOK, AuthCookies!Token
  <2> QED
    BY <1>0, <2>1, <2>2, HandlersAnswer DEF AuthCookies!TypeOK, AuthCookies!Good
<1>9. CASE AuthCookies!End
  <2>1. PICK s \in 1..issued : AuthCookies!Ends({s}) /\ ended' = ended \cup {s}
    BY <1>9 DEF AuthCookies!End
  <2>2. UNCHANGED <<cookie, known, request, reply, issued, session, astray>>
    BY <1>9 DEF AuthCookies!End
  <2>3. /\ live' \subseteq 1..issued /\ ended' \subseteq 1..issued
        /\ \A t : AuthCookies!Good(t) => AuthCookies!Good(t)'
    BY <1>0, <2>1, <2>2, EndedIsExcused
  <2>4. AuthCookies!TypeOK' /\ AuthCookies!RepliesFit'
    BY <1>0, <2>2, <2>3 DEF AuthCookies!TypeOK, AuthCookies!RepliesFit, AuthCookies!IInv
  <2>5. AuthCookies!CookieHoldsLiveToken' /\ AuthCookies!LastAnswerIsGood'
    <3>1. AuthCookies!Good(cookie.refresh) => AuthCookies!Good(cookie.refresh)'
      BY <2>2, <2>3 DEF AuthCookies!Good
    <3>2. \A r \in Pages : /\ AuthCookies!Touches(r)' <=> AuthCookies!Touches(r)
                           /\ AuthCookies!Good(reply[r].token) => AuthCookies!Good(reply[r].token)'
      BY <2>2, <2>3 DEF AuthCookies!Touches, AuthCookies!Good
    <3> QED
      BY <2>2, <3>1, <3>2 DEF AuthCookies!CookieHoldsLiveToken, AuthCookies!LastAnswerIsGood,
         AuthCookies!IInv
  <2> QED
    BY <2>4, <2>5 DEF AuthCookies!IInv
<1>10. ASSUME NEW p \in Pages, AuthCookies!Arrive(p) PROVE AuthCookies!IInv'
  <2>1. /\ cookie' \in [refresh : AuthCookies!Token, csrf : AuthCookies!Token]
        /\ known' \in [Pages -> [csrf : AuthCookies!Token, session : AuthCookies!Token]]
        /\ astray' \in BOOLEAN
    <3>1. reply[p] \in AuthCookies!Reply
      BY <1>0 DEF AuthCookies!TypeOK
    <3>2. reply[p].token \in AuthCookies!Token
      BY <3>1 DEF AuthCookies!Reply
    <3>3. reply[p].kind = "Tokens" => session[reply[p].token] \in AuthCookies!Token
      BY <1>0, <3>2, Bounds DEF AuthCookies!TypeOK, AuthCookies!Token, AuthCookies!IInv,
         AuthCookies!RepliesFit
    <3>4. cookie' \in [refresh : AuthCookies!Token, csrf : AuthCookies!Token]
      BY <1>0, <1>10, <3>2, CookieRecords DEF AuthCookies!Arrive, AuthCookies!TypeOK
    <3>5. CASE reply[p].kind = "Tokens"
      BY <1>0, <1>10, <3>2, <3>3, <3>4, <3>5 DEF AuthCookies!Arrive, AuthCookies!TypeOK,
         AuthCookies!Touches
    <3>6. CASE reply[p].kind = "CSRF"
      BY <1>0, <1>10, <3>2, <3>4, <3>6 DEF AuthCookies!Arrive, AuthCookies!TypeOK,
         AuthCookies!Touches
    <3>7. CASE reply[p].kind \notin {"Tokens", "CSRF"}
      BY <1>0, <1>10, <3>4, <3>7 DEF AuthCookies!Arrive, AuthCookies!TypeOK,
         AuthCookies!Touches
    <3> QED
      BY <3>5, <3>6, <3>7
  <2>2. /\ AuthCookies!Touches(p) /\ ~astray' =>
               /\ reply[p].after = {}
               /\ cookie'.refresh = IF reply[p].kind = "Tokens" THEN reply[p].token ELSE 0
        /\ ~AuthCookies!Touches(p) => cookie'.refresh = cookie.refresh
        /\ ~astray' => ~astray
    BY <1>0, <1>10 DEF AuthCookies!Arrive, AuthCookies!Touches, AuthCookies!TypeOK
  <2> QED
    BY <1>10, <2>1, <2>2, AnswersLeave DEF AuthCookies!Arrive
<1>11. ASSUME NEW p \in Pages, AuthCookies!Lose(p) PROVE AuthCookies!IInv'
  BY <1>0, <1>11, AnswersLeave DEF AuthCookies!Lose, AuthCookies!TypeOK, AuthCookies!Touches
<1> QED
  BY <1>1, <1>2, <1>3, <1>4, <1>5, <1>6, <1>7, <1>8, <1>9, <1>10, <1>11 DEF AuthCookies!Next

\* Once the answers of its pages are there the browser does not hold a token that one of
\* them replaced or revoked, however the requests overlap and whether a logout takes
\* effect at once or later, unless answers to the cookie were lost or overtook each
\* other (the cookies that auth_handlers.go and session_handlers.go set and clear).
THEOREM CookiesHoldLiveTokens == Spec => []CookieHoldsLiveToken
<1> DEFINE Inv == part = "cookies" => AuthCookies!IInv
<1>1. Init => Inv
  BY CookiesStart, CookiesInit
<1>2. Inv /\ [Next]_vars => Inv'
  BY PartStays, CookiesStep, CookiesNext
<1>3. Inv => CookieHoldsLiveToken
  BY DEF AuthCookies!IInv, CookieHoldsLiveToken
<1> QED
  BY <1>1, <1>2, <1>3, PTL DEF Spec

-----------------------------------------------------------------------------
(* Users and their relations: Users *)

UsersInv ==
    UserRelations!TypeOK /\ UserRelations!BlocksEndFollows /\ UserRelations!EventsMatchRows

LEMMA UsersStart == Init /\ part = "users" => UserRelations!Init
  BY DEF Init

LEMMA UsersStep ==
    ASSUME [Next]_vars, part = "users"
    PROVE  [UserRelations!Next]_UserRelations!vars
  BY DEF Next, vars, users, UserRelations!vars

LEMMA UsersInit == ASSUME UserRelations!Init PROVE UsersInv
  BY Bounds DEF UsersInv, UserRelations!Init, UserRelations!TypeOK, UserRelations!Profile,
     UserRelations!Statuses, UserRelations!Pairs, UserRelations!Request,
     UserRelations!BlocksEndFollows, UserRelations!EventsMatchRows, UserRelations!Exists

\* A command that reads, ends or gives up leaves profiles and relations alone.
LEMMA UsersRequestOnly ==
    ASSUME UsersInv, request' \in [Requests -> UserRelations!Request],
           UNCHANGED <<UserRelations!profiles, UserRelations!relations>>
    PROVE  UsersInv'
  BY DEF UsersInv, UserRelations!TypeOK, UserRelations!profiles, UserRelations!relations,
     UserRelations!BlocksEndFollows, UserRelations!EventsMatchRows, UserRelations!Exists,
     UserRelations!AnyDirectionBlocked

LEMMA UsersRequests ==
    ASSUME UsersInv, NEW r \in Requests, UserRelations!Ended(r)
    PROVE  request' \in [Requests -> UserRelations!Request]
  BY DEF UsersInv, UserRelations!TypeOK, UserRelations!Ended, UserRelations!Request

LEMMA UsersIssue ==
    ASSUME UsersInv, NEW r \in Requests, NEW kind, NEW a \in People, NEW t,
           \/ kind \in {"Create", "Update"} /\ t = Nobody
           \/ kind \in {"Follow", "Unfollow", "Block", "Unblock"} /\ t \in People,
           UserRelations!Issue(r, kind, a, t)
    PROVE  UsersInv'
<1>1. [kind |-> kind, actor |-> a, target |-> t] \in UserRelations!Request
  BY DEF UserRelations!Request
<1>2. request' \in [Requests -> UserRelations!Request]
  BY <1>1 DEF UsersInv, UserRelations!TypeOK, UserRelations!Issue
<1> QED
  BY <1>2, UsersRequestOnly DEF UserRelations!Issue

\* Steps that change a profile keep what was told of it in step with the row.
LEMMA UsersProfiles ==
    ASSUME UsersInv, request' \in [Requests -> UserRelations!Request],
           UNCHANGED UserRelations!relations,
           NEW u \in People, NEW s \in UserRelations!Profile,
           profile' = [profile EXCEPT ![u] = s],
           \/ toldVersion' = [toldVersion EXCEPT ![u] = s.version]
           \/ UNCHANGED toldVersion /\ s.version = profile[u].version,
           \/ created' = [created EXCEPT ![u] = 1] /\ s.status # "NONE"
           \/ UNCHANGED created /\ (s.status = "NONE" <=> profile[u].status = "NONE")
    PROVE  UsersInv'
<1> USE DEF UsersInv, UserRelations!TypeOK, UserRelations!EventsMatchRows
<1>1. /\ toldVersion' = [toldVersion EXCEPT ![u] = s.version]
      /\ created' = [created EXCEPT ![u] = IF s.status # "NONE" THEN 1 ELSE 0]
  BY DEF UserRelations!Exists
<1>2. UserRelations!TypeOK'
  BY <1>1 DEF UserRelations!relations, UserRelations!Profile
<1>3. UserRelations!BlocksEndFollows'
  BY DEF UserRelations!relations, UserRelations!BlocksEndFollows,
     UserRelations!AnyDirectionBlocked
<1>4. UserRelations!EventsMatchRows'
  BY <1>1 DEF UserRelations!relations, UserRelations!Exists
<1> QED
  BY <1>2, <1>3, <1>4

\* Steps that change relations tell them as they are, and leave no follow across a block
\* but those that came late.
LEMMA UsersRelations ==
    ASSUME UsersInv, NEW r \in Requests, UserRelations!Ended(r),
           UNCHANGED UserRelations!profiles,
           follows' \subseteq UserRelations!Pairs, blocks' \subseteq UserRelations!Pairs,
           late' \subseteq UserRelations!Pairs,
           toldFollows' = follows', toldBlocks' = blocks',
           UserRelations!BlocksEndFollows'
    PROVE  UsersInv'
<1>1. request' \in [Requests -> UserRelations!Request]
  BY UsersRequests
<1> QED
  BY <1>1 DEF UsersInv, UserRelations!TypeOK, UserRelations!EventsMatchRows,
     UserRelations!profiles, UserRelations!Exists

LEMMA UsersNext ==
    ASSUME UsersInv, [UserRelations!Next]_UserRelations!vars
    PROVE  UsersInv'
<1>1. CASE UNCHANGED UserRelations!vars
  BY <1>1, UsersRequestOnly DEF UserRelations!vars, UserRelations!profiles,
     UserRelations!relations, UsersInv, UserRelations!TypeOK
<1>2. ASSUME NEW u \in People, NEW from, NEW to \in UserRelations!Statuses \ {"NONE"},
             "NONE" \notin from, UserRelations!Transition(u, from, to)
      PROVE  UsersInv'
  <2> DEFINE s == [profile[u] EXCEPT !.status = to]
  <2>1. s \in UserRelations!Profile /\ s.status # "NONE" /\ s.version = profile[u].version
    BY DEF UsersInv, UserRelations!TypeOK, UserRelations!Profile
  <2>2. profile' = [profile EXCEPT ![u] = s] /\ profile[u].status # "NONE"
    BY <1>2 DEF UsersInv, UserRelations!TypeOK, UserRelations!Exists, UserRelations!Transition
  <2>3. /\ UNCHANGED <<toldVersion, created, UserRelations!relations>>
        /\ request' \in [Requests -> UserRelations!Request]
    BY <1>2 DEF UserRelations!Transition, UsersInv, UserRelations!TypeOK
  <2> HIDE DEF s
  <2> QED
    BY <2>1, <2>2, <2>3, UsersProfiles
<1>3. ASSUME NEW u \in People,
             \/ UserRelations!DeactivateUserProfile(u) \/ UserRelations!MarkUserDeleted(u)
             \/ UserRelations!RestoreDeletedUserProfile(u)
      PROVE  UsersInv'
  BY <1>2, <1>3 DEF UserRelations!DeactivateUserProfile, UserRelations!MarkUserDeleted,
     UserRelations!RestoreDeletedUserProfile, UserRelations!Statuses
<1>4. ASSUME NEW r \in Requests, NEW u \in People,
             UserRelations!FindByAccountID(r, u) \/ UserRelations!LoadForUpdate(r, u)
      PROVE  UsersInv'
  BY <1>4, UsersIssue DEF UserRelations!FindByAccountID, UserRelations!LoadForUpdate
<1>5. ASSUME NEW r \in Requests, NEW a \in People, NEW t \in People,
             UserRelations!LoadActorAndTarget(r, a, t)
      PROVE  UsersInv'
  BY <1>5, UsersIssue DEF UserRelations!LoadActorAndTarget
<1>6. ASSUME NEW r \in Requests, UserRelations!Ended(r)
      PROVE  request' \in [Requests -> UserRelations!Request]
  BY <1>6, UsersRequests
<1>7. ASSUME NEW r \in Requests, NEW u, u = request[r].actor,
             UserRelations!CreateProfileForAccount(r)
      PROVE  UsersInv'
  <2> DEFINE s == [profile[u] EXCEPT !.status = "ACTIVE"]
  <2>1. u \in People
    BY <1>7 DEF UserRelations!CreateProfileForAccount, UsersInv,
       UserRelations!TypeOK, UserRelations!Request, UserRelations!Idle
  <2>2. /\ profile' = [profile EXCEPT ![u].status =
                          IF UserRelations!Exists(u) THEN @ ELSE "ACTIVE"]
        /\ created' = [created EXCEPT ![u] = IF UserRelations!Exists(u) THEN @ ELSE @ + 1]
        /\ UNCHANGED <<toldVersion, UserRelations!relations>>
        /\ request' \in [Requests -> UserRelations!Request]
    BY <1>6, <1>7 DEF UserRelations!CreateProfileForAccount, UserRelations!Created
  <2>3. CASE UserRelations!Exists(u)
    <3>1. profile' = profile /\ created' = created
      BY <2>1, <2>2, <2>3 DEF UsersInv, UserRelations!TypeOK, UserRelations!Profile
    <3> QED
      BY <2>2, <3>1, UsersRequestOnly DEF UserRelations!profiles
  <2>4. CASE ~UserRelations!Exists(u)
    <3>1. s \in UserRelations!Profile /\ s.status # "NONE" /\ s.version = profile[u].version
      BY <2>1 DEF UsersInv, UserRelations!TypeOK, UserRelations!Profile, UserRelations!Statuses
    <3>2. profile' = [profile EXCEPT ![u] = s]
      BY <2>1, <2>2, <2>4 DEF UsersInv, UserRelations!TypeOK
    <3>3. created' = [created EXCEPT ![u] = 1]
      <4>1. created[u] = 0
        BY <2>1, <2>4 DEF UsersInv, UserRelations!EventsMatchRows
      <4> QED
        BY <2>1, <2>2, <2>4, <4>1 DEF UsersInv, UserRelations!TypeOK
    <3> HIDE DEF s
    <3> QED
      BY <2>1, <2>2, <3>1, <3>2, <3>3, UsersProfiles
  <2> QED
    BY <2>3, <2>4
<1>8. ASSUME NEW r \in Requests, NEW u, u = request[r].actor,
             UserRelations!UpdateProfile(r)
      PROVE  UsersInv'
  <2> DEFINE s == [profile[u] EXCEPT !.version = @ + 1]
  <2>1. /\ u \in People /\ UNCHANGED <<created, UserRelations!relations>>
        /\ request' \in [Requests -> UserRelations!Request]
    BY <1>6, <1>8 DEF UserRelations!UpdateProfile, UsersInv,
       UserRelations!TypeOK, UserRelations!Request, UserRelations!Idle
  <2>2. CASE UNCHANGED <<profile, toldVersion>>
    BY <2>1, <2>2, UsersRequestOnly DEF UserRelations!profiles
  <2>3. CASE /\ profile[u].version < MaxVersion
             /\ profile' = [profile EXCEPT ![u].version = @ + 1]
             /\ toldVersion' = [toldVersion EXCEPT ![u] = profile'[u].version]
    <3>1. /\ s \in UserRelations!Profile /\ s.status = profile[u].status
          /\ profile' = [profile EXCEPT ![u] = s]
      BY <2>1, <2>3, Bounds DEF UsersInv, UserRelations!TypeOK, UserRelations!Profile
    <3>2. toldVersion' = [toldVersion EXCEPT ![u] = s.version]
      BY <2>1, <2>3, <3>1 DEF UsersInv, UserRelations!TypeOK
    <3> HIDE DEF s
    <3> QED
      BY <2>1, <3>1, <3>2, UsersProfiles
  <2> QED
    BY <1>8, <2>2, <2>3 DEF UserRelations!UpdateProfile
<1>9. ASSUME NEW r \in Requests, NEW p, p = UserRelations!Pair(r),
             request[r].kind \in {"Follow", "Unfollow", "Block", "Unblock"}
      PROVE  /\ p \in UserRelations!Pairs
             /\ UserRelations!Reverse(p) \in UserRelations!Pairs
             /\ p = <<p[1], p[2]>> /\ UserRelations!Reverse(p) = <<p[2], p[1]>>
  BY <1>9 DEF UsersInv, UserRelations!TypeOK, UserRelations!Request, UserRelations!Idle,
     UserRelations!Pair, UserRelations!Pairs, UserRelations!Reverse
<1>10. ASSUME NEW r \in Requests, NEW p, p = UserRelations!Pair(r),
              UserRelations!FollowUser(r)
       PROVE  UsersInv'
  <2>1. p \in UserRelations!Pairs
    BY <1>9, <1>10 DEF UserRelations!FollowUser
  <2>2. /\ follows' = follows \cup {p}
        /\ UNCHANGED <<blocks, toldBlocks, UserRelations!profiles>>
        /\ late' = IF p \notin follows /\ UserRelations!AnyDirectionBlocked(p[1], p[2])
                   THEN late \cup {p} ELSE late
        /\ toldFollows' = IF p \in follows THEN toldFollows ELSE toldFollows \cup {p}
    BY <1>10 DEF UserRelations!FollowUser
  <2>3. UserRelations!BlocksEndFollows'
    BY <2>2 DEF UsersInv, UserRelations!BlocksEndFollows, UserRelations!AnyDirectionBlocked
  <2> QED
    BY <1>10, <2>1, <2>2, <2>3, UsersRelations DEF UsersInv, UserRelations!TypeOK,
       UserRelations!EventsMatchRows, UserRelations!FollowUser
<1>11. ASSUME NEW r \in Requests, UserRelations!UnfollowUser(r) PROVE UsersInv'
  <2>1. UserRelations!BlocksEndFollows'
    BY <1>11 DEF UsersInv, UserRelations!BlocksEndFollows,
       UserRelations!AnyDirectionBlocked, UserRelations!UnfollowUser
  <2> QED
    BY <1>11, <2>1, UsersRelations DEF UsersInv, UserRelations!TypeOK,
       UserRelations!EventsMatchRows, UserRelations!UnfollowUser
<1>12. ASSUME NEW r \in Requests, NEW p, p = UserRelations!Pair(r),
              UserRelations!BlockUser(r)
       PROVE  UsersInv'
  <2>1. /\ p \in UserRelations!Pairs /\ p = <<p[1], p[2]>>
        /\ UserRelations!Reverse(p) = <<p[2], p[1]>>
    BY <1>9, <1>12 DEF UserRelations!BlockUser
  <2>2. PICK removed \in SUBSET follows :
           /\ p \notin blocks => removed = {p, UserRelations!Reverse(p)} \cap follows
           /\ blocks' = blocks \cup {p} /\ toldBlocks' = toldBlocks \cup {p}
           /\ follows' = follows \ removed /\ late' = late \ removed
           /\ toldFollows' = toldFollows \ removed
           /\ UserRelations!Ended(r) /\ UNCHANGED UserRelations!profiles
    BY <1>12 DEF UserRelations!BlockUser, UserRelations!RemovedFollows, UserRelations!Announced
  <2>3. UserRelations!BlocksEndFollows'
    <3> SUFFICES ASSUME NEW q \in follows',
                        <<q[1], q[2]>> \in blocks' \/ <<q[2], q[1]>> \in blocks'
                 PROVE  q \in late'
      BY DEF UserRelations!BlocksEndFollows, UserRelations!AnyDirectionBlocked
    <3>1. q \in follows /\ q \notin removed /\ q \in People \X People
      BY <2>2 DEF UsersInv, UserRelations!TypeOK, UserRelations!Pairs
    <3>2. CASE <<q[1], q[2]>> \in blocks \/ <<q[2], q[1]>> \in blocks
      BY <2>2, <3>1, <3>2 DEF UsersInv, UserRelations!BlocksEndFollows,
         UserRelations!AnyDirectionBlocked
    <3>3. CASE p \notin blocks /\ (<<q[1], q[2]>> = p \/ <<q[2], q[1]>> = p)
      <4>1. q = p \/ q = <<p[2], p[1]>>
        BY <2>1, <3>1, <3>3
      <4> QED
        BY <2>1, <2>2, <3>1, <3>3, <4>1
    <3> QED
      BY <2>2, <3>2, <3>3
  <2> QED
    BY <2>1, <2>2, <2>3, UsersRelations DEF UsersInv, UserRelations!TypeOK,
       UserRelations!EventsMatchRows
<1>13. ASSUME NEW r \in Requests, UserRelations!UnblockUser(r) PROVE UsersInv'
  <2>1. UserRelations!BlocksEndFollows'
    BY <1>13 DEF UsersInv, UserRelations!BlocksEndFollows,
       UserRelations!AnyDirectionBlocked, UserRelations!UnblockUser
  <2> QED
    BY <1>13, <2>1, UsersRelations DEF UsersInv, UserRelations!TypeOK,
       UserRelations!EventsMatchRows, UserRelations!UnblockUser
<1>14. ASSUME NEW r \in Requests, UserRelations!Abandon(r) PROVE UsersInv'
  BY <1>6, <1>14, UsersRequestOnly DEF UserRelations!Abandon
<1> QED
  BY <1>1, <1>3, <1>4, <1>5, <1>7, <1>8, <1>10, <1>11, <1>12, <1>13, <1>14
     DEF UserRelations!Next

\* Nobody follows across a block but by a follow that overlapped it, and whoever applies
\* the events in order has the relations, versions and users the rows have
\* (relationship_commands.go and its profile counterparts).
THEOREM Relations == Spec => []RelationsHold
<1> DEFINE Inv == part = "users" => UsersInv
<1>1. Init => Inv
  BY UsersStart, UsersInit
<1>2. Inv /\ [Next]_vars => Inv'
  BY PartStays, UsersStep, UsersNext
<1>3. Inv => RelationsHold
  BY DEF UsersInv, RelationsHold
<1> QED
  BY <1>1, <1>2, <1>3, PTL DEF Spec

-----------------------------------------------------------------------------
(* Registration and login: Accounts *)

LEMMA AccountsStart == Init /\ part = "accounts" => AuthAccounts!Init
  BY DEF Init

LEMMA AccountsStep ==
    ASSUME [Next]_vars, part = "accounts"
    PROVE  [AuthAccounts!Next]_AuthAccounts!vars
  BY DEF Next, vars, accounts, AuthAccounts!vars

LEMMA AccountsInit == ASSUME AuthAccounts!Init PROVE AuthAccounts!IInv
  BY DEF AuthAccounts!Init, AuthAccounts!IInv, AuthAccounts!TypeOK, AuthAccounts!Account,
     AuthAccounts!AccountStatuses, AuthAccounts!Client, AuthAccounts!RegisteredIsComplete,
     AuthAccounts!SessionsAfterRegistration, AuthAccounts!RequestsUpToDate,
     AuthAccounts!At, AuthAccounts!Idle

LEMMA AccountsNext ==
    ASSUME AuthAccounts!IInv, [AuthAccounts!Next]_AuthAccounts!vars
    PROVE  AuthAccounts!IInv'
<1> USE DEF AuthAccounts!IInv, AuthAccounts!TypeOK, AuthAccounts!RegisteredIsComplete,
        AuthAccounts!SessionsAfterRegistration, AuthAccounts!RequestsUpToDate,
        AuthAccounts!Pending, AuthAccounts!At
<1>1. CASE UNCHANGED AuthAccounts!vars
  BY <1>1 DEF AuthAccounts!vars
<1>2. ASSUME NEW c \in Browsers, AuthAccounts!Ends(c)
      PROVE  client' \in [Browsers -> AuthAccounts!Client]
             /\ \A d \in Browsers : client'[d] = client[d] \/ client'[d].step = "Idle"
  BY <1>2 DEF AuthAccounts!Ends, AuthAccounts!Client, AuthAccounts!Idle
<1>3. ASSUME NEW c \in Browsers, NEW s, s \in {"Activate", "Session"},
             client[c].step # "Idle", AuthAccounts!Goes(c, s)
      PROVE  /\ client' \in [Browsers -> AuthAccounts!Client]
             /\ client'[c].step = s /\ client'[c].password = client[c].password
             /\ \A d \in Browsers \ {c} : client'[d] = client[d]
  <2>1. client[c] \in [step : {"Profile", "Activate", "Verify", "Session"},
                       password : Passwords]
    BY <1>3 DEF AuthAccounts!Client, AuthAccounts!Idle
  <2> QED
    BY <1>3, <2>1 DEF AuthAccounts!Goes, AuthAccounts!Client
<1>4. ASSUME NEW c \in Browsers, NEW p \in Passwords, AuthAccounts!CreateOrLoadPending(c, p)
      PROVE  AuthAccounts!IInv'
  BY <1>4 DEF AuthAccounts!CreateOrLoadPending, AuthAccounts!Account,
     AuthAccounts!AccountStatuses, AuthAccounts!Client
<1>5. ASSUME NEW c \in Browsers, AuthAccounts!CreateProfileForAccount(c)
      PROVE  AuthAccounts!IInv'
  <2>1. /\ hasProfile' \in {hasProfile, TRUE} /\ client[c].step = "Profile"
        /\ UNCHANGED <<account, credential, role, registered, sessions>>
    BY <1>5 DEF AuthAccounts!CreateProfileForAccount
  <2>2. CASE hasProfile' /\ AuthAccounts!Goes(c, "Activate")
    <3>1. hasProfile' = TRUE
      BY <2>1, <2>2
    <3>2. /\ client' \in [Browsers -> AuthAccounts!Client]
          /\ client'[c].step = "Activate"
          /\ \A d \in Browsers \ {c} : client'[d] = client[d]
      <4>1. client[c].step # "Idle" /\ "Activate" \in {"Activate", "Session"}
        BY <2>1
      <4> QED
        BY <1>3, <2>2, <4>1
    <3> QED
      BY <2>1, <3>1, <3>2
  <2>3. CASE AuthAccounts!Ends(c)
    BY <1>2, <2>1, <2>3
  <2> QED
    BY <1>5, <2>2, <2>3 DEF AuthAccounts!CreateProfileForAccount, AuthAccounts!ProfileAnswered
<1>6. ASSUME NEW c \in Browsers, AuthAccounts!Activate(c) PROVE AuthAccounts!IInv'
  <2>1. /\ AuthAccounts!Ends(c) /\ hasProfile
        /\ UNCHANGED <<credential, hasProfile, sessions>>
    BY <1>6 DEF AuthAccounts!Activate
  <2>2. CASE /\ account.status \in {"PENDING_PROFILE", "ACTIVE"}
             /\ account' = [account EXCEPT !.status = "ACTIVE", !.userId = TRUE]
             /\ role' = TRUE /\ registered' = TRUE
    <3>1. account' \in AuthAccounts!Account /\ account'.status = "ACTIVE" /\ account'.userId
      BY <2>2 DEF AuthAccounts!Account, AuthAccounts!AccountStatuses
    <3> QED
      BY <1>2, <2>1, <2>2, <3>1
  <2>3. CASE UNCHANGED <<account, role, registered>>
    BY <1>2, <2>1, <2>3
  <2> QED
    BY <1>6, <2>2, <2>3 DEF AuthAccounts!Activate
<1>7. ASSUME NEW c \in Browsers, NEW p \in Passwords, AuthAccounts!FindByEmail(c, p)
      PROVE  AuthAccounts!IInv'
  BY <1>7 DEF AuthAccounts!FindByEmail, AuthAccounts!CanLogin, AuthAccounts!Client
<1>8. ASSUME NEW c \in Browsers, AuthAccounts!VerifyPassword(c) PROVE AuthAccounts!IInv'
  <2>1. CASE client[c].password = credential
    <3>1. AuthAccounts!Goes(c, "Session")
      BY <1>8, <2>1 DEF AuthAccounts!VerifyPassword
    <3>2. /\ client' \in [Browsers -> AuthAccounts!Client]
          /\ client'[c].step = "Session" /\ client'[c].password = credential
          /\ \A d \in Browsers \ {c} : client'[d] = client[d]
      <4>1. client[c].step # "Idle" /\ "Session" \in {"Activate", "Session"}
        BY <1>8 DEF AuthAccounts!VerifyPassword
      <4> QED
        BY <1>3, <2>1, <3>1, <4>1
    <3>3. account.status \notin {"NONE", "PENDING_PROFILE"}
      BY <1>8 DEF AuthAccounts!VerifyPassword
    <3> QED
      BY <1>8, <3>2, <3>3 DEF AuthAccounts!VerifyPassword
  <2>2. CASE client[c].password # credential
    BY <1>2, <1>8, <2>2 DEF AuthAccounts!VerifyPassword
  <2> QED
    BY <2>1, <2>2
<1>9. ASSUME NEW c \in Browsers, AuthAccounts!CreateSession(c) PROVE AuthAccounts!IInv'
  <2>1. client[c].password \in Passwords
    BY <1>9 DEF AuthAccounts!CreateSession, AuthAccounts!Client, AuthAccounts!Idle
  <2> QED
    BY <1>2, <1>9, <2>1 DEF AuthAccounts!CreateSession
<1>10. ASSUME NEW c \in Browsers, AuthAccounts!Fail(c) PROVE AuthAccounts!IInv'
  BY <1>2, <1>10 DEF AuthAccounts!Fail
<1>11. ASSUME AuthAccounts!Govern PROVE AuthAccounts!IInv'
  BY <1>11 DEF AuthAccounts!Govern, AuthAccounts!Account, AuthAccounts!AccountStatuses
<1> QED
  BY <1>1, <1>4, <1>5, <1>6, <1>7, <1>8, <1>9, <1>10, <1>11 DEF AuthAccounts!Next

\* An account in use has a profile, a role, its user id and the event that announces it,
\* and sessions of its one password, wherever registrations of it broke off
\* (service.go of the auth service).
THEOREM Registrations == Spec => []RegistrationHolds
<1> DEFINE Inv == part = "accounts" => AuthAccounts!IInv
<1>1. Init => Inv
  BY AccountsStart, AccountsInit
<1>2. Inv /\ [Next]_vars => Inv'
  BY PartStays, AccountsStep, AccountsNext
<1>3. Inv => RegistrationHolds
  BY DEF AuthAccounts!IInv, RegistrationHolds
<1> QED
  BY <1>1, <1>2, <1>3, PTL DEF Spec

-----------------------------------------------------------------------------
(* A process from start to stop: Lifecycle *)

LEMMA ProcessStart == Init /\ part = "process" => Process!Init
  BY DEF Init

LEMMA ProcessStep ==
    ASSUME [Next]_vars, part = "process"
    PROVE  [Process!Next]_Process!vars
  BY DEF Next, vars, process, Process!vars

LEMMA ProcessInit == ASSUME Process!Init PROVE Process!IInv
  BY Bounds DEF Process!Init, Process!IInv, Process!TypeOK, Process!ClosedOnce,
     Process!StepsInOrder, Process!WaitedFor, Process!Dependencies, Process!Started,
     Process!Closing

\* At most four dependencies, and the first of those that are left is one of them
LEMMA ProcessDependencies ==
    ASSUME Process!IInv
    PROVE  Len(Process!Dependencies) \in 0..4 /\ opened \in 0..4
  BY DEF Process!IInv, Process!TypeOK, Process!Dependencies

LEMMA ProcessOpens == ASSUME Process!IInv, Process!Opens PROVE Process!IInv'
<1>1. Len(Process!Dependencies)' = Len(Process!Dependencies)
  BY DEF Process!Opens, Process!Dependencies
<1> QED
  BY <1>1, ProcessDependencies DEF Process!Opens, Process!IInv, Process!TypeOK,
     Process!ClosedOnce, Process!StepsInOrder, Process!WaitedFor, Process!Started,
     Process!Closing, Process!processes

LEMMA ProcessCloses == ASSUME Process!IInv, Process!CloseNamedClosers PROVE Process!IInv'
<1> DEFINE left == {d \in 1..opened : closed[d] = 0}
<1> USE DEF Process!IInv, Process!TypeOK, Process!ClosedOnce, Process!StepsInOrder,
        Process!WaitedFor, Process!Closing, Process!Started
<1>1. /\ step = "Close" /\ Len(Process!Dependencies)' = Len(Process!Dependencies)
      /\ UNCHANGED <<service, opened, ready, cancelled, shutdown, Process!processes, path>>
  BY DEF Process!CloseNamedClosers, Process!Dependencies
<1>2. CASE left = {} /\ step' = "Exited" /\ UNCHANGED closed
  BY <1>1, <1>2, ProcessDependencies DEF Process!AfterWorkers, Process!AfterRequests,
     Process!Collected, Process!processes
<1>3. CASE left # {} /\ UNCHANGED step /\ closed' =
             [closed EXCEPT ![CHOOSE d \in left : \A e \in left : d <= e] = @ + 1]
  <2>1. \E d \in left : \A e \in left : d <= e
    BY <1>3, ProcessDependencies
  <2>2. PICK d \in left : closed' = [closed EXCEPT ![d] = @ + 1]
    BY <1>3, <2>1
  <2>3. d \in 1..4 /\ d \in 1..opened /\ closed[d] = 0
    BY <2>2, ProcessDependencies
  <2>4. closed' \in [1..4 -> Nat] /\ \A e \in 1..4 : closed'[e] = IF e = d THEN 1 ELSE closed[e]
    BY <2>2, <2>3
  <2> HIDE DEF left
  <2> QED
    BY <1>1, <1>3, <2>3, <2>4 DEF Process!AfterWorkers, Process!AfterRequests,
       Process!Collected, Process!processes
<1> QED
  BY <1>2, <1>3 DEF Process!CloseNamedClosers

\* Before a process is told to stop there is no promise to keep.
LEMMA ProcessStarts ==
    ASSUME Process!IInv, Process!Listen \/ Process!RunContentServer \/ Process!StartModule
    PROVE  Process!IInv'
<1> USE DEF Process!IInv, Process!TypeOK, Process!ClosedOnce, Process!StepsInOrder,
        Process!WaitedFor, Process!Closing, Process!Started, Process!Dependencies
<1>1. CASE Process!Listen
  BY <1>1 DEF Process!Listen, Process!ListenFails, Process!processes
<1>2. CASE Process!RunContentServer
  BY <1>2 DEF Process!RunContentServer
<1>3. CASE Process!StartModule
  BY <1>3 DEF Process!StartModule
<1> QED
  BY <1>1, <1>2, <1>3

LEMMA ProcessBeside ==
    ASSUME Process!IInv,
           \/ Process!AskToStop \/ Process!Arrive \/ Process!Answer \/ Process!ServeReturns
           \/ Process!BudgetEnds \/ \E w \in Workers : Process!WorkerEnds(w)
    PROVE  Process!IInv'
<1> USE Bounds DEF Process!IInv, Process!TypeOK, Process!ClosedOnce, Process!StepsInOrder,
        Process!WaitedFor, Process!Closing, Process!Started, Process!Dependencies,
        Process!AfterWorkers, Process!AfterRequests, Process!Collected
<1>1. CASE Process!AskToStop
  BY <1>1 DEF Process!AskToStop
<1>2. CASE Process!Arrive
  BY <1>2 DEF Process!Arrive
<1>3. CASE Process!Answer
  BY <1>3 DEF Process!Answer
<1>4. CASE Process!ServeReturns
  BY <1>4 DEF Process!ServeReturns
<1>5. CASE Process!BudgetEnds
  BY <1>5 DEF Process!BudgetEnds
<1>6. ASSUME NEW w \in Workers, Process!WorkerEnds(w) PROVE Process!IInv'
  BY <1>6 DEF Process!WorkerEnds
<1> QED
  BY <1>1, <1>2, <1>3, <1>4, <1>5, <1>6

LEMMA ProcessStops ==
    ASSUME Process!IInv,
           \/ Process!ContentServeFails \/ Process!NotificationServeFails
           \/ Process!ShutdownContentServer \/ Process!ShutdownNotificationServer
           \/ Process!WaitWorkers \/ Process!WaitRequests \/ Process!AwaitServe
    PROVE  Process!IInv'
<1> USE Bounds DEF Process!IInv, Process!TypeOK, Process!ClosedOnce, Process!StepsInOrder,
        Process!WaitedFor, Process!Closing, Process!Started, Process!Dependencies,
        Process!AfterWorkers, Process!AfterRequests, Process!Collected, Process!Goes,
        Process!processes
<1>1. CASE Process!ContentServeFails \/ Process!NotificationServeFails
  BY <1>1 DEF Process!ContentServeFails, Process!NotificationServeFails
<1>2. CASE Process!ShutdownContentServer
  BY <1>2 DEF Process!ShutdownContentServer
<1>3. CASE Process!ShutdownNotificationServer
  BY <1>3 DEF Process!ShutdownNotificationServer
<1>4. CASE Process!WaitWorkers
  BY <1>4 DEF Process!WaitWorkers
<1>5. CASE Process!WaitRequests
  BY <1>5 DEF Process!WaitRequests, Process!Drained
<1>6. CASE Process!AwaitServe
  BY <1>6 DEF Process!AwaitServe
<1> QED
  BY <1>1, <1>2, <1>3, <1>4, <1>5, <1>6

LEMMA ProcessNext ==
    ASSUME Process!IInv, [Process!Next]_Process!vars
    PROVE  Process!IInv'
<1>1. CASE UNCHANGED Process!vars
  BY <1>1 DEF Process!vars, Process!IInv, Process!TypeOK, Process!ClosedOnce,
     Process!StepsInOrder, Process!WaitedFor, Process!Dependencies,
     Process!AfterWorkers, Process!AfterRequests, Process!Collected
<1> QED
  BY <1>1, ProcessOpens, ProcessStarts, ProcessBeside, ProcessStops, ProcessCloses
     DEF Process!Next, Process!Main, Process!OpenContentRuntimeDependencies,
     Process!OpenNotificationRuntimeDependencies

\* Whatever the workers and requests do, a process that keeps to its budget closes nothing
\* under them, and whichever step fails it closes what it opened, once (server.go).
THEOREM ProcessesDrain == Spec => []DrainedBeforeClosed
<1> DEFINE Inv == part = "process" => Process!IInv
<1>1. Init => Inv
  BY ProcessStart, ProcessInit
<1>2. Inv /\ [Next]_vars => Inv'
  BY PartStays, ProcessStep, ProcessNext
<1>3. Process!IInv => Process!DrainedBeforeClosed
  BY DEF Process!IInv, Process!StepsInOrder, Process!WaitedFor, Process!AfterWorkers,
     Process!AfterRequests, Process!Collected, Process!Closing, Process!DrainedBeforeClosed
<1>4. Inv => DrainedBeforeClosed
  BY <1>3 DEF Process!IInv, DrainedBeforeClosed
<1> QED
  BY <1>1, <1>2, <1>4, PTL DEF Spec

-----------------------------------------------------------------------------
(* Calls of other services: Providers *)

LEMMA CallsStart == Init /\ part = "providers" => Calls!Init
  BY DEF Init

LEMMA CallsStep ==
    ASSUME [Next]_vars, part = "providers"
    PROVE  [Calls!Next]_Calls!vars
  BY DEF Next, vars, providers, Calls!vars

LEMMA CallsInit == ASSUME Calls!Init PROVE Calls!OutagesStayOutages
  BY DEF Calls!Init, Calls!OutagesStayOutages, Calls!NoAnswer

LEMMA AnswersHaveStatus ==
    ASSUME NEW a \in Answers
    PROVE  \/ a.kind \in {"lost", "late"} /\ a.status = 0
           \/ a.kind \in {"text", "json"} /\ a.status \in (200..299) \cup (400..599)
  BY ServicesAssumption

\* Only "fine" is success, and only an outage is told as one.
LEMMA CommentStatuses ==
    ASSUME NEW error
    PROVE  /\ error = "fine" => Calls!CommentStatus(error) = 200
           /\ error = "unavailable" => Calls!CommentStatus(error) = 503
           /\ error = "post_not_found" => Calls!CommentStatus(error) = 404
           /\ error \in {"user_unavailable", "blocked"} => Calls!CommentStatus(error) = 403
           /\ error = "media_invalid" => Calls!CommentStatus(error) = 500
  BY DEF Calls!CommentStatus

LEMMA CallsOfComment ==
    ASSUME NEW a \in Answers, Calls!CallFromComment(a)
    PROVE  Calls!OutagesStayOutages'
<1> USE DEF Calls!Succeeds
<1>1. /\ last' = a /\ client' = client
      /\ client \in {"comment.content", "comment.user", "comment.relations", "comment.file"}
  BY DEF Calls!CallFromComment
<1>2. CASE Calls!Succeeds(a)
  <2>1. /\ answer' = Calls!CommentStatus(Calls!Verdict(a))
        /\ answer' \in {200, 403, 404, 503, 500} /\ a.kind = "json"
        /\ ~a.yes /\ client # "comment.file" => answer' \in {403, 404}
        /\ a.yes \/ client = "comment.file" => answer' = 200
    <3>1. a.yes => Calls!Verdict(a) = "fine"
      BY DEF Calls!Verdict
    <3>2. ~a.yes => Calls!Verdict(a) =
             CASE client = "comment.content"   -> "post_not_found"
               [] client = "comment.user"      -> "user_unavailable"
               [] client = "comment.relations" -> "blocked"
               [] OTHER                        -> "fine"
      BY DEF Calls!Verdict
    <3>3. ~a.yes /\ client # "comment.file" =>
             Calls!Verdict(a) \in {"post_not_found", "user_unavailable", "blocked"}
      BY <1>1, <3>2
    <3>4. ~a.yes /\ client = "comment.file" => Calls!Verdict(a) = "fine"
      BY <3>2
    <3>5. answer' = Calls!CommentStatus(Calls!Verdict(a)) /\ a.kind = "json"
      BY <1>2 DEF Calls!CallFromComment
    <3> QED
      BY <3>1, <3>3, <3>4, <3>5, CommentStatuses
  <2> QED
    BY <1>1, <1>2, <2>1 DEF Calls!OutagesStayOutages, Calls!Refusal
<1>3. CASE ~Calls!Succeeds(a)
  <2>1. /\ answer' = Calls!CommentStatus(Calls!MapProviderError(a))
        /\ answer' \in {403, 404, 503, 500}
        /\ Calls!Outage(a) => answer' = 503
    <3>1. Calls!Outage(a) => Calls!MapProviderError(a) = "unavailable"
      BY DEF Calls!MapProviderError
    <3>2. Calls!MapProviderError(a) \in {"unavailable", "post_not_found", "blocked",
                                         "user_unavailable", "media_invalid"}
      BY DEF Calls!MapProviderError
    <3>3. answer' = Calls!CommentStatus(Calls!MapProviderError(a))
      BY <1>3 DEF Calls!CallFromComment
    <3> QED
      BY <3>1, <3>2, <3>3, CommentStatuses
  <2>2. ~Calls!Outage(a) => Calls!Refusal(a) /\ a.kind = "json"
    BY <1>3, AnswersHaveStatus DEF Calls!Outage, Calls!ProviderAnswers, Calls!Refusal
  <2> QED
    BY <1>1, <2>1, <2>2 DEF Calls!OutagesStayOutages, Calls!Refusal
<1> QED
  BY <1>2, <1>3

LEMMA CallsOfContent ==
    ASSUME NEW a \in Answers, Calls!ValidateRefs(a) \/ Calls!GetOwnerSnapshot(a)
    PROVE  Calls!OutagesStayOutages'
<1> USE DEF Calls!Succeeds
<1>1. last' = a /\ client' = client /\ client \in {"content.file", "content.user"}
  BY DEF Calls!ValidateRefs, Calls!GetOwnerSnapshot
<1>2. Calls!ContentStatus("refused") = 400 /\ Calls!ContentStatus("unavailable") = 503
  BY DEF Calls!ContentStatus
<1>3. CASE Calls!Succeeds(a)
  <2>1. IF a.yes THEN answer' = 200
        ELSE answer' = (IF client = "content.file" THEN 400 ELSE 503)
    BY <1>1, <1>3 DEF Calls!ValidateRefs, Calls!GetOwnerSnapshot
  <2> QED
    BY <1>1, <1>3, <2>1 DEF Calls!OutagesStayOutages, Calls!Refusal
<1>4. CASE ~Calls!Succeeds(a) /\ Calls!Retries(a, MaxAttempts)
  <2>1. answer' = 0
    BY <1>1, <1>4 DEF Calls!ValidateRefs, Calls!GetOwnerSnapshot
  <2>2. /\ a.kind # "late"
        /\ client = "content.file" => a.status \notin {404, 410}
        /\ client = "content.user" =>
              ~Calls!ProviderError(a) \/ a.status >= 500 \/ a.code = 1004
    BY <1>4, AnswersHaveStatus DEF Calls!Retries, Calls!MapFileProviderError,
       Calls!ProviderError
  <2>3. client = "content.user" => ~Calls!Refusal(a)
    BY <1>4, <2>2, AnswersHaveStatus DEF Calls!Refusal, Calls!ProviderError
  <2>4. Calls!Refusal(last)' <=> Calls!Refusal(a)
    BY <1>1 DEF Calls!Refusal
  <2> QED
    BY <1>1, <2>1, <2>2, <2>3, <2>4 DEF Calls!OutagesStayOutages
<1>5. CASE ~Calls!Succeeds(a) /\ ~Calls!Retries(a, MaxAttempts)
  <2>1. \/ answer' = 503
        \/ answer' = 400 /\ client = "content.file" /\ Calls!MapFileProviderError(a) = "refused"
    BY <1>1, <1>2, <1>5 DEF Calls!ValidateRefs, Calls!GetOwnerSnapshot,
       Calls!MapFileProviderError
  <2>2. Calls!MapFileProviderError(a) = "refused" =>
           a.status \in {404, 410} /\ a.kind \in {"text", "json"}
    BY DEF Calls!MapFileProviderError, Calls!ProviderError
  <2> QED
    BY <1>1, <2>1, <2>2 DEF Calls!OutagesStayOutages
<1> QED
  BY <1>3, <1>4, <1>5

LEMMA CallsNext ==
    ASSUME Calls!OutagesStayOutages, [Calls!Next]_Calls!vars
    PROVE  Calls!OutagesStayOutages'
<1>1. CASE UNCHANGED Calls!vars
  BY <1>1 DEF Calls!vars, Calls!OutagesStayOutages, Calls!Refusal, Calls!Succeeds
<1>2. ASSUME NEW a \in Answers, Calls!ListFollowerShard(a)
      PROVE  Calls!OutagesStayOutages'
  BY <1>2, AnswersHaveStatus DEF Calls!ListFollowerShard, Calls!OutagesStayOutages,
     Calls!Succeeds
<1> QED
  BY <1>1, <1>2, CallsOfComment, CallsOfContent DEF Calls!Next

\* Whatever comes back and however often it is asked for, the client of a service is told
\* success only of a success, a refusal only of one, and nobody asks again after a
\* deadline or a refusal (file_client.go, provider_clients.go and their counterparts).
THEOREM OutagesAreTold == Spec => []OutagesStayOutages
<1> DEFINE Inv == part = "providers" => Calls!OutagesStayOutages
<1>1. Init => Inv
  BY CallsStart, CallsInit
<1>2. Inv /\ [Next]_vars => Inv'
  BY PartStays, CallsStep, CallsNext
<1>3. Inv => OutagesStayOutages
  BY DEF OutagesStayOutages
<1> QED
  BY <1>1, <1>2, <1>3, PTL DEF Spec

-----------------------------------------------------------------------------
(* The pure rules: InteractionEvents and DeliveryRules *)

LEMMA InputsStay == Spec => [](part = "rules" => input \in Inputs)
<1> DEFINE Inv == part = "rules" => input \in Inputs
<1>1. Init => Inv
  BY DEF Init
<1>2. Inv /\ [Next]_vars => Inv'
  BY DEF Next, vars, rules
<1> QED
  BY <1>1, <1>2, PTL DEF Spec

LEMMA OnlyOthers ==
    ASSUME NEW e \in Events!EventOf(Nat) PROVE Events!OnlyOthersNotified(e)
<1> USE DEF Events!EventOf, Events!DeadLetter, Events!Noop, Events!Notify, Events!Missing
<1>1. CASE e.type = "content.post.liked" /\ e.complete
  <2>1. Events!Outcome(e) = Events!PostLiked(e)
    BY <1>1 DEF Events!Outcome, Events!Decoded
  <2> QED
    BY <2>1 DEF Events!PostLiked, Events!OnlyOthersNotified
<1>2. CASE e.type = "comment.created" /\ e.complete
  <2>1. Events!Outcome(e) = Events!CommentCreated(e)
    BY <1>2 DEF Events!Outcome, Events!Decoded
  <2> QED
    BY <2>1 DEF Events!CommentCreated, Events!OnlyOthersNotified
<1>3. CASE e.type = "user.followed" /\ e.complete
  <2>1. Events!Outcome(e) = Events!UserFollowed(e)
    BY <1>3 DEF Events!Outcome, Events!Decoded
  <2> QED
    BY <2>1 DEF Events!UserFollowed, Events!OnlyOthersNotified
<1>4. CASE \/ e.type \notin {"content.post.liked", "comment.created", "user.followed"}
           \/ ~e.complete
  <2>1. Events!Outcome(e).action # "store"
    BY <1>4 DEF Events!Outcome, Events!Decoded, Events!PostPublished, Events!Plan
  <2> QED
    BY <2>1 DEF Events!OnlyOthersNotified
<1> QED
  BY <1>1, <1>2, <1>3, <1>4

\* Nobody is notified of their own act, and nobody unknown is, whatever ids an event
\* carries (interaction_consumer.go).
THEOREM OthersAreNotified == Spec => []OnlyOthersNotified
<1>1. ASSUME part = "rules" => input \in Inputs PROVE OnlyOthersNotified
  <2> SUFFICES ASSUME input \in Inputs, input.rule = "event"
               PROVE  Events!OnlyOthersNotified(input.event)
    BY <1>1 DEF OnlyOthersNotified
  <2>1. input.event \in IntegrationEvents
    BY DEF Inputs
  <2>2. input.event \in Events!EventOf(Nat)
    BY <2>1, ServicesAssumption
  <2> QED
    BY <2>2, OnlyOthers
<1> QED
  BY <1>1, InputsStay, PTL

\* Where the code compares minutes, the distance from the start of the window says the
\* same, across midnight or not.
LEMMA WindowsCrossMidnight ==
    ASSUME NEW w, NEW t \in 0..Day - 1, Delivery!ValidDNDWindow(w)
    PROVE  Delivery!WindowReference(w, t) <=> Delivery!InWindow(w, t)
<1>1. Day \in Nat \ {0}
  BY Bounds
<1>2. ASSUME NEW n \in 0..Day - 1, NEW m \in 0..Day - 1
      PROVE  (n - m) % Day = IF n >= m THEN n - m ELSE n - m + Day
  <2>1. ASSUME NEW x \in 0..Day - 1 PROVE x % Day = x
    BY <1>1, <2>1
  <2>2. ASSUME NEW x \in (1 - Day)..(-1) PROVE x % Day = x + Day
    BY <1>1, <2>2
  <2> QED
    BY <1>1, <2>1, <2>2
<1>3. /\ w.start \in 0..Day - 1 /\ w.end \in 0..Day - 1 /\ w.start # w.end
      /\ (t - w.start) % Day = IF t >= w.start THEN t - w.start
                                                   ELSE t - w.start + Day
      /\ (w.end - w.start) % Day = IF w.end >= w.start THEN w.end - w.start
                                                       ELSE w.end - w.start + Day
  BY <1>2 DEF Delivery!ValidDNDWindow
<1> QED
  BY <1>1, <1>3 DEF Delivery!WindowReference, Delivery!InWindow

LEMMA Respected ==
    ASSUME NEW preference, NEW w, NEW t \in 0..Day - 1,
           NEW i \in Delivery!Subscription(Delivery!Stored(BOOLEAN))
    PROVE  Delivery!SettingsRespected(preference, i, w, t)
<1> DEFINE sub == Delivery!NormalizeAuthorSubscription(i)
           decision == Delivery!CampaignDeliveryDecision(preference, sub, w, t)
<1>1. ASSUME Delivery!ValidDNDWindow(w), w.enabled,
             Delivery!ListMatches(w.categories, "CONTENT"),
             Delivery!ListMatches(w.channels, "WEBSOCKET"),
             Delivery!WindowReference(w, t)
      PROVE  decision # "IN_APP_AND_WEBSOCKET"
  <2>1. Delivery!DndApplies(w, "CONTENT", "WEBSOCKET", t)
    BY <1>1, WindowsCrossMidnight DEF Delivery!DndApplies, Delivery!ValidDNDWindow
  <2>2. ~Delivery!WebsocketEnabled(preference, sub, w, t)
    BY <2>1 DEF Delivery!WebsocketEnabled
  <2> QED
    BY <2>2 DEF Delivery!CampaignDeliveryDecision
<1>2. sub.level \in {"MUTED", "DIGEST_ONLY"} => ~Delivery!InAppEnabled(preference, sub)
  BY DEF Delivery!InAppEnabled
<1>3. sub.level = "MUTED" => ~Delivery!DigestOnly(preference, sub)
  BY DEF Delivery!DigestOnly
<1>4. sub.level = "MUTED" => decision = "SKIP"
  BY <1>2, <1>3 DEF Delivery!CampaignDeliveryDecision
<1>5. sub.level = "DIGEST_ONLY" => decision \in {"SKIP", "DIGEST"}
  BY <1>2 DEF Delivery!CampaignDeliveryDecision
<1> QED
  BY <1>1, <1>4, <1>5 DEF Delivery!SettingsRespected

\* Nobody is interrupted in a window of theirs, of whatever length and across midnight,
\* and a muted author reaches nobody (campaign_store.go).
THEOREM SettingsAreRespected == Spec => []SettingsRespected
<1>1. ASSUME part = "rules" => input \in Inputs PROVE SettingsRespected
  <2> SUFFICES ASSUME input \in Inputs, input.rule = "settings"
               PROVE  Delivery!SettingsRespected(input.asked.preference, input.asked.sub,
                                                 input.asked.window, input.asked.time)
    BY <1>1 DEF SettingsRespected
  <2>1. input.asked \in SettingsAsked
    BY DEF Inputs
  <2>2. /\ input.asked.sub \in Delivery!Subscription(Delivery!Stored(BOOLEAN))
        /\ input.asked.time \in 0..Day - 1
    BY <2>1, ServicesAssumption
  <2> QED
    BY <2>2, Respected
<1> QED
  BY <1>1, InputsStay, PTL

-----------------------------------------------------------------------------
(* The rate limiter: RateLimits *)

LEMMA LimitsStart == Init /\ part = "limits" => ContentLimits!Init
  BY DEF Init

LEMMA LimitsStep ==
    ASSUME [Next]_vars, part = "limits"
    PROVE  [ContentLimits!Next]_ContentLimits!vars
  BY DEF Next, vars, limits, ContentLimits!vars

\* Whatever the configuration says, the rule of a type has a limit and a window.
LEMMA RulesAreComplete ==
    ASSUME NEW config \in Configs, NEW t \in LimitTypes
    PROVE  LET r == ContentLimits!RuleOf(ContentLimits!RulesFromConfig(config), t)
           IN  r \in ContentLimits!Rule /\ ContentLimits!Complete(r)
<1> DEFINE R == ContentLimits!RulesFromConfig(config)
<1>1. ContentLimits!NoRule \in ContentLimits!Rule /\ ContentLimits!Complete(ContentLimits!NoRule)
  BY DEF ContentLimits!NoRule, ContentLimits!Rule, ContentLimits!Complete,
     ContentLimits!Fallbacks
<1>2. ASSUME t \in DOMAIN R PROVE R[t] \in ContentLimits!Rule /\ ContentLimits!Complete(R[t])
  <2>1. CASE t \notin DOMAIN config \/ ~ContentLimits!Complete(config[t])
    BY <1>2, <2>1, ServicesAssumption DEF ContentLimits!RulesFromConfig
  <2>2. CASE t \in DOMAIN config /\ ContentLimits!Complete(config[t])
    <3>1. config[t] \in ContentLimits!Rule
      BY <2>2, ServicesAssumption
    <3>2. t \in DOMAIN DefaultRules => DefaultRules[t].fallbackWindow \in Int
      BY ServicesAssumption DEF ContentLimits!Rule
    <3>3. config[t].fallbackWindow \in Int
      BY <3>1 DEF ContentLimits!Rule
    <3> DEFINE x == IF config[t].fallbackWindow > 0 THEN config[t].fallbackWindow
                    ELSE IF t \in DOMAIN DefaultRules THEN DefaultRules[t].fallbackWindow ELSE 0
    <3>4. x \in Int
      BY <3>2, <3>3
    <3>5. R[t] = [config[t] EXCEPT !.fallbackWindow = x]
      BY <1>2, <2>2 DEF ContentLimits!RulesFromConfig
    <3> HIDE DEF x, R
    <3> QED
      BY <2>2, <3>1, <3>4, <3>5 DEF ContentLimits!Rule, ContentLimits!Complete
  <2> QED
    BY <2>1, <2>2
<1> QED
  BY <1>1, <1>2 DEF ContentLimits!RuleOf

\* The operators of FiniteSets as the instance knows them
LEMMA LimitsFinite ==
    /\ \A S : ContentLimits!IsFiniteSet(S) <=> IsFiniteSet(S)
    /\ \A S : ContentLimits!Cardinality(S) = Cardinality(S)
<1>1. \A S : ContentLimits!IsFiniteSet(S) <=> IsFiniteSet(S)
  BY DEF IsFiniteSet, ContentLimits!IsFiniteSet
<1>2. \A S : ContentLimits!Cardinality(S) = Cardinality(S)
  BY DEF Cardinality, ContentLimits!Cardinality
<1> QED
  BY <1>1, <1>2

LEMMA Quotients ==
    ASSUME NEW t \in Nat, NEW d \in Nat, d > 0
    PROVE  t \div d \in 0..t
<1>1. t \div d \in Int /\ t \div d >= 0 /\ t \div d <= t
  OBVIOUS
<1> QED
  BY <1>1

\* Later times have later windows, and a time that is a window later a later one.
LEMMA WindowsGrow ==
    ASSUME NEW d \in Nat, d > 0, NEW t \in Nat, NEW u \in Nat, t <= u
    PROVE  /\ t \div d <= u \div d
           /\ t + d <= u => t \div d < u \div d
<1> DEFINE a == t \div d
           b == u \div d
<1>1. a \in Nat /\ b \in Nat /\ a * d <= t /\ t < (a + 1) * d /\ b * d <= u /\ u < (b + 1) * d
  OBVIOUS
<1> HIDE DEF a, b
<1>2. a <= b
  <2> SUFFICES ASSUME b + 1 <= a PROVE FALSE
    BY <1>1
  <2>1. (b + 1) * d <= a * d
    BY <1>1
  <2> QED
    BY <1>1, <2>1
<1>3. t + d <= u => a < b
  <2> SUFFICES ASSUME t + d <= u, b <= a PROVE FALSE
    BY <1>1
  <2>1. b * d <= a * d
    BY <1>1
  <2>2. (b + 1) * d = b * d + d
    BY <1>1
  <2> QED
    BY <1>1, <2>1, <2>2
<1> QED
  BY <1>2, <1>3 DEF a, b

LEMMA RuleOfLimits ==
    ASSUME ContentLimits!IInv
    PROVE  rule.window \in Nat /\ rule.window > 0 /\ rule.limit \in Nat /\ rule.limit > 0
  BY DEF ContentLimits!IInv, ContentLimits!Rule, ContentLimits!Complete

LEMMA WindowsInRange ==
    ASSUME ContentLimits!IInv, NEW t \in 0..LimitTime
    PROVE  ContentLimits!WindowOf(t) \in ContentLimits!Windows
<1>1. t \div rule.window \in 0..t
  BY RuleOfLimits, Quotients, Bounds
<1> QED
  BY <1>1, Bounds DEF ContentLimits!WindowOf, ContentLimits!Windows

LEMMA IdleInLimits ==
    ContentLimits!Idle \in ContentLimits!Request /\ ContentLimits!Idle.step = "Idle"
    /\ ContentLimits!Idle.number = 0 /\ ContentLimits!Idle.at = 0
<1>1. (CHOOSE p \in Processes : TRUE) \in Processes
  BY ServicesAssumption
<1> QED
  BY <1>1, Bounds DEF ContentLimits!Idle, ContentLimits!Request, ContentLimits!Steps

LEMMA RequestsOfLimits ==
    ASSUME ContentLimits!IInv, NEW r \in Requests
    PROVE  /\ request[r] \in ContentLimits!Request
           /\ request[r].step \in ContentLimits!Steps
           /\ request[r].at \in 0..LimitTime /\ request[r].at <= now
           /\ request[r].process \in Processes
           /\ request[r].count \in Nat /\ request[r].number \in Nat /\ request[r].life \in Nat
           /\ ContentLimits!WindowOf(request[r].at) \in ContentLimits!Windows
<1>1. request[r] \in ContentLimits!Request /\ request[r].at <= now
  BY DEF ContentLimits!IInv, ContentLimits!TypeOK, ContentLimits!OutlivesWindow
<1>2. request[r].at \in 0..LimitTime
  BY <1>1 DEF ContentLimits!Request
<1> QED
  BY <1>1, <1>2, WindowsInRange DEF ContentLimits!Request

\* What has been counted is a request that was in flight.
LEMMA CountedRequests ==
    ASSUME ContentLimits!IInv, NEW a \in ContentLimits!Counted
    PROVE  /\ a \in ContentLimits!Request /\ a.count \in Nat /\ a.life \in Nat /\ a.late \in BOOLEAN
           /\ ContentLimits!WindowOf(a.at) \in ContentLimits!Windows
<1>1. a \in ContentLimits!Request
  <2>1. CASE a \in admitted
    BY <2>1 DEF ContentLimits!IInv, ContentLimits!TypeOK
  <2>2. CASE a \notin admitted
    <3>1. PICK r \in Requests : a = [request[r] EXCEPT !.step = "Healthy"]
      BY <2>2 DEF ContentLimits!Counted
    <3> QED
      BY <3>1, RequestsOfLimits DEF ContentLimits!Request, ContentLimits!Steps
  <2> QED
    BY <2>1, <2>2
<1>2. a.at \in 0..LimitTime
  BY <1>1 DEF ContentLimits!Request
<1> QED
  BY <1>1, <1>2, WindowsInRange DEF ContentLimits!Request

-----------------------------------------------------------------------------
(* What a step that moves one request does to each part of the invariant *)

LEMMA LimitsInit == ASSUME ContentLimits!Init PROVE ContentLimits!IInv
<1>1. rule \in ContentLimits!Rule /\ ContentLimits!Complete(rule)
  BY RulesAreComplete DEF ContentLimits!Init
<1>2. ContentLimits!TypeOK
  BY IdleInLimits, Bounds DEF ContentLimits!Init, ContentLimits!TypeOK, ContentLimits!Windows,
     ContentLimits!Never, ContentLimits!NoExpiry
<1>3. \A r \in Requests : request[r].step = "Idle" /\ request[r].number = 0 /\ request[r].at = 0
  BY IdleInLimits DEF ContentLimits!Init
<1>4. ContentLimits!Distinct
  BY <1>3 DEF ContentLimits!Init, ContentLimits!Distinct
<1>5. ContentLimits!Counted = {}
  BY <1>3 DEF ContentLimits!Init, ContentLimits!Counted
<1>6. ContentLimits!RedisQuota
  BY <1>5 DEF ContentLimits!Init, ContentLimits!RedisQuota
<1>7. ContentLimits!OutlivesWindow /\ ContentLimits!LocalQuota
  BY <1>3 DEF ContentLimits!Init, ContentLimits!OutlivesWindow, ContentLimits!LocalQuota,
     ContentLimits!ByProcess, ContentLimits!NoExpiry
<1> QED
  BY <1>1, <1>2, <1>4, <1>6, <1>7 DEF ContentLimits!IInv

\* A request goes on, begins with a number of its own, or is done.
LEMMA DistinctStays ==
    ASSUME ContentLimits!IInv, NEW r \in Requests, NEW x \in ContentLimits!Request,
           request' = [request EXCEPT ![r] = x], UNCHANGED admitted,
           checks' \in Nat, checks' >= checks,
           \/ x.step = "Idle" /\ x.number = 0
           \/ request[r].step # "Idle" /\ x.number = request[r].number
           \/ checks' = checks + 1 /\ x.number = checks'
    PROVE  ContentLimits!Distinct'
<1>1. /\ \A s \in Requests \ {r} : request'[s] = request[s]
      /\ request'[r] = x
      /\ \A s \in Requests : request[s].number \in Nat
      /\ checks \in Nat /\ x.number \in Nat /\ \A a \in admitted : a.number \in Nat
  BY RequestsOfLimits, Bounds DEF ContentLimits!IInv, ContentLimits!TypeOK, ContentLimits!Request
<1>2. ContentLimits!Distinct
  BY DEF ContentLimits!IInv
<1>3. \A s \in Requests : request'[s].number <= checks'
  BY <1>1, <1>2 DEF ContentLimits!Distinct
<1>4. \A s, t \in Requests :
         s # t /\ request'[s].step # "Idle" /\ request'[t].step # "Idle" =>
             request'[s].number # request'[t].number
  BY <1>1, <1>2 DEF ContentLimits!Distinct
<1>5. \A a \in admitted :
         /\ a.step \in {"Healthy", "Degraded"} /\ a.number <= checks'
         /\ \A s \in Requests : request'[s].step # "Idle" => a.number # request'[s].number
  BY <1>1, <1>2 DEF ContentLimits!Distinct
<1> QED
  BY <1>2, <1>3, <1>4, <1>5 DEF ContentLimits!Distinct

\* What is let through was in flight and is done now.
LEMMA DistinctLetThrough ==
    ASSUME ContentLimits!IInv, NEW r \in Requests, request[r].step # "Idle",
           request' = [request EXCEPT ![r] = ContentLimits!Idle], UNCHANGED checks,
           NEW a \in ContentLimits!Request, a.step \in {"Healthy", "Degraded"},
           a.number = request[r].number,
           admitted' = admitted \cup {a}
    PROVE  ContentLimits!Distinct'
<1>1. /\ \A s \in Requests \ {r} : request'[s] = request[s]
      /\ request'[r].step = "Idle" /\ request'[r].number = 0 /\ checks \in Nat
  BY IdleInLimits, Bounds DEF ContentLimits!IInv, ContentLimits!TypeOK
<1>2. ContentLimits!Distinct
  BY DEF ContentLimits!IInv
<1>3. \A b \in admitted : b.number # a.number
  BY <1>2 DEF ContentLimits!Distinct
<1>4. \A s \in Requests : request'[s].step # "Idle" => a.number # request'[s].number
  BY <1>1, <1>2 DEF ContentLimits!Distinct
<1>5. a.number <= checks
  BY <1>2 DEF ContentLimits!Distinct
<1>6. \A b, c \in admitted' : b.number = c.number => b = c
  BY <1>2, <1>3 DEF ContentLimits!Distinct
<1>7. \A s \in Requests : request'[s].number <= checks
  BY <1>1, <1>2 DEF ContentLimits!Distinct
<1> QED
  BY <1>1, <1>2, <1>4, <1>5, <1>6, <1>7 DEF ContentLimits!Distinct

\* Nobody joins the counted, and no counter is below what it was in the same life of its key.
LEMMA QuotaStays ==
    ASSUME ContentLimits!IInv, rule' = rule,
           ContentLimits!Counted' \subseteq ContentLimits!Counted,
           counter' \in [ContentLimits!Windows -> Nat], life' \in [ContentLimits!Windows -> Nat],
           \A w \in ContentLimits!Windows :
               life'[w] > life[w] \/ (life'[w] = life[w] /\ counter'[w] >= counter[w]),
           \A a \in admitted' :
               a.step = "Healthy" => a \in admitted \/ ~ContentLimits!TooMany(a.count)
    PROVE  ContentLimits!RedisQuota'
<1>1. \A a \in ContentLimits!Counted' :
         /\ a \in ContentLimits!Counted /\ a.count \in Nat /\ a.life \in Nat
         /\ ContentLimits!WindowOf(a.at) \in ContentLimits!Windows
         /\ ContentLimits!WindowOf(a.at)' = ContentLimits!WindowOf(a.at)
  BY CountedRequests DEF ContentLimits!WindowOf
<1>2. ContentLimits!RedisQuota
  BY DEF ContentLimits!IInv
<1>3. \A w \in ContentLimits!Windows : life[w] \in Nat /\ counter[w] \in Nat
  BY DEF ContentLimits!IInv, ContentLimits!TypeOK
<1>4. ASSUME NEW a \in ContentLimits!Counted', NEW w, w = ContentLimits!WindowOf(a.at)
      PROVE  /\ a.count > 0 /\ a.life <= life'[w] /\ (a.life = life'[w] => a.count <= counter'[w])
             /\ ~a.late => a.life = 0
  <2>1. /\ a.count > 0 /\ a.life <= life[w] /\ (a.life = life[w] => a.count <= counter[w])
        /\ ~a.late => a.life = 0
    BY <1>1, <1>2, <1>4 DEF ContentLimits!RedisQuota
  <2> QED
    BY <1>1, <1>3, <1>4, <2>1
<1>5. ASSUME NEW a \in ContentLimits!Counted', NEW b \in ContentLimits!Counted',
             ContentLimits!WindowOf(a.at) = ContentLimits!WindowOf(b.at), a.life = b.life,
             a.count = b.count
      PROVE  a.number = b.number
  BY <1>1, <1>2, <1>5 DEF ContentLimits!RedisQuota
<1>6. \A a \in admitted' : a.step = "Healthy" => ~ContentLimits!TooMany(a.count)'
  BY <1>2 DEF ContentLimits!RedisQuota, ContentLimits!TooMany
<1>7. \A a \in ContentLimits!Counted' :
         LET w == ContentLimits!WindowOf(a.at)' IN
         /\ a.count > 0 /\ a.life <= life'[w] /\ (a.life = life'[w] => a.count <= counter'[w])
         /\ ~a.late => a.life = 0
  BY <1>1, <1>4
<1>8. \A a, b \in ContentLimits!Counted' :
         ContentLimits!WindowOf(a.at)' = ContentLimits!WindowOf(b.at)' /\ a.life = b.life
             /\ a.count = b.count => a.number = b.number
  BY <1>1, <1>5
<1> QED
  BY <1>6, <1>7, <1>8 DEF ContentLimits!RedisQuota

\* Nothing that a process counted itself is let through, and no bucket changes.
LEMMA LocalStays ==
    ASSUME ContentLimits!IInv, UNCHANGED <<rule, bucket>>,
           \A a \in admitted' : a.step = "Degraded" => a \in admitted
    PROVE  ContentLimits!LocalQuota'
  BY DEF ContentLimits!IInv, ContentLimits!LocalQuota, ContentLimits!Closed,
     ContentLimits!ByProcess, ContentLimits!WindowOf, ContentLimits!TooMany

\* No key is made anew, and a TTL is only set to a later window.
LEMMA OutlivesStays ==
    ASSUME ContentLimits!IInv, UNCHANGED <<rule, now, life>>, NEW r \in Requests,
           NEW x \in ContentLimits!Request, request' = [request EXCEPT ![r] = x], x.at <= now,
           \A w \in ContentLimits!Windows :
               expiry'[w] = expiry[w] \/ ContentLimits!WindowOf(expiry'[w]) > w
    PROVE  ContentLimits!OutlivesWindow'
<1>1. \A s \in Requests : request'[s].at <= now'
  BY RequestsOfLimits DEF ContentLimits!IInv, ContentLimits!TypeOK
<1> QED
  BY <1>1 DEF ContentLimits!IInv, ContentLimits!OutlivesWindow, ContentLimits!WindowOf,
     ContentLimits!NoExpiry, ContentLimits!Windows

\* Who is counted after a request has moved
LEMMA CountedMoves ==
    ASSUME ContentLimits!IInv, NEW r \in Requests, NEW x, request' = [request EXCEPT ![r] = x],
           NEW b \in ContentLimits!Counted'
    PROVE  \/ b \in ContentLimits!Counted
           \/ b \in admitted' \ admitted /\ b.step = "Healthy"
           \/ x.step \in {"Expire", "Healthy"} /\ b = [x EXCEPT !.step = "Healthy"]
<1>1. CASE b \in admitted' /\ b.step = "Healthy"
  BY <1>1 DEF ContentLimits!Counted
<1>2. CASE ~(b \in admitted' /\ b.step = "Healthy")
  <2>1. PICK s \in Requests : /\ request'[s].step \in {"Expire", "Healthy"}
                              /\ b = [request'[s] EXCEPT !.step = "Healthy"]
    BY <1>2 DEF ContentLimits!Counted
  <2>2. request'[s] = IF s = r THEN x ELSE request[s]
    BY DEF ContentLimits!IInv, ContentLimits!TypeOK
  <2> QED
    BY <2>1, <2>2 DEF ContentLimits!Counted
<1> QED
  BY <1>1, <1>2

\* A step that counts nobody and lets nobody through
LEMMA LimitsAside ==
    ASSUME ContentLimits!IInv, UNCHANGED <<rule, now, bucket, admitted>>,
           NEW r \in Requests, NEW x \in ContentLimits!Request,
           request' = [request EXCEPT ![r] = x],
           checks' \in 0..MaxChecks, checks' >= checks,
           \/ x.step = "Idle" /\ x.number = 0
           \/ request[r].step # "Idle" /\ x.number = request[r].number
           \/ checks' = checks + 1 /\ x.number = checks',
           x.step \in {"Expire", "Healthy"} =>
               [x EXCEPT !.step = "Healthy"] \in ContentLimits!Counted,
           counter' \in [ContentLimits!Windows -> Nat], life' \in [ContentLimits!Windows -> Nat],
           expiry' \in [ContentLimits!Windows -> Nat \cup {ContentLimits!NoExpiry}],
           since' \in [Processes -> 0..ContentLimits!Never],
           \A w \in ContentLimits!Windows :
               life'[w] > life[w] \/ (life'[w] = life[w] /\ counter'[w] >= counter[w]),
           ContentLimits!OutlivesWindow'
    PROVE  ContentLimits!IInv'
<1>1. ContentLimits!TypeOK'
  BY DEF ContentLimits!IInv, ContentLimits!TypeOK
<1>2. checks' \in Nat
  BY Bounds
<1>3. ContentLimits!Distinct'
  BY <1>2, DistinctStays
<1>4. ContentLimits!Counted' \subseteq ContentLimits!Counted
  <2> SUFFICES ASSUME NEW b \in ContentLimits!Counted' PROVE b \in ContentLimits!Counted
    OBVIOUS
  <2>1. \/ b \in ContentLimits!Counted
        \/ b \in admitted' \ admitted /\ b.step = "Healthy"
        \/ x.step \in {"Expire", "Healthy"} /\ b = [x EXCEPT !.step = "Healthy"]
    BY CountedMoves
  <2> QED
    BY <2>1
<1>5. ContentLimits!RedisQuota' /\ ContentLimits!LocalQuota'
  BY <1>4, QuotaStays, LocalStays
<1> QED
  BY <1>1, <1>3, <1>5 DEF ContentLimits!IInv, ContentLimits!Complete

-----------------------------------------------------------------------------
(* Every step keeps the invariant *)

LEMMA LimitsTick == ASSUME ContentLimits!IInv, ContentLimits!Tick PROVE ContentLimits!IInv'
<1>1. /\ now \in Nat /\ now' = now + 1 /\ now' \in 0..LimitTime
      /\ UNCHANGED <<rule, counter, expiry, bucket, since, request, checks, life, admitted>>
  BY Bounds DEF ContentLimits!IInv, ContentLimits!Tick, ContentLimits!TypeOK
<1>2. ContentLimits!TypeOK' /\ ContentLimits!Distinct'
  BY <1>1 DEF ContentLimits!IInv, ContentLimits!TypeOK, ContentLimits!Distinct
<1>3. ContentLimits!Counted' = ContentLimits!Counted
  BY <1>1 DEF ContentLimits!Counted
<1>4. ContentLimits!RedisQuota' /\ ContentLimits!LocalQuota'
  BY <1>1, <1>3, QuotaStays, LocalStays DEF ContentLimits!IInv, ContentLimits!TypeOK
<1>5. ContentLimits!OutlivesWindow'
  <2>1. now \div rule.window <= now' \div rule.window
    BY <1>1, RuleOfLimits, WindowsGrow
  <2>2. \A r \in Requests : request[r].at <= now'
    BY <1>1, RequestsOfLimits
  <2>3. now \div rule.window \in Int /\ now' \div rule.window \in Int
    BY <1>1, RuleOfLimits, Quotients
  <2> QED
    BY <1>1, <2>1, <2>2, <2>3 DEF ContentLimits!IInv, ContentLimits!OutlivesWindow,
       ContentLimits!WindowOf, ContentLimits!Windows, ContentLimits!NoExpiry
<1> QED
  BY <1>1, <1>2, <1>4, <1>5 DEF ContentLimits!IInv, ContentLimits!Complete

LEMMA LimitsCheck ==
    ASSUME ContentLimits!IInv, NEW r \in Requests, NEW p \in Processes, ContentLimits!Check(r, p)
    PROVE  ContentLimits!IInv'
<1>1. PICK x : x = [ContentLimits!Idle EXCEPT !.step = "Incr", !.process = p,
                                              !.number = checks', !.at = now]
  OBVIOUS
<1>2. /\ checks' = checks + 1 /\ checks' \in 0..MaxChecks /\ checks' \in Nat /\ now \in 0..LimitTime
      /\ request' = [request EXCEPT ![r] = x]
      /\ UNCHANGED <<rule, now, counter, expiry, bucket, since, life, admitted>>
  BY <1>1, Bounds DEF ContentLimits!Check, ContentLimits!IInv, ContentLimits!TypeOK
<1>3. x \in ContentLimits!Request /\ x.step = "Incr" /\ x.number = checks' /\ x.at = now
  BY <1>1, <1>2, Bounds DEF ContentLimits!Idle, ContentLimits!Request, ContentLimits!Steps
<1>4. ContentLimits!OutlivesWindow'
  <2>1. \A s \in Requests : request'[s].at <= now'
    BY <1>2, <1>3, RequestsOfLimits, Bounds DEF ContentLimits!IInv, ContentLimits!TypeOK
  <2> QED
    BY <1>2, <2>1 DEF ContentLimits!IInv, ContentLimits!OutlivesWindow, ContentLimits!WindowOf
<1>5. /\ counter' \in [ContentLimits!Windows -> Nat] /\ life' \in [ContentLimits!Windows -> Nat]
      /\ expiry' \in [ContentLimits!Windows -> Nat \cup {ContentLimits!NoExpiry}]
      /\ since' \in [Processes -> 0..ContentLimits!Never] /\ checks' >= checks
      /\ \A w \in ContentLimits!Windows :
            life'[w] > life[w] \/ (life'[w] = life[w] /\ counter'[w] >= counter[w])
  BY <1>2, Bounds DEF ContentLimits!IInv, ContentLimits!TypeOK
<1>6. x.step \notin {"Expire", "Healthy"}
  BY <1>3
<1> QED
  BY <1>2, <1>3, <1>4, <1>5, <1>6, LimitsAside

\* Redis did not count, or nobody is told of it.
LEMMA LimitsUncounted ==
    ASSUME ContentLimits!IInv, NEW r \in Requests, request[r].step \in {"Incr", "Expire"},
           ContentLimits!Goes(r, "Degraded"),
           UNCHANGED <<rule, now, bucket, since, checks, admitted>>,
           counter' \in [ContentLimits!Windows -> Nat], life' \in [ContentLimits!Windows -> Nat],
           expiry' \in [ContentLimits!Windows -> Nat \cup {ContentLimits!NoExpiry}],
           \A w \in ContentLimits!Windows :
               life'[w] > life[w] \/ (life'[w] = life[w] /\ counter'[w] >= counter[w]),
           ContentLimits!OutlivesWindow'
    PROVE  ContentLimits!IInv'
<1>1. PICK x : x = [request[r] EXCEPT !.step = "Degraded"]
  OBVIOUS
<1>2. request' = [request EXCEPT ![r] = x]
  BY <1>1 DEF ContentLimits!Goes, ContentLimits!IInv, ContentLimits!TypeOK
<1>3. x \in ContentLimits!Request /\ x.step = "Degraded" /\ x.number = request[r].number
  BY <1>1, RequestsOfLimits DEF ContentLimits!Request, ContentLimits!Steps
<1>4. checks' \in 0..MaxChecks /\ checks' >= checks /\ since' \in [Processes -> 0..ContentLimits!Never]
  BY Bounds DEF ContentLimits!IInv, ContentLimits!TypeOK
<1> QED
  BY <1>2, <1>3, <1>4, LimitsAside

\* What INCR does to the key of a window
LEMMA KeysMove ==
    ASSUME ContentLimits!IInv, NEW r \in Requests, NEW w,
           w = ContentLimits!WindowOf(request[r].at),
           counter' = [counter EXCEPT ![w] = ContentLimits!Value(w) + 1],
           expiry' = IF ContentLimits!Gone(w)
                     THEN [expiry EXCEPT ![w] = ContentLimits!NoExpiry] ELSE expiry,
           life' = IF ContentLimits!Gone(w) THEN [life EXCEPT ![w] = @ + 1] ELSE life
    PROVE  /\ w \in ContentLimits!Windows
           /\ counter' \in [ContentLimits!Windows -> Nat]
           /\ life' \in [ContentLimits!Windows -> Nat]
           /\ expiry' \in [ContentLimits!Windows -> Nat \cup {ContentLimits!NoExpiry}]
           /\ \A v \in ContentLimits!Windows :
                 life'[v] > life[v] \/ (life'[v] = life[v] /\ counter'[v] >= counter[v])
           /\ ContentLimits!Value(w) + 1 = counter'[w]
           /\ life'[w] > life[w] \/ counter'[w] = counter[w] + 1
           /\ \A v \in ContentLimits!Windows :
                 expiry'[v] = expiry[v] \/ expiry'[v] = ContentLimits!NoExpiry
           /\ \A v \in ContentLimits!Windows :
                 life'[v] # 0 => ContentLimits!WindowOf(now) > v
<1>1. /\ w \in ContentLimits!Windows /\ counter \in [ContentLimits!Windows -> Nat]
      /\ life \in [ContentLimits!Windows -> Nat]
      /\ expiry \in [ContentLimits!Windows -> Nat \cup {ContentLimits!NoExpiry}]
      /\ now \in Nat
  BY RequestsOfLimits, Bounds DEF ContentLimits!IInv, ContentLimits!TypeOK
<1>2. ContentLimits!Gone(w) => ContentLimits!WindowOf(now) > w
  <2> SUFFICES ASSUME ContentLimits!Gone(w) PROVE ContentLimits!WindowOf(now) > w
    OBVIOUS
  <2>1. expiry[w] \in Nat /\ expiry[w] <= now /\ ContentLimits!WindowOf(expiry[w]) > w
    BY <1>1 DEF ContentLimits!Gone, ContentLimits!IInv, ContentLimits!OutlivesWindow
  <2>2. expiry[w] \div rule.window <= now \div rule.window
    BY <1>1, <2>1, RuleOfLimits, WindowsGrow
  <2>3. expiry[w] \div rule.window \in Int /\ now \div rule.window \in Int /\ w \in Int
    BY <1>1, <2>1, RuleOfLimits, Quotients DEF ContentLimits!Windows
  <2> QED
    BY <2>1, <2>2, <2>3 DEF ContentLimits!WindowOf
<1>3. \A v \in ContentLimits!Windows : life[v] # 0 => ContentLimits!WindowOf(now) > v
  BY DEF ContentLimits!IInv, ContentLimits!OutlivesWindow
<1>4. ContentLimits!Value(w) \in Nat /\ (~ContentLimits!Gone(w) => ContentLimits!Value(w) = counter[w])
  BY <1>1 DEF ContentLimits!Value
<1>5. CASE ContentLimits!Gone(w)
  BY <1>1, <1>2, <1>3, <1>4, <1>5 DEF ContentLimits!NoExpiry
<1>6. CASE ~ContentLimits!Gone(w)
  BY <1>1, <1>3, <1>4, <1>6
<1> QED
  BY <1>5, <1>6

\* The request that was counted has a count that no other has in this life of the key.
LEMMA LimitsCounts ==
    ASSUME ContentLimits!IInv, NEW r \in Requests, NEW w,
           w = ContentLimits!WindowOf(request[r].at), request[r].step = "Incr",
           UNCHANGED <<rule, now, bucket, since, checks, admitted>>,
           counter' = [counter EXCEPT ![w] = ContentLimits!Value(w) + 1],
           expiry' = IF ContentLimits!Gone(w)
                     THEN [expiry EXCEPT ![w] = ContentLimits!NoExpiry] ELSE expiry,
           life' = IF ContentLimits!Gone(w) THEN [life EXCEPT ![w] = @ + 1] ELSE life,
           NEW s \in {"Expire", "Healthy"},
           request' = [request EXCEPT ![r] =
               [@ EXCEPT !.step = s, !.count = ContentLimits!Value(w) + 1, !.life = life'[w],
                         !.late = ContentLimits!WindowOf(now) # w]],
           ContentLimits!OutlivesWindow'
    PROVE  ContentLimits!IInv'
<1>1. PICK n, l, b : n = counter'[w] /\ l = life'[w] /\ b = (ContentLimits!WindowOf(now) # w)
  OBVIOUS
<1>2. /\ w \in ContentLimits!Windows
      /\ counter' \in [ContentLimits!Windows -> Nat] /\ life' \in [ContentLimits!Windows -> Nat]
      /\ expiry' \in [ContentLimits!Windows -> Nat \cup {ContentLimits!NoExpiry}]
      /\ \A v \in ContentLimits!Windows :
            life'[v] > life[v] \/ (life'[v] = life[v] /\ counter'[v] >= counter[v])
      /\ ContentLimits!Value(w) + 1 = counter'[w]
      /\ life'[w] > life[w] \/ counter'[w] = counter[w] + 1
      /\ life'[w] # 0 => ContentLimits!WindowOf(now) > w
  BY KeysMove
<1>3. n \in Nat /\ l \in Nat /\ b \in BOOLEAN
  BY <1>1, <1>2
<1>4. PICK x : x = [request[r] EXCEPT !.step = s, !.count = n, !.life = l, !.late = b]
  OBVIOUS
<1>5. request' = [request EXCEPT ![r] = x]
  BY <1>1, <1>2, <1>4 DEF ContentLimits!IInv, ContentLimits!TypeOK
<1>6. PICK y : y = [x EXCEPT !.step = "Healthy"]
  OBVIOUS
<1>7. /\ x \in ContentLimits!Request /\ x.step = s /\ x.number = request[r].number
      /\ x.at = request[r].at
      /\ y.count = n /\ y.life = l /\ y.late = b /\ y.number = x.number /\ y.at = x.at
  <2>1. request[r] \in ContentLimits!Request /\ s \in ContentLimits!Steps
    BY RequestsOfLimits DEF ContentLimits!Steps
  <2> QED
    BY <1>3, <1>4, <1>6, <2>1 DEF ContentLimits!Request
<1>8. ContentLimits!TypeOK'
  BY <1>2, <1>5, <1>7 DEF ContentLimits!IInv, ContentLimits!TypeOK
<1>9. ContentLimits!Distinct'
  <2>1. checks' \in Nat /\ checks' >= checks
    BY Bounds DEF ContentLimits!IInv, ContentLimits!TypeOK
  <2> QED
    BY <1>5, <1>7, <2>1, DistinctStays
<1>10. ContentLimits!Counted' \subseteq ContentLimits!Counted \cup {y}
  <2> SUFFICES ASSUME NEW b1 \in ContentLimits!Counted' PROVE b1 \in ContentLimits!Counted \cup {y}
    OBVIOUS
  <2>1. \/ b1 \in ContentLimits!Counted
        \/ b1 \in admitted' \ admitted /\ b1.step = "Healthy"
        \/ x.step \in {"Expire", "Healthy"} /\ b1 = [x EXCEPT !.step = "Healthy"]
    BY <1>5, CountedMoves
  <2> QED
    BY <1>6, <2>1
<1>11. ContentLimits!RedisQuota'
  <2>0. ContentLimits!RedisQuota
    BY DEF ContentLimits!IInv
  <2>1. \A a \in ContentLimits!Counted :
           /\ a.count \in Nat /\ a.life \in Nat
           /\ ContentLimits!WindowOf(a.at) \in ContentLimits!Windows
    BY CountedRequests
  <2>2. \A v \in ContentLimits!Windows : life[v] \in Nat /\ counter[v] \in Nat /\ v \in Int
    BY DEF ContentLimits!IInv, ContentLimits!TypeOK, ContentLimits!Windows
  <2>3. \A a \in ContentLimits!Counted :
           LET v == ContentLimits!WindowOf(a.at) IN
           /\ a.count > 0 /\ a.life <= life'[v] /\ (a.life = life'[v] => a.count <= counter'[v])
           /\ ~a.late => a.life = 0
    <3> SUFFICES ASSUME NEW a \in ContentLimits!Counted, NEW v, v = ContentLimits!WindowOf(a.at)
                 PROVE  /\ a.count > 0 /\ a.life <= life'[v]
                        /\ (a.life = life'[v] => a.count <= counter'[v]) /\ (~a.late => a.life = 0)
      OBVIOUS
    <3>1. /\ a.count > 0 /\ a.life <= life[v] /\ (a.life = life[v] => a.count <= counter[v])
          /\ ~a.late => a.life = 0
      BY <2>0 DEF ContentLimits!RedisQuota
    <3> QED
      BY <1>2, <2>1, <2>2, <3>1
  <2>4. /\ ContentLimits!WindowOf(y.at) = w /\ y.count > 0 /\ y.life = life'[w] /\ y.count = counter'[w]
        /\ ~y.late => y.life = 0
    <3>1. y.count > 0
      BY <1>2, <1>3, <1>7, <2>2, <1>1 DEF ContentLimits!Value
    <3>2. ~y.late => y.life = 0
      <4> SUFFICES ASSUME ~b PROVE l = 0
        BY <1>7
      <4>1. ContentLimits!WindowOf(now) = w
        BY <1>1
      <4> QED
        BY <1>1, <1>2, <2>2, <4>1
    <3> QED
      BY <1>1, <1>7, <3>1, <3>2
  <2>5. \A a \in ContentLimits!Counted :
           ~(ContentLimits!WindowOf(a.at) = w /\ a.life = y.life /\ a.count = y.count)
    <3> SUFFICES ASSUME NEW a \in ContentLimits!Counted, ContentLimits!WindowOf(a.at) = w,
                        a.life = life'[w], a.count = counter'[w]
                 PROVE  FALSE
      BY <2>4
    <3>1. a.life <= life[w] /\ (a.life = life[w] => a.count <= counter[w])
      BY <2>0 DEF ContentLimits!RedisQuota
    <3> QED
      BY <1>2, <2>1, <2>2, <3>1
  <2>6. \A a, c \in ContentLimits!Counted :
           ContentLimits!WindowOf(a.at) = ContentLimits!WindowOf(c.at) /\ a.life = c.life
               /\ a.count = c.count => a.number = c.number
    BY <2>0 DEF ContentLimits!RedisQuota
  <2>7. \A a, c \in ContentLimits!Counted' :
           ContentLimits!WindowOf(a.at) = ContentLimits!WindowOf(c.at) /\ a.life = c.life
               /\ a.count = c.count => a.number = c.number
    BY <1>10, <2>4, <2>5, <2>6
  <2>8. \A t : ContentLimits!WindowOf(t)' = ContentLimits!WindowOf(t)
    BY DEF ContentLimits!WindowOf
  <2>9. \A a \in admitted' : a.step = "Healthy" => ~ContentLimits!TooMany(a.count)'
    BY <2>0 DEF ContentLimits!RedisQuota, ContentLimits!TooMany
  <2>10. \A a \in ContentLimits!Counted' :
            LET v == ContentLimits!WindowOf(a.at) IN
            /\ a.count > 0 /\ a.life <= life'[v] /\ (a.life = life'[v] => a.count <= counter'[v])
            /\ ~a.late => a.life = 0
    BY <1>2, <1>10, <2>3, <2>4
  <2> QED
    BY <2>7, <2>8, <2>9, <2>10 DEF ContentLimits!RedisQuota
<1>12. ContentLimits!LocalQuota'
  BY LocalStays
<1> QED
  BY <1>8, <1>9, <1>11, <1>12 DEF ContentLimits!IInv, ContentLimits!Complete

LEMMA LimitsIncr ==
    ASSUME ContentLimits!IInv, NEW r \in Requests, ContentLimits!Incr(r)
    PROVE  ContentLimits!IInv'
<1>1. PICK w : w = ContentLimits!WindowOf(request[r].at)
  OBVIOUS
<1> DEFINE Moves ==
       /\ counter' = [counter EXCEPT ![w] = ContentLimits!Value(w) + 1]
       /\ expiry' = IF ContentLimits!Gone(w)
                    THEN [expiry EXCEPT ![w] = ContentLimits!NoExpiry] ELSE expiry
       /\ life' = IF ContentLimits!Gone(w) THEN [life EXCEPT ![w] = @ + 1] ELSE life
<1>2. /\ request[r].step = "Incr" /\ UNCHANGED <<rule, now, bucket, since, checks, admitted>>
      /\ \/ Moves /\ \E s \in {"Expire", "Healthy"} :
               request' = [request EXCEPT ![r] =
                   [@ EXCEPT !.step = s, !.count = ContentLimits!Value(w) + 1, !.life = life'[w],
                             !.late = ContentLimits!WindowOf(now) # w]]
         \/ Moves /\ ContentLimits!Goes(r, "Degraded")
         \/ ContentLimits!Goes(r, "Degraded") /\ UNCHANGED <<counter, expiry, life>>
  BY <1>1 DEF ContentLimits!Incr
<1>3. \A s \in Requests : request'[s].at <= now'
  <2>1. request \in [Requests -> ContentLimits!Request]
    BY DEF ContentLimits!IInv, ContentLimits!TypeOK
  <2>2. request'[r].at = request[r].at
    <3>1. CASE ContentLimits!Goes(r, "Degraded")
      BY <2>1, <3>1 DEF ContentLimits!Goes, ContentLimits!Request
    <3>2. ASSUME NEW s, NEW n, NEW l, NEW b,
                 request' = [request EXCEPT ![r] = [@ EXCEPT !.step = s, !.count = n,
                                                             !.life = l, !.late = b]]
          PROVE  request'[r].at = request[r].at
      BY <2>1, <3>2 DEF ContentLimits!Request
    <3> HIDE DEF Moves
    <3>3. CASE \E s \in {"Expire", "Healthy"} :
               request' = [request EXCEPT ![r] =
                   [@ EXCEPT !.step = s, !.count = ContentLimits!Value(w) + 1, !.life = life'[w],
                             !.late = ContentLimits!WindowOf(now) # w]]
      BY <3>2, <3>3
    <3> QED
      BY <1>2, <3>1, <3>3
  <2>3. \A s \in Requests \ {r} : request'[s] = request[s]
    <3> HIDE DEF Moves
    <3> QED
      BY <1>2, <2>1 DEF ContentLimits!Goes
  <2> QED
    BY <1>2, <2>2, <2>3, RequestsOfLimits
<1>4. Moves => ContentLimits!OutlivesWindow'
  <2> SUFFICES ASSUME Moves PROVE ContentLimits!OutlivesWindow'
    OBVIOUS
  <2>1. /\ \A v \in ContentLimits!Windows :
              expiry'[v] = expiry[v] \/ expiry'[v] = ContentLimits!NoExpiry
        /\ \A v \in ContentLimits!Windows : life'[v] # 0 => ContentLimits!WindowOf(now) > v
    BY <1>1, KeysMove
  <2> HIDE DEF Moves
  <2> QED
    BY <1>2, <1>3, <2>1 DEF ContentLimits!IInv, ContentLimits!OutlivesWindow,
       ContentLimits!WindowOf, ContentLimits!Windows, ContentLimits!NoExpiry
<1>5. CASE Moves /\ \E s \in {"Expire", "Healthy"} :
             request' = [request EXCEPT ![r] =
                 [@ EXCEPT !.step = s, !.count = ContentLimits!Value(w) + 1, !.life = life'[w],
                           !.late = ContentLimits!WindowOf(now) # w]]
  <2>1. PICK s \in {"Expire", "Healthy"} :
            request' = [request EXCEPT ![r] =
                [@ EXCEPT !.step = s, !.count = ContentLimits!Value(w) + 1, !.life = life'[w],
                          !.late = ContentLimits!WindowOf(now) # w]]
    BY <1>5
  <2>2. /\ counter' = [counter EXCEPT ![w] = ContentLimits!Value(w) + 1]
        /\ expiry' = IF ContentLimits!Gone(w)
                     THEN [expiry EXCEPT ![w] = ContentLimits!NoExpiry] ELSE expiry
        /\ life' = IF ContentLimits!Gone(w) THEN [life EXCEPT ![w] = @ + 1] ELSE life
    BY <1>5
  <2>3. ContentLimits!OutlivesWindow'
    BY <1>4, <1>5
  <2> HIDE DEF Moves
  <2> QED
    BY <1>1, <1>2, <2>1, <2>2, <2>3, LimitsCounts
<1>6. CASE Moves /\ ContentLimits!Goes(r, "Degraded")
  <2>1. /\ counter' \in [ContentLimits!Windows -> Nat] /\ life' \in [ContentLimits!Windows -> Nat]
        /\ expiry' \in [ContentLimits!Windows -> Nat \cup {ContentLimits!NoExpiry}]
        /\ \A v \in ContentLimits!Windows :
              life'[v] > life[v] \/ (life'[v] = life[v] /\ counter'[v] >= counter[v])
    BY <1>1, <1>6, KeysMove
  <2> HIDE DEF Moves
  <2> QED
    BY <1>2, <1>4, <1>6, <2>1, LimitsUncounted
<1>7. CASE ContentLimits!Goes(r, "Degraded") /\ UNCHANGED <<counter, expiry, life>>
  <2>1. ContentLimits!OutlivesWindow'
    BY <1>2, <1>3, <1>7 DEF ContentLimits!IInv, ContentLimits!OutlivesWindow,
       ContentLimits!WindowOf
  <2>2. /\ counter' \in [ContentLimits!Windows -> Nat] /\ life' \in [ContentLimits!Windows -> Nat]
        /\ expiry' \in [ContentLimits!Windows -> Nat \cup {ContentLimits!NoExpiry}]
        /\ \A v \in ContentLimits!Windows :
              life'[v] > life[v] \/ (life'[v] = life[v] /\ counter'[v] >= counter[v])
    BY <1>7 DEF ContentLimits!IInv, ContentLimits!TypeOK
  <2> HIDE DEF Moves
  <2> QED
    BY <1>2, <1>7, <2>1, <2>2, LimitsUncounted
<1> QED
  BY <1>2, <1>5, <1>6, <1>7

\* The key gets a TTL that begins in its window or later, so it ends in a later one.
LEMMA LimitsExpire ==
    ASSUME ContentLimits!IInv, NEW r \in Requests, ContentLimits!Expire(r)
    PROVE  ContentLimits!IInv'
<1>1. PICK w : w = ContentLimits!WindowOf(request[r].at)
  OBVIOUS
<1>2. PICK s \in {"Healthy", "Degraded"} : ContentLimits!Goes(r, s)
  BY DEF ContentLimits!Expire
<1>3. /\ request[r].step = "Expire"
      /\ expiry' = [expiry EXCEPT ![w] = now + rule.window] \/ UNCHANGED expiry
      /\ UNCHANGED <<rule, now, counter, bucket, since, checks, life, admitted>>
  BY <1>1 DEF ContentLimits!Expire, ContentLimits!TTL
<1>4. PICK x : x = [request[r] EXCEPT !.step = s]
  OBVIOUS
<1>5. request' = [request EXCEPT ![r] = x]
  BY <1>2, <1>4 DEF ContentLimits!Goes, ContentLimits!IInv, ContentLimits!TypeOK
<1>6. /\ x \in ContentLimits!Request /\ x.step = s /\ x.number = request[r].number
      /\ x.at = request[r].at /\ x.at <= now
      /\ [x EXCEPT !.step = "Healthy"] = [request[r] EXCEPT !.step = "Healthy"]
  <2>1. request[r] \in ContentLimits!Request /\ s \in ContentLimits!Steps /\ request[r].at <= now
    BY RequestsOfLimits DEF ContentLimits!Steps
  <2> QED
    BY <1>4, <2>1 DEF ContentLimits!Request
<1>7. x.step \in {"Expire", "Healthy"} =>
          [x EXCEPT !.step = "Healthy"] \in ContentLimits!Counted
  BY <1>3, <1>6 DEF ContentLimits!Counted
<1>8. /\ now \in Nat /\ now + rule.window \in Nat
      /\ w \in ContentLimits!Windows /\ ContentLimits!WindowOf(now + rule.window) > w
  <2>1. now \in Nat /\ now + rule.window \in Nat /\ request[r].at \in Nat
    BY RequestsOfLimits, RuleOfLimits, Bounds DEF ContentLimits!IInv, ContentLimits!TypeOK
  <2>2. request[r].at \div rule.window < (now + rule.window) \div rule.window
    BY <2>1, RequestsOfLimits, RuleOfLimits, WindowsGrow
  <2>3. /\ request[r].at \div rule.window \in Int /\ (now + rule.window) \div rule.window \in Int
        /\ w \in ContentLimits!Windows
    BY <1>1, <2>1, RequestsOfLimits, RuleOfLimits, Quotients
  <2> QED
    BY <1>1, <2>1, <2>2, <2>3 DEF ContentLimits!WindowOf
<1>9. /\ expiry' \in [ContentLimits!Windows -> Nat \cup {ContentLimits!NoExpiry}]
      /\ \A v \in ContentLimits!Windows :
            expiry'[v] = expiry[v] \/ ContentLimits!WindowOf(expiry'[v]) > v
  BY <1>3, <1>8 DEF ContentLimits!IInv, ContentLimits!TypeOK
<1>10. ContentLimits!OutlivesWindow'
  BY <1>3, <1>5, <1>6, <1>9, OutlivesStays
<1>11. /\ counter' \in [ContentLimits!Windows -> Nat] /\ life' \in [ContentLimits!Windows -> Nat]
       /\ since' \in [Processes -> 0..ContentLimits!Never]
       /\ checks' \in 0..MaxChecks /\ checks' >= checks
       /\ \A v \in ContentLimits!Windows :
             life'[v] > life[v] \/ (life'[v] = life[v] /\ counter'[v] >= counter[v])
  BY <1>3, Bounds DEF ContentLimits!IInv, ContentLimits!TypeOK
<1> QED
  BY <1>3, <1>5, <1>6, <1>7, <1>9, <1>10, <1>11, LimitsAside

\* A request is done, and refused.
LEMMA LimitsRefuse ==
    ASSUME ContentLimits!IInv, NEW r \in Requests, ContentLimits!Done(r),
           UNCHANGED <<rule, now, counter, expiry, bucket, checks, life, admitted>>,
           since' \in [Processes -> 0..ContentLimits!Never]
    PROVE  ContentLimits!IInv'
<1>1. PICK x : x = ContentLimits!Idle
  OBVIOUS
<1>2. /\ request' = [request EXCEPT ![r] = x] /\ x \in ContentLimits!Request
      /\ x.step = "Idle" /\ x.number = 0 /\ x.at = 0
  BY <1>1, IdleInLimits DEF ContentLimits!Done
<1>3. /\ counter' \in [ContentLimits!Windows -> Nat] /\ life' \in [ContentLimits!Windows -> Nat]
      /\ expiry' \in [ContentLimits!Windows -> Nat \cup {ContentLimits!NoExpiry}]
      /\ checks' \in 0..MaxChecks /\ checks' >= checks /\ now \in Nat
      /\ \A v \in ContentLimits!Windows :
            life'[v] > life[v] \/ (life'[v] = life[v] /\ counter'[v] >= counter[v])
  BY Bounds DEF ContentLimits!IInv, ContentLimits!TypeOK
<1>4. ContentLimits!OutlivesWindow'
  <2>1. x.at <= now /\ \A v \in ContentLimits!Windows : expiry'[v] = expiry[v]
    BY <1>2, <1>3
  <2> QED
    BY <1>2, <2>1, OutlivesStays
<1>5. x.step \notin {"Expire", "Healthy"}
  BY <1>2
<1> QED
  BY <1>2, <1>3, <1>4, <1>5, LimitsAside

\* A request is done and let through: nothing but the quotas is left to be shown.
LEMMA LimitsLetThrough ==
    ASSUME ContentLimits!IInv, NEW r \in Requests, request[r].step \in {"Healthy", "Degraded"},
           ContentLimits!Done(r), NEW n \in Nat, ContentLimits!Admits(r, n),
           UNCHANGED <<rule, now, counter, expiry, checks, life>>,
           since' \in [Processes -> 0..ContentLimits!Never],
           bucket' \in [Processes -> [ContentLimits!Windows -> Nat]],
           NEW a, a = [request[r] EXCEPT !.count = n],
           request[r].step = "Healthy" => n = request[r].count /\ ~ContentLimits!TooMany(n),
           ContentLimits!LocalQuota'
    PROVE  ContentLimits!IInv'
<1>1. /\ a \in ContentLimits!Request /\ a.step = request[r].step /\ a.number = request[r].number
      /\ a.count = n
  BY RequestsOfLimits DEF ContentLimits!Request
<1>2. admitted' = admitted \cup {a} /\ request' = [request EXCEPT ![r] = ContentLimits!Idle]
  BY DEF ContentLimits!Admits, ContentLimits!Done
<1>3. ContentLimits!TypeOK'
  BY <1>1, <1>2, IdleInLimits DEF ContentLimits!IInv, ContentLimits!TypeOK
<1>4. ContentLimits!Distinct'
  <2>1. a.step \in {"Healthy", "Degraded"} /\ request[r].step # "Idle" /\ checks' = checks
    BY <1>1
  <2> QED
    BY <1>1, <1>2, <2>1, DistinctLetThrough
<1>5. ContentLimits!Counted' \subseteq ContentLimits!Counted
  <2> SUFFICES ASSUME NEW b \in ContentLimits!Counted' PROVE b \in ContentLimits!Counted
    OBVIOUS
  <2>1. b \in ContentLimits!Counted \/ (b = a /\ b.step = "Healthy")
    BY <1>2, CountedMoves, IdleInLimits
  <2>2. request[r].step = "Healthy" => a = [request[r] EXCEPT !.step = "Healthy"]
    BY RequestsOfLimits DEF ContentLimits!Request
  <2> QED
    BY <1>1, <2>1, <2>2 DEF ContentLimits!Counted
<1>6. ContentLimits!RedisQuota'
  <2>1. /\ counter' \in [ContentLimits!Windows -> Nat] /\ life' \in [ContentLimits!Windows -> Nat]
        /\ \A v \in ContentLimits!Windows :
              life'[v] > life[v] \/ (life'[v] = life[v] /\ counter'[v] >= counter[v])
    BY DEF ContentLimits!IInv, ContentLimits!TypeOK
  <2>2. \A b \in admitted' : b.step = "Healthy" => b \in admitted \/ ~ContentLimits!TooMany(b.count)
    BY <1>1, <1>2
  <2> QED
    BY <1>5, <2>1, <2>2, QuotaStays
<1>7. ContentLimits!OutlivesWindow'
  <2>1. /\ now \in Nat /\ \A v \in ContentLimits!Windows : expiry'[v] = expiry[v]
        /\ ContentLimits!Idle.at <= now
    BY IdleInLimits, Bounds DEF ContentLimits!IInv, ContentLimits!TypeOK
  <2> QED
    BY <1>2, <2>1, IdleInLimits, OutlivesStays
<1> QED
  BY <1>3, <1>4, <1>6, <1>7 DEF ContentLimits!IInv, ContentLimits!Complete

LEMMA LimitsHealthy ==
    ASSUME ContentLimits!IInv, NEW r \in Requests, ContentLimits!MarkRedisHealthy(r)
    PROVE  ContentLimits!IInv'
<1>1. /\ UNCHANGED <<rule, now, counter, expiry, bucket, checks, life>>
      /\ request[r].step = "Healthy" /\ ContentLimits!Done(r)
      /\ since' = [since EXCEPT ![request[r].process] = ContentLimits!Never]
      /\ IF ContentLimits!TooMany(request[r].count) THEN UNCHANGED admitted
         ELSE ContentLimits!Admits(r, request[r].count)
  BY DEF ContentLimits!MarkRedisHealthy
<1>2. /\ since' \in [Processes -> 0..ContentLimits!Never]
      /\ bucket' \in [Processes -> [ContentLimits!Windows -> Nat]]
  <2>1. ContentLimits!Never \in 0..ContentLimits!Never
    BY Bounds DEF ContentLimits!Never
  <2> QED
    BY <1>1, <2>1, RequestsOfLimits DEF ContentLimits!IInv, ContentLimits!TypeOK
<1>3. CASE ContentLimits!TooMany(request[r].count)
  BY <1>1, <1>2, <1>3, LimitsRefuse
<1>4. CASE ~ContentLimits!TooMany(request[r].count)
  <2>1. PICK n, a : n = request[r].count /\ a = [request[r] EXCEPT !.count = n]
    OBVIOUS
  <2>2. /\ n \in Nat /\ ~ContentLimits!TooMany(n) /\ ContentLimits!Admits(r, n)
        /\ admitted' = admitted \cup {a} /\ a.step = "Healthy"
    BY <1>1, <1>4, <2>1, RequestsOfLimits DEF ContentLimits!Admits, ContentLimits!Request
  <2>3. ContentLimits!LocalQuota'
    BY <1>1, <2>2, LocalStays
  <2> QED
    BY <1>1, <1>2, <2>1, <2>2, <2>3, LimitsLetThrough
<1> QED
  BY <1>3, <1>4

\* What a process decides alone goes by its bucket; Redis has no part in it.
LEMMA LimitsDegraded ==
    ASSUME ContentLimits!IInv, NEW r \in Requests, ContentLimits!DegradedDecision(r)
    PROVE  ContentLimits!IInv'
<1>1. PICK p, v : p = request[r].process /\ v = ContentLimits!WindowOf(request[r].at)
  OBVIOUS
<1>2. /\ UNCHANGED <<rule, now, counter, expiry, checks, life>>
      /\ request[r].step = "Degraded" /\ ContentLimits!Done(r)
      /\ since' \in {since, [since EXCEPT ![p] = request[r].at]}
      /\ \/ UNCHANGED <<bucket, admitted>>
         \/ /\ ~ContentLimits!Closed /\ rule.fallback = "local_memory"
            /\ ContentLimits!LocalMemoryAllows(r, p, v)
         \/ /\ ~ContentLimits!Closed /\ rule.fallback = "gateway_only"
            /\ ContentLimits!Admits(r, 0) /\ UNCHANGED bucket
  BY <1>1 DEF ContentLimits!DegradedDecision
<1>3. p \in Processes /\ v \in ContentLimits!Windows
  BY <1>1, RequestsOfLimits
<1>4. since' \in [Processes -> 0..ContentLimits!Never]
  <2>1. request[r].at \in 0..ContentLimits!Never /\ since \in [Processes -> 0..ContentLimits!Never]
    BY RequestsOfLimits, Bounds DEF ContentLimits!Never, ContentLimits!IInv, ContentLimits!TypeOK
  <2> QED
    BY <1>2, <1>3, <2>1
<1>5. CASE UNCHANGED <<bucket, admitted>>
  BY <1>2, <1>4, <1>5, LimitsRefuse
<1>6. CASE /\ ~ContentLimits!Closed /\ rule.fallback = "local_memory"
           /\ ContentLimits!LocalMemoryAllows(r, p, v)
  <2>1. bucket \in [Processes -> [ContentLimits!Windows -> Nat]]
    BY DEF ContentLimits!IInv, ContentLimits!TypeOK
  <2>2. bucket' = [bucket EXCEPT ![p][v] = @ + 1]
    BY <1>6 DEF ContentLimits!LocalMemoryAllows
  <2>3. bucket' \in [Processes -> [ContentLimits!Windows -> Nat]] /\ bucket'[p][v] = bucket[p][v] + 1
    BY <1>3, <2>1, <2>2
  <2>4. \A q \in Processes, w \in ContentLimits!Windows : bucket'[q][w] >= bucket[q][w]
    BY <1>3, <2>1, <2>2
  <2>5. PICK n, a : n = bucket[p][v] + 1 /\ a = [request[r] EXCEPT !.count = n]
    OBVIOUS
  <2>6. /\ n \in Nat /\ a.step = "Degraded" /\ a.count = n /\ a.process = p
        /\ ContentLimits!WindowOf(a.at) = v
    BY <1>1, <1>2, <1>3, <2>1, <2>5, RequestsOfLimits DEF ContentLimits!Request
  <2>7. /\ n = bucket'[p][v]
        /\ IF ContentLimits!TooMany(n) THEN UNCHANGED admitted ELSE ContentLimits!Admits(r, n)
    BY <1>6, <2>3, <2>5 DEF ContentLimits!LocalMemoryAllows
  <2>8. \A b \in admitted : b.step = "Degraded" =>
           /\ b.process \in Processes /\ ContentLimits!WindowOf(b.at) \in ContentLimits!Windows
           /\ b.count \in 1..bucket[b.process][ContentLimits!WindowOf(b.at)]
           /\ ~ContentLimits!TooMany(b.count)
    <3> SUFFICES ASSUME NEW b \in admitted, b.step = "Degraded"
                 PROVE  b.process \in Processes /\ b.at \in 0..LimitTime
      BY <1>6, WindowsInRange DEF ContentLimits!IInv, ContentLimits!LocalQuota
    <3> QED
      BY DEF ContentLimits!IInv, ContentLimits!TypeOK, ContentLimits!Request
  <2>9. \A q \in Processes, w \in ContentLimits!Windows :
           \A b, c \in ContentLimits!ByProcess(q, w) : b.count = c.count => b = c
    BY <1>6 DEF ContentLimits!IInv, ContentLimits!LocalQuota
  <2>10. CASE ContentLimits!TooMany(n)
    <3>1. UNCHANGED admitted
      BY <2>7, <2>10
    <3>2. ContentLimits!LocalQuota'
      <4>1. \A b \in admitted : b.step = "Degraded" =>
               b.count \in 1..bucket'[b.process][ContentLimits!WindowOf(b.at)]
        BY <2>1, <2>3, <2>4, <2>8
      <4> QED
        BY <1>2, <1>6, <2>8, <2>9, <3>1, <4>1 DEF ContentLimits!LocalQuota, ContentLimits!Closed,
           ContentLimits!WindowOf, ContentLimits!TooMany, ContentLimits!ByProcess,
           ContentLimits!Windows
    <3>3. PICK x : x = ContentLimits!Idle
      OBVIOUS
    <3>4. /\ request' = [request EXCEPT ![r] = x] /\ x \in ContentLimits!Request
          /\ x.step = "Idle" /\ x.number = 0 /\ x.at = 0
      BY <1>2, <3>3, IdleInLimits DEF ContentLimits!Done
    <3>5. ContentLimits!TypeOK'
      BY <1>2, <1>4, <2>3, <3>1, <3>4 DEF ContentLimits!IInv, ContentLimits!TypeOK
    <3>6. ContentLimits!Distinct'
      <4>1. checks' \in Nat /\ checks' >= checks
        BY <1>2, Bounds DEF ContentLimits!IInv, ContentLimits!TypeOK
      <4> QED
        BY <3>1, <3>4, <4>1, DistinctStays
    <3>7. ContentLimits!Counted' \subseteq ContentLimits!Counted
      BY <3>1, <3>4, CountedMoves
    <3>8. ContentLimits!RedisQuota'
      <4>1. /\ counter' \in [ContentLimits!Windows -> Nat] /\ life' \in [ContentLimits!Windows -> Nat]
            /\ \A w \in ContentLimits!Windows :
                  life'[w] > life[w] \/ (life'[w] = life[w] /\ counter'[w] >= counter[w])
        BY <1>2 DEF ContentLimits!IInv, ContentLimits!TypeOK
      <4> QED
        BY <1>2, <3>1, <3>7, <4>1, QuotaStays
    <3>9. ContentLimits!OutlivesWindow'
      <4>1. x.at <= now /\ \A w \in ContentLimits!Windows : expiry'[w] = expiry[w]
        BY <1>2, <3>4, Bounds DEF ContentLimits!IInv, ContentLimits!TypeOK
      <4> QED
        BY <1>2, <3>4, <4>1, OutlivesStays
    <3> QED
      BY <1>2, <3>2, <3>5, <3>6, <3>8, <3>9 DEF ContentLimits!IInv, ContentLimits!Complete
  <2>11. CASE ~ContentLimits!TooMany(n)
    <3>1. ContentLimits!Admits(r, n) /\ admitted' = admitted \cup {a}
      BY <2>5, <2>7, <2>11 DEF ContentLimits!Admits
    <3>2. \A b \in admitted' : b.step = "Degraded" =>
             /\ b.count \in 1..bucket'[b.process][ContentLimits!WindowOf(b.at)]
             /\ ~ContentLimits!TooMany(b.count)
      <4> SUFFICES ASSUME NEW b \in admitted', b.step = "Degraded"
                   PROVE  /\ b.count \in 1..bucket'[b.process][ContentLimits!WindowOf(b.at)]
                          /\ ~ContentLimits!TooMany(b.count)
        OBVIOUS
      <4>1. CASE b = a
        <5>1. n > 0
          BY <1>3, <2>1, <2>5
        <5> QED
          BY <1>3, <2>6, <2>7, <2>11, <4>1, <5>1
      <4>2. CASE b \in admitted
        BY <2>1, <2>3, <2>4, <2>8, <4>2
      <4> QED
        BY <3>1, <4>1, <4>2
    <3>3. \A q \in Processes, w \in ContentLimits!Windows :
             \A b, c \in ContentLimits!ByProcess(q, w)' : b.count = c.count => b = c
      <4> SUFFICES ASSUME NEW q \in Processes, NEW w \in ContentLimits!Windows,
                          NEW b \in ContentLimits!ByProcess(q, w)',
                          NEW c \in ContentLimits!ByProcess(q, w)', b.count = c.count
                   PROVE  b = c
        OBVIOUS
      <4>1. /\ b \in ContentLimits!ByProcess(q, w) \/ (b = a /\ q = p /\ w = v)
            /\ c \in ContentLimits!ByProcess(q, w) \/ (c = a /\ q = p /\ w = v)
        BY <1>2, <2>6, <3>1 DEF ContentLimits!ByProcess, ContentLimits!WindowOf
      <4>2. \A d \in ContentLimits!ByProcess(p, v) : d.count # n
        BY <1>3, <2>1, <2>5, <2>8 DEF ContentLimits!ByProcess
      <4> QED
        BY <2>6, <2>9, <4>1, <4>2
    <3>4. ContentLimits!LocalQuota'
      BY <1>2, <1>6, <3>2, <3>3 DEF ContentLimits!LocalQuota, ContentLimits!Closed,
         ContentLimits!WindowOf, ContentLimits!TooMany, ContentLimits!Windows
    <3> QED
      BY <1>2, <1>4, <2>3, <2>5, <2>6, <3>1, <3>4, LimitsLetThrough
  <2> QED
    BY <2>10, <2>11
<1>7. CASE /\ ~ContentLimits!Closed /\ rule.fallback = "gateway_only"
           /\ ContentLimits!Admits(r, 0) /\ UNCHANGED bucket
  <2>1. PICK a : a = [request[r] EXCEPT !.count = 0]
    OBVIOUS
  <2>2. bucket' \in [Processes -> [ContentLimits!Windows -> Nat]]
    BY <1>7 DEF ContentLimits!IInv, ContentLimits!TypeOK
  <2>3. ContentLimits!LocalQuota'
    BY <1>2, <1>7 DEF ContentLimits!LocalQuota, ContentLimits!Closed
  <2> QED
    BY <1>2, <1>4, <1>7, <2>1, <2>2, <2>3, LimitsLetThrough
<1> QED
  BY <1>2, <1>5, <1>6, <1>7

LEMMA LimitsNext ==
    ASSUME ContentLimits!IInv, [ContentLimits!Next]_ContentLimits!vars
    PROVE  ContentLimits!IInv'
<1>1. CASE UNCHANGED ContentLimits!vars
  <2>1. UNCHANGED <<rule, now, counter, expiry, bucket, since, request, checks, life, admitted>>
    BY <1>1 DEF ContentLimits!vars
  <2>2. /\ ContentLimits!TypeOK' /\ ContentLimits!Distinct' /\ ContentLimits!OutlivesWindow'
        /\ ContentLimits!LocalQuota'
    BY <2>1, LocalStays DEF ContentLimits!IInv, ContentLimits!TypeOK, ContentLimits!Distinct,
       ContentLimits!OutlivesWindow, ContentLimits!WindowOf, ContentLimits!Windows
  <2>3. ContentLimits!Counted' = ContentLimits!Counted
    BY <2>1 DEF ContentLimits!Counted
  <2>4. ContentLimits!RedisQuota'
    BY <2>1, <2>3, QuotaStays DEF ContentLimits!IInv, ContentLimits!TypeOK
  <2> QED
    BY <2>1, <2>2, <2>4 DEF ContentLimits!IInv, ContentLimits!Complete
<1> QED
  BY <1>1, LimitsTick, LimitsCheck, LimitsIncr, LimitsExpire, LimitsHealthy, LimitsDegraded
     DEF ContentLimits!Next

\* Requests with counts up to a number, no two with the same, are no more than that.
LEMMA CountsBound ==
    ASSUME NEW n \in Nat, NEW S, \A a \in S : a.count \in 1..n,
           \A a, b \in S : a.count = b.count => a = b
    PROVE  ContentLimits!AtMost(n, S)
<1> DEFINE f == [a \in S |-> a.count]
<1>1. f \in Injection(S, 1..n)
  BY DEF Injection, IsInjective
<1>2. IsFiniteSet(1..n) /\ Cardinality(1..n) = n
  BY FS_Interval
<1>3. IsFiniteSet(S) /\ Cardinality(S) <= Cardinality(1..n)
  BY <1>1, <1>2, FS_Injection
<1> QED
  BY <1>2, <1>3, LimitsFinite DEF ContentLimits!AtMost

\* Counts of one life of a key are different, and so is the first life's while it lasts.
LEMMA QuotaHolds == ASSUME ContentLimits!IInv PROVE ContentLimits!QuotaBounded
<1>0. rule.limit \in Nat
  BY RuleOfLimits
<1>1. ASSUME NEW w \in ContentLimits!Windows, NEW n, NEW S,
             S \subseteq ContentLimits!ByRedis(w), \A a \in S : a.life = n
      PROVE  ContentLimits!AtMost(rule.limit, S)
  <2>1. \A a \in S : /\ a \in admitted /\ a.step = "Healthy" /\ a \in ContentLimits!Counted
                     /\ ContentLimits!WindowOf(a.at) = w
    BY <1>1 DEF ContentLimits!ByRedis, ContentLimits!Counted
  <2>2. \A a \in S : a.count \in 1..rule.limit
    <3> SUFFICES ASSUME NEW a \in S PROVE a.count \in 1..rule.limit
      OBVIOUS
    <3>1. a.count > 0 /\ ~ContentLimits!TooMany(a.count)
      BY <2>1 DEF ContentLimits!IInv, ContentLimits!RedisQuota
    <3>2. a.count \in Nat
      BY <2>1, CountedRequests
    <3> QED
      BY <1>0, <3>1, <3>2 DEF ContentLimits!TooMany
  <2>3. \A a, b \in S : a.count = b.count => a = b
    <3> SUFFICES ASSUME NEW a \in S, NEW b \in S, a.count = b.count PROVE a = b
      OBVIOUS
    <3>1. a.number = b.number
      BY <1>1, <2>1 DEF ContentLimits!IInv, ContentLimits!RedisQuota
    <3> QED
      BY <2>1, <3>1 DEF ContentLimits!IInv, ContentLimits!Distinct
  <2> QED
    BY <1>0, <2>2, <2>3, CountsBound
<1>2. ASSUME NEW w \in ContentLimits!Windows
      PROVE  ContentLimits!AtMost(rule.limit, {a \in ContentLimits!ByRedis(w) : ~a.late})
  <2>1. \A a \in {b \in ContentLimits!ByRedis(w) : ~b.late} : a.life = 0
    BY DEF ContentLimits!IInv, ContentLimits!RedisQuota, ContentLimits!ByRedis,
       ContentLimits!Counted
  <2> QED
    BY <1>1, <2>1
<1>3. ASSUME NEW w \in ContentLimits!Windows, NEW n
      PROVE  ContentLimits!AtMost(rule.limit, {a \in ContentLimits!ByRedis(w) : a.life = n})
  BY <1>1
<1>4. ASSUME NEW w \in ContentLimits!Windows, rule.fallback = "local_memory", NEW p \in Processes
      PROVE  ContentLimits!AtMost(rule.limit, ContentLimits!ByProcess(p, w))
  <2>1. \A a \in ContentLimits!ByProcess(p, w) : a.count \in 1..rule.limit
    <3> SUFFICES ASSUME NEW a \in ContentLimits!ByProcess(p, w) PROVE a.count \in 1..rule.limit
      OBVIOUS
    <3>1. a.count \in 1..bucket[p][w] /\ ~ContentLimits!TooMany(a.count) /\ bucket[p][w] \in Nat
      BY <1>4 DEF ContentLimits!IInv, ContentLimits!LocalQuota, ContentLimits!ByProcess,
         ContentLimits!TypeOK
    <3> QED
      BY <1>0, <3>1 DEF ContentLimits!TooMany
  <2>2. \A a, b \in ContentLimits!ByProcess(p, w) : a.count = b.count => a = b
    BY <1>4 DEF ContentLimits!IInv, ContentLimits!LocalQuota
  <2> QED
    BY <1>0, <2>1, <2>2, CountsBound
<1>5. ContentLimits!Closed =>
          \A w \in ContentLimits!Windows, p \in Processes : ContentLimits!ByProcess(p, w) = {}
  BY DEF ContentLimits!IInv, ContentLimits!LocalQuota, ContentLimits!ByProcess
<1> QED
  BY <1>2, <1>3, <1>4, <1>5 DEF ContentLimits!QuotaBounded

\* Whatever order commands, failures, late answers and the clock come in, all processes
\* together let through what the rule allows of a window that Redis counts while it
\* lasts, and of one life of the window's key, which its TTL may end before the last
\* request comes; in an outage each process no more than that, and with a rule that fails
\* closed none (fixedWindowRateLimiter of rate_limiter.go).
THEOREM QuotasAreKept == Spec => []QuotaBounded
<1> DEFINE Inv == part = "limits" => ContentLimits!IInv
<1>1. Init => Inv
  BY LimitsStart, LimitsInit
<1>2. Inv /\ [Next]_vars => Inv'
  BY PartStays, LimitsStep, LimitsNext
<1>3. Inv => QuotaBounded
  BY QuotaHolds DEF QuotaBounded, ContentLimits!IInv
<1> QED
  BY <1>1, <1>2, <1>3, PTL DEF Spec

-----------------------------------------------------------------------------
(* Preferences: Settings *)

LEMMA PreferencesStart == Init /\ part = "preferences" => Preferences!Init
  BY DEF Init

LEMMA PreferencesStep ==
    ASSUME [Next]_vars, part = "preferences"
    PROVE  [Preferences!Next]_Preferences!vars
  BY DEF Next, vars, preferences, Preferences!vars

LEMMA PreferencesInit == ASSUME Preferences!Init PROVE Preferences!IInv
<1>1. Preferences!TypeOK /\ last.alone \in BOOLEAN /\ tx \in [Browsers -> Preferences!Tx \cup {Preferences!Idle}]
  BY DEF Preferences!Init, Preferences!TypeOK
<1>2. /\ rows = {} /\ last.rows = {}
      /\ \A c \in Browsers : tx[c] = Preferences!Idle /\ tx[c].gone = {} /\ tx[c].new = {}
  BY DEF Preferences!Init, Preferences!Idle
<1>3. Preferences!Keys({}) = {} /\ \A t : Preferences!OfType({}, t) = {}
  BY DEF Preferences!Keys, Preferences!OfType
<1>4. Preferences!WrittenInOrder /\ Preferences!AloneRemovesAll
  BY <1>2 DEF Preferences!WrittenInOrder, Preferences!AloneRemovesAll
<1>5. Preferences!WholeTypes /\ Preferences!Apart
  BY <1>2, <1>3 DEF Preferences!WholeTypes, Preferences!Apart
<1>6. Preferences!PreferencesOfOneSave
  BY <1>2 DEF Preferences!PreferencesOfOneSave
<1> QED
  BY <1>1, <1>4, <1>5, <1>6 DEF Preferences!IInv

LEMMA SavesAreTyped ==
    ASSUME Preferences!IInv, NEW c \in Browsers
    PROVE  /\ tx[c] \in Preferences!Tx \/ tx[c] = Preferences!Idle
           /\ tx[c].step \in {"Delete", "Insert"} <=> tx[c] # Preferences!Idle
           /\ tx[c].gone \subseteq Preferences!Row /\ tx[c].new \subseteq Preferences!Row
           /\ tx[c].alone \in BOOLEAN
           /\ tx[c] = Preferences!Idle => tx[c].gone = {} /\ tx[c].new = {} /\ tx[c].step = "Idle"
<1>1. tx[c] \in Preferences!Tx \/ tx[c] = Preferences!Idle
  BY DEF Preferences!IInv
<1>2. CASE tx[c] \in Preferences!Tx
  <2>1. tx[c].step \in {"Delete", "Insert"}
    BY <1>2 DEF Preferences!Tx
  <2>2. tx[c] # Preferences!Idle
    BY <2>1 DEF Preferences!Idle
  <2> QED
    BY <1>2, <2>1, <2>2 DEF Preferences!Tx
<1>3. CASE tx[c] = Preferences!Idle
  BY <1>3 DEF Preferences!Idle
<1> QED
  BY <1>1, <1>2, <1>3

\* x may be the save of c while the others are where they are.
Fits(c, x) ==
    /\ x # Preferences!Idle => \A t \in NoteTypes :
          IF x.todo # << >> /\ x.left # Channels /\ t = Head(x.todo)
          THEN Preferences!OfType(x.new, t) = Preferences!RowsOf(c, t, Channels \ x.left)
          ELSE Preferences!OfType(x.new, t) \in {{}, Preferences!RowsOf(c, t, Channels)}
    /\ x.gone \subseteq rows
    /\ \A t \in NoteTypes : Preferences!OfType(x.gone, t) \in {{}, Preferences!OfType(rows, t)}
    /\ x.step = "Delete" => x.new = {}
    /\ Preferences!Keys(x.new) \cap Preferences!Keys(rows \ x.gone) = {}
    /\ \A d \in Browsers \ {c} :
          /\ Preferences!Keys(x.new) \cap Preferences!Keys(tx[d].new) = {}
          /\ x.step = "Insert" /\ tx[d].step = "Insert" => x.gone \cap tx[d].gone = {}

Same(x, y) ==
    /\ x = Preferences!Idle <=> y = Preferences!Idle
    /\ x.step = y.step /\ x.todo = y.todo /\ x.left = y.left /\ x.gone = y.gone /\ x.new = y.new

LEMMA SavesFit ==
    ASSUME Preferences!IInv, NEW c \in Browsers
    PROVE  Fits(c, tx[c])
  BY DEF Fits, Preferences!IInv, Preferences!WrittenInOrder, Preferences!WholeTypes,
     Preferences!Apart

\* The invariant goes on to hold when one save moves to where it fits and the others
\* change in nothing but being alone.
LEMMA SavesStay ==
    ASSUME Preferences!IInv, UNCHANGED <<table, rows, single, last>>,
           NEW c \in Browsers, NEW x \in Preferences!Tx \cup {Preferences!Idle},
           tx' \in [Browsers -> Preferences!Tx \cup {Preferences!Idle}], tx'[c] = x, Fits(c, x),
           \A d \in Browsers \ {c} : Same(tx'[d], tx[d]),
           Preferences!AloneRemovesAll'
    PROVE  Preferences!IInv'
<1>1. Preferences!TypeOK' /\ (last.alone \in BOOLEAN)'
  BY DEF Preferences!IInv, Preferences!TypeOK
<1>2. Preferences!WrittenInOrder'
  <2> SUFFICES ASSUME NEW d \in Browsers, tx'[d] # Preferences!Idle, NEW t \in NoteTypes
               PROVE  IF tx'[d].todo # << >> /\ tx'[d].left # Channels /\ t = Head(tx'[d].todo)
                      THEN Preferences!OfType(tx'[d].new, t) = Preferences!RowsOf(d, t, Channels \ tx'[d].left)
                      ELSE Preferences!OfType(tx'[d].new, t) \in {{}, Preferences!RowsOf(d, t, Channels)}
    BY DEF Preferences!WrittenInOrder
  <2>1. CASE d = c
    BY <2>1 DEF Fits
  <2>2. CASE d # c
    <3>1. tx[d] # Preferences!Idle /\ Fits(d, tx[d])
      BY <2>2, SavesFit DEF Same
    <3> QED
      BY <2>2, <3>1 DEF Fits, Same
  <2> QED
    BY <2>1, <2>2
<1>3. Preferences!WholeTypes'
  <2> SUFFICES ASSUME NEW d \in Browsers
               PROVE  /\ tx'[d].gone \subseteq rows
                      /\ \A t \in NoteTypes :
                            Preferences!OfType(tx'[d].gone, t) \in {{}, Preferences!OfType(rows, t)}
                      /\ tx'[d].step = "Delete" => tx'[d].new = {}
                      /\ Preferences!Keys(tx'[d].new) \cap Preferences!Keys(rows \ tx'[d].gone) = {}
    BY DEF Preferences!WholeTypes
  <2>1. CASE d = c
    BY <2>1 DEF Fits
  <2>2. CASE d # c
    BY <2>2 DEF Same, Preferences!IInv, Preferences!WholeTypes
  <2> QED
    BY <2>1, <2>2
<1>4. Preferences!Apart'
  BY DEF Fits, Same, Preferences!IInv, Preferences!Apart
<1>5. Preferences!PreferencesOfOneSave'
  BY DEF Preferences!IInv, Preferences!PreferencesOfOneSave
<1> QED
  BY <1>1, <1>2, <1>3, <1>4, <1>5 DEF Preferences!IInv

LEMMA NothingWritten ==
    /\ Preferences!Keys({}) = {} /\ \A t : Preferences!OfType({}, t) = {}
  BY DEF Preferences!Keys, Preferences!OfType

LEMMA PreferencesSave ==
    ASSUME Preferences!IInv, NEW c \in Browsers, Preferences!SaveNotificationPreferences(c)
    PROVE  Preferences!IInv'
<1>1. PICK types \in Seq(NoteTypes) :
         tx' = [d \in Browsers |->
            IF d = c THEN [step |-> "Delete", todo |-> types, left |-> Channels, new |-> {},
                           gone |-> rows, alone |-> \A e \in Browsers \ {c} : tx[e] = Preferences!Idle]
            ELSE [tx[d] EXCEPT !.alone = @ /\ tx[d] = Preferences!Idle]]
  <2>1. \A types \in Preferences!BoundedSeq(NoteTypes, 2) : types \in Seq(NoteTypes)
    <3> SUFFICES ASSUME NEW types \in Preferences!BoundedSeq(NoteTypes, 2)
                 PROVE  types \in Seq(NoteTypes)
      OBVIOUS
    <3>1. PICK m \in 0..2 : types \in [1..m -> NoteTypes]
      BY DEF Preferences!BoundedSeq, Preferences!SeqOf
    <3> QED
      BY <3>1, SeqDef
  <2> QED
    BY <2>1 DEF Preferences!SaveNotificationPreferences, Preferences!Deleted, Preferences!Others
<1> DEFINE x == [step |-> "Delete", todo |-> types, left |-> Channels, new |-> {},
                 gone |-> rows, alone |-> \A e \in Browsers \ {c} : tx[e] = Preferences!Idle]
<1>2. x \in Preferences!Tx /\ x # Preferences!Idle
  <2>1. Channels \in (SUBSET Channels) \ {{}}
    <3>1. Channels # {}
      BY ServicesAssumption
    <3> QED
      BY <3>1
  <2>2. rows \in SUBSET Preferences!Row
    BY DEF Preferences!IInv, Preferences!TypeOK
  <2> QED
    BY <2>1, <2>2 DEF Preferences!Tx, Preferences!Idle
<1>3. ASSUME NEW d \in Browsers \ {c}
      PROVE  /\ tx'[d] \in Preferences!Tx \cup {Preferences!Idle}
             /\ tx'[d] = Preferences!Idle <=> tx[d] = Preferences!Idle
             /\ tx'[d].step = tx[d].step /\ tx'[d].todo = tx[d].todo /\ tx'[d].left = tx[d].left
             /\ tx'[d].gone = tx[d].gone /\ tx'[d].new = tx[d].new
             /\ tx'[d].alone => tx[d] = Preferences!Idle
  <2>1. tx'[d] = [tx[d] EXCEPT !.alone = @ /\ tx[d] = Preferences!Idle]
    BY <1>1
  <2>2. CASE tx[d] = Preferences!Idle
    <3>1. tx'[d] = [Preferences!Idle EXCEPT !.alone = TRUE]
      <4>1. tx[d].alone = TRUE
        BY <2>2 DEF Preferences!Idle
      <4> QED
        BY <2>1, <2>2, <4>1
    <3>2. tx'[d] = Preferences!Idle
      BY <3>1 DEF Preferences!Idle
    <3> QED
      BY <2>2, <3>2
  <2>3. CASE tx[d] \in Preferences!Tx /\ tx[d] # Preferences!Idle
    <3>1. tx'[d] = [tx[d] EXCEPT !.alone = FALSE]
      BY <2>1, <2>3
    <3>2. tx'[d] \in Preferences!Tx /\ tx'[d].alone = FALSE /\ tx'[d].step \in {"Delete", "Insert"}
      BY <2>3, <3>1 DEF Preferences!Tx
    <3>3. tx'[d] # Preferences!Idle
      BY <3>2 DEF Preferences!Idle
    <3> QED
      BY <2>3, <3>1, <3>2, <3>3 DEF Preferences!Tx
  <2> QED
    BY <2>2, <2>3, SavesAreTyped
<1>4. tx'[c] = x /\ x.gone = rows /\ x.new = {} /\ x.left = Channels /\ x.step = "Delete"
      /\ x.alone = \A e \in Browsers \ {c} : tx[e] = Preferences!Idle
  BY <1>1
<1>5. tx' \in [Browsers -> Preferences!Tx \cup {Preferences!Idle}]
  <2>1. DOMAIN tx' = Browsers /\ tx' = [d \in Browsers |-> tx'[d]]
    BY <1>1
  <2>2. \A d \in Browsers : tx'[d] \in Preferences!Tx \cup {Preferences!Idle}
    BY <1>2, <1>3, <1>4
  <2> QED
    BY <2>1, <2>2
<1>6. UNCHANGED <<table, rows, single, last>>
  BY DEF Preferences!SaveNotificationPreferences
<1> HIDE DEF x
<1>7. Fits(c, x)
  BY <1>4, NothingWritten DEF Fits
<1>8. Preferences!AloneRemovesAll'
  <2>1. \A d \in Browsers : tx'[d] # Preferences!Idle /\ tx'[d].alone =>
           tx'[d].gone = rows /\ \A e \in Browsers \ {d} : tx'[e] = Preferences!Idle
    BY <1>3, <1>4
  <2> QED
    BY <2>1, <1>6 DEF Preferences!AloneRemovesAll, Preferences!Others
<1>9. \A d \in Browsers \ {c} : Same(tx'[d], tx[d])
  BY <1>3 DEF Same
<1> QED
  BY <1>2, <1>4, <1>5, <1>6, <1>7, <1>8, <1>9, SavesStay

LEMMA PreferencesDelete ==
    ASSUME Preferences!IInv, NEW c \in Browsers, Preferences!DeleteRows(c)
    PROVE  Preferences!IInv'
<1> DEFINE x == [tx[c] EXCEPT !.step = "Insert"]
<1>1. /\ tx[c].step = "Delete" /\ tx' = [tx EXCEPT ![c] = x] /\ UNCHANGED <<table, rows, single, last>>
      /\ \A d \in Browsers \ {c} : tx[d].step = "Delete" \/ tx[d].gone \cap tx[c].gone = {}
  BY DEF Preferences!DeleteRows, Preferences!Others, Preferences!IInv
<1>2. tx[c] \in Preferences!Tx /\ tx[c] # Preferences!Idle
  BY <1>1, SavesAreTyped
<1>3. /\ x \in Preferences!Tx /\ x.step = "Insert" /\ x # Preferences!Idle
      /\ x.todo = tx[c].todo /\ x.left = tx[c].left /\ x.gone = tx[c].gone /\ x.new = tx[c].new
      /\ x.alone = tx[c].alone
  BY <1>2 DEF Preferences!Tx, Preferences!Idle
<1>4. /\ tx' \in [Browsers -> Preferences!Tx \cup {Preferences!Idle}] /\ tx'[c] = x
      /\ \A d \in Browsers \ {c} : tx'[d] = tx[d]
  BY <1>1, <1>3 DEF Preferences!IInv
<1> HIDE DEF x
<1>5. Fits(c, x)
  BY <1>1, <1>2, <1>3, SavesFit DEF Fits
<1>6. Preferences!AloneRemovesAll'
  <2>1. \A d \in Browsers : tx'[d] # Preferences!Idle /\ tx'[d].alone =>
           tx'[d].gone = rows /\ \A e \in Browsers \ {d} : tx'[e] = Preferences!Idle
    BY <1>2, <1>3, <1>4 DEF Preferences!IInv, Preferences!AloneRemovesAll, Preferences!Others
  <2> QED
    BY <2>1, <1>1 DEF Preferences!AloneRemovesAll, Preferences!Others
<1> QED
  BY <1>1, <1>3, <1>4, <1>5, <1>6, SavesStay DEF Same

LEMMA PreferencesRollback ==
    ASSUME Preferences!IInv, NEW c \in Browsers, Preferences!Rollback(c)
    PROVE  Preferences!IInv'
<1> DEFINE x == Preferences!Idle
<1>1. tx' = [tx EXCEPT ![c] = x] /\ UNCHANGED <<table, rows, single, last>>
  BY DEF Preferences!Rollback
<1>2. /\ tx' \in [Browsers -> Preferences!Tx \cup {x}] /\ tx'[c] = x
      /\ \A d \in Browsers \ {c} : tx'[d] = tx[d]
  BY <1>1 DEF Preferences!IInv
<1>3. x.gone = {} /\ x.new = {} /\ x.step = "Idle"
  BY DEF Preferences!Idle
<1>4. Preferences!AloneRemovesAll'
  <2>1. \A d \in Browsers : tx'[d] # Preferences!Idle /\ tx'[d].alone =>
           tx'[d].gone = rows /\ \A e \in Browsers \ {d} : tx'[e] = Preferences!Idle
    BY <1>2 DEF Preferences!IInv, Preferences!AloneRemovesAll, Preferences!Others
  <2> QED
    BY <2>1, <1>1 DEF Preferences!AloneRemovesAll, Preferences!Others
<1>5. Fits(c, x)
  BY <1>3, NothingWritten DEF Fits
<1> QED
  BY <1>1, <1>2, <1>4, <1>5, SavesStay DEF Same

\* The next row is one of those that are left of the type that a save has come to.
LEMMA PreferencesInsert ==
    ASSUME Preferences!IInv, NEW c \in Browsers, Preferences!InsertRow(c)
    PROVE  Preferences!IInv'
<1> DEFINE a == tx[c]
           h == CHOOSE h \in a.left : TRUE
           u == Head(a.todo)
           r == [type |-> u, channel |-> h, by |-> c]
           left == a.left \ {h}
           x == [a EXCEPT !.new = @ \cup {r}, !.todo = IF left = {} THEN Tail(@) ELSE @,
                          !.left = IF left = {} THEN Channels ELSE left]
<1>1. /\ a.step = "Insert" /\ a.todo # << >>
      /\ Preferences!Key(r) \notin Preferences!Awaited(c)
      /\ Preferences!Key(r) \notin Preferences!Taken(c)
      /\ UNCHANGED <<table, rows, single, last>>
  BY DEF Preferences!InsertRow
<1>2. a \in Preferences!Tx /\ a # Preferences!Idle
  BY <1>1, SavesAreTyped
<1>3. /\ a.todo \in Seq(NoteTypes) /\ a.left \subseteq Channels /\ a.left # {}
      /\ a.gone \subseteq Preferences!Row /\ a.new \subseteq Preferences!Row /\ a.alone \in BOOLEAN
  BY <1>2 DEF Preferences!Tx
<1>4. h \in a.left /\ h \in Channels
  BY <1>3
<1>5. u \in NoteTypes /\ Tail(a.todo) \in Seq(NoteTypes)
  BY <1>1, <1>3
<1>6. r \in Preferences!Row
  BY <1>4, <1>5 DEF Preferences!Row
<1>7. tx' = [tx EXCEPT ![c] = x]
  BY DEF Preferences!InsertRow, Preferences!IInv
<1> HIDE DEF h, u
<1>8. /\ x.step = "Insert" /\ x.gone = a.gone /\ x.new = a.new \cup {r} /\ x.alone = a.alone
      /\ x.todo = IF left = {} THEN Tail(a.todo) ELSE a.todo
      /\ x.left = IF left = {} THEN Channels ELSE left
  BY <1>1, <1>2 DEF Preferences!Tx
<1>9. x \in Preferences!Tx /\ x # Preferences!Idle
  <2>1. x.todo \in Seq(NoteTypes) /\ x.left \in (SUBSET Channels) \ {{}}
    BY <1>3, <1>4, <1>5, <1>8
  <2>2. x.new \in SUBSET Preferences!Row
    BY <1>3, <1>6, <1>8
  <2>3. x = [a EXCEPT !.new = x.new, !.todo = x.todo, !.left = x.left]
    BY <1>8 DEF x
  <2> HIDE DEF x, a
  <2>4. x \in Preferences!Tx
    BY <1>2, <2>1, <2>2, <2>3 DEF Preferences!Tx
  <2> QED
    BY <1>8, <2>4 DEF Preferences!Idle
<1>10. /\ tx' \in [Browsers -> Preferences!Tx \cup {Preferences!Idle}] /\ tx'[c] = x
       /\ \A d \in Browsers \ {c} : tx'[d] = tx[d]
  BY <1>7, <1>9 DEF Preferences!IInv
<1>11. Fits(c, a)
  BY SavesFit
<1> HIDE DEF x
<1>12. ASSUME NEW t \in NoteTypes
       PROVE  IF x.todo # << >> /\ x.left # Channels /\ t = Head(x.todo)
              THEN Preferences!OfType(x.new, t) = Preferences!RowsOf(c, t, Channels \ x.left)
              ELSE Preferences!OfType(x.new, t) \in {{}, Preferences!RowsOf(c, t, Channels)}
  <2>1. CASE t # u
    <3>1. Preferences!OfType(x.new, t) = Preferences!OfType(a.new, t)
      BY <1>8, <2>1 DEF Preferences!OfType
    <3>2. Preferences!OfType(a.new, t) \in {{}, Preferences!RowsOf(c, t, Channels)}
      BY <1>2, <1>11, <2>1 DEF Fits, u
    <3>3. ~(x.todo # << >> /\ x.left # Channels /\ t = Head(x.todo))
      BY <1>8, <2>1 DEF u
    <3> QED
      BY <3>1, <3>2, <3>3
  <2>2. CASE t = u
    <3>1. Preferences!OfType(a.new, t) = Preferences!RowsOf(c, t, Channels \ a.left)
      <4>1. CASE a.left # Channels
        BY <1>1, <1>2, <1>11, <2>2, <4>1 DEF Fits, u
      <4>2. CASE a.left = Channels
        <5>1. Preferences!OfType(a.new, t) \in {{}, Preferences!RowsOf(c, t, Channels)}
          BY <1>2, <1>11, <4>2 DEF Fits
        <5>2. r \notin a.new
          BY <1>1 DEF Preferences!Taken
        <5>3. r \in Preferences!RowsOf(c, t, Channels)
          BY <1>4, <2>2 DEF Preferences!RowsOf
        <5>4. Preferences!OfType(a.new, t) = {}
          BY <5>1, <5>2, <5>3 DEF Preferences!OfType
        <5> QED
          BY <4>2, <5>4 DEF Preferences!RowsOf
      <4> QED
        BY <4>1, <4>2
    <3>2. Preferences!OfType(x.new, t) = Preferences!OfType(a.new, t) \cup {r}
      BY <1>8, <2>2 DEF Preferences!OfType
    <3>3. Preferences!OfType(x.new, t) = Preferences!RowsOf(c, t, Channels \ left)
      BY <1>4, <2>2, <3>1, <3>2 DEF Preferences!RowsOf
    <3>4. CASE left = {}
      BY <1>8, <3>3, <3>4
    <3>5. CASE left # {}
      BY <1>1, <1>8, <2>2, <3>3, <3>5, <1>4 DEF u
    <3> QED
      BY <3>4, <3>5
  <2> QED
    BY <2>1, <2>2
<1>13. /\ x.gone \subseteq rows
       /\ \A t \in NoteTypes : Preferences!OfType(x.gone, t) \in {{}, Preferences!OfType(rows, t)}
  BY <1>8, <1>11 DEF Fits
<1>14. Preferences!Keys(x.new) \cap Preferences!Keys(rows \ x.gone) = {}
  BY <1>1, <1>8, <1>11 DEF Fits, Preferences!Keys, Preferences!Taken
<1>15. ASSUME NEW d \in Browsers \ {c}
       PROVE  /\ Preferences!Keys(x.new) \cap Preferences!Keys(tx[d].new) = {}
              /\ x.step = "Insert" /\ tx[d].step = "Insert" => x.gone \cap tx[d].gone = {}
  <2>1. \A k \in tx[d].new : Preferences!Key(k) # Preferences!Key(r)
    BY <1>1 DEF Preferences!Awaited, Preferences!Others
  <2> QED
    BY <1>1, <1>8, <1>11, <2>1 DEF Fits, Preferences!Keys
<1>16. Fits(c, x)
  BY <1>8, <1>12, <1>13, <1>14, <1>15 DEF Fits
<1>17. Preferences!AloneRemovesAll'
  <2>1. \A d \in Browsers : tx'[d] # Preferences!Idle /\ tx'[d].alone =>
           tx'[d].gone = rows /\ \A e \in Browsers \ {d} : tx'[e] = Preferences!Idle
    BY <1>2, <1>8, <1>9, <1>10 DEF Preferences!IInv, Preferences!AloneRemovesAll, Preferences!Others
  <2> QED
    BY <1>1, <2>1 DEF Preferences!AloneRemovesAll, Preferences!Others
<1> QED
  BY <1>1, <1>9, <1>10, <1>16, <1>17, SavesStay DEF Same

\* Where all rows of a type are written under fresh keys, no other row has that type.
LEMMA KeysClash ==
    ASSUME NEW new, NEW old, NEW t, NEW c, old \subseteq Preferences!Row,
           Preferences!OfType(new, t) = Preferences!RowsOf(c, t, Channels),
           Preferences!Keys(new) \cap Preferences!Keys(old) = {}
    PROVE  Preferences!OfType(old, t) = {}
<1> SUFFICES ASSUME NEW r \in old, r.type = t PROVE FALSE
  BY DEF Preferences!OfType
<1>1. r.channel \in Channels
  BY DEF Preferences!Row
<1> DEFINE n == [type |-> t, channel |-> r.channel, by |-> c]
<1>2. n \in Preferences!RowsOf(c, t, Channels)
  BY <1>1 DEF Preferences!RowsOf
<1>3. n \in new
  BY <1>2 DEF Preferences!OfType
<1>4. Preferences!Key(n) = Preferences!Key(r)
  BY DEF Preferences!Key
<1> QED
  BY <1>3, <1>4 DEF Preferences!Keys

\* A save replaces whole types by whole types; what it removed is gone for the others.
LEMMA PreferencesCommit ==
    ASSUME Preferences!IInv, NEW c \in Browsers, Preferences!Commit(c)
    PROVE  Preferences!IInv'
<1> DEFINE a == tx[c]
<1>1. /\ a.step = "Insert" /\ a.todo = << >>
      /\ rows' = (rows \ a.gone) \cup a.new
      /\ last' = [rows |-> a.new, alone |-> a.alone]
      /\ tx' = [d \in Browsers |-> IF d = c THEN Preferences!Idle
                                   ELSE [tx[d] EXCEPT !.gone = @ \ a.gone]]
      /\ UNCHANGED <<table, single>>
  BY DEF Preferences!Commit
<1>2. /\ a \in Preferences!Tx /\ a # Preferences!Idle /\ a.new \subseteq Preferences!Row
      /\ a.alone \in BOOLEAN /\ Fits(c, a)
  BY <1>1, SavesAreTyped, SavesFit
<1>3. rows \subseteq Preferences!Row
  BY DEF Preferences!IInv, Preferences!TypeOK
<1>4. ASSUME NEW d \in Browsers \ {c}
      PROVE  /\ tx'[d] \in Preferences!Tx \cup {Preferences!Idle}
             /\ tx'[d] = Preferences!Idle <=> tx[d] = Preferences!Idle
             /\ tx'[d].step = tx[d].step /\ tx'[d].todo = tx[d].todo /\ tx'[d].left = tx[d].left
             /\ tx'[d].gone = tx[d].gone \ a.gone /\ tx'[d].new = tx[d].new
             /\ tx'[d].alone = tx[d].alone
  <2>1. tx'[d] = [tx[d] EXCEPT !.gone = @ \ a.gone]
    BY <1>1
  <2> HIDE DEF a
  <2>2. CASE tx[d] = Preferences!Idle
    <3>1. {} \ a.gone = {}
      OBVIOUS
    <3>2. tx'[d] = [Preferences!Idle EXCEPT !.gone = {}]
      BY <2>1, <2>2, <3>1 DEF Preferences!Idle
    <3>3. tx'[d] = Preferences!Idle
      BY <3>2 DEF Preferences!Idle
    <3> QED
      BY <2>2, <3>1, <3>3 DEF Preferences!Idle
  <2>3. CASE tx[d] \in Preferences!Tx /\ tx[d] # Preferences!Idle
    <3>1. tx'[d] \in Preferences!Tx /\ tx'[d].step \in {"Delete", "Insert"}
      BY <2>1, <2>3 DEF Preferences!Tx
    <3>2. tx'[d] # Preferences!Idle
      BY <3>1 DEF Preferences!Idle
    <3> QED
      BY <2>1, <2>3, <3>1, <3>2 DEF Preferences!Tx
  <2> QED
    BY <2>2, <2>3, SavesAreTyped
<1>5. tx'[c] = Preferences!Idle /\ tx'[c].new = {} /\ tx'[c].gone = {} /\ tx'[c].step = "Idle"
  BY <1>1 DEF Preferences!Idle
<1>6. tx' \in [Browsers -> Preferences!Tx \cup {Preferences!Idle}]
  <2>1. tx' = [d \in Browsers |-> tx'[d]]
    BY <1>1
  <2>2. \A d \in Browsers : tx'[d] \in Preferences!Tx \cup {Preferences!Idle}
    BY <1>4, <1>5
  <2> QED
    BY <2>1, <2>2
<1> HIDE DEF a
<1>7. Preferences!TypeOK' /\ (last.alone \in BOOLEAN)'
  BY <1>1, <1>2, <1>3 DEF Preferences!IInv, Preferences!TypeOK
<1>8. ASSUME NEW t \in NoteTypes
      PROVE  \/ /\ Preferences!OfType(a.new, t) = {}
                /\ \/ /\ Preferences!OfType(a.gone, t) = {}
                      /\ Preferences!OfType(rows', t) = Preferences!OfType(rows, t)
                   \/ /\ Preferences!OfType(a.gone, t) = Preferences!OfType(rows, t)
                      /\ Preferences!OfType(rows', t) = {}
             \/ /\ Preferences!OfType(a.new, t) = Preferences!RowsOf(c, t, Channels)
                /\ Preferences!OfType(rows', t) = Preferences!RowsOf(c, t, Channels)
                /\ Preferences!OfType(rows \ a.gone, t) = {}
  <2>1. Preferences!OfType(a.new, t) \in {{}, Preferences!RowsOf(c, t, Channels)}
    BY <1>1, <1>2 DEF Fits
  <2>2. Preferences!OfType(a.gone, t) \in {{}, Preferences!OfType(rows, t)}
    BY <1>2 DEF Fits
  <2>3. Preferences!OfType(rows', t) =
           Preferences!OfType(rows \ a.gone, t) \cup Preferences!OfType(a.new, t)
    BY <1>1 DEF Preferences!OfType
  <2>4. Preferences!OfType(rows \ a.gone, t) =
           Preferences!OfType(rows, t) \ Preferences!OfType(a.gone, t)
    BY DEF Preferences!OfType
  <2>5. CASE Preferences!OfType(a.new, t) = {}
    BY <2>2, <2>3, <2>4, <2>5
  <2>6. CASE Preferences!OfType(a.new, t) = Preferences!RowsOf(c, t, Channels)
    <3>1. Preferences!Keys(a.new) \cap Preferences!Keys(rows \ a.gone) = {}
      BY <1>2 DEF Fits
    <3>2. rows \ a.gone \subseteq Preferences!Row
      BY <1>3
    <3>3. Preferences!OfType(rows \ a.gone, t) = {}
      BY <2>6, <3>1, <3>2, KeysClash
    <3> QED
      BY <2>3, <2>6, <3>3
  <2> QED
    BY <2>1, <2>5, <2>6
<1>9. Preferences!WrittenInOrder'
  <2> SUFFICES ASSUME NEW d \in Browsers, tx'[d] # Preferences!Idle, NEW t \in NoteTypes
               PROVE  IF tx'[d].todo # << >> /\ tx'[d].left # Channels /\ t = Head(tx'[d].todo)
                      THEN Preferences!OfType(tx'[d].new, t) = Preferences!RowsOf(d, t, Channels \ tx'[d].left)
                      ELSE Preferences!OfType(tx'[d].new, t) \in {{}, Preferences!RowsOf(d, t, Channels)}
    BY DEF Preferences!WrittenInOrder
  <2>1. d \in Browsers \ {c} /\ tx[d] # Preferences!Idle
    BY <1>4, <1>5
  <2>2. Fits(d, tx[d])
    BY SavesFit
  <2> QED
    BY <1>4, <2>1, <2>2 DEF Fits
<1>10. Preferences!WholeTypes'
  <2> SUFFICES ASSUME NEW d \in Browsers
               PROVE  /\ tx'[d].gone \subseteq rows'
                      /\ \A t \in NoteTypes :
                            Preferences!OfType(tx'[d].gone, t) \in {{}, Preferences!OfType(rows', t)}
                      /\ tx'[d].step = "Delete" => tx'[d].new = {}
                      /\ Preferences!Keys(tx'[d].new) \cap Preferences!Keys(rows' \ tx'[d].gone) = {}
    BY DEF Preferences!WholeTypes
  <2>1. CASE d = c
    BY <1>5, <2>1, NothingWritten
  <2>2. CASE d # c
    <3>1. d \in Browsers \ {c} /\ Fits(d, tx[d])
      BY <2>2, SavesFit
    <3>2. tx'[d].gone \subseteq rows'
      BY <1>1, <1>4, <3>1 DEF Fits
    <3>3. ASSUME NEW t \in NoteTypes
          PROVE  Preferences!OfType(tx'[d].gone, t) \in {{}, Preferences!OfType(rows', t)}
      <4>1. Preferences!OfType(tx'[d].gone, t) =
               Preferences!OfType(tx[d].gone, t) \ Preferences!OfType(a.gone, t)
        BY <1>4, <3>1 DEF Preferences!OfType
      <4>2. Preferences!OfType(tx[d].gone, t) \in {{}, Preferences!OfType(rows, t)}
        BY <3>1 DEF Fits
      <4>3. Preferences!OfType(rows \ a.gone, t) =
               Preferences!OfType(rows, t) \ Preferences!OfType(a.gone, t)
        BY DEF Preferences!OfType
      <4> QED
        BY <1>8, <4>1, <4>2, <4>3
    <3>4. tx'[d].step = "Delete" => tx'[d].new = {}
      BY <1>4, <3>1 DEF Fits
    <3>5. Preferences!Keys(tx'[d].new) \cap Preferences!Keys(rows' \ tx'[d].gone) = {}
      <4>1. CASE tx[d].step = "Insert"
        <5>1. tx[d].gone \cap a.gone = {}
          BY <1>1, <3>1, <4>1 DEF Fits, a
        <5>2. Preferences!Keys(tx[d].new) \cap Preferences!Keys(a.new) = {}
          BY <3>1 DEF Fits, a
        <5>3. rows' \ tx'[d].gone \subseteq (rows \ tx[d].gone) \cup a.new
          BY <1>1, <1>4, <3>1, <5>1
        <5>4. Preferences!Keys(tx[d].new) \cap Preferences!Keys(rows \ tx[d].gone) = {}
          BY <3>1 DEF Fits
        <5> QED
          BY <1>4, <3>1, <5>2, <5>3, <5>4 DEF Preferences!Keys
      <4>2. CASE tx[d].step # "Insert"
        <5>1. tx[d].new = {}
          BY <3>1, <4>2, SavesAreTyped DEF Fits
        <5> QED
          BY <1>4, <3>1, <5>1, NothingWritten
      <4> QED
        BY <4>1, <4>2
    <3> QED
      BY <3>2, <3>3, <3>4, <3>5
  <2> QED
    BY <2>1, <2>2
<1>11. Preferences!Apart'
  <2> SUFFICES ASSUME NEW d \in Browsers, NEW e \in Browsers, d # e
               PROVE  /\ Preferences!Keys(tx'[d].new) \cap Preferences!Keys(tx'[e].new) = {}
                      /\ tx'[d].step = "Insert" /\ tx'[e].step = "Insert" =>
                            tx'[d].gone \cap tx'[e].gone = {}
    BY DEF Preferences!Apart
  <2>1. CASE d = c \/ e = c
    BY <1>5, <2>1, NothingWritten
  <2>2. CASE d # c /\ e # c
    <3>1. d \in Browsers \ {c} /\ e \in Browsers \ {c}
      BY <2>2
    <3>2. /\ Preferences!Keys(tx[d].new) \cap Preferences!Keys(tx[e].new) = {}
          /\ tx[d].step = "Insert" /\ tx[e].step = "Insert" => tx[d].gone \cap tx[e].gone = {}
      BY DEF Preferences!IInv, Preferences!Apart
    <3> QED
      BY <1>4, <3>1, <3>2
  <2> QED
    BY <2>1, <2>2
<1>12. Preferences!AloneRemovesAll'
  <2>1. \A d \in Browsers : ~(tx'[d] # Preferences!Idle /\ tx'[d].alone)
    <3> SUFFICES ASSUME NEW d \in Browsers, tx'[d] # Preferences!Idle, tx'[d].alone
                 PROVE  FALSE
      OBVIOUS
    <3>1. d \in Browsers \ {c} /\ tx[d] # Preferences!Idle /\ tx[d].alone
      BY <1>4, <1>5
    <3>2. tx[c] = Preferences!Idle
      BY <3>1 DEF Preferences!IInv, Preferences!AloneRemovesAll, Preferences!Others
    <3> QED
      BY <1>2, <3>2 DEF a
  <2> QED
    BY <2>1 DEF Preferences!AloneRemovesAll
<1>13. Preferences!PreferencesOfOneSave'
  <2>1. ASSUME NEW t \in NoteTypes
        PROVE  \/ Preferences!OfType(rows', t) = {}
               \/ \E d \in Browsers : Preferences!OfType(rows', t) = Preferences!RowsOf(d, t, Channels)
    <3>1. \/ Preferences!OfType(rows, t) = {}
          \/ \E d \in Browsers : Preferences!OfType(rows, t) = Preferences!RowsOf(d, t, Channels)
      BY DEF Preferences!IInv, Preferences!PreferencesOfOneSave, Preferences!OfType
    <3> QED
      BY <1>8, <3>1
  <2>2. a.alone => rows' = a.new
    BY <1>1, <1>2 DEF Preferences!IInv, Preferences!AloneRemovesAll, a
  <2> QED
    BY <1>1, <2>1, <2>2 DEF Preferences!PreferencesOfOneSave, Preferences!OfType
<1> QED
  BY <1>6, <1>7, <1>9, <1>10, <1>11, <1>12, <1>13 DEF Preferences!IInv

\* The other two tables are one row each, which the last one who writes it has.
LEMMA PreferencesUpsert ==
    ASSUME Preferences!IInv, NEW c \in Browsers,
           Preferences!SaveNotificationDND(c) \/ Preferences!SaveAuthorSubscription(c)
    PROVE  Preferences!IInv'
<1>1. single' = c /\ UNCHANGED <<table, rows, tx, last>>
  BY DEF Preferences!SaveNotificationDND, Preferences!SaveAuthorSubscription, Preferences!Upsert
<1> QED
  BY <1>1 DEF Preferences!IInv, Preferences!TypeOK, Preferences!WrittenInOrder,
     Preferences!WholeTypes, Preferences!Apart, Preferences!AloneRemovesAll,
     Preferences!PreferencesOfOneSave

LEMMA PreferencesNext ==
    ASSUME Preferences!IInv, [Preferences!Next]_Preferences!vars
    PROVE  Preferences!IInv'
<1>1. CASE UNCHANGED Preferences!vars
  BY <1>1 DEF Preferences!vars, Preferences!IInv, Preferences!TypeOK,
     Preferences!WrittenInOrder, Preferences!WholeTypes, Preferences!Apart,
     Preferences!AloneRemovesAll, Preferences!PreferencesOfOneSave
<1> QED
  BY <1>1, PreferencesSave, PreferencesDelete, PreferencesInsert, PreferencesCommit,
     PreferencesRollback, PreferencesUpsert DEF Preferences!Next

\* The channels of a type are those of one save, and a save that overlapped no other is
\* what the user has, however many clients save at once and wherever one of them fails
\* (Store.SaveNotificationPreferences of settings_store.go, under READ COMMITTED).
THEOREM PreferencesAreOfOneSave == Spec => []PreferencesOfOneSave
<1> DEFINE Inv == part = "preferences" => Preferences!IInv
<1>1. Init => Inv
  BY PreferencesStart, PreferencesInit
<1>2. Inv /\ [Next]_vars => Inv'
  BY PartStays, PreferencesStep, PreferencesNext
<1>3. Inv => PreferencesOfOneSave
  BY DEF PreferencesOfOneSave, Preferences!IInv
<1> QED
  BY <1>1, <1>2, <1>3, PTL DEF Spec

-----------------------------------------------------------------------------
(* Tags: Tags *)

LEMMA TagBounds == MaxPostTags \in Nat /\ MaxPostVersion \in Nat \ {0} /\ IsFiniteSet(Posts)
  BY ServicesAssumption

LEMMA LeastIndex ==
    ASSUME NEW T \in SUBSET Nat, T # {}
    PROVE  \E i \in T : \A j \in T : i <= j
<1> DEFINE R == OpToRel(<, Nat)
<1>1. \E i \in T : \A j \in T : <<j, i>> \notin R
  BY NatLessThanWellFounded, WFMin, Zenon
<1>2. \A i, j \in Nat : j < i => <<j, i>> \in R
  BY Zenon DEF OpToRel
<1> HIDE DEF R
<1>3. \A i, j \in Nat : <<j, i>> \notin R => i <= j
  BY <1>2
<1> QED
  BY <1>1, <1>3

LEMMA TagsFinite ==
    /\ \A S : ContentTags!Cardinality(S) = Cardinality(S)
    /\ \A f : ContentTags!IsInjective(f) <=> IsInjective(f)
    /\ \A s : ContentTags!ToSet(s) = {s[i] : i \in DOMAIN s}
<1>1. \A S : ContentTags!Cardinality(S) = Cardinality(S)
  BY DEF Cardinality, ContentTags!Cardinality
<1>2. \A f : ContentTags!IsInjective(f) <=> IsInjective(f)
  BY DEF IsInjective, ContentTags!IsInjective
<1>3. \A s : ContentTags!ToSet(s) = {s[i] : i \in DOMAIN s}
  BY DEF ContentTags!ToSet
<1> QED
  BY <1>1, <1>2, <1>3

\* The slugs before one are fewer than the list is long.
LEMMA FewBefore ==
    ASSUME NEW raw \in Seq(ContentTags!Slugs), NEW s \in {raw[i] : i \in DOMAIN raw}
    PROVE  /\ IsFiniteSet(ContentTags!Before(raw, s))
           /\ Cardinality(ContentTags!Before(raw, s)) \in 0..Len(raw) - 1
<1> DEFINE All == {raw[i] : i \in DOMAIN raw}
           Others == All \ {s}
           B == ContentTags!Before(raw, s)
<1>1. DOMAIN raw = 1..Len(raw) /\ Len(raw) \in Nat
  OBVIOUS
<1>2. IsFiniteSet(1..Len(raw)) /\ Cardinality(1..Len(raw)) = Len(raw)
  <2> DEFINE n == Len(raw)
  <2>1. n \in Nat /\ 1 \in Int /\ n \in Int
    OBVIOUS
  <2> HIDE DEF n
  <2>2. IsFiniteSet(1..n) /\ Cardinality(1..n) = n
    BY <2>1, FS_Interval
  <2> QED
    BY <2>2 DEF n
<1>3. raw \in Surjection(1..Len(raw), All)
  <2>1. raw \in [1..Len(raw) -> All]
    BY <1>1
  <2>2. \A x \in All : \E i \in 1..Len(raw) : raw[i] = x
    BY <1>1
  <2> QED
    BY <2>1, <2>2 DEF Surjection
<1>4. IsFiniteSet(All) /\ Cardinality(All) <= Len(raw)
  BY <1>2, <1>3, FS_Surjection
<1>5. IsFiniteSet(Others) /\ Cardinality(Others) = Cardinality(All) - 1
  BY <1>4, FS_RemoveElement
<1>6. B \subseteq Others
  <2>1. \A j \in DOMAIN raw : (\A k \in 1..j : raw[k] # s) => raw[j] # s
    BY <1>1
  <2> QED
    BY <2>1 DEF ContentTags!Before
<1>7. IsFiniteSet(B) /\ Cardinality(B) <= Cardinality(Others)
  BY <1>5, <1>6, FS_Subset
<1>8. Cardinality(B) \in Nat /\ Cardinality(All) \in Nat
  BY <1>4, <1>7, FS_CardinalityType
<1> HIDE DEF B, Others, All
<1> QED
  BY <1>1, <1>4, <1>5, <1>7, <1>8 DEF B

\* Of two slugs one comes first, and has fewer before it.
LEMMA FirstHasFewer ==
    ASSUME NEW raw \in Seq(ContentTags!Slugs),
           NEW i \in DOMAIN raw, NEW s, NEW t \in {raw[n] : n \in DOMAIN raw},
           raw[i] = s, \A k \in 1..i : raw[k] # t
    PROVE  Cardinality(ContentTags!Before(raw, s)) # Cardinality(ContentTags!Before(raw, t))
<1> DEFINE I == {k \in DOMAIN raw : raw[k] = s}
           A == ContentTags!Before(raw, s)
           B == ContentTags!Before(raw, t)
<1>1. DOMAIN raw = 1..Len(raw) /\ Len(raw) \in Nat
  OBVIOUS
<1>2. IsFiniteSet(B)
  BY FewBefore
<1>3. s \in B
  BY DEF ContentTags!Before
<1>4. s \notin A
  BY <1>1 DEF ContentTags!Before
<1>5. A \subseteq B
  <2> SUFFICES ASSUME NEW j \in DOMAIN raw, \A k \in 1..j : raw[k] # s
               PROVE  \A k \in 1..j : raw[k] # t
    BY DEF ContentTags!Before
  <2>1. j < i
    BY <1>1
  <2> QED
    BY <1>1, <2>1
<1> QED
  BY <1>2, <1>3, <1>4, <1>5, FS_Subset

LEMMA SlugsAreNumbered ==
    ASSUME NEW raw \in Seq(ContentTags!Slugs), Len(raw) <= MaxPostTags,
           DOMAIN ContentTags!NormalizeTagSlugs(raw) \subseteq TagSet
    PROVE  /\ ContentTags!NormalizeTagSlugs(raw) \in ContentTags!Tagging
           /\ ContentTags!IsInjective(ContentTags!NormalizeTagSlugs(raw))
<1> DEFINE All == {raw[i] : i \in DOMAIN raw}
           n == [s \in All |-> Cardinality(ContentTags!Before(raw, s))]
<1>1. ContentTags!NormalizeTagSlugs(raw) = n
  BY TagsFinite, Zenon DEF ContentTags!NormalizeTagSlugs
<1>2. DOMAIN raw = 1..Len(raw) /\ Len(raw) \in Nat
  OBVIOUS
<1>3. n \in [All -> 0..MaxPostTags - 1]
  BY <1>2, FewBefore, TagBounds
<1>4. n \in ContentTags!Tagging
  BY <1>1, <1>3 DEF ContentTags!Tagging
<1>5. ASSUME NEW s \in All, NEW t \in All, s # t
      PROVE  n[s] # n[t]
  <2> DEFINE T == {i \in DOMAIN raw : raw[i] \in {s, t}}
  <2>1. T \in SUBSET Nat /\ T # {}
    BY <1>2
  <2>2. PICK i \in T : \A j \in T : i <= j
    BY <2>1, LeastIndex
  <2>3. CASE raw[i] = s
    <3>1. \A k \in 1..i : raw[k] # t
      BY <1>2, <1>5, <2>2, <2>3
    <3> QED
      BY <2>2, <2>3, <3>1, FirstHasFewer
  <2>4. CASE raw[i] = t
    <3>1. \A k \in 1..i : raw[k] # s
      BY <1>2, <1>5, <2>2, <2>4
    <3> QED
      BY <2>2, <2>4, <3>1, FirstHasFewer
  <2> QED
    BY <2>2, <2>3, <2>4
<1>6. IsInjective(n)
  BY <1>5 DEF IsInjective
<1> QED
  BY <1>1, <1>4, <1>6, TagsFinite

LEMMA TagsStart == Init /\ part = "tags" => ContentTags!Init
  BY DEF Init

LEMMA TagsStep ==
    ASSUME [Next]_vars, part = "tags"
    PROVE  [ContentTags!Next]_ContentTags!vars
  BY DEF Next, vars, tags, ContentTags!vars

\* A count depends on which posts show the tag, and on nothing else.
LEMMA SameCount ==
    ASSUME NEW t, NEW a, NEW b,
           \A p \in Posts : ContentTags!Shows(a[p], t) <=> ContentTags!Shows(b[p], t)
    PROVE  ContentTags!Counted(t, a) = ContentTags!Counted(t, b)
<1>1. {p \in Posts : ContentTags!Shows(a[p], t)} = {p \in Posts : ContentTags!Shows(b[p], t)}
  OBVIOUS
<1> QED
  BY <1>1, TagsFinite DEF ContentTags!Counted

LEMMA CountsAreBounded ==
    ASSUME NEW t, NEW a
    PROVE  ContentTags!Counted(t, a) \in 0..ContentTags!Cardinality(Posts)
<1> DEFINE S == {p \in Posts : ContentTags!Shows(a[p], t)}
<1>1. S \in SUBSET Posts
  OBVIOUS
<1> HIDE DEF S
<1>2. /\ Cardinality(S) <= Cardinality(Posts) /\ Cardinality(S) \in Nat
      /\ Cardinality(Posts) \in Nat
  BY <1>1, TagBounds, FS_Subset, FS_CardinalityType
<1>3. ContentTags!Counted(t, a) = Cardinality(S)
  BY TagsFinite DEF ContentTags!Counted, S
<1> QED
  BY <1>2, <1>3, TagsFinite

LEMMA IdleRequest ==
    /\ ContentTags!Untagged \in ContentTags!Tagging
    /\ DOMAIN ContentTags!Untagged = {} /\ ContentTags!IsInjective(ContentTags!Untagged)
    /\ ContentTags!Idle \in ContentTags!Request
    /\ ContentTags!Idle.post = ContentTags!NoPost
<1>1. ContentTags!Untagged \in [{} -> 0..MaxPostTags - 1]
  BY DEF ContentTags!Untagged
<1>2. ContentTags!Untagged \in ContentTags!Tagging
  BY <1>1 DEF ContentTags!Tagging
<1>3. DOMAIN ContentTags!Untagged = {} /\ ContentTags!IsInjective(ContentTags!Untagged)
  BY TagsFinite DEF ContentTags!Untagged, IsInjective
<1>4. 0 \in 0..ContentTags!Cardinality(Posts)
  BY TagBounds, TagsFinite, FS_CardinalityType
<1> QED
  BY <1>2, <1>3, <1>4 DEF ContentTags!Idle, ContentTags!Request

LEMMA TagsInit == ASSUME ContentTags!Init PROVE ContentTags!IInv
<1>1. PICK shows \in [Posts -> BOOLEAN] : post = [p \in Posts |->
         [published |-> shows[p], deleted |-> FALSE, version |-> 1, tags |-> ContentTags!Untagged]]
  BY DEF ContentTags!Init
<1>2. /\ stats = [t \in TagSet |-> 0] /\ request = [r \in Requests |-> ContentTags!Idle]
      /\ read = [p \in Posts |-> [v \in 1..MaxPostVersion |-> ContentTags!Untagged]]
      /\ stale = {}
  BY DEF ContentTags!Init
<1>3. 1 \in 1..MaxPostVersion
  BY TagBounds
<1>4. 0 \in 0..ContentTags!Cardinality(Posts)
  BY TagBounds, TagsFinite, FS_CardinalityType
<1>5. ContentTags!TypeOK
  <2>1. post \in [Posts -> ContentTags!Post]
    BY <1>1, <1>3, IdleRequest DEF ContentTags!Post
  <2>2. /\ stats \in [TagSet -> 0..ContentTags!Cardinality(Posts)]
        /\ read \in [Posts -> [1..MaxPostVersion -> ContentTags!Tagging]]
        /\ request \in [Requests -> ContentTags!Request]
    BY <1>2, <1>4, IdleRequest
  <2> QED
    BY <1>2, <2>1, <2>2 DEF ContentTags!TypeOK
<1>6. ContentTags!TagsConsistent
  <2>1. ASSUME NEW t \in TagSet
        PROVE  stats[t] = ContentTags!Counted(t, post)
    <3>1. {p \in Posts : ContentTags!Shows(post[p], t)} = {}
      BY <1>1, IdleRequest DEF ContentTags!Shows
    <3> QED
      BY <1>2, <3>1, TagsFinite, FS_EmptySet DEF ContentTags!Counted
  <2> QED
    BY <1>1, <1>2, <2>1, IdleRequest DEF ContentTags!TagsConsistent
<1>7. /\ ContentTags!VersionsAreRead /\ ContentTags!LocksAreOwned
      /\ \A r \in Requests : ContentTags!CountsAreRight(request[r])
  BY <1>1, <1>2, <1>3, IdleRequest DEF ContentTags!VersionsAreRead, ContentTags!LocksAreOwned,
     ContentTags!CountsAreRight
<1> QED
  BY <1>5, <1>6, <1>7 DEF ContentTags!IInv

\* A transaction that has locked its post writes what it found there and counts.
LEMMA TagsMutate ==
    ASSUME ContentTags!IInv, NEW r \in Requests, NEW p \in Posts,
           NEW version \in 1..MaxPostVersion, ContentTags!GetForUpdate(r, p, version),
           NEW new \in ContentTags!Tagging, ContentTags!IsInjective(new),
           NEW refreshed \in SUBSET TagSet,
           \A t \in TagSet \ refreshed : t \in DOMAIN new <=> t \in DOMAIN post[p].tags,
           ContentTags!MutatePostTags(r, p, version, new, refreshed)
    PROVE  ContentTags!IInv'
<1> DEFINE after == [post EXCEPT ![p].tags = new]
           count == [t \in TagSet |->
                        IF t \in refreshed THEN ContentTags!Counted(t, after) ELSE 0]
           x == [post |-> p, tags |-> new, base |-> read[p][version],
                 counted |-> refreshed, missed |-> {}, count |-> count]
<1>1. request' = [request EXCEPT ![r] = x] /\ UNCHANGED <<post, stats, read, stale>>
  BY DEF ContentTags!MutatePostTags
<1>2. /\ \A s \in Requests : request[s].post # p
      /\ post[p].version = version /\ post[p].version < MaxPostVersion
  BY DEF ContentTags!GetForUpdate, ContentTags!Locked, ContentTags!SameVersion
<1>3. /\ post \in [Posts -> ContentTags!Post] /\ request \in [Requests -> ContentTags!Request]
      /\ read \in [Posts -> [1..MaxPostVersion -> ContentTags!Tagging]]
  BY DEF ContentTags!IInv, ContentTags!TypeOK
<1>4. x \in ContentTags!Request
  <2>1. count \in [TagSet -> 0..ContentTags!Cardinality(Posts)]
    <3>1. 0 \in 0..ContentTags!Cardinality(Posts)
      BY TagBounds, TagsFinite, FS_CardinalityType
    <3> QED
      BY <3>1, CountsAreBounded
  <2>2. read[p][version] \in ContentTags!Tagging
    BY <1>3
  <2> HIDE DEF count
  <2> QED
    BY <2>1, <2>2 DEF ContentTags!Request
<1>5. x.post = p /\ x.base = post[p].tags
  BY <1>2 DEF ContentTags!IInv, ContentTags!VersionsAreRead
<1>6. ContentTags!CountsAreRight(x)
  BY DEF ContentTags!CountsAreRight, ContentTags!After
<1> HIDE DEF x
<1>7. /\ request'[r] = x /\ \A s \in Requests \ {r} : request'[s] = request[s]
      /\ request' \in [Requests -> ContentTags!Request]
  BY <1>1, <1>3, <1>4
<1>8. ContentTags!TypeOK'
  BY <1>1, <1>7 DEF ContentTags!IInv, ContentTags!TypeOK
<1>9. ContentTags!TagsConsistent' /\ ContentTags!VersionsAreRead'
  BY <1>1, <1>5, <1>7 DEF ContentTags!IInv, ContentTags!TagsConsistent, ContentTags!VersionsAreRead
<1>10. ContentTags!LocksAreOwned'
  BY <1>1, <1>2, <1>5, <1>7 DEF ContentTags!IInv, ContentTags!LocksAreOwned
<1>11. ASSUME NEW s \in Requests
       PROVE  ContentTags!CountsAreRight(request[s])'
  BY <1>1, <1>6, <1>7 DEF ContentTags!IInv, ContentTags!CountsAreRight, ContentTags!After
<1> QED
  BY <1>8, <1>9, <1>10, <1>11 DEF ContentTags!IInv

\* Those who counted a tag of a change before it committed have missed it; nothing else
\* changes for them.
LEMMA TagsMissed ==
    ASSUME request \in [Requests -> ContentTags!Request], NEW but, NEW changed,
           request' = ContentTags!Missed(changed, but)
    PROVE  /\ request' \in [Requests -> ContentTags!Request]
           /\ but \in Requests => request'[but] = ContentTags!Idle
           /\ \A s \in Requests \ {but} :
                 /\ request'[s].post = request[s].post /\ request'[s].tags = request[s].tags
                 /\ request'[s].base = request[s].base
                 /\ request'[s].count = request[s].count
                 /\ request'[s].counted = request[s].counted
                 /\ request'[s].missed = request[s].missed \cup (changed \cap request[s].counted)
<1>1. request' = [s \in Requests |->
         IF s = but THEN ContentTags!Idle
         ELSE [request[s] EXCEPT !.missed = @ \cup (changed \cap request[s].counted)]]
  BY DEF ContentTags!Missed
<1>2. ASSUME NEW s \in Requests \ {but}
      PROVE  /\ request'[s] \in ContentTags!Request
             /\ request'[s].post = request[s].post /\ request'[s].tags = request[s].tags
             /\ request'[s].base = request[s].base /\ request'[s].count = request[s].count
             /\ request'[s].counted = request[s].counted
             /\ request'[s].missed = request[s].missed \cup (changed \cap request[s].counted)
  <2>1. request[s] \in ContentTags!Request
    OBVIOUS
  <2>2. request[s].missed \cup (changed \cap request[s].counted) \in SUBSET TagSet
    BY <2>1 DEF ContentTags!Request
  <2>3. request'[s] = [request[s] EXCEPT !.missed = request[s].missed \cup (changed \cap request[s].counted)]
    BY <1>1, <2>1 DEF ContentTags!Request
  <2> QED
    BY <2>1, <2>2, <2>3 DEF ContentTags!Request
<1>3. but \in Requests => request'[but] = ContentTags!Idle
  BY <1>1
<1>4. \A s \in Requests : request'[s] \in ContentTags!Request
  BY <1>2, <1>3, IdleRequest
<1> QED
  BY <1>1, <1>2, <1>3, <1>4

\* What a transaction counted is not changed by another post that shows the tag as before.
LEMMA CountsStay ==
    ASSUME NEW p, NEW s \in Requests, ContentTags!CountsAreRight(request[s]),
           request[s].post # ContentTags!NoPost, request[s].post \in Posts \ {p},
           post \in [Posts -> ContentTags!Post],
           post' \in [Posts -> ContentTags!Post],
           \A q \in Posts \ {p} : post'[q] = post[q],
           request'[s].post = request[s].post, request'[s].tags = request[s].tags,
           request'[s].count = request[s].count, request'[s].counted = request[s].counted,
           request[s].missed \subseteq request'[s].missed,
           \A t \in request[s].counted \ request'[s].missed :
              p \in Posts => (ContentTags!Shows(post'[p], t) <=> ContentTags!Shows(post[p], t))
    PROVE  ContentTags!CountsAreRight(request[s])'
<1> DEFINE x == request[s]
           y == request'[s]
           q == x.post
           a == [post EXCEPT ![q].tags = x.tags]
           b == [post' EXCEPT ![q].tags = x.tags]
<1>1. ASSUME NEW t \in x.counted \ y.missed
      PROVE  y.count[t] = ContentTags!Counted(t, b)
  <2>1. x.count[t] = ContentTags!Counted(t, a)
    BY <1>1 DEF ContentTags!CountsAreRight, ContentTags!After
  <2>2. ASSUME NEW o \in Posts
        PROVE  ContentTags!Shows(a[o], t) <=> ContentTags!Shows(b[o], t)
    <3>1. CASE o = q
      BY <3>1 DEF ContentTags!Shows
    <3>2. CASE o # q /\ o # p
      BY <3>2
    <3>3. CASE o # q /\ o = p
      BY <1>1, <3>3
    <3> QED
      BY <3>1, <3>2, <3>3
  <2> HIDE DEF a, b
  <2>3. ContentTags!Counted(t, a) = ContentTags!Counted(t, b)
    BY <2>2, SameCount
  <2> QED
    BY <2>1, <2>3
<1>2. IsInjective(y.tags)
  BY TagsFinite DEF ContentTags!CountsAreRight
<1>3. \A t \in TagSet \ y.counted : t \in DOMAIN y.tags <=> t \in DOMAIN post'[q].tags
  BY DEF ContentTags!CountsAreRight
<1> QED
  BY <1>1, <1>2, <1>3, TagsFinite DEF ContentTags!CountsAreRight, ContentTags!After

\* A commit makes its counts true, and wrong for those who counted its tags before it.
LEMMA TagsTouch ==
    ASSUME ContentTags!IInv, NEW r \in Requests, ContentTags!TouchPostTags(r)
    PROVE  ContentTags!IInv'
<1> DEFINE x == request[r]
           p == x.post
<1>1. /\ p # ContentTags!NoPost
      /\ post' = [post EXCEPT ![p].tags = x.tags, ![p].version = @ + 1]
      /\ read' = [read EXCEPT ![p][post[p].version + 1] = x.tags]
      /\ stats' = [t \in TagSet |-> IF t \in x.counted THEN x.count[t] ELSE stats[t]]
      /\ stale' = (stale \ x.counted) \cup x.missed
      /\ request' = ContentTags!Missed(x.counted, r)
  BY DEF ContentTags!TouchPostTags
<1>2. /\ post \in [Posts -> ContentTags!Post] /\ request \in [Requests -> ContentTags!Request]
      /\ read \in [Posts -> [1..MaxPostVersion -> ContentTags!Tagging]]
      /\ stats \in [TagSet -> 0..ContentTags!Cardinality(Posts)] /\ stale \subseteq TagSet
  BY DEF ContentTags!IInv, ContentTags!TypeOK
<1>3. /\ p \in Posts /\ x \in ContentTags!Request /\ x.tags \in ContentTags!Tagging
      /\ x.counted \subseteq TagSet /\ x.missed \subseteq TagSet
      /\ x.count \in [TagSet -> 0..ContentTags!Cardinality(Posts)]
  BY <1>1, <1>2 DEF ContentTags!Request
<1>4. /\ post[p].version < MaxPostVersion
      /\ \A s \in Requests \ {r} : request[s].post # p
  BY <1>1 DEF ContentTags!IInv, ContentTags!LocksAreOwned
<1>5. ContentTags!CountsAreRight(x)
  BY DEF ContentTags!IInv
<1>6. /\ request' \in [Requests -> ContentTags!Request]
      /\ request'[r] = ContentTags!Idle
      /\ \A s \in Requests \ {r} :
            /\ request'[s].post = request[s].post /\ request'[s].tags = request[s].tags
            /\ request'[s].base = request[s].base
            /\ request'[s].count = request[s].count
            /\ request'[s].counted = request[s].counted
            /\ request'[s].missed = request[s].missed \cup (x.counted \cap request[s].counted)
  BY <1>1, <1>2, TagsMissed
<1> HIDE DEF x, p
<1>7. /\ post' \in [Posts -> ContentTags!Post]
      /\ \A q \in Posts \ {p} : post'[q] = post[q]
      /\ post'[p].tags = x.tags /\ post'[p].version = post[p].version + 1
      /\ post'[p].published = post[p].published /\ post'[p].deleted = post[p].deleted
  <2>1. post[p].version + 1 \in 1..MaxPostVersion
    BY <1>2, <1>3, <1>4, TagBounds DEF ContentTags!Post
  <2> QED
    BY <1>1, <1>2, <1>3, <2>1 DEF ContentTags!Post
<1>8. /\ read' \in [Posts -> [1..MaxPostVersion -> ContentTags!Tagging]]
      /\ read'[p][post'[p].version] = x.tags
      /\ \A q \in Posts \ {p} : read'[q] = read[q]
  <2>1. post[p].version + 1 \in 1..MaxPostVersion
    BY <1>2, <1>3, <1>4, TagBounds DEF ContentTags!Post
  <2> QED
    BY <1>1, <1>2, <1>3, <1>7, <2>1
<1>9. ContentTags!TypeOK'
  <2>1. stats' \in [TagSet -> 0..ContentTags!Cardinality(Posts)]
    BY <1>1, <1>2, <1>3
  <2>2. stale' \subseteq TagSet
    BY <1>1, <1>2, <1>3
  <2> QED
    BY <1>6, <1>7, <1>8, <2>1, <2>2 DEF ContentTags!TypeOK
<1>10. ASSUME NEW t \in TagSet \ x.counted
       PROVE  \A q \in Posts : ContentTags!Shows(post'[q], t) <=> ContentTags!Shows(post[q], t)
  <2>1. t \in DOMAIN x.tags <=> t \in DOMAIN post[p].tags
    BY <1>1, <1>5 DEF ContentTags!CountsAreRight, p
  <2> QED
    BY <1>7, <2>1 DEF ContentTags!Shows
<1>11. ASSUME NEW t \in TagSet \ stale'
       PROVE  stats'[t] = ContentTags!Counted(t, post')
  <2>1. CASE t \in x.counted
    <3>1. x.count[t] = ContentTags!Counted(t, [post EXCEPT ![p].tags = x.tags])
      BY <1>1, <1>5, <1>11, <2>1 DEF ContentTags!CountsAreRight, ContentTags!After, p
    <3>2. \A q \in Posts : ContentTags!Shows([post EXCEPT ![p].tags = x.tags][q], t)
                              <=> ContentTags!Shows(post'[q], t)
      BY <1>2, <1>3, <1>7 DEF ContentTags!Shows, ContentTags!Post
    <3>3. ContentTags!Counted(t, [post EXCEPT ![p].tags = x.tags]) = ContentTags!Counted(t, post')
      BY <3>2, SameCount
    <3> QED
      BY <1>1, <2>1, <3>1, <3>3
  <2>2. CASE t \notin x.counted
    <3>1. stats[t] = ContentTags!Counted(t, post)
      BY <1>1, <1>11, <2>2 DEF ContentTags!IInv, ContentTags!TagsConsistent
    <3>2. ContentTags!Counted(t, post) = ContentTags!Counted(t, post')
      BY <1>10, <2>2, SameCount
    <3> QED
      BY <1>1, <2>2, <3>1, <3>2
  <2> QED
    BY <2>1, <2>2
<1>12. ASSUME NEW s \in Requests, request'[s].post # ContentTags!NoPost
       PROVE  /\ s # r /\ request[s].post \in Posts \ {p}
              /\ request[s].post # ContentTags!NoPost
  <2>1. s # r
    BY <1>6, <1>12, IdleRequest
  <2>2. request[s].post \in Posts
    BY <1>2, <1>6, <1>12, <2>1 DEF ContentTags!Request
  <2> QED
    BY <1>4, <1>6, <1>12, <2>1, <2>2
<1>13. ContentTags!TagsConsistent'
  <2>1. \A s \in Requests : request'[s].post # ContentTags!NoPost =>
           request'[s].base = post'[request'[s].post].tags
    BY <1>6, <1>7, <1>12 DEF ContentTags!IInv, ContentTags!TagsConsistent
  <2>2. \A q \in Posts : ContentTags!IsInjective(post'[q].tags)
    BY <1>1, <1>5, <1>7 DEF ContentTags!IInv, ContentTags!TagsConsistent, ContentTags!CountsAreRight, p
  <2> QED
    BY <1>11, <2>1, <2>2 DEF ContentTags!TagsConsistent
<1>14. ContentTags!VersionsAreRead'
  BY <1>7, <1>8 DEF ContentTags!IInv, ContentTags!VersionsAreRead
<1>15. ContentTags!LocksAreOwned'
  BY <1>6, <1>7, <1>12 DEF ContentTags!IInv, ContentTags!LocksAreOwned
<1>16. ASSUME NEW s \in Requests
       PROVE  ContentTags!CountsAreRight(request[s])'
  <2>1. CASE request'[s].post = ContentTags!NoPost
    BY <2>1 DEF ContentTags!CountsAreRight
  <2>2. CASE request'[s].post # ContentTags!NoPost
    <3>1. ContentTags!CountsAreRight(request[s])
      BY DEF ContentTags!IInv
    <3>2. \A t \in request[s].counted \ request'[s].missed : t \in TagSet \ x.counted
      BY <1>2, <1>6, <1>12, <2>2 DEF ContentTags!Request
    <3>3. \A t \in request[s].counted \ request'[s].missed :
             p \in Posts => (ContentTags!Shows(post'[p], t) <=> ContentTags!Shows(post[p], t))
      BY <1>10, <3>2
    <3>4. request[s].missed \subseteq request'[s].missed
      BY <1>6, <1>12, <2>2
    <3> QED
      BY <1>2, <1>6, <1>7, <1>12, <2>2, <3>1, <3>3, <3>4, CountsStay
  <2> QED
    BY <2>1, <2>2
<1> QED
  BY <1>9, <1>13, <1>14, <1>15, <1>16 DEF ContentTags!IInv

\* Publishing or hiding a post counts nothing: its tags are stale from then on.
LEMMA TagsPublish ==
    ASSUME ContentTags!IInv, NEW p \in Posts, ContentTags!PublishOrHide(p)
    PROVE  ContentTags!IInv'
<1>1. PICK published \in BOOLEAN, deleted \in BOOLEAN :
         post' = [post EXCEPT ![p].published = published, ![p].deleted = deleted,
                              ![p].version = @ + 1]
  BY DEF ContentTags!PublishOrHide
<1>2. /\ post[p].version < MaxPostVersion /\ \A s \in Requests : request[s].post # p
      /\ read' = [read EXCEPT ![p][post[p].version + 1] = post[p].tags]
      /\ stale' = stale \cup DOMAIN post[p].tags /\ UNCHANGED stats
      /\ request' = ContentTags!Missed(DOMAIN post[p].tags, ContentTags!NoPost)
  BY DEF ContentTags!PublishOrHide, ContentTags!Locked
<1>3. /\ post \in [Posts -> ContentTags!Post] /\ request \in [Requests -> ContentTags!Request]
      /\ read \in [Posts -> [1..MaxPostVersion -> ContentTags!Tagging]]
      /\ stats \in [TagSet -> 0..ContentTags!Cardinality(Posts)] /\ stale \subseteq TagSet
  BY DEF ContentTags!IInv, ContentTags!TypeOK
<1>4. post[p].version + 1 \in 1..MaxPostVersion
  BY <1>2, <1>3, TagBounds DEF ContentTags!Post
<1>5. /\ post' \in [Posts -> ContentTags!Post]
      /\ \A q \in Posts \ {p} : post'[q] = post[q]
      /\ post'[p].tags = post[p].tags /\ post'[p].version = post[p].version + 1
  BY <1>1, <1>3, <1>4 DEF ContentTags!Post
<1>6. /\ read' \in [Posts -> [1..MaxPostVersion -> ContentTags!Tagging]]
      /\ read'[p][post'[p].version] = post[p].tags
      /\ \A q \in Posts \ {p} : read'[q] = read[q]
  <2>1. post[p].tags \in ContentTags!Tagging
    BY <1>3 DEF ContentTags!Post
  <2> QED
    BY <1>2, <1>3, <1>4, <1>5, <2>1
<1>7. DOMAIN post[p].tags \subseteq TagSet
  BY <1>3 DEF ContentTags!Post, ContentTags!Tagging
<1>8. ASSUME NEW s \in Requests
      PROVE  \/ request'[s] = ContentTags!Idle
             \/ /\ request'[s].post = request[s].post /\ request'[s].tags = request[s].tags
                /\ request'[s].base = request[s].base /\ request'[s].count = request[s].count
                /\ request'[s].counted = request[s].counted
                /\ request'[s].missed =
                      request[s].missed \cup (DOMAIN post[p].tags \cap request[s].counted)
  BY <1>2, <1>3, TagsMissed
<1>9. ContentTags!TypeOK'
  BY <1>2, <1>3, <1>5, <1>6, <1>7, TagsMissed DEF ContentTags!TypeOK
<1>10. ASSUME NEW t, t \notin DOMAIN post[p].tags
       PROVE  \A q \in Posts : ContentTags!Shows(post'[q], t) <=> ContentTags!Shows(post[q], t)
  BY <1>5, <1>10 DEF ContentTags!Shows
<1>11. ASSUME NEW t \in TagSet \ stale'
       PROVE  stats'[t] = ContentTags!Counted(t, post')
  <2>1. t \notin DOMAIN post[p].tags /\ t \notin stale
    BY <1>2, <1>11
  <2>2. ContentTags!Counted(t, post) = ContentTags!Counted(t, post')
    BY <1>10, <2>1, SameCount
  <2> QED
    BY <1>2, <2>1, <2>2 DEF ContentTags!IInv, ContentTags!TagsConsistent
<1>12. ASSUME NEW s \in Requests, request'[s].post # ContentTags!NoPost
       PROVE  /\ request'[s].post = request[s].post /\ request'[s].tags = request[s].tags
              /\ request'[s].base = request[s].base /\ request'[s].count = request[s].count
              /\ request'[s].counted = request[s].counted
              /\ request'[s].missed =
                    request[s].missed \cup (DOMAIN post[p].tags \cap request[s].counted)
              /\ request[s].post \in Posts \ {p}
  BY <1>2, <1>3, <1>8, <1>12, IdleRequest DEF ContentTags!Request
<1>13. ContentTags!TagsConsistent'
  <2>1. \A s \in Requests : request'[s].post # ContentTags!NoPost =>
           request'[s].base = post'[request'[s].post].tags
    BY <1>5, <1>12 DEF ContentTags!IInv, ContentTags!TagsConsistent
  <2>2. \A q \in Posts : ContentTags!IsInjective(post'[q].tags)
    BY <1>5 DEF ContentTags!IInv, ContentTags!TagsConsistent
  <2> QED
    BY <1>11, <2>1, <2>2 DEF ContentTags!TagsConsistent
<1>14. ContentTags!VersionsAreRead'
  BY <1>5, <1>6 DEF ContentTags!IInv, ContentTags!VersionsAreRead
<1>15. ContentTags!LocksAreOwned'
  <2> SUFFICES ASSUME NEW s \in Requests, request'[s].post # ContentTags!NoPost
               PROVE  /\ post'[request'[s].post].version < MaxPostVersion
                      /\ \A u \in Requests \ {s} : request'[u].post # request'[s].post
    BY DEF ContentTags!LocksAreOwned
  <2>1. /\ post[request[s].post].version < MaxPostVersion
        /\ \A u \in Requests \ {s} : request[u].post # request[s].post
    BY <1>12 DEF ContentTags!IInv, ContentTags!LocksAreOwned
  <2> QED
    BY <1>5, <1>12, <2>1
<1>16. ASSUME NEW s \in Requests
       PROVE  ContentTags!CountsAreRight(request[s])'
  <2>1. CASE request'[s].post = ContentTags!NoPost
    BY <2>1 DEF ContentTags!CountsAreRight
  <2>2. CASE request'[s].post # ContentTags!NoPost
    <3>1. ContentTags!CountsAreRight(request[s])
      BY DEF ContentTags!IInv
    <3>2. \A t \in request[s].counted \ request'[s].missed :
             p \in Posts => (ContentTags!Shows(post'[p], t) <=> ContentTags!Shows(post[p], t))
      BY <1>10, <1>12, <2>2
    <3>3. request[s].missed \subseteq request'[s].missed
      BY <1>12, <2>2
    <3> QED
      BY <1>3, <1>5, <1>12, <2>2, <3>1, <3>2, <3>3, CountsStay
  <2> QED
    BY <2>1, <2>2
<1> QED
  BY <1>9, <1>13, <1>14, <1>15, <1>16 DEF ContentTags!IInv

LEMMA TagsRollback ==
    ASSUME ContentTags!IInv, NEW r \in Requests, ContentTags!Rollback(r)
    PROVE  ContentTags!IInv'
<1>1. /\ request' = [request EXCEPT ![r] = ContentTags!Idle]
      /\ UNCHANGED <<post, stats, read, stale>>
      /\ request \in [Requests -> ContentTags!Request]
  BY DEF ContentTags!Rollback, ContentTags!IInv, ContentTags!TypeOK
<1>2. /\ request' \in [Requests -> ContentTags!Request]
      /\ request'[r].post = ContentTags!NoPost
      /\ \A s \in Requests \ {r} : request'[s] = request[s]
  BY <1>1, IdleRequest
<1>3. ContentTags!TypeOK' /\ ContentTags!TagsConsistent' /\ ContentTags!VersionsAreRead'
  BY <1>1, <1>2 DEF ContentTags!IInv, ContentTags!TypeOK, ContentTags!TagsConsistent,
     ContentTags!VersionsAreRead
<1>4. ContentTags!LocksAreOwned'
  BY <1>1, <1>2 DEF ContentTags!IInv, ContentTags!LocksAreOwned
<1>5. \A s \in Requests : ContentTags!CountsAreRight(request[s])'
  BY <1>1, <1>2 DEF ContentTags!IInv, ContentTags!CountsAreRight, ContentTags!After
<1> QED
  BY <1>3, <1>4, <1>5 DEF ContentTags!IInv

\* Replacing counts the tags of before and after, removing the one it removes: whatever
\* tag is not counted stays where it is.
LEMMA TagsReplace ==
    ASSUME ContentTags!IInv, NEW r \in Requests, NEW p \in Posts,
           NEW version \in 1..MaxPostVersion, ContentTags!GetForUpdate(r, p, version),
           NEW raw \in Seq(ContentTags!Slugs), ContentTags!ReplacePostTags(r, p, version, raw)
    PROVE  ContentTags!IInv'
<1> DEFINE n == ContentTags!NormalizeTagSlugs(raw)
           R == ContentTags!Refreshed(post[p].tags, n)
<1>1. /\ Len(raw) <= MaxPostTags /\ ContentTags!MutatePostTags(r, p, version, n, R)
  BY DEF ContentTags!ReplacePostTags, ContentTags!ValidTags
<1>2. DOMAIN n \subseteq TagSet
  BY <1>1 DEF ContentTags!MutatePostTags
<1>3. n \in ContentTags!Tagging /\ ContentTags!IsInjective(n)
  BY <1>1, <1>2, SlugsAreNumbered
<1>4. DOMAIN post[p].tags \subseteq TagSet
  BY DEF ContentTags!IInv, ContentTags!TypeOK, ContentTags!Post, ContentTags!Tagging
<1> HIDE DEF n
<1>5. R \in SUBSET TagSet
  BY <1>2, <1>4 DEF ContentTags!Refreshed
<1>6. \A t \in TagSet \ R : t \in DOMAIN n <=> t \in DOMAIN post[p].tags
  BY DEF ContentTags!Refreshed
<1> QED
  BY <1>1, <1>3, <1>5, <1>6, TagsMutate

LEMMA TagsRemove ==
    ASSUME ContentTags!IInv, NEW r \in Requests, NEW p \in Posts,
           NEW version \in 1..MaxPostVersion, ContentTags!GetForUpdate(r, p, version),
           NEW slug, ContentTags!RemovePostTag(r, p, version, slug)
    PROVE  ContentTags!IInv'
<1> DEFINE f == post[p].tags
           D == DOMAIN f \ {slug}
           n == ContentTags!Restrict(f, D)
<1>1. slug \in TagSet /\ ContentTags!MutatePostTags(r, p, version, n, {slug})
  BY DEF ContentTags!RemovePostTag
<1>2. f \in ContentTags!Tagging /\ ContentTags!IsInjective(f)
  BY DEF ContentTags!IInv, ContentTags!TypeOK, ContentTags!TagsConsistent, ContentTags!Post
<1> HIDE DEF f
<1>3. n = [t \in D |-> f[t]]
  BY DEF ContentTags!Restrict
<1>4. n \in ContentTags!Tagging
  BY <1>2, <1>3 DEF ContentTags!Tagging
<1>5. ContentTags!IsInjective(n)
  BY <1>2, <1>3, TagsFinite DEF IsInjective
<1>6. \A t \in TagSet \ {slug} : t \in DOMAIN n <=> t \in DOMAIN f
  BY <1>3
<1> QED
  BY <1>1, <1>4, <1>5, <1>6, TagsMutate DEF f

LEMMA TagsNext ==
    ASSUME ContentTags!IInv, [ContentTags!Next]_ContentTags!vars
    PROVE  ContentTags!IInv'
<1>1. CASE UNCHANGED ContentTags!vars
  BY <1>1 DEF ContentTags!vars, ContentTags!IInv, ContentTags!TypeOK,
     ContentTags!TagsConsistent, ContentTags!VersionsAreRead, ContentTags!LocksAreOwned,
     ContentTags!CountsAreRight, ContentTags!After
<1>2. ContentTags!BoundedSeq(ContentTags!Slugs, MaxPostTags + 1) \subseteq Seq(ContentTags!Slugs)
  BY TagBounds, SeqDef DEF ContentTags!BoundedSeq, ContentTags!SeqOf
<1> QED
  BY <1>1, <1>2, TagsPublish, TagsReplace, TagsRemove, TagsTouch, TagsRollback
  DEF ContentTags!Next

\* A tag's count is the number of published posts that have it unless its posts changed
\* since or while it was counted, a change of tags starts from those the client read, and
\* the positions of a post's tags are distinct (taxonomy_repository.go).
THEOREM TagsAreConsistent == Spec => []TagsConsistent
<1> DEFINE Inv == part = "tags" => ContentTags!IInv
<1>1. Init => Inv
  BY TagsStart, TagsInit
<1>2. Inv /\ [Next]_vars => Inv'
  BY PartStays, TagsStep, TagsNext
<1>3. Inv => TagsConsistent
  BY DEF TagsConsistent, ContentTags!IInv
<1> QED
  BY <1>1, <1>2, <1>3, PTL DEF Spec

-----------------------------------------------------------------------------
(* Uploads: Uploads *)

LEMMA UploadsStart == Init /\ part = "uploads" => FileUploads!Init
  BY DEF Init

LEMMA UploadsStep ==
    ASSUME [Next]_vars, part = "uploads"
    PROVE  [FileUploads!Next]_FileUploads!vars
  BY DEF Next, vars, uploads, FileUploads!vars

LEMMA FileBounds ==
    /\ MaxFiles \in Nat /\ \A f \in Files : f.size \in Nat
    /\ \A k : FileUploads!MaxSize(k) \in Nat
  BY ServicesAssumption DEF FileUploads!MaxSize

\* The bytes of a list of files are finitely many, and those of its first files are among
\* them.
LEMMA BytesFinite ==
    ASSUME NEW files \in Seq(Files)
    PROVE  IsFiniteSet(FileUploads!Bytes(files))
<1> DEFINE n == Len(files)
           F(i) == {i} \X (1..files[i].size)
           All == {F(i) : i \in 1..n}
           f == [i \in 1..n |-> F(i)]
<1>1. DOMAIN files = 1..n /\ n \in Int /\ 1 \in Int
  OBVIOUS
<1>2. ASSUME NEW i \in 1..n PROVE IsFiniteSet(F(i))
  <2>1. files[i].size \in Int
    BY <1>1, FileBounds
  <2> QED
    BY <1>1, <2>1, FS_Interval, FS_Singleton, FS_Product
<1> HIDE DEF n, F
<1>3. IsFiniteSet(1..n)
  BY <1>1, FS_Interval
<1>4. f \in Surjection(1..n, All)
  BY DEF Surjection
<1>5. IsFiniteSet(All)
  BY <1>3, <1>4, FS_Surjection
<1>6. IsFiniteSet(UNION All)
  BY <1>2, <1>5, FS_UNION
<1> QED
  BY <1>1, <1>6 DEF FileUploads!Bytes, F

LEMMA SizeOfFirst ==
    ASSUME NEW files \in Seq(Files), NEW some \in Seq(Files), Len(some) <= Len(files),
           \A i \in 1..Len(some) : some[i] = files[i]
    PROVE  /\ FileUploads!SizeOf(some) <= FileUploads!SizeOf(files)
           /\ FileUploads!SizeOf(some) \in Nat /\ FileUploads!SizeOf(files) \in Nat
<1>1. FileUploads!Bytes(some) \subseteq FileUploads!Bytes(files)
  BY DEF FileUploads!Bytes
<1>2. \A S : FileUploads!Cardinality(S) = Cardinality(S)
  BY DEF Cardinality, FileUploads!Cardinality
<1> QED
  BY <1>1, <1>2, BytesFinite, FS_Subset, FS_CardinalityType DEF FileUploads!SizeOf

LEMMA UploadsInit == ASSUME FileUploads!Init PROVE FileUploads!IInv
<1>1. PICK kind \in FileUploads!ImageKinds \cup {"audio"}, level \in {"absent", "PUBLIC", "PRIVATE", "OTHER"} :
         \E files \in FileUploads!SeqOf(Files, IF kind = "batch" THEN MaxFiles ELSE 1) :
            /\ FileUploads!SizeOf(files) <= FileUploads!BodyLimit(kind)
            /\ request = [kind |-> kind, files |-> files,
                          access |-> FileUploads!ParseAccessLevel(kind, level)]
  BY DEF FileUploads!Init
<1>2. PICK files \in FileUploads!SeqOf(Files, IF kind = "batch" THEN MaxFiles ELSE 1) :
         /\ FileUploads!SizeOf(files) <= FileUploads!BodyLimit(kind)
         /\ request = [kind |-> kind, files |-> files,
                       access |-> FileUploads!ParseAccessLevel(kind, level)]
  BY <1>1
<1>3. next = 1 /\ stored = << >> /\ answer = "none"
  BY DEF FileUploads!Init
<1>4. files \in Seq(Files) /\ Len(files) \in Nat
  <2> DEFINE n == IF kind = "batch" THEN MaxFiles ELSE 1
  <2>1. PICK m \in 0..n : files \in [1..m -> Files]
    BY <1>2 DEF FileUploads!SeqOf
  <2>2. n \in Nat
    BY FileBounds
  <2> HIDE DEF n
  <2>3. m \in Nat
    BY <2>1, <2>2
  <2>4. files \in Seq(Files)
    BY <2>1, <2>3, SeqDef
  <2> QED
    BY <2>4
<1>5. FileUploads!Asked
  <2>1. request.files = files /\ request.kind = kind
    BY <1>2
  <2>2. next \in 1..Len(request.files) + 1
    BY <1>3, <1>4, <2>1
  <2> QED
    BY <1>2, <1>4, <2>1, <2>2 DEF FileUploads!Asked
<1>6. FileUploads!StoredInOrder
  <2>1. stored = << >> /\ Len(stored) = 0 /\ next = 1 /\ answer = "none"
    BY <1>3
  <2>2. stored \in Seq([file : Files, access : FileUploads!Accesses])
    BY <2>1
  <2>3. 1..0 = {}
    OBVIOUS
  <2> QED
    BY <2>1, <2>2, <2>3 DEF FileUploads!StoredInOrder
<1> QED
  BY <1>5, <1>6 DEF FileUploads!IInv

LEMMA UploadsNext ==
    ASSUME FileUploads!IInv, [FileUploads!Next]_FileUploads!vars
    PROVE  FileUploads!IInv'
<1>1. CASE UNCHANGED FileUploads!vars
  BY <1>1 DEF FileUploads!vars, FileUploads!IInv, FileUploads!Asked, FileUploads!StoredInOrder
<1>2. CASE /\ answer = "none" /\ answer' \in {"refused", "error"}
           /\ UNCHANGED <<request, next, stored>>
  BY <1>2 DEF FileUploads!IInv, FileUploads!Asked, FileUploads!StoredInOrder
<1>3. CASE FileUploads!WriteSuccess
  BY <1>3 DEF FileUploads!WriteSuccess, FileUploads!Answer, FileUploads!IInv,
     FileUploads!Asked, FileUploads!StoredInOrder
<1>4. CASE FileUploads!Upload /\ stored' # stored
  <2> DEFINE f == request.files[next]
             x == [file |-> f, access |-> request.access]
  <2>1. /\ answer = "none" /\ next \in 1..Len(request.files)
        /\ request.access \in FileUploads!Accesses
        /\ FileUploads!ValidateFile(f, request.kind)
        /\ stored' = Append(stored, x) /\ UNCHANGED request
        /\ \/ next' = next + 1 /\ answer' = "none"
           \/ next' = next /\ answer' = "error"
    BY <1>4 DEF FileUploads!Upload, FileUploads!Ready, FileUploads!Current, FileUploads!Answer,
       FileUploads!Accesses, FileUploads!IInv, FileUploads!Asked
  <2>2. /\ stored \in Seq([file : Files, access : FileUploads!Accesses])
        /\ Len(stored) = next - 1 /\ request.files \in Seq(Files)
    BY <2>1 DEF FileUploads!IInv, FileUploads!Asked, FileUploads!StoredInOrder
  <2>3. x \in [file : Files, access : FileUploads!Accesses]
    BY <2>1, <2>2
  <2> HIDE DEF x
  <2>4. /\ stored' \in Seq([file : Files, access : FileUploads!Accesses])
        /\ Len(stored') = next /\ stored'[next] = x
        /\ \A i \in 1..next - 1 : stored'[i] = stored[i]
    BY <2>1, <2>2, <2>3
  <2>5. FileUploads!Asked'
    BY <2>1, <2>2 DEF FileUploads!IInv, FileUploads!Asked
  <2>6. ASSUME NEW i \in 1..Len(stored')
        PROVE  /\ stored'[i] = [file |-> request.files[i], access |-> request.access]
               /\ FileUploads!ValidateFile(request.files[i], request.kind)
    <3>1. CASE i = next
      BY <2>1, <2>4, <3>1 DEF x
    <3>2. CASE i # next
      <4>1. i \in 1..next - 1 /\ i \in 1..Len(stored)
        BY <2>1, <2>2, <2>4, <2>6, <3>2
      <4> QED
        BY <2>4, <4>1 DEF FileUploads!IInv, FileUploads!StoredInOrder
    <3> QED
      BY <3>1, <3>2
  <2>7. FileUploads!StoredInOrder'
    BY <2>1, <2>2, <2>4, <2>6 DEF FileUploads!StoredInOrder
  <2> QED
    BY <2>5, <2>7 DEF FileUploads!IInv
<1>5. CASE FileUploads!Upload /\ stored' = stored
  <2>1. stored \in Seq([file : Files, access : FileUploads!Accesses])
    BY DEF FileUploads!IInv, FileUploads!StoredInOrder
  <2>2. \A x : Append(stored, x) # stored
    <3>1. \A x : Len(Append(stored, x)) = Len(stored) + 1
      BY <2>1
    <3> QED
      BY <2>1, <3>1
  <2> QED
    BY <1>2, <1>5, <2>2 DEF FileUploads!Upload, FileUploads!Ready, FileUploads!Answer
<1> QED
  BY <1>1, <1>2, <1>3, <1>4, <1>5 DEF FileUploads!Next, FileUploads!InvalidArgument,
     FileUploads!RefuseFile, FileUploads!Refused, FileUploads!Ready, FileUploads!Answer

LEMMA UploadsHold == ASSUME FileUploads!IInv PROVE FileUploads!UploadsComplete
<1>1. /\ stored \in Seq([file : Files, access : FileUploads!Accesses])
      /\ request.files \in Seq(Files) /\ Len(stored) <= Len(request.files)
      /\ answer = "ok" => Len(stored) = Len(request.files)
  BY DEF FileUploads!IInv, FileUploads!Asked, FileUploads!StoredInOrder
<1>2. \A i \in 1..Len(stored) :
         /\ stored[i] = [file |-> request.files[i], access |-> request.access]
         /\ FileUploads!ValidateFile(request.files[i], request.kind)
  BY DEF FileUploads!IInv, FileUploads!StoredInOrder
<1>3. /\ DOMAIN stored = 1..Len(stored) /\ Len(stored) \in Nat
      /\ DOMAIN request.files = 1..Len(request.files)
      /\ \A i \in DOMAIN stored : stored[i] \in [file : Files, access : FileUploads!Accesses]
  <2>1. \A S : \A s \in Seq(S) : /\ DOMAIN s = 1..Len(s) /\ Len(s) \in Nat
                                 /\ \A i \in DOMAIN s : s[i] \in S
    OBVIOUS
  <2> QED
    BY <1>1, <2>1
<1>4. answer = "ok" =>
         stored = [i \in DOMAIN request.files |->
                      [file |-> request.files[i], access |-> request.access]]
  <2> SUFFICES ASSUME answer = "ok"
               PROVE  stored = [i \in 1..Len(stored) |->
                                   [file |-> request.files[i], access |-> request.access]]
    BY <1>1, <1>3
  <2>1. stored = [i \in 1..Len(stored) |-> stored[i]]
    BY <1>1, <1>3
  <2> QED
    BY <1>2, <2>1
<1>5. ASSUME NEW i \in DOMAIN stored
      PROVE  LET f == stored[i].file IN
             /\ f.size \in 1..FileUploads!MaxSize(request.kind)
             /\ stored[i].access \in {"PUBLIC", "PRIVATE"}
             /\ f.sniffed \in FileUploads!Allowed(request.kind)
             /\ FileUploads!ExtensionAllows(f.ext, f.claimed)
  <2> DEFINE f == stored[i].file
  <2>1. f \in Files /\ stored[i].access \in {"PUBLIC", "PRIVATE"}
    BY <1>3 DEF FileUploads!Accesses
  <2>2. FileUploads!ValidateFile(f, request.kind)
    BY <1>2, <1>3
  <2> HIDE DEF f
  <2>3. f.size \in Nat /\ FileUploads!MaxSize(request.kind) \in Nat
    BY <2>1, FileBounds
  <2>4. /\ f.size \in 1..FileUploads!MaxSize(request.kind)
        /\ f.sniffed \in FileUploads!Allowed(request.kind)
        /\ FileUploads!ExtensionAllows(f.ext, f.claimed)
    BY <2>2, <2>3 DEF FileUploads!ValidateFile
  <2> QED
    BY <2>1, <2>4 DEF f
<1>6. FileUploads!SizeOf([i \in DOMAIN stored |-> stored[i].file])
         <= FileUploads!BodyLimit(request.kind)
  <2> DEFINE some == [i \in DOMAIN stored |-> stored[i].file]
  <2>1. /\ some \in Seq(Files) /\ Len(some) = Len(stored)
        /\ \A i \in 1..Len(some) : some[i] = request.files[i]
    <3>1. some \in [1..Len(stored) -> Files]
      BY <1>3
    <3>2. some \in Seq(Files) /\ Len(some) = Len(stored)
      BY <1>3, <3>1, SeqDef
    <3> QED
      BY <1>2, <1>3, <3>2
  <2> HIDE DEF some
  <2>2. /\ FileUploads!SizeOf(some) <= FileUploads!SizeOf(request.files)
        /\ FileUploads!SizeOf(some) \in Nat /\ FileUploads!SizeOf(request.files) \in Nat
    BY <1>1, <2>1, SizeOfFirst
  <2>3. /\ FileUploads!SizeOf(request.files) <= FileUploads!BodyLimit(request.kind)
        /\ request.kind \in FileUploads!ImageKinds \cup {"audio"}
    BY DEF FileUploads!IInv, FileUploads!Asked
  <2>4. FileUploads!BodyLimit(request.kind) \in Nat
    BY ServicesAssumption DEF FileUploads!BodyLimit
  <2> QED
    BY <2>2, <2>3, <2>4 DEF some
<1> QED
  BY <1>4, <1>5, <1>6 DEF FileUploads!UploadsComplete

\* Success means that the store has every file of the request, in order and with the
\* access asked for; no file in it contradicts its name or its limit, and no batch holds
\* more than its own, wherever the batch ended.
THEOREM UploadsAreComplete == Spec => []UploadsComplete
<1> DEFINE Inv == part = "uploads" => FileUploads!IInv
<1>1. Init => Inv
  BY UploadsStart, UploadsInit
<1>2. Inv /\ [Next]_vars => Inv'
  BY PartStays, UploadsStep, UploadsNext
<1>3. Inv => UploadsComplete
  BY UploadsHold DEF UploadsComplete
<1> QED
  BY <1>1, <1>2, <1>3, PTL DEF Spec

-----------------------------------------------------------------------------
(* Lists: Paging *)

LEMMA ListsStart == Init /\ part = "lists" => Lists!Init
  BY DEF Init

LEMMA ListsStep ==
    ASSUME [Next]_vars, part = "lists"
    PROVE  [Lists!Next]_Lists!vars
  BY DEF Next, vars, lists, Lists!vars

LEMMA ListBounds ==
    /\ Ids \subseteq Nat \ {0} /\ IsFiniteSet(Ids) /\ Sizes \subseteq Nat
    /\ DefaultSize \in Nat \ {0} /\ MaxPageSize \in Nat \ {0}
  BY ServicesAssumption

Cell == [key : Nat, id : Nat]

\* The order of a list is a strict total order.
LEMMA Ordered ==
    /\ \A a \in Cell : ~Lists!Precedes(a, a)
    /\ \A a, b \in Cell : a = b \/ Lists!Precedes(a, b) \/ Lists!Precedes(b, a)
    /\ \A a, b, c \in Cell : Lists!Precedes(a, b) /\ Lists!Precedes(b, c) => Lists!Precedes(a, c)
<1>1. \A a \in Cell : ~Lists!Precedes(a, a)
  BY DEF Cell, Lists!Precedes
<1>2. \A a, b \in Cell : a = b \/ Lists!Precedes(a, b) \/ Lists!Precedes(b, a)
  BY DEF Cell, Lists!Precedes
<1>3. \A a, b, c \in Cell : Lists!Precedes(a, b) /\ Lists!Precedes(b, c) => Lists!Precedes(a, c)
  BY DEF Cell, Lists!Precedes
<1> QED
  BY <1>1, <1>2, <1>3

LEMMA ListsFinite == \A S : Lists!Cardinality(S) = Cardinality(S)
  BY DEF Cardinality, Lists!Cardinality

\* The ranks of n rows are the numbers below n, in the order of the rows.
LEMMA Ranks ==
    ASSUME NEW S, S \subseteq Cell, IsFiniteSet(S)
    PROVE  /\ \A r \in S : Lists!Rank(S, r) \in 0..Cardinality(S) - 1
           /\ \A r, s \in S : Lists!Precedes(r, s) => Lists!Rank(S, r) < Lists!Rank(S, s)
           /\ \A k \in 0..Cardinality(S) - 1 : \E r \in S : Lists!Rank(S, r) = k
<1> DEFINE B(r) == {s \in S : Lists!Precedes(s, r)}
           N == Cardinality(S)
<1>1. N \in Nat
  BY FS_CardinalityType
<1>2. ASSUME NEW r \in S
      PROVE  IsFiniteSet(B(r)) /\ Cardinality(B(r)) \in 0..N - 1
  <2>1. B(r) \subseteq S \ {r}
    BY Ordered
  <2>2. IsFiniteSet(S \ {r}) /\ Cardinality(S \ {r}) = N - 1
    BY FS_RemoveElement
  <2>3. IsFiniteSet(B(r)) /\ Cardinality(B(r)) <= N - 1
    BY <2>1, <2>2, FS_Subset
  <2>4. Cardinality(B(r)) \in Nat
    BY <2>3, FS_CardinalityType
  <2> QED
    BY <1>1, <2>3, <2>4
<1>3. \A r \in S : Lists!Rank(S, r) = Cardinality(B(r))
  BY ListsFinite DEF Lists!Rank
<1>4. ASSUME NEW r \in S, NEW s \in S, Lists!Precedes(r, s)
      PROVE  Cardinality(B(r)) < Cardinality(B(s))
  <2>1. B(r) \subseteq B(s) /\ r \in B(s) /\ r \notin B(r)
    BY <1>4, Ordered
  <2>2. Cardinality(B(r)) <= Cardinality(B(s)) /\ Cardinality(B(r)) # Cardinality(B(s))
    BY <1>2, <2>1, FS_Subset
  <2> HIDE DEF B, N
  <2>3. Cardinality(B(r)) \in Int /\ Cardinality(B(s)) \in Int
    BY <1>1, <1>2
  <2> QED
    BY <2>2, <2>3
<1> HIDE DEF B
<1> DEFINE f == [r \in S |-> Cardinality(B(r))]
           T == 0..N - 1
<1>5. IsFiniteSet(T) /\ Cardinality(T) = N
  <2>1. 0 \in Int /\ N - 1 \in Int
    BY <1>1
  <2> HIDE DEF N
  <2>2. IsFiniteSet(T) /\ Cardinality(T) = IF 0 > N - 1 THEN 0 ELSE N - 1 - 0 + 1
    BY <2>1, FS_Interval
  <2> QED
    BY <1>1, <2>2
<1>6. f \in Injection(S, T)
  <2>1. f \in [S -> T]
    BY <1>2
  <2>2. \A r, s \in S : r # s => f[r] # f[s]
    <3> SUFFICES ASSUME NEW r \in S, NEW s \in S, r # s, Lists!Precedes(r, s)
                 PROVE  f[r] # f[s]
      BY Ordered
    <3>1. f[r] < f[s] /\ f[r] \in Int /\ f[s] \in Int
      BY <1>1, <1>2, <1>4
    <3> QED
      BY <3>1
  <2> QED
    BY <2>1, <2>2 DEF Injection, IsInjective
<1>7. f \in Surjection(S, T)
  <2> HIDE DEF f, T
  <2> QED
    BY <1>5, <1>6, FS_Injection
<1>8. \A k \in T : \E r \in S : f[r] = k
  BY <1>7 DEF Surjection
<1> QED
  BY <1>2, <1>3, <1>4, <1>8

\* One row more than a page holds tells whether there are more, and does not change what
\* the page shows.
LEMMA OneMore ==
    ASSUME NEW S, S \subseteq Cell, IsFiniteSet(S), NEW n \in Nat
    PROVE  LET fetched == Lists!Limit(S, 0, n + 1) IN
           /\ Cardinality(fetched) > n <=> Cardinality(S) > n
           /\ Lists!Limit(fetched, 0, n) = {r \in S : Lists!Rank(S, r) < n}
<1> DEFINE F == Lists!Limit(S, 0, n + 1)
           N == Cardinality(S)
<1>1. N \in Nat
  BY FS_CardinalityType
<1>2. F = {r \in S : Lists!Rank(S, r) < n + 1}
  BY <1>1, Ranks DEF Lists!Limit
<1>3. F \subseteq S /\ IsFiniteSet(F) /\ Cardinality(F) <= N /\ Cardinality(F) \in Nat
  BY <1>2, FS_Subset, FS_CardinalityType
<1>4. ASSUME N > n PROVE Cardinality(F) > n
  <2> DEFINE g == [r \in F |-> Lists!Rank(S, r)]
             T == 0..n
  <2>1. \A k \in T : \E r \in F : g[r] = k
    <3> SUFFICES ASSUME NEW k \in T PROVE \E r \in F : Lists!Rank(S, r) = k
      OBVIOUS
    <3>1. k \in 0..N - 1 /\ k < n + 1
      BY <1>1, <1>4
    <3>2. PICK r \in S : Lists!Rank(S, r) = k
      BY <3>1, Ranks
    <3> QED
      BY <1>2, <3>1, <3>2
  <2>2. g \in [F -> T]
    <3>1. \A r \in F : Lists!Rank(S, r) \in T
      BY <1>1, <1>2, Ranks
    <3> QED
      BY <3>1
  <2>3. g \in Surjection(F, T)
    BY <2>1, <2>2 DEF Surjection
  <2>4. Cardinality(T) = n + 1
    <3>1. 0 \in Int /\ n \in Int
      OBVIOUS
    <3> QED
      BY <3>1, FS_Interval
  <2> HIDE DEF F, T, g
  <2>5. Cardinality(T) <= Cardinality(F)
    BY <1>3, <2>3, FS_Surjection
  <2> QED
    BY <1>3, <2>4, <2>5
<1>5. ASSUME NEW r \in F PROVE Lists!Rank(F, r) = Lists!Rank(S, r)
  <2>1. \A s \in S : Lists!Precedes(s, r) => s \in F
    <3> SUFFICES ASSUME NEW s \in S, Lists!Precedes(s, r) PROVE s \in F
      OBVIOUS
    <3>1. Lists!Rank(S, s) < Lists!Rank(S, r) /\ Lists!Rank(S, s) \in Int /\ Lists!Rank(S, r) \in Int
      BY <1>1, <1>2, Ranks
    <3> QED
      BY <1>2, <3>1
  <2>2. {s \in F : Lists!Precedes(s, r)} = {s \in S : Lists!Precedes(s, r)}
    BY <1>3, <2>1
  <2> QED
    BY <2>2, ListsFinite DEF Lists!Rank
<1>6. Lists!Limit(F, 0, n) = {r \in S : Lists!Rank(S, r) < n}
  <2>1. \A r \in S : Lists!Rank(S, r) \in Int /\ Lists!Rank(S, r) >= 0
    BY <1>1, Ranks
  <2>2. Lists!Limit(F, 0, n) = {r \in F : Lists!Rank(F, r) >= 0 /\ Lists!Rank(F, r) < n}
    BY DEF Lists!Limit
  <2> HIDE DEF F
  <2>3. \A r \in S : (r \in F /\ Lists!Rank(F, r) >= 0 /\ Lists!Rank(F, r) < n) <=> Lists!Rank(S, r) < n
    BY <1>2, <1>5, <2>1
  <2> QED
    BY <1>3, <2>2, <2>3
<1> QED
  BY <1>1, <1>3, <1>4, <1>6

\* What a page of a keyset list shows of the rows after its cursor: all, when there are no
\* more; otherwise those up to its last row.
LEMMA KeysetItems ==
    ASSUME NEW S, S \subseteq Cell, IsFiniteSet(S), NEW n \in Nat \ {0},
           NEW items, items = {r \in S : Lists!Rank(S, r) < n}
    PROVE  /\ Cardinality(S) <= n => items = S
           /\ Cardinality(S) > n =>
                 /\ Lists!Last(items) \in items
                 /\ \A r \in S : r \in items <=> ~Lists!Precedes(Lists!Last(items), r)
<1> DEFINE N == Cardinality(S)
<1>1. N \in Nat
  BY FS_CardinalityType
<1>2. \A r \in S : Lists!Rank(S, r) \in 0..N - 1 /\ Lists!Rank(S, r) \in Int
  BY <1>1, Ranks
<1> HIDE DEF N
<1>3. N <= n => items = S
  BY <1>1, <1>2
<1>4. ASSUME N > n
      PROVE  /\ Lists!Last(items) \in items
             /\ \A r \in S : r \in items <=> ~Lists!Precedes(Lists!Last(items), r)
  <2>1. n - 1 \in 0..N - 1
    BY <1>1, <1>4
  <2>2. PICK l \in S : Lists!Rank(S, l) = n - 1
    BY <2>1, Ranks DEF N
  <2>3. l \in items
    BY <2>2
  <2>4. ASSUME NEW r \in S
        PROVE  r \in items <=> ~Lists!Precedes(l, r)
    <3>1. Lists!Precedes(l, r) => n - 1 < Lists!Rank(S, r)
      BY <2>2, Ranks
    <3>2. r = l \/ Lists!Precedes(l, r) \/ Lists!Precedes(r, l)
      BY <2>2, Ordered
    <3>3. Lists!Precedes(r, l) => Lists!Rank(S, r) < n - 1
      BY <2>2, Ranks
    <3>4. ~Lists!Precedes(l, l)
      BY <2>2, Ordered
    <3> QED
      BY <1>2, <2>2, <3>1, <3>2, <3>3, <3>4
  <2>5. \A s \in items : s = l \/ Lists!Precedes(s, l)
    BY <2>2, <2>4, Ordered
  <2>6. \A m \in items : (\A s \in items : s = m \/ Lists!Precedes(s, m)) => m = l
    <3> SUFFICES ASSUME NEW m \in items, m # l, Lists!Precedes(l, m) PROVE FALSE
      BY <2>3
    <3> QED
      BY <2>4
  <2>7. Lists!Last(items) = l
    BY <2>3, <2>5, <2>6 DEF Lists!Last
  <2> QED
    BY <2>3, <2>4, <2>7
<1> QED
  BY <1>3, <1>4 DEF N

\* A row that the cursor has passed is still passed when it does not move down.
LEMMA StaysPassed ==
    ASSUME NEW c \in Cell, NEW i \in Ids, NEW k \in Nat, NEW m \in Nat,
           ~Lists!Precedes(Lists!RowAt(i, k), Lists!RowAt(i, m)),
           ~Lists!Precedes(c, Lists!RowAt(i, k))
    PROVE  ~Lists!Precedes(c, Lists!RowAt(i, m))
  BY ListBounds DEF Lists!Precedes, Lists!RowAt, Cell

LEMMA RowsAreCells ==
    ASSUME Lists!TypeOK
    PROVE  /\ Lists!Rows \subseteq Cell /\ IsFiniteSet(Lists!Rows)
           /\ \A i \in Ids : Lists!Row(i) \in Lists!Rows <=> key[i] # 0
           /\ \A i \in Ids, k \in Nat : Lists!RowAt(i, k) \in Cell
           /\ Lists!Start \in Cell /\ cursor \in Cell
<1> DEFINE In == {j \in Ids : key[j] # 0}
           f == [i \in In |-> Lists!Row(i)]
<1>1. \A i \in Ids, k \in Nat : Lists!RowAt(i, k) \in Cell
  BY ListBounds DEF Lists!RowAt, Cell
<1>2. \A i \in Ids : key[i] \in Nat
  BY DEF Lists!TypeOK
<1>3. Lists!Rows \subseteq Cell
  BY <1>1, <1>2 DEF Lists!Rows, Lists!Row
<1>4. IsFiniteSet(In)
  BY ListBounds, FS_Subset
<1>5. f \in Surjection(In, Lists!Rows)
  BY DEF Surjection, Lists!Rows
<1> HIDE DEF f
<1>6. IsFiniteSet(Lists!Rows)
  BY <1>4, <1>5, FS_Surjection
<1>7. \A i, j \in Ids : Lists!Row(i) = Lists!Row(j) => i = j
  BY DEF Lists!Row, Lists!RowAt
<1>8. \A i \in Ids : Lists!Row(i) \in Lists!Rows <=> key[i] # 0
  BY <1>7 DEF Lists!Rows
<1>9. Lists!Start \in Cell
  BY DEF Lists!Start, Cell
<1>10. cursor \in Cell
  <2>1. 1..now \subseteq Nat
    OBVIOUS
  <2> QED
    BY <1>1, <1>9, <2>1 DEF Lists!TypeOK
<1> QED
  BY <1>1, <1>3, <1>6, <1>8, <1>9, <1>10

LEMMA ListsInit == ASSUME Lists!Init PROVE Lists!IInv
<1>1. /\ list \in Lists!KeysetLists \cup Lists!OffsetLists /\ size \in Sizes /\ now = 2
      /\ key \in [Ids -> 0..2] /\ grouped \in BOOLEAN
      /\ cursor = Lists!Start /\ page = 0 /\ done = FALSE /\ changes = 0
      /\ shown = [i \in Ids |-> 0] /\ kept = {i \in Ids : key[i] # 0 /\ grouped}
      /\ placed = key /\ falls = [i \in Ids |-> 0]
  BY DEF Lists!Init
<1>2. Lists!TypeOK
  <2>1. now \in Nat \ {0} /\ key \in [Ids -> 0..now]
    BY <1>1
  <2>2. shown \in [Ids -> Nat] /\ page \in Nat /\ changes \in Nat /\ done \in BOOLEAN
    BY <1>1
  <2>3. kept \subseteq Ids /\ placed \in [Ids -> 0..now] /\ falls \in [Ids -> Nat]
    BY <1>1
  <2> QED
    BY <1>1, <2>1, <2>2, <2>3 DEF Lists!TypeOK
<1>6. Lists!HistoriesFit
  BY <1>1 DEF Lists!HistoriesFit
<1>3. Lists!TraversalComplete
  BY <1>1 DEF Lists!TraversalComplete, Lists!KeysetComplete, Lists!OffsetComplete
<1>4. Lists!ShownIsPassed /\ Lists!PassedIsShown
  BY <1>1 DEF Lists!ShownIsPassed, Lists!PassedIsShown, Lists!After
<1>5. Lists!PagesCoverRanks
  <2> SUFFICES ASSUME NEW i \in Ids, key[i] # 0, Lists!Rank(Lists!Rows, Lists!Row(i)) < 0 * Lists!PageSize
               PROVE  FALSE
    BY <1>1 DEF Lists!PagesCoverRanks
  <2>1. Lists!PageSize \in Nat
    BY <1>1, ListBounds DEF Lists!PageSize, Lists!Clamped
  <2>2. 0 * Lists!PageSize = 0
    BY <2>1
  <2>3. /\ Lists!Rank(Lists!Rows, Lists!Row(i)) \in 0..Cardinality(Lists!Rows) - 1
        /\ Cardinality(Lists!Rows) \in Nat
    BY <1>2, RowsAreCells, Ranks, FS_CardinalityType
  <2> QED
    BY <2>2, <2>3
<1> QED
  BY <1>2, <1>3, <1>4, <1>5, <1>6 DEF Lists!IInv

\* A page of a keyset list shows what is after the cursor up to where it leaves the cursor.
LEMMA ListsKeyset ==
    ASSUME Lists!IInv, list \in Lists!KeysetLists, Lists!Reading,
           NEW found, found = Lists!Rows \/ (found = {} /\ kept = {}),
           NEW n \in Nat \ {0}, Lists!KeysetPage(found, n)
    PROVE  Lists!IInv'
<1> DEFINE C == {r \in found : Lists!After(r)}
           fetched == Lists!Limit(C, 0, n + 1)
           items == Lists!Limit(fetched, 0, n)
           more == Lists!Cardinality(fetched) > n
           l == Lists!Last(items)
<1>1. /\ shown' = [i \in Ids |-> IF Lists!Row(i) \in items THEN shown[i] + 1 ELSE shown[i]]
      /\ done' = ~more /\ cursor' = IF more THEN l ELSE Lists!Start
      /\ page' = page + 1 /\ UNCHANGED total
  BY DEF Lists!KeysetPage, Lists!Show
<1>2. ~done /\ UNCHANGED <<list, size, key, grouped, now, kept, placed, falls, changes>>
  BY DEF Lists!Reading
<1>3. /\ Lists!TypeOK /\ Lists!ShownIsPassed /\ Lists!PassedIsShown /\ Lists!KeysetComplete
      /\ Lists!HistoriesFit
  BY DEF Lists!IInv, Lists!TraversalComplete
<1>4. /\ C \subseteq Lists!Rows /\ C \subseteq Cell /\ IsFiniteSet(C)
      /\ \A i \in Ids : Lists!Row(i) \in Lists!Rows <=> key[i] # 0
  <2>1. C \subseteq Lists!Rows
    OBVIOUS
  <2> QED
    BY <1>3, <2>1, RowsAreCells, FS_Subset
<1>5. items = {r \in C : Lists!Rank(C, r) < n} /\ (more <=> Cardinality(C) > n)
  BY <1>4, OneMore, ListsFinite
<1> HIDE DEF C, fetched, items, more
<1>6. ~more => items = C
  <2>1. Cardinality(C) \in Nat
    BY <1>4, FS_CardinalityType
  <2> QED
    BY <1>4, <1>5, <2>1, KeysetItems
<1>7. more => l \in items /\ \A r \in C : r \in items <=> ~Lists!Precedes(l, r)
  BY <1>4, <1>5, KeysetItems
<1>8. items \subseteq C
  BY <1>5
<1> HIDE DEF l
<1>9. \A i \in Ids : /\ key[i] \in 0..now /\ placed[i] \in 0..now
                     /\ shown[i] \in Nat /\ falls[i] \in Nat /\ shown[i] <= 1 + falls[i]
  BY <1>3 DEF Lists!TypeOK, Lists!KeysetComplete
<1>10. ASSUME NEW i \in Ids, Lists!Row(i) \in C
       PROVE  key[i] # 0 /\ placed[i] = key[i] /\ shown[i] <= falls[i]
  <2>1. key[i] # 0 /\ Lists!After(Lists!RowAt(i, key[i])) /\ placed[i] = key[i]
    BY <1>3, <1>4, <1>10 DEF C, Lists!Row, Lists!HistoriesFit
  <2> QED
    BY <1>2, <1>3, <1>9, <2>1 DEF Lists!ShownIsPassed
<1>11. \A i \in Ids : /\ Lists!Row(i) \in items => shown'[i] = shown[i] + 1
                      /\ Lists!Row(i) \notin items => shown'[i] = shown[i]
  BY <1>1
<1>12. ASSUME more
       PROVE  /\ l \in Cell /\ l # Lists!Start
              /\ \E i \in Ids, k \in 1..now : l = Lists!RowAt(i, k)
              /\ cursor = Lists!Start \/ Lists!Precedes(cursor, l)
  <2>1. l \in C
    BY <1>7, <1>8, <1>12
  <2>2. PICK i \in Ids : l = Lists!RowAt(i, key[i]) /\ key[i] # 0
    BY <1>4, <2>1 DEF Lists!Rows, Lists!Row
  <2>3. key[i] \in 1..now
    BY <1>9, <2>2
  <2>4. l # Lists!Start
    BY <2>2, ListBounds DEF Lists!RowAt, Lists!Start
  <2>5. cursor = Lists!Start \/ Lists!Precedes(cursor, l)
    BY <2>1 DEF C, Lists!After
  <2> QED
    BY <1>4, <2>1, <2>2, <2>3, <2>4, <2>5
<1>13. Lists!TypeOK'
  <2>1. shown' \in [Ids -> Nat]
    BY <1>1, <1>9, <1>11
  <2>2. cursor' = Lists!Start \/ \E i \in Ids, k \in 1..now : cursor' = Lists!RowAt(i, k)
    BY <1>1, <1>12
  <2>3. \A i \in Ids, k \in 1..now : Lists!RowAt(i, k)' = Lists!RowAt(i, k)
    BY <1>2 DEF Lists!RowAt
  <2>4. done' \in BOOLEAN /\ page' \in Nat
    BY <1>1, <1>3 DEF Lists!TypeOK
  <2>5. (cursor = Lists!Start \/ \E i \in Ids, k \in 1..now : cursor = Lists!RowAt(i, k))'
    BY <1>2, <2>2, <2>3 DEF Lists!Start
  <2> QED
    BY <1>2, <1>3, <2>1, <2>4, <2>5 DEF Lists!TypeOK
<1>14. Lists!ShownIsPassed'
  <2> SUFFICES ASSUME ~done', NEW i \in Ids, shown'[i] > falls[i]
               PROVE  l # Lists!Start /\ ~Lists!Precedes(l, Lists!RowAt(i, placed[i]))
    BY <1>1, <1>2 DEF Lists!ShownIsPassed, Lists!After, Lists!Precedes, Lists!RowAt
  <2>1. more
    BY <1>1
  <2>2. CASE Lists!Row(i) \in items
    <3>1. Lists!RowAt(i, placed[i]) = Lists!Row(i)
      BY <1>8, <1>10, <2>2 DEF Lists!Row
    <3> QED
      BY <1>7, <1>8, <1>12, <2>1, <2>2, <3>1
  <2>3. CASE Lists!Row(i) \notin items
    <3>1. ~Lists!After(Lists!RowAt(i, placed[i]))
      BY <1>2, <1>3, <1>11, <2>3 DEF Lists!ShownIsPassed
    <3>2. /\ ~Lists!Precedes(cursor, Lists!RowAt(i, placed[i])) /\ Lists!Precedes(cursor, l)
          /\ cursor \in Cell /\ l \in Cell /\ Lists!RowAt(i, placed[i]) \in Cell
      BY <1>3, <1>9, <1>12, <2>1, <3>1, RowsAreCells DEF Lists!After
    <3> QED
      BY <1>12, <2>1, <3>2, Ordered
  <2> QED
    BY <2>2, <2>3
<1>15. Lists!PassedIsShown'
  <2> SUFFICES ASSUME NEW i \in kept,
                      done' \/ (l # Lists!Start /\ ~Lists!Precedes(l, Lists!Row(i)))
               PROVE  shown'[i] = 1
    BY <1>1, <1>2, <1>12
    DEF Lists!PassedIsShown, Lists!After, Lists!Precedes, Lists!Row, Lists!RowAt, Lists!Start
  <2>1. i \in Ids /\ key[i] # 0 /\ falls[i] = 0 /\ found = Lists!Rows
    BY <1>3 DEF Lists!TypeOK, Lists!HistoriesFit
  <2>2. CASE Lists!After(Lists!Row(i))
    <3>1. Lists!Row(i) \in C
      BY <1>4, <2>1, <2>2 DEF C
    <3>2. Lists!Row(i) \in items
      BY <1>1, <1>6, <1>7, <3>1
    <3> QED
      BY <1>9, <1>10, <1>11, <2>1, <3>1, <3>2
  <2>3. CASE ~Lists!After(Lists!Row(i))
    <3>1. shown[i] = 1
      BY <1>3, <2>3 DEF Lists!PassedIsShown
    <3>2. Lists!Row(i) \notin items
      BY <1>8, <2>3 DEF C
    <3> QED
      BY <1>11, <2>1, <3>1, <3>2
  <2> QED
    BY <2>2, <2>3
<1>16. list' \notin Lists!OffsetLists
  BY <1>2 DEF Lists!KeysetLists, Lists!OffsetLists
<1>17. Lists!TraversalComplete'
  <2>1. \A i \in Ids : shown'[i] <= 1 + falls[i]
    BY <1>8, <1>9, <1>10, <1>11
  <2>2. list \in Lists!RisingKeys \cup Lists!FixedKeys => \A i \in Ids : shown'[i] <= 1
    BY <1>3, <1>13, <2>1 DEF Lists!HistoriesFit, Lists!TypeOK
  <2>3. done' => \A i \in kept' : shown'[i] = 1
    BY <1>2, <1>15 DEF Lists!PassedIsShown
  <2> QED
    BY <1>2, <1>16, <2>1, <2>2, <2>3
    DEF Lists!TraversalComplete, Lists!KeysetComplete, Lists!OffsetComplete
<1>18. Lists!HistoriesFit'
  <2>1. \A i \in Ids : shown'[i] # 0 => placed[i] # 0
    BY <1>3, <1>8, <1>10, <1>11 DEF Lists!HistoriesFit
  <2> QED
    BY <1>2, <1>3, <2>1 DEF Lists!HistoriesFit
<1> QED
  BY <1>13, <1>14, <1>15, <1>16, <1>17, <1>18 DEF Lists!IInv, Lists!PagesCoverRanks

LEMMA EnoughPages ==
    ASSUME NEW R \in Nat, NEW n \in Nat \ {0}, NEW p \in Nat, p >= (R + n - 1) \div n
    PROVE  p * n >= R
<1> DEFINE q == (R + n - 1) \div n
           m == (R + n - 1) % n
<1>1. R + n - 1 \in Int /\ n > 0
  OBVIOUS
<1>2. q \in Int /\ m \in 0..n - 1 /\ R + n - 1 = n * q + m
  BY <1>1
<1> HIDE DEF q, m
<1>3. n * q >= R
  BY <1>2
<1>4. p >= q
  BY DEF q
<1>5. p * n >= n * q
  <2>1. p - q \in Nat
    BY <1>2, <1>4
  <2> DEFINE d == p - q
  <2>2. d * n >= 0
    BY <2>1
  <2>3. p * n = n * q + d * n
    BY <1>2
  <2>4. n * q \in Int /\ d * n \in Int
    BY <1>2
  <2> QED
    BY <2>2, <2>3, <2>4
<1>6. n * q \in Int /\ p * n \in Int
  BY <1>2
<1> QED
  BY <1>3, <1>5, <1>6

LEMMA PageSizes ==
    ASSUME Lists!TypeOK
    PROVE  /\ Lists!PageSize \in Nat
           /\ \A n \in Lists!Refusing(size) : n \in Nat \ {0}
           /\ list # "adminPosts" => \A n \in Lists!Refusing(size) : n = Lists!PageSize
           /\ list = "adminPosts" => Lists!Clamped(size) = Lists!PageSize
           /\ Lists!Clamped(size) \in Nat \ {0} /\ Lists!Uncapped(size) \in Nat \ {0}
<1>1. size \in Nat
  BY ListBounds DEF Lists!TypeOK
<1> QED
  BY <1>1, ListBounds
  DEF Lists!PageSize, Lists!Refusing, Lists!Clamped, Lists!Uncapped

\* A page of an offset list shows the ranks that follow those of the pages before it.
LEMMA ListsOffset ==
    ASSUME Lists!IInv, list \in Lists!OffsetLists, Lists!Reading,
           NEW n \in Nat \ {0}, n = Lists!PageSize, NEW pages,
           page + 1 >= pages => (page + 1) * n >= Cardinality(Lists!Rows),
           Lists!OffsetPage(n, pages)
    PROVE  Lists!IInv'
<1> DEFINE m == page * n
           items == Lists!Limit(Lists!Rows, m, n)
<1>1. /\ shown' = [i \in Ids |-> IF Lists!Row(i) \in items THEN shown[i] + 1 ELSE shown[i]]
      /\ page' = page + 1 /\ done' = (page' >= pages) /\ UNCHANGED cursor
  BY DEF Lists!OffsetPage, Lists!Show, Lists!Offset
<1>2. ~done /\ UNCHANGED <<list, size, key, grouped, now, kept, placed, falls, changes>>
  BY DEF Lists!Reading
<1>3. Lists!TypeOK /\ Lists!PagesCoverRanks /\ Lists!HistoriesFit
  BY DEF Lists!IInv
<1>4. page \in Nat /\ shown \in [Ids -> Nat]
  BY <1>3 DEF Lists!TypeOK
<1>5. m \in Nat /\ (page + 1) * n = m + n
  BY <1>4
<1> HIDE DEF m
<1>6. Lists!TypeOK'
  <2>1. shown' \in [Ids -> Nat] /\ page' \in Nat /\ done' \in BOOLEAN
    BY <1>1, <1>4
  <2>2. (cursor = Lists!Start \/ \E i \in Ids, k \in 1..now : cursor = Lists!RowAt(i, k))'
    BY <1>1, <1>2, <1>3 DEF Lists!TypeOK, Lists!Start, Lists!RowAt
  <2> QED
    BY <1>2, <1>3, <2>1, <2>2 DEF Lists!TypeOK
<1>7. list' \notin Lists!KeysetLists
  BY <1>2 DEF Lists!KeysetLists, Lists!OffsetLists
<1>8. Lists!Rows' = Lists!Rows /\ Lists!PageSize' = Lists!PageSize
  BY <1>2 DEF Lists!Rows, Lists!Row, Lists!RowAt, Lists!PageSize, Lists!Clamped
<1>9. \A i \in Ids : /\ Lists!Row(i)' = Lists!Row(i)
                     /\ Lists!Rank(Lists!Rows, Lists!Row(i))' = Lists!Rank(Lists!Rows, Lists!Row(i))
  BY <1>2 DEF Lists!Rows, Lists!Row, Lists!RowAt, Lists!Rank, Lists!Precedes
<1>10. ASSUME NEW i \in Ids, changes = 0
       PROVE  shown'[i] = IF key[i] # 0 /\ Lists!Rank(Lists!Rows, Lists!Row(i)) < (page + 1) * n
                          THEN 1 ELSE 0
  <2> DEFINE r == Lists!Rank(Lists!Rows, Lists!Row(i))
  <2>1. shown[i] = IF key[i] # 0 /\ r < m THEN 1 ELSE 0
    BY <1>3, <1>10 DEF Lists!PagesCoverRanks, m
  <2>2. Lists!Row(i) \in Lists!Rows <=> key[i] # 0
    BY <1>3, RowsAreCells
  <2>3. key[i] # 0 => r \in Int
    <3>1. Cardinality(Lists!Rows) \in Nat
      BY <1>3, RowsAreCells, FS_CardinalityType
    <3> QED
      BY <1>3, <2>2, <3>1, RowsAreCells, Ranks
  <2>4. Lists!Row(i) \in items <=> key[i] # 0 /\ r >= m /\ r < m + n
    BY <2>2 DEF Lists!Limit
  <2> HIDE DEF r, items
  <2> QED
    BY <1>1, <1>5, <2>1, <2>3, <2>4 DEF r
<1>11. done' => (page + 1) * n >= Cardinality(Lists!Rows)
  BY <1>1
<1>12. Lists!PagesCoverRanks'
  BY <1>1, <1>2, <1>8, <1>9, <1>10, <1>11, ListsFinite DEF Lists!PagesCoverRanks
<1>13. Lists!OffsetComplete'
  <2> SUFFICES ASSUME changes = 0
               PROVE  /\ \A i \in Ids : shown'[i] <= 1
                      /\ done' => \A i \in kept : shown'[i] = 1
    BY <1>2 DEF Lists!OffsetComplete
  <2>1. \A i \in Ids : shown'[i] <= 1
    BY <1>10
  <2>2. ASSUME done', NEW i \in kept PROVE shown'[i] = 1
    <3>1. i \in Ids /\ key[i] # 0
      BY <1>3 DEF Lists!TypeOK, Lists!HistoriesFit
    <3>2. /\ Cardinality(Lists!Rows) \in Nat
          /\ Lists!Rank(Lists!Rows, Lists!Row(i)) \in 0..Cardinality(Lists!Rows) - 1
      BY <1>3, <3>1, RowsAreCells, Ranks, FS_CardinalityType
    <3>3. Lists!Rank(Lists!Rows, Lists!Row(i)) < (page + 1) * n
      BY <1>5, <1>11, <2>2, <3>2
    <3> QED
      BY <1>10, <3>1, <3>3
  <2> QED
    BY <2>1, <2>2
<1>14. Lists!HistoriesFit'
  <2>1. \A i \in Ids : Lists!Row(i) \in Lists!Rows => placed[i] # 0
    BY <1>3, RowsAreCells DEF Lists!HistoriesFit
  <2>2. \A i \in Ids : Lists!Row(i) \in items => placed[i] # 0
    BY <2>1 DEF Lists!Limit
  <2> HIDE DEF items
  <2>3. \A i \in Ids : shown'[i] # 0 => placed[i] # 0
    BY <1>1, <1>3, <2>2 DEF Lists!HistoriesFit
  <2> QED
    BY <1>2, <1>3, <2>3 DEF Lists!HistoriesFit
<1> QED
  BY <1>6, <1>7, <1>12, <1>13, <1>14 DEF Lists!IInv, Lists!TraversalComplete, Lists!KeysetComplete,
     Lists!ShownIsPassed, Lists!PassedIsShown

\* A row that is added, taken away or moved is no longer one that stayed; if it was shown
\* as often as it fell, it is where the cursor has passed it, or further up.
LEMMA ListsChange ==
    ASSUME Lists!IInv, NEW i \in Ids, Lists!Changing(i), grouped' \in BOOLEAN,
           grouped => grouped' /\ \A j \in Ids \ {i} : key'[j] = key[j],
           key' \in [Ids -> 0..now], placed' \in [Ids -> 0..now], falls' \in [Ids -> Nat],
           \A j \in Ids \ {i} : /\ key'[j] # 0 => key'[j] = key[j]
                               /\ placed'[j] = placed[j] /\ falls'[j] = falls[j],
           key'[i] # 0 => placed'[i] = key'[i], placed[i] # 0 => placed'[i] # 0,
           falls'[i] >= falls[i],
           list \in Lists!RisingKeys \cup Lists!FixedKeys => falls'[i] = falls[i],
           placed[i] # 0 =>
               \/ falls'[i] > falls[i]
               \/ ~Lists!Precedes(Lists!RowAt(i, placed[i]), Lists!RowAt(i, placed'[i]))
    PROVE  Lists!IInv'
<1>1. /\ changes' = changes + 1 /\ kept' = kept \ {i}
      /\ UNCHANGED <<list, size, now, cursor, page, total, shown, done>>
  BY DEF Lists!Changing
<1>2. /\ Lists!TypeOK /\ Lists!ShownIsPassed /\ Lists!PassedIsShown /\ Lists!KeysetComplete
      /\ Lists!HistoriesFit
  BY DEF Lists!IInv, Lists!TraversalComplete
<1>3. /\ now \in Nat /\ changes \in Nat
      /\ \A j \in Ids : shown[j] \in Nat /\ falls[j] \in Nat /\ falls'[j] \in Nat
                        /\ placed[j] \in Nat /\ placed'[j] \in Nat
  BY <1>2 DEF Lists!TypeOK
<1>4. Lists!TypeOK'
  <2>1. (cursor = Lists!Start \/ \E j \in Ids, k \in 1..now : cursor = Lists!RowAt(j, k))'
    BY <1>1, <1>2 DEF Lists!TypeOK, Lists!Start, Lists!RowAt
  <2> QED
    BY <1>1, <1>2, <2>1 DEF Lists!TypeOK
<1>5. Lists!HistoriesFit'
  <2>1. \A j \in Ids \ {i} : /\ key'[j] # 0 => placed'[j] = key'[j]
                             /\ shown'[j] # 0 => placed'[j] # 0
                             /\ j \in kept' => key'[j] # 0 /\ grouped' /\ falls'[j] = 0
    BY <1>1, <1>2 DEF Lists!HistoriesFit
  <2>2. shown'[i] # 0 => placed'[i] # 0
    BY <1>1, <1>2 DEF Lists!HistoriesFit
  <2>3. list \in Lists!RisingKeys \cup Lists!FixedKeys => \A j \in Ids : falls'[j] = 0
    BY <1>2 DEF Lists!HistoriesFit
  <2> QED
    BY <1>1, <2>1, <2>2, <2>3 DEF Lists!HistoriesFit
<1>6. Lists!ShownIsPassed'
  <2> SUFFICES ASSUME list \in Lists!KeysetLists, ~done, NEW j \in Ids, shown[j] > falls'[j]
               PROVE  ~Lists!After(Lists!RowAt(j, placed'[j]))
    BY <1>1 DEF Lists!ShownIsPassed, Lists!After, Lists!RowAt, Lists!Precedes
  <2>1. shown[j] > falls[j] /\ ~Lists!After(Lists!RowAt(j, placed[j]))
    <3>1. shown[j] > falls[j]
      BY <1>3
    <3> QED
      BY <1>2, <3>1 DEF Lists!ShownIsPassed
  <2>2. CASE j # i
    BY <2>1, <2>2
  <2>3. CASE j = i
    <3>1. placed[i] # 0 /\ shown[i] <= 1 + falls[i]
      BY <1>2, <1>3, <2>1, <2>3 DEF Lists!HistoriesFit, Lists!KeysetComplete
    <3>2. ~Lists!Precedes(Lists!RowAt(i, placed[i]), Lists!RowAt(i, placed'[i]))
      BY <1>3, <2>3, <3>1
    <3>3. cursor \in Cell /\ cursor # Lists!Start /\ ~Lists!Precedes(cursor, Lists!RowAt(i, placed[i]))
      BY <1>2, <2>1, <2>3, RowsAreCells DEF Lists!After
    <3>4. PICK k, m : k = placed[i] /\ m = placed'[i]
      OBVIOUS
    <3>5. ~Lists!Precedes(cursor, Lists!RowAt(i, m))
      BY <1>3, <3>2, <3>3, <3>4, StaysPassed
    <3> QED
      BY <2>3, <3>3, <3>4, <3>5 DEF Lists!After
  <2> QED
    BY <2>2, <2>3
<1>7. Lists!PassedIsShown'
  <2> SUFFICES ASSUME list \in Lists!KeysetLists, NEW j \in kept',
                      done \/ ~Lists!After(Lists!RowAt(j, key'[j]))
               PROVE  shown[j] = 1
    BY <1>1 DEF Lists!PassedIsShown, Lists!After, Lists!Row, Lists!RowAt, Lists!Precedes
  <2>1. j \in kept /\ j \in Ids \ {i} /\ key'[j] = key[j]
    BY <1>1, <1>2 DEF Lists!TypeOK, Lists!HistoriesFit
  <2> QED
    BY <1>2, <2>1 DEF Lists!PassedIsShown, Lists!Row
<1>8. changes' # 0
  BY <1>1, <1>3
<1>9. Lists!TraversalComplete'
  <2>1. list \in Lists!KeysetLists => \A j \in Ids : shown[j] <= 1 + falls'[j]
    BY <1>2, <1>3 DEF Lists!KeysetComplete
  <2>2. Lists!KeysetComplete'
    BY <1>1, <1>2, <2>1 DEF Lists!KeysetComplete
  <2> QED
    BY <1>8, <2>2 DEF Lists!TraversalComplete, Lists!OffsetComplete
<1> QED
  BY <1>4, <1>5, <1>6, <1>7, <1>8, <1>9 DEF Lists!IInv, Lists!PagesCoverRanks

LEMMA ListsPut ==
    ASSUME Lists!IInv, NEW i \in Ids, NEW t \in Lists!Times(i), Lists!Put(i, t)
    PROVE  Lists!IInv'
<1>1. /\ now \in Nat \ {0} /\ key \in [Ids -> 0..now] /\ placed \in [Ids -> 0..now]
      /\ falls \in [Ids -> Nat] /\ grouped \in BOOLEAN
  BY DEF Lists!IInv, Lists!TypeOK
<1>2. t \in 1..now /\ t \in 0..now /\ t # 0
  BY <1>1 DEF Lists!Times
<1> DEFINE down == placed[i] # 0 /\ Lists!Precedes(Lists!RowAt(i, placed[i]), Lists!RowAt(i, t))
<1>3. /\ key' = [j \in Ids |-> IF j = i THEN t ELSE IF grouped THEN key[j] ELSE 0]
      /\ placed' = [placed EXCEPT ![i] = t]
      /\ falls' = IF down THEN [falls EXCEPT ![i] = @ + 1] ELSE falls
      /\ grouped' = TRUE /\ Lists!Changing(i)
  BY DEF Lists!Put
<1>4. list \in Lists!RisingKeys \cup Lists!FixedKeys => ~down
  <2> SUFFICES ASSUME list \in Lists!RisingKeys \cup Lists!FixedKeys, placed[i] # 0
               PROVE  ~Lists!Precedes(Lists!RowAt(i, placed[i]), Lists!RowAt(i, t))
    OBVIOUS
  <2>1. placed[i] \in Nat /\ t \in Nat /\ i \in Nat /\ t >= placed[i]
    BY <1>1, <1>2, ListBounds DEF Lists!Times
  <2> QED
    BY <2>1 DEF Lists!Precedes, Lists!RowAt
<1> HIDE DEF down
<1>5. /\ key' \in [Ids -> 0..now] /\ placed' \in [Ids -> 0..now] /\ falls' \in [Ids -> Nat]
      /\ key'[i] = t /\ placed'[i] = t
      /\ falls'[i] = IF down THEN falls[i] + 1 ELSE falls[i]
      /\ falls[i] \in Nat
  BY <1>1, <1>2, <1>3
<1>6. \A j \in Ids \ {i} : /\ key'[j] # 0 => key'[j] = key[j]
                           /\ grouped => key'[j] = key[j]
                           /\ placed'[j] = placed[j] /\ falls'[j] = falls[j]
  BY <1>1, <1>3
<1>7. placed[i] # 0 =>
          \/ falls'[i] > falls[i]
          \/ ~Lists!Precedes(Lists!RowAt(i, placed[i]), Lists!RowAt(i, placed'[i]))
  BY <1>5 DEF down
<1> QED
  BY <1>2, <1>3, <1>4, <1>5, <1>6, <1>7, ListsChange

LEMMA ListsDelete ==
    ASSUME Lists!IInv, NEW i \in Ids, Lists!Delete(i)
    PROVE  Lists!IInv'
<1>1. /\ key \in [Ids -> 0..now] /\ key' = [key EXCEPT ![i] = 0] /\ now \in Nat
      /\ Lists!Changing(i) /\ UNCHANGED <<grouped, placed, falls>>
      /\ placed' \in [Ids -> 0..now] /\ falls' \in [Ids -> Nat] /\ grouped' \in BOOLEAN
  BY DEF Lists!IInv, Lists!TypeOK, Lists!Delete
<1>2. /\ key' \in [Ids -> 0..now] /\ key'[i] = 0 /\ \A j \in Ids \ {i} : key'[j] = key[j]
  BY <1>1
<1>3. placed[i] \in Nat /\ falls[i] \in Nat /\ falls'[i] >= falls[i]
  BY <1>1
<1>4. ~Lists!Precedes(Lists!RowAt(i, placed[i]), Lists!RowAt(i, placed'[i]))
  BY <1>1, <1>3, ListBounds DEF Lists!Precedes, Lists!RowAt
<1> QED
  BY <1>1, <1>2, <1>3, <1>4, ListsChange

LEMMA ListsTick ==
    ASSUME Lists!IInv, Lists!Tick
    PROVE  Lists!IInv'
<1>1. /\ now' = now + 1
      /\ UNCHANGED <<list, size, key, grouped, cursor, page, total, shown, done, kept,
                     placed, falls, changes>>
  BY DEF Lists!Tick
<1>2. Lists!TypeOK
  BY DEF Lists!IInv
<1>3. Lists!TypeOK'
  <2>1. /\ now' \in Nat \ {0} /\ key' \in [Ids -> 0..now'] /\ placed' \in [Ids -> 0..now']
        /\ 1..now \subseteq 1..now'
    BY <1>1, <1>2 DEF Lists!TypeOK
  <2>2. (cursor = Lists!Start \/ \E j \in Ids, k \in 1..now : cursor = Lists!RowAt(j, k))'
    BY <1>1, <1>2, <2>1 DEF Lists!TypeOK, Lists!Start, Lists!RowAt
  <2> QED
    BY <1>1, <1>2, <2>1, <2>2 DEF Lists!TypeOK
<1>4. Lists!ShownIsPassed' /\ Lists!PassedIsShown' /\ Lists!HistoriesFit'
  BY <1>1 DEF Lists!IInv, Lists!ShownIsPassed, Lists!PassedIsShown, Lists!HistoriesFit,
     Lists!After, Lists!Row, Lists!RowAt, Lists!Precedes
<1>5. Lists!TraversalComplete' /\ Lists!PagesCoverRanks'
  BY <1>1 DEF Lists!IInv, Lists!TraversalComplete, Lists!KeysetComplete,
     Lists!OffsetComplete, Lists!PagesCoverRanks, Lists!Row, Lists!RowAt,
     Lists!Precedes, Lists!Rank, Lists!Rows, Lists!PageSize, Lists!Clamped
<1> QED
  BY <1>3, <1>4, <1>5 DEF Lists!IInv

LEMMA ListsRebuild ==
    ASSUME Lists!IInv, Lists!Rebuild \/ UNCHANGED Lists!vars
    PROVE  Lists!IInv'
<1>1. /\ grouped' = TRUE \/ grouped' = grouped
      /\ UNCHANGED <<list, size, key, now, cursor, page, total, shown, done, kept,
                     placed, falls, changes>>
  BY DEF Lists!Rebuild, Lists!vars
<1>2. Lists!TypeOK'
  <2>1. (cursor = Lists!Start \/ \E j \in Ids, k \in 1..now : cursor = Lists!RowAt(j, k))'
    BY <1>1 DEF Lists!IInv, Lists!TypeOK, Lists!Start, Lists!RowAt
  <2> QED
    BY <1>1, <2>1 DEF Lists!IInv, Lists!TypeOK
<1>3. Lists!ShownIsPassed' /\ Lists!PassedIsShown' /\ Lists!HistoriesFit'
  BY <1>1 DEF Lists!IInv, Lists!ShownIsPassed, Lists!PassedIsShown, Lists!HistoriesFit,
     Lists!After, Lists!Row, Lists!RowAt, Lists!Precedes
<1>4. Lists!TraversalComplete' /\ Lists!PagesCoverRanks'
  BY <1>1 DEF Lists!IInv, Lists!TraversalComplete, Lists!KeysetComplete,
     Lists!OffsetComplete, Lists!PagesCoverRanks, Lists!Row, Lists!RowAt,
     Lists!Precedes, Lists!Rank, Lists!Rows, Lists!PageSize, Lists!Clamped
<1> QED
  BY <1>2, <1>3, <1>4 DEF Lists!IInv

LEMMA ListsNext ==
    ASSUME Lists!IInv, [Lists!Next]_Lists!vars
    PROVE  Lists!IInv'
<1>1. Lists!TypeOK
  BY DEF Lists!IInv
<1>2. CASE \E i \in Ids : Lists!Insert(i) \/ Lists!Delete(i) \/ Lists!Touch(i)
  BY <1>2, ListsPut, ListsDelete DEF Lists!Insert, Lists!Touch
<1>3. CASE \/ Lists!ListPublishedPosts \/ Lists!ListPostsByTag \/ Lists!ListAuthorPosts
           \/ Lists!ListTags \/ Lists!ListGroupActors
  BY <1>1, <1>3, PageSizes, ListsKeyset
  DEF Lists!ListPublishedPosts, Lists!ListPostsByTag, Lists!ListAuthorPosts, Lists!ListTags,
      Lists!ListGroupActors, Lists!KeysetLists
<1>4. CASE Lists!ListDeliveries
  BY <1>1, <1>4, PageSizes, ListsKeyset DEF Lists!ListDeliveries, Lists!KeysetLists
<1>5. CASE Lists!ListAggregated
  <2>1. list \in Lists!KeysetLists /\ Lists!Reading
    BY <1>5 DEF Lists!ListAggregated, Lists!KeysetLists
  <2>2. CASE grouped \/ cursor = Lists!Start
    BY <1>1, <1>5, <2>1, <2>2, PageSizes, ListsKeyset DEF Lists!ListAggregated
  <2>3. CASE ~(grouped \/ cursor = Lists!Start)
    <3>1. kept = {}
      BY <1>1, <2>3 DEF Lists!TypeOK, Lists!IInv, Lists!HistoriesFit
    <3> QED
      BY <1>1, <1>5, <2>1, <2>3, <3>1, PageSizes, ListsKeyset DEF Lists!ListAggregated
  <2> QED
    BY <2>2, <2>3
<1>6. /\ Cardinality(Lists!Rows) \in Nat /\ page \in Nat
      /\ Lists!Cardinality(Lists!Rows) = Cardinality(Lists!Rows)
  BY <1>1, RowsAreCells, FS_CardinalityType, ListsFinite DEF Lists!TypeOK
<1>7. CASE Lists!ListTopLevelComments \/ Lists!ListReplies
  <2>1. PICK n \in Lists!Refusing(size) : Lists!OffsetPage(n, Lists!PageCount(Lists!Rows, n))
    BY <1>7 DEF Lists!ListTopLevelComments, Lists!ListReplies
  <2>2. list \in Lists!OffsetLists /\ list # "adminPosts" /\ Lists!Reading
    BY <1>7 DEF Lists!ListTopLevelComments, Lists!ListReplies, Lists!OffsetLists
  <2>3. n \in Nat \ {0} /\ n = Lists!PageSize
    BY <1>1, <2>2, PageSizes
  <2>4. page + 1 >= Lists!PageCount(Lists!Rows, n) => (page + 1) * n >= Cardinality(Lists!Rows)
    BY <1>6, <2>3, EnoughPages DEF Lists!PageCount
  <2> QED
    BY <2>1, <2>2, <2>3, <2>4, ListsOffset
<1>8. CASE Lists!ListAdminPosts
  <2> DEFINE n == Lists!Clamped(size)
             pages == IF page * n < Cardinality(Lists!Rows) THEN Lists!PageCount(Lists!Rows, n) ELSE 0
  <2>1. Lists!OffsetPage(n, pages) /\ list \in Lists!OffsetLists /\ Lists!Reading
    BY <1>6, <1>8 DEF Lists!ListAdminPosts, Lists!OffsetLists, Lists!Offset
  <2>2. n \in Nat \ {0} /\ n = Lists!PageSize
    BY <1>1, <1>8, PageSizes DEF Lists!ListAdminPosts
  <2> HIDE DEF n
  <2>3. page * n \in Nat /\ (page + 1) * n = page * n + n /\ (page + 1) * n \in Nat
    BY <1>6, <2>2
  <2>4. page + 1 >= pages => (page + 1) * n >= Cardinality(Lists!Rows)
    <3>1. CASE page * n < Cardinality(Lists!Rows)
      BY <1>6, <2>2, <3>1, EnoughPages DEF Lists!PageCount
    <3>2. CASE ~(page * n < Cardinality(Lists!Rows))
      BY <1>6, <2>2, <2>3, <3>2
    <3> QED
      BY <3>1, <3>2
  <2> HIDE DEF pages
  <2> QED
    BY <2>1, <2>2, <2>4, ListsOffset
<1>9. CASE Lists!Tick \/ Lists!Rebuild \/ UNCHANGED Lists!vars
  BY <1>9, ListsTick, ListsRebuild
<1> QED
  BY <1>2, <1>3, <1>4, <1>5, <1>7, <1>8, <1>9 DEF Lists!Next

\* Whoever reads a list by its cursor to the end has seen every row that stayed where it
\* was exactly once, and any other once more at most for each time that it was moved down
\* while the list was read, which most lists never do; whoever counts rows instead has
\* when the list did not change (the queries that continue after a cursor or an OFFSET).
THEOREM TraversalsAreComplete == Spec => []TraversalComplete
<1> DEFINE Inv == part = "lists" => Lists!IInv
<1>1. Init => Inv
  BY ListsStart, ListsInit
<1>2. Inv /\ [Next]_vars => Inv'
  BY PartStays, ListsStep, ListsNext
<1>3. Inv => TraversalComplete
  BY DEF TraversalComplete, Lists!IInv
<1> QED
  BY <1>1, <1>2, <1>3, PTL DEF Spec
=============================================================================
