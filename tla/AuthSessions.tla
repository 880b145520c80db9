----------------------------- MODULE AuthSessions -----------------------------
(***************************************************************************)
(* The HTTP layer of the auth service and a browser with several pages.    *)
(* The service acts first; its answer is then on its way, where it may be  *)
(* overtaken or lost, and changes the cookies when it arrives.  Which      *)
(* session a request may end and what the answer does to the cookies is    *)
(* the handlers'; the session service itself is an interface.  Tokens are  *)
(* numbers in the order they were issued.                                  *)
(***************************************************************************)
EXTENDS Naturals, FiniteSets

CONSTANTS
    Pages,      \* pages of the browser, each with one request at a time
    MaxTokens   \* refresh and CSRF tokens issued (bounds the model)

VARIABLES
    cookie,   \* the refresh and CSRF cookies of the browser, 0 when absent
    known,    \* the CSRF token and the session of the access token that each page got
    request,  \* requests that were sent, with what the browser attached
    reply,    \* answers on their way, with the pages whose answers to the cookie
              \* were given before them and are on their way too
    issued,   \* tokens issued so far
    session,  \* the session of each refresh token, which has the number of its first one
    live,     \* the tokens that the service takes, one for each session
    ended,    \* history: sessions that ended without an answer that says so
    astray    \* history: an answer to the refresh cookie was lost, or came after one
              \* that was given later

vars == <<cookie, known, request, reply, issued, session, live, ended, astray>>

Token == 0..MaxTokens
Kinds == {"None", "Login", "Refresh", "Logout", "Revoke", "CSRF"}
Request == [kind : Kinds, identity : Token, refresh : Token, csrf : BOOLEAN]
Reply == [kind : {"None", "Tokens", "Cleared", "CSRF", "Plain"}, token : Token, after : SUBSET Pages]
NoRequest == [kind |-> "None", identity |-> 0, refresh |-> 0, csrf |-> FALSE]
NoReply == [kind |-> "None", token |-> 0, after |-> {}]

Init ==
    /\ cookie = [refresh |-> 0, csrf |-> 0]
    /\ known = [p \in Pages |-> [csrf |-> 0, session |-> 0]]
    /\ request = [p \in Pages |-> NoRequest] /\ reply = [p \in Pages |-> NoReply]
    /\ issued = 0 /\ session = [t \in 1..MaxTokens |-> 0]
    /\ live = {} /\ ended = {} /\ astray = FALSE

\* A page sends the CSRF token it was given, or reads the cookie, which scripts may.
ValidCSRF(token) == cookie.csrf # 0 /\ token = cookie.csrf

\* Identity headers are put in by the gateway while the access token is valid.
Send(p) ==
    /\ request[p] = NoRequest /\ reply[p] = NoReply
    /\ \E kind \in Kinds \ {"None"}, identity \in {0, known[p].session},
          token \in {known[p].csrf, cookie.csrf} :
          request' = [request EXCEPT ![p] =
              [kind |-> kind, identity |-> identity, refresh |-> cookie.refresh,
               csrf |-> ValidCSRF(token)]]
    /\ UNCHANGED <<cookie, known, reply, issued, session, live, ended, astray>>

\* What reaches the service
Reaches(q) ==
    CASE q.kind \in {"Login", "CSRF"} -> TRUE
      [] q.kind = "Refresh" -> q.refresh # 0 /\ q.csrf
      [] q.kind = "Logout"  -> (q.identity # 0 \/ q.refresh # 0) /\ q.csrf
      [] q.kind = "Revoke"  -> q.identity # 0 /\ q.csrf
      [] OTHER              -> FALSE

-----------------------------------------------------------------------------
(* The handlers: what the service does, and the answer that leaves *)

Touches(r) == reply[r].kind \in {"Tokens", "Cleared"}

Respond(p, kind, token) ==
    /\ request' = [request EXCEPT ![p] = NoRequest]
    /\ reply' = [reply EXCEPT ![p] =
          [kind |-> kind, token |-> token, after |-> {r \in Pages : Touches(r)}]]
    /\ UNCHANGED <<cookie, known, astray>>

\* Refused; a logout with nothing to revoke clears the cookies all the same, those that
\* another page was given since it was sent included.
Refuse(p) ==
    LET q == request[p] IN
    /\ q.kind # "None" /\ ~Reaches(q)
    /\ Respond(p, IF q.kind = "Logout" /\ q.identity = 0 /\ q.refresh = 0
                  THEN "Cleared" ELSE "Plain", 0)
    /\ UNCHANGED <<issued, session, live, ended>>

\* A login begins a session, a refresh replaces the token of one.
Issue(p) ==
    LET q == request[p] IN
    /\ q.kind \in {"Login", "Refresh"} /\ Reaches(q)
    /\ q.kind = "Refresh" => q.refresh \in live
    /\ issued < MaxTokens /\ issued' = issued + 1
    /\ session' = [session EXCEPT ![issued'] =
                      IF q.kind = "Login" THEN issued' ELSE session[q.refresh]]
    /\ live' = IF q.kind = "Login" THEN live \cup {issued'}
               ELSE (live \ {q.refresh}) \cup {issued'}
    /\ Respond(p, "Tokens", issued') /\ UNCHANGED ended

Ends(S) == live' = {t \in live : session[t] \notin S}

\* The sessions that a request came with
Own(q) == ({q.identity} \cup {session[t] : t \in {q.refresh} \ {0}}) \ {0}

WrongClears(q) == q.kind = "Logout"

\* Logging out, and revoking the session the request came from
Clears(q) == q.kind \in {"Logout", "Revoke"}

\* Ended at once, or accepted for later (202): then no session has ended yet and the
\* cookies are cleared all the same.
Revoke(p) ==
    LET q == request[p] IN
    /\ q.kind \in {"Logout", "Revoke"} /\ Reaches(q)
    /\ \E S \in SUBSET (IF q.kind = "Logout" THEN Own(q) ELSE {q.identity}) : Ends(S)
    /\ Respond(p, IF Clears(q) THEN "Cleared" ELSE "Plain", 0)
    /\ UNCHANGED <<issued, session, ended>>

\* Revoking a session by its id, which is another one than that of the page
RevokeOther(p) ==
    LET q == request[p] IN
    /\ q.kind = "Revoke" /\ Reaches(q)
    /\ \E s \in 1..issued \ {q.identity} : Ends({s}) /\ ended' = ended \cup {s}
    /\ Respond(p, "Plain", 0) /\ UNCHANGED <<issued, session>>

\* The service refuses or fails, or holds a refresh up (202): no cookie is touched.
Fail(p) ==
    /\ request[p].kind # "None" /\ Reaches(request[p])
    /\ Respond(p, "Plain", 0) /\ UNCHANGED <<issued, session, live, ended>>

\* GET /csrf gives a new token to the page and to the cookie.
IssueCSRF(p) ==
    /\ request[p].kind = "CSRF"
    /\ issued < MaxTokens /\ issued' = issued + 1
    /\ Respond(p, "CSRF", issued') /\ UNCHANGED <<session, live, ended>>

\* What was accepted for later takes effect, or another device revokes the session.
End ==
    /\ \E s \in 1..issued : Ends({s}) /\ ended' = ended \cup {s}
    /\ UNCHANGED <<cookie, known, request, reply, issued, session, astray>>

-----------------------------------------------------------------------------
(* The browser *)

Forget(p) ==
    /\ reply' = [r \in Pages |->
          IF r = p THEN NoReply ELSE [reply[r] EXCEPT !.after = @ \ {p}]]
    /\ UNCHANGED <<request, issued, session, live, ended>>

Arrive(p) ==
    LET a == reply[p] IN
    /\ a.kind # "None"
    /\ cookie' = CASE a.kind = "Tokens"  -> [refresh |-> a.token, csrf |-> a.token]
                   [] a.kind = "Cleared" -> [refresh |-> 0, csrf |-> 0]
                   [] a.kind = "CSRF"    -> [cookie EXCEPT !.csrf = a.token]
                   [] OTHER              -> cookie
    /\ known' = CASE a.kind = "Tokens" ->
                       [known EXCEPT ![p] = [csrf |-> a.token, session |-> session[a.token]]]
                  [] a.kind = "CSRF"   -> [known EXCEPT ![p].csrf = a.token]
                  [] OTHER             -> known
    /\ astray' = (astray \/ (Touches(p) /\ a.after # {}))
    /\ Forget(p)

\* Lost, or replaced by an error on its way
Lose(p) ==
    /\ reply[p].kind # "None" /\ astray' = (astray \/ Touches(p))
    /\ Forget(p) /\ UNCHANGED <<cookie, known>>

Next ==
    \/ End
    \/ \E p \in Pages :
          \/ Send(p) \/ Refuse(p) \/ Issue(p) \/ Revoke(p) \/ RevokeOther(p) \/ Fail(p)
          \/ IssueCSRF(p) \/ Arrive(p) \/ Lose(p)

Spec == Init /\ [][Next]_vars

-----------------------------------------------------------------------------
TypeOK ==
    /\ cookie \in [refresh : Token, csrf : Token]
    /\ known \in [Pages -> [csrf : Token, session : Token]]
    /\ request \in [Pages -> Request] /\ reply \in [Pages -> Reply]
    /\ issued \in Token /\ session \in [1..MaxTokens -> Token]
    /\ live \subseteq 1..issued /\ ended \subseteq 1..issued /\ astray \in BOOLEAN

\* Whether the browser can go on with a token, or was not told that it cannot
Good(t) == t = 0 \/ t \in live \/ session[t] \in ended

\* However the requests of its pages overlap, are refused, fail or are accepted for
\* later: once their answers are there the browser does not hold a token that one of
\* them replaced or revoked, unless answers were lost or overtook each other.
CookieHoldsLiveToken == ~astray /\ (\A p \in Pages : ~Touches(p)) => Good(cookie.refresh)

\* The same of the answer that was given last, while it is on its way
LastAnswerIsGood ==
    ~astray => \A p \in Pages :
        reply[p].kind = "Tokens" /\ (\A r \in Pages : Touches(r) => p \notin reply[r].after)
            => Good(reply[p].token)

\* A page that waits for the service has no answer on its way; tokens are not 0.
RepliesFit == \A p \in Pages :
    /\ request[p].kind = "None" \/ reply[p] = NoReply
    /\ reply[p].kind = "Tokens" => reply[p].token # 0

\* The invariant that is inductive
IInv == TypeOK /\ RepliesFit /\ CookieHoldsLiveToken /\ LastAnswerIsGood
=============================================================================
