------------------------------- MODULE Providers -------------------------------
(***************************************************************************)
(* How one service asks another and what its own client is told: the call, *)
(* the attempts, and what is made of the answer.  An answer is what came   *)
(* back of a request, if anything did: its HTTP status, the code in its    *)
(* envelope and what it says.  Each service reads it in its own way.       *)
(***************************************************************************)
EXTENDS Naturals

CONSTANTS
    Answers,     \* what may come back: [kind, status, code, yes]
    MaxAttempts  \* of the clients of the content service

\* "lost": no connection; "late": the deadline or the caller's end before an answer began;
\* "text": an answer that is no envelope, or that a deadline cut short; "json": an envelope
Clients ==
    { "comment.content", "comment.user", "comment.relations", "comment.file",
      "content.file", "content.user", "notification.user" }

VARIABLES
    client,   \* which call it is
    attempts, \* requests sent
    last,     \* the last answer
    answer    \* the status the client is answered with, 0 while there is none

vars == <<client, attempts, last, answer>>

NoAnswer == [kind |-> "none", status |-> 0, code |-> 0, yes |-> FALSE]

Init == client \in Clients /\ attempts = 0 /\ last = NoAnswer /\ answer = 0

Succeeds(a) == a.kind = "json" /\ a.status \in 200..299 /\ a.code = 200

-----------------------------------------------------------------------------
(* The comment service: one attempt, and no deadline of its own *)

\* Whatever is no envelope is an outage.
ProviderAnswers(a) == a.kind = "json" /\ ~Succeeds(a)

WrongOutage(a) == ~ProviderAnswers(a)
Outage(a) == ~ProviderAnswers(a) \/ a.code = 1004 \/ a.status >= 500

\* mapProviderError: what the provider says counts only when it is known
MapProviderError(a) ==
    CASE Outage(a) -> "unavailable"
      [] ~Outage(a) /\ client = "comment.content" /\ (a.code = 4001 \/ a.status = 404) -> "post_not_found"
      [] ~Outage(a) /\ client \in {"comment.user", "comment.relations"} /\ a.code = 3010 -> "blocked"
      [] ~Outage(a) /\ client \in {"comment.user", "comment.relations"} /\ a.code # 3010
             /\ (a.code \in {3001, 3006} \/ a.status \in {403, 404}) -> "user_unavailable"
      [] ~Outage(a) /\ client = "comment.file" /\ a.status = 400 -> "media_invalid"
      [] OTHER -> "unavailable"

\* What a successful answer may still refuse
Verdict(a) ==
    CASE a.yes                                       -> "fine"
      [] ~a.yes /\ client = "comment.content"        -> "post_not_found"
      [] ~a.yes /\ client = "comment.user"           -> "user_unavailable"
      [] ~a.yes /\ client = "comment.relations"      -> "blocked"
      [] OTHER                                       -> "fine"

\* mapGuardError and errorMapping.  mapGuardError does not know a refused medium.
CommentStatus(error) ==
    CASE error = "fine"                               -> 200
      [] error = "unavailable"                        -> 503
      [] error = "post_not_found"                     -> 404
      [] error \in {"user_unavailable", "blocked"}    -> 403
      [] OTHER                                        -> 500

CallFromComment(a) ==
    /\ client \in {"comment.content", "comment.user", "comment.relations", "comment.file"}
    /\ answer = 0
    /\ attempts' = attempts + 1 /\ last' = a /\ UNCHANGED client
    /\ answer' = CommentStatus(IF Succeeds(a) THEN Verdict(a) ELSE MapProviderError(a))

-----------------------------------------------------------------------------
(* The content service: attempts, each with a deadline *)

\* DoJSON: a status that is no success is the provider's, envelope or not.
ProviderError(a) ==
    \/ a.kind \in {"json", "text"} /\ a.status \notin 200..299
    \/ a.kind = "json" /\ a.code # 200

\* mapFileProviderError: a file that is not there, and nothing else, is a refusal.
MapFileProviderError(a) ==
    IF ProviderError(a) /\ a.status \in {404, 410} THEN "refused" ELSE "unavailable"

\* A deadline is final, and so is the refusal of a user, or of a file that is not there.
Retries(a, most) ==
    /\ attempts' < most /\ a.kind # "late"
    /\ IF client = "content.file" THEN MapFileProviderError(a) # "refused"
       ELSE ~ProviderError(a) \/ a.status >= 500 \/ a.code = 1004

\* What the content service answers then
ContentStatus(error) == IF error = "refused" THEN 400 ELSE 503

\* validateRefs
ValidateRefs(a) ==
    /\ client = "content.file" /\ answer = 0
    /\ attempts' = attempts + 1 /\ last' = a /\ UNCHANGED client
    /\ answer' = CASE Succeeds(a)                                -> IF a.yes THEN 200 ELSE 400
                   [] ~Succeeds(a) /\ Retries(a, MaxAttempts)    -> 0
                   [] OTHER -> ContentStatus(MapFileProviderError(a))

\* A user that is missing from the answer is an outage.
GetOwnerSnapshot(a) ==
    /\ client = "content.user" /\ answer = 0
    /\ attempts' = attempts + 1 /\ last' = a /\ UNCHANGED client
    /\ answer' = CASE Succeeds(a)                                -> IF a.yes THEN 200 ELSE 503
                   [] ~Succeeds(a) /\ Retries(a, MaxAttempts)    -> 0
                   [] OTHER -> ContentStatus("unavailable")

\* Notification: every failure leaves the shard to be tried again.
ListFollowerShard(a) ==
    /\ client = "notification.user" /\ answer = 0
    /\ attempts' = attempts + 1 /\ last' = a /\ UNCHANGED client
    /\ answer' = IF Succeeds(a) THEN 200 ELSE 503

Next == \E a \in Answers :
    CallFromComment(a) \/ ValidateRefs(a) \/ GetOwnerSnapshot(a) \/ ListFollowerShard(a)

Spec == Init /\ [][Next]_vars

-----------------------------------------------------------------------------
\* The provider itself, in an envelope, or in what a successful one says
Refusal(a) ==
    \/ a.kind = "json" /\ a.status \in 400..499 /\ a.code # 1004
    \/ a.kind = "json" /\ a.status \in 200..299 /\ a.code \notin {200, 1004}
    \/ Succeeds(a) /\ ~a.yes

\* What a client is told it did wrong, some provider said; an outage is told as one, even
\* after retries; and no one is asked again after a deadline that came before an answer
\* began, or for a user or a file that was refused.  A 404 or 410 counts as the file service's refusal, whoever answered.
OutagesStayOutages ==
    /\ answer \in 400..499 =>
          \/ Refusal(last)
          \/ client = "content.file" /\ last.status \in {404, 410}
    /\ answer = 200 => Succeeds(last)
    /\ last.kind \in {"lost", "late"} => answer \in {0, 503}
    /\ attempts > 0 /\ answer = 0 =>
          /\ last.kind # "late"
          /\ client = "content.file" => last.status \notin {404, 410}
          /\ client = "content.user" => ~Refusal(last) \/ last.status = 200
=============================================================================
