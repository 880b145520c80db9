---------------------------- MODULE DeliveryRules ----------------------------
(***************************************************************************)
(* How the notification service decides through which channels a follower  *)
(* hears of a new post, and how it normalises the settings that decide:    *)
(* per-channel preferences, subscriptions to authors and do-not-disturb    *)
(* windows.  A day has Day minutes; a setting nobody stored is Unset.      *)
(***************************************************************************)
EXTENDS Integers

CONSTANTS
    Day,    \* minutes, at least one
    Unset   \* no setting

Levels == {"ALL", "DIGEST_ONLY", "MUTED"}
Stored(S) == S \cup {Unset}

\* The first that is set, as COALESCE has it
Coalesce(a, b) == IF a # Unset THEN a ELSE b

Subscription(Flag) == [level : Stored(Levels), inApp : Flag, websocket : Flag,
                       email : Flag, digest : Flag]
NoSubscription == [level |-> Unset, inApp |-> Unset, websocket |-> Unset,
                   email |-> Unset, digest |-> Unset]

\* The flags of a stored subscription follow from its level unless that is ALL.
NormalizeAuthorSubscription(input) ==
    LET level == Coalesce(input.level, "ALL") IN
    IF level = "ALL" THEN [input EXCEPT !.level = level]
    ELSE [level |-> level, inApp |-> FALSE, websocket |-> FALSE,
          email |-> FALSE, digest |-> level = "DIGEST_ONLY"]

\* 22:00 to 07:00 is a window, and equal bounds are refused.
ValidDNDWindow(w) == w.start \in 0..Day - 1 /\ w.end \in 0..Day - 1 /\ w.start # w.end

WrongInWindow(w, now) == now >= w.start /\ now < w.end

InWindow(w, now) ==
    IF w.start < w.end THEN now >= w.start /\ now < w.end
                       ELSE now >= w.start \/ now < w.end

\* An empty list stands for everything.
ListMatches(values, x) == values = {} \/ x \in values

DndApplies(w, category, channel, now) ==
    /\ w.enabled
    /\ ListMatches(w.categories, category) /\ ListMatches(w.channels, channel)
    /\ w.start # w.end
    /\ InWindow(w, now)

\* preference: what the user stored for each channel; it goes before what the
\* subscription to the author says.
InAppEnabled(preference, sub) ==
    sub.level \notin {"MUTED", "DIGEST_ONLY"} /\ Coalesce(preference.inApp, Coalesce(sub.inApp, TRUE))

WebsocketEnabled(preference, sub, dnd, now) ==
    /\ sub.level \notin {"MUTED", "DIGEST_ONLY"}
    /\ Coalesce(preference.websocket, Coalesce(sub.websocket, TRUE))
    /\ ~DndApplies(dnd, "CONTENT", "WEBSOCKET", now)

DigestOnly(preference, sub) ==
    /\ sub.level = "DIGEST_ONLY"
    /\ Coalesce(sub.digest, TRUE) /\ Coalesce(preference.email, FALSE)

Decisions == {"SKIP", "DIGEST", "IN_APP", "IN_APP_AND_WEBSOCKET"}

CampaignDeliveryDecision(preference, sub, dnd, now) ==
    IF DigestOnly(preference, sub) THEN "DIGEST"
    ELSE IF ~InAppEnabled(preference, sub) THEN "SKIP"
    ELSE IF WebsocketEnabled(preference, sub, dnd, now) THEN "IN_APP_AND_WEBSOCKET"
    ELSE "IN_APP"

-----------------------------------------------------------------------------
(* What they promise *)

\* A window covers as many minutes as lie between its bounds, across midnight too.
WindowReference(w, now) == (now - w.start) % Day < (w.end - w.start) % Day

\* Whatever is stored, nobody is interrupted in a window of theirs that covers content
\* over websocket, and a muted author reaches nobody, a digest-only one nobody but
\* in a digest.
SettingsRespected(preference, input, w, now) ==
    LET sub == NormalizeAuthorSubscription(input)
        decision == CampaignDeliveryDecision(preference, sub, w, now)
        covered == ListMatches(w.categories, "CONTENT") /\ ListMatches(w.channels, "WEBSOCKET")
    IN
    /\ ValidDNDWindow(w) /\ w.enabled /\ covered /\ WindowReference(w, now) =>
          decision # "IN_APP_AND_WEBSOCKET"
    /\ sub.level = "MUTED" => decision = "SKIP"
    /\ sub.level = "DIGEST_ONLY" => decision \in {"SKIP", "DIGEST"}
=============================================================================
