------------------------------ MODULE Services ------------------------------
(***************************************************************************)
(* The smaller parts of the services, side by side: a behaviour is about   *)
(* one of them, which its first state chooses, and takes the steps of that *)
(* module only.  They share no state in the code either.                   *)
(***************************************************************************)
EXTENDS Integers, Sequences, FiniteSets

CONSTANTS
    Requests,                 \* of Users, RateLimits and Tags
    Nobody,                   \* of Users and Settings
    People, MaxVersion,       \* Users
    Browsers,                 \* the clients of Accounts and Settings
    Passwords, NoPassword,    \* Accounts
    Pages, MaxTokens,         \* AuthSessions
    Processes, DefaultRules, Configs, LimitTypes, LimitTime, MaxChecks,     \* RateLimits
    Files, MaxImageSize, MaxAudioSize, MaxBatchImageSize, Overhead, MaxFiles, \* Uploads
    Posts, TagSet, Unknown, Malformed, MaxPostTags, MaxPostVersion,         \* Tags
    Ids, Sizes, DefaultSize, MaxPageSize, MaxTime, MaxChanges,              \* Paging
    Workers, MaxRequests,     \* Lifecycle
    NoteTypes, Channels,      \* Settings
    Answers, MaxAttempts,     \* Providers
    Day, Unset,               \* DeliveryRules
    Documents, IntegrationEvents, SettingsAsked  \* what the pure rules are asked

VARIABLES
    part,  \* which of the modules the behaviour is about
    profile, follows, blocks, toldFollows, toldBlocks, toldVersion, created, late,
    account, credential, role, hasProfile, registered, sessions,
    cookie, known, reply, issued, session, live, ended, astray,
    rule, counter, expiry, bucket, since, checks, life, admitted,
    next, stored,
    post, stats, read, stale,
    list, size, key, grouped, cursor, page, total, shown, done, kept,
    placed, falls, changes,
    service, step, opened, closed, ready, worker, cancelled, served, requests, shutdown,
    expired, asked, path,
    table, rows, single, tx,
    attempts,
    input,
    request, client, now, answer, last   \* of several parts

users == <<profile, follows, blocks, toldFollows, toldBlocks, toldVersion, created, late>>
accounts == <<account, credential, role, hasProfile, registered, sessions>>
cookies == <<cookie, known, reply, issued, session, live, ended, astray>>
limits == <<rule, counter, expiry, bucket, since, checks, life, admitted>>
uploads == <<next, stored>>
tags == <<post, stats, read, stale>>
lists == <<list, size, key, grouped, cursor, page, total, shown, done, kept, placed, falls,
           changes>>
process == <<service, step, opened, closed, ready, worker, cancelled, served, requests,
             shutdown, expired, asked, path>>
preferences == <<table, rows, single, tx>>
providers == <<attempts>>
rules == <<input>>
vars == <<part, users, accounts, cookies, limits, uploads, tags, lists, process, preferences,
        providers, rules, request, client, now, answer, last>>

-----------------------------------------------------------------------------
(* The parts *)

UserRelations == INSTANCE Users
AuthAccounts == INSTANCE Accounts WITH Clients <- Browsers
AuthCookies == INSTANCE AuthSessions
ContentLimits == INSTANCE RateLimits WITH MaxTime <- LimitTime
FileUploads == INSTANCE Uploads
ContentTags == INSTANCE Tags WITH MaxVersion <- MaxPostVersion
Lists == INSTANCE Paging WITH MaxSize <- MaxPageSize
Process == INSTANCE Lifecycle
Preferences == INSTANCE Settings WITH Clients <- Browsers, Types <- NoteTypes
Calls == INSTANCE Providers

Events == INSTANCE InteractionEvents
Delivery == INSTANCE DeliveryRules

Inputs ==
    [rule : {"body"}, body : Documents]
    \cup [rule : {"event"}, event : IntegrationEvents]
    \cup [rule : {"settings"}, asked : SettingsAsked]

\* Placeholders are none of what they stand for, bounds are numbers, and sets that are
\* counted are finite; there are channels, and the built-in rules are complete.  No
\* service answers with a redirection, and only answers that came have a status.
ASSUME ServicesAssumption ==
    /\ Nobody \notin People \cup Browsers
    /\ NoPassword \notin Passwords
    /\ MaxVersion \in Nat /\ MaxTokens \in Nat /\ LimitTime \in Nat /\ MaxChecks \in Nat
    /\ MaxRequests \in Nat /\ MaxAttempts \in Nat /\ Day \in Nat \ {0}
    /\ MaxPostTags \in Nat /\ MaxPostVersion \in Nat \ {0} /\ MaxFiles \in Nat
    /\ MaxImageSize \in Nat /\ MaxAudioSize \in Nat /\ MaxBatchImageSize \in Nat
    /\ Overhead \in Nat /\ \A f \in Files : f.size \in Nat
    /\ IsFiniteSet(Processes) /\ Processes # {} /\ IsFiniteSet(Posts)
    /\ Ids \subseteq Nat \ {0} /\ IsFiniteSet(Ids) /\ Sizes \subseteq Nat
    /\ DefaultSize \in Nat \ {0} /\ MaxPageSize \in Nat \ {0}
    /\ Channels # {}
    /\ Unset \notin BOOLEAN /\ Unset \notin Delivery!Levels
    /\ \A t \in DOMAIN DefaultRules :
          DefaultRules[t] \in ContentLimits!Rule /\ ContentLimits!Complete(DefaultRules[t])
    /\ \A config \in Configs : \A t \in DOMAIN config : config[t] \in ContentLimits!Rule
    /\ \A a \in Answers :
          \/ a.kind \in {"lost", "late"} /\ a.status = 0
          \/ a.kind \in {"text", "json"} /\ a.status \in (200..299) \cup (400..599)
    /\ \A e \in IntegrationEvents : e \in Events!EventOf(Nat)
    /\ \A a \in SettingsAsked :
          a.sub \in Delivery!Subscription(Delivery!Stored(BOOLEAN)) /\ a.time \in 0..Day - 1

-----------------------------------------------------------------------------
(* The parts that a behaviour is not about have no state in it. *)

none == "none"
NoUsers ==
    /\ profile = none /\ follows = none /\ blocks = none /\ toldFollows = none
    /\ toldBlocks = none /\ toldVersion = none /\ created = none /\ late = none
NoAccounts ==
    /\ account = none /\ credential = none /\ role = none /\ hasProfile = none
    /\ registered = none /\ sessions = none
NoCookies ==
    /\ cookie = none /\ known = none /\ reply = none /\ issued = none /\ session = none
    /\ live = none /\ ended = none /\ astray = none
NoLimits ==
    /\ rule = none /\ counter = none /\ expiry = none /\ bucket = none /\ since = none
    /\ checks = none /\ life = none /\ admitted = none
NoUploads ==
    /\ next = none /\ stored = none
NoTags ==
    /\ post = none /\ stats = none /\ read = none /\ stale = none
NoLists ==
    /\ list = none /\ size = none /\ key = none /\ grouped = none /\ cursor = none
    /\ page = none /\ total = none /\ shown = none /\ done = none /\ kept = none
    /\ placed = none /\ falls = none /\ changes = none
NoProcess ==
    /\ service = none /\ step = none /\ opened = none /\ closed = none /\ ready = none
    /\ worker = none /\ cancelled = none /\ served = none /\ requests = none
    /\ shutdown = none /\ expired = none /\ asked = none /\ path = none
NoPreferences ==
    /\ table = none /\ rows = none /\ single = none /\ tx = none
NoProviders ==
    /\ attempts = none
NoRules == input = none

Init ==
    \/ /\ part = "users" /\ UserRelations!Init
       /\ NoAccounts /\ NoCookies /\ NoLimits /\ NoUploads /\ NoTags /\ NoLists
       /\ NoProcess /\ NoPreferences /\ NoProviders /\ NoRules /\ client = none
       /\ now = none /\ answer = none /\ last = none
    \/ /\ part = "accounts" /\ AuthAccounts!Init
       /\ NoUsers /\ NoCookies /\ NoLimits /\ NoUploads /\ NoTags /\ NoLists /\ NoProcess
       /\ NoPreferences /\ NoProviders /\ NoRules /\ request = none /\ now = none
       /\ answer = none /\ last = none
    \/ /\ part = "cookies" /\ AuthCookies!Init
       /\ NoUsers /\ NoAccounts /\ NoLimits /\ NoUploads /\ NoTags /\ NoLists /\ NoProcess
       /\ NoPreferences /\ NoProviders /\ NoRules /\ client = none /\ now = none
       /\ answer = none /\ last = none
    \/ /\ part = "limits" /\ ContentLimits!Init
       /\ NoUsers /\ NoAccounts /\ NoCookies /\ NoUploads /\ NoTags /\ NoLists
       /\ NoProcess /\ NoPreferences /\ NoProviders /\ NoRules /\ client = none
       /\ answer = none /\ last = none
    \/ /\ part = "uploads" /\ FileUploads!Init
       /\ NoUsers /\ NoAccounts /\ NoCookies /\ NoLimits /\ NoTags /\ NoLists /\ NoProcess
       /\ NoPreferences /\ NoProviders /\ NoRules /\ client = none /\ now = none
       /\ last = none
    \/ /\ part = "tags" /\ ContentTags!Init
       /\ NoUsers /\ NoAccounts /\ NoCookies /\ NoLimits /\ NoUploads /\ NoLists
       /\ NoProcess /\ NoPreferences /\ NoProviders /\ NoRules /\ client = none
       /\ now = none /\ answer = none /\ last = none
    \/ /\ part = "lists" /\ Lists!Init
       /\ NoUsers /\ NoAccounts /\ NoCookies /\ NoLimits /\ NoUploads /\ NoTags
       /\ NoProcess /\ NoPreferences /\ NoProviders /\ NoRules /\ request = none
       /\ client = none /\ answer = none /\ last = none
    \/ /\ part = "process" /\ Process!Init
       /\ NoUsers /\ NoAccounts /\ NoCookies /\ NoLimits /\ NoUploads /\ NoTags /\ NoLists
       /\ NoPreferences /\ NoProviders /\ NoRules /\ request = none /\ client = none
       /\ now = none /\ answer = none /\ last = none
    \/ /\ part = "preferences" /\ Preferences!Init
       /\ NoUsers /\ NoAccounts /\ NoCookies /\ NoLimits /\ NoUploads /\ NoTags /\ NoLists
       /\ NoProcess /\ NoProviders /\ NoRules /\ request = none /\ client = none
       /\ now = none /\ answer = none
    \/ /\ part = "providers" /\ Calls!Init
       /\ NoUsers /\ NoAccounts /\ NoCookies /\ NoLimits /\ NoUploads /\ NoTags /\ NoLists
       /\ NoProcess /\ NoPreferences /\ NoRules /\ request = none /\ now = none
    \/ /\ part = "rules" /\ input \in Inputs
       /\ NoUsers /\ NoAccounts /\ NoCookies /\ NoLimits /\ NoUploads /\ NoTags /\ NoLists
       /\ NoProcess /\ NoPreferences /\ NoProviders /\ request = none /\ client = none
       /\ now = none /\ answer = none /\ last = none

Next ==
    /\ UNCHANGED part
    /\ \/ /\ part = "users" /\ UserRelations!Next
          /\ UNCHANGED <<accounts, cookies, limits, uploads, tags, lists, process,
                        preferences, providers, rules, client, now, answer, last>>
       \/ /\ part = "accounts" /\ AuthAccounts!Next
          /\ UNCHANGED <<users, cookies, limits, uploads, tags, lists, process,
                        preferences, providers, rules, request, now, answer, last>>
       \/ /\ part = "cookies" /\ AuthCookies!Next
          /\ UNCHANGED <<users, accounts, limits, uploads, tags, lists, process,
                        preferences, providers, rules, client, now, answer, last>>
       \/ /\ part = "limits" /\ ContentLimits!Next
          /\ UNCHANGED <<users, accounts, cookies, uploads, tags, lists, process,
                        preferences, providers, rules, client, answer, last>>
       \/ /\ part = "uploads" /\ FileUploads!Next
          /\ UNCHANGED <<users, accounts, cookies, limits, tags, lists, process,
                        preferences, providers, rules, client, now, last>>
       \/ /\ part = "tags" /\ ContentTags!Next
          /\ UNCHANGED <<users, accounts, cookies, limits, uploads, lists, process,
                        preferences, providers, rules, client, now, answer, last>>
       \/ /\ part = "lists" /\ Lists!Next
          /\ UNCHANGED <<users, accounts, cookies, limits, uploads, tags, process,
                        preferences, providers, rules, request, client, answer, last>>
       \/ /\ part = "process" /\ Process!Next
          /\ UNCHANGED <<users, accounts, cookies, limits, uploads, tags, lists,
                        preferences, providers, rules, request, client, now, answer, last>>
       \/ /\ part = "preferences" /\ Preferences!Next
          /\ UNCHANGED <<users, accounts, cookies, limits, uploads, tags, lists, process,
                        providers, rules, request, client, now, answer>>
       \/ /\ part = "providers" /\ Calls!Next
          /\ UNCHANGED <<users, accounts, cookies, limits, uploads, tags, lists, process,
                        preferences, rules, request, now>>

Spec == Init /\ [][Next]_vars /\ Process!Fairness

-----------------------------------------------------------------------------
(* What each part promises; the modules say what it means *)

\* No follow across a block that it did not overlap; the events tell what the rows say.
RelationsHold ==
    part = "users" =>
        UserRelations!TypeOK /\ UserRelations!BlocksEndFollows /\ UserRelations!EventsMatchRows

\* An account in use has everything its registration promised, sessions of its password.
RegistrationHolds ==
    part = "accounts" =>
        /\ AuthAccounts!TypeOK
        /\ AuthAccounts!RegisteredIsComplete /\ AuthAccounts!SessionsAfterRegistration

\* The browser holds no token that an answer has replaced or revoked, unless answers to
\* it were lost or overtook each other.
CookieHoldsLiveToken ==
    part = "cookies" => AuthCookies!TypeOK /\ AuthCookies!CookieHoldsLiveToken

\* All processes together keep to the limit while a window lasts, in an outage each.
QuotaBounded == part = "limits" => ContentLimits!TypeOK /\ ContentLimits!QuotaBounded

\* Success means that every file was taken, within the limits and as what it claims to be.
UploadsComplete == part = "uploads" => FileUploads!UploadsComplete

\* A tag's count is that of its published posts unless they changed since it was counted.
TagsConsistent == part = "tags" => ContentTags!TypeOK /\ ContentTags!TagsConsistent

\* Reading a list page by page shows every row that stays, once, and one that was moved
\* down again.
TraversalComplete == part = "lists" => Lists!TraversalComplete

\* Nothing is closed under a request or a worker, and everything opened is closed once.
DrainedBeforeClosed ==
    part = "process" => Process!TypeOK /\ Process!DrainedBeforeClosed /\ Process!ClosedOnce

\* A process that was asked to stop ends.
StopsWhenAsked == Process!StopsWhenAsked

\* The preferences of a type are those of one save.
PreferencesOfOneSave ==
    part = "preferences" => Preferences!TypeOK /\ Preferences!PreferencesOfOneSave

\* Outages are told as outages, refusals as refusals, and neither as success.
OutagesStayOutages == part = "providers" => Calls!OutagesStayOutages

\* Nobody is notified of their own act, nobody unknown is notified.
OnlyOthersNotified ==
    part = "rules" /\ input.rule = "event" => Events!OnlyOthersNotified(input.event)

\* Nobody is interrupted against their settings.
SettingsRespected ==
    part = "rules" /\ input.rule = "settings" =>
        LET a == input.asked IN Delivery!SettingsRespected(a.preference, a.sub, a.window, a.time)
=============================================================================
