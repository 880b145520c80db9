------------------------------ MODULE Campaigns ------------------------------
(***************************************************************************)
(* Post campaigns of the notification service: the shard that a published  *)
(* post is planned as, and the workers that take it page by page through   *)
(* the author's followers.  Workers of all replicas claim the same shards; *)
(* a claim is a lease that ends at claim_deadline_at, which is also the    *)
(* token that the closing statements compare.  The lease is a number here, *)
(* since a new claim always has a later deadline.                          *)
(***************************************************************************)
EXTENDS Naturals, FiniteSets

CONSTANTS
    Campaigns,   \* published posts
    Followers,   \* ids of users, numbers above 0
    Author,      \* the author, who may be returned as a follower
    Workers,     \* campaign shard workers of all replicas
    WorkerId,    \* the id each of them claims under
    BatchSize,   \* followers of a page
    Faults,      \* the faults the environment may inject
    MaxFaults,   \* how many, changes of the audience or of settings included
                 \* (bounds the model)
    NoId, NoCampaign

FaultKinds ==
    { "crash",    \* a worker dies between two calls
      "slow",     \* a lease ends while its holder is still at work
      "users",    \* the user service fails, or answers degraded
      "store",    \* a transaction fails, perhaps after it was committed
      "changes" } \* users follow, unfollow or change their settings

ASSUME CampaignsAssumption ==
    /\ Followers \subseteq Nat \ {0} /\ IsFiniteSet(Followers)
    /\ BatchSize \in Nat \ {0} /\ MaxFaults \in Nat /\ Faults \subseteq FaultKinds
    /\ NoId \notin {WorkerId[w] : w \in Workers} /\ NoCampaign \notin Campaigns

VARIABLES
    shard,      \* notification_campaign_shard
    worker,     \* workers: what they claimed, fetched and stored
    audience,   \* the active followers, as the user service has them
    decision,   \* what a follower's settings decide
    inbox,      \* notifications, by campaign and recipient
    delivery,   \* the status of a row of notification_delivery, by campaign,
                \* recipient and channel
    stayed,     \* history: followers since the campaign was planned
    holder,     \* history: who claimed the shard last
    faults

vars == <<shard, worker, audience, decision, inbox, delivery, stayed, holder, faults>>

Decisions == {"SKIP", "DIGEST", "IN_APP", "IN_APP_AND_WEBSOCKET"}
Channels == {"IN_APP", "EMAIL", "WEBSOCKET"}
DeliveryStatuses == {"NONE", "SKIPPED", "IN_APP", "DIGEST_PENDING", "WEBSOCKET_PENDING"}

Shard == [status : {"NONE", "PENDING", "PROCESSING", "FAILED", "COMPLETED"},
          cursor : Followers \cup {0}, by : {WorkerId[w] : w \in Workers} \cup {NoId},
          lease : Nat, processed : Nat, success : Nat, skipped : Nat]
NoShard == [status |-> "NONE", cursor |-> 0, by |-> NoId, lease |-> 0,
            processed |-> 0, success |-> 0, skipped |-> 0]

Worker == [step : {"Claim", "Fetch", "Fail", "Materialize", "Complete"},
           campaign : Campaigns \cup {NoCampaign}, lease : Nat,
           cursor : Followers \cup {0}, page : SUBSET Followers, more : BOOLEAN,
           success : Nat]
Free == [step |-> "Claim", campaign |-> NoCampaign, lease |-> 0, cursor |-> 0,
         page |-> {}, more |-> FALSE, success |-> 0]

Fault(kind) == kind \in Faults /\ faults < MaxFaults /\ faults' = faults + 1

Init ==
    /\ shard = [c \in Campaigns |-> NoShard]
    /\ worker = [w \in Workers |-> Free]
    /\ audience \in SUBSET Followers
    /\ decision \in [Followers -> Decisions]
    /\ inbox = {}
    /\ delivery = [c \in Campaigns |-> [f \in Followers |-> [h \in Channels |-> "NONE"]]]
    /\ stayed = [c \in Campaigns |-> {}]
    /\ holder = [c \in Campaigns |-> NoId]
    /\ faults = 0

-----------------------------------------------------------------------------
(* The consumer of content.post.published, the users and their settings *)

\* Deduplicated by consumed_events and by source_event_id
PlanPostPublishedCampaign(c) ==
    /\ shard[c].status = "NONE"
    /\ shard' = [shard EXCEPT ![c].status = "PENDING"]
    /\ stayed' = [stayed EXCEPT ![c] = audience]
    /\ UNCHANGED <<worker, audience, decision, inbox, delivery, holder, faults>>

FollowOrUnfollow(f) ==
    /\ Fault("changes")
    /\ audience' = IF f \in audience THEN audience \ {f} ELSE audience \cup {f}
    /\ stayed' = [c \in Campaigns |-> stayed[c] \ {f}]
    /\ UNCHANGED <<shard, worker, decision, inbox, delivery, holder>>

ChangeSettings(f) ==
    /\ Fault("changes")
    /\ decision' \in {[decision EXCEPT ![f] = d] : d \in Decisions}
    /\ UNCHANGED <<shard, worker, audience, inbox, delivery, stayed, holder>>

-----------------------------------------------------------------------------
(* The workers *)

Holds(w) == worker[w].step # "Claim" /\ shard[worker[w].campaign].lease = worker[w].lease

WrongDue(c) == shard[c].status = "PENDING"
Due(c) == shard[c].status \in {"PENDING", "FAILED"}

\* Due, or a lease that ended: its holder is gone, or slow.
ClaimCampaignShard(w, c) ==
    /\ worker[w].step = "Claim"
    /\ \/ Due(c) /\ UNCHANGED faults
       \/ /\ shard[c].status = "PROCESSING"
          /\ IF \E v \in Workers : worker[v].campaign = c /\ Holds(v)
             THEN Fault("slow") ELSE UNCHANGED faults
    /\ shard' = [shard EXCEPT ![c].status = "PROCESSING", ![c].by = WorkerId[w],
                              ![c].lease = @ + 1]
    /\ worker' = [worker EXCEPT ![w] = [Free EXCEPT
          !.step = "Fetch", !.campaign = c, !.lease = shard[c].lease + 1,
          !.cursor = shard[c].cursor]]
    /\ holder' = [holder EXCEPT ![c] = w]
    /\ UNCHANGED <<audience, decision, inbox, delivery, stayed>>

After(cursor) == {f \in audience : f > cursor}

\* The user service returns the next BatchSize ids and whether there are more.
Page(cursor) ==
    {f \in After(cursor) : Cardinality({g \in After(cursor) : g <= f}) <= BatchSize}

FetchPage(w) ==
    LET cursor == worker[w].cursor IN
    /\ worker[w].step = "Fetch"
    /\ worker' = [worker EXCEPT ![w].step = "Materialize", ![w].page = Page(cursor),
                                ![w].more = After(cursor) # Page(cursor)]
    /\ UNCHANGED <<shard, audience, decision, inbox, delivery, stayed, holder, faults>>

WrongDegraded(w) == [worker EXCEPT ![w].step = "Materialize"]

\* "User degraded means the shard stays retryable instead of being treated as empty."
Degraded(w) == [worker EXCEPT ![w].step = "Fail"]

FetchFails(w) ==
    /\ worker[w].step = "Fetch" /\ Fault("users")
    /\ worker' = Degraded(w)
    /\ UNCHANGED <<shard, audience, decision, inbox, delivery, stayed, holder>>

WrongOwns(w) ==
    /\ shard[worker[w].campaign].status = "PROCESSING"
    /\ shard[worker[w].campaign].by = WorkerId[w]

\* WHERE of complete_campaign_shard.sql and fail_campaign_shard.sql
Owns(w) ==
    /\ shard[worker[w].campaign].status = "PROCESSING"
    /\ shard[worker[w].campaign].by = WorkerId[w]
    /\ shard[worker[w].campaign].lease = worker[w].lease

\* Its error, a lost lease included, is dropped.  claimed_by stays.
FailCampaignShard(w) ==
    /\ worker[w].step = "Fail"
    /\ \/ /\ Owns(w)
          /\ shard' = [shard EXCEPT ![worker[w].campaign].status = "FAILED"]
          /\ UNCHANGED faults
       \/ ~Owns(w) /\ UNCHANGED <<shard, faults>>
       \/ Fault("store") /\ UNCHANGED shard
    /\ worker' = [worker EXCEPT ![w] = Free]
    /\ UNCHANGED <<audience, decision, inbox, delivery, stayed, holder>>

\* ON CONFLICT (dedupe_key) DO NOTHING
Recorded(old, status) == IF old = "NONE" THEN status ELSE old

Notified(d) == d \in {"IN_APP", "IN_APP_AND_WEBSOCKET"}

\* Recipients whose notification is inserted and not met
Fresh(c, page) ==
    {f \in page \ {Author} : Notified(decision[f]) /\ <<c, f>> \notin inbox}

\* The rows that one follower of the page adds to the ledger
DeliveryOf(c, f, fresh) ==
    LET d == decision[f]
        row == delivery[c][f]
    IN
    CASE d = "SKIP"   -> [row EXCEPT !["IN_APP"] = Recorded(@, "SKIPPED")]
      [] d = "DIGEST" -> [row EXCEPT !["EMAIL"] = Recorded(@, "DIGEST_PENDING")]
      [] d = "IN_APP" /\ f \in fresh -> [row EXCEPT !["IN_APP"] = Recorded(@, "IN_APP")]
      [] d = "IN_APP_AND_WEBSOCKET" /\ f \in fresh ->
             [row EXCEPT !["IN_APP"] = Recorded(@, "IN_APP"),
                         !["WEBSOCKET"] = Recorded(@, "WEBSOCKET_PENDING")]
      [] OTHER -> row

Stores(c, page) ==
    LET fresh == Fresh(c, page) IN
    /\ inbox' = inbox \cup {<<c, f>> : f \in fresh}
    /\ delivery' = [delivery EXCEPT ![c] = [f \in Followers |->
          IF f \in page \ {Author} THEN DeliveryOf(c, f, fresh) ELSE delivery[c][f]]]

\* One transaction for the page, whoever holds the lease by now.  After an error
\* the shard stays PROCESSING until the lease ends.
MaterializeCampaignFollowers(w) ==
    LET c == worker[w].campaign
        page == worker[w].page
    IN
    /\ worker[w].step = "Materialize"
    /\ \/ /\ Stores(c, page)
          /\ \/ /\ worker' = [worker EXCEPT ![w].step = "Complete",
                                            ![w].success = Cardinality(Fresh(c, page))]
                /\ UNCHANGED faults
             \/ Fault("store") /\ worker' = [worker EXCEPT ![w] = Free]
       \/ Fault("store") /\ worker' = [worker EXCEPT ![w] = Free] /\ UNCHANGED <<inbox, delivery>>
    /\ UNCHANGED <<shard, audience, decision, stayed, holder>>

Largest(page) == CHOOSE f \in page : \A g \in page : g <= f

WrongCompleted(s, x) ==
    [s EXCEPT !.status = IF x.more THEN "PENDING" ELSE "COMPLETED",
              !.cursor = IF x.more THEN Largest(x.page) ELSE @,
              !.success = @ + Cardinality(x.page)]

\* The counters grow by what this page did; the cursor moves if there are more.
Completed(s, x) ==
    [s EXCEPT !.status = IF x.more THEN "PENDING" ELSE "COMPLETED",
              !.cursor = IF x.more THEN Largest(x.page) ELSE @,
              !.by = NoId,
              !.processed = @ + Cardinality(x.page),
              !.success = @ + x.success,
              !.skipped = @ + Cardinality(x.page) - x.success]

CompleteCampaignShard(w) ==
    LET c == worker[w].campaign IN
    /\ worker[w].step = "Complete"
    /\ \/ /\ Owns(w)
          /\ shard' = [shard EXCEPT ![c] = Completed(@, worker[w])]
          /\ UNCHANGED faults
       \/ ~Owns(w) /\ UNCHANGED <<shard, faults>>
       \/ Fault("store") /\ UNCHANGED shard
    /\ worker' = [worker EXCEPT ![w] = Free]
    /\ UNCHANGED <<audience, decision, inbox, delivery, stayed, holder>>

\* The worker's process dies and another takes its place.
Crash(w) ==
    /\ worker[w].step # "Claim" /\ Fault("crash")
    /\ worker' = [worker EXCEPT ![w] = Free]
    /\ UNCHANGED <<shard, audience, decision, inbox, delivery, stayed, holder>>

ExecuteOnce(w) ==
    \/ \E c \in Campaigns : ClaimCampaignShard(w, c)
    \/ FetchPage(w) \/ FetchFails(w) \/ FailCampaignShard(w)
    \/ MaterializeCampaignFollowers(w) \/ CompleteCampaignShard(w) \/ Crash(w)

-----------------------------------------------------------------------------
Next ==
    \/ \E c \in Campaigns : PlanPostPublishedCampaign(c)
    \/ \E f \in Followers : FollowOrUnfollow(f) \/ ChangeSettings(f)
    \/ \E w \in Workers : ExecuteOnce(w)

Spec == Init /\ [][Next]_vars

\* LoopWorker calls ExecuteOnce for ever, whatever it returns.
Fairness == \A w \in Workers : WF_vars(ExecuteOnce(w))

FairSpec == Spec /\ Fairness

-----------------------------------------------------------------------------
(* What holds of every reachable state *)

TypeOK ==
    /\ shard \in [Campaigns -> Shard] /\ worker \in [Workers -> Worker]
    /\ audience \subseteq Followers /\ decision \in [Followers -> Decisions]
    /\ inbox \subseteq Campaigns \X Followers
    /\ delivery \in [Campaigns -> [Followers -> [Channels -> DeliveryStatuses]]]
    /\ stayed \in [Campaigns -> SUBSET Followers]
    /\ holder \in [Campaigns -> Workers \cup {NoId}] /\ faults \in 0..MaxFaults

\* The campaign has reached the follower: a notification, or a record why not.
Told(c, f) ==
    \/ f = Author \/ <<c, f>> \in inbox
    \/ \E h \in Channels : delivery[c][f][h] # "NONE"

\* The pages that the shard has put behind it
Passed(c) == IF shard[c].status = "COMPLETED" THEN Followers
             ELSE {f \in Followers : f <= shard[c].cursor}

\* A page lies beyond the cursor it was asked from and is not empty if there are more;
\* what was stored has reached its followers.  A worker whose lease is the newest one
\* is the last claimer and works on the page after the shard's cursor, and that page
\* leaves nobody out who followed all along.
Current(w) ==
    LET x == worker[w]
        c == x.campaign
    IN
    /\ c \in Campaigns /\ x.lease <= shard[c].lease
    /\ \A g \in x.page : g > x.cursor
    /\ x.more => x.page # {}
    /\ x.step = "Complete" =>
          x.success <= Cardinality(x.page) /\ \A f \in x.page : Told(c, f)
    /\ Holds(w) =>
          /\ shard[c].status = "PROCESSING" /\ x.cursor = shard[c].cursor /\ holder[c] = w
          /\ x.step \in {"Materialize", "Complete"} =>
                \A f \in stayed[c] \ x.page :
                    f <= x.cursor \/ (x.more /\ \A g \in x.page : g < f)

WorkersCurrent == \A w \in Workers : worker[w].step # "Claim" => Current(w)

\* Whoever followed the author all along is not passed over, whichever workers took
\* the pages, lost their leases or failed.
NobodyPassedOver == \A c \in Campaigns : \A f \in stayed[c] \cap Passed(c) : Told(c, f)

InboxOf(c) == {f \in Followers : <<c, f>> \in inbox}

\* A page that two workers store is counted as delivered by one of them at most.
SuccessNotOverstated == \A c \in Campaigns : shard[c].success <= Cardinality(InboxOf(c))

-----------------------------------------------------------------------------
(* The inductive invariant *)

\* Whoever stayed is a follower now, and a campaign that is not planned is blank.
CampaignsWellFormed == \A c \in Campaigns :
    /\ stayed[c] \subseteq audience
    /\ shard[c].status = "NONE" => shard[c] = NoShard

IInv == TypeOK /\ WorkersCurrent /\ NobodyPassedOver /\ CampaignsWellFormed

\* What the holder of the lease stored and has not reported yet is in the inbox beside
\* what the shard counts already.
PageCountedOnce == \A w \in Workers :
    LET c == worker[w].campaign IN
    worker[w].step = "Complete" /\ Holds(w)
    => shard[c].success + worker[w].success <= Cardinality(InboxOf(c))

CountInv == IInv /\ SuccessNotOverstated /\ PageCountedOnce

-----------------------------------------------------------------------------
(* What no step may do, and what must eventually happen *)

\* A shard is closed only by the worker that claimed it last, though the workers of
\* all replicas have the same ids.
OnlyHolderCloses ==
    [][\A c \in Campaigns :
         shard[c].status = "PROCESSING" /\ shard'[c].status # "PROCESSING"
         => \E w \in Workers : holder[c] = w /\ worker[w].campaign = c /\ worker'[w] # worker[w]]_vars

\* A late worker never sends the shard back to a page it has passed.
CursorNeverFalls == [][\A c \in Campaigns : shard'[c].cursor >= shard[c].cursor]_vars

\* Every campaign is completed, whatever failed on the way.
CampaignsComplete == \A c \in Campaigns :
    shard[c].status = "PENDING" ~> shard[c].status = "COMPLETED"
=============================================================================
