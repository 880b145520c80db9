------------------------------ MODULE Engagement ------------------------------
(***************************************************************************)
(* Likes and favorites of the content service: the transaction that writes *)
(* the relation, its event and a delta task, the workers that add deltas   *)
(* to post_stats later, and the cache of what a viewer has done.  One      *)
(* published post: its statistics row and the tasks of other posts share   *)
(* nothing but the queue.                                                  *)
(***************************************************************************)
EXTENDS Integers, Sequences, FiniteSets

CONSTANTS
    Users,          \* who like and favorite
    Requests,       \* concurrent requests
    Workers,        \* engagement statistics workers of all replicas, which claim
                    \* under one id, "content-engagement-stats"
    BatchSize,      \* tasks of one claim
    DeadThreshold,  \* attempts after which a task is DEAD
    MaxTasks,       \* changes of the relations (bounds the model)
    Faults, MaxFaults,  \* what the environment may do, and how often (bounds the model)
    NoUser

FaultKinds ==
    { "crash",  \* a worker's process is restarted
      "slow",   \* a claim goes stale while its holder is still at work
      "store" } \* a statement fails; a commit may have taken effect

ASSUME EngagementAssumption ==
    /\ IsFiniteSet(Users) /\ NoUser \notin Users
    /\ BatchSize \in Nat \ {0} /\ DeadThreshold \in Nat \ {0}
    /\ MaxTasks \in Nat /\ MaxFaults \in Nat /\ Faults \subseteq FaultKinds

VARIABLES
    relation,  \* post_likes and post_favorites: who is in them, by metric
    task,      \* domain_event_tasks in the order of their ids
    stats,     \* post_stats.like_count and favorite_count
    lost,      \* history: what GREATEST(0, ..) has added, by metric
    cache,     \* Redis: the viewer status of a user, {} when it is absent
    req,       \* requests between their commit or read and their cache write
    worker,    \* workers: the batch they claimed, and the task that failed
    faults

data == <<relation, task, stats, lost>>
vars == <<data, cache, req, worker, faults>>

Metrics == {"LIKE", "FAVORITE"}
Statuses == {"PENDING", "PROCESSING", "FAILED", "DONE", "DEAD"}
Task == [metric : Metrics, delta : {1, -1}, status : Statuses,
         attempts : Nat, claimed : BOOLEAN]
Tasks == 1..Len(task)

\* What a user does to a post: the metrics the relations hold for the user.
Viewer(u) == {m \in Metrics : u \in relation[m]}
CacheEntry == {{}} \cup {{s} : s \in SUBSET Metrics}
Request == [user : Users \cup {NoUser}, seen : SUBSET Metrics]
NoRequest == [user |-> NoUser, seen |-> {}]
NoTask == 0
Worker == [batch : SUBSET Nat, failed : Nat, runs : BOOLEAN]
Free == [batch |-> {}, failed |-> NoTask, runs |-> TRUE]

Fault(kind) == kind \in Faults /\ faults < MaxFaults /\ faults' = faults + 1

Init ==
    /\ relation = [m \in Metrics |-> {}] /\ task = << >>
    /\ stats = [m \in Metrics |-> 0] /\ lost = [m \in Metrics |-> 0]
    /\ cache = [u \in Users |-> {}]
    /\ req = [r \in Requests |-> NoRequest]
    /\ worker = [w \in Workers |-> Free] /\ faults = 0

-----------------------------------------------------------------------------
(* Requests *)

\* INSERT .. ON CONFLICT DO NOTHING and DELETE: whether they found a row to change
Changed(m, u, delta) == (delta = 1) # (u \in relation[m])

NewTask(m, delta) == [metric |-> m, delta |-> delta, status |-> "PENDING",
                      attempts |-> 0, claimed |-> FALSE]

\* LikePost, UnlikePost, FavoritePost and UnfavoritePost; the event is Outbox's.
MutateEngagement(r, u, m, delta) ==
    LET after == IF delta = 1 THEN relation[m] \cup {u} ELSE relation[m] \ {u} IN
    /\ req[r] = NoRequest /\ Len(task) < MaxTasks
    /\ relation' = [relation EXCEPT ![m] = after]
    /\ task' = IF Changed(m, u, delta) THEN Append(task, NewTask(m, delta)) ELSE task
    /\ req' = [req EXCEPT ![r] =
          [user |-> u, seen |-> IF delta = 1 THEN Viewer(u) \cup {m} ELSE Viewer(u) \ {m}]]
    /\ UNCHANGED <<stats, lost, cache, worker, faults>>

WrongReadViewerStatus(r, u) ==
    \E s \in cache[u] \cup (IF cache[u] = {} THEN {Viewer(u)} ELSE {}) :
        req' = [req EXCEPT ![r] = [user |-> u, seen |-> s]]

\* A hit ends the request; after a miss what the database says is stored.
ReadViewerStatus(r, u) ==
    /\ cache[u] = {}
    /\ req' = [req EXCEPT ![r] = [user |-> u, seen |-> Viewer(u)]]

GetPostEngagement(r, u) ==
    /\ req[r] = NoRequest
    /\ ReadViewerStatus(r, u)
    /\ UNCHANGED <<data, cache, worker, faults>>

\* StoreMutation and StoreViewerStatus: an error is ignored.
StoreViewerStatus(r) ==
    /\ req[r] # NoRequest
    /\ \/ cache' = [cache EXCEPT ![req[r].user] = {req[r].seen}] /\ UNCHANGED faults
       \/ Fault("store") /\ UNCHANGED cache
    /\ req' = [req EXCEPT ![r] = NoRequest]
    /\ UNCHANGED <<data, worker>>

\* The TTL of an entry
Expire(u) ==
    /\ cache[u] # {}
    /\ cache' = [cache EXCEPT ![u] = {}]
    /\ UNCHANGED <<data, req, worker, faults>>

-----------------------------------------------------------------------------
(* Workers *)

Held == UNION {worker[w].batch \cup {worker[w].failed} : w \in Workers}

Open(t) == task[t].status \in {"PENDING", "FAILED"}

WrongClaimable == {t \in Tasks : Open(t)}

\* Due, or claimed so long ago that the claim is stale
Claimable == {t \in Tasks : Open(t) \/ task[t].status = "PROCESSING"}

FirstOf(S) == {t \in S : Cardinality({s \in S : s <= t}) <= BatchSize}

ClaimedBatch(batch) ==
    [t \in Tasks |-> IF t \in batch
                     THEN [task[t] EXCEPT !.status = "PROCESSING", !.claimed = TRUE,
                                          !.attempts = @ + 1]
                     ELSE task[t]]

\* Claims of a worker that is gone go stale in time; one that is still held, only if
\* its holder is slow.  The runner asks again when it is through with its batch.
Claim(w) ==
    /\ worker[w] = Free
    /\ \/ /\ Claimable \ Held # {} /\ UNCHANGED faults
          /\ LET batch == FirstOf(Claimable \ Held) IN
             /\ task' = ClaimedBatch(batch)
             /\ worker' = [worker EXCEPT ![w].batch = batch]
       \/ /\ Fault("slow") /\ Claimable \cap Held # {}
          /\ LET batch == FirstOf(Claimable) IN
             /\ task' = ClaimedBatch(batch)
             /\ worker' = [worker EXCEPT ![w].batch = batch]
    /\ UNCHANGED <<relation, stats, lost, cache, req>>

WrongOwned(t) == task[t].claimed

\* Claimed by this worker's id, which all of them share, and still PROCESSING
Owned(t) == task[t].status = "PROCESSING" /\ task[t].claimed

AtLeastZero(n) == IF n < 0 THEN 0 ELSE n

Applied(t) ==
    LET m == task[t].metric
        n == stats[m] + task[t].delta
    IN
    /\ stats' = [stats EXCEPT ![m] = AtLeastZero(n)]
    /\ lost' = [lost EXCEPT ![m] = @ + AtLeastZero(n) - n]
    /\ task' = [task EXCEPT ![t].status = "DONE"]

\* A batch is handled in the order of the ids.  ErrTaskClaimLost ends the handler
\* without an error.  Any other failure goes on to MarkFailed, whether the transaction
\* took effect or not.
ApplyClaimed(w) == \E t \in worker[w].batch :
    /\ worker[w].failed = NoTask /\ \A s \in worker[w].batch : t <= s
    /\ \/ /\ IF Owned(t) THEN Applied(t) ELSE UNCHANGED <<task, stats, lost>>
          /\ \/ worker' = [worker EXCEPT ![w].batch = @ \ {t}] /\ UNCHANGED faults
             \/ Fault("store") /\ worker' = [worker EXCEPT ![w].batch = @ \ {t}, ![w].failed = t]
       \/ /\ Fault("store") /\ UNCHANGED <<task, stats, lost>>
          /\ worker' = [worker EXCEPT ![w].batch = @ \ {t}, ![w].failed = t]
    /\ UNCHANGED <<relation, cache, req>>

FailedStatus(t) == IF task[t].attempts >= DeadThreshold THEN "DEAD" ELSE "FAILED"

Stopped == [Free EXCEPT !.runs = FALSE]

\* A lost claim or an error of the mark ends the worker.
MarkFailed(w) ==
    LET t == worker[w].failed IN
    /\ t # NoTask
    /\ \/ /\ Owned(t) /\ UNCHANGED faults
          /\ task' = [task EXCEPT ![t].status = FailedStatus(t), ![t].claimed = FALSE]
          /\ worker' = [worker EXCEPT ![w].failed = NoTask]
       \/ ~Owned(t) /\ worker' = [worker EXCEPT ![w] = Stopped] /\ UNCHANGED <<task, faults>>
       \/ Fault("store") /\ worker' = [worker EXCEPT ![w] = Stopped] /\ UNCHANGED task
    /\ UNCHANGED <<relation, stats, lost, cache, req>>

Crash(w) ==
    /\ worker[w].runs /\ worker[w] # Free /\ Fault("crash")
    /\ worker' = [worker EXCEPT ![w] = Stopped]
    /\ UNCHANGED <<data, cache, req>>

\* The process, and its worker with it, is started again.
Start(w) ==
    /\ ~worker[w].runs
    /\ worker' = [worker EXCEPT ![w] = Free]
    /\ UNCHANGED <<data, cache, req, faults>>

RunUntilIdle(w) == Claim(w) \/ ApplyClaimed(w) \/ MarkFailed(w) \/ Start(w)

-----------------------------------------------------------------------------
Next ==
    \/ \E r \in Requests, u \in Users :
          \/ \E m \in Metrics, delta \in {1, -1} : MutateEngagement(r, u, m, delta)
          \/ GetPostEngagement(r, u)
    \/ \E r \in Requests : StoreViewerStatus(r)
    \/ \E u \in Users : Expire(u)
    \/ \E w \in Workers : RunUntilIdle(w) \/ Crash(w)

Spec == Init /\ [][Next]_vars

\* Requests end, entries expire, workers poll and are started again.
Fairness ==
    /\ \A r \in Requests : WF_vars(StoreViewerStatus(r))
    /\ \A u \in Users : WF_vars(Expire(u))
    /\ \A w \in Workers : WF_vars(RunUntilIdle(w))

FairSpec == Spec /\ Fairness

-----------------------------------------------------------------------------
(* What holds of every reachable state *)

TypeOK ==
    /\ relation \in [Metrics -> SUBSET Users] /\ task \in Seq(Task)
    /\ stats \in [Metrics -> Nat] /\ lost \in [Metrics -> Nat]
    /\ cache \in [Users -> CacheEntry] /\ req \in [Requests -> Request]
    /\ worker \in [Workers -> Worker] /\ faults \in 0..MaxFaults
    /\ \A w \in Workers : worker[w].batch \subseteq Tasks /\ worker[w].failed \in Tasks \cup {NoTask}

SumOf(m, S) == Cardinality({t \in S : task[t].metric = m /\ task[t].delta = 1})
               - Cardinality({t \in S : task[t].metric = m /\ task[t].delta = -1})

\* The tasks account for every row of the relations.
TasksAccount == \A m \in Metrics : SumOf(m, Tasks) = Cardinality(relation[m])

DoneTasks == {t \in Tasks : task[t].status = "DONE"}

\* Whoever applies a task, whatever fails in between and however often it is claimed,
\* its delta is in the count exactly when it is DONE; the only other part of
\* the count is what GREATEST(0, ..) made up.
EachDeltaOnce == \A m \in Metrics : stats[m] = SumOf(m, DoneTasks) + lost[m]

\* Once every task is DONE the counts are no lower than the relations.
NeverUnderstated == DoneTasks = Tasks =>
    \A m \in Metrics : stats[m] >= Cardinality(relation[m])

\* The inductive invariant
IInv == TypeOK /\ TasksAccount /\ EachDeltaOnce

-----------------------------------------------------------------------------
(* What must eventually happen *)

\* "post_stats.like_count / favorite_count" are "projected to eventual consistency":
\* once every task has been applied they are the sizes of the relations.
CountsAgree == DoneTasks = Tasks =>
    \A m \in Metrics : stats[m] = Cardinality(relation[m])

\* Every task ends DONE or DEAD.
TasksSettle == \A t \in 1..MaxTasks :
    t \in Tasks ~> t \in Tasks /\ task[t].status \in {"DONE", "DEAD"}

\* Cache writes race and an old one may win, but in the end nobody is shown what
\* the relations no longer say.
CacheCatchesUp == \A u \in Users : <>[](cache[u] \subseteq {Viewer(u)})
=============================================================================
