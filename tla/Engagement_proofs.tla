-------------------------- MODULE Engagement_proofs --------------------------
(***************************************************************************)
(* Engagement for any users, requests, workers, batch size and faults: a   *)
(* count contains the delta of a task exactly when the task is DONE, and   *)
(* the tasks account for every row of the relations.                       *)
(***************************************************************************)
EXTENDS Engagement, FiniteSetTheorems, SequenceTheorems, TLAPS

-----------------------------------------------------------------------------
(* Sums of deltas *)

\* The deltas that the tasks S of the queue s hold for a metric
Sum(s, m, S) == Cardinality({t \in S : s[t].metric = m /\ s[t].delta = 1})
                - Cardinality({t \in S : s[t].metric = m /\ s[t].delta = -1})

LEMMA SumSame ==
    ASSUME NEW s, NEW r, NEW m, NEW S,
           \A t \in S : s[t].metric = r[t].metric /\ s[t].delta = r[t].delta
    PROVE  Sum(s, m, S) = Sum(r, m, S)
<1>1. /\ {t \in S : s[t].metric = m /\ s[t].delta = 1}
           = {t \in S : r[t].metric = m /\ r[t].delta = 1}
      /\ {t \in S : s[t].metric = m /\ s[t].delta = -1}
           = {t \in S : r[t].metric = m /\ r[t].delta = -1}
  OBVIOUS
<1> QED BY <1>1 DEF Sum

LEMMA SumAdd ==
    ASSUME NEW s, NEW m, NEW S, IsFiniteSet(S), NEW t, t \notin S, s[t].delta \in {1, -1}
    PROVE  /\ Sum(s, m, S) \in Int
           /\ Sum(s, m, S \cup {t}) = IF s[t].metric = m THEN Sum(s, m, S) + s[t].delta
                                      ELSE Sum(s, m, S)
<1> DEFINE P == {u \in S : s[u].metric = m /\ s[u].delta = 1}
           N == {u \in S : s[u].metric = m /\ s[u].delta = -1}
           P2 == {u \in S \cup {t} : s[u].metric = m /\ s[u].delta = 1}
           N2 == {u \in S \cup {t} : s[u].metric = m /\ s[u].delta = -1}
<1>1. IsFiniteSet(P) /\ IsFiniteSet(N) /\ Cardinality(P) \in Nat /\ Cardinality(N) \in Nat
  BY FS_Subset, FS_CardinalityType
<1>2. P2 = IF s[t].metric = m /\ s[t].delta = 1 THEN P \cup {t} ELSE P
  OBVIOUS
<1>3. N2 = IF s[t].metric = m /\ s[t].delta = -1 THEN N \cup {t} ELSE N
  OBVIOUS
<1>4. t \notin P /\ t \notin N
  OBVIOUS
<1>5. Sum(s, m, S) = Cardinality(P) - Cardinality(N)
      /\ Sum(s, m, S \cup {t}) = Cardinality(P2) - Cardinality(N2)
  BY DEF Sum
<1> HIDE DEF P, N, P2, N2
<1>6. Cardinality(P \cup {t}) = Cardinality(P) + 1 /\ Cardinality(N \cup {t}) = Cardinality(N) + 1
  BY <1>1, <1>4, FS_AddElement
<1> QED BY <1>1, <1>2, <1>3, <1>5, <1>6

LEMMA TasksFinite ==
    ASSUME task \in Seq(Task), NEW S \in SUBSET Tasks
    PROVE  IsFiniteSet(S) /\ IsFiniteSet(Tasks) /\ Tasks \subseteq Nat \ {0}
<1>1. Len(task) \in Nat
  BY LenProperties
<1>2. IsFiniteSet(Tasks)
  BY <1>1, FS_Interval DEF Tasks
<1>3. IsFiniteSet(S)
  BY <1>2, FS_Subset
<1>4. Tasks \subseteq Nat \ {0}
  BY <1>1 DEF Tasks
<1> QED BY <1>2, <1>3, <1>4

LEMMA SumTyped ==
    ASSUME task \in Seq(Task), NEW m, NEW S \in SUBSET Tasks
    PROVE  Sum(task, m, S) \in Int
<1>1. IsFiniteSet(S)
  BY TasksFinite
<1>2. /\ IsFiniteSet({t \in S : task[t].metric = m /\ task[t].delta = 1})
      /\ IsFiniteSet({t \in S : task[t].metric = m /\ task[t].delta = -1})
  BY <1>1, FS_Subset
<1> QED BY <1>2, FS_CardinalityType DEF Sum

\* The invariant in terms of Sum
LEMMA Sums ==
    /\ TasksAccount <=> \A m \in Metrics : Sum(task, m, Tasks) = Cardinality(relation[m])
    /\ EachDeltaOnce <=> \A m \in Metrics : stats[m] = Sum(task, m, DoneTasks) + lost[m]
BY DEF TasksAccount, EachDeltaOnce, SumOf, Sum

-----------------------------------------------------------------------------
(* Steps that keep the deltas *)

\* A row of the queue keeps its metric and its delta, and no task leaves or joins DONE.
LEMMA QuietStep ==
    ASSUME IInv, TypeOK', UNCHANGED <<relation, stats, lost>>, Len(task') = Len(task),
           \A t \in Tasks : /\ task'[t].metric = task[t].metric /\ task'[t].delta = task[t].delta
                            /\ task'[t].status = "DONE" <=> task[t].status = "DONE"
    PROVE  IInv'
<1>1. Tasks' = Tasks /\ DoneTasks' = DoneTasks /\ DoneTasks \subseteq Tasks
  BY DEF Tasks, DoneTasks
<1>2. ASSUME NEW m \in Metrics PROVE Sum(task', m, Tasks) = Sum(task, m, Tasks)
  BY SumSame
<1>3. ASSUME NEW m \in Metrics PROVE Sum(task', m, DoneTasks) = Sum(task, m, DoneTasks)
  BY <1>1, SumSame
<1>4. TasksAccount'
  BY <1>1, <1>2 DEF IInv, TasksAccount, SumOf, Sum
<1>5. EachDeltaOnce'
  BY <1>1, <1>3 DEF IInv, EachDeltaOnce, SumOf, Sum
<1> QED BY <1>4, <1>5 DEF IInv

\* A step that touches neither the queue nor the counts.
LEMMA DataKept ==
    ASSUME IInv, UNCHANGED data, TypeOK'
    PROVE  IInv'
BY QuietStep DEF data

LEMMA FaultsStay ==
    ASSUME TypeOK, NEW kind, Fault(kind) \/ UNCHANGED faults
    PROVE  faults' \in 0..MaxFaults
BY EngagementAssumption DEF TypeOK, Fault

LEMMA FreeWorker ==
    /\ Free \in Worker /\ Free.batch = {} /\ Free.failed = NoTask
    /\ Stopped \in Worker /\ Stopped.batch = {} /\ Stopped.failed = NoTask
<1>1. Free = [batch |-> {}, failed |-> NoTask, runs |-> TRUE]
  BY DEF Free
<1>2. Stopped = [Free EXCEPT !.runs = FALSE]
  BY DEF Stopped
<1>3. Stopped = [batch |-> {}, failed |-> NoTask, runs |-> FALSE]
  BY <1>1, <1>2
<1> QED BY <1>1, <1>3 DEF Worker, NoTask

\* A worker's new state is typed if its batch is.
LEMMA WorkerTyped ==
    ASSUME TypeOK, NEW w \in Workers, NEW x \in Worker,
           worker' = [worker EXCEPT ![w] = x], Len(task') = Len(task),
           x.batch \subseteq Tasks, x.failed \in Tasks \cup {NoTask}
    PROVE  /\ worker' \in [Workers -> Worker]
           /\ \A v \in Workers : /\ worker'[v].batch \subseteq Tasks'
                                 /\ worker'[v].failed \in Tasks' \cup {NoTask}
BY DEF TypeOK, Tasks

-----------------------------------------------------------------------------
(* Requests *)

LEMMA MutateKeeps ==
    ASSUME IInv, NEW r \in Requests, NEW u \in Users, NEW m \in Metrics, NEW delta \in {1, -1},
           MutateEngagement(r, u, m, delta)
    PROVE  IInv'
<1> USE DEF MutateEngagement
<1> DEFINE after == IF delta = 1 THEN relation[m] \cup {u} ELSE relation[m] \ {u}
           x == NewTask(m, delta)
<1>1. /\ task \in Seq(Task) /\ Len(task) \in Nat /\ relation \in [Metrics -> SUBSET Users]
      /\ after \in SUBSET Users /\ relation' = [relation EXCEPT ![m] = after]
  BY LenProperties DEF IInv, TypeOK
<1>2. x = [metric |-> m, delta |-> delta, status |-> "PENDING", attempts |-> 0, claimed |-> FALSE]
      /\ x \in Task /\ x.metric = m /\ x.delta = delta /\ x.status = "PENDING"
  BY DEF NewTask, Task, Statuses
<1>3. req' \in [Requests -> Request]
  BY DEF IInv, TypeOK, Request, Viewer
<1>4. CASE ~Changed(m, u, delta)
  <2>1. after = relation[m] /\ task' = task
    BY <1>4 DEF Changed
  <2>2. relation' = relation
    BY <1>1, <2>1
  <2>3. TypeOK'
    BY <1>3, <2>1, <2>2 DEF IInv, TypeOK, Tasks
  <2> QED BY <2>1, <2>2, <2>3, DataKept DEF data
<1>5. CASE Changed(m, u, delta)
  <2> DEFINE n == Len(task) + 1
  <2>1. task' = Append(task, x)
    BY <1>5
  <2>2. /\ task' \in Seq(Task) /\ Len(task') = n /\ task'[n] = x
        /\ \A t \in Tasks : task'[t] = task[t]
    <3> HIDE DEF x
    <3> QED BY <1>1, <1>2, <2>1 DEF Tasks
  <2> HIDE DEF MutateEngagement, x
  <2>3. Tasks' = Tasks \cup {n} /\ n \notin Tasks
    BY <1>1, <2>2 DEF Tasks
  <2>4. TypeOK'
    BY <1>1, <1>3, <2>2, <2>3 DEF IInv, TypeOK, MutateEngagement
  <2>5. DoneTasks' = DoneTasks /\ DoneTasks \subseteq Tasks
    BY <1>2, <2>2, <2>3 DEF DoneTasks
  <2>6. IsFiniteSet(Tasks)
    BY <1>1, TasksFinite
  <2>7. ASSUME NEW k \in Metrics
        PROVE  Sum(task', k, Tasks') = Cardinality(relation'[k])
    <3>1. Sum(task', k, Tasks) = Sum(task, k, Tasks)
      BY <2>2, SumSame
    <3>2. /\ Sum(task', k, Tasks) \in Int
          /\ Sum(task', k, Tasks') = IF m = k THEN Sum(task', k, Tasks) + delta
                                     ELSE Sum(task', k, Tasks)
      BY <1>2, <2>2, <2>3, <2>6, SumAdd
    <3>3. Sum(task, k, Tasks) = Cardinality(relation[k])
      BY Sums DEF IInv
    <3>4. CASE k # m
      BY <1>1, <3>1, <3>2, <3>3, <3>4
    <3>5. CASE k = m
      <4>1. relation'[m] = after /\ IsFiniteSet(relation[m]) /\ Cardinality(relation[m]) \in Nat
        BY <1>1, FS_Subset, FS_CardinalityType, EngagementAssumption
      <4>2. CASE delta = 1
        <5>1. u \notin relation[m] /\ after = relation[m] \cup {u}
          BY <1>5, <4>2 DEF Changed
        <5>2. Cardinality(after) = Cardinality(relation[m]) + 1
          BY <4>1, <5>1, FS_AddElement
        <5> QED BY <3>1, <3>2, <3>3, <3>5, <4>1, <4>2, <5>2
      <4>3. CASE delta = -1
        <5>1. u \in relation[m] /\ after = relation[m] \ {u}
          BY <1>5, <4>3 DEF Changed
        <5>2. Cardinality(after) = Cardinality(relation[m]) - 1
          BY <4>1, <5>1, FS_RemoveElement
        <5> QED BY <3>1, <3>2, <3>3, <3>5, <4>1, <4>3, <5>2
      <4> QED BY <4>2, <4>3
    <3> QED BY <3>4, <3>5
  <2>8. TasksAccount'
    BY <2>7 DEF TasksAccount, SumOf, Sum
  <2>9. ASSUME NEW k \in Metrics PROVE Sum(task', k, DoneTasks) = Sum(task, k, DoneTasks)
    BY <2>2, <2>5, SumSame
  <2>10. EachDeltaOnce'
    BY <2>5, <2>9 DEF IInv, EachDeltaOnce, SumOf, Sum, MutateEngagement
  <2> QED BY <2>4, <2>8, <2>10 DEF IInv
<1> QED BY <1>4, <1>5

LEMMA ReadKeeps ==
    ASSUME IInv, NEW r \in Requests, NEW u \in Users, GetPostEngagement(r, u)
    PROVE  IInv'
<1>1. TypeOK'
  BY DEF GetPostEngagement, ReadViewerStatus, IInv, TypeOK, data, Request, Viewer, Tasks
<1> QED BY <1>1, DataKept DEF GetPostEngagement

LEMMA StoreKeeps ==
    ASSUME IInv, NEW r \in Requests, StoreViewerStatus(r)
    PROVE  IInv'
<1>1. req[r] \in Request /\ faults' \in 0..MaxFaults
  BY FaultsStay DEF StoreViewerStatus, IInv, TypeOK
<1>2. cache' \in [Users -> CacheEntry]
  BY <1>1 DEF StoreViewerStatus, IInv, TypeOK, Request, CacheEntry
<1>3. req' \in [Requests -> Request]
  BY DEF StoreViewerStatus, IInv, TypeOK, Request, NoRequest
<1>4. TypeOK'
  BY <1>1, <1>2, <1>3 DEF StoreViewerStatus, IInv, TypeOK, data, Tasks
<1> QED BY <1>4, DataKept DEF StoreViewerStatus

LEMMA ExpireKeeps ==
    ASSUME IInv, NEW u \in Users, Expire(u)
    PROVE  IInv'
<1>1. TypeOK'
  BY DEF Expire, IInv, TypeOK, data, Tasks, CacheEntry
<1> QED BY <1>1, DataKept DEF Expire

-----------------------------------------------------------------------------
(* Workers *)

\* A claim takes tasks that are not DONE.
LEMMA ClaimKeeps ==
    ASSUME IInv, NEW w \in Workers, Claim(w)
    PROVE  IInv'
<1>1. PICK batch \in SUBSET Claimable :
          /\ task' = ClaimedBatch(batch) /\ worker' = [worker EXCEPT ![w].batch = batch]
          /\ UNCHANGED <<relation, stats, lost, cache, req>>
  BY DEF Claim, FirstOf
<1>2. task \in Seq(Task) /\ Len(task) \in Nat /\ \A t \in Tasks : task[t] \in Task
  BY LenProperties, ElementOfSeq DEF IInv, TypeOK, Tasks
<1>3. \A t \in Tasks : /\ ClaimedBatch(batch)[t] \in Task
                       /\ ClaimedBatch(batch)[t].metric = task[t].metric
                       /\ ClaimedBatch(batch)[t].delta = task[t].delta
                       /\ t \notin batch => ClaimedBatch(batch)[t] = task[t]
                       /\ t \in batch => ClaimedBatch(batch)[t].status = "PROCESSING"
  <2> SUFFICES ASSUME NEW t \in Tasks
               PROVE  LET x == ClaimedBatch(batch)[t] IN
                      /\ x \in Task /\ x.metric = task[t].metric /\ x.delta = task[t].delta
                      /\ t \notin batch => x = task[t]
                      /\ t \in batch => x.status = "PROCESSING"
    OBVIOUS
  <2>1. ClaimedBatch(batch)[t] =
            IF t \in batch THEN [task[t] EXCEPT !.status = "PROCESSING", !.claimed = TRUE,
                                               !.attempts = task[t].attempts + 1]
                           ELSE task[t]
    BY DEF ClaimedBatch
  <2>2. task[t] \in Task /\ task[t].attempts + 1 \in Nat
    BY <1>2 DEF Task
  <2> QED BY <2>1, <2>2 DEF Task, Statuses
<1>4. ClaimedBatch(batch) \in [1..Len(task) -> Task]
  BY <1>3 DEF ClaimedBatch, Tasks
<1>5. task' \in Seq(Task) /\ Len(task') = Len(task)
  BY <1>1, <1>2, <1>4
<1>6. batch \subseteq Tasks /\ \A t \in batch : task[t].status # "DONE"
  BY <1>1 DEF Claimable, Open
<1>7. faults' \in 0..MaxFaults
  BY FaultsStay DEF IInv, Claim
<1>8. worker' \in [Workers -> Worker] /\ \A v \in Workers : /\ worker'[v].batch \subseteq Tasks'
                                                           /\ worker'[v].failed \in Tasks' \cup {NoTask}
  <2> DEFINE x == [Free EXCEPT !.batch = batch]
  <2>1. worker[w] = Free /\ worker' = [worker EXCEPT ![w] = x]
    BY <1>1 DEF Claim, IInv, TypeOK
  <2>2. x \in Worker /\ x.batch = batch /\ x.failed = NoTask
    <3>1. batch \in SUBSET Nat
      BY <1>2, <1>6 DEF Tasks
    <3> QED BY <3>1, FreeWorker DEF Worker
  <2> HIDE DEF x
  <2> QED BY <1>5, <1>6, <2>1, <2>2, WorkerTyped DEF IInv
<1>9. TypeOK'
  BY <1>1, <1>5, <1>7, <1>8 DEF IInv, TypeOK
<1>10. \A t \in Tasks : /\ task'[t].metric = task[t].metric /\ task'[t].delta = task[t].delta
                        /\ task'[t].status = "DONE" <=> task[t].status = "DONE"
  BY <1>1, <1>3, <1>6
<1> QED BY <1>1, <1>5, <1>9, <1>10, QuietStep

\* What a worker's new state is after task t.
LEMMA HandledTyped ==
    ASSUME IInv, NEW w \in Workers, NEW t \in worker[w].batch, Len(task') = Len(task),
           \/ worker' = [worker EXCEPT ![w].batch = @ \ {t}]
           \/ worker' = [worker EXCEPT ![w].batch = @ \ {t}, ![w].failed = t]
    PROVE  /\ t \in Tasks
           /\ worker' \in [Workers -> Worker]
           /\ \A v \in Workers : /\ worker'[v].batch \subseteq Tasks'
                                 /\ worker'[v].failed \in Tasks' \cup {NoTask}
<1>1. worker[w] \in Worker /\ worker[w].batch \subseteq Tasks /\ t \in Tasks
  BY DEF IInv, TypeOK
<1>2. t \in Nat
  BY <1>1, TasksFinite DEF IInv, TypeOK
<1> DEFINE batch == worker[w].batch \ {t}
           x == [worker[w] EXCEPT !.batch = batch]
           y == [worker[w] EXCEPT !.batch = batch, !.failed = t]
<1>3. batch \subseteq Tasks /\ batch \in SUBSET Nat
  BY <1>1 DEF Worker
<1> HIDE DEF batch
<1>4. /\ x \in Worker /\ x.batch = batch /\ x.failed = worker[w].failed
      /\ y \in Worker /\ y.batch = batch /\ y.failed = t
  BY <1>1, <1>2, <1>3 DEF Worker
<1>5. worker' = [worker EXCEPT ![w] = x] \/ worker' = [worker EXCEPT ![w] = y]
  BY DEF batch, IInv, TypeOK
<1>6. worker[w].failed \in Tasks \cup {NoTask}
  BY DEF IInv, TypeOK
<1> HIDE DEF x, y
<1> QED BY <1>1, <1>3, <1>4, <1>5, <1>6, WorkerTyped DEF IInv

\* A task that is applied was not DONE, and its delta is counted as it becomes DONE.
LEMMA ApplyKeeps ==
    ASSUME IInv, NEW w \in Workers, ApplyClaimed(w)
    PROVE  IInv'
<1>1. PICK t \in worker[w].batch :
          /\ (Owned(t) /\ Applied(t)) \/ UNCHANGED <<task, stats, lost>>
          /\ \/ worker' = [worker EXCEPT ![w].batch = @ \ {t}]
             \/ worker' = [worker EXCEPT ![w].batch = @ \ {t}, ![w].failed = t]
          /\ UNCHANGED <<relation, cache, req>>
  BY DEF ApplyClaimed
<1>2. faults' \in 0..MaxFaults
  BY FaultsStay DEF IInv, ApplyClaimed
<1>3. CASE UNCHANGED <<task, stats, lost>>
  <2>1. Len(task') = Len(task)
    BY <1>3
  <2>2. TypeOK'
    BY <1>1, <1>2, <1>3, <2>1, HandledTyped DEF IInv, TypeOK
  <2> QED BY <1>1, <1>3, <2>2, DataKept DEF data
<1>4. CASE Owned(t) /\ Applied(t)
  <2>1. task \in Seq(Task) /\ t \in Tasks /\ t \in 1..Len(task) /\ task[t] \in Task
        /\ task[t].status = "PROCESSING"
    BY <1>4, ElementOfSeq DEF IInv, TypeOK, Owned, Tasks
  <2> DEFINE x == [task[t] EXCEPT !.status = "DONE"]
  <2>2. x \in Task /\ x.metric = task[t].metric /\ x.delta = task[t].delta /\ x.status = "DONE"
    BY <2>1 DEF Task, Statuses
  <2>3. task' = [task EXCEPT ![t] = x]
    BY <1>4, <2>1 DEF Applied
  <2> HIDE DEF x
  <2>4. task' \in Seq(Task) /\ Len(task') = Len(task)
        /\ \A s \in 1..Len(task) : task'[s] = IF s = t THEN x ELSE task[s]
    BY <2>1, <2>2, <2>3, ExceptSeq
  <2>5. Tasks' = Tasks /\ DoneTasks' = DoneTasks \cup {t} /\ t \notin DoneTasks
        /\ DoneTasks \subseteq Tasks
    BY <2>1, <2>2, <2>4 DEF DoneTasks, Tasks
  <2>6. \A s \in Tasks : task'[s].metric = task[s].metric /\ task'[s].delta = task[s].delta
    BY <2>2, <2>4 DEF Tasks
  <2> DEFINE m == task[t].metric
             d == task[t].delta
             n == stats[m] + d
  <2>7. m \in Metrics /\ d \in {1, -1} /\ stats[m] \in Nat /\ lost[m] \in Nat /\ n \in Int
    BY <2>1 DEF Task, IInv, TypeOK
  <2>8. AtLeastZero(n) \in Nat /\ AtLeastZero(n) - n \in Nat
    BY <2>7 DEF AtLeastZero
  <2>9. /\ stats' = [stats EXCEPT ![m] = AtLeastZero(n)]
        /\ lost' = [lost EXCEPT ![m] = lost[m] + AtLeastZero(n) - n]
    BY <1>4 DEF Applied, IInv, TypeOK
  <2>10. TypeOK'
    <3>1. stats' \in [Metrics -> Nat] /\ lost' \in [Metrics -> Nat]
      BY <2>7, <2>8, <2>9 DEF IInv, TypeOK
    <3> HIDE DEF m, d, n
    <3> QED BY <1>1, <1>2, <2>4, <3>1, HandledTyped DEF IInv, TypeOK
  <2>11. ASSUME NEW k \in Metrics PROVE Sum(task', k, Tasks) = Sum(task, k, Tasks)
    BY <2>6, SumSame
  <2>12. TasksAccount'
    BY <1>1, <2>5, <2>11 DEF IInv, TasksAccount, SumOf, Sum
  <2>13. ASSUME NEW k \in Metrics
         PROVE  stats'[k] = Sum(task', k, DoneTasks') + lost'[k]
    <3>1. Sum(task', k, DoneTasks) = Sum(task, k, DoneTasks)
      BY <2>5, <2>6, SumSame
    <3>2. IsFiniteSet(DoneTasks)
      BY <2>1, <2>5, TasksFinite
    <3>3. /\ Sum(task', k, DoneTasks) \in Int
          /\ Sum(task', k, DoneTasks') = IF m = k THEN Sum(task', k, DoneTasks) + d
                                         ELSE Sum(task', k, DoneTasks)
      BY <2>1, <2>5, <2>6, <2>7, <3>2, SumAdd
    <3>4. stats[k] = Sum(task, k, DoneTasks) + lost[k] /\ stats[k] \in Nat /\ lost[k] \in Nat
      BY Sums DEF IInv, TypeOK
    <3>5. CASE k = m
      <4>1. stats'[k] = AtLeastZero(n) /\ lost'[k] = lost[k] + AtLeastZero(n) - n
        BY <2>7, <2>9, <3>5 DEF IInv, TypeOK
      <4>2. n = stats[k] + d
        BY <3>5
      <4> HIDE DEF n, m, d
      <4> QED BY <2>7, <2>8, <3>1, <3>3, <3>4, <3>5, <4>1, <4>2
    <3>6. CASE k # m
      <4>1. stats'[k] = stats[k] /\ lost'[k] = lost[k]
        BY <2>9, <3>6 DEF IInv, TypeOK
      <4> QED BY <3>1, <3>3, <3>4, <3>6, <4>1
    <3> QED BY <3>5, <3>6
  <2>14. EachDeltaOnce'
    BY <2>13 DEF EachDeltaOnce, SumOf, Sum
  <2> QED BY <2>10, <2>12, <2>14 DEF IInv
<1> QED BY <1>1, <1>3, <1>4

LEMMA MarkFailedKeeps ==
    ASSUME IInv, NEW w \in Workers, MarkFailed(w)
    PROVE  IInv'
<1> SUFFICES ASSUME NEW t, t = worker[w].failed PROVE IInv'
  OBVIOUS
<1>1. faults' \in 0..MaxFaults
  BY FaultsStay DEF IInv, MarkFailed
<1>2. /\ t \in Tasks /\ t \in 1..Len(task) /\ task \in Seq(Task) /\ task[t] \in Task
      /\ worker[w] \in Worker /\ worker[w].batch \subseteq Tasks
  BY ElementOfSeq DEF MarkFailed, IInv, TypeOK, Tasks
<1>3. CASE UNCHANGED task /\ worker' = [worker EXCEPT ![w] = Stopped]
  <2>1. /\ worker' \in [Workers -> Worker]
        /\ \A v \in Workers : /\ worker'[v].batch \subseteq Tasks'
                              /\ worker'[v].failed \in Tasks' \cup {NoTask}
    BY <1>3, FreeWorker, WorkerTyped DEF IInv
  <2>2. TypeOK'
    BY <1>1, <1>3, <2>1 DEF MarkFailed, IInv, TypeOK
  <2> QED BY <1>3, <2>2, DataKept DEF MarkFailed, data
<1>4. CASE /\ Owned(t) /\ worker' = [worker EXCEPT ![w].failed = NoTask]
           /\ task' = [task EXCEPT ![t].status = FailedStatus(t), ![t].claimed = FALSE]
  <2> DEFINE x == [task[t] EXCEPT !.status = FailedStatus(t), !.claimed = FALSE]
             y == [worker[w] EXCEPT !.failed = NoTask]
  <2>1. FailedStatus(t) \in Statuses /\ FailedStatus(t) # "DONE"
    BY DEF FailedStatus, Statuses
  <2>2. /\ x \in Task /\ x.metric = task[t].metric /\ x.delta = task[t].delta
        /\ x.status # "DONE"
    BY <1>2, <2>1 DEF Task
  <2>3. task' = [task EXCEPT ![t] = x]
    BY <1>2, <1>4
  <2>4. y \in Worker /\ y.batch = worker[w].batch /\ y.failed = NoTask
        /\ worker' = [worker EXCEPT ![w] = y]
    BY <1>2, <1>4 DEF Worker, NoTask, IInv, TypeOK
  <2> HIDE DEF x, y
  <2>5. task' \in Seq(Task) /\ Len(task') = Len(task)
        /\ \A s \in 1..Len(task) : task'[s] = IF s = t THEN x ELSE task[s]
    BY <1>2, <2>2, <2>3, ExceptSeq
  <2>6. /\ worker' \in [Workers -> Worker]
        /\ \A v \in Workers : /\ worker'[v].batch \subseteq Tasks'
                              /\ worker'[v].failed \in Tasks' \cup {NoTask}
    BY <1>2, <2>4, <2>5, WorkerTyped DEF IInv
  <2>7. TypeOK'
    BY <1>1, <2>5, <2>6 DEF MarkFailed, IInv, TypeOK
  <2>8. \A s \in Tasks : /\ task'[s].metric = task[s].metric /\ task'[s].delta = task[s].delta
                         /\ task'[s].status = "DONE" <=> task[s].status = "DONE"
    BY <1>4, <2>2, <2>5 DEF Owned, Tasks
  <2> QED BY <2>5, <2>7, <2>8, QuietStep DEF MarkFailed
<1> QED BY <1>3, <1>4 DEF MarkFailed

LEMMA RestartKeeps ==
    ASSUME IInv, NEW w \in Workers, Crash(w) \/ Start(w)
    PROVE  IInv'
<1>1. faults' \in 0..MaxFaults
  BY FaultsStay DEF IInv, Crash, Start
<1>2. UNCHANGED <<data, cache, req>>
  BY DEF Crash, Start
<1>3. PICK x \in {Free, Stopped} : worker' = [worker EXCEPT ![w] = x]
  BY DEF Crash, Start
<1>4. /\ worker' \in [Workers -> Worker]
      /\ \A v \in Workers : /\ worker'[v].batch \subseteq Tasks'
                            /\ worker'[v].failed \in Tasks' \cup {NoTask}
  BY <1>2, <1>3, FreeWorker, WorkerTyped DEF IInv, data
<1>5. TypeOK'
  BY <1>1, <1>2, <1>4 DEF IInv, TypeOK, data
<1> QED BY <1>2, <1>5, DataKept

-----------------------------------------------------------------------------
(* The theorems *)

LEMMA InitHolds == Init => IInv
<1> SUFFICES ASSUME Init PROVE IInv
  OBVIOUS
<1>1. Tasks = {} /\ DoneTasks = {} /\ task \in Seq(Task)
  BY DEF Init, Tasks, DoneTasks
<1>2. TypeOK
  BY <1>1, FreeWorker, EngagementAssumption
     DEF Init, TypeOK, CacheEntry, NoRequest, Request
<1>3. \A m : SumOf(m, {}) = 0
  <2>1. \A m : /\ {t \in {} : task[t].metric = m /\ task[t].delta = 1} = {}
               /\ {t \in {} : task[t].metric = m /\ task[t].delta = -1} = {}
    OBVIOUS
  <2> QED BY <2>1, FS_EmptySet DEF SumOf
<1>4. \A m \in Metrics : /\ relation[m] = {} /\ stats[m] = 0 /\ lost[m] = 0
                         /\ Cardinality(relation[m]) = 0
  BY FS_EmptySet DEF Init
<1>5. \A m \in Metrics : SumOf(m, Tasks) = 0 /\ SumOf(m, DoneTasks) = 0
  BY <1>1, <1>3
<1>6. TasksAccount /\ EachDeltaOnce
  BY <1>4, <1>5 DEF TasksAccount, EachDeltaOnce
<1> QED BY <1>2, <1>6 DEF IInv

LEMMA StepHolds == IInv /\ [Next]_vars => IInv'
<1> SUFFICES ASSUME IInv, [Next]_vars PROVE IInv'
  OBVIOUS
<1>1. CASE UNCHANGED vars
  <2>1. TypeOK'
    BY <1>1 DEF vars, data, IInv, TypeOK, Tasks
  <2> QED BY <1>1, <2>1, DataKept DEF vars
<1>2. ASSUME NEW r \in Requests, NEW u \in Users,
             \/ \E m \in Metrics, delta \in {1, -1} : MutateEngagement(r, u, m, delta)
             \/ GetPostEngagement(r, u)
      PROVE  IInv'
  BY <1>2, MutateKeeps, ReadKeeps
<1>3. ASSUME NEW r \in Requests, StoreViewerStatus(r) PROVE IInv'
  BY <1>3, StoreKeeps
<1>4. ASSUME NEW u \in Users, Expire(u) PROVE IInv'
  BY <1>4, ExpireKeeps
<1>5. ASSUME NEW w \in Workers, RunUntilIdle(w) \/ Crash(w) PROVE IInv'
  BY <1>5, ClaimKeeps, ApplyKeeps, MarkFailedKeeps, RestartKeeps DEF RunUntilIdle
<1> QED BY <1>1, <1>2, <1>3, <1>4, <1>5 DEF Next
\* The inductive invariant holds: no step but the application of a task touches a DONE
\* task or a count, and each change of a relation has its task.
THEOREM Invariant == Spec => []IInv
BY InitHolds, StepHolds, PTL DEF Spec

\* A delta is in the count exactly when its task is DONE, whichever workers claimed the
\* task, lost it, failed half way or were restarted; the rest is what GREATEST(0, ..) added.
THEOREM DeltasCountOnce == Spec => []EachDeltaOnce
<1>1. IInv => EachDeltaOnce
  BY DEF IInv
<1> QED BY <1>1, Invariant, PTL

\* Once every task is DONE, no count is below the number of rows of its relation.
THEOREM CountsReachRelations == Spec => []NeverUnderstated
<1>1. IInv => NeverUnderstated
  <2> SUFFICES ASSUME IInv, DoneTasks = Tasks, NEW m \in Metrics
               PROVE  stats[m] >= Cardinality(relation[m])
    BY DEF NeverUnderstated
  <2>1. stats[m] = Sum(task, m, Tasks) + lost[m] /\ Sum(task, m, Tasks) = Cardinality(relation[m])
    BY Sums DEF IInv
  <2>2. Sum(task, m, Tasks) \in Int
    BY SumTyped DEF IInv, TypeOK
  <2>3. lost[m] \in Nat
    BY DEF IInv, TypeOK
  <2> QED BY <2>1, <2>2, <2>3
<1> QED BY <1>1, Invariant, PTL
=============================================================================
