---------------------------- MODULE ContentPosts ----------------------------
(***************************************************************************)
(* The lifecycle of a post in zhicore-content: a row of PostgreSQL that    *)
(* points at immutable bodies in MongoDB, the requests that write bodies   *)
(* first and then switch the pointers in one transaction, the cleanup      *)
(* tasks they leave behind and the workers that carry them out.            *)
(*                                                                         *)
(* One action is one call that leaves the process (a read, a MongoDB       *)
(* write, a transaction), so requests and workers interleave between       *)
(* calls.  Time is abstracted: a retry may be due, and a claim stale, at   *)
(* any moment.                                                             *)
(*                                                                         *)
(* A definition whose name begins with Wrong is a plausible bug of the one *)
(* that follows it: no definition uses it, and it shows that the property  *)
(* PROJECT.json names would notice.                                        *)
(***************************************************************************)
EXTENDS Naturals

CONSTANTS
    Posts,          \* public ids of posts
    DraftBodies,    \* ids WriteDraftBody can allocate
    Snapshots,      \* ids WriteSnapshotBody can allocate
    Hashes,         \* content hashes of bodies
    Requests,       \* slots for requests in flight
    Workers,        \* replicas of the process, each running one cleanup worker
    DeadThreshold,  \* attempts after which a cleanup task is DEAD
    MaxVersion,     \* bound on post_version
    Faults,         \* the faults the environment may inject
    NoPost, NoBody, NoHash

FaultKinds ==
    { "crash",      \* a process dies between two calls
      "ambiguous",  \* a transaction commits and its caller is told it failed
      "append",     \* a task appended outside a transaction is lost
      "store" }     \* a call that only reads, or one to MongoDB, fails

Bodies == DraftBodies \cup Snapshots

ASSUME ConstantsAssumption ==
    /\ DeadThreshold \in Nat \ {0}
    /\ MaxVersion \in Nat \ {0}
    /\ Faults \subseteq FaultKinds
    /\ DraftBodies \cap Snapshots = {}
    /\ NoPost \notin Posts
    /\ NoBody \notin Bodies
    /\ NoHash \notin Hashes
    /\ {"UNWRITTEN", "REMOVED"} \cap (Hashes \cup {NoHash}) = {}

VARIABLES
    post,       \* posts table
    schedule,   \* draft pinned by the PENDING scheduled_publish_events row
    lastEvent,  \* last event the post appended to outbox_events
    store,      \* MongoDB bodies: content hash, "UNWRITTEN" or "REMOVED"
    cleanup,    \* content_body_cleanup_tasks, by body and task type
    repairs,    \* content_body_repair_tasks
    req,        \* requests in flight
    worker      \* cleanup workers

vars == <<post, schedule, lastEvent, store, cleanup, repairs, req, worker>>

-----------------------------------------------------------------------------
(* Data *)

Pointer == [id : Bodies \cup {NoBody}, hash : Hashes \cup {NoHash}]
NoPtr == [id |-> NoBody, hash |-> NoHash]

Statuses == {"NONE", "DRAFT", "PUBLISHED", "SCHEDULED", "DELETED"}

Row == [status : Statuses, version : 0..MaxVersion,
        draft : Pointer, published : Pointer]
NoRow == [status |-> "NONE", version |-> 0, draft |-> NoPtr, published |-> NoPtr]

WrongVisibilityPublic(status) ==
    IF status \in {"PUBLISHED", "SCHEDULED"} THEN "PUBLIC"
    ELSE IF status = "DELETED" THEN "DELETED" ELSE "UNPUBLISHED"

\* postVisibilityForStatus
Visibility(status) ==
    CASE status = "PUBLISHED" -> "PUBLIC"
      [] status = "DELETED"   -> "DELETED"
      [] OTHER                -> "UNPUBLISHED"

Visibilities == {"PUBLIC", "DELETED", "UNPUBLISHED"}

Event == [version : 0..MaxVersion, old : Visibilities, new : Visibilities]

TaskTypes == {"OLD_DRAFT", "ORPHAN_DRAFT", "ORPHAN_SNAPSHOT"}
TaskStatuses == {"NONE", "PENDING", "PROCESSING", "FAILED", "DONE", "DEAD"}
Task == [status : TaskStatuses, attempts : 0..DeadThreshold]
Key == Bodies \X TaskTypes

RepairTypes == {"draft_body_missing", "published_body_missing",
                "body_hash_mismatch", "mongo_read_error_after_pg_published"}
Repair == [post : Posts, body : Bodies \cup {NoBody}, type : RepairTypes]

Ops == {"create", "save", "publish", "schedule", "meta", "unpublish",
        "delete", "restore", "cancel", "readDraft", "readPublished"}

\* A request: its operation, how far it got, its post, the row it loaded and
\* the body it wrote.
Request ==
    [op : Ops \cup {"none"}, pc : {"idle", "loaded", "read", "written", "failed"},
     post : Posts \cup {NoPost}, cur : Row, new : Pointer]
Idle == [op |-> "none", pc |-> "idle", post |-> NoPost, cur |-> NoRow, new |-> NoPtr]

\* A worker: how far it got with the task it handles, and the tasks of its
\* claim it has not handled yet.
WorkerStates == {"idle", "claimed", "delete", "succeed", "fail", "stopped"}
NoTask == <<NoBody, "OLD_DRAFT">>
Worker == [pc : WorkerStates, task : Key \cup {NoTask}, batch : SUBSET Key]
Free == [pc |-> "idle", task |-> NoTask, batch |-> {}]
Stopped == [pc |-> "stopped", task |-> NoTask, batch |-> {}]

WrongReferencesDraft(row, b) == row.draft.id = b
WrongReferencesPublished(row, b) == row.published.id = b

\* select_body_referenced.sql
References(row, b) == row.draft.id = b \/ row.published.id = b
Referenced(b) == \E p \in Posts : References(post[p], b)

Readable(ptr) == ptr.id \in Bodies /\ store[ptr.id] = ptr.hash

-----------------------------------------------------------------------------
(* Rows of PostgreSQL as the transactions leave them *)

CanBump(row) == row.version < MaxVersion

Moved(row, status) == [row EXCEPT !.status = status, !.version = @ + 1]

\* upsert_cleanup_task.sql: a conflicting row keeps its status and attempts
Upserted(tasks, key) ==
    IF tasks[key].status = "NONE"
    THEN [tasks EXCEPT ![key] = [status |-> "PENDING", attempts |-> 0]]
    ELSE tasks

WrongDroppedDraft(ptr) == cleanup

\* OLD_DRAFT appended in the transaction that drops a draft pointer
DroppedDraft(ptr) ==
    IF ptr.id \in Bodies THEN Upserted(cleanup, <<ptr.id, "OLD_DRAFT">>) ELSE cleanup

\* content.post.published or content.post.visibility_changed
Emitted(p, loaded, row) ==
    [lastEvent EXCEPT ![p] = [version |-> row.version,
                              old |-> Visibility(loaded),
                              new |-> Visibility(row.status)]]

\* WithinTx returned: the request is answered, or its caller sees an error for
\* a transaction that did commit.
Answered(r) ==
    \/ req' = [req EXCEPT ![r] = Idle]
    \/ /\ "ambiguous" \in Faults
       /\ req[r].new # NoPtr
       /\ req' = [req EXCEPT ![r].pc = "failed"]

-----------------------------------------------------------------------------
(* Requests: load, read, write the body, then the transaction *)

\* Statuses in which the handler goes on after loadPostForDraftWrite (or, for
\* readers, after the pointer query).  PublishPost refuses SCHEDULED only once
\* it has read the body.
Admits ==
    [ save |-> {"DRAFT", "PUBLISHED"}, meta |-> {"DRAFT", "PUBLISHED"},
      publish |-> {"DRAFT", "SCHEDULED"}, schedule |-> {"DRAFT"},
      unpublish |-> {"PUBLISHED"}, delete |-> {"DRAFT", "PUBLISHED", "SCHEDULED"},
      restore |-> {"DELETED"}, cancel |-> {"SCHEDULED"},
      readDraft |-> {"DRAFT", "PUBLISHED", "SCHEDULED"}, readPublished |-> {"PUBLISHED"} ]

NeedsDraft == {"publish", "schedule", "readDraft"}
ReadsBody == {"publish", "schedule", "readDraft", "readPublished"}

\* The client's base version and draft pointer are those of the loaded row: the
\* handler answers a conflict to any other and nothing changes.
Load(r, p, op) ==
    /\ req[r] = Idle
    /\ post[p].status \in Admits[op]
    /\ op \in NeedsDraft => post[p].draft # NoPtr
    /\ req' = [req EXCEPT ![r] =
           [op |-> op, pc |-> "loaded", post |-> p, cur |-> post[p], new |-> NoPtr]]
    /\ UNCHANGED <<post, schedule, lastEvent, store, cleanup, repairs, worker>>

Wanted(r) == IF req[r].op = "readPublished" THEN req[r].cur.published ELSE req[r].cur.draft

\* Repair rows a failed read leaves; SchedulePost records a missing body only.
RepairRows(r, failure) ==
    IF failure = "body_hash_mismatch" /\ req[r].op = "schedule" THEN {}
    ELSE {[post |-> req[r].post, body |-> Wanted(r).id, type |-> failure]}

Diagnosis(r) ==
    CASE store[Wanted(r).id] \in Hashes -> "body_hash_mismatch"
      [] req[r].op = "readPublished"    -> "published_body_missing"
      [] OTHER                          -> "draft_body_missing"

ReadBody(r) ==
    /\ req[r].pc = "loaded" /\ req[r].op \in ReadsBody
    /\ Readable(Wanted(r))
    /\ req' = [req EXCEPT ![r] =
           IF req[r].op \in {"publish", "schedule"} THEN [@ EXCEPT !.pc = "read"] ELSE Idle]
    /\ UNCHANGED <<post, schedule, lastEvent, store, cleanup, repairs, worker>>

ReadBodyUnavailable(r) ==
    /\ req[r].pc = "loaded" /\ req[r].op \in ReadsBody
    /\ ~Readable(Wanted(r))
    /\ \/ repairs' = repairs \cup RepairRows(r, Diagnosis(r))
       \/ "append" \in Faults /\ repairs' = repairs
    /\ req' = [req EXCEPT ![r] = Idle]
    /\ UNCHANGED <<post, schedule, lastEvent, store, cleanup, worker>>

\* ReadBody returns another error: the two readers still record a repair.
ReadBodyFails(r) ==
    /\ "store" \in Faults
    /\ req[r].pc = "loaded"
    /\ \/ /\ req[r].op = "readDraft"
          /\ repairs' = repairs \cup RepairRows(r, "draft_body_missing")
       \/ /\ req[r].op = "readPublished"
          /\ repairs' = repairs \cup RepairRows(r, "mongo_read_error_after_pg_published")
    /\ req' = [req EXCEPT ![r] = Idle]
    /\ UNCHANGED <<post, schedule, lastEvent, store, cleanup, worker>>

\* A validation, a conflict, a no-op save or an unavailable dependency ends the
\* request before it changed anything.
Reject(r) ==
    /\ req[r].pc \in {"loaded", "read"}
    /\ req' = [req EXCEPT ![r] = Idle]
    /\ UNCHANGED <<post, schedule, lastEvent, store, cleanup, repairs, worker>>

\* MongoDB stores a body under a fresh id; its answer may be lost.
BodyWritten(r, b, h, candidate) ==
    /\ store[b] = "UNWRITTEN"
    /\ store' = [store EXCEPT ![b] = h]
    /\ \/ req' = [req EXCEPT ![r] =
                 [candidate EXCEPT !.pc = "written", !.new = [id |-> b, hash |-> h]]]
       \/ "store" \in Faults /\ req' = [req EXCEPT ![r] = Idle]
    /\ UNCHANGED <<post, schedule, lastEvent, cleanup, repairs, worker>>

WriteDraftBody(r, b, h) ==
    /\ req[r].pc = "loaded" /\ req[r].op = "save"
    /\ h # req[r].cur.draft.hash
    /\ BodyWritten(r, b, h, req[r])

WriteSnapshotBody(r, b) ==
    /\ req[r].pc = "read" /\ req[r].op = "publish"
    /\ req[r].cur.status = "DRAFT"
    /\ BodyWritten(r, b, req[r].cur.draft.hash, req[r])

CreateWithBody(r, b, h) ==
    /\ req[r] = Idle
    /\ BodyWritten(r, b, h, [Idle EXCEPT !.op = "create"])

CreateWithoutBody(r) ==
    /\ req[r] = Idle
    /\ req' = [req EXCEPT ![r] = [Idle EXCEPT !.op = "create", !.pc = "written"]]
    /\ UNCHANGED <<post, schedule, lastEvent, store, cleanup, repairs, worker>>

-----------------------------------------------------------------------------
(* Requests: the transaction, one action per repository call *)

\* The row a client based its command on: version and draft pointer unchanged.
SameDraft(row, cur) == row.version = cur.version /\ row.draft = cur.draft

\* WHERE clauses of the conditional updates
UpdateDraftBodyMatches(row, cur) ==
    SameDraft(row, cur) /\ row.status \in {"DRAFT", "PUBLISHED"}
WrongPublishMatches(row, cur) == row.status = "DRAFT"
PublishMatches(row, cur) == SameDraft(row, cur) /\ row.status = "DRAFT"
WrongScheduleMatches(row, cur) == row.status = "DRAFT"
ScheduleMatches(row, cur) == SameDraft(row, cur) /\ row.status = "DRAFT"
UpdateMetaMatches(row, cur) ==
    row.version = cur.version /\ row.status \in {"DRAFT", "PUBLISHED"}
UnpublishMatches(row, cur) == row.version = cur.version /\ row.status = "PUBLISHED"
\* delete, restore and cancel accept base version 0, which matches any version
DeleteMatches(row) == row.status \notin {"NONE", "DELETED"}
RestoreMatches(row) == row.status = "DELETED"
CancelMatches(row) == row.status = "SCHEDULED"

CommitCreate(r, p) ==
    /\ req[r].pc = "written" /\ req[r].op = "create"
    /\ post[p].status = "NONE"
    /\ post' = [post EXCEPT ![p] =
           [status |-> "DRAFT", version |-> 1, draft |-> req[r].new, published |-> NoPtr]]
    /\ Answered(r)
    /\ UNCHANGED <<schedule, lastEvent, store, cleanup, repairs, worker>>

CommitSave(r, p) ==
    /\ req[r].pc = "written" /\ req[r].op = "save" /\ req[r].post = p
    /\ CanBump(post[p])
    /\ UpdateDraftBodyMatches(post[p], req[r].cur)
    /\ post' = [post EXCEPT ![p] = [Moved(@, @.status) EXCEPT !.draft = req[r].new]]
    /\ cleanup' = DroppedDraft(req[r].cur.draft)
    /\ Answered(r)
    /\ UNCHANGED <<schedule, lastEvent, store, repairs, worker>>

CommitPublish(r, p) ==
    /\ req[r].pc = "written" /\ req[r].op = "publish" /\ req[r].post = p
    /\ CanBump(post[p])
    /\ PublishMatches(post[p], req[r].cur)
    /\ post' = [post EXCEPT ![p] =
           [Moved(@, "PUBLISHED") EXCEPT !.draft = NoPtr, !.published = req[r].new]]
    /\ lastEvent' = Emitted(p, req[r].cur.status, post'[p])
    /\ cleanup' = DroppedDraft(req[r].cur.draft)
    /\ Answered(r)
    /\ UNCHANGED <<schedule, store, repairs, worker>>

CommitSchedule(r, p) ==
    /\ req[r].pc = "read" /\ req[r].op = "schedule" /\ req[r].post = p
    /\ CanBump(post[p])
    /\ ScheduleMatches(post[p], req[r].cur)
    /\ post' = [post EXCEPT ![p] = Moved(@, "SCHEDULED")]
    /\ schedule' = [schedule EXCEPT ![p] = req[r].cur.draft]
    /\ Answered(r)
    /\ UNCHANGED <<lastEvent, store, cleanup, repairs, worker>>

CommitMeta(r, p) ==
    /\ req[r].pc = "loaded" /\ req[r].op = "meta" /\ req[r].post = p
    /\ CanBump(post[p])
    /\ UpdateMetaMatches(post[p], req[r].cur)
    /\ post' = [post EXCEPT ![p] = Moved(@, @.status)]
    /\ Answered(r)
    /\ UNCHANGED <<schedule, lastEvent, store, cleanup, repairs, worker>>

\* mutatePostLifecycle: the event is built from the row loaded earlier
Lifecycle(r, p, op, status) ==
    /\ req[r].pc = "loaded" /\ req[r].op = op /\ req[r].post = p
    /\ CanBump(post[p])
    /\ post' = [post EXCEPT ![p] = Moved(@, status)]
    /\ Answered(r)
    /\ UNCHANGED <<store, cleanup, repairs, worker>>

CommitUnpublish(r, p) ==
    /\ UnpublishMatches(post[p], req[r].cur)
    /\ Lifecycle(r, p, "unpublish", "DRAFT")
    /\ lastEvent' = Emitted(p, req[r].cur.status, post'[p])
    /\ UNCHANGED schedule

CommitDelete(r, p) ==
    /\ DeleteMatches(post[p])
    /\ Lifecycle(r, p, "delete", "DELETED")
    /\ lastEvent' = Emitted(p, req[r].cur.status, post'[p])
    /\ schedule' = [schedule EXCEPT ![p] = NoPtr]

CommitRestore(r, p) ==
    /\ RestoreMatches(post[p])
    /\ Lifecycle(r, p, "restore", "DRAFT")
    /\ lastEvent' = Emitted(p, req[r].cur.status, post'[p])
    /\ UNCHANGED schedule

CommitCancelSchedule(r, p) ==
    /\ CancelMatches(post[p])
    /\ Lifecycle(r, p, "cancel", "DRAFT")
    /\ schedule' = [schedule EXCEPT ![p] = NoPtr]
    /\ UNCHANGED lastEvent

\* The update matches no row or the transaction rolls back.
TxFails(r) ==
    /\ req[r].pc = "written"
    /\ req' = [req EXCEPT ![r] =
           IF @.new = NoPtr THEN Idle ELSE [@ EXCEPT !.pc = "failed"]]
    /\ UNCHANGED <<post, schedule, lastEvent, store, cleanup, repairs, worker>>

OrphanType(op) == IF op = "publish" THEN "ORPHAN_SNAPSHOT" ELSE "ORPHAN_DRAFT"

\* AppendOutsideTx of the body the failed transaction leaves; its own failure is
\* not retried.
RegisterOrphan(r) ==
    /\ req[r].pc = "failed"
    /\ \/ cleanup' = Upserted(cleanup, <<req[r].new.id, OrphanType(req[r].op)>>)
       \/ "append" \in Faults /\ cleanup' = cleanup
    /\ req' = [req EXCEPT ![r] = Idle]
    /\ UNCHANGED <<post, schedule, lastEvent, store, repairs, worker>>

RequestCrash(r) ==
    /\ "crash" \in Faults
    /\ req[r] # Idle
    /\ req' = [req EXCEPT ![r] = Idle]
    /\ UNCHANGED <<post, schedule, lastEvent, store, cleanup, repairs, worker>>

Request_(r) ==
    \/ \E p \in Posts, op \in DOMAIN Admits : Load(r, p, op)
    \/ ReadBody(r) \/ ReadBodyUnavailable(r) \/ ReadBodyFails(r) \/ Reject(r)
    \/ \E b \in DraftBodies, h \in Hashes : WriteDraftBody(r, b, h) \/ CreateWithBody(r, b, h)
    \/ \E b \in Snapshots : WriteSnapshotBody(r, b)
    \/ CreateWithoutBody(r)
    \/ \E p \in Posts :
          \/ CommitCreate(r, p) \/ CommitSave(r, p) \/ CommitPublish(r, p)
          \/ CommitSchedule(r, p) \/ CommitMeta(r, p) \/ CommitUnpublish(r, p)
          \/ CommitDelete(r, p) \/ CommitRestore(r, p) \/ CommitCancelSchedule(r, p)
    \/ TxFails(r) \/ RegisterOrphan(r) \/ RequestCrash(r)

-----------------------------------------------------------------------------
(* Requests of a single transaction, which lock the row for their duration *)

DeleteAuthorDraft(p) ==
    /\ post[p].status \in {"DRAFT", "PUBLISHED"}
    /\ CanBump(post[p])
    /\ post' = [post EXCEPT ![p] = [Moved(@, @.status) EXCEPT !.draft = NoPtr]]
    /\ cleanup' = DroppedDraft(post[p].draft)
    /\ UNCHANGED <<schedule, lastEvent, store, repairs, req, worker>>

DeleteAdminPost(p) ==
    /\ DeleteMatches(post[p])
    /\ CanBump(post[p])
    /\ post' = [post EXCEPT ![p] = Moved(@, "DELETED")]
    /\ lastEvent' = Emitted(p, post[p].status, post'[p])
    /\ schedule' = [schedule EXCEPT ![p] = NoPtr]
    /\ UNCHANGED <<store, cleanup, repairs, req, worker>>

MutatePostTags(p) ==
    /\ post[p].status \notin {"NONE", "DELETED"}
    /\ CanBump(post[p])
    /\ post' = [post EXCEPT ![p] = Moved(@, @.status)]
    /\ UNCHANGED <<schedule, lastEvent, store, cleanup, repairs, req, worker>>

SingleTx(p) == DeleteAuthorDraft(p) \/ DeleteAdminPost(p) \/ MutatePostTags(p)

-----------------------------------------------------------------------------
(* The cleanup worker.  Every replica claims under the one id                *)
(* "content-body-cleanup", so claimed_by never tells two workers apart and   *)
(* the ownership test of the mark statements is the test of the status.      *)

Claimable(t) == t.status \in {"PENDING", "FAILED", "PROCESSING"}

WrongClaimed(t) ==
    [t EXCEPT !.attempts = IF @ < DeadThreshold THEN @ + 1 ELSE @]

\* attempts stop counting at the threshold
Claimed(t) ==
    [status |-> "PROCESSING",
     attempts |-> IF t.attempts < DeadThreshold THEN t.attempts + 1 ELSE t.attempts]

\* claim_cleanup_tasks.sql: some tasks that are due or whose claim is stale
Claim(w) ==
    /\ worker[w].pc = "idle"
    /\ \E picked \in SUBSET {key \in Key : Claimable(cleanup[key])} \ {{}} :
          /\ cleanup' = [key \in Key |->
                 IF key \in picked THEN Claimed(cleanup[key]) ELSE cleanup[key]]
          /\ \/ worker' = [worker EXCEPT ![w] =
                    [Free EXCEPT !.pc = "claimed", !.batch = picked]]
             \/ "store" \in Faults /\ worker' = [worker EXCEPT ![w] = Stopped]
    /\ UNCHANGED <<post, schedule, lastEvent, store, repairs, req>>

\* An error of Claim, before or after it took effect, ends the worker for the
\* rest of the process.
ClaimFails(w) ==
    /\ "store" \in Faults
    /\ worker[w].pc = "idle"
    /\ worker' = [worker EXCEPT ![w] = Stopped]
    /\ UNCHANGED <<post, schedule, lastEvent, store, cleanup, repairs, req>>

Handling(w, key, pc) ==
    [worker EXCEPT ![w] = [pc |-> pc, task |-> key, batch |-> @.batch \ {key}]]

\* handle takes up the next task of the claim with IsBodyReferenced.
CheckReference(w) ==
    /\ worker[w].pc = "claimed"
    /\ \E key \in worker[w].batch :
          \/ worker' = Handling(w, key, IF Referenced(key[1]) THEN "fail" ELSE "delete")
          \/ "store" \in Faults /\ worker' = Handling(w, key, "fail")
    /\ UNCHANGED <<post, schedule, lastEvent, store, cleanup, repairs, req>>

\* DeleteOne by id; removing an absent body succeeds, a failure may have removed it
DeleteBody(w) ==
    /\ worker[w].pc = "delete"
    /\ \/ /\ store' = [store EXCEPT ![worker[w].task[1]] = "REMOVED"]
          /\ worker' = [worker EXCEPT ![w].pc = "succeed"]
       \/ /\ "store" \in Faults
          /\ store' \in {store, [store EXCEPT ![worker[w].task[1]] = "REMOVED"]}
          /\ worker' = [worker EXCEPT ![w].pc = "fail"]
    /\ UNCHANGED <<post, schedule, lastEvent, cleanup, repairs, req>>

\* mark_cleanup_task_*.sql; a claim that is no longer PROCESSING is an error and,
\* like one of the database, ends the worker.
Mark(w, status) ==
    /\ LET key == worker[w].task
           marked == [cleanup EXCEPT ![key].status = status]
       IN
       \/ /\ cleanup[key].status = "PROCESSING"
          /\ cleanup' = marked
          /\ \/ worker' = [worker EXCEPT ![w] =
                    IF @.batch = {} THEN Free ELSE [@ EXCEPT !.pc = "claimed", !.task = NoTask]]
             \/ "store" \in Faults /\ worker' = [worker EXCEPT ![w] = Stopped]
       \/ /\ cleanup[key].status # "PROCESSING"
          /\ UNCHANGED cleanup
          /\ worker' = [worker EXCEPT ![w] = Stopped]
       \/ /\ "store" \in Faults
          /\ UNCHANGED cleanup
          /\ worker' = [worker EXCEPT ![w] = Stopped]
    /\ UNCHANGED <<post, schedule, lastEvent, store, repairs, req>>

MarkSucceeded(w) == worker[w].pc = "succeed" /\ Mark(w, "DONE")

WrongFailedStatusDone(t) == IF t.attempts >= DeadThreshold THEN "DONE" ELSE "FAILED"
FailedStatus(t) == IF t.attempts >= DeadThreshold THEN "DEAD" ELSE "FAILED"

MarkFailed(w) ==
    /\ worker[w].pc = "fail"
    /\ Mark(w, FailedStatus(cleanup[worker[w].task]))

WorkerCrash(w) ==
    /\ "crash" \in Faults
    /\ worker[w].pc # "stopped"
    /\ worker' = [worker EXCEPT ![w] = Stopped]
    /\ UNCHANGED <<post, schedule, lastEvent, store, cleanup, repairs, req>>

\* The process is started again.
WorkerStart(w) ==
    /\ worker[w].pc = "stopped"
    /\ worker' = [worker EXCEPT ![w] = Free]
    /\ UNCHANGED <<post, schedule, lastEvent, store, cleanup, repairs, req>>

RunTask(w) ==
    \/ Claim(w) \/ ClaimFails(w) \/ CheckReference(w) \/ DeleteBody(w)
    \/ MarkSucceeded(w) \/ MarkFailed(w)

-----------------------------------------------------------------------------
Init ==
    /\ post = [p \in Posts |-> NoRow]
    /\ schedule = [p \in Posts |-> NoPtr]
    /\ lastEvent = [p \in Posts |->
           [version |-> 0, old |-> "UNPUBLISHED", new |-> "UNPUBLISHED"]]
    /\ store = [b \in Bodies |-> "UNWRITTEN"]
    /\ cleanup = [key \in Key |-> [status |-> "NONE", attempts |-> 0]]
    /\ repairs = {}
    /\ req = [r \in Requests |-> Idle]
    /\ worker = [w \in Workers |-> Free]

Next ==
    \/ \E r \in Requests : Request_(r)
    \/ \E p \in Posts : SingleTx(p)
    \/ \E w \in Workers : RunTask(w) \/ WorkerCrash(w) \/ WorkerStart(w)

Spec == Init /\ [][Next]_vars

\* A running worker polls and handles what it claimed, and a request that saw
\* its transaction fail goes on to register the body; nothing starts a stopped
\* worker again.
Fairness ==
    /\ \A w \in Workers :
          /\ WF_vars(Claim(w)) /\ WF_vars(CheckReference(w)) /\ WF_vars(DeleteBody(w))
          /\ WF_vars(MarkSucceeded(w)) /\ WF_vars(MarkFailed(w))
    /\ \A r \in Requests : WF_vars(RegisterOrphan(r))

FairSpec == Spec /\ Fairness

-----------------------------------------------------------------------------
(* What holds of every reachable state *)

TypeOK ==
    /\ post \in [Posts -> Row]
    /\ schedule \in [Posts -> Pointer]
    /\ lastEvent \in [Posts -> Event]
    /\ store \in [Bodies -> Hashes \cup {"UNWRITTEN", "REMOVED"}]
    /\ cleanup \in [Key -> Task]
    /\ repairs \subseteq Repair
    /\ req \in [Requests -> Request]
    /\ worker \in [Workers -> Worker]

\* A pointer of PostgreSQL never dangles: the body it names is in MongoDB, with
\* the hash the row recorded, whatever fails between the two stores and however
\* cleanup workers interleave with the requests that switch pointers.
ReferencedBodiesLive ==
    \A p \in Posts : \A ptr \in {post[p].draft, post[p].published} :
        ptr # NoPtr => Readable(ptr)

\* The pending schedule of a post pins exactly the draft of the row, and only a
\* SCHEDULED post has one: no save, draft deletion or tag change moves the draft
\* that was validated for publication (post_schedule.go).
SchedulePinned ==
    \A p \in Posts :
        /\ schedule[p] # NoPtr <=> post[p].status = "SCHEDULED"
        /\ post[p].status = "SCHEDULED" => schedule[p] = post[p].draft

\* Whoever applies only the newest event of a post knows what the row shows: no
\* transaction changes the visibility of a post without an event.
LastEventShowsVisibility ==
    \A p \in Posts :
        /\ lastEvent[p].new = Visibility(post[p].status)
        /\ lastEvent[p].version <= post[p].version

\* A cleanup task names a body nobody will read again.  The orphan tasks are the
\* exception when an ambiguous commit made their body live after all.
TasksNameGarbage ==
    \A b \in Bodies, type \in TaskTypes :
        /\ cleanup[<<b, type>>].status # "NONE"
        /\ type = "OLD_DRAFT" \/ "ambiguous" \notin Faults
        => ~Referenced(b)

\* A task is DONE only when its body is gone, though all replicas claim under one
\* worker id and a stale claim may be marked by the worker that lost it.
DoneMeansRemoved ==
    \A key \in Key : cleanup[key].status = "DONE" => store[key[1]] = "REMOVED"

Live(b) == store[b] \in Hashes
Held(b) == \E r \in Requests : req[r].new.id = b
Collectable(b) == \E type \in TaskTypes : Claimable(cleanup[<<b, type>>])

\* No draft body leaks: one no row points at is held by the request that wrote
\* it, or is named by a task that is not given up.
DraftBodiesCollectable ==
    \A b \in DraftBodies : Live(b) => Referenced(b) \/ Held(b) \/ Collectable(b)

\* A draft body that no row points at any more has a task, and a body that a row
\* points at has none: cleanup loses nothing and is after nothing it must not touch.
GarbageExact == DraftBodiesCollectable /\ TasksNameGarbage

\* The same of the snapshots that publishing writes.
SnapshotsCollectable ==
    \A b \in Snapshots : Live(b) => Referenced(b) \/ Held(b) \/ Collectable(b)

-----------------------------------------------------------------------------
(* Why bodies that are read stay: the inductive invariant *)

\* A row that does not exist is blank, and a public row shows a body.
RowsWellFormed ==
    \A p \in Posts :
        /\ post[p].status = "NONE" => post[p] = NoRow
        /\ post[p].status = "PUBLISHED" => post[p].published # NoPtr

\* A request that loaded a row knows its post, one that read the draft has its
\* hash, and a transaction without a body can only be the one of CreatePost.
RequestsWellFormed ==
    \A r \in Requests :
        /\ req[r].pc \in {"loaded", "read"} => req[r].post \in Posts
        /\ req[r].pc = "read" => req[r].cur.draft.hash \in Hashes
        /\ req[r].pc = "written" /\ req[r].op # "create" => req[r].new # NoPtr
        /\ req[r].pc = "failed" => req[r].new # NoPtr

\* Two requests never hold one body.
HeldOnce ==
    \A r, s \in Requests :
        r # s /\ req[r].new # NoPtr => req[r].new.id # req[s].new.id

\* A body waiting for its transaction is known to its request only: it is not
\* referenced yet, and no task can remove it before it is.
PendingBodiesSafe ==
    \A r \in Requests :
        /\ req[r].new # NoPtr =>
              req[r].new.id \in Bodies /\ store[req[r].new.id] # "UNWRITTEN"
        /\ req[r].new # NoPtr /\ req[r].pc = "written" =>
              /\ Readable(req[r].new)
              /\ ~Referenced(req[r].new.id)
              /\ \A type \in TaskTypes : cleanup[<<req[r].new.id, type>>].status = "NONE"

\* Tasks exist for bodies that were written, and workers hold tasks that exist.
TasksExist ==
    /\ \A key \in Key : cleanup[key].status # "NONE" => store[key[1]] # "UNWRITTEN"
    /\ \A w \in Workers :
          /\ \A key \in worker[w].batch : cleanup[key].status # "NONE"
          /\ worker[w].pc \in {"delete", "succeed", "fail"} =>
                worker[w].task \in Key /\ cleanup[worker[w].task].status # "NONE"

\* What the worker learned before it deletes still holds when it deletes: a body
\* that lost its last reference never gets one again.
DeletionsSafe ==
    \A w \in Workers : worker[w].pc = "delete" => ~Referenced(worker[w].task[1])

\* ReferencedBodiesLive with what keeps it: the inductive invariant of Spec.
IInv ==
    /\ TypeOK /\ RowsWellFormed /\ ReferencedBodiesLive
    /\ RequestsWellFormed /\ HeldOnce /\ PendingBodiesSafe
    /\ TasksExist /\ DeletionsSafe

\* Draft pointers name bodies of drafts and public pointers name snapshots, and so does
\* what a request holds until its transaction has ended.
KindsKept ==
    /\ \A p \in Posts : /\ post[p].draft.id \in DraftBodies \cup {NoBody}
                        /\ post[p].published.id \in Snapshots \cup {NoBody}
    /\ \A r \in Requests : req[r].new # NoPtr =>
          /\ req[r].pc \in {"written", "failed"} /\ req[r].op \in {"create", "save", "publish"}
          /\ req[r].new.id \in IF req[r].op = "publish" THEN Snapshots ELSE DraftBodies

\* Two posts never share a draft body.
DraftsUnique ==
    \A p, q \in Posts : p # q /\ post[p].draft # NoPtr => post[p].draft.id # post[q].draft.id

\* A transaction that is reported as failed did not commit, unless the report may be wrong.
FailedUnreferenced ==
    "ambiguous" \notin Faults =>
        \A r \in Requests : req[r].pc = "failed" => ~Referenced(req[r].new.id)

\* TasksNameGarbage with what keeps it.
TasksInv == IInv /\ KindsKept /\ DraftsUnique /\ FailedUnreferenced /\ TasksNameGarbage

\* A worker that is about to mark a task DONE has removed the body.
SucceededRemoved ==
    \A w \in Workers : worker[w].pc = "succeed" => store[worker[w].task[1]] = "REMOVED"

\* DoneMeansRemoved with what keeps it.
DoneInv == TasksInv /\ DoneMeansRemoved /\ SucceededRemoved

\* The request that wrote a body is the only one to register it as an orphan.
OrphansFresh ==
    \A r \in Requests : req[r].new # NoPtr =>
        \A type \in {"ORPHAN_DRAFT", "ORPHAN_SNAPSHOT"} :
            cleanup[<<req[r].new.id, type>>].status = "NONE"

\* The task of a dropped draft is not refused, as no row points at the draft again ...
OldDraftsNeverFail ==
    \A b \in Bodies :
        cleanup[<<b, "OLD_DRAFT">>].status \in {"NONE", "PENDING", "PROCESSING", "DONE"}

\* ... and the task of an orphan is refused only where a row took the body over: the row
\* points at it still, or has dropped it with a task of its own.
FailuresExplained ==
    \A w \in Workers : worker[w].pc = "fail" =>
        LET b == worker[w].task[1] IN
        /\ worker[w].task[2] # "OLD_DRAFT"
        /\ b \in DraftBodies => Referenced(b) \/ cleanup[<<b, "OLD_DRAFT">>].status # "NONE"

\* GarbageExact with what keeps it where no call is lost.
GarbageInv ==
    /\ DoneInv /\ OrphansFresh /\ OldDraftsNeverFail /\ FailuresExplained
    /\ DraftBodiesCollectable

-----------------------------------------------------------------------------
(* What no step may do *)

\* Publishing shows the readers the draft the row holds at that moment, not one
\* that a concurrent save replaced after the publisher read it.
PublishesCurrentDraft ==
    [][\A p \in Posts :
         post[p].status # "PUBLISHED" /\ post'[p].status = "PUBLISHED"
         => /\ post[p].draft # NoPtr
            /\ store[post'[p].published.id] = store[post[p].draft.id]]_vars

\* The transaction that drops a draft pointer registers the body the row pointed
\* at, which is not always the one its caller had loaded.
DroppedDraftsRegistered ==
    [][\A p \in Posts :
         post'[p].draft # post[p].draft /\ post[p].draft # NoPtr
         => cleanup'[<<post[p].draft.id, "OLD_DRAFT">>].status # "NONE"]_vars

\* Events of a post carry growing versions, so a consumer can order and
\* deduplicate what at-least-once delivery shuffles.
EventsOrdered ==
    [][\A p \in Posts :
         lastEvent'[p] # lastEvent[p]
         => /\ lastEvent'[p].version > lastEvent[p].version
            /\ lastEvent'[p].version = post'[p].version]_vars

\* The old visibility of an event is what the event before it announced.
OldVisibilityIsPrevious ==
    [][\A p \in Posts :
         lastEvent'[p] # lastEvent[p] => lastEvent'[p].old = lastEvent[p].new]_vars

\* A repair task is about a body PostgreSQL points at.
RepairsNameReferencedBodies ==
    [][\A t \in repairs' \ repairs : References(post[t.post], t.body)]_vars

-----------------------------------------------------------------------------
(* What must eventually happen *)

\* Every registered cleanup ends: its body is removed or it is given up.
TasksSettle ==
    \A key \in Key :
        Claimable(cleanup[key]) ~> cleanup[key].status \in {"DONE", "DEAD"}

\* A draft body that no row points at any more leaves MongoDB.
GarbageRemoved ==
    \A b \in DraftBodies :
        Live(b) /\ Collectable(b) /\ ~Referenced(b) ~> store[b] = "REMOVED"

\* The cleanup worker gets to the end of its tasks, and to the bottom of the garbage.
CleanupEnds == TasksSettle /\ GarbageRemoved

-----------------------------------------------------------------------------
(* Readers see a PublishedContent *)

Shown(p) == IF post[p].status = "PUBLISHED" THEN store[post[p].published.id] ELSE NoHash

Content == INSTANCE PublishedContent
    WITH Hidden <- NoHash, visible <- [p \in Posts |-> Shown(p)]

ImplementsPublishedContent == Content!Spec
=============================================================================
