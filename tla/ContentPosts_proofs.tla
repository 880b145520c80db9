------------------------ MODULE ContentPosts_proofs ------------------------
(***************************************************************************)
(* Proofs about ContentPosts for every value of its constants.  IInv is    *)
(* inductive; the steps are grouped by what they change: requests only, a  *)
(* body, a row, a task, a worker.                                          *)
(*                                                                         *)
(* The second part takes the steps by their effects.  A change of a row    *)
(* takes its event, its pending schedule and what readers see with it      *)
(* (RowChange); a step moves tasks, bodies, pointers and what requests and *)
(* workers hold in a few ways only (Moves).  Each action is reduced to     *)
(* these once; the theorems that follow need no action by name.            *)
(***************************************************************************)
EXTENDS ContentPosts, TLAPS

-----------------------------------------------------------------------------
(* Data *)

LEMMA KeyParts ==
    ASSUME NEW key \in Key
    PROVE  /\ key = <<key[1], key[2]>>
           /\ key[1] \in Bodies
           /\ key[2] \in TaskTypes
BY DEF Key

LEMMA Blanks ==
    /\ NoPtr \in Pointer
    /\ NoRow \in Row
    /\ Idle \in Request
    /\ Idle.new = NoPtr
BY ConstantsAssumption DEF NoPtr, Pointer, NoRow, Row, Statuses, Idle, Request

\* A pointer that is not NoPtr of a live body has a body's hash.
LEMMA ReadableHash ==
    ASSUME TypeOK, NEW ptr \in Pointer, Readable(ptr)
    PROVE  ptr.id \in Bodies /\ ptr.hash \in Hashes /\ ptr # NoPtr
BY ConstantsAssumption DEF TypeOK, Pointer, Readable, NoPtr

\* An upsert adds at most the row of its key and never takes a row away.
LEMMA UpsertedRows ==
    ASSUME cleanup \in [Key -> Task], NEW key \in Key
    PROVE  /\ Upserted(cleanup, key) \in [Key -> Task]
           /\ \A k \in Key :
                 /\ k # key => Upserted(cleanup, key)[k] = cleanup[k]
                 /\ cleanup[k].status # "NONE" => Upserted(cleanup, key)[k] = cleanup[k]
           /\ Upserted(cleanup, key)[key].status # "NONE"
<1>1. [status |-> "PENDING", attempts |-> 0] \in Task
  BY ConstantsAssumption DEF Task, TaskStatuses
<1> QED BY <1>1 DEF Upserted

-----------------------------------------------------------------------------
(* Steps that change requests only *)

LEMMA RequestSteps ==
    ASSUME IInv, NEW r \in Requests, NEW q \in Request,
           req' = [req EXCEPT ![r] = q],
           UNCHANGED <<post, schedule, lastEvent, store, cleanup, worker>>,
           repairs' \subseteq Repair,
           q.new = NoPtr \/ q.new = req[r].new,
           q.new # NoPtr /\ q.pc = "written" => req[r].pc = "written",
           q.pc \in {"loaded", "read"} => q.post \in Posts,
           q.pc = "read" => q.cur.draft.hash \in Hashes,
           q.pc = "written" => q.op = "create",
           q.pc = "failed" => q.new # NoPtr
    PROVE  IInv'
<1> USE DEF IInv
<1>1. TypeOK'
  BY DEF TypeOK
<1>2. RowsWellFormed' /\ ReferencedBodiesLive' /\ RequestsWellFormed'
  BY DEF RowsWellFormed, ReferencedBodiesLive, Readable, RequestsWellFormed, TypeOK
<1>3. HeldOnce'
  <2>1. \A s \in Requests : req'[s].new = NoPtr \/ req'[s].new = req[s].new
    BY DEF TypeOK
  <2>2. \A s \in Requests : req[s].new # NoPtr => req[s].new.id \in Bodies
    BY DEF PendingBodiesSafe
  <2> QED BY <2>1, <2>2, ConstantsAssumption DEF HeldOnce, NoPtr
<1>4. PendingBodiesSafe'
  BY DEF TypeOK, PendingBodiesSafe, Readable, Referenced, References
<1>5. TasksExist' /\ DeletionsSafe'
  BY DEF TasksExist, DeletionsSafe, Referenced, References
<1> QED BY <1>1, <1>2, <1>3, <1>4, <1>5

LEMMA LoadInv ==
    ASSUME IInv, NEW r \in Requests, NEW p \in Posts, NEW op \in DOMAIN Admits,
           Load(r, p, op)
    PROVE  IInv'
<1> DEFINE q == [op |-> op, pc |-> "loaded", post |-> p, cur |-> post[p], new |-> NoPtr]
<1>1. q \in Request
  BY Blanks DEF IInv, TypeOK, Request, Ops, Admits
<1>2. repairs \subseteq Repair
  BY DEF IInv, TypeOK
<1> QED BY <1>1, <1>2, RequestSteps DEF Load

LEMMA ReadBodyInv ==
    ASSUME IInv, NEW r \in Requests, ReadBody(r)
    PROVE  IInv'
<1>1. req[r] \in Request /\ repairs \subseteq Repair
  BY DEF IInv, TypeOK
<1>2. CASE req[r].op \in {"publish", "schedule"}
  <2>1. PICK q : q = [req[r] EXCEPT !.pc = "read"]
    OBVIOUS
  <2>2. req' = [req EXCEPT ![r] = q]
    BY <1>2, <2>1 DEF ReadBody
  <2>3. /\ q \in Request /\ q.new = req[r].new /\ q.cur = req[r].cur
        /\ q.pc = "read" /\ q.post = req[r].post /\ q.cur.draft \in Pointer
    BY <1>1, <2>1 DEF Request, Row
  <2>4. Wanted(r) = q.cur.draft /\ Readable(Wanted(r)) /\ q.post \in Posts
    BY <1>2, <2>3 DEF ReadBody, Wanted, IInv, RequestsWellFormed
  <2>5. q.cur.draft.hash \in Hashes
    BY <2>3, <2>4, ReadableHash DEF IInv
  <2> QED BY <1>1, <2>2, <2>3, <2>4, <2>5, RequestSteps DEF ReadBody
<1>3. CASE req[r].op \notin {"publish", "schedule"}
  BY <1>1, <1>3, Blanks, RequestSteps DEF ReadBody, Idle
<1> QED BY <1>2, <1>3

LEMMA RepairRowsTyped ==
    ASSUME TypeOK, NEW r \in Requests, req[r].post \in Posts, NEW failure \in RepairTypes
    PROVE  RepairRows(r, failure) \subseteq Repair
<1>1. Wanted(r).id \in Bodies \cup {NoBody}
  BY DEF TypeOK, Request, Row, Pointer, Wanted
<1> QED BY <1>1 DEF RepairRows, Repair

\* Requests that end before they changed anything but the repair tasks.
LEMMA EndedInv ==
    ASSUME IInv, NEW r \in Requests, req' = [req EXCEPT ![r] = Idle],
           repairs' \subseteq Repair,
           UNCHANGED <<post, schedule, lastEvent, store, cleanup, worker>>
    PROVE  IInv'
BY Blanks, RequestSteps DEF Idle

LEMMA ReadBodyUnavailableInv ==
    ASSUME IInv, NEW r \in Requests, ReadBodyUnavailable(r)
    PROVE  IInv'
<1>1. Diagnosis(r) \in RepairTypes
  BY DEF Diagnosis, RepairTypes
<1>2. req[r].post \in Posts
  BY DEF IInv, RequestsWellFormed, ReadBodyUnavailable
<1>3. repairs' \subseteq Repair
  BY <1>1, <1>2, RepairRowsTyped DEF IInv, TypeOK, ReadBodyUnavailable
<1> QED BY <1>3, EndedInv DEF ReadBodyUnavailable

LEMMA ReadBodyFailsInv ==
    ASSUME IInv, NEW r \in Requests, ReadBodyFails(r)
    PROVE  IInv'
<1>1. req[r].post \in Posts
  BY DEF IInv, RequestsWellFormed, ReadBodyFails
<1>2. repairs' \subseteq Repair
  BY <1>1, RepairRowsTyped DEF IInv, TypeOK, ReadBodyFails, RepairTypes
<1> QED BY <1>2, EndedInv DEF ReadBodyFails

\* Reject, RequestCrash
LEMMA DroppedRequestInv ==
    ASSUME IInv, NEW r \in Requests, Reject(r) \/ RequestCrash(r)
    PROVE  IInv'
<1>1. repairs \subseteq Repair
  BY DEF IInv, TypeOK
<1> QED BY <1>1, EndedInv DEF Reject, RequestCrash

LEMMA CreateWithoutBodyInv ==
    ASSUME IInv, NEW r \in Requests, CreateWithoutBody(r)
    PROVE  IInv'
<1>1. PICK q : q = [Idle EXCEPT !.op = "create", !.pc = "written"]
  OBVIOUS
<1>2. q \in Request /\ q.new = NoPtr /\ q.pc = "written" /\ q.op = "create"
  BY <1>1, Blanks DEF Request, Idle, Ops
<1>3. req' = [req EXCEPT ![r] = q] /\ repairs \subseteq Repair
  BY <1>1 DEF CreateWithoutBody, IInv, TypeOK
<1> QED BY <1>2, <1>3, RequestSteps DEF CreateWithoutBody

LEMMA TxFailsInv ==
    ASSUME IInv, NEW r \in Requests, TxFails(r)
    PROVE  IInv'
<1>1. req[r] \in Request /\ repairs \subseteq Repair
  BY DEF IInv, TypeOK
<1>2. CASE req[r].new = NoPtr
  BY <1>1, <1>2, EndedInv DEF TxFails
<1>3. CASE req[r].new # NoPtr
  <2>1. PICK q : q = [req[r] EXCEPT !.pc = "failed"]
    OBVIOUS
  <2>2. q \in Request /\ q.new = req[r].new /\ q.pc = "failed"
    BY <1>1, <2>1 DEF Request
  <2>3. req' = [req EXCEPT ![r] = q]
    BY <1>3, <2>1 DEF TxFails
  <2> QED BY <1>1, <1>3, <2>2, <2>3, RequestSteps DEF TxFails
<1> QED BY <1>2, <1>3

-----------------------------------------------------------------------------
(* Steps that write a body *)

\* A fresh body disturbs nothing: no pointer, request, task or worker names it.
LEMMA BodyWrittenInv ==
    ASSUME IInv, NEW r \in Requests, NEW b \in Bodies, NEW h \in Hashes,
           NEW candidate \in Request,
           BodyWritten(r, b, h, candidate)
    PROVE  IInv'
<1> USE DEF IInv
<1>1. store[b] = "UNWRITTEN" /\ store' = [store EXCEPT ![b] = h] /\ h # "UNWRITTEN"
  BY ConstantsAssumption DEF BodyWritten
<1>2. PICK q : /\ req' = [req EXCEPT ![r] = q]
               /\ q \in Request
               /\ \/ q.pc = "idle" /\ q.new = NoPtr
                  \/ q.new # NoPtr /\ q.pc = "written" /\ q.new = [id |-> b, hash |-> h]
  <2>1. PICK c : c = [candidate EXCEPT !.pc = "written", !.new = [id |-> b, hash |-> h]]
    OBVIOUS
  <2>2. /\ c \in Request /\ c.pc = "written" /\ c.new = [id |-> b, hash |-> h]
        /\ c.new # NoPtr
    BY <2>1, ConstantsAssumption DEF Request, Pointer, NoPtr
  <2>3. req' = [req EXCEPT ![r] = c] \/ req' = [req EXCEPT ![r] = Idle]
    BY <2>1 DEF BodyWritten
  <2> QED BY <2>2, <2>3, Blanks DEF Idle
<1>3. UNCHANGED <<post, schedule, lastEvent, cleanup, repairs, worker>>
  BY DEF BodyWritten
<1>4. TypeOK'
  BY <1>1, <1>2, <1>3 DEF TypeOK
<1>5. \A p \in Posts : post[p].draft.id # b /\ post[p].published.id # b
  BY <1>1, ConstantsAssumption
     DEF ReferencedBodiesLive, Readable, TypeOK, Row, Pointer, NoPtr, Bodies
<1>6. RowsWellFormed' /\ RequestsWellFormed'
  BY <1>2, <1>3 DEF RowsWellFormed, RequestsWellFormed, TypeOK
<1>7. ReferencedBodiesLive'
  BY <1>1, <1>3, <1>5 DEF ReferencedBodiesLive, Readable, TypeOK
<1>8. \A s \in Requests : req[s].new.id # b
  BY <1>1, ConstantsAssumption DEF PendingBodiesSafe, NoPtr
<1>9. HeldOnce'
  BY <1>2, <1>8, ConstantsAssumption DEF HeldOnce, TypeOK, PendingBodiesSafe, NoPtr
<1>10. \A type \in TaskTypes : cleanup[<<b, type>>].status = "NONE"
  BY <1>1 DEF TasksExist, Key
<1>11. PendingBodiesSafe'
  BY <1>1, <1>2, <1>3, <1>5, <1>8, <1>10
     DEF PendingBodiesSafe, TypeOK, Readable, Referenced, References
<1>12. TasksExist' /\ DeletionsSafe'
  BY <1>1, <1>3, KeyParts DEF TasksExist, DeletionsSafe, Referenced, References, TypeOK
<1> QED BY <1>4, <1>6, <1>7, <1>9, <1>11, <1>12

\* WriteDraftBody, WriteSnapshotBody, CreateWithBody
LEMMA WriteInv ==
    ASSUME IInv, NEW r \in Requests,
           \/ \E b \in DraftBodies, h \in Hashes :
                 WriteDraftBody(r, b, h) \/ CreateWithBody(r, b, h)
           \/ \E b \in Snapshots : WriteSnapshotBody(r, b)
    PROVE  IInv'
<1>1. req[r] \in Request
  BY DEF IInv, TypeOK
<1>2. ASSUME NEW b \in DraftBodies, NEW h \in Hashes, WriteDraftBody(r, b, h)
      PROVE  IInv'
  BY <1>1, <1>2, BodyWrittenInv DEF WriteDraftBody, Bodies
<1>3. ASSUME NEW b \in DraftBodies, NEW h \in Hashes, CreateWithBody(r, b, h)
      PROVE  IInv'
  <2>1. PICK c : c = [Idle EXCEPT !.op = "create"]
    OBVIOUS
  <2>2. c \in Request
    BY <2>1, Blanks DEF Request, Ops
  <2>3. BodyWritten(r, b, h, c)
    BY <1>3, <2>1 DEF CreateWithBody
  <2> QED BY <2>2, <2>3, BodyWrittenInv DEF Bodies
<1>4. ASSUME NEW b \in Snapshots, WriteSnapshotBody(r, b)
      PROVE  IInv'
  <2>1. req[r].cur.draft.hash \in Hashes
    BY <1>4 DEF WriteSnapshotBody, IInv, RequestsWellFormed
  <2> QED BY <1>1, <1>4, <2>1, BodyWrittenInv DEF WriteSnapshotBody, Bodies
<1> QED BY <1>2, <1>3, <1>4

-----------------------------------------------------------------------------
(* Steps that change a row *)

LEMMA DroppedDraftRows ==
    ASSUME TypeOK, ReferencedBodiesLive, NEW p \in Posts
    PROVE  /\ DroppedDraft(post[p].draft) \in [Key -> Task]
           /\ \A key \in Key :
                 DroppedDraft(post[p].draft)[key] # cleanup[key]
                 => key[1] = post[p].draft.id /\ cleanup[key].status = "NONE"
           /\ post[p].draft # NoPtr =>
                 DroppedDraft(post[p].draft)[<<post[p].draft.id, "OLD_DRAFT">>].status # "NONE"
<1> DEFINE key == <<post[p].draft.id, "OLD_DRAFT">>
<1>1. cleanup \in [Key -> Task]
  BY DEF TypeOK
<1>2. CASE post[p].draft.id \in Bodies
  <2>1. key \in Key /\ key[1] = post[p].draft.id
    BY <1>2 DEF Key, TaskTypes
  <2>2. DroppedDraft(post[p].draft) = Upserted(cleanup, key)
    BY <1>2 DEF DroppedDraft
  <2> HIDE DEF key
  <2>3. \A k \in Key : Upserted(cleanup, key)[k] # cleanup[k] =>
           k = key /\ cleanup[k].status = "NONE"
    BY <1>1, <2>1, UpsertedRows
  <2>4. Upserted(cleanup, key) \in [Key -> Task] /\ Upserted(cleanup, key)[key].status # "NONE"
    BY <1>1, <2>1, UpsertedRows
  <2> QED BY <2>1, <2>2, <2>3, <2>4 DEF key
<1>3. CASE post[p].draft.id \notin Bodies
  BY <1>1, <1>3 DEF DroppedDraft, ReferencedBodiesLive, Readable
<1> QED BY <1>2, <1>3

\* A row takes over the body of a request that ends with it, or keeps or drops
\* what it had; the task registered with it is for the draft it drops.
LEMMA RowSteps ==
    ASSUME IInv, NEW p \in Posts, NEW row \in Row,
           post' = [post EXCEPT ![p] = row],
           row.status # "NONE",
           row.status = "PUBLISHED" => row.published # NoPtr,
           schedule' \in [Posts -> Pointer],
           lastEvent' \in [Posts -> Event],
           cleanup' \in {cleanup, DroppedDraft(post[p].draft)},
           req' \in [Requests -> Request],
           \A s \in Requests :
              \/ req'[s] \in {req[s], Idle}
              \/ /\ req'[s].pc = "failed"
                 /\ req'[s].new = req[s].new /\ req[s].new # NoPtr,
           \A ptr \in {row.draft, row.published} :
              \/ ptr \in {NoPtr, post[p].draft, post[p].published}
              \/ \E s \in Requests :
                    req[s].pc = "written" /\ req[s].new = ptr /\ req'[s].pc # "written",
           UNCHANGED <<store, repairs, worker>>
    PROVE  IInv'
<1> USE DEF IInv
<1>1. /\ cleanup' \in [Key -> Task]
      /\ \A key \in Key : cleanup'[key] # cleanup[key] =>
            key[1] = post[p].draft.id /\ cleanup[key].status = "NONE"
  <2>1. cleanup \in [Key -> Task]
    BY DEF TypeOK
  <2>2. CASE cleanup' = cleanup
    BY <2>1, <2>2
  <2>3. CASE cleanup' = DroppedDraft(post[p].draft)
    BY <2>3, DroppedDraftRows
  <2> QED BY <2>2, <2>3
<1>2. TypeOK'
  BY <1>1 DEF TypeOK
<1>3. RowsWellFormed' /\ RequestsWellFormed'
  <2>1. RowsWellFormed'
    BY DEF RowsWellFormed, TypeOK
  <2>2. RequestsWellFormed'
    BY DEF RequestsWellFormed, Idle
  <2> QED BY <2>1, <2>2
<1>4. ReferencedBodiesLive'
  BY DEF ReferencedBodiesLive, PendingBodiesSafe, Readable, TypeOK
<1>5. \A s \in Requests : req'[s].new \in {NoPtr, req[s].new}
  BY Blanks
<1>6. HeldOnce'
  BY <1>5, ConstantsAssumption DEF HeldOnce, PendingBodiesSafe, NoPtr
<1>7. \A b \in Bodies : Referenced(b)' =>
         Referenced(b) \/ \E s \in Requests :
            req[s].pc = "written" /\ req[s].new # NoPtr /\ req[s].new.id = b
            /\ req'[s].pc # "written"
  BY ConstantsAssumption DEF Referenced, References, TypeOK, NoPtr
<1>8. post[p].draft.id \in Bodies =>
         Referenced(post[p].draft.id) /\ store[post[p].draft.id] # "UNWRITTEN"
  <2>1. post[p].draft \in Pointer
    BY DEF TypeOK, Row
  <2> QED BY <2>1, ReadableHash, ConstantsAssumption
          DEF ReferencedBodiesLive, Referenced, References, NoPtr, Readable
<1>9. PendingBodiesSafe'
  <2> SUFFICES ASSUME NEW s \in Requests, NEW new, new = req'[s].new, new # NoPtr
               PROVE  /\ new.id \in Bodies /\ store'[new.id] # "UNWRITTEN"
                      /\ req'[s].pc = "written" =>
                            /\ Readable(new)'
                            /\ ~Referenced(new.id)'
                            /\ \A type \in TaskTypes :
                                  cleanup'[<<new.id, type>>].status = "NONE"
    BY DEF PendingBodiesSafe, Readable, Referenced
  <2>1. new = req[s].new
    BY <1>5
  <2>2. new.id \in Bodies /\ store[new.id] # "UNWRITTEN"
    BY <2>1 DEF PendingBodiesSafe
  <2>3. ASSUME req'[s].pc = "written"
        PROVE  /\ Readable(new) /\ ~Referenced(new.id)'
               /\ \A type \in TaskTypes : cleanup'[<<new.id, type>>].status = "NONE"
    <3>1. req[s].pc = "written"
      BY <2>3 DEF Idle
    <3>2. Readable(new) /\ ~Referenced(new.id)
      BY <2>1, <3>1 DEF PendingBodiesSafe
    <3>3. ~Referenced(new.id)'
      BY <1>7, <2>1, <2>2, <2>3, <3>2 DEF HeldOnce
    <3>4. ASSUME NEW type \in TaskTypes
          PROVE  cleanup'[<<new.id, type>>].status = "NONE"
      <4>1. <<new.id, type>> \in Key
        BY <2>2 DEF Key
      <4>2. cleanup[<<new.id, type>>].status = "NONE"
        BY <2>1, <3>1 DEF PendingBodiesSafe
      <4> QED BY <1>1, <1>8, <2>2, <3>2, <4>1, <4>2
    <3> QED BY <3>2, <3>3, <3>4
  <2> QED BY <2>2, <2>3 DEF Readable
<1>10. TasksExist'
  BY <1>1, <1>8, KeyParts DEF TasksExist, TypeOK, Worker
<1>11. DeletionsSafe'
  <2> SUFFICES ASSUME NEW w \in Workers, worker[w].pc = "delete"
               PROVE  ~Referenced(worker[w].task[1])'
    BY DEF DeletionsSafe, Referenced
  <2>1. worker[w].task \in Key /\ cleanup[worker[w].task].status # "NONE"
    BY DEF TasksExist
  <2>2. ~Referenced(worker[w].task[1])
    BY DEF DeletionsSafe
  <2>3. \A s \in Requests : req[s].new # NoPtr /\ req[s].pc = "written" =>
           req[s].new.id # worker[w].task[1]
    BY <2>1, KeyParts DEF PendingBodiesSafe
  <2> QED BY <1>7, <2>1, <2>2, <2>3, KeyParts
<1> QED BY <1>2, <1>3, <1>4, <1>6, <1>9, <1>10, <1>11

LEMMA AnsweredRequests ==
    ASSUME TypeOK, NEW r \in Requests, Answered(r)
    PROVE  /\ req' \in [Requests -> Request]
           /\ \A s \in Requests :
                 \/ req'[s] \in {req[s], Idle}
                 \/ /\ req'[s].pc = "failed"
                    /\ req'[s].new = req[s].new /\ req[s].new # NoPtr
           /\ req'[r].pc # "written"
<1>1. PICK q : q = [req[r] EXCEPT !.pc = "failed"]
  OBVIOUS
<1>2. q \in Request /\ q.pc = "failed" /\ q.new = req[r].new
  BY <1>1 DEF TypeOK, Request
<1>3. \/ req' = [req EXCEPT ![r] = Idle]
      \/ req' = [req EXCEPT ![r] = q] /\ req[r].new # NoPtr
  BY <1>1 DEF Answered
<1>4. Idle \in Request /\ Idle.pc = "idle"
  BY Blanks DEF Idle
<1> QED BY <1>2, <1>3, <1>4 DEF TypeOK

LEMMA VisibilityTyped ==
    ASSUME NEW status \in Statuses
    PROVE  Visibility(status) \in Visibilities
BY DEF Visibility, Visibilities, Statuses

LEMMA EmittedEvents ==
    ASSUME TypeOK, NEW p \in Posts, NEW loaded \in Statuses, NEW row \in Row
    PROVE  Emitted(p, loaded, row) \in [Posts -> Event]
<1>1. [version |-> row.version, old |-> Visibility(loaded), new |-> Visibility(row.status)]
         \in Event
  BY VisibilityTyped DEF Row, Event
<1> QED BY <1>1 DEF TypeOK, Emitted

LEMMA MovedRow ==
    ASSUME NEW row \in Row, CanBump(row), NEW status \in Statuses
    PROVE  /\ Moved(row, status) \in Row
           /\ Moved(row, status).status = status
           /\ Moved(row, status).version = row.version + 1
           /\ Moved(row, status).draft = row.draft
           /\ Moved(row, status).published = row.published
<1>1. row.version \in 0..MaxVersion /\ row.version < MaxVersion
  BY DEF Row, CanBump
<1>2. row.version + 1 \in 0..MaxVersion
  BY <1>1, ConstantsAssumption
<1>3. PICK version : version = row.version + 1
  OBVIOUS
<1>4. Moved(row, status) = [row EXCEPT !.status = status, !.version = version]
  BY <1>3 DEF Moved, Row
<1> QED BY <1>2, <1>3, <1>4 DEF Row

\* The rows that CommitSave and CommitPublish leave
LEMMA SwitchedRow ==
    ASSUME NEW row \in Row, NEW draft \in Pointer, NEW published \in Pointer
    PROVE  /\ [row EXCEPT !.draft = draft, !.published = published] \in Row
           /\ [row EXCEPT !.draft = draft, !.published = published].status = row.status
           /\ [row EXCEPT !.draft = draft, !.published = published].version = row.version
           /\ [row EXCEPT !.draft = draft, !.published = published].draft = draft
           /\ [row EXCEPT !.draft = draft, !.published = published].published = published
           /\ [row EXCEPT !.draft = draft] \in Row
           /\ [row EXCEPT !.draft = draft].status = row.status
           /\ [row EXCEPT !.draft = draft].version = row.version
           /\ [row EXCEPT !.draft = draft].draft = draft
           /\ [row EXCEPT !.draft = draft].published = row.published
BY DEF Row

\* What the typed request and row look like, for every commit
LEMMA CommitTypes ==
    ASSUME TypeOK, NEW r \in Requests, NEW p \in Posts
    PROVE  /\ req[r] \in Request /\ req[r].new \in Pointer /\ req[r].cur \in Row
           /\ req[r].cur.status \in Statuses /\ req[r].cur.draft \in Pointer
           /\ post[p] \in Row /\ post[p].status \in Statuses
           /\ schedule \in [Posts -> Pointer] /\ lastEvent \in [Posts -> Event]
BY DEF TypeOK, Request, Row

LEMMA CommitCreateInv ==
    ASSUME IInv, NEW r \in Requests, NEW p \in Posts, CommitCreate(r, p)
    PROVE  IInv'
<1> DEFINE row == [status |-> "DRAFT", version |-> 1, draft |-> req[r].new, published |-> NoPtr]
<1>1. TypeOK
  BY DEF IInv
<1>2. row \in Row
  BY <1>1, CommitTypes, Blanks, ConstantsAssumption DEF Row, Statuses
<1> QED BY <1>1, <1>2, CommitTypes, AnsweredRequests, RowSteps DEF CommitCreate

LEMMA CommitSaveInv ==
    ASSUME IInv, NEW r \in Requests, NEW p \in Posts, CommitSave(r, p)
    PROVE  IInv'
<1> DEFINE moved == Moved(post[p], post[p].status)
           row == [moved EXCEPT !.draft = req[r].new]
<1>1. TypeOK /\ RowsWellFormed
  BY DEF IInv
<1>2. /\ post' = [post EXCEPT ![p] = row]
      /\ post[p].draft = req[r].cur.draft
      /\ cleanup' = DroppedDraft(post[p].draft)
      /\ post[p].status # "NONE"
  BY DEF CommitSave, UpdateDraftBodyMatches, SameDraft
<1>3. moved \in Row /\ moved.status = post[p].status /\ moved.published = post[p].published
  BY <1>1, CommitTypes, MovedRow DEF CommitSave
<1> HIDE DEF moved
<1>4. /\ row \in Row /\ row.status = post[p].status
      /\ row.draft = req[r].new /\ row.published = post[p].published
  BY <1>1, <1>3, CommitTypes, SwitchedRow
<1> HIDE DEF row
<1>5. row.status = "PUBLISHED" => row.published # NoPtr
  BY <1>1, <1>4 DEF RowsWellFormed
<1>6. req[r].pc = "written" /\ Answered(r) /\ UNCHANGED <<schedule, lastEvent, store, repairs, worker>>
  BY DEF CommitSave
<1> QED BY <1>1, <1>2, <1>4, <1>5, <1>6, CommitTypes, AnsweredRequests, RowSteps

LEMMA CommitPublishInv ==
    ASSUME IInv, NEW r \in Requests, NEW p \in Posts, CommitPublish(r, p)
    PROVE  IInv'
<1> DEFINE moved == Moved(post[p], "PUBLISHED")
           row == [moved EXCEPT !.draft = NoPtr, !.published = req[r].new]
<1>1. TypeOK /\ "PUBLISHED" \in Statuses
  BY DEF IInv, Statuses
<1>2. /\ post' = [post EXCEPT ![p] = row]
      /\ post[p].draft = req[r].cur.draft
      /\ cleanup' = DroppedDraft(post[p].draft)
  BY DEF CommitPublish, PublishMatches, SameDraft
<1>3. post'[p] = row
  BY <1>1, <1>2 DEF TypeOK
<1>4. moved \in Row /\ moved.status = "PUBLISHED"
  BY <1>1, CommitTypes, MovedRow DEF CommitPublish
<1> HIDE DEF moved
<1>5. /\ row \in Row /\ row.status = "PUBLISHED"
      /\ row.draft = NoPtr /\ row.published = req[r].new
  <2>1. NoPtr \in Pointer /\ req[r].new \in Pointer
    BY <1>1, CommitTypes, Blanks
  <2> QED BY <1>4, <2>1 DEF Row
<1> HIDE DEF row
<1>6. lastEvent' \in [Posts -> Event]
  BY <1>1, <1>3, <1>5, CommitTypes, EmittedEvents DEF CommitPublish
<1>7. req[r].new # NoPtr
  BY DEF CommitPublish, IInv, RequestsWellFormed
<1>8. req[r].pc = "written" /\ Answered(r) /\ UNCHANGED <<schedule, store, repairs, worker>>
  BY DEF CommitPublish
<1> QED BY <1>1, <1>2, <1>5, <1>6, <1>7, <1>8, CommitTypes, AnsweredRequests, RowSteps

\* Transactions that only move the status and the version of a row
LEMMA MovedInv ==
    ASSUME IInv, NEW p \in Posts, NEW status \in Statuses, CanBump(post[p]),
           post' = [post EXCEPT ![p] = Moved(@, status)],
           status # "NONE",
           status = "PUBLISHED" => post[p].status = "PUBLISHED",
           schedule' \in [Posts -> Pointer],
           lastEvent' \in [Posts -> Event],
           req' = req \/ \E r \in Requests : Answered(r),
           UNCHANGED <<store, cleanup, repairs, worker>>
    PROVE  IInv'
<1> DEFINE row == Moved(post[p], status)
<1>1. TypeOK /\ RowsWellFormed /\ post[p] \in Row
  BY DEF IInv, TypeOK
<1>2. /\ row \in Row /\ row.status = status
      /\ row.draft = post[p].draft /\ row.published = post[p].published
  BY <1>1, MovedRow
<1>3. post' = [post EXCEPT ![p] = row]
  OBVIOUS
<1> HIDE DEF row
<1>4. row.status = "PUBLISHED" => row.published # NoPtr
  BY <1>1, <1>2 DEF RowsWellFormed
<1>5. CASE req' = req
  <2>1. req' \in [Requests -> Request]
    BY <1>1, <1>5 DEF TypeOK
  <2> QED BY <1>2, <1>3, <1>4, <1>5, <2>1, RowSteps
<1>6. CASE \E r \in Requests : Answered(r)
  <2>1. PICK r \in Requests : Answered(r)
    BY <1>6
  <2>2. /\ req' \in [Requests -> Request]
        /\ \A s \in Requests :
              \/ req'[s] \in {req[s], Idle}
              \/ /\ req'[s].pc = "failed"
                 /\ req'[s].new = req[s].new /\ req[s].new # NoPtr
    BY <1>1, <2>1, AnsweredRequests
  <2>3. \A ptr \in {row.draft, row.published} :
           \/ ptr \in {NoPtr, post[p].draft, post[p].published}
           \/ \E s \in Requests :
                 req[s].pc = "written" /\ req[s].new = ptr /\ req'[s].pc # "written"
    BY <1>2
  <2>4. row.status # "NONE" /\ cleanup' \in {cleanup, DroppedDraft(post[p].draft)}
    BY <1>2
  <2> QED BY <1>2, <1>3, <1>4, <2>2, <2>3, <2>4, RowSteps
<1> QED BY <1>5, <1>6

LEMMA CommitScheduleInv ==
    ASSUME IInv, NEW r \in Requests, NEW p \in Posts, CommitSchedule(r, p)
    PROVE  IInv'
<1>1. TypeOK
  BY DEF IInv
<1>2. schedule' \in [Posts -> Pointer] /\ lastEvent' \in [Posts -> Event]
  BY <1>1, CommitTypes DEF CommitSchedule
<1> QED BY <1>2, MovedInv DEF CommitSchedule, Statuses

LEMMA CommitMetaInv ==
    ASSUME IInv, NEW r \in Requests, NEW p \in Posts, CommitMeta(r, p)
    PROVE  IInv'
<1>1. schedule' \in [Posts -> Pointer] /\ lastEvent' \in [Posts -> Event]
  BY DEF CommitMeta, IInv, TypeOK
<1> QED BY <1>1, MovedInv DEF CommitMeta, UpdateMetaMatches, Statuses

\* CommitUnpublish, CommitDelete, CommitRestore, CommitCancelSchedule
LEMMA LifecycleInv ==
    ASSUME IInv, NEW r \in Requests, NEW p \in Posts,
           \/ CommitUnpublish(r, p) \/ CommitDelete(r, p)
           \/ CommitRestore(r, p) \/ CommitCancelSchedule(r, p)
    PROVE  IInv'
<1>1. TypeOK
  BY DEF IInv
<1>2. PICK op \in Ops, status \in {"DRAFT", "DELETED"} : Lifecycle(r, p, op, status)
  BY DEF CommitUnpublish, CommitDelete, CommitRestore, CommitCancelSchedule, Ops
<1>3. status \in Statuses /\ Moved(post[p], status) \in Row /\ post'[p] = Moved(post[p], status)
  BY <1>1, <1>2, CommitTypes, MovedRow DEF Lifecycle, Statuses, TypeOK
<1>4. lastEvent' \in [Posts -> Event]
  <2>1. lastEvent' \in {lastEvent, Emitted(p, req[r].cur.status, post'[p])}
    BY DEF CommitUnpublish, CommitDelete, CommitRestore, CommitCancelSchedule
  <2> QED BY <1>1, <1>3, <2>1, CommitTypes, EmittedEvents
<1>5. schedule' \in [Posts -> Pointer]
  BY <1>1, CommitTypes, Blanks
     DEF CommitUnpublish, CommitDelete, CommitRestore, CommitCancelSchedule
<1> QED BY <1>2, <1>3, <1>4, <1>5, MovedInv DEF Lifecycle

LEMMA SingleTxInv ==
    ASSUME IInv, NEW p \in Posts, SingleTx(p)
    PROVE  IInv'
<1>1. /\ TypeOK /\ RowsWellFormed /\ post[p] \in Row /\ post[p].status \in Statuses
      /\ schedule \in [Posts -> Pointer] /\ lastEvent \in [Posts -> Event]
      /\ req \in [Requests -> Request]
  BY DEF IInv, TypeOK, Row
<1>2. CASE DeleteAuthorDraft(p)
  <2> DEFINE moved == Moved(post[p], post[p].status)
             row == [moved EXCEPT !.draft = NoPtr]
  <2>1. moved \in Row /\ moved.status = post[p].status /\ moved.published = post[p].published
    BY <1>1, <1>2, MovedRow DEF DeleteAuthorDraft
  <2>2. post' = [post EXCEPT ![p] = row]
    BY <1>2 DEF DeleteAuthorDraft
  <2> HIDE DEF moved
  <2>3. /\ row \in Row /\ row.status = post[p].status
        /\ row.draft = NoPtr /\ row.published = post[p].published
    BY <2>1, Blanks, SwitchedRow DEF Row
  <2> HIDE DEF row
  <2>4. row.status # "NONE" /\ (row.status = "PUBLISHED" => row.published # NoPtr)
    BY <1>1, <1>2, <2>3 DEF DeleteAuthorDraft, RowsWellFormed
  <2> QED BY <1>1, <1>2, <2>2, <2>3, <2>4, RowSteps DEF DeleteAuthorDraft
<1>3. CASE DeleteAdminPost(p)
  <2>1. "DELETED" \in Statuses
    BY DEF Statuses
  <2>2. Moved(post[p], "DELETED") \in Row /\ post'[p] = Moved(post[p], "DELETED")
    BY <1>1, <1>3, <2>1, MovedRow DEF DeleteAdminPost, TypeOK
  <2>3. lastEvent' \in [Posts -> Event] /\ schedule' \in [Posts -> Pointer]
    BY <1>1, <1>3, <2>2, Blanks, EmittedEvents DEF DeleteAdminPost
  <2> QED BY <1>3, <2>1, <2>3, MovedInv DEF DeleteAdminPost
<1>4. CASE MutatePostTags(p)
  BY <1>1, <1>4, MovedInv DEF MutatePostTags
<1> QED BY <1>2, <1>3, <1>4 DEF SingleTx

-----------------------------------------------------------------------------
(* Steps that register, claim and carry out tasks *)

LEMMA RegisterOrphanInv ==
    ASSUME IInv, NEW r \in Requests, RegisterOrphan(r)
    PROVE  IInv'
<1> USE DEF IInv
<1> DEFINE key == <<req[r].new.id, OrphanType(req[r].op)>>
<1>1. /\ req[r].new # NoPtr /\ req[r].new.id \in Bodies
      /\ store[req[r].new.id] # "UNWRITTEN"
  BY DEF RegisterOrphan, RequestsWellFormed, PendingBodiesSafe
<1>2. key \in Key /\ key[1] = req[r].new.id
  BY <1>1 DEF Key, OrphanType, TaskTypes
<1>3. cleanup \in [Key -> Task] /\ cleanup' \in {cleanup, Upserted(cleanup, key)}
  BY DEF RegisterOrphan, TypeOK
<1> HIDE DEF key
<1>4. /\ cleanup' \in [Key -> Task]
      /\ \A k \in Key : cleanup'[k] # cleanup[k] => k = key /\ cleanup[k].status = "NONE"
  BY <1>2, <1>3, UpsertedRows
<1>5. /\ req' = [req EXCEPT ![r] = Idle]
      /\ UNCHANGED <<post, schedule, lastEvent, store, repairs, worker>>
  BY DEF RegisterOrphan
<1>6. TypeOK'
  BY <1>4, <1>5, Blanks DEF TypeOK
<1>7. RowsWellFormed' /\ ReferencedBodiesLive'
  BY <1>5 DEF RowsWellFormed, ReferencedBodiesLive, Readable
<1>8. RequestsWellFormed'
  BY <1>5 DEF RequestsWellFormed, Idle, TypeOK
<1>9. \A s \in Requests : (req'[s] = req[s] /\ s # r) \/ req'[s] = Idle
  BY <1>5 DEF TypeOK
<1>10. HeldOnce'
  <2>1. NoPtr.id \notin Bodies
    BY ConstantsAssumption DEF NoPtr
  <2>2. \A s \in Requests : req'[s].new \in {NoPtr, req[s].new}
    BY <1>9, Blanks
  <2> QED BY <2>1, <2>2 DEF HeldOnce, PendingBodiesSafe
<1>11. PendingBodiesSafe'
  <2> SUFFICES ASSUME NEW s \in Requests, NEW new, new = req'[s].new, new # NoPtr
               PROVE  /\ new.id \in Bodies /\ store'[new.id] # "UNWRITTEN"
                      /\ req'[s].pc = "written" =>
                            /\ Readable(new)'
                            /\ ~Referenced(new.id)'
                            /\ \A type \in TaskTypes :
                                  cleanup'[<<new.id, type>>].status = "NONE"
    BY DEF PendingBodiesSafe, Readable, Referenced
  <2>1. s # r /\ req'[s] = req[s]
    BY <1>9, Blanks
  <2>2. new.id \in Bodies /\ store[new.id] # "UNWRITTEN" /\ new.id # req[r].new.id
    BY <1>1, <2>1 DEF PendingBodiesSafe, HeldOnce
  <2>3. ASSUME req'[s].pc = "written", NEW type \in TaskTypes
        PROVE  cleanup'[<<new.id, type>>].status = "NONE"
    <3>1. <<new.id, type>> \in Key /\ <<new.id, type>> # key
      BY <1>2, <2>2 DEF Key
    <3>2. cleanup[<<new.id, type>>].status = "NONE"
      BY <2>1, <2>3 DEF PendingBodiesSafe
    <3> QED BY <1>4, <3>1, <3>2
  <2>4. req'[s].pc = "written" => Readable(new)' /\ ~Referenced(new.id)'
    BY <1>5, <2>1 DEF PendingBodiesSafe, Readable, Referenced, References
  <2> QED BY <1>5, <2>2, <2>3, <2>4
<1>12. TasksExist'
  BY <1>1, <1>2, <1>4, <1>5, KeyParts DEF TasksExist, TypeOK, Worker
<1>13. DeletionsSafe'
  BY <1>5 DEF DeletionsSafe, Referenced, References
<1> QED BY <1>6, <1>7, <1>8, <1>10, <1>11, <1>12, <1>13

\* Steps of a worker that leave the store alone: rows that exist go on existing,
\* no row appears, and the worker holds rows it held or that exist.
LEMMA WorkerSteps ==
    ASSUME IInv, NEW w \in Workers, NEW x \in Worker,
           worker' = [worker EXCEPT ![w] = x],
           cleanup' \in [Key -> Task],
           \A key \in Key : cleanup'[key].status = "NONE" <=> cleanup[key].status = "NONE",
           \A key \in x.batch : cleanup[key].status # "NONE",
           x.pc \in {"delete", "succeed", "fail"} =>
              x.task \in Key /\ cleanup[x.task].status # "NONE",
           x.pc = "delete" => ~Referenced(x.task[1]),
           UNCHANGED <<post, schedule, lastEvent, store, repairs, req>>
    PROVE  IInv'
<1> USE DEF IInv
<1>1. TypeOK'
  BY DEF TypeOK
<1>2. RowsWellFormed' /\ ReferencedBodiesLive' /\ RequestsWellFormed' /\ HeldOnce'
  BY DEF RowsWellFormed, ReferencedBodiesLive, RequestsWellFormed, HeldOnce, Readable
<1>3. PendingBodiesSafe'
  <2>1. \A r \in Requests : req[r].new # NoPtr => \A type \in TaskTypes :
           cleanup[<<req[r].new.id, type>>].status = "NONE"
           => cleanup'[<<req[r].new.id, type>>].status = "NONE"
    BY DEF PendingBodiesSafe, Key
  <2> QED BY <2>1 DEF PendingBodiesSafe, Readable, Referenced, References
<1>4. TasksExist'
  BY DEF TasksExist, TypeOK, Worker
<1>5. DeletionsSafe'
  BY DEF DeletionsSafe, Referenced, References, TypeOK
<1> QED BY <1>1, <1>2, <1>3, <1>4, <1>5

LEMMA ClaimInv ==
    ASSUME IInv, NEW w \in Workers, Claim(w)
    PROVE  IInv'
<1>1. cleanup \in [Key -> Task] /\ worker \in [Workers -> Worker]
  BY DEF IInv, TypeOK
<1>2. PICK picked \in SUBSET {key \in Key : Claimable(cleanup[key])} :
         /\ cleanup' = [key \in Key |->
               IF key \in picked THEN Claimed(cleanup[key]) ELSE cleanup[key]]
         /\ \/ worker' = [worker EXCEPT ![w] = [Free EXCEPT !.pc = "claimed", !.batch = picked]]
            \/ worker' = [worker EXCEPT ![w] = Stopped]
  BY DEF Claim
<1>3. \A t \in Task : Claimed(t) \in Task /\ Claimed(t).status = "PROCESSING"
  <2> SUFFICES ASSUME NEW t \in Task
               PROVE  Claimed(t) \in Task /\ Claimed(t).status = "PROCESSING"
    OBVIOUS
  <2>1. t.attempts \in 0..DeadThreshold
    BY DEF Task
  <2>2. (IF t.attempts < DeadThreshold THEN t.attempts + 1 ELSE t.attempts) \in 0..DeadThreshold
    BY <2>1, ConstantsAssumption
  <2> QED BY <2>2 DEF Claimed, Task, TaskStatuses
<1>4. \A key \in picked : key \in Key /\ cleanup[key].status # "NONE"
  BY DEF Claimable
<1>5. PICK x : x = [Free EXCEPT !.pc = "claimed", !.batch = picked]
  OBVIOUS
<1>6. /\ x \in Worker /\ x.pc = "claimed" /\ x.batch = picked
      /\ Stopped \in Worker /\ Stopped.pc = "stopped" /\ Stopped.batch = {}
  BY <1>4, <1>5 DEF Free, Stopped, Worker, WorkerStates
<1>7. /\ cleanup' \in [Key -> Task]
      /\ \A key \in Key : cleanup'[key].status = "NONE" <=> cleanup[key].status = "NONE"
  BY <1>1, <1>2, <1>3, <1>4
<1>8. PICK y \in {x, Stopped} : worker' = [worker EXCEPT ![w] = y]
  BY <1>2, <1>5
<1>9. y \in Worker /\ y.pc \in {"claimed", "stopped"} /\ y.batch \subseteq picked
  BY <1>6, <1>8
<1>10. \A key \in y.batch : cleanup[key].status # "NONE"
  BY <1>4, <1>9
<1>11. UNCHANGED <<post, schedule, lastEvent, store, repairs, req>>
  BY DEF Claim
<1> QED BY <1>7, <1>8, <1>9, <1>10, <1>11, WorkerSteps

\* ClaimFails, WorkerCrash, WorkerStart, and every mark that ends the worker
LEMMA WorkerEmptied ==
    ASSUME IInv, NEW w \in Workers, NEW x \in {Free, Stopped},
           worker' = [worker EXCEPT ![w] = x],
           UNCHANGED <<post, schedule, lastEvent, store, cleanup, repairs, req>>
    PROVE  IInv'
<1>1. x \in Worker /\ x.pc \in {"idle", "stopped"} /\ x.batch = {}
  BY DEF Free, Stopped, Worker, WorkerStates
<1>2. cleanup' \in [Key -> Task]
  BY DEF IInv, TypeOK
<1> QED BY <1>1, <1>2, WorkerSteps

LEMMA CheckReferenceInv ==
    ASSUME IInv, NEW w \in Workers, CheckReference(w)
    PROVE  IInv'
<1>1. PICK key \in worker[w].batch, pc \in {"fail", "delete"} :
         /\ worker' = Handling(w, key, pc)
         /\ pc = "delete" => ~Referenced(key[1])
  BY DEF CheckReference
<1>2. PICK x : x = [pc |-> pc, task |-> key, batch |-> worker[w].batch \ {key}]
  OBVIOUS
<1>3. worker[w].batch \subseteq Key /\ cleanup' \in [Key -> Task]
  BY DEF CheckReference, IInv, TypeOK, Worker
<1>4. x \in Worker
  BY <1>1, <1>2, <1>3 DEF Worker, WorkerStates
<1>5. worker' = [worker EXCEPT ![w] = x]
  BY <1>1, <1>2 DEF Handling
<1>6. \A k \in worker[w].batch : cleanup[k].status # "NONE"
  BY DEF IInv, TasksExist
<1>7. /\ \A k \in x.batch : cleanup[k].status # "NONE"
      /\ x.task \in Key /\ cleanup[x.task].status # "NONE"
      /\ x.pc = "delete" => ~Referenced(x.task[1])
  BY <1>1, <1>2, <1>3, <1>6
<1>8. UNCHANGED <<post, schedule, lastEvent, store, cleanup, repairs, req>>
  BY DEF CheckReference
<1> QED BY <1>3, <1>4, <1>5, <1>7, <1>8, WorkerSteps

\* The deletion removes a body that no pointer, request or schedule needs.
LEMMA DeleteBodyInv ==
    ASSUME IInv, NEW w \in Workers, DeleteBody(w)
    PROVE  IInv'
<1> USE DEF IInv
<1> DEFINE b == worker[w].task[1]
<1>1. worker[w].task \in Key /\ cleanup[worker[w].task].status # "NONE" /\ ~Referenced(b)
  BY DEF DeleteBody, TasksExist, DeletionsSafe
<1>2. worker[w].task = <<b, worker[w].task[2]>> /\ b \in Bodies /\ worker[w].task[2] \in TaskTypes
  BY <1>1, KeyParts
<1>3. \A s \in Requests :
         req[s].new # NoPtr /\ req[s].pc = "written" => req[s].new.id # b
  BY <1>1, <1>2 DEF PendingBodiesSafe
<1>4. /\ store' \in {store, [store EXCEPT ![b] = "REMOVED"]}
      /\ UNCHANGED <<post, schedule, lastEvent, cleanup, repairs, req>>
  BY DEF DeleteBody
<1>5. PICK pc \in {"succeed", "fail"} : worker' = [worker EXCEPT ![w].pc = pc]
  BY DEF DeleteBody
<1>6. PICK x : x = [worker[w] EXCEPT !.pc = pc]
  OBVIOUS
<1>7. /\ x \in Worker /\ x.pc = pc /\ x.task = worker[w].task /\ x.batch = worker[w].batch
      /\ worker' = [worker EXCEPT ![w] = x]
  BY <1>5, <1>6 DEF TypeOK, Worker, WorkerStates
<1> HIDE DEF b
<1>8. TypeOK'
  BY <1>2, <1>4, <1>7 DEF TypeOK
<1>9. RowsWellFormed' /\ RequestsWellFormed' /\ HeldOnce'
  BY <1>4 DEF RowsWellFormed, RequestsWellFormed, HeldOnce
<1>10. ReferencedBodiesLive'
  BY <1>1, <1>4 DEF ReferencedBodiesLive, Readable, Referenced, References, TypeOK, b
<1>11. PendingBodiesSafe'
  BY <1>2, <1>3, <1>4 DEF PendingBodiesSafe, Readable, Referenced, References, TypeOK
<1>12. TasksExist'
  BY <1>1, <1>2, <1>4, <1>5, <1>7, KeyParts DEF TasksExist, TypeOK
<1>13. DeletionsSafe'
  BY <1>4, <1>5, <1>7 DEF DeletionsSafe, Referenced, References, TypeOK
<1> QED BY <1>8, <1>9, <1>10, <1>11, <1>12, <1>13

LEMMA MarkInv ==
    ASSUME IInv, NEW w \in Workers, NEW status \in TaskStatuses \ {"NONE"},
           worker[w].pc \in {"succeed", "fail"}, Mark(w, status)
    PROVE  IInv'
<1> DEFINE key == worker[w].task
<1>1. /\ cleanup \in [Key -> Task] /\ worker[w] \in Worker
      /\ key \in Key /\ cleanup[key] \in Task /\ cleanup[key].status # "NONE"
  BY DEF IInv, TypeOK, TasksExist
<1>2. CASE worker' = [worker EXCEPT ![w] = Stopped] /\ cleanup' = cleanup
  BY <1>2, WorkerEmptied DEF Mark
<1>3. ASSUME NEW x, x \in {Stopped, IF worker[w].batch = {} THEN Free
                            ELSE [worker[w] EXCEPT !.pc = "claimed", !.task = NoTask]},
             worker' = [worker EXCEPT ![w] = x],
             cleanup' = [cleanup EXCEPT ![key].status = status]
      PROVE  IInv'
  <2>1. PICK t : t = [cleanup[key] EXCEPT !.status = status]
    OBVIOUS
  <2>2. t \in Task /\ t.status = status
    BY <1>1, <2>1 DEF Task
  <2>3. cleanup' = [cleanup EXCEPT ![key] = t]
    BY <1>3, <2>1
  <2>4. /\ cleanup' \in [Key -> Task]
        /\ \A k \in Key : cleanup'[k].status = "NONE" <=> cleanup[k].status = "NONE"
    BY <1>1, <2>2, <2>3
  <2>5. /\ x \in Worker /\ x.pc \in {"idle", "claimed", "stopped"}
        /\ x.batch \subseteq worker[w].batch
    <3>1. CASE x \in {Free, Stopped}
      BY <3>1 DEF Worker, WorkerStates, Free, Stopped
    <3>2. CASE x = [worker[w] EXCEPT !.pc = "claimed", !.task = NoTask]
      BY <1>1, <3>2 DEF Worker, WorkerStates
    <3> QED BY <1>3, <3>1, <3>2
  <2>6. \A k \in x.batch : cleanup[k].status # "NONE"
    BY <2>5 DEF IInv, TasksExist
  <2>7. UNCHANGED <<post, schedule, lastEvent, store, repairs, req>>
    BY DEF Mark
  <2> QED BY <1>3, <2>4, <2>5, <2>6, <2>7, WorkerSteps
<1>4. \/ worker' = [worker EXCEPT ![w] = Stopped] /\ cleanup' = cleanup
      \/ /\ cleanup' = [cleanup EXCEPT ![key].status = status]
         /\ \/ worker' = [worker EXCEPT ![w] =
                  IF @.batch = {} THEN Free ELSE [@ EXCEPT !.pc = "claimed", !.task = NoTask]]
            \/ worker' = [worker EXCEPT ![w] = Stopped]
  BY Zenon DEF Mark
<1>5. CASE /\ cleanup' = [cleanup EXCEPT ![key].status = status]
           /\ worker' = [worker EXCEPT ![w] =
                  IF @.batch = {} THEN Free ELSE [@ EXCEPT !.pc = "claimed", !.task = NoTask]]
  <2>1. PICK x : x = IF worker[w].batch = {} THEN Free
                     ELSE [worker[w] EXCEPT !.pc = "claimed", !.task = NoTask]
    OBVIOUS
  <2>2. worker' = [worker EXCEPT ![w] = x]
    BY <1>5, <2>1
  <2> QED BY <1>3, <1>5, <2>1, <2>2, Zenon
<1>6. CASE /\ cleanup' = [cleanup EXCEPT ![key].status = status]
           /\ worker' = [worker EXCEPT ![w] = Stopped]
  BY <1>3, <1>6
<1> QED BY <1>2, <1>4, <1>5, <1>6

LEMMA WorkerInv ==
    ASSUME IInv, NEW w \in Workers, RunTask(w) \/ WorkerCrash(w) \/ WorkerStart(w)
    PROVE  IInv'
<1>1. CASE ClaimFails(w) \/ WorkerCrash(w) \/ WorkerStart(w)
  BY <1>1, WorkerEmptied DEF ClaimFails, WorkerCrash, WorkerStart
<1>2. CASE MarkSucceeded(w)
  BY <1>2, MarkInv DEF MarkSucceeded, TaskStatuses
<1>3. CASE MarkFailed(w)
  BY <1>3, MarkInv DEF MarkFailed, TaskStatuses, FailedStatus
<1> QED BY <1>1, <1>2, <1>3, ClaimInv, CheckReferenceInv, DeleteBodyInv DEF RunTask

-----------------------------------------------------------------------------
(* The invariant *)

LEMMA InitInv ==
    ASSUME Init
    PROVE  IInv
<1>1. TypeOK
  <2>1. post \in [Posts -> Row] /\ schedule \in [Posts -> Pointer]
    BY Blanks DEF Init
  <2>2. lastEvent \in [Posts -> Event]
    BY ConstantsAssumption DEF Init, Event, Visibilities
  <2>3. store \in [Bodies -> Hashes \cup {"UNWRITTEN", "REMOVED"}]
    BY DEF Init
  <2>4. cleanup \in [Key -> Task] /\ repairs \subseteq Repair
    BY ConstantsAssumption DEF Init, Task, TaskStatuses
  <2>5. req \in [Requests -> Request]
    BY Blanks DEF Init
  <2>6. worker \in [Workers -> Worker]
    BY DEF Init, Worker, WorkerStates, Free
  <2> QED BY <2>1, <2>2, <2>3, <2>4, <2>5, <2>6 DEF TypeOK
<1>2. RowsWellFormed /\ ReferencedBodiesLive
  BY DEF Init, RowsWellFormed, ReferencedBodiesLive, NoRow
<1>3. RequestsWellFormed /\ HeldOnce /\ PendingBodiesSafe
  BY DEF Init, RequestsWellFormed, HeldOnce, PendingBodiesSafe, Idle
<1>4. TasksExist /\ DeletionsSafe
  BY DEF Init, TasksExist, DeletionsSafe, Free
<1> QED BY <1>1, <1>2, <1>3, <1>4 DEF IInv

LEMMA RequestInv ==
    ASSUME IInv, NEW r \in Requests, Request_(r)
    PROVE  IInv'
<1>1. CASE \E p \in Posts :
              \/ CommitCreate(r, p) \/ CommitSave(r, p) \/ CommitPublish(r, p)
              \/ CommitSchedule(r, p) \/ CommitMeta(r, p) \/ CommitUnpublish(r, p)
              \/ CommitDelete(r, p) \/ CommitRestore(r, p) \/ CommitCancelSchedule(r, p)
  BY <1>1, CommitCreateInv, CommitSaveInv, CommitPublishInv, CommitScheduleInv,
     CommitMetaInv, LifecycleInv
<1>2. CASE \/ \E b \in DraftBodies, h \in Hashes :
                 WriteDraftBody(r, b, h) \/ CreateWithBody(r, b, h)
           \/ \E b \in Snapshots : WriteSnapshotBody(r, b)
  BY <1>2, WriteInv
<1>3. CASE \E p \in Posts, op \in DOMAIN Admits : Load(r, p, op)
  BY <1>3, LoadInv
<1>4. CASE ReadBody(r) \/ ReadBodyUnavailable(r) \/ ReadBodyFails(r)
  BY <1>4, ReadBodyInv, ReadBodyUnavailableInv, ReadBodyFailsInv
<1>5. CASE \/ Reject(r) \/ CreateWithoutBody(r) \/ TxFails(r)
           \/ RegisterOrphan(r) \/ RequestCrash(r)
  BY <1>5, DroppedRequestInv, CreateWithoutBodyInv, TxFailsInv, RegisterOrphanInv
<1> QED BY <1>1, <1>2, <1>3, <1>4, <1>5 DEF Request_

LEMMA StepInv ==
    ASSUME IInv, [Next]_vars
    PROVE  IInv'
<1>1. CASE UNCHANGED vars
  <2> USE <1>1 DEF vars, IInv
  <2>1. TypeOK' /\ RowsWellFormed' /\ ReferencedBodiesLive'
    BY DEF TypeOK, RowsWellFormed, ReferencedBodiesLive, Readable
  <2>2. RequestsWellFormed' /\ HeldOnce' /\ PendingBodiesSafe'
    BY DEF RequestsWellFormed, HeldOnce, PendingBodiesSafe, Readable, Referenced, References
  <2>3. TasksExist' /\ DeletionsSafe'
    BY DEF TasksExist, DeletionsSafe, Referenced, References
  <2> QED BY <2>1, <2>2, <2>3
<1>2. CASE Next
  BY <1>2, RequestInv, SingleTxInv, WorkerInv DEF Next
<1> QED BY <1>1, <1>2

\* Rows, bodies, requests, tasks and workers stay consistent as IInv says,
\* whatever interleaves and whichever faults happen.
THEOREM Invariant == Spec => []IInv
<1>1. Init => IInv
  BY InitInv
<1>2. IInv /\ [Next]_vars => IInv'
  BY StepInv
<1> QED BY <1>1, <1>2, PTL DEF Spec

\* No step leaves the types of the tables, the store and the processes.
THEOREM TypeCorrect == Spec => []TypeOK
<1>1. IInv => TypeOK
  BY DEF IInv
<1> QED BY <1>1, Invariant, PTL

\* No pointer of PostgreSQL dangles, with any number of posts, requests in
\* flight and replicas, under crashes, ambiguous commits and failing stores.
THEOREM NoDanglingPointer == Spec => []ReferencedBodiesLive
<1>1. IInv => ReferencedBodiesLive
  BY DEF IInv
<1> QED BY <1>1, Invariant, PTL

-----------------------------------------------------------------------------
(* What a step changes *)

\* The event of a change, or no change of the visibility.
EventOf(p) ==
    \/ /\ lastEvent' = lastEvent
       /\ Visibility(post'[p].status) = Visibility(post[p].status)
    \/ \E loaded \in Statuses : lastEvent' = Emitted(p, loaded, post'[p])

\* The schedule is set, cleared, kept with its draft, or was none and is none.
ScheduleOf(p) ==
    \/ /\ schedule' = [schedule EXCEPT ![p] = post'[p].draft]
       /\ post'[p].status = "SCHEDULED" /\ post'[p].draft # NoPtr
    \/ /\ schedule' = [schedule EXCEPT ![p] = NoPtr]
       /\ post'[p].status # "SCHEDULED"
    \/ /\ schedule' = schedule
       /\ post'[p].status = post[p].status /\ post'[p].draft = post[p].draft
    \/ /\ schedule' = schedule
       /\ post'[p].status # "SCHEDULED" /\ post[p].status # "SCHEDULED"

\* A public row was public with the same body, or was a draft and is published.
PublicOf(p) ==
    post'[p].status = "PUBLISHED" =>
        \/ post[p].status = "PUBLISHED" /\ post'[p].published = post[p].published
        \/ /\ post[p].status # "PUBLISHED" /\ Readable(post'[p].published)
           /\ \E r \in Requests : CommitPublish(r, p)

\* The draft is kept, was none, or is registered for removal.
DraftOf(p) ==
    \/ post'[p].draft = post[p].draft
    \/ post[p].draft = NoPtr
    \/ cleanup' = DroppedDraft(post[p].draft)

RowChange(p) ==
    /\ post' = [post EXCEPT ![p] = post'[p]]
    /\ post'[p].version > post[p].version
    /\ EventOf(p)
    /\ ScheduleOf(p)
    /\ PublicOf(p)
    /\ DraftOf(p)
    /\ UNCHANGED store

\* The transaction moves the row to a status and keeps its pointers.
LEMMA MovedChange ==
    ASSUME TypeOK, NEW p \in Posts, NEW status \in Statuses, CanBump(post[p]),
           post' = [post EXCEPT ![p] = Moved(@, status)],
           status = "PUBLISHED" => post[p].status = "PUBLISHED",
           UNCHANGED store
    PROVE  /\ post' = [post EXCEPT ![p] = post'[p]]
           /\ post'[p].status = status
           /\ post'[p].version > post[p].version
           /\ post'[p].draft = post[p].draft
           /\ PublicOf(p) /\ DraftOf(p)
<1>1. post[p] \in Row /\ post'[p] = Moved(post[p], status)
  BY DEF TypeOK
<1>2. post' = [post EXCEPT ![p] = post'[p]]
  BY <1>1
<1>3. /\ post'[p].status = status /\ post'[p].draft = post[p].draft
      /\ post'[p].published = post[p].published
      /\ post'[p].version = post[p].version + 1
  BY <1>1, MovedRow
<1>4. post'[p].version > post[p].version
  BY <1>1, <1>3 DEF Row
<1> QED BY <1>2, <1>3, <1>4 DEF PublicOf, DraftOf

LEMMA CommitCreateChange ==
    ASSUME IInv, NEW r \in Requests, NEW p \in Posts, CommitCreate(r, p)
    PROVE  RowChange(p)
<1>1. post[p] = NoRow /\ p \in DOMAIN post
  BY DEF IInv, RowsWellFormed, CommitCreate, TypeOK
<1>2. post'[p] = [status |-> "DRAFT", version |-> 1, draft |-> req[r].new, published |-> NoPtr]
  BY <1>1 DEF CommitCreate
<1>3. post' = [post EXCEPT ![p] = post'[p]]
  BY <1>2 DEF CommitCreate
<1>4. post'[p].version > post[p].version /\ PublicOf(p) /\ DraftOf(p)
  BY <1>1, <1>2 DEF NoRow, PublicOf, DraftOf
<1>5. EventOf(p)
  BY <1>1, <1>2 DEF NoRow, EventOf, Visibility, CommitCreate
<1>6. ScheduleOf(p)
  BY <1>1, <1>2 DEF NoRow, ScheduleOf, CommitCreate
<1> QED BY <1>3, <1>4, <1>5, <1>6 DEF RowChange, CommitCreate

LEMMA CommitSaveChange ==
    ASSUME IInv, NEW r \in Requests, NEW p \in Posts, CommitSave(r, p)
    PROVE  RowChange(p)
<1> DEFINE moved == Moved(post[p], post[p].status)
           row == [moved EXCEPT !.draft = req[r].new]
<1>1. TypeOK /\ post[p] \in Row /\ post[p].status \in Statuses /\ req[r].new \in Pointer
  BY CommitTypes DEF IInv
<1>2. /\ moved \in Row /\ moved.status = post[p].status
      /\ moved.version = post[p].version + 1 /\ moved.published = post[p].published
  BY <1>1, MovedRow DEF CommitSave
<1>3. post'[p] = row /\ post' = [post EXCEPT ![p] = post'[p]]
  BY <1>1 DEF CommitSave, TypeOK
<1> HIDE DEF moved
<1>row. row.status = moved.status /\ row.version = moved.version /\ row.published = moved.published
  BY <1>1, <1>2, SwitchedRow
<1> HIDE DEF row
<1>4. /\ post'[p].status = post[p].status /\ post'[p].version = post[p].version + 1
      /\ post'[p].published = post[p].published
  BY <1>2, <1>3, <1>row
<1>5. post[p].status # "SCHEDULED"
  BY DEF CommitSave, UpdateDraftBodyMatches
<1>6. post'[p].version > post[p].version
  BY <1>1, <1>4 DEF Row
<1>7. EventOf(p) /\ ScheduleOf(p) /\ PublicOf(p)
  BY <1>4, <1>5 DEF EventOf, ScheduleOf, PublicOf, CommitSave
<1>8. DraftOf(p)
  BY DEF DraftOf, CommitSave, UpdateDraftBodyMatches, SameDraft
<1> QED BY <1>3, <1>6, <1>7, <1>8 DEF RowChange, CommitSave

LEMMA CommitPublishChange ==
    ASSUME IInv, NEW r \in Requests, NEW p \in Posts, CommitPublish(r, p)
    PROVE  RowChange(p)
<1> DEFINE moved == Moved(post[p], "PUBLISHED")
           row == [moved EXCEPT !.draft = NoPtr, !.published = req[r].new]
<1>1. /\ TypeOK /\ post[p] \in Row /\ req[r].new \in Pointer
      /\ req[r].cur.status \in Statuses /\ NoPtr \in Pointer
  BY CommitTypes, Blanks DEF IInv
<1>2. moved \in Row /\ moved.status = "PUBLISHED" /\ moved.version = post[p].version + 1
  BY <1>1, MovedRow DEF CommitPublish, Statuses
<1>3. post'[p] = row /\ post' = [post EXCEPT ![p] = post'[p]]
  BY <1>1 DEF CommitPublish, TypeOK
<1> HIDE DEF moved
<1>row. row.status = moved.status /\ row.version = moved.version /\ row.published = req[r].new
  BY <1>1, <1>2 DEF Row
<1> HIDE DEF row
<1>4. /\ post'[p].status = "PUBLISHED" /\ post'[p].version = post[p].version + 1
      /\ post'[p].published = req[r].new
  BY <1>2, <1>3, <1>row
<1>5. post[p].status = "DRAFT"
  BY DEF CommitPublish, PublishMatches
<1>6. Readable(req[r].new)
  BY DEF CommitPublish, IInv, RequestsWellFormed, PendingBodiesSafe
<1>7. post'[p].version > post[p].version
  BY <1>1, <1>4 DEF Row
<1>8. EventOf(p)
  BY <1>1 DEF EventOf, CommitPublish
<1>9. ScheduleOf(p)
  BY <1>4, <1>5 DEF ScheduleOf, CommitPublish
<1>10. PublicOf(p)
  BY <1>4, <1>5, <1>6 DEF PublicOf
<1>11. DraftOf(p)
  BY DEF DraftOf, CommitPublish, PublishMatches, SameDraft
<1> QED BY <1>3, <1>7, <1>8, <1>9, <1>10, <1>11 DEF RowChange, CommitPublish

LEMMA CommitScheduleChange ==
    ASSUME IInv, NEW r \in Requests, NEW p \in Posts, CommitSchedule(r, p)
    PROVE  RowChange(p)
<1>1. TypeOK /\ "SCHEDULED" \in Statuses
  BY DEF IInv, Statuses
<1>2. /\ post' = [post EXCEPT ![p] = post'[p]] /\ post'[p].status = "SCHEDULED"
      /\ post'[p].version > post[p].version /\ post'[p].draft = post[p].draft
      /\ PublicOf(p) /\ DraftOf(p)
  BY <1>1, MovedChange DEF CommitSchedule
<1>3. post[p].status = "DRAFT" /\ req[r].cur.draft = post[p].draft
  BY DEF CommitSchedule, ScheduleMatches, SameDraft
<1>4. post[p].draft # NoPtr
  BY <1>3, ConstantsAssumption DEF CommitSchedule, IInv, RequestsWellFormed, NoPtr
<1>5. EventOf(p)
  BY <1>2, <1>3 DEF EventOf, CommitSchedule, Visibility
<1>6. ScheduleOf(p)
  BY <1>2, <1>3, <1>4 DEF ScheduleOf, CommitSchedule
<1> QED BY <1>2, <1>5, <1>6 DEF RowChange, CommitSchedule

LEMMA LifecycleChange ==
    ASSUME IInv, NEW r \in Requests, NEW p \in Posts,
           \/ CommitUnpublish(r, p) \/ CommitDelete(r, p)
           \/ CommitRestore(r, p) \/ CommitCancelSchedule(r, p)
    PROVE  RowChange(p)
<1>1. TypeOK /\ req[r].cur.status \in Statuses
  BY CommitTypes DEF IInv
<1>2. PICK op \in Ops, status \in {"DRAFT", "DELETED"} :
         /\ Lifecycle(r, p, op, status)
         /\ \/ schedule' = schedule /\ post[p].status # "SCHEDULED"
            \/ schedule' = [schedule EXCEPT ![p] = NoPtr]
         /\ \/ lastEvent' = Emitted(p, req[r].cur.status, post'[p])
            \/ lastEvent' = lastEvent /\ status = "DRAFT" /\ post[p].status = "SCHEDULED"
  BY DEF CommitUnpublish, CommitDelete, CommitRestore, CommitCancelSchedule, Ops,
         UnpublishMatches, RestoreMatches, CancelMatches
<1>3. /\ post' = [post EXCEPT ![p] = post'[p]] /\ post'[p].status = status
      /\ post'[p].version > post[p].version /\ post'[p].draft = post[p].draft
      /\ PublicOf(p) /\ DraftOf(p)
  BY <1>1, <1>2, MovedChange DEF Lifecycle, Statuses
<1>4. EventOf(p)
  BY <1>1, <1>2, <1>3 DEF EventOf, Visibility
<1>5. ScheduleOf(p)
  BY <1>2, <1>3 DEF ScheduleOf
<1> QED BY <1>2, <1>3, <1>4, <1>5 DEF RowChange, Lifecycle

\* A transaction that only bumps the version.
LEMMA BumpChange ==
    ASSUME TypeOK, NEW p \in Posts, CanBump(post[p]), post[p].status \in Statuses,
           post' = [post EXCEPT ![p] = Moved(@, @.status)],
           UNCHANGED <<schedule, lastEvent, store>>
    PROVE  RowChange(p)
<1>1. /\ post' = [post EXCEPT ![p] = post'[p]] /\ post'[p].status = post[p].status
      /\ post'[p].version > post[p].version /\ post'[p].draft = post[p].draft
      /\ PublicOf(p) /\ DraftOf(p)
  BY MovedChange
<1> QED BY <1>1 DEF RowChange, EventOf, ScheduleOf

LEMMA SingleTxChange ==
    ASSUME IInv, NEW p \in Posts, SingleTx(p)
    PROVE  RowChange(p)
<1>1. TypeOK /\ post[p] \in Row /\ post[p].status \in Statuses
  BY DEF IInv, TypeOK, Row
<1>2. CASE DeleteAuthorDraft(p)
  <2> DEFINE moved == Moved(post[p], post[p].status)
             row == [moved EXCEPT !.draft = NoPtr]
  <2>1. /\ moved \in Row /\ moved.status = post[p].status
        /\ moved.version = post[p].version + 1 /\ moved.published = post[p].published
    BY <1>1, <1>2, MovedRow DEF DeleteAuthorDraft
  <2>2. post'[p] = row /\ post' = [post EXCEPT ![p] = post'[p]]
    BY <1>1, <1>2 DEF DeleteAuthorDraft, TypeOK
  <2> HIDE DEF moved
  <2>row. row.status = moved.status /\ row.version = moved.version /\ row.published = moved.published
    BY <2>1, Blanks, SwitchedRow
  <2> HIDE DEF row
  <2>3. /\ post'[p].status = post[p].status /\ post'[p].version = post[p].version + 1
        /\ post'[p].published = post[p].published
    BY <2>1, <2>2, <2>row
  <2>4. post'[p].version > post[p].version
    BY <1>1, <2>3 DEF Row
  <2>5. EventOf(p) /\ ScheduleOf(p) /\ PublicOf(p) /\ DraftOf(p)
    BY <1>2, <2>3 DEF DeleteAuthorDraft, EventOf, ScheduleOf, PublicOf, DraftOf
  <2> QED BY <1>2, <2>2, <2>4, <2>5 DEF RowChange, DeleteAuthorDraft
<1>3. CASE DeleteAdminPost(p)
  <2>1. /\ post' = [post EXCEPT ![p] = post'[p]] /\ post'[p].status = "DELETED"
        /\ post'[p].version > post[p].version /\ PublicOf(p) /\ DraftOf(p)
    BY <1>1, <1>3, MovedChange DEF DeleteAdminPost, Statuses
  <2>2. EventOf(p) /\ ScheduleOf(p)
    BY <1>1, <1>3, <2>1 DEF EventOf, ScheduleOf, DeleteAdminPost
  <2> QED BY <1>3, <2>1, <2>2 DEF RowChange, DeleteAdminPost
<1>4. CASE MutatePostTags(p)
  BY <1>1, <1>4, BumpChange DEF MutatePostTags
<1> QED BY <1>2, <1>3, <1>4 DEF SingleTx

\* A request changes one row, or no row, no event and no schedule.
LEMMA RequestChange ==
    ASSUME IInv, NEW r \in Requests, Request_(r)
    PROVE  \/ UNCHANGED <<post, schedule, lastEvent>>
           \/ \E p \in Posts : RowChange(p)
<1>1. ASSUME NEW p \in Posts,
             \/ CommitCreate(r, p) \/ CommitSave(r, p) \/ CommitPublish(r, p)
             \/ CommitSchedule(r, p) \/ CommitMeta(r, p) \/ CommitUnpublish(r, p)
             \/ CommitDelete(r, p) \/ CommitRestore(r, p) \/ CommitCancelSchedule(r, p)
      PROVE  RowChange(p)
  <2>1. CASE CommitMeta(r, p)
    BY <2>1, CommitTypes, BumpChange DEF CommitMeta, IInv
  <2> QED BY <1>1, <2>1, CommitCreateChange, CommitSaveChange, CommitPublishChange,
             CommitScheduleChange, LifecycleChange
<1>2. CASE \/ \E b \in DraftBodies, h \in Hashes :
                 WriteDraftBody(r, b, h) \/ CreateWithBody(r, b, h)
           \/ \E b \in Snapshots : WriteSnapshotBody(r, b)
  BY <1>2 DEF WriteDraftBody, CreateWithBody, WriteSnapshotBody, BodyWritten
<1>3. CASE \/ \E p \in Posts, op \in DOMAIN Admits : Load(r, p, op)
           \/ ReadBody(r) \/ ReadBodyUnavailable(r) \/ ReadBodyFails(r) \/ Reject(r)
           \/ CreateWithoutBody(r) \/ TxFails(r) \/ RegisterOrphan(r) \/ RequestCrash(r)
  BY <1>3 DEF Load, ReadBody, ReadBodyUnavailable, ReadBodyFails, Reject,
              CreateWithoutBody, TxFails, RegisterOrphan, RequestCrash
<1> QED BY <1>1, <1>2, <1>3 DEF Request_

LEMMA StepChange ==
    ASSUME IInv, [Next]_vars
    PROVE  \/ UNCHANGED <<post, schedule, lastEvent>>
           \/ \E p \in Posts : RowChange(p)
<1>1. ASSUME NEW w \in Workers, RunTask(w) \/ WorkerCrash(w) \/ WorkerStart(w)
      PROVE  UNCHANGED <<post, schedule, lastEvent>>
  BY <1>1 DEF RunTask, Claim, ClaimFails, CheckReference, DeleteBody, MarkSucceeded,
              MarkFailed, Mark, WorkerCrash, WorkerStart
<1>2. CASE UNCHANGED vars
  BY <1>2 DEF vars
<1> QED BY <1>1, <1>2, RequestChange, SingleTxChange DEF Next

LEMMA InitRows ==
    ASSUME Init, NEW p \in Posts
    PROVE  /\ post[p].status = "NONE" /\ post[p].version = 0
           /\ schedule[p] = NoPtr
           /\ lastEvent[p].new = "UNPUBLISHED" /\ lastEvent[p].version = 0
<1>1. post[p] = NoRow /\ schedule[p] = NoPtr
  BY DEF Init
<1>2. lastEvent[p] = [version |-> 0, old |-> "UNPUBLISHED", new |-> "UNPUBLISHED"]
  BY DEF Init
<1> QED BY <1>1, <1>2 DEF NoRow

-----------------------------------------------------------------------------
(* Events *)

LEMMA EventsStep ==
    ASSUME IInv, LastEventShowsVisibility, [Next]_vars
    PROVE  /\ LastEventShowsVisibility'
           /\ \A p \in Posts :
                 lastEvent'[p] # lastEvent[p]
                 => /\ lastEvent'[p].version > lastEvent[p].version
                    /\ lastEvent'[p].version = post'[p].version
<1>1. CASE UNCHANGED <<post, schedule, lastEvent>>
  BY <1>1 DEF LastEventShowsVisibility
<1>2. CASE \E p \in Posts : RowChange(p)
  <2>1. PICK p \in Posts : RowChange(p)
    BY <1>2
  <2>2. TypeOK /\ TypeOK'
    BY StepInv DEF IInv
  <2>3. \A q \in Posts :
           /\ lastEvent[q].version \in Nat /\ post[q].version \in Nat
           /\ post'[q].version \in Nat
    BY <2>2, ConstantsAssumption DEF TypeOK, Event, Row
  <2>4. \A q \in Posts : q # p => post'[q] = post[q] /\ lastEvent'[q] = lastEvent[q]
    BY <2>1, <2>2 DEF RowChange, EventOf, Emitted, TypeOK
  <2>5. post'[p].version > post[p].version /\ lastEvent[p].version <= post[p].version
    BY <2>1 DEF RowChange, LastEventShowsVisibility
  <2>6. CASE lastEvent' = lastEvent /\ Visibility(post'[p].status) = Visibility(post[p].status)
    BY <2>3, <2>4, <2>5, <2>6 DEF LastEventShowsVisibility
  <2>7. CASE \E loaded \in Statuses : lastEvent' = Emitted(p, loaded, post'[p])
    <3>1. lastEvent'[p].version = post'[p].version
          /\ lastEvent'[p].new = Visibility(post'[p].status)
      BY <2>2, <2>7 DEF Emitted, TypeOK
    <3> QED BY <2>3, <2>4, <2>5, <3>1 DEF LastEventShowsVisibility
  <2> QED BY <2>1, <2>6, <2>7 DEF RowChange, EventOf
<1> QED BY <1>1, <1>2, StepChange

\* The newest event of a post always tells its visibility: no command changes
\* what readers may see without appending an event in the same transaction.
THEOREM EventsComplete == Spec => []LastEventShowsVisibility
<1>1. ASSUME Init PROVE LastEventShowsVisibility
  <2>1. Visibility("NONE") = "UNPUBLISHED"
    BY DEF Visibility
  <2>2. ASSUME NEW p \in Posts
        PROVE  /\ lastEvent[p].new = Visibility(post[p].status)
               /\ lastEvent[p].version <= post[p].version
    <3>1. lastEvent[p].version = 0 /\ post[p].version = 0
      BY <1>1, InitRows
    <3>2. lastEvent[p].new = Visibility(post[p].status)
      BY <1>1, <2>1, InitRows
    <3> QED BY <3>1, <3>2
  <2> QED BY <2>2 DEF LastEventShowsVisibility
<1>2. IInv /\ LastEventShowsVisibility /\ [Next]_vars => LastEventShowsVisibility'
  BY EventsStep
<1> QED BY <1>1, <1>2, Invariant, PTL DEF Spec

\* The events of a post carry versions that grow with the row, so a consumer can
\* drop the older of two whatever the broker does.
THEOREM EventsAreOrdered == Spec => EventsOrdered
<1>1. IInv /\ LastEventShowsVisibility /\ [Next]_vars
      => [\A p \in Posts :
            lastEvent'[p] # lastEvent[p]
            => /\ lastEvent'[p].version > lastEvent[p].version
               /\ lastEvent'[p].version = post'[p].version]_vars
  BY EventsStep
<1> QED BY <1>1, Invariant, EventsComplete, PTL DEF Spec, EventsOrdered

-----------------------------------------------------------------------------
(* Schedules *)

LEMMA ScheduleStep ==
    ASSUME IInv, SchedulePinned, [Next]_vars
    PROVE  SchedulePinned'
<1>1. CASE UNCHANGED <<post, schedule, lastEvent>>
  BY <1>1 DEF SchedulePinned
<1>2. CASE \E p \in Posts : RowChange(p)
  <2>1. PICK p \in Posts : RowChange(p)
    BY <1>2
  <2>2. TypeOK
    BY DEF IInv
  <2>3. \A q \in Posts : q # p => post'[q] = post[q] /\ schedule'[q] = schedule[q]
    BY <2>1, <2>2 DEF RowChange, ScheduleOf, TypeOK
  <2>4. /\ schedule'[p] # NoPtr <=> post'[p].status = "SCHEDULED"
        /\ post'[p].status = "SCHEDULED" => schedule'[p] = post'[p].draft
    BY <2>1, <2>2 DEF RowChange, ScheduleOf, SchedulePinned, TypeOK
  <2> QED BY <2>3, <2>4 DEF SchedulePinned
<1> QED BY <1>1, <1>2, StepChange

\* A pending schedule pins the draft that was validated, and nothing but a
\* cancel or a delete ends it.
THEOREM ScheduleKeepsDraft == Spec => []SchedulePinned
<1>1. Init => SchedulePinned
  BY InitRows DEF SchedulePinned
<1>2. IInv /\ SchedulePinned /\ [Next]_vars => SchedulePinned'
  BY ScheduleStep
<1> QED BY <1>1, <1>2, Invariant, PTL DEF Spec

-----------------------------------------------------------------------------
(* Readers *)

\* Writes use fresh ids and deletions spare what a row references.
LEMMA ReferencedBodiesKept ==
    ASSUME IInv, [Next]_vars, NEW b \in Bodies, Referenced(b)
    PROVE  store'[b] = store[b]
<1>1. TypeOK /\ store[b] \in Hashes
  <2>1. TypeOK
    BY DEF IInv
  <2>2. PICK p \in Posts : \E ptr \in {post[p].draft, post[p].published} : ptr.id = b
    BY DEF Referenced, References
  <2> PICK ptr \in {post[p].draft, post[p].published} : ptr.id = b
    BY <2>2
  <2>3. ptr \in Pointer /\ ptr # NoPtr
    BY <2>1, ConstantsAssumption DEF TypeOK, Row, NoPtr
  <2>4. Readable(ptr)
    BY <2>3 DEF IInv, ReferencedBodiesLive
  <2> QED BY <2>1, <2>3, <2>4, ReadableHash DEF Readable
<1>2. store[b] # "UNWRITTEN"
  BY <1>1, ConstantsAssumption
<1>3. ASSUME NEW r \in Requests, Request_(r) PROVE store'[b] = store[b]
  <2>1. CASE store' = store
    BY <2>1
  <2>2. CASE \/ \E c \in DraftBodies, h \in Hashes :
                   WriteDraftBody(r, c, h) \/ CreateWithBody(r, c, h)
             \/ \E c \in Snapshots : WriteSnapshotBody(r, c)
    <3>1. PICK c \in Bodies : store[c] = "UNWRITTEN" /\ \E h : store' = [store EXCEPT ![c] = h]
      BY <2>2 DEF WriteDraftBody, CreateWithBody, WriteSnapshotBody, BodyWritten, Bodies
    <3> QED BY <1>1, <1>2, <3>1 DEF TypeOK
  <2> QED BY <1>3, <2>1, <2>2
          DEF Request_, Load, ReadBody, ReadBodyUnavailable, ReadBodyFails, Reject,
              CreateWithoutBody, CommitCreate, CommitSave, CommitPublish, CommitSchedule,
              CommitMeta, CommitUnpublish, CommitDelete, CommitRestore, CommitCancelSchedule,
              Lifecycle, TxFails, RegisterOrphan, RequestCrash
<1>4. ASSUME NEW w \in Workers, RunTask(w) \/ WorkerCrash(w) \/ WorkerStart(w)
      PROVE  store'[b] = store[b]
  <2>1. CASE DeleteBody(w)
    <3>1. ~Referenced(worker[w].task[1])
      BY <2>1 DEF DeleteBody, IInv, DeletionsSafe
    <3>2. store' \in {store, [store EXCEPT ![worker[w].task[1]] = "REMOVED"]}
      BY <2>1 DEF DeleteBody
    <3> QED BY <1>1, <3>1, <3>2 DEF TypeOK
  <2> QED BY <1>4, <2>1 DEF RunTask, Claim, ClaimFails, CheckReference, MarkSucceeded,
                            MarkFailed, Mark, WorkerCrash, WorkerStart
<1>5. ASSUME NEW p \in Posts, SingleTx(p) PROVE store'[b] = store[b]
  BY <1>5 DEF SingleTx, DeleteAuthorDraft, DeleteAdminPost, MutatePostTags
<1> QED BY <1>3, <1>4, <1>5 DEF Next, vars

\* What a public row shows is a hash, and a row that is not public shows none.
LEMMA ShownHash ==
    ASSUME IInv, NEW p \in Posts
    PROVE  /\ post[p].status = "PUBLISHED" =>
                 /\ post[p].published.id \in Bodies /\ Referenced(post[p].published.id)
                 /\ Shown(p) = post[p].published.hash /\ Shown(p) \in Hashes
           /\ post[p].status # "PUBLISHED" => Shown(p) = NoHash
<1>1. ASSUME post[p].status = "PUBLISHED"
      PROVE  /\ post[p].published.id \in Bodies /\ Referenced(post[p].published.id)
             /\ Shown(p) = post[p].published.hash /\ Shown(p) \in Hashes
  <2>1. TypeOK /\ post[p].published \in Pointer /\ Readable(post[p].published)
    BY <1>1 DEF IInv, RowsWellFormed, ReferencedBodiesLive, TypeOK, Row
  <2> QED BY <1>1, <2>1, ReadableHash DEF Shown, Readable, Referenced, References
<1> QED BY <1>1 DEF Shown

LEMMA ContentStep ==
    ASSUME IInv, [Next]_vars
    PROVE  \/ \A p \in Posts : Shown(p)' = Shown(p)
           \/ \E p \in Posts :
                 /\ \A q \in Posts \ {p} : Shown(q)' = Shown(q)
                 /\ \/ Shown(p) = NoHash /\ Shown(p)' \in Hashes
                    \/ Shown(p) # NoHash /\ Shown(p)' = NoHash
<1> IInv'
  BY StepInv
<1>1. CASE UNCHANGED post
  <2>1. ASSUME NEW p \in Posts PROVE Shown(p)' = Shown(p)
    <3>1. CASE post[p].status = "PUBLISHED"
      BY <1>1, <3>1, ShownHash, ReferencedBodiesKept DEF Shown
    <3> QED BY <1>1, <3>1 DEF Shown
  <2> QED BY <2>1
<1>2. ASSUME NEW p \in Posts, RowChange(p)
      PROVE  \/ \A q \in Posts : Shown(q)' = Shown(q)
             \/ /\ \A q \in Posts \ {p} : Shown(q)' = Shown(q)
                /\ \/ Shown(p) = NoHash /\ Shown(p)' \in Hashes
                   \/ Shown(p) # NoHash /\ Shown(p)' = NoHash
  <2>1. \A q \in Posts \ {p} : Shown(q)' = Shown(q)
    BY <1>2 DEF RowChange, Shown, IInv, TypeOK
  <2>2. CASE post'[p].status = "PUBLISHED" /\ post[p].status = "PUBLISHED"
    BY <1>2, <2>1, <2>2 DEF RowChange, PublicOf, Shown
  <2>3. CASE post'[p].status = "PUBLISHED" /\ post[p].status # "PUBLISHED"
    <3>1. Shown(p)' \in Hashes
      <4>1. TypeOK /\ post'[p].published \in Pointer
        BY DEF IInv, TypeOK, Row
      <4>2. Readable(post'[p].published) /\ store' = store
        BY <1>2, <2>3 DEF RowChange, PublicOf
      <4> QED BY <2>3, <4>1, <4>2, ReadableHash DEF Shown, Readable
    <3> QED BY <2>1, <2>3, <3>1, ShownHash
  <2>4. CASE post'[p].status # "PUBLISHED"
    <3>1. Shown(p)' = NoHash
      BY <2>4 DEF Shown
    <3> QED BY <2>1, <3>1
  <2> QED BY <2>2, <2>3, <2>4
<1> QED BY <1>1, <1>2, StepChange

\* Readers see a PublishedContent: a body is shown only once its snapshot is in
\* MongoDB, and does not change or vanish until the post is hidden.
THEOREM Refinement == Spec => ImplementsPublishedContent
<1>1. Init => Content!Init
  <2>1. ASSUME Init, NEW p \in Posts PROVE Shown(p) = NoHash
    BY <2>1, InitRows DEF Shown
  <2> QED BY <2>1 DEF Content!Init
<1>2. IInv /\ [Next]_vars => [Content!Next]_[p \in Posts |-> Shown(p)]
  <2> SUFFICES ASSUME IInv, [Next]_vars
               PROVE  [Content!Next]_[p \in Posts |-> Shown(p)]
    OBVIOUS
  <2>1. CASE \A p \in Posts : Shown(p)' = Shown(p)
    BY <2>1
  <2>2. ASSUME NEW p \in Posts,
               \A q \in Posts \ {p} : Shown(q)' = Shown(q),
               Shown(p) = NoHash /\ Shown(p)' \in Hashes
        PROVE  Content!Show(p, Shown(p)')
    BY <2>2 DEF Content!Show
  <2>3. ASSUME NEW p \in Posts,
               \A q \in Posts \ {p} : Shown(q)' = Shown(q),
               Shown(p) # NoHash /\ Shown(p)' = NoHash
        PROVE  Content!Hide(p)
    <3>1. [q \in Posts |-> Shown(q)][p] = Shown(p)
      OBVIOUS
    <3>2. [q \in Posts |-> Shown(q)]' = [[q \in Posts |-> Shown(q)] EXCEPT ![p] = NoHash]
      <4>1. \A q \in Posts : Shown(q)' = IF q = p THEN NoHash ELSE Shown(q)
        BY <2>3
      <4> QED BY <4>1, Zenon
    <3> QED BY <2>3, <3>1, <3>2 DEF Content!Hide
  <2> QED BY <2>1, <2>2, <2>3, ContentStep DEF Content!Next
<1> QED BY <1>1, <1>2, Invariant, PTL DEF Spec, ImplementsPublishedContent, Content!Spec

-----------------------------------------------------------------------------
(* Drafts *)

\* No transaction drops a draft body silently: it registers the body the row
\* pointed at, which the conditional update makes the one its caller had loaded.
THEOREM DraftsAreRegistered == Spec => DroppedDraftsRegistered
<1>1. ASSUME IInv, [Next]_vars, NEW p \in Posts,
             post'[p].draft # post[p].draft, post[p].draft # NoPtr
      PROVE  cleanup'[<<post[p].draft.id, "OLD_DRAFT">>].status # "NONE"
  <2>1. PICK q \in Posts : RowChange(q)
    BY <1>1, StepChange
  <2>2. q = p
    BY <1>1, <2>1 DEF RowChange, IInv, TypeOK
  <2>3. cleanup' = DroppedDraft(post[p].draft)
    BY <1>1, <2>1, <2>2 DEF RowChange, DraftOf
  <2> QED BY <1>1, <2>3, DroppedDraftRows DEF IInv
<1>2. IInv /\ [Next]_vars
      => [\A p \in Posts :
            post'[p].draft # post[p].draft /\ post[p].draft # NoPtr
            => cleanup'[<<post[p].draft.id, "OLD_DRAFT">>].status # "NONE"]_vars
  BY <1>1
<1> QED BY <1>2, Invariant, PTL DEF Spec, DroppedDraftsRegistered

\* A publisher that wrote its snapshot copied the draft it had read.
SnapshotsMatch ==
    \A r \in Requests :
        req[r].pc = "written" /\ req[r].op = "publish"
        => req[r].new.hash = req[r].cur.draft.hash

LEMMA SnapshotsMatchStep ==
    ASSUME IInv, SnapshotsMatch, [Next]_vars
    PROVE  SnapshotsMatch'
<1>1. TypeOK
  BY DEF IInv
<1>2. ASSUME NEW r \in Requests, NEW s \in Requests, req' = [req EXCEPT ![r] = req'[r]],
             req'[r].pc = "written" /\ req'[r].op = "publish"
             => req'[r].new.hash = req'[r].cur.draft.hash
      PROVE  req'[s].pc = "written" /\ req'[s].op = "publish"
             => req'[s].new.hash = req'[s].cur.draft.hash
  <2>1. CASE s = r
    BY <1>2, <2>1
  <2>2. CASE s # r
    <3>1. req'[s] = req[s]
      BY <1>1, <1>2, <2>2 DEF TypeOK
    <3> QED BY <3>1 DEF SnapshotsMatch
  <2> QED BY <2>1, <2>2
<1>3. CASE UNCHANGED req
  BY <1>3 DEF SnapshotsMatch
<1>4. ASSUME NEW r \in Requests, Request_(r)
      PROVE  /\ req' = [req EXCEPT ![r] = req'[r]]
             /\ req'[r].pc = "written" /\ req'[r].op = "publish"
                => req'[r].new.hash = req'[r].cur.draft.hash
  <2>1. r \in DOMAIN req /\ req[r] \in Request /\ Idle.pc = "idle"
    BY <1>1 DEF TypeOK, Idle
  <2>a. ASSUME NEW b \in Bodies, NEW h, NEW c \in Request, BodyWritten(r, b, h, c)
        PROVE  /\ req' = [req EXCEPT ![r] = req'[r]]
               /\ req'[r].pc = "written" =>
                     /\ req'[r].op = c.op /\ req'[r].cur = c.cur
                     /\ req'[r].new.hash = h
    <3> DEFINE written == [c EXCEPT !.pc = "written", !.new = [id |-> b, hash |-> h]]
    <3>1. written.op = c.op /\ written.cur = c.cur /\ written.new.hash = h
      BY DEF Request
    <3> HIDE DEF written
    <3>2. req' = [req EXCEPT ![r] = written] \/ req' = [req EXCEPT ![r] = Idle]
      BY <2>a DEF BodyWritten, written
    <3> QED BY <2>1, <3>1, <3>2
  <2>2. ASSUME NEW b \in Bodies, NEW h \in Hashes, WriteDraftBody(r, b, h)
        PROVE  req' = [req EXCEPT ![r] = req'[r]] /\ (req'[r].pc = "written" => req'[r].op = "save")
    BY <2>1, <2>a, <2>2 DEF WriteDraftBody
  <2>3. ASSUME NEW b \in Bodies, NEW h \in Hashes, CreateWithBody(r, b, h)
        PROVE  req' = [req EXCEPT ![r] = req'[r]] /\ (req'[r].pc = "written" => req'[r].op = "create")
    <3> DEFINE c == [Idle EXCEPT !.op = "create"]
    <3>1. c \in Request /\ c.op = "create"
      BY Blanks DEF Request, Idle, Ops
    <3>2. BodyWritten(r, b, h, c)
      BY <2>3 DEF CreateWithBody
    <3> HIDE DEF c
    <3> QED BY <2>a, <3>1, <3>2
  <2>4. ASSUME NEW b \in Snapshots, WriteSnapshotBody(r, b)
        PROVE  /\ req' = [req EXCEPT ![r] = req'[r]]
               /\ req'[r].pc = "written" => req'[r].new.hash = req'[r].cur.draft.hash
    BY <2>1, <2>a, <2>4 DEF WriteSnapshotBody, Bodies
  <2>5. CASE CreateWithoutBody(r)
    BY <2>1, <2>5 DEF CreateWithoutBody, Idle
  <2>6. CASE ReadBody(r)
    BY <2>1, <2>6 DEF ReadBody, Request, Idle
  <2>7. ASSUME Answered(r)
        PROVE  req' = [req EXCEPT ![r] = req'[r]] /\ req'[r].pc # "written"
    BY <2>1, <2>7 DEF Answered, Request, Idle
  <2>8. CASE \E p \in Posts :
               \/ CommitCreate(r, p) \/ CommitSave(r, p) \/ CommitPublish(r, p)
               \/ CommitSchedule(r, p) \/ CommitMeta(r, p) \/ CommitUnpublish(r, p)
               \/ CommitDelete(r, p) \/ CommitRestore(r, p) \/ CommitCancelSchedule(r, p)
    <3>1. Answered(r)
      BY <2>8 DEF CommitCreate, CommitSave, CommitPublish, CommitSchedule, CommitMeta,
                  CommitUnpublish, CommitDelete, CommitRestore, CommitCancelSchedule, Lifecycle
    <3> QED BY <2>7, <3>1
  <2>9. CASE \E p \in Posts, op \in DOMAIN Admits : Load(r, p, op)
    BY <2>1, <2>9 DEF Load
  <2>10. CASE TxFails(r)
    BY <2>1, <2>10 DEF TxFails, Request, Idle
  <2>11. CASE \/ ReadBodyUnavailable(r) \/ ReadBodyFails(r) \/ Reject(r)
              \/ RegisterOrphan(r) \/ RequestCrash(r)
    BY <2>1, <2>11 DEF ReadBodyUnavailable, ReadBodyFails, Reject, RegisterOrphan, RequestCrash
  <2> QED BY <1>4, <2>2, <2>3, <2>4, <2>5, <2>6, <2>8, <2>9, <2>10, <2>11
          DEF Request_, Bodies
<1>5. ASSUME NEW r \in Requests, Request_(r) PROVE SnapshotsMatch'
  <2>1. /\ req' = [req EXCEPT ![r] = req'[r]]
        /\ req'[r].pc = "written" /\ req'[r].op = "publish"
           => req'[r].new.hash = req'[r].cur.draft.hash
    BY <1>4, <1>5
  <2> QED BY <1>2, <2>1 DEF SnapshotsMatch
<1>6. CASE \/ \E p \in Posts : SingleTx(p)
           \/ \E w \in Workers : RunTask(w) \/ WorkerCrash(w) \/ WorkerStart(w)
  <2>1. UNCHANGED req
    BY <1>6 DEF SingleTx, DeleteAuthorDraft, DeleteAdminPost, MutatePostTags, RunTask,
                Claim, ClaimFails, CheckReference, DeleteBody, MarkSucceeded, MarkFailed,
                Mark, WorkerCrash, WorkerStart
  <2> QED BY <1>3, <2>1
<1> QED BY <1>3, <1>5, <1>6 DEF Next, vars

\* Publishing shows the draft the row holds when it commits, whichever draft the
\* publisher had read and validated before.
THEOREM PublishesTheDraft == Spec => PublishesCurrentDraft
<1>1. Init => SnapshotsMatch
  BY DEF Init, SnapshotsMatch, Idle
<1>2. IInv /\ SnapshotsMatch /\ [Next]_vars => SnapshotsMatch'
  BY SnapshotsMatchStep
<1>3. ASSUME IInv, SnapshotsMatch, [Next]_vars, NEW p \in Posts,
             post[p].status # "PUBLISHED", post'[p].status = "PUBLISHED"
      PROVE  post[p].draft # NoPtr /\ store[post'[p].published.id] = store[post[p].draft.id]
  <2>1. PICK q \in Posts : RowChange(q)
    BY <1>3, StepChange
  <2>2. q = p
    BY <1>3, <2>1 DEF RowChange, IInv, TypeOK
  <2>3. Readable(post'[p].published) /\ \E r \in Requests : CommitPublish(r, p)
    BY <1>3, <2>1, <2>2 DEF RowChange, PublicOf
  <2>4. PICK r \in Requests : CommitPublish(r, p)
    BY <2>3
  <2>5. req[r].cur.draft = post[p].draft /\ req[r].new.hash = req[r].cur.draft.hash
    BY <1>3, <2>4 DEF CommitPublish, PublishMatches, SameDraft, SnapshotsMatch
  <2>6. /\ TypeOK /\ post[p] \in Row /\ req[r].new \in Pointer /\ NoPtr \in Pointer
        /\ CanBump(post[p])
    BY <1>3, <2>4, CommitTypes, Blanks DEF IInv, CommitPublish
  <2> DEFINE moved == Moved(post[p], "PUBLISHED")
  <2>7. moved \in Row
    BY <2>6, MovedRow DEF Statuses
  <2>8. post'[p] = [moved EXCEPT !.draft = NoPtr, !.published = req[r].new]
    BY <2>4, <2>6 DEF CommitPublish, TypeOK
  <2> HIDE DEF moved
  <2>9. post'[p].published = req[r].new
    BY <2>7, <2>8 DEF Row
  <2>10. store[req[r].new.id] = post[p].draft.hash /\ post[p].draft.hash \in Hashes
    BY <2>3, <2>5, <2>6, <2>9, ReadableHash DEF Readable
  <2>11. post[p].draft # NoPtr
    BY <2>10, ConstantsAssumption DEF NoPtr
  <2>12. Readable(post[p].draft)
    BY <1>3, <2>11 DEF IInv, ReferencedBodiesLive
  <2> QED BY <2>9, <2>10, <2>11, <2>12 DEF Readable
<1>4. IInv /\ SnapshotsMatch /\ [Next]_vars
      => [\A p \in Posts :
            post[p].status # "PUBLISHED" /\ post'[p].status = "PUBLISHED"
            => /\ post[p].draft # NoPtr
               /\ store[post'[p].published.id] = store[post[p].draft.id]]_vars
  BY <1>3
<1> QED BY <1>1, <1>2, <1>4, Invariant, PTL DEF Spec, PublishesCurrentDraft

-----------------------------------------------------------------------------
(* What a step does to a task, a body, a row, a request and a worker.  The     *)
(* garbage invariants need no action by name.                                  *)

\* A task is registered by the transaction that drops its draft or by the request that
\* left its body, is claimed, and is marked by a worker that handled it.
TaskMove(key) ==
    \/ cleanup'[key] = cleanup[key]
    \/ /\ cleanup[key].status = "NONE" /\ cleanup'[key].status = "PENDING"
       /\ \/ \E p \in Posts : key = <<post[p].draft.id, "OLD_DRAFT">>
                              /\ post'[p].draft # post[p].draft
          \/ \E r \in Requests : /\ key = <<req[r].new.id, OrphanType(req[r].op)>>
                                 /\ req[r].pc = "failed" /\ req'[r] = Idle /\ UNCHANGED post
    \/ Claimable(cleanup[key]) /\ cleanup'[key].status = "PROCESSING"
    \/ \E w \in Workers :
          /\ worker[w].task = key /\ UNCHANGED <<post, store, req>>
          /\ \/ worker[w].pc = "succeed" /\ cleanup'[key].status = "DONE"
             \/ worker[w].pc = "fail" /\ cleanup'[key].status \in {"FAILED", "DEAD"}

BodyMove(b) ==
    \/ store'[b] = store[b]
    \/ store[b] = "UNWRITTEN" /\ ("store" \in Faults \/ Held(b)')
    \/ store[b] # "UNWRITTEN" /\ store'[b] = "REMOVED"

\* A request's transaction makes its body a pointer of a row.
Took(ptr, ops) ==
    \E r \in Requests : req[r].pc = "written" /\ req[r].op \in ops /\ req[r].new = ptr

RowMove(p) ==
    \/ post'[p].draft = post[p].draft /\ post'[p].published = post[p].published
    \/ /\ \A q \in Posts \ {p} : post'[q] = post[q]
       /\ post[p].draft # NoPtr => cleanup'[<<post[p].draft.id, "OLD_DRAFT">>].status # "NONE"
       /\ post'[p].draft = NoPtr \/ Took(post'[p].draft, {"create", "save"})
       /\ post'[p].published = post[p].published \/ Took(post'[p].published, {"publish"})

\* A request lets go of its body when a row or a task has it.
RequestMove(r) ==
    LET x == req[r]
        y == req'[r]
    IN
    \/ /\ y.new = NoPtr
       /\ \/ x.new = NoPtr \/ "crash" \in Faults
          \/ \E p \in Posts : References(post'[p], x.new.id)
          \/ x.pc = "failed" /\ "append" \in Faults
          \/ x.pc = "failed" /\ cleanup' = Upserted(cleanup, <<x.new.id, OrphanType(x.op)>>)
    \/ /\ y.new = x.new /\ y.new # NoPtr /\ y.op = x.op
       /\ \/ y.pc = x.pc
          \/ x.pc = "written" /\ y.pc = "failed" /\ ("ambiguous" \in Faults \/ UNCHANGED post)
    \/ /\ x.new = NoPtr /\ y.new # NoPtr /\ y.pc = "written" /\ y.op \in {"create", "save", "publish"}
       /\ y.new.id \in IF y.op = "publish" THEN Snapshots ELSE DraftBodies
       /\ store[y.new.id] = "UNWRITTEN" /\ UNCHANGED <<post, cleanup>>

WorkerMove(w) ==
    LET x == worker[w]
        y == worker'[w]
    IN
    \/ y = x
    \/ y.pc \in {"idle", "claimed", "stopped"}
    \/ /\ y.pc \in {"fail", "delete"} /\ y.task \in x.batch /\ UNCHANGED <<post, cleanup>>
       /\ y.pc = "fail" => Referenced(y.task[1]) \/ "store" \in Faults
    \/ /\ x.pc = "delete" /\ y.task = x.task
       /\ \/ y.pc = "succeed" /\ store'[y.task[1]] = "REMOVED"
          \/ y.pc = "fail" /\ "store" \in Faults

Moves ==
    /\ \A key \in Key : TaskMove(key)
    /\ \A b \in Bodies : BodyMove(b)
    /\ \A p \in Posts : RowMove(p)
    /\ \A r \in Requests : RequestMove(r)
    /\ \A w \in Workers : WorkerMove(w)

\* A request that keeps what it holds, or holds nothing.
LEMMA SameRequest ==
    ASSUME NEW r \in Requests, req'[r] = req[r] \/ (req'[r].new = NoPtr /\ req[r].new = NoPtr)
    PROVE  RequestMove(r)
BY DEF RequestMove

LEMMA QuietMoves ==
    ASSUME IInv, KindsKept, NEW r \in Requests,
           \/ \E p \in Posts, op \in DOMAIN Admits : Load(r, p, op)
           \/ ReadBody(r) \/ ReadBodyUnavailable(r) \/ ReadBodyFails(r) \/ Reject(r)
           \/ CreateWithoutBody(r) \/ TxFails(r) \/ RequestCrash(r)
    PROVE  Moves
<1>1. UNCHANGED <<post, store, cleanup, worker>>
  BY DEF Load, ReadBody, ReadBodyUnavailable, ReadBodyFails, Reject, CreateWithoutBody,
         TxFails, RequestCrash
<1>2. req \in [Requests -> Request] /\ Idle.new = NoPtr
  BY Blanks DEF IInv, TypeOK
<1>3. req' = [req EXCEPT ![r] = req'[r]]
  BY <1>2 DEF Load, ReadBody, ReadBodyUnavailable, ReadBodyFails, Reject, CreateWithoutBody,
              TxFails, RequestCrash
<1>4. \A s \in Requests \ {r} : RequestMove(s)
  BY <1>2, <1>3, SameRequest
<1>5. RequestMove(r)
  <2>1. req[r].new # NoPtr => req[r].pc \in {"written", "failed"}
    BY DEF KindsKept
  <2>2. CASE TxFails(r)
    <3>1. CASE req[r].new = NoPtr
      BY <1>2, <2>2, <3>1, SameRequest DEF TxFails
    <3>2. CASE req[r].new # NoPtr
      <4>1. /\ req[r].pc = "written" /\ req'[r].pc = "failed"
            /\ req'[r].new = req[r].new /\ req'[r].op = req[r].op
        BY <1>2, <2>2, <3>2 DEF TxFails, Request
      <4> QED BY <1>1, <3>2, <4>1 DEF RequestMove
    <3> QED BY <3>1, <3>2
  <2>3. CASE RequestCrash(r)
    BY <1>2, <2>3 DEF RequestCrash, RequestMove
  <2>4. CASE CreateWithoutBody(r)
    <3>1. req'[r].new = NoPtr
      BY <1>2, <2>4 DEF CreateWithoutBody, Idle
    <3> QED BY <1>2, <2>4, <3>1, SameRequest DEF CreateWithoutBody
  <2>5. CASE \E p \in Posts, op \in DOMAIN Admits : Load(r, p, op)
    BY <1>2, <2>5, SameRequest DEF Load
  <2>6. CASE ReadBody(r)
    <3>1. req[r].new = NoPtr
      BY <2>1, <2>6 DEF ReadBody
    <3>2. req'[r].new = NoPtr
      BY <1>2, <2>6, <3>1 DEF ReadBody, Request
    <3> QED BY <3>1, <3>2, SameRequest
  <2>7. CASE ReadBodyUnavailable(r) \/ ReadBodyFails(r) \/ Reject(r)
    BY <1>2, <2>1, <2>7, SameRequest DEF ReadBodyUnavailable, ReadBodyFails, Reject
  <2> QED BY <2>2, <2>3, <2>4, <2>5, <2>6, <2>7
<1> QED BY <1>1, <1>4, <1>5 DEF Moves, TaskMove, BodyMove, RowMove, WorkerMove

LEMMA BodyWrittenMoves ==
    ASSUME IInv, KindsKept, NEW r \in Requests, NEW b \in Bodies, NEW h \in Hashes,
           NEW c \in Request, BodyWritten(r, b, h, c), req[r].new = NoPtr,
           c.op \in {"create", "save", "publish"},
           b \in IF c.op = "publish" THEN Snapshots ELSE DraftBodies
    PROVE  Moves
<1> DEFINE y == [c EXCEPT !.pc = "written", !.new = [id |-> b, hash |-> h]]
<1>1. /\ y.pc = "written" /\ y.op = c.op /\ y.new.id = b /\ y.new # NoPtr
  BY ConstantsAssumption DEF Request, NoPtr
<1> HIDE DEF y
<1>2. UNCHANGED <<post, cleanup, worker>> /\ store[b] = "UNWRITTEN"
      /\ store' = [store EXCEPT ![b] = h]
  BY DEF BodyWritten
<1>3. req \in [Requests -> Request] /\ store \in [Bodies -> Hashes \cup {"UNWRITTEN", "REMOVED"}]
      /\ Idle.new = NoPtr
  BY Blanks DEF IInv, TypeOK
<1>4. req' = [req EXCEPT ![r] = y] \/ ("store" \in Faults /\ req' = [req EXCEPT ![r] = Idle])
  BY DEF BodyWritten, y
<1>5. \A s \in Requests \ {r} : RequestMove(s)
  BY <1>3, <1>4, SameRequest
<1>6. RequestMove(r)
  <2>1. CASE req'[r] = y
    BY <1>1, <1>2, <2>1 DEF RequestMove
  <2>2. CASE req'[r] = Idle
    BY <1>3, <2>2, SameRequest
  <2> QED BY <1>3, <1>4, <2>1, <2>2
<1>7. \A a \in Bodies : BodyMove(a)
  BY <1>1, <1>2, <1>3, <1>4 DEF BodyMove, Held
<1> QED BY <1>2, <1>5, <1>6, <1>7 DEF Moves, TaskMove, RowMove, WorkerMove

LEMMA WriteMoves ==
    ASSUME IInv, KindsKept, NEW r \in Requests,
           \/ \E b \in DraftBodies, h \in Hashes :
                 WriteDraftBody(r, b, h) \/ CreateWithBody(r, b, h)
           \/ \E b \in Snapshots : WriteSnapshotBody(r, b)
    PROVE  Moves
<1>1. req[r] \in Request /\ Idle.new = NoPtr
  BY Blanks DEF IInv, TypeOK
<1>2. req[r].pc \notin {"written", "failed"} => req[r].new = NoPtr
  BY DEF KindsKept
<1>3. ASSUME NEW b \in DraftBodies, NEW h \in Hashes, WriteDraftBody(r, b, h)
      PROVE  Moves
  BY <1>1, <1>2, <1>3, BodyWrittenMoves DEF WriteDraftBody, Bodies
<1>4. ASSUME NEW b \in DraftBodies, NEW h \in Hashes, CreateWithBody(r, b, h)
      PROVE  Moves
  <2>1. PICK c : c = [Idle EXCEPT !.op = "create"]
    OBVIOUS
  <2>2. c \in Request /\ c.op = "create"
    BY <2>1, Blanks DEF Request, Ops, Idle
  <2>3. BodyWritten(r, b, h, c)
    BY <1>4, <2>1 DEF CreateWithBody
  <2> QED BY <1>1, <1>4, <2>2, <2>3, BodyWrittenMoves DEF CreateWithBody, Bodies
<1>5. ASSUME NEW b \in Snapshots, WriteSnapshotBody(r, b)
      PROVE  Moves
  <2>1. req[r].cur.draft.hash \in Hashes
    BY <1>5 DEF WriteSnapshotBody, IInv, RequestsWellFormed
  <2> QED BY <1>1, <1>2, <1>5, <2>1, BodyWrittenMoves DEF WriteSnapshotBody, Bodies
<1> QED BY <1>3, <1>4, <1>5

\* A row takes over the body of a request or drops its draft, with the task that goes
\* with it.
LEMMA RowMoves ==
    ASSUME IInv, NEW p \in Posts, NEW row \in Row, post' = [post EXCEPT ![p] = row],
           UNCHANGED <<store, worker>>,
           \/ row.draft = post[p].draft /\ cleanup' = cleanup
           \/ /\ row.draft # post[p].draft /\ cleanup' = DroppedDraft(post[p].draft)
              /\ row.draft = NoPtr \/ Took(row.draft, {"create", "save"})
           \/ /\ post[p].draft = NoPtr /\ cleanup' = cleanup
              /\ Took(row.draft, {"create", "save"})
           \/ row.draft = post[p].draft /\ post[p].draft = NoPtr /\ cleanup' = DroppedDraft(NoPtr),
           row.published = post[p].published \/ Took(row.published, {"publish"}),
           row.published # post[p].published =>
              cleanup' = DroppedDraft(post[p].draft) /\ row.draft = NoPtr,
           \A r \in Requests : RequestMove(r)
    PROVE  Moves
<1>1. TypeOK /\ ReferencedBodiesLive /\ post[p] \in Row /\ post[p].draft \in Pointer
  BY DEF IInv, TypeOK, Row
<1>2. post'[p] = row /\ \A q \in Posts \ {p} : post'[q] = post[q]
  BY <1>1 DEF TypeOK
<1>3. post[p].draft # NoPtr => post[p].draft.id \in Bodies
  BY <1>1 DEF ReferencedBodiesLive, Readable
<1>4. DroppedDraft(NoPtr) = cleanup
  BY ConstantsAssumption DEF DroppedDraft, NoPtr
<1> DEFINE old == <<post[p].draft.id, "OLD_DRAFT">>
<1>5. \A key \in Key : TaskMove(key)
  <2>1. CASE cleanup' = cleanup
    BY <2>1 DEF TaskMove
  <2>2. CASE /\ cleanup' = DroppedDraft(post[p].draft) /\ row.draft # post[p].draft
             /\ post[p].draft.id \in Bodies
    <3>1. cleanup' = Upserted(cleanup, old)
      BY <2>2 DEF DroppedDraft
    <3>2. old \in Key /\ cleanup \in [Key -> Task]
      BY <1>1, <2>2 DEF Key, TaskTypes, TypeOK
    <3> HIDE DEF old
    <3>3. \A key \in Key : \/ cleanup'[key] = cleanup[key]
                           \/ key = old /\ cleanup[key].status = "NONE"
                              /\ cleanup'[key].status = "PENDING"
      BY <3>1, <3>2 DEF Upserted
    <3> QED BY <1>2, <2>2, <3>3 DEF TaskMove, old
  <2>3. CASE cleanup' = DroppedDraft(post[p].draft) /\ post[p].draft.id \notin Bodies
    BY <2>3 DEF DroppedDraft, TaskMove
  <2> QED BY <1>4, <2>1, <2>2, <2>3
<1>6. \A b \in Bodies : BodyMove(b)
  BY DEF BodyMove
<1>7. ASSUME NEW q \in Posts PROVE RowMove(q)
  <2>1. CASE q # p
    BY <1>2, <2>1 DEF RowMove
  <2>2. CASE q = p /\ ~(row.draft = post[p].draft /\ row.published = post[p].published)
    <3>1. row.draft = NoPtr \/ Took(row.draft, {"create", "save"})
      BY <2>2
    <3>2. post[p].draft # NoPtr => cleanup'[old].status # "NONE"
      <4>1. post[p].draft # NoPtr => cleanup' = DroppedDraft(post[p].draft)
        BY <2>2
      <4> QED BY <1>1, <4>1, DroppedDraftRows
    <3> QED BY <1>2, <2>2, <3>1, <3>2 DEF RowMove
  <2>3. CASE q = p /\ row.draft = post[p].draft /\ row.published = post[p].published
    BY <1>2, <2>3 DEF RowMove
  <2> QED BY <2>1, <2>2, <2>3
<1>8. \A w \in Workers : WorkerMove(w)
  BY DEF WorkerMove
<1> QED BY <1>5, <1>6, <1>7, <1>8 DEF Moves

\* A transaction answers its request, which then holds nothing a row has not got.
LEMMA AnsweredMoves ==
    ASSUME TypeOK, NEW r \in Requests, Answered(r),
           req[r].new # NoPtr =>
              req[r].pc = "written" /\ \E p \in Posts : References(post'[p], req[r].new.id)
    PROVE  \A s \in Requests : RequestMove(s)
<1>1. req \in [Requests -> Request] /\ Idle.new = NoPtr
  BY Blanks DEF TypeOK
<1>2. \A s \in Requests \ {r} : req'[s] = req[s]
  BY <1>1 DEF Answered
<1>3. CASE req' = [req EXCEPT ![r] = Idle]
  <2>1. req'[r].new = NoPtr
    BY <1>1, <1>3
  <2>2. RequestMove(r)
    BY <2>1 DEF RequestMove
  <2> QED BY <1>2, <2>2, SameRequest
<1>4. CASE "ambiguous" \in Faults /\ req[r].new # NoPtr /\ req' = [req EXCEPT ![r].pc = "failed"]
  <2>1. req'[r].pc = "failed" /\ req'[r].new = req[r].new /\ req'[r].op = req[r].op
    BY <1>1, <1>4 DEF Request
  <2>2. RequestMove(r)
    BY <1>4, <2>1 DEF RequestMove
  <2> QED BY <1>2, <2>2, SameRequest
<1> QED BY <1>3, <1>4 DEF Answered

LEMMA CommitMoves ==
    ASSUME IInv, KindsKept, NEW r \in Requests, NEW p \in Posts,
           \/ CommitCreate(r, p) \/ CommitSave(r, p) \/ CommitPublish(r, p)
           \/ CommitSchedule(r, p) \/ CommitMeta(r, p) \/ CommitUnpublish(r, p)
           \/ CommitDelete(r, p) \/ CommitRestore(r, p) \/ CommitCancelSchedule(r, p)
    PROVE  Moves
<1>1. /\ TypeOK /\ RowsWellFormed /\ req[r].new \in Pointer /\ post[p] \in Row
      /\ post \in [Posts -> Row] /\ NoPtr \in Pointer
  BY CommitTypes, Blanks DEF IInv, TypeOK
<1>2. Answered(r) /\ UNCHANGED <<store, worker>>
  BY DEF CommitCreate, CommitSave, CommitPublish, CommitSchedule, CommitMeta, CommitUnpublish,
         CommitDelete, CommitRestore, CommitCancelSchedule, Lifecycle
<1>3. req[r].new # NoPtr => req[r].pc \in {"written", "failed"}
  BY DEF KindsKept
<1>4. CASE CommitCreate(r, p)
  <2> DEFINE row == [status |-> "DRAFT", version |-> 1, draft |-> req[r].new, published |-> NoPtr]
  <2>1. row \in Row /\ row.draft = req[r].new /\ row.published = NoPtr
    BY <1>1, ConstantsAssumption DEF Row, Statuses
  <2>2. post' = [post EXCEPT ![p] = row] /\ req[r].pc = "written" /\ cleanup' = cleanup
        /\ req[r].op = "create"
    BY <1>4 DEF CommitCreate
  <2>3. post[p].draft = NoPtr /\ post[p].published = NoPtr
    BY <1>1, <1>4 DEF CommitCreate, RowsWellFormed, NoRow
  <2> HIDE DEF row
  <2>4. post'[p] = row
    BY <1>1, <2>2
  <2>5. \A s \in Requests : RequestMove(s)
    BY <1>1, <1>2, <2>1, <2>2, <2>4, AnsweredMoves DEF References
  <2>6. Took(row.draft, {"create", "save"})
    BY <2>1, <2>2 DEF Took
  <2> QED BY <1>2, <2>1, <2>2, <2>3, <2>5, <2>6, RowMoves
<1>5. CASE CommitSave(r, p)
  <2> DEFINE moved == Moved(post[p], post[p].status)
             row == [moved EXCEPT !.draft = req[r].new]
  <2>1. moved \in Row /\ moved.published = post[p].published
    BY <1>1, <1>5, CommitTypes, MovedRow DEF CommitSave
  <2>2. /\ post' = [post EXCEPT ![p] = row] /\ req[r].pc = "written" /\ req[r].op = "save"
        /\ cleanup' = DroppedDraft(post[p].draft)
    BY <1>5 DEF CommitSave, UpdateDraftBodyMatches, SameDraft
  <2> HIDE DEF moved
  <2>3. row \in Row /\ row.draft = req[r].new /\ row.published = post[p].published
    BY <1>1, <2>1, SwitchedRow
  <2> HIDE DEF row
  <2>4. post'[p] = row
    BY <1>1, <2>2
  <2>5. \A s \in Requests : RequestMove(s)
    BY <1>1, <1>2, <2>2, <2>3, <2>4, AnsweredMoves DEF References
  <2>6. Took(row.draft, {"create", "save"})
    BY <2>2, <2>3 DEF Took
  <2>7. row.draft # post[p].draft
    <3>1. req[r].new # NoPtr
      BY <2>2 DEF IInv, RequestsWellFormed
    <3> QED BY <2>2, <2>3, <3>1 DEF IInv, PendingBodiesSafe, Referenced, References
  <2> QED BY <1>2, <2>2, <2>3, <2>5, <2>6, <2>7, RowMoves
<1>6. CASE CommitPublish(r, p)
  <2> DEFINE moved == Moved(post[p], "PUBLISHED")
             row == [moved EXCEPT !.draft = NoPtr, !.published = req[r].new]
  <2>1. moved \in Row
    BY <1>1, <1>6, MovedRow DEF CommitPublish, Statuses
  <2>2. /\ post' = [post EXCEPT ![p] = row] /\ req[r].pc = "written" /\ req[r].op = "publish"
        /\ cleanup' = DroppedDraft(post[p].draft)
    BY <1>6 DEF CommitPublish, PublishMatches, SameDraft
  <2> HIDE DEF moved
  <2>3. row \in Row /\ row.draft = NoPtr /\ row.published = req[r].new
    BY <1>1, <2>1 DEF Row
  <2> HIDE DEF row
  <2>4. post'[p] = row
    BY <1>1, <2>2
  <2>5. \A s \in Requests : RequestMove(s)
    BY <1>1, <1>2, <2>2, <2>3, <2>4, AnsweredMoves DEF References
  <2>6. Took(row.published, {"publish"})
    BY <2>2, <2>3 DEF Took
  <2> QED BY <1>2, <2>2, <2>3, <2>5, <2>6, RowMoves
<1>7. CASE \/ CommitSchedule(r, p) \/ CommitMeta(r, p) \/ CommitUnpublish(r, p)
           \/ CommitDelete(r, p) \/ CommitRestore(r, p) \/ CommitCancelSchedule(r, p)
  <2>1. PICK status \in Statuses : post' = [post EXCEPT ![p] = Moved(post[p], status)]
    BY <1>1, <1>7 DEF CommitSchedule, CommitMeta, CommitUnpublish, CommitDelete, CommitRestore,
                      CommitCancelSchedule, Lifecycle, Statuses, Row
  <2>2. CanBump(post[p]) /\ cleanup' = cleanup /\ req[r].pc \in {"loaded", "read"}
    BY <1>7 DEF CommitSchedule, CommitMeta, CommitUnpublish, CommitDelete, CommitRestore,
                CommitCancelSchedule, Lifecycle
  <2>3. /\ Moved(post[p], status) \in Row /\ Moved(post[p], status).draft = post[p].draft
        /\ Moved(post[p], status).published = post[p].published
    BY <1>1, <2>2, MovedRow
  <2>4. req[r].new = NoPtr
    BY <1>3, <2>2
  <2>5. \A s \in Requests : RequestMove(s)
    BY <1>1, <1>2, <2>4, AnsweredMoves
  <2> QED BY <1>2, <2>1, <2>2, <2>3, <2>5, RowMoves
<1> QED BY <1>4, <1>5, <1>6, <1>7

LEMMA SingleTxMoves ==
    ASSUME IInv, NEW p \in Posts, SingleTx(p)
    PROVE  Moves
<1>1. TypeOK /\ post[p] \in Row /\ post[p].status \in Statuses /\ NoPtr \in Pointer
  BY Blanks DEF IInv, TypeOK, Row
<1>2. UNCHANGED <<store, worker, req>> /\ CanBump(post[p])
  BY DEF SingleTx, DeleteAuthorDraft, DeleteAdminPost, MutatePostTags
<1>3. \A s \in Requests : RequestMove(s)
  BY <1>2, SameRequest
<1>4. CASE DeleteAuthorDraft(p)
  <2> DEFINE moved == Moved(post[p], post[p].status)
             row == [moved EXCEPT !.draft = NoPtr]
  <2>1. moved \in Row /\ moved.published = post[p].published
    BY <1>1, <1>2, MovedRow
  <2>2. post' = [post EXCEPT ![p] = row] /\ cleanup' = DroppedDraft(post[p].draft)
    BY <1>4 DEF DeleteAuthorDraft
  <2> HIDE DEF moved
  <2>3. row \in Row /\ row.draft = NoPtr /\ row.published = post[p].published
    BY <1>1, <2>1, SwitchedRow
  <2> HIDE DEF row
  <2> QED BY <1>2, <1>3, <2>2, <2>3, RowMoves
<1>5. CASE DeleteAdminPost(p) \/ MutatePostTags(p)
  <2>1. PICK status \in Statuses : post' = [post EXCEPT ![p] = Moved(post[p], status)]
    BY <1>1, <1>5 DEF DeleteAdminPost, MutatePostTags, Statuses
  <2>2. /\ Moved(post[p], status) \in Row /\ Moved(post[p], status).draft = post[p].draft
        /\ Moved(post[p], status).published = post[p].published
    BY <1>1, <1>2, MovedRow
  <2>3. cleanup' = cleanup
    BY <1>5 DEF DeleteAdminPost, MutatePostTags
  <2> QED BY <1>2, <1>3, <2>1, <2>2, <2>3, RowMoves
<1> QED BY <1>4, <1>5 DEF SingleTx

LEMMA RegisterMoves ==
    ASSUME IInv, NEW r \in Requests, RegisterOrphan(r)
    PROVE  Moves
<1>1. req \in [Requests -> Request] /\ cleanup \in [Key -> Task] /\ Idle.new = NoPtr
  BY Blanks DEF IInv, TypeOK
<1>2. /\ req' = [req EXCEPT ![r] = Idle] /\ req[r].pc = "failed"
      /\ UNCHANGED <<post, store, worker>>
  BY DEF RegisterOrphan
<1> DEFINE orphan == <<req[r].new.id, OrphanType(req[r].op)>>
<1>3. cleanup' = Upserted(cleanup, orphan) \/ ("append" \in Faults /\ cleanup' = cleanup)
  BY DEF RegisterOrphan
<1>4. orphan \in Key
  BY <1>2 DEF IInv, RequestsWellFormed, PendingBodiesSafe, Key, OrphanType, TaskTypes
<1> HIDE DEF orphan
<1>5. \A key \in Key : \/ cleanup'[key] = cleanup[key]
                       \/ key = orphan /\ cleanup[key].status = "NONE"
                          /\ cleanup'[key].status = "PENDING"
  BY <1>1, <1>3, <1>4 DEF Upserted
<1>6. \A key \in Key : TaskMove(key)
  BY <1>1, <1>2, <1>5 DEF TaskMove, orphan
<1>7. \A s \in Requests : RequestMove(s)
  <2>1. \A s \in Requests \ {r} : RequestMove(s)
    BY <1>1, <1>2, SameRequest
  <2>2. req'[r].new = NoPtr
    BY <1>1, <1>2
  <2>3. RequestMove(r)
    BY <1>2, <1>3, <2>2 DEF RequestMove, orphan
  <2> QED BY <2>1, <2>3
<1> QED BY <1>2, <1>6, <1>7 DEF Moves, BodyMove, RowMove, WorkerMove

\* A step of one worker that leaves rows and requests alone.
LEMMA OneWorkerMoves ==
    ASSUME IInv, NEW w \in Workers, UNCHANGED <<post, req>>,
           \A v \in Workers \ {w} : worker'[v] = worker[v], WorkerMove(w),
           \A key \in Key : TaskMove(key), \A b \in Bodies : BodyMove(b)
    PROVE  Moves
<1>1. \A v \in Workers : WorkerMove(v)
  BY DEF WorkerMove
<1>2. \A r \in Requests : RequestMove(r)
  BY SameRequest
<1> QED BY <1>1, <1>2 DEF Moves, RowMove

LEMMA WorkerMoves ==
    ASSUME IInv, NEW w \in Workers, RunTask(w) \/ WorkerCrash(w) \/ WorkerStart(w)
    PROVE  Moves
<1>1. /\ worker \in [Workers -> Worker] /\ cleanup \in [Key -> Task] /\ worker[w] \in Worker
      /\ store \in [Bodies -> Hashes \cup {"UNWRITTEN", "REMOVED"}]
      /\ Free.pc = "idle" /\ Stopped.pc = "stopped"
  BY DEF IInv, TypeOK, Free, Stopped
<1>2. CASE ClaimFails(w) \/ WorkerCrash(w) \/ WorkerStart(w)
  <2>1. /\ UNCHANGED <<post, req, cleanup, store>> /\ worker'[w].pc \in {"idle", "stopped"}
        /\ \A v \in Workers \ {w} : worker'[v] = worker[v]
    BY <1>1, <1>2 DEF ClaimFails, WorkerCrash, WorkerStart
  <2> QED BY <2>1, OneWorkerMoves DEF TaskMove, BodyMove, WorkerMove
<1>3. CASE Claim(w)
  <2>1. PICK picked \in SUBSET {key \in Key : Claimable(cleanup[key])} :
           /\ cleanup' = [key \in Key |->
                 IF key \in picked THEN Claimed(cleanup[key]) ELSE cleanup[key]]
           /\ \/ worker' = [worker EXCEPT ![w] = [Free EXCEPT !.pc = "claimed", !.batch = picked]]
              \/ worker' = [worker EXCEPT ![w] = Stopped]
    BY <1>3 DEF Claim
  <2>2. [Free EXCEPT !.pc = "claimed", !.batch = picked].pc = "claimed"
    BY DEF Free
  <2>3. /\ worker'[w].pc \in {"claimed", "stopped"}
        /\ \A v \in Workers \ {w} : worker'[v] = worker[v]
    BY <1>1, <2>1, <2>2
  <2>4. \A t : Claimed(t).status = "PROCESSING"
    BY DEF Claimed
  <2>5. \A key \in Key : TaskMove(key)
    BY <2>1, <2>4 DEF TaskMove
  <2>6. UNCHANGED <<post, req, store>>
    BY <1>3 DEF Claim
  <2> QED BY <2>3, <2>5, <2>6, OneWorkerMoves DEF BodyMove, WorkerMove
<1>4. CASE CheckReference(w)
  <2>1. PICK key \in worker[w].batch, pc \in {"fail", "delete"} :
           /\ worker' = Handling(w, key, pc)
           /\ pc = "fail" => Referenced(key[1]) \/ "store" \in Faults
    BY <1>4 DEF CheckReference
  <2>2. /\ worker'[w].pc = pc /\ worker'[w].task = key
        /\ \A v \in Workers \ {w} : worker'[v] = worker[v]
    BY <1>1, <2>1 DEF Handling
  <2>3. UNCHANGED <<post, req, store, cleanup>>
    BY <1>4 DEF CheckReference
  <2>4. WorkerMove(w)
    BY <2>1, <2>2, <2>3 DEF WorkerMove
  <2> QED BY <2>2, <2>3, <2>4, OneWorkerMoves DEF TaskMove, BodyMove
<1>5. CASE DeleteBody(w)
  <2> DEFINE b == worker[w].task[1]
  <2>1. worker[w].pc = "delete" /\ b \in Bodies /\ store[b] # "UNWRITTEN"
    BY <1>5, KeyParts DEF DeleteBody, IInv, TasksExist
  <2>2. /\ store' \in {store, [store EXCEPT ![b] = "REMOVED"]}
        /\ UNCHANGED <<post, req, cleanup>>
    BY <1>5 DEF DeleteBody
  <2>3. PICK pc \in {"succeed", "fail"} :
           /\ worker' = [worker EXCEPT ![w].pc = pc]
           /\ pc = "succeed" => store' = [store EXCEPT ![b] = "REMOVED"]
           /\ pc = "fail" => "store" \in Faults
    BY <1>5 DEF DeleteBody
  <2>4. /\ worker'[w].pc = pc /\ worker'[w].task = worker[w].task
        /\ \A v \in Workers \ {w} : worker'[v] = worker[v]
    BY <1>1, <2>3 DEF Worker
  <2> HIDE DEF b
  <2>5. pc = "succeed" => store'[b] = "REMOVED"
    BY <1>1, <2>1, <2>3
  <2>6. WorkerMove(w)
    BY <2>1, <2>3, <2>4, <2>5 DEF WorkerMove, b
  <2>7. \A a \in Bodies : BodyMove(a)
    BY <1>1, <2>1, <2>2 DEF BodyMove
  <2> QED BY <2>2, <2>4, <2>6, <2>7, OneWorkerMoves DEF TaskMove
<1>6. ASSUME NEW status, Mark(w, status),
             \/ worker[w].pc = "succeed" /\ status = "DONE"
             \/ worker[w].pc = "fail" /\ status \in {"FAILED", "DEAD"}
      PROVE  Moves
  <2> DEFINE key == worker[w].task
  <2>1. key \in Key
    BY <1>6 DEF IInv, TasksExist
  <2>2. cleanup' \in {cleanup, [cleanup EXCEPT ![key].status = status]}
    BY <1>6 DEF Mark
  <2>3. UNCHANGED <<post, store, req>>
    BY <1>6 DEF Mark
  <2>4. \A k \in Key : cleanup'[k] = cleanup[k] \/ (k = key /\ cleanup'[k].status = status)
    BY <1>1, <2>1, <2>2 DEF Task
  <2>5. \A k \in Key : TaskMove(k)
    BY <1>6, <2>3, <2>4 DEF TaskMove
  <2>6. PICK x \in {Stopped, Free, [worker[w] EXCEPT !.pc = "claimed", !.task = NoTask]} :
           worker' = [worker EXCEPT ![w] = x]
    <3>1. \/ worker' = [worker EXCEPT ![w] =
                  IF @.batch = {} THEN Free ELSE [@ EXCEPT !.pc = "claimed", !.task = NoTask]]
          \/ worker' = [worker EXCEPT ![w] = Stopped]
      BY <1>6, Zenon DEF Mark
    <3> QED BY <3>1
  <2>7. x.pc \in {"idle", "claimed", "stopped"}
    BY <1>1, <2>6 DEF Worker
  <2>8. worker'[w].pc \in {"idle", "claimed", "stopped"}
        /\ \A v \in Workers \ {w} : worker'[v] = worker[v]
    BY <1>1, <2>6, <2>7
  <2> QED BY <2>3, <2>5, <2>8, OneWorkerMoves DEF BodyMove, WorkerMove
<1>7. CASE MarkSucceeded(w)
  BY <1>6, <1>7 DEF MarkSucceeded
<1>8. CASE MarkFailed(w)
  BY <1>6, <1>8 DEF MarkFailed, FailedStatus
<1> QED BY <1>2, <1>3, <1>4, <1>5, <1>7, <1>8 DEF RunTask

LEMMA StepMoves ==
    ASSUME IInv, KindsKept, [Next]_vars
    PROVE  Moves
<1>1. CASE UNCHANGED vars
  <2>1. \A r \in Requests : RequestMove(r)
    BY <1>1, SameRequest DEF vars
  <2> QED BY <1>1, <2>1 DEF vars, Moves, TaskMove, BodyMove, RowMove, WorkerMove
<1>2. ASSUME NEW r \in Requests, Request_(r) PROVE Moves
  BY <1>2, QuietMoves, WriteMoves, CommitMoves, RegisterMoves DEF Request_
<1> QED BY <1>1, <1>2, SingleTxMoves, WorkerMoves DEF Next

-----------------------------------------------------------------------------
(* Tasks name garbage *)

\* A body that gets its first pointer was waiting for its transaction.
LEMMA NewReferences ==
    ASSUME IInv, Moves, NEW b \in Bodies, Referenced(b)'
    PROVE  \/ Referenced(b)
           \/ \E r \in Requests : /\ req[r].pc = "written" /\ req[r].new # NoPtr
                                  /\ req[r].new.id = b
<1>1. PICK p \in Posts : References(post'[p], b)
  BY DEF Referenced
<1>2. NoPtr.id \notin Bodies
  BY ConstantsAssumption DEF NoPtr
<1>3. RowMove(p)
  BY DEF Moves
<1> QED BY <1>1, <1>2, <1>3 DEF RowMove, Took, Referenced, References

\* A task that exists goes on existing.
LEMMA TasksStay ==
    ASSUME IInv, Moves, NEW key \in Key, cleanup[key].status # "NONE"
    PROVE  cleanup'[key].status # "NONE"
BY DEF Moves, TaskMove

LEMMA KindsStep ==
    ASSUME KindsKept, Moves
    PROVE  KindsKept'
<1>1. NoPtr.id = NoBody
  BY DEF NoPtr
<1>2. ASSUME NEW p \in Posts
      PROVE  /\ post'[p].draft.id \in DraftBodies \cup {NoBody}
             /\ post'[p].published.id \in Snapshots \cup {NoBody}
  <2>1. RowMove(p)
    BY DEF Moves
  <2>2. \A ptr : Took(ptr, {"create", "save"}) => ptr.id \in DraftBodies \cup {NoBody}
    BY <1>1 DEF Took, KindsKept
  <2>3. \A ptr : Took(ptr, {"publish"}) => ptr.id \in Snapshots \cup {NoBody}
    BY <1>1 DEF Took, KindsKept
  <2> QED BY <1>1, <2>1, <2>2, <2>3 DEF RowMove, KindsKept
<1>3. ASSUME NEW r \in Requests, req'[r].new # NoPtr
      PROVE  /\ req'[r].pc \in {"written", "failed"}
             /\ req'[r].op \in {"create", "save", "publish"}
             /\ req'[r].new.id \in IF req'[r].op = "publish" THEN Snapshots ELSE DraftBodies
  <2>1. RequestMove(r)
    BY DEF Moves
  <2> QED BY <1>3, <2>1 DEF RequestMove, KindsKept
<1> QED BY <1>2, <1>3 DEF KindsKept

\* A body that takes its place in a row was no other row's.
LEMMA UniqueStep ==
    ASSUME IInv, DraftsUnique, Moves
    PROVE  DraftsUnique'
<1> SUFFICES ASSUME NEW p \in Posts, NEW q \in Posts, p # q, post'[p].draft # NoPtr
             PROVE  post'[p].draft.id # post'[q].draft.id
  BY DEF DraftsUnique
<1>1. RowMove(p) /\ RowMove(q)
  BY DEF Moves
<1>2. NoPtr.id \notin Bodies
  BY ConstantsAssumption DEF NoPtr
<1>3. \A x \in Posts : post[x].draft # NoPtr => post[x].draft.id \in Bodies
  BY DEF IInv, ReferencedBodiesLive, Readable
<1>4. ASSUME NEW ptr, ptr # NoPtr, NEW x \in Posts, Took(ptr, {"create", "save"})
      PROVE  ptr.id # post[x].draft.id /\ ptr.id \in Bodies
  BY <1>4 DEF Took, IInv, PendingBodiesSafe, Referenced, References
<1>5. CASE post'[p].draft = post[p].draft /\ post'[q].draft = post[q].draft
  BY <1>5 DEF DraftsUnique
<1>6. CASE post'[p].draft # post[p].draft
  BY <1>1, <1>4, <1>6 DEF RowMove
<1>7. CASE post'[q].draft # post[q].draft
  BY <1>1, <1>2, <1>3, <1>4, <1>7 DEF RowMove
<1> QED BY <1>5, <1>6, <1>7

LEMMA FailedStep ==
    ASSUME IInv, IInv', FailedUnreferenced, Moves
    PROVE  FailedUnreferenced'
<1> SUFFICES ASSUME "ambiguous" \notin Faults, NEW r \in Requests, req'[r].pc = "failed",
                    NEW b, b = req'[r].new.id
             PROVE  ~Referenced(b)'
  BY DEF FailedUnreferenced
<1>1. req'[r].new # NoPtr
  BY DEF IInv, RequestsWellFormed
<1>2. /\ req'[r].new = req[r].new /\ req[r].new # NoPtr
      /\ \/ req[r].pc = "failed"
         \/ req[r].pc = "written" /\ UNCHANGED post
  <2>1. RequestMove(r)
    BY DEF Moves
  <2> QED BY <1>1, <2>1 DEF RequestMove
<1>3. b \in Bodies /\ ~Referenced(b)
  BY <1>2 DEF IInv, PendingBodiesSafe, FailedUnreferenced
<1>4. CASE UNCHANGED post
  BY <1>3, <1>4 DEF Referenced
<1>5. CASE req[r].pc = "failed"
  <2>1. \A s \in Requests : req[s].pc = "written" => req[s].new.id # b
    BY <1>2, <1>5 DEF IInv, HeldOnce
  <2> QED BY <1>3, <2>1, NewReferences
<1> QED BY <1>2, <1>4, <1>5

\* A task is registered when the last pointer to its body goes, or for a body that never
\* had one; and a body that has a task is not waiting for a transaction.
LEMMA TasksNameGarbageStep ==
    ASSUME TasksInv, Moves
    PROVE  TasksNameGarbage'
<1> USE DEF TasksInv
<1> SUFFICES ASSUME NEW b \in Bodies, NEW type \in TaskTypes,
                    cleanup'[<<b, type>>].status # "NONE",
                    type = "OLD_DRAFT" \/ "ambiguous" \notin Faults,
                    Referenced(b)'
             PROVE  FALSE
  BY DEF TasksNameGarbage
<1> DEFINE key == <<b, type>>
<1>1. key \in Key /\ TaskMove(key)
  BY DEF Moves, Key
<1>2. CASE cleanup[key].status # "NONE"
  <2>1. ~Referenced(b)
    BY <1>2 DEF TasksNameGarbage
  <2>2. PICK r \in Requests : req[r].pc = "written" /\ req[r].new # NoPtr /\ req[r].new.id = b
    BY <2>1, NewReferences
  <2> QED BY <1>2, <2>2 DEF IInv, PendingBodiesSafe
<1>3. CASE cleanup[key].status = "NONE"
  <2>1. \A w \in Workers : worker[w].pc \in {"succeed", "fail"} => worker[w].task # key
    BY <1>3 DEF IInv, TasksExist
  <2>2. \/ \E p \in Posts : key = <<post[p].draft.id, "OLD_DRAFT">>
                            /\ post'[p].draft # post[p].draft
        \/ \E r \in Requests : /\ key = <<req[r].new.id, OrphanType(req[r].op)>>
                               /\ req[r].pc = "failed" /\ UNCHANGED post
    BY <1>1, <1>3, <2>1 DEF TaskMove, Claimable
  <2>3. ASSUME NEW p \in Posts, key = <<post[p].draft.id, "OLD_DRAFT">>,
               post'[p].draft # post[p].draft
        PROVE  FALSE
    <3>1. b = post[p].draft.id /\ b \in DraftBodies /\ post[p].draft # NoPtr /\ Referenced(b)
      BY <2>3, ConstantsAssumption DEF KindsKept, NoPtr, Bodies, Referenced, References
    <3>2. /\ \A q \in Posts \ {p} : post'[q] = post[q]
          /\ post'[p].draft = NoPtr \/ Took(post'[p].draft, {"create", "save"})
          /\ post'[p].published = post[p].published \/ Took(post'[p].published, {"publish"})
      BY <2>3 DEF Moves, RowMove
    <3>3. \A ptr : Took(ptr, {"create", "save"}) \/ Took(ptr, {"publish"}) => ptr.id # b
      BY <3>1, ConstantsAssumption DEF Took, IInv, PendingBodiesSafe, NoPtr
    <3>4. \A q \in Posts : post[q].published.id # b
      BY <3>1, ConstantsAssumption DEF KindsKept
    <3>5. PICK q \in Posts : References(post'[q], b)
      BY DEF Referenced
    <3>6. CASE q = p
      BY <3>1, <3>2, <3>3, <3>4, <3>5, <3>6, ConstantsAssumption DEF References, NoPtr
    <3>7. CASE q # p
      BY <3>1, <3>2, <3>4, <3>5, <3>7 DEF References, DraftsUnique
    <3> QED BY <3>6, <3>7
  <2>4. ASSUME NEW r \in Requests, key = <<req[r].new.id, OrphanType(req[r].op)>>,
               req[r].pc = "failed", UNCHANGED post
        PROVE  FALSE
    <3>1. b = req[r].new.id /\ "ambiguous" \notin Faults
      BY <2>4 DEF OrphanType
    <3>2. ~Referenced(b)
      BY <2>4, <3>1 DEF FailedUnreferenced
    <3> QED BY <2>4, <3>2 DEF Referenced
  <2> QED BY <2>2, <2>3, <2>4
<1> QED BY <1>2, <1>3

LEMMA TasksStep ==
    ASSUME TasksInv, [Next]_vars
    PROVE  TasksInv' /\ Moves
<1>1. IInv' /\ Moves
  BY StepInv, StepMoves DEF TasksInv
<1> QED BY <1>1, KindsStep, UniqueStep, FailedStep, TasksNameGarbageStep DEF TasksInv

LEMMA TasksInit ==
    ASSUME Init
    PROVE  TasksInv
<1>1. \A p \in Posts : post[p].draft = NoPtr /\ post[p].published = NoPtr
  BY DEF Init, NoRow
<1>2. \A r \in Requests : req[r].new = NoPtr /\ req[r].pc = "idle"
  BY DEF Init, Idle
<1>3. KindsKept /\ DraftsUnique /\ FailedUnreferenced
  BY <1>1, <1>2 DEF KindsKept, DraftsUnique, FailedUnreferenced, NoPtr
<1>4. TasksNameGarbage
  BY DEF Init, TasksNameGarbage, Key
<1> QED BY <1>3, <1>4, InitInv DEF TasksInv

\* Cleanup is after no body that a row points at: the draft that a transaction drops was
\* nobody else's, and the body of a transaction that failed got into no row.
THEOREM TasksAreGarbage == Spec => []TasksNameGarbage
<1>1. Init => TasksInv
  BY TasksInit
<1>2. TasksInv /\ [Next]_vars => TasksInv'
  BY TasksStep
<1>3. TasksInv => TasksNameGarbage
  BY DEF TasksInv
<1> QED BY <1>1, <1>2, <1>3, PTL DEF Spec

-----------------------------------------------------------------------------
(* DONE means removed *)

LEMMA DoneStep ==
    ASSUME DoneInv, [Next]_vars
    PROVE  DoneInv'
<1>1. TasksInv /\ IInv /\ TasksInv' /\ Moves
  BY TasksStep DEF DoneInv, TasksInv
<1>2. \A b \in Bodies : store[b] = "REMOVED" => store'[b] = "REMOVED"
  BY <1>1 DEF Moves, BodyMove
<1>3. ASSUME NEW key \in Key, cleanup'[key].status = "DONE" PROVE store'[key[1]] = "REMOVED"
  <2>1. TaskMove(key) /\ key[1] \in Bodies
    BY <1>1, KeyParts DEF Moves
  <2> QED BY <1>2, <1>3, <2>1 DEF TaskMove, DoneInv, DoneMeansRemoved, SucceededRemoved
<1>4. ASSUME NEW w \in Workers, worker'[w].pc = "succeed"
      PROVE  store'[worker'[w].task[1]] = "REMOVED"
  <2>1. WorkerMove(w)
    BY <1>1 DEF Moves
  <2>2. CASE worker'[w] = worker[w]
    <3>1. worker[w].task[1] \in Bodies /\ store[worker[w].task[1]] = "REMOVED"
      BY <1>1, <1>4, <2>2, KeyParts DEF DoneInv, SucceededRemoved, IInv, TasksExist
    <3> QED BY <1>2, <2>2, <3>1
  <2> QED BY <1>4, <2>1, <2>2 DEF WorkerMove
<1> QED BY <1>1, <1>3, <1>4 DEF DoneInv, DoneMeansRemoved, SucceededRemoved

LEMMA DoneInit ==
    ASSUME Init
    PROVE  DoneInv
<1>1. DoneMeansRemoved /\ SucceededRemoved
  BY DEF Init, DoneMeansRemoved, SucceededRemoved, Free
<1> QED BY <1>1, TasksInit DEF DoneInv

\* A task is DONE only when its body is gone: whichever replica marks it has removed the
\* body itself, and a removed body is not written again.
THEOREM DoneIsRemoved == Spec => []DoneMeansRemoved
<1>1. Init => DoneInv
  BY DoneInit
<1>2. DoneInv /\ [Next]_vars => DoneInv'
  BY DoneStep
<1>3. DoneInv => DoneMeansRemoved
  BY DEF DoneInv
<1> QED BY <1>1, <1>2, <1>3, PTL DEF Spec

-----------------------------------------------------------------------------
(* Garbage is collected *)

LEMMA OrphansStep ==
    ASSUME TasksInv, OrphansFresh, Moves
    PROVE  OrphansFresh'
<1> SUFFICES ASSUME NEW r \in Requests, req'[r].new # NoPtr,
                    NEW type \in {"ORPHAN_DRAFT", "ORPHAN_SNAPSHOT"},
                    NEW key, key = <<req'[r].new.id, type>>
             PROVE  cleanup'[key].status = "NONE"
  BY DEF OrphansFresh
<1>1. IInv /\ RequestMove(r)
  BY DEF Moves, TasksInv
<1>2. CASE req'[r].new = req[r].new
  <2>1. key \in Key /\ cleanup[key].status = "NONE"
    BY <1>1, <1>2 DEF OrphansFresh, IInv, PendingBodiesSafe, Key, TaskTypes
  <2>2. \A w \in Workers : worker[w].pc \in {"succeed", "fail"} => worker[w].task # key
    BY <1>1, <2>1 DEF IInv, TasksExist
  <2>3. ASSUME NEW s \in Requests, key = <<req[s].new.id, OrphanType(req[s].op)>>,
               req[s].pc = "failed", req'[s] = Idle
        PROVE  FALSE
    <3>1. req[s].new.id = req[r].new.id
      BY <1>2, <2>3
    <3>2. s = r
      BY <1>1, <1>2, <3>1 DEF IInv, HeldOnce
    <3> QED BY <2>3, <3>2, Blanks
  <2>4. TaskMove(key)
    BY <2>1 DEF Moves
  <2> QED BY <2>1, <2>2, <2>3, <2>4 DEF TaskMove, Claimable
<1>3. CASE store[req'[r].new.id] = "UNWRITTEN" /\ UNCHANGED cleanup
           /\ req'[r].new.id \in DraftBodies \cup Snapshots
  <2>1. key \in Key /\ key[1] = req'[r].new.id
    BY <1>3 DEF Key, TaskTypes, Bodies
  <2> QED BY <1>1, <1>3, <2>1 DEF IInv, TasksExist
<1> QED BY <1>1, <1>2, <1>3 DEF RequestMove

LEMMA OldDraftsStep ==
    ASSUME OldDraftsNeverFail, FailuresExplained, Moves
    PROVE  OldDraftsNeverFail'
<1> SUFFICES ASSUME NEW b \in Bodies, NEW key, key = <<b, "OLD_DRAFT">>
             PROVE  cleanup'[key].status \in {"NONE", "PENDING", "PROCESSING", "DONE"}
  BY DEF OldDraftsNeverFail
<1>1. key \in Key /\ TaskMove(key)
  BY DEF Moves, Key, TaskTypes
<1>2. \A w \in Workers : worker[w].pc = "fail" => worker[w].task # key
  BY DEF FailuresExplained
<1> QED BY <1>1, <1>2 DEF TaskMove, OldDraftsNeverFail

\* A draft body that a row points at keeps its pointer or gets a task.
LEMMA ReferenceOrTask ==
    ASSUME TasksInv, Moves, NEW b \in DraftBodies,
           Referenced(b) \/ cleanup[<<b, "OLD_DRAFT">>].status # "NONE"
    PROVE  Referenced(b)' \/ cleanup'[<<b, "OLD_DRAFT">>].status # "NONE"
<1>1. <<b, "OLD_DRAFT">> \in Key /\ b \in Bodies
  BY DEF Key, TaskTypes, Bodies
<1>2. CASE cleanup[<<b, "OLD_DRAFT">>].status # "NONE"
  BY <1>1, <1>2, TasksStay DEF TasksInv
<1>3. CASE Referenced(b)
  <2>1. PICK p \in Posts : References(post[p], b)
    BY <1>3 DEF Referenced
  <2>2. post[p].draft.id = b /\ post[p].draft # NoPtr
    BY <2>1, ConstantsAssumption DEF TasksInv, KindsKept, References, NoPtr, Bodies
  <2>3. RowMove(p)
    BY DEF Moves
  <2> QED BY <2>2, <2>3 DEF RowMove, Referenced, References
<1> QED BY <1>2, <1>3

LEMMA FailuresStep ==
    ASSUME "store" \notin Faults, TasksInv, FailuresExplained, Moves
    PROVE  FailuresExplained'
<1> SUFFICES ASSUME NEW w \in Workers, worker'[w].pc = "fail",
                    NEW key, key = worker'[w].task
             PROVE  /\ key[2] # "OLD_DRAFT"
                    /\ key[1] \in DraftBodies =>
                          Referenced(key[1])' \/ cleanup'[<<key[1], "OLD_DRAFT">>].status # "NONE"
  BY DEF FailuresExplained, Referenced
<1>1. WorkerMove(w) /\ IInv
  BY DEF Moves, TasksInv
<1>2. CASE worker'[w] = worker[w]
  BY <1>2, ReferenceOrTask DEF FailuresExplained
<1>3. CASE key \in worker[w].batch /\ UNCHANGED <<post, cleanup>> /\ Referenced(key[1])
  <2>1. key \in Key /\ cleanup[key].status # "NONE"
    BY <1>1, <1>3 DEF IInv, TypeOK, Worker, TasksExist
  <2>2. key = <<key[1], key[2]>> /\ key[1] \in Bodies
    BY <2>1, KeyParts
  <2>3. key[2] # "OLD_DRAFT"
    <3>1. ASSUME key[2] = "OLD_DRAFT" PROVE FALSE
      <4>1. key = <<key[1], "OLD_DRAFT">> /\ "OLD_DRAFT" \in TaskTypes
        BY <2>2, <3>1 DEF TaskTypes
      <4> QED BY <1>3, <2>1, <2>2, <4>1 DEF TasksInv, TasksNameGarbage
    <3> QED BY <3>1
  <2> QED BY <1>3, <2>3, ReferenceOrTask
<1> QED BY <1>1, <1>2, <1>3 DEF WorkerMove

LEMMA CollectableStep ==
    ASSUME Faults \subseteq {"ambiguous"}, GarbageInv, DoneInv', OldDraftsNeverFail', Moves
    PROVE  DraftBodiesCollectable'
<1> SUFFICES ASSUME NEW b \in DraftBodies, Live(b)'
             PROVE  Referenced(b)' \/ Held(b)' \/ Collectable(b)'
  BY DEF DraftBodiesCollectable
<1>1. /\ b \in Bodies /\ BodyMove(b) /\ IInv /\ TasksInv
      /\ "store" \notin Faults /\ "crash" \notin Faults /\ "append" \notin Faults
  BY DEF Moves, Bodies, GarbageInv, DoneInv, TasksInv
<1>2. \A type \in TaskTypes : <<b, type>> \in Key
  BY <1>1 DEF Key
<1>3. store'[b] # "REMOVED" /\ store'[b] \in Hashes
  BY ConstantsAssumption DEF Live
<1>4. \A type \in TaskTypes : cleanup'[<<b, type>>].status # "DONE"
  BY <1>2, <1>3 DEF DoneInv, DoneMeansRemoved
<1>5. ASSUME cleanup'[<<b, "OLD_DRAFT">>].status # "NONE" PROVE Collectable(b)'
  <2>1. "OLD_DRAFT" \in TaskTypes
    BY DEF TaskTypes
  <2> QED BY <1>1, <1>4, <1>5, <2>1 DEF Collectable, Claimable, OldDraftsNeverFail
<1>6. CASE Referenced(b)
  BY <1>1, <1>5, <1>6, ReferenceOrTask
<1>7. CASE Held(b)
  <2>1. PICK r \in Requests : req[r].new.id = b
    BY <1>7 DEF Held
  <2>2. req[r].new # NoPtr /\ RequestMove(r)
    BY <1>1, <2>1, ConstantsAssumption DEF Moves, NoPtr
  <2>3. CASE cleanup' = Upserted(cleanup, <<b, OrphanType(req[r].op)>>)
    <3>1. OrphanType(req[r].op) = "ORPHAN_DRAFT"
      BY <1>1, <2>1, <2>2, ConstantsAssumption DEF TasksInv, KindsKept, OrphanType
    <3>2. cleanup[<<b, "ORPHAN_DRAFT">>].status = "NONE"
      BY <2>1, <2>2 DEF GarbageInv, OrphansFresh
    <3>3. <<b, "ORPHAN_DRAFT">> \in Key /\ cleanup \in [Key -> Task] /\ "ORPHAN_DRAFT" \in TaskTypes
      BY <1>1, <1>2 DEF IInv, TypeOK, TaskTypes
    <3>4. cleanup'[<<b, "ORPHAN_DRAFT">>].status = "PENDING"
      BY <2>3, <3>1, <3>2, <3>3 DEF Upserted
    <3> QED BY <3>3, <3>4 DEF Collectable, Claimable
  <2>4. CASE \E p \in Posts : References(post'[p], b)
    BY <2>4 DEF Referenced
  <2>5. CASE req'[r].new = req[r].new
    BY <2>1, <2>5 DEF Held
  <2> QED BY <1>1, <2>1, <2>2, <2>3, <2>4, <2>5 DEF RequestMove
<1>8. CASE Collectable(b)
  <2>1. PICK type \in TaskTypes : Claimable(cleanup[<<b, type>>])
    BY <1>8 DEF Collectable
  <2> DEFINE key == <<b, type>>
  <2>2. TaskMove(key)
    BY <1>2 DEF Moves
  <2>3. CASE Claimable(cleanup'[key])
    BY <2>3 DEF Collectable
  <2>4. CASE ~Claimable(cleanup'[key])
    <3>1. PICK w \in Workers : worker[w].task = key /\ worker[w].pc = "fail" /\ UNCHANGED post
      BY <1>4, <2>1, <2>2, <2>4 DEF TaskMove, Claimable
    <3>2. Referenced(b) \/ cleanup[<<b, "OLD_DRAFT">>].status # "NONE"
      BY <3>1 DEF GarbageInv, FailuresExplained
    <3> QED BY <1>1, <1>5, <3>2, ReferenceOrTask
  <2> QED BY <2>3, <2>4
<1>9. CASE store'[b] = store[b]
  <2>1. Live(b)
    BY <1>3, <1>9 DEF Live
  <2> QED BY <1>6, <1>7, <1>8, <2>1 DEF GarbageInv, DraftBodiesCollectable
<1> QED BY <1>1, <1>3, <1>9 DEF BodyMove

\* Cleanup loses no draft body and is after none it must not touch, where transactions may
\* commit unnoticed but no process dies and no call is lost: those leaks are listed.
THEOREM GarbageIsExact ==
    ASSUME Faults \subseteq {"ambiguous"} PROVE Spec => []GarbageExact
<1>1. Init => GarbageInv
  <2> SUFFICES ASSUME Init PROVE GarbageInv
    OBVIOUS
  <2>1. \A r \in Requests : req[r].new = NoPtr
    BY DEF Init, Idle
  <2>2. \A b \in Bodies : store[b] \notin Hashes
    BY ConstantsAssumption DEF Init
  <2>3. \A key \in Key : cleanup[key].status = "NONE"
    BY DEF Init
  <2>4. OrphansFresh /\ OldDraftsNeverFail
    BY <2>1, <2>3 DEF OrphansFresh, OldDraftsNeverFail, Key, TaskTypes
  <2>5. FailuresExplained
    BY DEF Init, FailuresExplained, Free
  <2>6. DraftBodiesCollectable
    BY <2>2 DEF DraftBodiesCollectable, Live, Bodies
  <2> QED BY <2>4, <2>5, <2>6, DoneInit DEF GarbageInv
<1>2. GarbageInv /\ [Next]_vars => GarbageInv'
  <2> SUFFICES ASSUME GarbageInv, [Next]_vars PROVE GarbageInv'
    OBVIOUS
  <2>1. TasksInv /\ DoneInv' /\ Moves /\ "store" \notin Faults
    BY DoneStep, TasksStep DEF GarbageInv, DoneInv
  <2>2. OrphansFresh' /\ OldDraftsNeverFail' /\ FailuresExplained'
    BY <2>1, OrphansStep, OldDraftsStep, FailuresStep DEF GarbageInv
  <2>3. DraftBodiesCollectable'
    BY <2>1, <2>2, CollectableStep
  <2> QED BY <2>1, <2>2, <2>3 DEF GarbageInv
<1>3. GarbageInv => GarbageExact
  BY DEF GarbageInv, DoneInv, TasksInv, GarbageExact
<1> QED BY <1>1, <1>2, <1>3, PTL DEF Spec
=============================================================================
