-------------------------------- MODULE Outbox --------------------------------
(***************************************************************************)
(* A transactional outbox and the dispatchers that empty it: the claim     *)
(* statements of libs/kit/postgres/outbox, the claim-publish-mark loop of  *)
(* the content and comment dispatchers, the publisher's wait for the       *)
(* broker's confirm and the operators' retry.                              *)
(*                                                                         *)
(* Time is abstracted: a retry may be due, and a claim stale, at any       *)
(* moment.  A definition whose name begins with Wrong is a plausible bug   *)
(* of the one that follows it and is used by none.                         *)
(***************************************************************************)
EXTENDS Naturals

CONSTANTS
    Events,         \* rows of outbox_events
    Dispatchers,    \* processes that run a dispatcher
    DispatcherId,   \* the id each of them writes to claimed_by
    DeadThreshold,  \* failed publications after which an event is DEAD
    Faults,         \* the faults the environment may inject
    NoId, NoDispatcher, NoEvent

FaultKinds ==
    { "crash",      \* a process dies between two calls and is started again
      "store",      \* a call to PostgreSQL fails, perhaps after it took effect
      "broker" }    \* a publication fails, perhaps after the broker took it

Ids == {DispatcherId[d] : d \in Dispatchers}

ASSUME OutboxAssumption ==
    /\ DeadThreshold \in Nat \ {0}
    /\ Faults \subseteq FaultKinds
    /\ NoId \notin Ids /\ NoDispatcher \notin Dispatchers /\ NoEvent \notin Events

VARIABLES
    row,        \* outbox_events: status, attempt_count and claimed_by
    broker,     \* events RabbitMQ accepted at least once
    disp,       \* dispatchers: the batch they claimed and how far they are
    holder      \* history: who claimed an event last

vars == <<row, broker, disp, holder>>

-----------------------------------------------------------------------------
(* Data *)

Statuses == {"NONE", "PENDING", "CLAIMING", "FAILED", "PUBLISHED", "DEAD"}
Row == [status : Statuses, attempts : 0..DeadThreshold, by : Ids \cup {NoId}]

\* An event as ClaimPending returned it, with the attempts it had then
Item == [event : Events, attempts : 0..DeadThreshold]
NoItem == [event |-> NoEvent, attempts |-> 0]

Dispatcher ==
    [pc : {"idle", "claimed", "published", "failed", "stopped"},
     item : Item \cup {NoItem}, batch : SUBSET Item]
Free == [pc |-> "idle", item |-> NoItem, batch |-> {}]
Stopped == [pc |-> "stopped", item |-> NoItem, batch |-> {}]

\* What a dispatcher has claimed and not marked yet
Items(x) == x.batch \cup (IF x.item = NoItem THEN {} ELSE {x.item})

\* attempt_count stops counting at the threshold: nothing looks beyond it
Counted(attempts) == IF attempts < DeadThreshold THEN attempts + 1 ELSE attempts

-----------------------------------------------------------------------------
(* The row of the business transaction, and the operators' retry *)

Append(e) ==
    /\ row[e].status = "NONE"
    /\ row' = [row EXCEPT ![e].status = "PENDING"]
    /\ UNCHANGED <<broker, disp, holder>>

\* retry_admin_outbox_event.sql keeps attempt_count
RetryOutboxEvent(e) ==
    /\ row[e].status \in {"FAILED", "DEAD"}
    /\ row' = [row EXCEPT ![e].status = "PENDING", ![e].by = NoId]
    /\ UNCHANGED <<broker, disp, holder>>

-----------------------------------------------------------------------------
(* Dispatchers *)

WrongClaimable(e) == row[e].status \in {"PENDING", "FAILED", "CLAIMING", "PUBLISHED"}

\* claim_pending.sql: due, or claimed by a dispatcher whose lease is stale
Claimable(e) == row[e].status \in {"PENDING", "FAILED", "CLAIMING"}

Taken(r, d) == [r EXCEPT !.status = "CLAIMING", !.by = DispatcherId[d]]

ClaimBatch(d, picked) ==
    /\ disp[d].pc = "idle"
    /\ \A e \in picked : Claimable(e)
    /\ row' = [e \in Events |-> IF e \in picked THEN Taken(row[e], d) ELSE row[e]]
    /\ holder' = [e \in Events |-> IF e \in picked THEN d ELSE holder[e]]
    /\ \/ disp' = [disp EXCEPT ![d] =
              [pc |-> "claimed", item |-> NoItem,
               batch |-> {[event |-> e, attempts |-> row[e].attempts] : e \in picked}]]
       \/ "store" \in Faults /\ disp' = [disp EXCEPT ![d] = Stopped]
    /\ UNCHANGED broker

ClaimPending(d) == \E picked \in SUBSET Events \ {{}} : ClaimBatch(d, picked)

\* An error of the claim ends the dispatcher's loop.
ClaimFails(d) ==
    /\ "store" \in Faults
    /\ disp[d].pc = "idle"
    /\ disp' = [disp EXCEPT ![d] = Stopped]
    /\ UNCHANGED <<row, broker, holder>>

Handling(d, item, pc) ==
    [disp EXCEPT ![d] = [pc |-> pc, item |-> item, batch |-> @.batch \ {item}]]

WrongPublish(d) ==
    /\ disp[d].pc = "claimed"
    /\ \E item \in disp[d].batch :
          \/ /\ broker' = broker \cup {item.event}
             /\ disp' = Handling(d, item, "published")
          \/ /\ "broker" \in Faults
             /\ UNCHANGED broker
             /\ disp' = Handling(d, item, "published")
    /\ UNCHANGED <<row, holder>>

\* PublishJSON waits for the confirm of this message; after a nack or a timeout
\* the broker may have it or not.
Publish(d) ==
    /\ disp[d].pc = "claimed"
    /\ \E item \in disp[d].batch :
          \/ /\ broker' = broker \cup {item.event}
             /\ disp' = Handling(d, item, "published")
          \/ /\ "broker" \in Faults
             /\ broker' \in {broker, broker \cup {item.event}}
             /\ disp' = Handling(d, item, "failed")
    /\ UNCHANGED <<row, holder>>

WrongOwned(d, e) == row[e].status = "CLAIMING"

\* WHERE of mark_published.sql and mark_failed.sql
Owned(d, e) == row[e].status = "CLAIMING" /\ row[e].by = DispatcherId[d]

\* requireClaimedRow: no row is ErrClaimLost, which, like an error of the
\* database, ends the loop.
Mark(d, status, attempts) ==
    LET e == disp[d].item.event IN
    /\ \/ /\ Owned(d, e)
          /\ row' = [row EXCEPT ![e] = [status |-> status, attempts |-> attempts, by |-> NoId]]
          /\ \/ disp' = [disp EXCEPT ![d] =
                    IF @.batch = {} THEN Free ELSE [@ EXCEPT !.pc = "claimed", !.item = NoItem]]
             \/ "store" \in Faults /\ disp' = [disp EXCEPT ![d] = Stopped]
       \/ /\ ~Owned(d, e) \/ "store" \in Faults
          /\ UNCHANGED row
          /\ disp' = [disp EXCEPT ![d] = Stopped]
    /\ UNCHANGED <<broker, holder>>

MarkPublished(d) ==
    /\ disp[d].pc = "published"
    /\ Mark(d, "PUBLISHED", row[disp[d].item.event].attempts)

WrongFailedStatus(attempts) == "FAILED"
FailedStatus(attempts) == IF attempts >= DeadThreshold THEN "DEAD" ELSE "FAILED"

\* The attempts are those of the claim plus one.
MarkFailed(d) ==
    LET attempts == Counted(disp[d].item.attempts) IN
    disp[d].pc = "failed" /\ Mark(d, FailedStatus(attempts), attempts)

Crash(d) ==
    /\ "crash" \in Faults
    /\ disp' = [disp EXCEPT ![d] = IF disp[d].pc = "stopped" THEN Free ELSE Stopped]
    /\ UNCHANGED <<row, broker, holder>>

Dispatch(d) ==
    \/ ClaimPending(d) \/ ClaimFails(d) \/ Publish(d)
    \/ MarkPublished(d) \/ MarkFailed(d) \/ Crash(d)

-----------------------------------------------------------------------------
Init ==
    /\ row = [e \in Events |-> [status |-> "NONE", attempts |-> 0, by |-> NoId]]
    /\ broker = {}
    /\ disp = [d \in Dispatchers |-> Free]
    /\ holder = [e \in Events |-> NoDispatcher]

Next ==
    \/ \E e \in Events : Append(e) \/ RetryOutboxEvent(e)
    \/ \E d \in Dispatchers : Dispatch(d)

Spec == Init /\ [][Next]_vars

\* A dispatcher that runs goes on with its batch, and its claims, which take the
\* oldest due events first, do not pass over an event for ever.
Fairness ==
    \A d \in Dispatchers :
        /\ WF_vars(Publish(d)) /\ WF_vars(MarkPublished(d)) /\ WF_vars(MarkFailed(d))
        /\ \A e \in Events :
              SF_vars(\E picked \in SUBSET Events : e \in picked /\ ClaimBatch(d, picked))

FairSpec == Spec /\ Fairness

-----------------------------------------------------------------------------
(* What holds of every reachable state *)

TypeOK ==
    /\ row \in [Events -> Row]
    /\ broker \subseteq Events
    /\ disp \in [Dispatchers -> Dispatcher]
    /\ holder \in [Events -> Dispatchers \cup {NoDispatcher}]

\* Every process has an id of its own, as the comment service's configuration
\* and the examples of docs/contracts/events.md have it.
DistinctIds ==
    \A d1, d2 \in Dispatchers : DispatcherId[d1] = DispatcherId[d2] => d1 = d2

Running(d) == disp[d].pc # "stopped"

\* Lost claims alone never stop the last dispatcher: each loss is another's claim
\* that was made later, so the one with the latest claims loses none.
SomeDispatcherRuns == \E d \in Dispatchers : Running(d)

-----------------------------------------------------------------------------
(* The inductive invariants *)

\* A row is marked published only by a dispatcher that saw the broker confirm.
ConfirmedBeforeMarked ==
    /\ \A e \in Events : row[e].status = "PUBLISHED" => e \in broker
    /\ \A d \in Dispatchers : disp[d].pc = "published" => disp[d].item.event \in broker

\* A batch holds an event once, without the one being handled.
WellFormed(x) ==
    /\ \A i, j \in Items(x) : i.event = j.event => i = j
    /\ x.item \notin x.batch
    /\ x.pc \in {"published", "failed"} <=> x.item # NoItem
    /\ x.pc \in {"idle", "stopped"} => x.batch = {}

BatchesWellFormed == \A d \in Dispatchers : WellFormed(disp[d])

\* Rows exist once they are claimed, and no event leaves before it was appended.
OnlyAppended ==
    /\ \A e \in broker : row[e].status # "NONE"
    /\ \A d \in Dispatchers : \A i \in Items(disp[d]) : row[i.event].status # "NONE"

IInv == TypeOK /\ ConfirmedBeforeMarked /\ BatchesWellFormed /\ OnlyAppended

\* claimed_by is the id of the dispatcher that claimed last.
ClaimsNameHolder ==
    \A e \in Events :
        row[e].status = "CLAIMING" =>
            holder[e] \in Dispatchers /\ row[e].by = DispatcherId[holder[e]]

\* What the holder of a claim read of the row is still what the row says.
HolderIsCurrent ==
    \A d \in Dispatchers : \A i \in Items(disp[d]) :
        row[i.event].status = "CLAIMING" /\ holder[i.event] = d
        => i.attempts = row[i.event].attempts

\* The claims of processes with ids of their own.
OwnersInv == ClaimsNameHolder /\ HolderIsCurrent

Holds(d, e) == row[e].status = "CLAIMING" /\ holder[e] = d

\* Some dispatcher runs and still holds all it has claimed.
SomeoneHoldsAll ==
    \E d \in Dispatchers : Running(d) /\ \A i \in Items(disp[d]) : Holds(d, i.event)

-----------------------------------------------------------------------------
(* What no step may do *)

\* A claim is ended only by the dispatcher that made it last, never by one whose
\* lease was taken over.
OnlyHolderMarks ==
    [][\A e \in Events :
         row[e].status = "CLAIMING" /\ row'[e].status # "CLAIMING"
         => /\ holder[e] \in Dispatchers
            /\ disp[holder[e]].item.event = e /\ disp'[holder[e]] # disp[holder[e]]]_vars

\* attempt_count never falls, so an event the broker refuses ends DEAD.
AttemptsNeverFall == [][\A e \in Events : row'[e].attempts >= row[e].attempts]_vars

-----------------------------------------------------------------------------
(* What must eventually happen *)

\* An event that waits is published or visibly given up.
EventsSettle ==
    \A e \in Events :
        row[e].status \in {"PENDING", "FAILED", "CLAIMING"}
        ~> row[e].status \in {"PUBLISHED", "DEAD"}

-----------------------------------------------------------------------------
(* The outbox is an AtLeastOnce channel *)

Stage(e) ==
    CASE row[e].status = "NONE"      -> "absent"
      [] row[e].status = "PUBLISHED" -> "acknowledged"
      [] row[e].status = "DEAD"      -> "dead"
      [] OTHER                       -> "queued"

Channel == INSTANCE AtLeastOnce
    WITH ledger <- [e \in Events |-> Stage(e)], delivered <- broker

ImplementsAtLeastOnce == Channel!Spec
=============================================================================
