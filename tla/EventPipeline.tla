---------------------------- MODULE EventPipeline ----------------------------
(***************************************************************************)
(* An event's way from the transaction that appends it to an outbox to the *)
(* notification it asks for: Outbox and Inbox composed.  They meet in      *)
(* RabbitMQ, where a publication of a dispatcher becomes a copy that a     *)
(* consumer receives.                                                      *)
(*                                                                         *)
(* Assumed of the environment: the exchange has a binding to the queue of  *)
(* the consumers, as deploy/docker/rabbitmq/definitions.json declares it.  *)
(* A message that no binding matches is confirmed and dropped, since       *)
(* PublishJSON does not ask for it to be returned.                         *)
(***************************************************************************)
EXTENDS Inbox

CONSTANTS
    Dispatchers, DispatcherId, DeadThreshold, NoId, NoDispatcher, NoEvent, \* see Outbox
    ProducerFaults  \* the faults of the producer's side

VARIABLES row, disp, holder \* see Outbox

\* Messages the broker took at least once
Sent == {m \in Messages : sent[m] > 0}

Producer == INSTANCE Outbox
    WITH Events <- Messages, Faults <- ProducerFaults, broker <- Sent

ASSUME ProducerAssumption == Producer!OutboxAssumption

producer == <<row, disp, holder>>
pipeline == <<vars, producer>>

-----------------------------------------------------------------------------
(* Steps of the two components, joined where a message passes from one to  *)
(* the other                                                               *)

\* Publications made and still to be made of one event, at most MaxCopies (bounds
\* the model)
Room(m) ==
    sent[m] + Cardinality({d \in Dispatchers : \E i \in disp[d].batch : i.event = m})
        < MaxCopies

ClaimFor(d, picked) ==
    /\ UNCHANGED vars
    /\ \A m \in picked : Room(m)
    /\ Producer!ClaimBatch(d, picked)

Claim(d) == \E picked \in SUBSET Messages \ {{}} : ClaimFor(d, picked)

MarkSent(d) == UNCHANGED vars /\ Producer!MarkPublished(d)

MarkUnsent(d) == UNCHANGED vars /\ Producer!MarkFailed(d)

Produce ==
    /\ UNCHANGED vars
    /\ \/ \E m \in Messages : Producer!Append(m) \/ Producer!RetryOutboxEvent(m)
       \/ \E d \in Dispatchers : Producer!ClaimFails(d) \/ Producer!Crash(d)

\* RabbitMQ takes a copy; the confirm may still be late or not come.
Transmit(d) ==
    \E m \in Messages :
        /\ Publish(m)
        /\ Producer!Publish(d)
        /\ disp'[d].item.event = m

\* RabbitMQ takes nothing.  Outbox then lets the dispatcher believe in a confirm only
\* of a message that was taken before, which is more than PublishJSON ever does.
Refuse(d) == UNCHANGED vars /\ Producer!Publish(d)

Dispatch(d) == Claim(d) \/ Transmit(d) \/ Refuse(d) \/ MarkSent(d) \/ MarkUnsent(d)

\* The notification service, whatever the producers do
Consumption ==
    /\ \/ \E c \in Consumers : Consume(c)
       \/ \E r \in Requests : Mark(r)
    /\ UNCHANGED producer

PipelineInit == Init /\ Producer!Init

PipelineNext == Produce \/ (\E d \in Dispatchers : Dispatch(d)) \/ Consumption

PipelineSpec == PipelineInit /\ [][PipelineNext]_pipeline

\* That of the two components
PipelineFairness ==
    /\ Fairness
    /\ \A d \in Dispatchers :
          /\ WF_pipeline(Transmit(d) \/ Refuse(d))
          /\ WF_pipeline(MarkSent(d)) /\ WF_pipeline(MarkUnsent(d))
          /\ \A m \in Messages :
                SF_pipeline(\E picked \in SUBSET Messages : m \in picked /\ ClaimFor(d, picked))

PipelineFairSpec == PipelineSpec /\ PipelineFairness

-----------------------------------------------------------------------------
(* What happens to an event from end to end *)

\* A consumer has a copy and has not acked it.
Handling(c, m) == consumer[c].step # "Waiting" /\ consumer[c].message = m

\* A copy waits in the queue or is being handled.
Outstanding(m) == ready[m] > 0 \/ \E c \in Consumers : Handling(c, m)

\* No copy the broker took is lost, and none comes from nowhere.
CopiesAccounted ==
    \A m \in Messages :
        /\ sent[m] > 0 => Outstanding(m) \/ m \in acked
        /\ Outstanding(m) \/ m \in acked => sent[m] > 0

Stage(m) ==
    IF Producer!Stage(m) = "absent" THEN "absent"
    ELSE IF m \in acked THEN "settled"
    ELSE IF Producer!Stage(m) = "queued" \/ Outstanding(m) THEN "underway"
    ELSE IF Producer!Stage(m) = "dead" THEN "given_up"
    ELSE "lost"

Delivery == INSTANCE ServedEvents
    WITH Events <- Messages,
         Shows <- [m \in Messages |-> IF m \in Stored THEN {Asks[m].key} ELSE {}],
         Malformed <- {m \in Messages : Asks[m].action = "dead_letter"},
         stage <- [m \in Messages |-> Stage(m)],
         shown <- Shown, refused <- dead

\* From end to end, the outbox and the inbox serve events as ServedEvents has it:
\* no committed event is lost between the two, whatever fails on either side, and
\* no notification appears that no committed event asked for.
ImplementsServedEvents == Delivery!Spec

\* An event that is under way is settled in the end, or visibly given up.
CommittedEventsSettle ==
    \A m \in Messages : Stage(m) = "underway" ~> Stage(m) \in {"settled", "given_up"}
=============================================================================
