------------------------ MODULE EventPipeline_proofs ------------------------
(***************************************************************************)
(* EventPipeline for any events, dispatchers, consumers, commands and      *)
(* faults: both components behave as they do alone, no copy is lost        *)
(* between them, and together they implement ServedEvents.                 *)
(*                                                                         *)
(* The proof is by composition.  Of the outbox it uses its refinement of   *)
(* AtLeastOnce and its invariant, of the inbox its invariant, and of both  *)
(* only how their steps look to the other.                                 *)
(***************************************************************************)
EXTENDS EventPipeline, Inbox_proofs

Proved == INSTANCE Outbox_proofs
    WITH Events <- Messages, Faults <- ProducerFaults, broker <- Sent

-----------------------------------------------------------------------------
(* What is proved of the outbox holds of the producer *)

LEMMA ProducerAssumed == Proved!OutboxAssumption
BY ProducerAssumption
   DEF Producer!OutboxAssumption, Proved!OutboxAssumption, Producer!Ids, Proved!Ids,
       Producer!FaultKinds, Proved!FaultKinds

LEMMA SameInit == Producer!Init <=> Proved!Init
BY DEF Producer!Init, Proved!Init, Producer!Free, Proved!Free, Producer!NoItem, Proved!NoItem

LEMMA SameStage ==
    /\ \A m : Producer!Stage(m) = Proved!Stage(m)
    /\ \A m : Producer!Stage(m)' = Proved!Stage(m)'
BY DEF Producer!Stage, Proved!Stage

LEMMA SamePublish == \A d : Producer!Publish(d) <=> Proved!Publish(d)
BY DEF Producer!Publish, Proved!Publish, Producer!Handling, Proved!Handling

LEMMA SameNext == [Producer!Next]_Producer!vars <=> [Proved!Next]_Proved!vars
<1>1. Producer!Next <=> Proved!Next
  BY DEF Producer!Next, Proved!Next, Producer!Dispatch, Proved!Dispatch,
         Producer!Append, Proved!Append, Producer!RetryOutboxEvent, Proved!RetryOutboxEvent,
         Producer!ClaimPending, Proved!ClaimPending, Producer!ClaimBatch, Proved!ClaimBatch,
         Producer!Claimable, Proved!Claimable, Producer!Taken, Proved!Taken,
         Producer!ClaimFails, Proved!ClaimFails, Producer!Publish, Proved!Publish,
         Producer!Handling, Proved!Handling, Producer!MarkPublished, Proved!MarkPublished,
         Producer!MarkFailed, Proved!MarkFailed, Producer!Mark, Proved!Mark,
         Producer!Owned, Proved!Owned, Producer!FailedStatus, Proved!FailedStatus,
         Producer!Counted, Proved!Counted, Producer!Crash, Proved!Crash,
         Producer!Free, Proved!Free, Producer!Stopped, Proved!Stopped,
         Producer!NoItem, Proved!NoItem
<1> QED BY <1>1 DEF Producer!vars, Proved!vars

\* What the outbox promises of each row, with the queue it fills.
LEMMA ProducerKnows ==
    ASSUME Proved!IInv, NEW m \in Messages
    PROVE  /\ Producer!Stage(m) \in {"absent", "queued", "acknowledged", "dead"}
           /\ Producer!Stage(m) = "acknowledged" => sent[m] > 0
           /\ sent[m] > 0 => Producer!Stage(m) # "absent"
<1>1. row[m].status = "PUBLISHED" => m \in Sent
  BY DEF Proved!IInv, Proved!ConfirmedBeforeMarked
<1>2. m \in Sent => row[m].status # "NONE"
  BY DEF Proved!IInv, Proved!OnlyAppended
<1> QED BY <1>1, <1>2 DEF Producer!Stage, Sent

\* One event moves as an AtLeastOnce channel moves it.
Moves == {<<"absent", "queued">>, <<"queued", "acknowledged">>, <<"queued", "dead">>,
          <<"dead", "queued">>}

LEMMA ProducerStep ==
    ASSUME Proved!IInv, [Producer!Next]_Producer!vars
    PROVE  \/ \A m \in Messages : Producer!Stage(m)' = Producer!Stage(m)
           \/ \E m \in Messages :
                 /\ \A n \in Messages \ {m} : Producer!Stage(n)' = Producer!Stage(n)
                 /\ <<Producer!Stage(m), Producer!Stage(m)'>> \in Moves
                 /\ Producer!Stage(m)' = "acknowledged" => sent[m] > 0
<1> DEFINE ledger == [m \in Messages |-> Proved!Stage(m)]
<1>1. [Proved!Channel!Next]_<<ledger, Sent>>
  BY SameNext, ProducerAssumed, Proved!ChannelStep
<1>2. ASSUME ledger' = ledger
      PROVE  \A m \in Messages : Producer!Stage(m)' = Producer!Stage(m)
  <2>1. \A m \in Messages : ledger[m] = Producer!Stage(m) /\ ledger'[m] = Producer!Stage(m)'
    BY SameStage
  <2> QED BY <1>2, <2>1
<1>3. ASSUME NEW m \in Messages, NEW from, NEW to, <<from, to>> \in Moves,
             ledger[m] = from, ledger' = [ledger EXCEPT ![m] = to],
             to = "acknowledged" => m \in Sent
      PROVE  /\ \A n \in Messages \ {m} : Producer!Stage(n)' = Producer!Stage(n)
             /\ <<Producer!Stage(m), Producer!Stage(m)'>> \in Moves
             /\ Producer!Stage(m)' = "acknowledged" => sent[m] > 0
  <2>1. \A n \in Messages : ledger[n] = Producer!Stage(n) /\ ledger'[n] = Producer!Stage(n)'
    BY SameStage
  <2>2. \A n \in Messages : ledger'[n] = IF n = m THEN to ELSE ledger[n]
    BY <1>3
  <2> HIDE DEF ledger
  <2> QED BY <1>3, <2>1, <2>2 DEF Sent
<1>4. CASE \E m \in Messages : Proved!Channel!Deliver(m)
  BY <1>2, <1>4 DEF Proved!Channel!Deliver
<1>5. ASSUME NEW m \in Messages,
             \/ Proved!Channel!Append(m) \/ Proved!Channel!Acknowledge(m)
             \/ Proved!Channel!GiveUp(m) \/ Proved!Channel!Requeue(m)
      PROVE  \E from, to : /\ <<from, to>> \in Moves /\ ledger[m] = from
                           /\ ledger' = [ledger EXCEPT ![m] = to]
                           /\ to = "acknowledged" => m \in Sent
  BY <1>5 DEF Moves, Proved!Channel!Append, Proved!Channel!Acknowledge, Proved!Channel!GiveUp,
              Proved!Channel!Requeue
<1>6. CASE ledger' = ledger
  BY <1>2, <1>6
<1> HIDE DEF ledger
<1> QED BY <1>1, <1>3, <1>4, <1>5, <1>6 DEF Proved!Channel!Next

-----------------------------------------------------------------------------
(* How a step of the inbox looks from outside *)

\* A consumer goes on with its message, or gives it back.
Goes(c) ==
    /\ consumer[c].step # "Waiting"
    /\ \E step \in {"DeadLetter", "Ack"} : consumer' = [consumer EXCEPT ![c].step = step]
    /\ UNCHANGED <<ready, acked>>

Returns(c) == consumer[c].step # "Waiting" /\ Requeue(c)

LEMMA ConsumeShape ==
    ASSUME NEW c \in Consumers, Consume(c)
    PROVE  /\ sent' = sent
           /\ (\E m \in Messages : Receive(c, m)) \/ Goes(c) \/ Returns(c) \/ Ack(c)
<1>1. CASE \E m \in Messages : Receive(c, m)
  BY <1>1 DEF Receive
<1>2. CASE Ignore(c)
  BY <1>2 DEF Ignore, Handled, Goes
<1>3. CASE CreateInteractionNotification(c)
  BY <1>3 DEF CreateInteractionNotification, Handled, Goes, Failed, Returns, Requeue
<1>4. CASE StoreFails(c)
  BY <1>4 DEF StoreFails, Failed, Returns, Requeue
<1>5. CASE PublishDeadLetter(c)
  BY <1>5 DEF PublishDeadLetter, Goes, Returns, Requeue
<1>6. CASE Ack(c)
  BY <1>6 DEF Ack
<1>7. CASE Crash(c)
  BY <1>7 DEF Crash, Returns, Requeue
<1> QED BY <1>1, <1>2, <1>3, <1>4, <1>5, <1>6, <1>7 DEF Consume

\* Commands leave the queue as it is, and show no more and no fewer notifications.
LEMMA MarkShape ==
    ASSUME IInv, NEW r \in Requests, Mark(r)
    PROVE  UNCHANGED queue /\ Shown' = Shown
<1>1. UNCHANGED queue
  BY DEF Mark, Proceed, FindNotification, MarkGroupRead, LockGroups, MarkRead, MarkRows,
         ResetGroups, ResetStats, Rollback
<1>2. status \in [Keys -> {"NONE", "UNREAD", "READ"}]
  BY DEF IInv, TypeOK
<1>3. CASE MarkRead(r)
  <2>1. req[r].key \in Shown /\ req[r].key \in Keys
    BY <1>3 DEF MarkRead, IInv, LocksHold, Shown
  <2>2. \A k \in Keys : status'[k] = "NONE" <=> status[k] = "NONE"
    BY <1>2, <1>3, <2>1 DEF MarkRead, Shown
  <2> QED BY <1>1, <2>2 DEF Shown
<1>4. CASE \E g \in Groups : MarkGroupRead(r, g)
  <2>1. \A k \in Keys : status'[k] = "NONE" <=> status[k] = "NONE"
    BY <1>4 DEF MarkGroupRead, Unread
  <2> QED BY <1>1, <2>1 DEF Shown
<1>5. CASE ResetStats(r)
  <2>1. \A k \in req[r].marked : status[k] = "UNREAD"
    BY DEF IInv, LocksHold
  <2>2. \A k \in Keys : status'[k] = "NONE" <=> status[k] = "NONE"
    BY <1>5, <2>1 DEF ResetStats
  <2> QED BY <1>1, <2>2 DEF Shown
<1>6. CASE UNCHANGED status
  BY <1>1, <1>6 DEF Shown
<1> QED BY <1>3, <1>4, <1>5, <1>6
        DEF Mark, Proceed, FindNotification, LockGroups, MarkRows, ResetGroups, Rollback

\* Copies stay outstanding until one of them is acked.
LEMMA CopiesStay ==
    ASSUME IInv, NEW c \in Consumers,
           (\E m \in Messages : Receive(c, m)) \/ Goes(c) \/ Returns(c)
    PROVE  acked' = acked /\ \A n \in Messages : Outstanding(n)' <=> Outstanding(n)
<1>1. /\ ready \in [Messages -> Nat] /\ consumer \in [Consumers -> ConsumerState]
      /\ consumer[c].step # "Waiting" => consumer[c].message \in Messages
  BY DEF IInv, TypeOK, HandlersServe
<1>2. ASSUME NEW m \in Messages, Receive(c, m), NEW n \in Messages
      PROVE  acked' = acked /\ (Outstanding(n)' <=> Outstanding(n))
  <2>1. /\ acked' = acked /\ consumer[c].step = "Waiting" /\ ready[m] > 0
        /\ \A d \in Consumers : Handling(d, n)' <=> (d = c /\ n = m) \/ Handling(d, n)
        /\ ready'[n] = IF n = m THEN ready[n] - 1 ELSE ready[n]
    BY <1>1, <1>2, States DEF Receive, Handling
  <2>2. n # m => ready'[n] = ready[n]
    BY <2>1
  <2>3. ready'[n] > 0 => ready[n] > 0
    BY <1>1, <2>1
  <2>4. n = m => (Outstanding(n)' /\ Outstanding(n))
    BY <2>1 DEF Outstanding
  <2> QED BY <2>1, <2>2, <2>4 DEF Outstanding
<1>3. ASSUME Goes(c), NEW n \in Messages
      PROVE  acked' = acked /\ (Outstanding(n)' <=> Outstanding(n))
  <2>1. PICK step \in {"DeadLetter", "Ack"} :
            consumer[c].step # "Waiting" /\ consumer' = [consumer EXCEPT ![c].step = step]
    BY <1>3 DEF Goes
  <2>2. PICK x : /\ x.step = step /\ x.message = consumer[c].message
                 /\ consumer' = [consumer EXCEPT ![c] = x]
    BY <2>1, HandledState
  <2>3. \A d \in Consumers : consumer'[d] = IF d = c THEN x ELSE consumer[d]
    BY <1>1, <2>2
  <2>4. \A d \in Consumers : Handling(d, n)' <=> Handling(d, n)
    BY <2>1, <2>2, <2>3 DEF Handling
  <2> QED BY <1>3, <2>4 DEF Goes, Outstanding
<1>4. ASSUME Returns(c), NEW n \in Messages
      PROVE  acked' = acked /\ (Outstanding(n)' <=> Outstanding(n))
  <2>1. /\ acked' = acked /\ consumer[c].step # "Waiting"
        /\ consumer' = [consumer EXCEPT ![c] = Waiting]
        /\ ready' = [ready EXCEPT ![consumer[c].message] = @ + 1]
    BY <1>4 DEF Returns, Requeue
  <2>2. \A d \in Consumers : Handling(d, n)' <=> Handling(d, n) /\ d # c
    BY <1>1, <2>1, States DEF Handling
  <2>3. CASE n = consumer[c].message
    <3>1. ready'[n] > 0
      BY <1>1, <2>1, <2>3
    <3>2. Handling(c, n)
      BY <2>1, <2>3 DEF Handling
    <3> QED BY <2>1, <3>1, <3>2 DEF Outstanding
  <2>4. CASE n # consumer[c].message
    <3>1. ready'[n] = ready[n] /\ ~Handling(c, n)
      BY <1>1, <2>1, <2>4 DEF Handling
    <3> QED BY <2>1, <2>2, <3>1 DEF Outstanding
  <2> QED BY <2>3, <2>4
<1> QED BY <1>2, <1>3, <1>4 DEF Receive, Goes, Returns, Requeue

LEMMA AckLeaves ==
    ASSUME IInv, NEW c \in Consumers, Ack(c)
    PROVE  /\ consumer[c].message \in Messages
           /\ Outstanding(consumer[c].message) /\ Served(consumer[c].message)
           /\ acked' = acked \cup {consumer[c].message}
           /\ \A n \in Messages : /\ Outstanding(n)' => Outstanding(n)
                                  /\ n # consumer[c].message => (Outstanding(n)' <=> Outstanding(n))
<1>1. /\ consumer[c].step = "Ack" /\ consumer' = [consumer EXCEPT ![c] = Waiting]
      /\ ready' = ready /\ acked' = acked \cup {consumer[c].message}
  BY DEF Ack
<1>2. /\ consumer \in [Consumers -> ConsumerState]
      /\ consumer[c].message \in Messages /\ Served(consumer[c].message)
  BY <1>1 DEF IInv, TypeOK, HandlersServe
<1>3. \A n : \A d \in Consumers : Handling(d, n)' <=> Handling(d, n) /\ d # c
  BY <1>1, <1>2, States DEF Handling
<1>4. Handling(c, consumer[c].message) /\ \A n : n # consumer[c].message => ~Handling(c, n)
  BY <1>1 DEF Handling
<1>5. Outstanding(consumer[c].message)
  BY <1>4 DEF Outstanding
<1> QED BY <1>1, <1>2, <1>3, <1>4, <1>5 DEF Outstanding

\* What an event asks for is done while a consumer handles it.
LEMMA EffectsShape ==
    ASSUME IInv, NEW c \in Consumers, Consume(c)
    PROVE  \/ Shown' = Shown /\ dead' = dead
           \/ /\ ~Ack(c) /\ consumer[c].step # "Waiting" /\ consumer[c].message \in Stored
              /\ Shown' = Shown \cup {Asks[consumer[c].message].key} /\ dead' = dead
           \/ /\ ~Ack(c) /\ consumer[c].step # "Waiting"
              /\ Asks[consumer[c].message].action = "dead_letter"
              /\ Shown' = Shown /\ dead' = dead \cup {consumer[c].message}
<1>1. status \in [Keys -> {"NONE", "UNREAD", "READ"}]
  BY DEF IInv, TypeOK
<1>2. CASE CreateInteractionNotification(c)
  <2> DEFINE m == consumer[c].message
             k == Asks[m].key
  <2>1. /\ m \in Stored /\ consumer[c].step = "Handle" /\ dead' = dead
        /\ status' = status \/ Insert(k)
    BY <1>2 DEF CreateInteractionNotification, Handled, Failed, Requeue
  <2>2. k \in Keys
    BY <2>1, KeyFacts
  <2>3. CASE status' = status
    BY <2>1, <2>3 DEF Shown
  <2>4. CASE Insert(k)
    <3>1. status' \in {status, [status EXCEPT ![k] = "UNREAD"]} /\ (status' = status => k \in Shown)
      BY <2>2, <2>4, <1>1 DEF Insert, IsNew, Shown
    <3>2. Shown' = Shown \cup {k}
      BY <1>1, <2>2, <3>1 DEF Shown
    <3> QED BY <2>1, <3>2 DEF Ack
  <2> QED BY <2>1, <2>3, <2>4
<1>3. CASE PublishDeadLetter(c)
  <2>1. Shown' = Shown /\ consumer[c].step = "DeadLetter"
    BY <1>3 DEF PublishDeadLetter, Shown
  <2>2. Asks[consumer[c].message].action = "dead_letter"
    BY <2>1 DEF IInv, HandlersServe
  <2>3. dead' = dead \/ dead' = dead \cup {consumer[c].message}
    BY <1>3 DEF PublishDeadLetter, Requeue
  <2> QED BY <2>1, <2>2, <2>3 DEF Ack
<1>4. CASE \/ \E m \in Messages : Receive(c, m)
          \/ Ignore(c) \/ StoreFails(c) \/ Ack(c) \/ Crash(c)
  BY <1>4 DEF Receive, Ignore, Handled, StoreFails, Failed, Ack, Crash, Requeue, Shown
<1> QED BY <1>2, <1>3, <1>4 DEF Consume

-----------------------------------------------------------------------------
(* The components in the pipeline *)

\* The notification service publishes nothing, and the producers do not touch it.
LEMMA Projection ==
    ASSUME [PipelineNext]_pipeline
    PROVE  [Next]_vars /\ [Producer!Next]_Producer!vars
<1>1. CASE UNCHANGED pipeline
  BY <1>1 DEF pipeline, producer, Producer!vars, Sent, vars, queue
<1>2. ASSUME NEW d \in Dispatchers, Dispatch(d)
      PROVE  [Next]_vars /\ Producer!Next
  <2>1. [Next]_vars
    BY <1>2 DEF Dispatch, Claim, ClaimFor, Transmit, Refuse, MarkSent, MarkUnsent, Next
  <2>2. \/ Producer!ClaimPending(d) \/ Producer!Publish(d)
        \/ Producer!MarkPublished(d) \/ Producer!MarkFailed(d)
    BY <1>2 DEF Dispatch, Claim, ClaimFor, Transmit, Refuse, MarkSent, MarkUnsent,
                Producer!ClaimPending
  <2> QED BY <2>1, <2>2 DEF Producer!Next, Producer!Dispatch
<1>3. CASE Produce
  BY <1>3 DEF Produce, Producer!Next, Producer!Dispatch
<1>4. CASE Consumption
  <2>1. Next /\ UNCHANGED producer
    BY <1>4 DEF Consumption, Next
  <2>2. sent' = sent
    <3>1. ASSUME NEW c \in Consumers, Consume(c) PROVE sent' = sent
      BY <3>1, ConsumeShape
    <3>2. ASSUME NEW r \in Requests, Mark(r) PROVE sent' = sent
      BY <3>2 DEF Mark, Proceed, FindNotification, MarkGroupRead, LockGroups, MarkRead, MarkRows,
                  ResetGroups, ResetStats, Rollback, queue
    <3> QED BY <1>4, <3>1, <3>2 DEF Consumption
  <2> QED BY <2>1, <2>2 DEF producer, Producer!vars, Sent
<1> QED BY <1>1, <1>2, <1>3, <1>4 DEF PipelineNext

\* Composed with the other, each component does only what it does alone, so all that is
\* proved of the outbox and of the inbox holds in the pipeline.
THEOREM ComponentsAsAlone == PipelineSpec => Spec /\ Producer!Spec
<1>1. PipelineInit => Init /\ Producer!Init
  BY DEF PipelineInit
<1>2. [PipelineNext]_pipeline => [Next]_vars /\ [Producer!Next]_Producer!vars
  BY Projection
<1> QED BY <1>1, <1>2, PTL DEF PipelineSpec, Spec, Producer!Spec

-----------------------------------------------------------------------------
(* No copy is lost *)

LEMMA CopiesKept ==
    ASSUME IInv, CopiesAccounted, [Next]_vars
    PROVE  CopiesAccounted'
<1>1. CASE UNCHANGED queue
  BY <1>1 DEF queue, CopiesAccounted, Outstanding, Handling
<1>2. ASSUME NEW m \in Messages, Publish(m)
      PROVE  CopiesAccounted'
  <2>1. /\ consumer' = consumer /\ acked' = acked
        /\ \A n \in Messages : ready'[n] = (IF n = m THEN ready[n] + 1 ELSE ready[n])
                             /\ sent'[n] = (IF n = m THEN sent[n] + 1 ELSE sent[n])
        /\ \A n \in Messages : ready[n] \in Nat /\ sent[n] \in Nat
    BY <1>2 DEF Publish, IInv, TypeOK
  <2>2. Outstanding(m)' /\ sent'[m] > 0
    BY <2>1 DEF Outstanding
  <2>3. \A n \in Messages \ {m} : (Outstanding(n)' <=> Outstanding(n)) /\ sent'[n] = sent[n]
    BY <2>1 DEF Outstanding, Handling
  <2> QED BY <2>1, <2>2, <2>3 DEF CopiesAccounted
<1>3. ASSUME NEW c \in Consumers, Consume(c)
      PROVE  CopiesAccounted'
  <2>1. CASE (\E m \in Messages : Receive(c, m)) \/ Goes(c) \/ Returns(c)
    BY <1>3, <2>1, ConsumeShape, CopiesStay DEF CopiesAccounted
  <2>2. CASE Ack(c)
    BY <1>3, <2>2, ConsumeShape, AckLeaves DEF CopiesAccounted
  <2> QED BY <1>3, <2>1, <2>2, ConsumeShape
<1>4. ASSUME NEW r \in Requests, Mark(r)
      PROVE  CopiesAccounted'
  BY <1>1, <1>4, MarkShape
<1> QED BY <1>1, <1>2, <1>3, <1>4 DEF Next, vars

\* The inductive invariant of the pipeline: those of its parts, and the accounts of
\* the queue between them
PipelineInv == IInv /\ Proved!IInv /\ CopiesAccounted

LEMMA PipelineInvInit == PipelineInit => PipelineInv
<1> SUFFICES ASSUME PipelineInit PROVE PipelineInv
  OBVIOUS
<1>1. IInv
  BY InitHolds DEF PipelineInit
<1>2. Proved!IInv
  BY SameInit, ProducerAssumed, Proved!InitInv DEF PipelineInit
<1>3. CopiesAccounted
  BY States DEF PipelineInit, Init, CopiesAccounted, Outstanding, Handling
<1> QED BY <1>1, <1>2, <1>3 DEF PipelineInv

LEMMA PipelineInvStep == PipelineInv /\ [PipelineNext]_pipeline => PipelineInv'
<1> SUFFICES ASSUME PipelineInv, [PipelineNext]_pipeline PROVE PipelineInv'
  OBVIOUS
<1>1. [Next]_vars /\ [Proved!Next]_Proved!vars
  BY Projection, SameNext
<1>2. IInv' /\ CopiesAccounted'
  BY <1>1, StepHolds, CopiesKept DEF PipelineInv
<1>3. Proved!IInv'
  BY <1>1, ProducerAssumed, Proved!StepInv DEF PipelineInv
<1> QED BY <1>2, <1>3 DEF PipelineInv

\* Whatever fails on either side, a copy the broker took is waiting, being handled or
\* was acked, and every copy there is was published.
THEOREM CopiesAreAccounted == PipelineSpec => []PipelineInv
BY PipelineInvInit, PipelineInvStep, PTL DEF PipelineSpec

-----------------------------------------------------------------------------
(* The pipeline serves events *)

\* Stages are those of ServedEvents: none is lost.
LEMMA StageKnows ==
    ASSUME PipelineInv, NEW m \in Messages
    PROVE  /\ Stage(m) \in Delivery!Stages
           /\ Outstanding(m) /\ m \notin acked => Stage(m) = "underway"
           /\ m \in acked <=> Stage(m) = "settled"
<1>1. /\ Producer!Stage(m) \in {"absent", "queued", "acknowledged", "dead"}
      /\ Producer!Stage(m) = "acknowledged" => sent[m] > 0
      /\ sent[m] > 0 => Producer!Stage(m) # "absent"
  BY ProducerKnows DEF PipelineInv
<1>2. /\ sent[m] > 0 => Outstanding(m) \/ m \in acked
      /\ Outstanding(m) \/ m \in acked => sent[m] > 0
  BY DEF PipelineInv, CopiesAccounted
<1> QED BY <1>1, <1>2 DEF Stage, Delivery!Stages

\* No event is lost on its way: none is acknowledged by the broker and then neither
\* outstanding nor settled.
THEOREM NothingLost == PipelineSpec => [](\A m \in Messages : Stage(m) # "lost")
<1>1. PipelineInv => \A m \in Messages : Stage(m) # "lost"
  BY StageKnows DEF Delivery!Stages
<1> QED BY <1>1, CopiesAreAccounted, PTL

stages == [m \in Messages |-> Stage(m)]

LEMMA StageMove ==
    ASSUME NEW m \in Messages, \A n \in Messages \ {m} : Stage(n)' = Stage(n),
           NEW s, Stage(m)' = s
    PROVE  stages' = [stages EXCEPT ![m] = s] /\ stages[m] = Stage(m)
<1>1. \A n \in Messages : Stage(n)' = IF n = m THEN s ELSE Stage(n)
  OBVIOUS
<1> QED BY <1>1, Zenon DEF stages

LEMMA StagesStay ==
    ASSUME \A m \in Messages : Stage(m)' = Stage(m)
    PROVE  stages' = stages
BY DEF stages

Quiet == UNCHANGED <<stages, Shown, dead>>

\* The inbox rests: an event moves when its row does.
LEMMA ProducerMoves ==
    ASSUME PipelineInv, [Producer!Next]_Producer!vars, UNCHANGED vars
    PROVE  Quiet \/ \E m \in Messages :
               Delivery!Commit(m) \/ Delivery!GiveUp(m) \/ Delivery!Resume(m)
<1>1. /\ UNCHANGED <<sent, acked, dead, Shown>>
      /\ \A m \in Messages : Outstanding(m)' <=> Outstanding(m)
  BY DEF vars, queue, Shown, Outstanding, Handling
<1>2. CASE \A m \in Messages : Producer!Stage(m)' = Producer!Stage(m)
  <2>1. \A m \in Messages : Stage(m)' = Stage(m)
    BY <1>1, <1>2 DEF Stage
  <2> QED BY <1>1, <2>1, StagesStay DEF Quiet
<1>3. ASSUME NEW m \in Messages,
             \A n \in Messages \ {m} : Producer!Stage(n)' = Producer!Stage(n),
             <<Producer!Stage(m), Producer!Stage(m)'>> \in Moves,
             Producer!Stage(m)' = "acknowledged" => sent[m] > 0
      PROVE  Quiet \/ Delivery!Commit(m) \/ Delivery!GiveUp(m) \/ Delivery!Resume(m)
  <2>1. \A n \in Messages \ {m} : Stage(n)' = Stage(n)
    BY <1>1, <1>3 DEF Stage
  <2>2. /\ Producer!Stage(m) = "absent" => m \notin acked /\ ~Outstanding(m)
        /\ sent[m] > 0 => Outstanding(m) \/ m \in acked
    BY ProducerKnows DEF PipelineInv, CopiesAccounted
  <2>3. \/ Stage(m)' = Stage(m)
        \/ <<Stage(m), Stage(m)'>> \in {<<"absent", "underway">>, <<"underway", "given_up">>,
                                        <<"given_up", "underway">>}
    BY <1>1, <1>3, <2>2 DEF Stage, Moves
  <2>4. CASE Stage(m)' = Stage(m)
    BY <1>1, <2>1, <2>4, StagesStay DEF Quiet
  <2>5. CASE <<Stage(m), Stage(m)'>> \in {<<"absent", "underway">>, <<"underway", "given_up">>,
                                         <<"given_up", "underway">>}
    <3>1. stages' = [stages EXCEPT ![m] = Stage(m)'] /\ stages[m] = Stage(m)
      BY <2>1, StageMove
    <3> QED BY <1>1, <2>5, <3>1
            DEF Delivery!Commit, Delivery!GiveUp, Delivery!Resume, Delivery!Move, stages
  <2> QED BY <2>3, <2>4, <2>5
<1> QED BY <1>2, <1>3, ProducerStep DEF PipelineInv

\* A copy brings an event that was given up under way again.
LEMMA TransmitMoves ==
    ASSUME PipelineInv, NEW d \in Dispatchers, Transmit(d)
    PROVE  Quiet \/ \E m \in Messages : Delivery!Resume(m)
<1>1. PICK m \in Messages : Publish(m) /\ Producer!Publish(d) /\ disp'[d].item.event = m
  BY DEF Transmit
<1>2. /\ UNCHANGED <<acked, dead, Shown, row>>
      /\ \A n \in Messages \ {m} : Outstanding(n)' <=> Outstanding(n)
      /\ Outstanding(m)'
  <2>1. /\ UNCHANGED <<acked, dead, status, consumer, row>>
        /\ \A n \in Messages : ready'[n] = IF n = m THEN ready[n] + 1 ELSE ready[n]
        /\ ready[m] \in Nat
    BY <1>1 DEF Publish, Producer!Publish, PipelineInv, IInv, TypeOK
  <2> QED BY <2>1 DEF Shown, Outstanding, Handling
<1>3. \A n \in Messages : Producer!Stage(n)' = Producer!Stage(n)
  BY <1>2 DEF Producer!Stage
<1>4. Producer!Stage(m) # "absent"
  <2>1. sent'[m] > 0
    BY <1>1 DEF Publish, PipelineInv, IInv, TypeOK
  <2>2. [Proved!Next]_Proved!vars
    BY <1>1, SameNext DEF Producer!Next, Producer!Dispatch
  <2>3. Proved!IInv'
    BY <2>2, ProducerAssumed, Proved!StepInv DEF PipelineInv
  <2>4. m \in Sent' => row'[m].status # "NONE"
    BY <2>3 DEF Proved!IInv, Proved!OnlyAppended
  <2> QED BY <1>2, <2>1, <2>4 DEF Sent, Producer!Stage
<1>5. \A n \in Messages \ {m} : Stage(n)' = Stage(n)
  BY <1>2, <1>3 DEF Stage
<1>6. Stage(m)' = IF m \in acked THEN "settled" ELSE "underway"
  BY <1>2, <1>3, <1>4 DEF Stage
<1>7. Stage(m) \in Delivery!Stages /\ Stage(m) # "absent" /\ (m \in acked <=> Stage(m) = "settled")
  BY <1>4, StageKnows DEF Stage
<1>8. CASE Stage(m) = "given_up"
  <2>1. stages' = [stages EXCEPT ![m] = "underway"] /\ stages[m] = "given_up"
    BY <1>5, <1>6, <1>7, <1>8, StageMove
  <2> QED BY <1>2, <2>1 DEF Delivery!Resume, Delivery!Move, stages
<1>9. CASE Stage(m) # "given_up"
  <2>1. Stage(m)' = Stage(m)
    BY <1>6, <1>7, <1>9 DEF Delivery!Stages
  <2> QED BY <1>2, <1>5, <2>1, StagesStay DEF Quiet
<1> QED BY <1>8, <1>9

\* What Served says of a message, as ServedEvents says it.
LEMMA ServedMeans ==
    ASSUME NEW m \in Messages, Served(m)
    PROVE  Delivery!Served(m)
BY DEF Served, Delivery!Served, Stored

\* A consumer does what an event asks for before it acks, and only then.
LEMMA ConsumptionMoves ==
    ASSUME PipelineInv, NEW c \in Consumers, Consume(c), UNCHANGED row,
           NEW m, m = consumer[c].message
    PROVE  Quiet \/ \E n \in Messages :
               Delivery!Show(n) \/ Delivery!Refuse(n) \/ Delivery!Settle(n)
<1>0. IInv /\ \A n \in Messages : Producer!Stage(n)' = Producer!Stage(n)
  BY DEF PipelineInv, Producer!Stage
<1>1. CASE Ack(c)
  <2>1. /\ m \in Messages /\ Outstanding(m) /\ Served(m) /\ acked' = acked \cup {m}
        /\ \A n \in Messages : /\ Outstanding(n)' => Outstanding(n)
                               /\ n # m => (Outstanding(n)' <=> Outstanding(n))
    BY <1>0, <1>1, AckLeaves
  <2>2. Shown' = Shown /\ dead' = dead
    BY <1>1 DEF Ack, Shown
  <2>3. \A n \in Messages \ {m} : Stage(n)' = Stage(n)
    BY <1>0, <2>1 DEF Stage
  <2>4. Producer!Stage(m) # "absent"
    BY <2>1, ProducerKnows DEF PipelineInv, CopiesAccounted
  <2>5. Stage(m)' = "settled"
    BY <1>0, <2>1, <2>4 DEF Stage
  <2>6. CASE m \in acked
    <3>1. Stage(m) = "settled"
      BY <2>1, <2>6, StageKnows
    <3> QED BY <2>2, <2>3, <2>5, <3>1, StagesStay DEF Quiet
  <2>7. CASE m \notin acked
    <3>1. Stage(m) = "underway"
      BY <2>1, <2>7, StageKnows
    <3>2. stages' = [stages EXCEPT ![m] = "settled"] /\ stages[m] = "underway"
      BY <2>1, <2>3, <2>5, <3>1, StageMove
    <3>3. Delivery!Served(m)
      BY <2>1, ServedMeans
    <3> QED BY <2>1, <2>2, <3>2, <3>3 DEF Delivery!Settle, Delivery!Move, stages
  <2> QED BY <2>6, <2>7
<1>2. CASE ~Ack(c)
  <2>1. acked' = acked /\ \A n \in Messages : Outstanding(n)' <=> Outstanding(n)
    BY <1>0, <1>2, ConsumeShape, CopiesStay
  <2>2. \A n \in Messages : Stage(n)' = Stage(n)
    BY <1>0, <2>1 DEF Stage
  <2>3. stages' = stages
    BY <2>2, StagesStay
  <2>4. CASE Shown' = Shown /\ dead' = dead
    BY <2>3, <2>4 DEF Quiet
  <2>5. ASSUME consumer[c].step # "Waiting"
        PROVE  /\ m \in Messages
               /\ m \in acked => Served(m)
               /\ m \notin acked => stages[m] = "underway"
    <3>1. m \in Messages /\ Outstanding(m)
      BY <1>0, <2>5 DEF IInv, HandlersServe, Outstanding, Handling
    <3> QED BY <1>0, <3>1, StageKnows DEF IInv, HandlersServe, stages
  <2>6. CASE /\ consumer[c].step # "Waiting" /\ m \in Stored
             /\ Shown' = Shown \cup {Asks[m].key} /\ dead' = dead
    <3>1. CASE m \in acked
      <4>1. Asks[m].key \in Shown
        BY <2>5, <2>6, <3>1 DEF Served, Stored
      <4> QED BY <2>3, <2>6, <4>1 DEF Quiet
    <3>2. CASE m \notin acked
      BY <2>3, <2>5, <2>6, <3>2 DEF Delivery!Show, stages
    <3> QED BY <3>1, <3>2
  <2>7. CASE /\ consumer[c].step # "Waiting" /\ Asks[m].action = "dead_letter"
             /\ Shown' = Shown /\ dead' = dead \cup {m}
    <3>1. CASE m \in acked
      <4>1. m \in dead
        BY <2>5, <2>7, <3>1 DEF Served
      <4> QED BY <2>3, <2>7, <4>1 DEF Quiet
    <3>2. CASE m \notin acked
      BY <2>3, <2>5, <2>7, <3>2 DEF Delivery!Refuse, stages
    <3> QED BY <3>1, <3>2
  <2> QED BY <1>0, <2>4, <2>6, <2>7, EffectsShape
<1> QED BY <1>1, <1>2

LEMMA DeliveryInit == PipelineInit => Delivery!Init
<1> SUFFICES ASSUME PipelineInit PROVE Delivery!Init
  OBVIOUS
<1>1. \A m \in Messages : Stage(m) = "absent"
  BY DEF PipelineInit, Producer!Init, Producer!Stage, Stage
<1>2. Shown = {} /\ dead = {}
  BY DEF PipelineInit, Init, Shown
<1> QED BY <1>1, <1>2 DEF Delivery!Init

LEMMA DeliveryStep ==
    PipelineInv /\ [PipelineNext]_pipeline => [Delivery!Next]_<<stages, Shown, dead>>
<1> SUFFICES ASSUME PipelineInv, [PipelineNext]_pipeline
             PROVE  [Delivery!Next]_<<stages, Shown, dead>>
  OBVIOUS
<1>1. [Producer!Next]_Producer!vars
  BY Projection
<1>2. CASE UNCHANGED vars
  BY <1>1, <1>2, ProducerMoves DEF Quiet, Delivery!Next
<1>3. CASE \E d \in Dispatchers : Transmit(d)
  BY <1>3, TransmitMoves DEF Quiet, Delivery!Next
<1>4. CASE Consumption
  <2>1. row' = row
    BY <1>4 DEF Consumption, producer
  <2>2. ASSUME NEW c \in Consumers, Consume(c)
        PROVE  [Delivery!Next]_<<stages, Shown, dead>>
    BY <2>1, <2>2, ConsumptionMoves DEF Quiet, Delivery!Next
  <2>3. ASSUME NEW r \in Requests, Mark(r)
        PROVE  Quiet
    <3>1. UNCHANGED queue /\ Shown' = Shown
      BY <2>3, MarkShape DEF PipelineInv
    <3>2. \A m \in Messages : Stage(m)' = Stage(m)
      BY <2>1, <3>1 DEF queue, Stage, Producer!Stage, Outstanding, Handling
    <3> QED BY <3>1, <3>2, StagesStay DEF Quiet, queue
  <2> QED BY <1>4, <2>2, <2>3 DEF Consumption, Quiet
<1>5. PipelineNext \/ UNCHANGED vars
  BY DEF pipeline
<1> QED BY <1>2, <1>3, <1>4, <1>5
        DEF PipelineNext, Produce, Dispatch, Claim, ClaimFor, Refuse, MarkSent, MarkUnsent

\* From end to end the services keep what ServedEvents promises, for any events,
\* dispatchers and consumers, whatever fails on either side.
THEOREM EndToEnd == PipelineSpec => ImplementsServedEvents
<1>1. PipelineInv /\ [PipelineNext]_pipeline => [Delivery!Next]_<<stages, Shown, dead>>
  BY DeliveryStep
<1> QED BY <1>1, DeliveryInit, CopiesAreAccounted, PTL
        DEF PipelineSpec, ImplementsServedEvents, Delivery!Spec, stages

-----------------------------------------------------------------------------
(* What follows from ServedEvents *)

Asked == [m \in Messages |-> IF m \in Stored THEN {Asks[m].key} ELSE {}]
Refusable == {m \in Messages : Asks[m].action = "dead_letter"}

LEMMA PromisesInit == Delivery!Init => Delivery!Promises
BY DEF Delivery!Init, Delivery!Promises, Delivery!Stages, Delivery!SettledServed, Delivery!OnlyAsked

\* Committed events stay committed, and what was served stays served.
LEMMA PromisesMove ==
    ASSUME Delivery!Promises, NEW m \in Messages, NEW from, NEW to \in Delivery!Stages,
           Delivery!Move(m, from, to), to # "absent", to = "settled" => Delivery!Served(m)
    PROVE  Delivery!Promises'
<1>1. /\ stages \in [Messages -> Delivery!Stages] /\ stages' = [stages EXCEPT ![m] = to]
      /\ UNCHANGED <<Shown, dead>>
  BY DEF Delivery!Move, Delivery!Promises, stages
<1>2. /\ stages' \in [Messages -> Delivery!Stages]
      /\ \A n \in Messages : stages'[n] = IF n = m THEN to ELSE stages[n]
  BY <1>1
<1>3. \A n \in Messages : Delivery!Served(n) => Delivery!Served(n)'
  BY <1>1 DEF Delivery!Served
<1>4. \A n \in Messages : stages'[n] = "settled" => Delivery!Served(n)'
  BY <1>2, <1>3 DEF Delivery!Promises, Delivery!SettledServed, stages
<1>5. /\ \A k \in Shown : \E n \in Messages : stages[n] # "absent" /\ k \in Asked[n]
      /\ \A n \in dead : n \in Refusable /\ stages[n] # "absent"
  BY DEF Delivery!Promises, Delivery!OnlyAsked, stages, Asked, Refusable
<1>6. /\ \A k \in Shown : \E n \in Messages : stages'[n] # "absent" /\ k \in Asked[n]
      /\ \A n \in dead : n \in Refusable /\ stages'[n] # "absent"
  BY <1>2, <1>5 DEF Refusable
<1>7. Delivery!OnlyAsked'
  BY <1>1, <1>6 DEF Delivery!OnlyAsked, stages, Asked, Refusable
<1> QED BY <1>2, <1>4, <1>7 DEF Delivery!Promises, Delivery!SettledServed, stages

LEMMA PromisesStep ==
    ASSUME Delivery!Promises, [Delivery!Next]_<<stages, Shown, dead>>
    PROVE  Delivery!Promises'
<1>1. ASSUME NEW m \in Messages,
             Delivery!Commit(m) \/ Delivery!GiveUp(m) \/ Delivery!Resume(m) \/ Delivery!Settle(m)
      PROVE  Delivery!Promises'
  <2>1. {"underway", "given_up", "settled"} \subseteq Delivery!Stages
    BY DEF Delivery!Stages
  <2> QED BY <1>1, <2>1, PromisesMove
          DEF Delivery!Commit, Delivery!GiveUp, Delivery!Resume, Delivery!Settle
<1>2. ASSUME NEW m \in Messages, Delivery!Show(m) \/ Delivery!Refuse(m)
      PROVE  Delivery!Promises'
  <2>1. /\ stages' = stages /\ stages[m] = "underway"
        /\ Shown \subseteq Shown' /\ dead \subseteq dead'
        /\ \A k \in Shown' \ Shown : k \in Asked[m]
        /\ \A n \in dead' \ dead : n = m /\ m \in Refusable
    BY <1>2 DEF Delivery!Show, Delivery!Refuse, stages, Asked, Refusable
  <2>2. \A n \in Messages : Delivery!Served(n) => Delivery!Served(n)'
    BY <2>1 DEF Delivery!Served
  <2>3. /\ \A k \in Shown : \E n \in Messages : stages[n] # "absent" /\ k \in Asked[n]
        /\ \A n \in dead : n \in Refusable /\ stages[n] # "absent"
    BY DEF Delivery!Promises, Delivery!OnlyAsked, stages, Asked, Refusable
  <2>4. /\ \A k \in Shown' : \E n \in Messages : stages'[n] # "absent" /\ k \in Asked[n]
        /\ \A n \in dead' : n \in Refusable /\ stages'[n] # "absent"
    BY <2>1, <2>3
  <2>5. Delivery!OnlyAsked'
    BY <2>4 DEF Delivery!OnlyAsked, stages, Asked, Refusable
  <2>6. /\ stages' \in [Messages -> Delivery!Stages]
        /\ \A n \in Messages : stages'[n] = "settled" => Delivery!Served(n)'
    BY <2>1, <2>2 DEF Delivery!Promises, Delivery!SettledServed, stages
  <2> QED BY <2>5, <2>6 DEF Delivery!Promises, Delivery!SettledServed, stages
<1>3. CASE UNCHANGED <<stages, Shown, dead>>
  BY <1>3 DEF Delivery!Promises, Delivery!SettledServed, Delivery!OnlyAsked, Delivery!Served, stages
<1> QED BY <1>1, <1>2, <1>3 DEF Delivery!Next

\* Every event that is settled was served, and what is shown or in the dead-letter queue
\* was asked for by an event of a committed transaction.
THEOREM PromisesKept == PipelineSpec => []Delivery!Promises
<1>1. Delivery!Promises /\ [Delivery!Next]_<<stages, Shown, dead>> => Delivery!Promises'
  BY PromisesStep
<1> QED BY <1>1, PromisesInit, EndToEnd, PTL DEF ImplementsServedEvents, Delivery!Spec, stages
=============================================================================
