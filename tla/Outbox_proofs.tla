---------------------------- MODULE Outbox_proofs ----------------------------
(***************************************************************************)
(* Outbox for any number of events and dispatchers, and any faults: it     *)
(* implements AtLeastOnce whatever ids the dispatchers use; with ids of    *)
(* their own only the holder of a claim ends it, attempts never fall, and  *)
(* lost claims alone never stop all dispatchers.                           *)
(***************************************************************************)
EXTENDS Outbox, TLAPS

LEMMA Blanks ==
    /\ Free \in Dispatcher /\ Free.pc = "idle" /\ Free.item = NoItem /\ Free.batch = {}
    /\ Stopped \in Dispatcher /\ Stopped.pc = "stopped"
    /\ Stopped.item = NoItem /\ Stopped.batch = {}
    /\ NoItem \notin Item
<1>1. NoItem \notin Item
  BY OutboxAssumption DEF NoItem, Item
<1> QED BY <1>1 DEF Free, Stopped, Dispatcher

LEMMA EmptyWellFormed ==
    ASSUME NEW x \in {Free, Stopped}
    PROVE  x \in Dispatcher /\ WellFormed(x) /\ Items(x) = {}
BY Blanks DEF WellFormed, Items

LEMMA CountedType ==
    ASSUME NEW n \in 0..DeadThreshold
    PROVE  Counted(n) \in 0..DeadThreshold /\ Counted(n) >= n
BY OutboxAssumption DEF Counted

\* A dispatcher moves on to x, and rows and broker grow as they may.
LEMMA Steps ==
    ASSUME IInv, NEW d \in Dispatchers, NEW x \in Dispatcher,
           disp' = [disp EXCEPT ![d] = x],
           row' \in [Events -> Row],
           broker \subseteq broker', broker' \subseteq Events,
           holder' \in [Events -> Dispatchers \cup {NoDispatcher}],
           WellFormed(x),
           \A e \in Events : row[e].status # "NONE" => row'[e].status # "NONE",
           \A e \in Events :
              row'[e].status = "PUBLISHED" => row[e].status = "PUBLISHED" \/ e \in broker',
           \A e \in broker' \ broker : row[e].status # "NONE",
           x.pc = "published" => x.item.event \in broker',
           \A i \in Items(x) : row'[i.event].status # "NONE"
    PROVE  IInv'
<1> USE DEF IInv
<1>1. TypeOK'
  BY DEF TypeOK
<1>2. \A c \in Dispatchers : disp'[c] = IF c = d THEN x ELSE disp[c]
  BY DEF TypeOK
<1>3. ConfirmedBeforeMarked'
  BY <1>2 DEF ConfirmedBeforeMarked
<1>4. BatchesWellFormed'
  BY <1>2 DEF BatchesWellFormed
<1>5. OnlyAppended'
  <2>1. \A e \in broker' : row'[e].status # "NONE"
    BY DEF OnlyAppended
  <2>2. ASSUME NEW c \in Dispatchers, NEW i \in Items(disp'[c])
        PROVE  row'[i.event].status # "NONE"
    <3>1. CASE c = d
      BY <1>2, <2>2, <3>1
    <3>2. CASE c # d
      <4>1. i \in Items(disp[c]) /\ disp[c] \in Dispatcher
        BY <1>2, <2>2, <3>2 DEF TypeOK
      <4>2. i \in Item
        BY <4>1 DEF Items, Dispatcher
      <4> QED BY <4>1, <4>2 DEF OnlyAppended, Item
    <3> QED BY <3>1, <3>2
  <2> QED BY <2>1, <2>2 DEF OnlyAppended
<1> QED BY <1>1, <1>3, <1>4, <1>5

\* A row changes with no dispatcher involved.
LEMMA RowInv ==
    ASSUME IInv, NEW e \in Events, Append(e) \/ RetryOutboxEvent(e)
    PROVE  IInv'
<1> USE DEF IInv
<1>1. row \in [Events -> Row] /\ row[e] \in Row
  BY DEF TypeOK
<1>2. PICK r : r = IF Append(e) THEN [row[e] EXCEPT !.status = "PENDING"]
                   ELSE [row[e] EXCEPT !.status = "PENDING", !.by = NoId]
  OBVIOUS
<1>3. r \in Row /\ r.status = "PENDING"
  BY <1>1, <1>2 DEF Row, Statuses
<1>4. row' = [row EXCEPT ![e] = r] /\ UNCHANGED <<broker, disp, holder>>
  BY <1>2 DEF Append, RetryOutboxEvent
<1>5. TypeOK'
  BY <1>1, <1>3, <1>4 DEF TypeOK
<1>6. ConfirmedBeforeMarked' /\ BatchesWellFormed' /\ OnlyAppended'
  BY <1>1, <1>3, <1>4 DEF ConfirmedBeforeMarked, BatchesWellFormed, OnlyAppended
<1> QED BY <1>5, <1>6

LEMMA TakenRow ==
    ASSUME NEW r \in Row, NEW d \in Dispatchers
    PROVE  /\ Taken(r, d) \in Row /\ Taken(r, d).status = "CLAIMING"
           /\ Taken(r, d).by = DispatcherId[d] /\ Taken(r, d).attempts = r.attempts
BY DEF Taken, Row, Statuses, Ids

\* What a claim leaves: the rows it picked are taken, and d is at x.
ClaimedAs(d, picked, x) ==
    /\ disp[d].pc = "idle" /\ \A e \in picked : Claimable(e)
    /\ row' \in [Events -> Row]
    /\ \A e \in Events : e \notin picked => row'[e] = row[e]
    /\ \A e \in picked :
          /\ row'[e].status = "CLAIMING" /\ row'[e].by = DispatcherId[d]
          /\ row'[e].attempts = row[e].attempts
    /\ holder' = [e \in Events |-> IF e \in picked THEN d ELSE holder[e]]
    /\ disp' = [disp EXCEPT ![d] = x]
    /\ x.pc \in {"claimed", "stopped"} /\ WellFormed(x)
    /\ x.pc = "stopped" => "store" \in Faults
    /\ \A i \in Items(x) : i.event \in picked /\ i.attempts = row[i.event].attempts
    /\ broker' = broker

LEMMA ClaimShape ==
    ASSUME TypeOK, NEW d \in Dispatchers, ClaimPending(d)
    PROVE  \E picked \in SUBSET Events, x \in Dispatcher : ClaimedAs(d, picked, x)
<1>1. PICK picked \in SUBSET Events : ClaimBatch(d, picked)
  BY DEF ClaimPending
<1>2. row \in [Events -> Row] /\ \A e \in Events : row[e].attempts \in 0..DeadThreshold
  BY DEF TypeOK, Row
<1> DEFINE batch == {[event |-> e, attempts |-> row[e].attempts] : e \in picked}
<1>3. /\ batch \subseteq Item
      /\ \A i \in batch : i.event \in picked /\ i.attempts = row[i.event].attempts
      /\ \A i, j \in batch : i.event = j.event => i = j
  BY <1>2 DEF Item
<1> HIDE DEF batch
<1> DEFINE c == [pc |-> "claimed", item |-> NoItem, batch |-> batch]
<1>4. c \in Dispatcher /\ c.pc = "claimed" /\ WellFormed(c) /\ Items(c) = batch
  BY <1>3, Blanks DEF Dispatcher, WellFormed, Items
<1>5. /\ row' = [e \in Events |-> IF e \in picked THEN Taken(row[e], d) ELSE row[e]]
      /\ disp[d].pc = "idle" /\ (\A e \in picked : Claimable(e))
      /\ holder' = [e \in Events |-> IF e \in picked THEN d ELSE holder[e]]
      /\ broker' = broker
      /\ \/ disp' = [disp EXCEPT ![d] = c]
         \/ "store" \in Faults /\ disp' = [disp EXCEPT ![d] = Stopped]
  BY <1>1 DEF ClaimBatch, batch
<1> HIDE DEF c
<1>6. PICK x \in {c, Stopped} :
         disp' = [disp EXCEPT ![d] = x] /\ (x.pc = "stopped" => "store" \in Faults)
  BY <1>4, <1>5
<1>7. /\ x \in Dispatcher /\ x.pc \in {"claimed", "stopped"} /\ WellFormed(x)
      /\ \A i \in Items(x) : i.event \in picked /\ i.attempts = row[i.event].attempts
  BY <1>3, <1>4, <1>6, Blanks, EmptyWellFormed
<1>8. /\ row' \in [Events -> Row]
      /\ \A e \in Events : e \notin picked => row'[e] = row[e]
      /\ \A e \in picked :
            /\ row'[e].status = "CLAIMING" /\ row'[e].by = DispatcherId[d]
            /\ row'[e].attempts = row[e].attempts
  BY <1>2, <1>5, TakenRow
<1> QED BY <1>5, <1>6, <1>7, <1>8 DEF ClaimedAs

LEMMA ClaimInv ==
    ASSUME IInv, NEW d \in Dispatchers, ClaimPending(d)
    PROVE  IInv'
<1> USE DEF IInv
<1>1. PICK picked \in SUBSET Events, x \in Dispatcher : ClaimedAs(d, picked, x)
  BY ClaimShape
<1>2. holder' \in [Events -> Dispatchers \cup {NoDispatcher}]
  BY <1>1 DEF TypeOK, ClaimedAs
<1>3. /\ \A e \in Events : row[e].status # "NONE" => row'[e].status # "NONE"
      /\ \A e \in Events : row'[e].status = "PUBLISHED" => row[e].status = "PUBLISHED"
      /\ \A i \in Items(x) : row'[i.event].status # "NONE"
  BY <1>1 DEF ClaimedAs
<1> QED BY <1>1, <1>2, <1>3, Steps DEF TypeOK, ClaimedAs

\* The dispatcher takes an item out of its batch.
LEMMA PublishShape ==
    ASSUME TypeOK, NEW d \in Dispatchers, WellFormed(disp[d]), Publish(d)
    PROVE  \E item \in disp[d].batch, x \in Dispatcher :
              /\ item.event \in Events /\ disp' = [disp EXCEPT ![d] = x]
              /\ WellFormed(x) /\ Items(x) = Items(disp[d])
              /\ x.pc \in {"published", "failed"} /\ x.item = item
              /\ broker' \in {broker, broker \cup {item.event}}
              /\ x.pc = "published" => item.event \in broker'
              /\ UNCHANGED <<row, holder>>
<1>1. PICK item \in disp[d].batch, pc \in {"published", "failed"} :
         /\ broker' \in {broker, broker \cup {item.event}}
         /\ pc = "published" => item.event \in broker'
         /\ disp' = Handling(d, item, pc)
         /\ UNCHANGED <<row, holder>>
  BY DEF Publish
<1>2. disp[d].pc = "claimed" /\ disp[d] \in Dispatcher /\ disp[d].batch \subseteq Item
  BY DEF Publish, TypeOK, Dispatcher
<1> DEFINE x == [pc |-> pc, item |-> item, batch |-> disp[d].batch \ {item}]
<1>3. x \in Dispatcher /\ x.pc = pc /\ x.item = item /\ x.batch = disp[d].batch \ {item}
  BY <1>1, <1>2 DEF Dispatcher
<1>4. disp' = [disp EXCEPT ![d] = x]
  BY <1>1 DEF Handling
<1> HIDE DEF x
<1>5. item # NoItem /\ item.event \in Events /\ disp[d].item = NoItem
  BY <1>1, <1>2, Blanks DEF WellFormed, Item
<1>6. Items(x) = Items(disp[d])
  BY <1>1, <1>3, <1>5 DEF Items
<1>7. WellFormed(x)
  BY <1>1, <1>3, <1>5, <1>6 DEF WellFormed
<1> QED BY <1>1, <1>3, <1>4, <1>5, <1>6, <1>7

LEMMA PublishInv ==
    ASSUME IInv, NEW d \in Dispatchers, Publish(d)
    PROVE  IInv'
<1> USE DEF IInv
<1>1. PICK item \in disp[d].batch, x \in Dispatcher :
         /\ item.event \in Events /\ disp' = [disp EXCEPT ![d] = x]
         /\ WellFormed(x) /\ Items(x) = Items(disp[d])
         /\ x.pc \in {"published", "failed"} /\ x.item = item
         /\ broker' \in {broker, broker \cup {item.event}}
         /\ x.pc = "published" => item.event \in broker'
         /\ UNCHANGED <<row, holder>>
  BY PublishShape DEF BatchesWellFormed
<1>2. \A i \in Items(disp[d]) : row[i.event].status # "NONE"
  BY DEF OnlyAppended
<1>3. item \in Items(disp[d])
  BY DEF Items
<1>4. broker \subseteq broker' /\ broker' \subseteq Events
      /\ \A e \in broker' \ broker : row[e].status # "NONE"
  BY <1>1, <1>2, <1>3 DEF TypeOK
<1> QED BY <1>1, <1>2, <1>4, Steps DEF TypeOK

\* What a mark leaves: the row d owned is closed and d goes on or ends at x, or
\* nothing changes and d ends.
MarkedAs(d, status, n, x) ==
    /\ disp' = [disp EXCEPT ![d] = x]
    /\ WellFormed(x) /\ Items(x) \subseteq Items(disp[d]) \ {disp[d].item}
    /\ x.pc \in {"idle", "claimed", "stopped"}
    /\ \/ row' = row /\ x.pc = "stopped"
          /\ (~Owned(d, disp[d].item.event) \/ "store" \in Faults)
       \/ /\ Owned(d, disp[d].item.event)
          /\ row' = [row EXCEPT ![disp[d].item.event] =
                [status |-> status, attempts |-> n, by |-> NoId]]
          /\ x.pc = "stopped" => "store" \in Faults
    /\ UNCHANGED <<broker, holder>>

LEMMA MarkShape ==
    ASSUME TypeOK, NEW d \in Dispatchers, WellFormed(disp[d]),
           disp[d].pc \in {"published", "failed"},
           NEW status \in {"PUBLISHED", "FAILED", "DEAD"}, NEW n \in 0..DeadThreshold,
           Mark(d, status, n)
    PROVE  /\ disp[d].item \in Item /\ disp[d].item \in Items(disp[d])
           /\ \E x \in Dispatcher : MarkedAs(d, status, n, x)
<1>1. disp[d] \in Dispatcher /\ disp[d].batch \subseteq Item
      /\ disp[d].item \in Item /\ disp[d].item # NoItem
  BY DEF TypeOK, Dispatcher, WellFormed
<1>2. disp[d].item \in Items(disp[d]) /\ disp[d].batch = Items(disp[d]) \ {disp[d].item}
  BY <1>1 DEF Items, WellFormed
<1> DEFINE c == [disp[d] EXCEPT !.pc = "claimed", !.item = NoItem]
           n1 == IF disp[d].batch = {} THEN Free ELSE c
<1>3. c \in Dispatcher /\ c.pc = "claimed" /\ c.item = NoItem /\ c.batch = disp[d].batch
  BY <1>1 DEF Dispatcher
<1> HIDE DEF c
<1>4. WellFormed(c) /\ Items(c) = disp[d].batch
  BY <1>1, <1>2, <1>3, Blanks DEF WellFormed, Items
<1>5. /\ n1 \in Dispatcher /\ n1.pc \in {"idle", "claimed"} /\ WellFormed(n1)
      /\ Items(n1) \subseteq disp[d].batch
  BY <1>3, <1>4, Blanks, EmptyWellFormed
<1>6. \/ /\ Owned(d, disp[d].item.event)
         /\ row' = [row EXCEPT ![disp[d].item.event] =
               [status |-> status, attempts |-> n, by |-> NoId]]
         /\ \/ disp' = [disp EXCEPT ![d] = n1]
            \/ "store" \in Faults /\ disp' = [disp EXCEPT ![d] = Stopped]
      \/ /\ ~Owned(d, disp[d].item.event) \/ "store" \in Faults
         /\ row' = row /\ disp' = [disp EXCEPT ![d] = Stopped]
  BY Zenon DEF Mark, c
<1>7. UNCHANGED <<broker, holder>>
  BY DEF Mark
<1> HIDE DEF n1
<1> QED BY <1>1, <1>2, <1>5, <1>6, <1>7, Blanks, EmptyWellFormed DEF MarkedAs

\* MarkPublished and MarkFailed are marks of this shape.
LEMMA MarkCases ==
    ASSUME TypeOK, NEW d \in Dispatchers, WellFormed(disp[d]),
           MarkPublished(d) \/ MarkFailed(d)
    PROVE  /\ disp[d].pc \in {"published", "failed"}
           /\ disp[d].item \in Item
           /\ \E status \in {"PUBLISHED", "FAILED", "DEAD"}, n \in 0..DeadThreshold :
                 /\ Mark(d, status, n)
                 /\ status = "PUBLISHED" =>
                       disp[d].pc = "published" /\ n = row[disp[d].item.event].attempts
                 /\ status # "PUBLISHED" => n = Counted(disp[d].item.attempts)
<1>1. disp[d].pc \in {"published", "failed"} /\ disp[d].item \in Item
  BY DEF MarkPublished, MarkFailed, WellFormed, TypeOK, Dispatcher
<1>2. disp[d].item.event \in Events /\ disp[d].item.attempts \in 0..DeadThreshold
  BY <1>1 DEF Item
<1>3. row[disp[d].item.event].attempts \in 0..DeadThreshold
  BY <1>2 DEF TypeOK, Row
<1>4. CASE MarkPublished(d)
  BY <1>1, <1>3, <1>4 DEF MarkPublished
<1>5. CASE MarkFailed(d)
  <2>1. Counted(disp[d].item.attempts) \in 0..DeadThreshold
    BY <1>2, CountedType
  <2>2. FailedStatus(Counted(disp[d].item.attempts)) \in {"FAILED", "DEAD"}
    BY DEF FailedStatus
  <2> QED BY <1>1, <1>5, <2>1, <2>2 DEF MarkFailed
<1> QED BY <1>4, <1>5

LEMMA MarkInv ==
    ASSUME IInv, NEW d \in Dispatchers, MarkPublished(d) \/ MarkFailed(d)
    PROVE  IInv'
<1> USE DEF IInv
<1> DEFINE e == disp[d].item.event
<1>1. WellFormed(disp[d]) /\ TypeOK
  BY DEF BatchesWellFormed
<1>2. PICK status \in {"PUBLISHED", "FAILED", "DEAD"}, n \in 0..DeadThreshold :
         Mark(d, status, n) /\ (status = "PUBLISHED" => disp[d].pc = "published")
  BY <1>1, MarkCases
<1>3. disp[d].pc \in {"published", "failed"} /\ e \in Events
  BY <1>1, MarkCases DEF Item
<1>4. PICK x \in Dispatcher : MarkedAs(d, status, n, x)
  BY <1>1, <1>2, <1>3, MarkShape
<1>5. [status |-> status, attempts |-> n, by |-> NoId] \in Row
  BY DEF Row, Statuses
<1>6. status = "PUBLISHED" => e \in broker
  BY <1>2 DEF ConfirmedBeforeMarked
<1> HIDE DEF e
<1>7. /\ row' \in [Events -> Row]
      /\ \A f \in Events : row[f].status # "NONE" => row'[f].status # "NONE"
      /\ \A f \in Events :
            row'[f].status = "PUBLISHED" => row[f].status = "PUBLISHED" \/ f \in broker
  BY <1>3, <1>4, <1>5, <1>6 DEF TypeOK, MarkedAs, e
<1>8. \A i \in Items(x) : row'[i.event].status # "NONE"
  <2>1. Items(disp[d]) \subseteq Item
    BY Blanks DEF TypeOK, Dispatcher, Items
  <2> QED BY <1>4, <1>7, <2>1 DEF OnlyAppended, Item, MarkedAs
<1> QED BY <1>4, <1>7, <1>8, Steps DEF TypeOK, MarkedAs

\* ClaimFails and Crash only empty or start a dispatcher.
LEMMA EmptiedInv ==
    ASSUME IInv, NEW d \in Dispatchers, ClaimFails(d) \/ Crash(d)
    PROVE  IInv'
<1>1. PICK x \in {Free, Stopped} : disp' = [disp EXCEPT ![d] = x]
  BY DEF ClaimFails, Crash
<1>2. UNCHANGED <<row, broker, holder>>
  BY DEF ClaimFails, Crash
<1>3. x.pc # "published"
  BY Blanks
<1> QED BY <1>1, <1>2, <1>3, EmptyWellFormed, Steps DEF IInv, TypeOK

LEMMA InitInv ==
    ASSUME Init
    PROVE  IInv
<1>1. TypeOK
  BY Blanks, OutboxAssumption DEF Init, TypeOK, Row, Statuses
<1>2. \A e \in Events : row[e].status = "NONE"
  BY DEF Init
<1>3. \A d \in Dispatchers : disp[d] = Free
  BY DEF Init
<1>4. ConfirmedBeforeMarked /\ OnlyAppended /\ BatchesWellFormed
  BY <1>2, <1>3, Blanks, EmptyWellFormed
     DEF Init, ConfirmedBeforeMarked, OnlyAppended, BatchesWellFormed
<1> QED BY <1>1, <1>4 DEF IInv

LEMMA StepInv ==
    ASSUME IInv, [Next]_vars
    PROVE  IInv'
<1>1. CASE UNCHANGED vars
  BY <1>1 DEF vars, IInv, TypeOK, ConfirmedBeforeMarked, BatchesWellFormed, OnlyAppended
<1>2. CASE Next
  BY <1>2, RowInv, ClaimInv, PublishInv, MarkInv, EmptiedInv DEF Next, Dispatch
<1> QED BY <1>1, <1>2

\* Whatever fails and whatever ids are used, a row is PUBLISHED only when the
\* broker has confirmed its event.
THEOREM Invariant == Spec => []IInv
<1>1. Init => IInv
  BY InitInv
<1>2. IInv /\ [Next]_vars => IInv'
  BY StepInv
<1> QED BY <1>1, <1>2, PTL DEF Spec

-----------------------------------------------------------------------------
(* Who may end a claim *)

LEMMA OwnersInit ==
    ASSUME Init
    PROVE  OwnersInv
<1>1. \A e \in Events : row[e].status = "NONE"
  BY DEF Init
<1>2. \A d \in Dispatchers : Items(disp[d]) = {}
  BY EmptyWellFormed DEF Init
<1> QED BY <1>1, <1>2 DEF OwnersInv, ClaimsNameHolder, HolderIsCurrent

\* A batch holds items of events.
LEMMA ItemsType ==
    ASSUME TypeOK, NEW d \in Dispatchers, NEW i \in Items(disp[d])
    PROVE  i \in Item /\ i.event \in Events /\ i.attempts \in 0..DeadThreshold
<1>1. disp[d] \in Dispatcher
  BY DEF TypeOK
<1> QED BY <1>1 DEF Dispatcher, Items, Item

\* A step that leaves every claimed row as it is, or ends its claim, and gives no
\* dispatcher an item it had not.
LEMMA OwnersKept ==
    ASSUME TypeOK, OwnersInv, holder' = holder,
           \A e \in Events : row'[e].status = "CLAIMING" => row'[e] = row[e],
           \A d \in Dispatchers : Items(disp'[d]) \subseteq Items(disp[d])
    PROVE  OwnersInv'
BY ItemsType DEF OwnersInv, ClaimsNameHolder, HolderIsCurrent

LEMMA OwnersClaim ==
    ASSUME TypeOK, OwnersInv, NEW d \in Dispatchers, ClaimPending(d)
    PROVE  OwnersInv'
<1>1. PICK picked \in SUBSET Events, x \in Dispatcher : ClaimedAs(d, picked, x)
  BY ClaimShape
<1>2. \A e \in Events : holder'[e] = IF e \in picked THEN d ELSE holder[e]
  BY <1>1 DEF ClaimedAs
<1>3. \A c \in Dispatchers : disp'[c] = IF c = d THEN x ELSE disp[c]
  BY <1>1 DEF ClaimedAs, TypeOK
<1>4. ClaimsNameHolder'
  BY <1>1, <1>2 DEF ClaimedAs, OwnersInv, ClaimsNameHolder
<1>5. ASSUME NEW c \in Dispatchers, NEW i \in Items(disp'[c]),
             row'[i.event].status = "CLAIMING", holder'[i.event] = c
      PROVE  i.attempts = row'[i.event].attempts
  <2>1. CASE c = d
    BY <1>1, <1>3, <1>5, <2>1 DEF ClaimedAs
  <2>2. CASE c # d
    <3>1. i \in Items(disp[c]) /\ i.event \in Events
      BY <1>3, <1>5, <2>2, ItemsType
    <3>2. i.event \notin picked /\ row'[i.event] = row[i.event]
      BY <1>1, <1>2, <1>5, <2>2, <3>1 DEF ClaimedAs
    <3> QED BY <1>2, <1>5, <3>1, <3>2 DEF OwnersInv, HolderIsCurrent
  <2> QED BY <2>1, <2>2
<1> QED BY <1>4, <1>5 DEF OwnersInv, HolderIsCurrent

\* What MarkPublished and MarkFailed leave.
LEMMA Marked ==
    ASSUME IInv, NEW d \in Dispatchers, MarkPublished(d) \/ MarkFailed(d)
    PROVE  /\ disp[d].item \in Items(disp[d]) /\ disp[d].item.event \in Events
           /\ disp[d].pc \in {"published", "failed"}
           /\ \E status \in {"PUBLISHED", "FAILED", "DEAD"}, n \in 0..DeadThreshold,
                 x \in Dispatcher :
                 /\ MarkedAs(d, status, n, x)
                 /\ status = "PUBLISHED" =>
                       disp[d].pc = "published" /\ n = row[disp[d].item.event].attempts
                 /\ status # "PUBLISHED" => n = Counted(disp[d].item.attempts)
<1>1. WellFormed(disp[d]) /\ TypeOK
  BY DEF IInv, BatchesWellFormed
<1>2. disp[d].pc \in {"published", "failed"} /\ disp[d].item \in Item
  BY <1>1, MarkCases
<1>3. PICK status \in {"PUBLISHED", "FAILED", "DEAD"}, n \in 0..DeadThreshold :
         /\ Mark(d, status, n)
         /\ status = "PUBLISHED" =>
               disp[d].pc = "published" /\ n = row[disp[d].item.event].attempts
         /\ status # "PUBLISHED" => n = Counted(disp[d].item.attempts)
  BY <1>1, MarkCases
<1>4. disp[d].item \in Items(disp[d]) /\ \E x \in Dispatcher : MarkedAs(d, status, n, x)
  BY <1>1, <1>2, <1>3, MarkShape
<1> QED BY <1>2, <1>3, <1>4 DEF Item

\* A mark closes at most one row, whose claim names d.
LEMMA MarkedRow ==
    ASSUME IInv, NEW d \in Dispatchers, MarkPublished(d) \/ MarkFailed(d),
           NEW e \in Events, row'[e] # row[e]
    PROVE  /\ e = disp[d].item.event /\ Owned(d, e)
           /\ row'[e].status \in {"PUBLISHED", "FAILED", "DEAD"}
           /\ row'[e].status = "PUBLISHED" => row'[e].attempts = row[e].attempts
           /\ row'[e].status # "PUBLISHED" =>
                 row'[e].attempts = Counted(disp[d].item.attempts)
<1>1. PICK status \in {"PUBLISHED", "FAILED", "DEAD"}, n \in 0..DeadThreshold,
           x \in Dispatcher :
         /\ MarkedAs(d, status, n, x)
         /\ status = "PUBLISHED" => n = row[disp[d].item.event].attempts
         /\ status # "PUBLISHED" => n = Counted(disp[d].item.attempts)
  BY Marked
<1> DEFINE r == [status |-> status, attempts |-> n, by |-> NoId]
<1>2. r.status = status /\ r.attempts = n
  OBVIOUS
<1>3. Owned(d, disp[d].item.event) /\ row' = [row EXCEPT ![disp[d].item.event] = r]
  BY <1>1 DEF MarkedAs
<1> HIDE DEF r
<1>4. e = disp[d].item.event /\ row'[e] = r
  BY <1>3 DEF IInv, TypeOK
<1> QED BY <1>1, <1>2, <1>3, <1>4

\* No mark gives a dispatcher an item, or leaves it where it was.
LEMMA MarkedItems ==
    ASSUME IInv, NEW d \in Dispatchers, MarkPublished(d) \/ MarkFailed(d)
    PROVE  /\ \A c \in Dispatchers : Items(disp'[c]) \subseteq Items(disp[c])
           /\ \A c \in Dispatchers \ {d} : disp'[c] = disp[c]
           /\ disp'[d] # disp[d] /\ holder' = holder /\ broker' = broker
<1>1. /\ disp[d].pc \in {"published", "failed"}
      /\ \E status \in {"PUBLISHED", "FAILED", "DEAD"}, n \in 0..DeadThreshold,
            x \in Dispatcher : MarkedAs(d, status, n, x)
  BY Marked
<1>2. PICK x \in Dispatcher : /\ disp' = [disp EXCEPT ![d] = x]
                              /\ Items(x) \subseteq Items(disp[d])
                              /\ x.pc \in {"idle", "claimed", "stopped"}
                              /\ UNCHANGED <<broker, holder>>
  BY <1>1 DEF MarkedAs
<1>3. \A c \in Dispatchers : disp'[c] = IF c = d THEN x ELSE disp[c]
  BY <1>2 DEF IInv, TypeOK
<1> QED BY <1>1, <1>2, <1>3

LEMMA EmptiedItems ==
    ASSUME TypeOK, NEW d \in Dispatchers, ClaimFails(d) \/ Crash(d)
    PROVE  /\ \A c \in Dispatchers : Items(disp'[c]) \subseteq Items(disp[c])
           /\ UNCHANGED <<row, broker, holder>>
<1>1. PICK x \in {Free, Stopped} : disp' = [disp EXCEPT ![d] = x]
  BY DEF ClaimFails, Crash
<1>2. \A c \in Dispatchers : disp'[c] = IF c = d THEN x ELSE disp[c]
  BY <1>1 DEF TypeOK
<1>3. Items(x) = {} /\ UNCHANGED <<row, broker, holder>>
  BY EmptyWellFormed DEF ClaimFails, Crash
<1> QED BY <1>2, <1>3

LEMMA PublishedItems ==
    ASSUME IInv, NEW d \in Dispatchers, Publish(d)
    PROVE  /\ \A c \in Dispatchers : Items(disp'[c]) = Items(disp[c])
           /\ \A c \in Dispatchers \ {d} : disp'[c] = disp[c]
           /\ disp'[d].pc # "stopped"
           /\ UNCHANGED <<row, holder>>
<1>1. PICK x \in Dispatcher : /\ disp' = [disp EXCEPT ![d] = x]
                              /\ Items(x) = Items(disp[d]) /\ x.pc # "stopped"
                              /\ UNCHANGED <<row, holder>>
  BY PublishShape DEF IInv, BatchesWellFormed
<1>2. \A c \in Dispatchers : disp'[c] = IF c = d THEN x ELSE disp[c]
  BY <1>1 DEF IInv, TypeOK
<1> QED BY <1>1, <1>2

\* The transaction and the operators touch no claimed row.
LEMMA RowsUnclaimed ==
    ASSUME TypeOK, NEW e \in Events, Append(e) \/ RetryOutboxEvent(e)
    PROVE  /\ \A f \in Events : row'[f] # row[f] =>
                 /\ row[f].status \notin {"CLAIMING", "PUBLISHED"}
                 /\ row'[f].status = "PENDING" /\ row'[f].attempts = row[f].attempts
           /\ UNCHANGED <<broker, disp, holder>>
<1>1. row[e] \in Row
  BY DEF TypeOK
<1>2. row[e].status \notin {"CLAIMING", "PUBLISHED"} /\ UNCHANGED <<broker, disp, holder>>
  BY DEF Append, RetryOutboxEvent
<1>3. PICK r : r = IF Append(e) THEN [row[e] EXCEPT !.status = "PENDING"]
                   ELSE [row[e] EXCEPT !.status = "PENDING", !.by = NoId]
  OBVIOUS
<1>4. r.status = "PENDING" /\ r.attempts = row[e].attempts
  BY <1>1, <1>3 DEF Row
<1>5. row' = [row EXCEPT ![e] = r]
  BY <1>3 DEF Append, RetryOutboxEvent
<1> QED BY <1>2, <1>4, <1>5 DEF TypeOK

LEMMA OwnersStep ==
    ASSUME IInv, OwnersInv, [Next]_vars
    PROVE  OwnersInv'
<1>0. TypeOK
  BY DEF IInv
<1>1. CASE UNCHANGED vars
  BY <1>1 DEF vars, OwnersInv, ClaimsNameHolder, HolderIsCurrent
<1>2. ASSUME NEW e \in Events, Append(e) \/ RetryOutboxEvent(e)
      PROVE  OwnersInv'
  BY <1>0, <1>2, RowsUnclaimed, OwnersKept
<1>3. ASSUME NEW d \in Dispatchers, Publish(d)
      PROVE  OwnersInv'
  BY <1>0, <1>3, PublishedItems, OwnersKept
<1>4. ASSUME NEW d \in Dispatchers, MarkPublished(d) \/ MarkFailed(d)
      PROVE  OwnersInv'
  <2>1. \A e \in Events : row'[e].status = "CLAIMING" => row'[e] = row[e]
    BY <1>4, MarkedRow
  <2> QED BY <1>0, <1>4, <2>1, MarkedItems, OwnersKept
<1>5. ASSUME NEW d \in Dispatchers, ClaimFails(d) \/ Crash(d)
      PROVE  OwnersInv'
  BY <1>0, <1>5, EmptiedItems, OwnersKept
<1> QED BY <1>0, <1>1, <1>2, <1>3, <1>4, <1>5, OwnersClaim DEF Next, Dispatch

\* claimed_by is the id of the dispatcher that claimed last, which has read the
\* row's attempts.
THEOREM ClaimsAreOwned == Spec => []OwnersInv
<1>1. Init => OwnersInv
  BY OwnersInit
<1>2. IInv /\ OwnersInv /\ [Next]_vars => OwnersInv'
  BY OwnersStep
<1> QED BY <1>1, <1>2, Invariant, PTL DEF Spec

-----------------------------------------------------------------------------
(* Processes with ids of their own *)

LEMMA OwnerHolds ==
    ASSUME DistinctIds, OwnersInv, NEW d \in Dispatchers, NEW e \in Events, Owned(d, e)
    PROVE  holder[e] = d
BY DEF DistinctIds, OwnersInv, ClaimsNameHolder, Owned

\* A mark by a dispatcher whose lease was taken over changes nothing.
THEOREM HoldersMark == ASSUME DistinctIds PROVE Spec => OnlyHolderMarks
<1> DEFINE Ends(e) == row[e].status = "CLAIMING" /\ row'[e].status # "CLAIMING"
           ByHolder(e) == /\ holder[e] \in Dispatchers
                          /\ disp[holder[e]].item.event = e
                          /\ disp'[holder[e]] # disp[holder[e]]
<1>1. ASSUME IInv, OwnersInv, [Next]_vars, NEW e \in Events, Ends(e)
      PROVE  ByHolder(e)
  <2>0. TypeOK /\ row'[e] # row[e]
    BY <1>1 DEF IInv
  <2>1. ASSUME NEW f \in Events, Append(f) \/ RetryOutboxEvent(f)
        PROVE  FALSE
    BY <1>1, <2>0, <2>1, RowsUnclaimed
  <2>2. ASSUME NEW d \in Dispatchers, ClaimPending(d)
        PROVE  FALSE
    <3>1. PICK picked \in SUBSET Events, x \in Dispatcher : ClaimedAs(d, picked, x)
      BY <2>0, <2>2, ClaimShape
    <3> QED BY <1>1, <2>0, <3>1 DEF ClaimedAs
  <2>3. ASSUME NEW d \in Dispatchers, Publish(d) \/ ClaimFails(d) \/ Crash(d)
        PROVE  FALSE
    BY <1>1, <2>0, <2>3, PublishedItems, EmptiedItems
  <2>4. ASSUME NEW d \in Dispatchers, MarkPublished(d) \/ MarkFailed(d)
        PROVE  ByHolder(e)
    BY <1>1, <2>0, <2>4, MarkedRow, MarkedItems, OwnerHolds
  <2> QED BY <1>1, <2>0, <2>1, <2>2, <2>3, <2>4 DEF Next, Dispatch, vars
<1>2. IInv /\ OwnersInv /\ [Next]_vars
      => [\A e \in Events :
            row[e].status = "CLAIMING" /\ row'[e].status # "CLAIMING"
            => /\ holder[e] \in Dispatchers
               /\ disp[holder[e]].item.event = e /\ disp'[holder[e]] # disp[holder[e]]]_vars
  BY <1>1
<1> QED BY <1>2, Invariant, ClaimsAreOwned, PTL DEF Spec, OnlyHolderMarks

\* attempt_count never falls, though MarkFailed writes what the claim has read.
THEOREM AttemptsGrow == ASSUME DistinctIds PROVE Spec => AttemptsNeverFall
<1>1. ASSUME IInv, OwnersInv, [Next]_vars, NEW e \in Events
      PROVE  row'[e].attempts >= row[e].attempts
  <2>0. TypeOK /\ row[e].attempts \in 0..DeadThreshold
    BY <1>1 DEF IInv, TypeOK, Row
  <2>1. CASE row'[e].attempts = row[e].attempts
    BY <2>0, <2>1
  <2>2. CASE row'[e].attempts # row[e].attempts
    <3>1. ASSUME NEW f \in Events, Append(f) \/ RetryOutboxEvent(f)
          PROVE  FALSE
      BY <2>0, <2>2, <3>1, RowsUnclaimed
    <3>2. ASSUME NEW d \in Dispatchers, ClaimPending(d)
          PROVE  FALSE
      <4>1. PICK picked \in SUBSET Events, x \in Dispatcher : ClaimedAs(d, picked, x)
        BY <2>0, <3>2, ClaimShape
      <4> QED BY <2>2, <4>1 DEF ClaimedAs
    <3>3. ASSUME NEW d \in Dispatchers, Publish(d) \/ ClaimFails(d) \/ Crash(d)
          PROVE  FALSE
      BY <1>1, <2>0, <2>2, <3>3, PublishedItems, EmptiedItems
    <3>4. ASSUME NEW d \in Dispatchers, MarkPublished(d) \/ MarkFailed(d)
          PROVE  row'[e].attempts >= row[e].attempts
      <4>1. /\ e = disp[d].item.event /\ Owned(d, e)
            /\ row'[e].attempts = Counted(disp[d].item.attempts)
        BY <1>1, <2>2, <3>4, MarkedRow
      <4>2. disp[d].item \in Items(disp[d]) /\ holder[e] = d
        BY <1>1, <3>4, <4>1, Marked, OwnerHolds
      <4>3. disp[d].item.attempts = row[e].attempts
        BY <1>1, <4>1, <4>2 DEF OwnersInv, HolderIsCurrent, Owned
      <4> QED BY <2>0, <4>1, <4>3, CountedType
    <3> QED BY <1>1, <2>2, <3>1, <3>2, <3>3, <3>4 DEF Next, Dispatch, vars
  <2> QED BY <2>1, <2>2
<1>2. IInv /\ OwnersInv /\ [Next]_vars
      => [\A e \in Events : row'[e].attempts >= row[e].attempts]_vars
  BY <1>1
<1> QED BY <1>2, Invariant, ClaimsAreOwned, PTL DEF Spec, AttemptsNeverFall

\* Without crashes and with a working database, a dispatcher that has claimed
\* last, and so still holds all it claimed, is never stopped.
LEMMA HoldsAllStep ==
    ASSUME DistinctIds, {"crash", "store"} \cap Faults = {},
           IInv, OwnersInv, SomeoneHoldsAll, [Next]_vars
    PROVE  SomeoneHoldsAll'
<1>0. TypeOK
  BY DEF IInv
<1>1. PICK w \in Dispatchers : Running(w) /\ \A i \in Items(disp[w]) : Holds(w, i.event)
  BY DEF SomeoneHoldsAll
<1>2. \A i \in Items(disp[w]) : i.event \in Events
  BY <1>0, ItemsType
<1>3. CASE UNCHANGED vars
  BY <1>1, <1>3 DEF vars, SomeoneHoldsAll, Running, Holds
<1>4. ASSUME NEW e \in Events, Append(e) \/ RetryOutboxEvent(e)
      PROVE  SomeoneHoldsAll'
  BY <1>0, <1>1, <1>2, <1>4, RowsUnclaimed DEF SomeoneHoldsAll, Running, Holds
<1>5. ASSUME NEW d \in Dispatchers, ClaimPending(d)
      PROVE  SomeoneHoldsAll'
  <2>1. PICK picked \in SUBSET Events, x \in Dispatcher : ClaimedAs(d, picked, x)
    BY <1>0, <1>5, ClaimShape
  <2>2. disp'[d] = x /\ x.pc # "stopped"
    BY <1>0, <2>1 DEF ClaimedAs, TypeOK
  <2>3. \A i \in Items(x) : row'[i.event].status = "CLAIMING" /\ holder'[i.event] = d
    BY <2>1 DEF ClaimedAs
  <2> QED BY <2>2, <2>3 DEF SomeoneHoldsAll, Running, Holds
<1>6. ASSUME NEW d \in Dispatchers, Publish(d)
      PROVE  SomeoneHoldsAll'
  <2>1. Running(w)' /\ Items(disp'[w]) = Items(disp[w]) /\ UNCHANGED <<row, holder>>
    BY <1>1, <1>6, PublishedItems DEF Running
  <2> QED BY <1>1, <2>1 DEF SomeoneHoldsAll, Holds
<1>7. ASSUME NEW d \in Dispatchers, MarkPublished(d) \/ MarkFailed(d)
      PROVE  SomeoneHoldsAll'
  <2> DEFINE f == disp[d].item.event
  <2>1. /\ disp[d].item \in Items(disp[d]) /\ f \in Events
        /\ \E status \in {"PUBLISHED", "FAILED", "DEAD"}, n \in 0..DeadThreshold,
              x \in Dispatcher : MarkedAs(d, status, n, x)
    BY <1>7, Marked
  <2>2. PICK x \in Dispatcher :
           /\ disp' = [disp EXCEPT ![d] = x]
           /\ Items(x) \subseteq Items(disp[d]) \ {disp[d].item}
           /\ ~Owned(d, f) => row' = row
           /\ Owned(d, f) => x.pc # "stopped"
    BY <2>1 DEF MarkedAs
  <2>3. \A e \in Events : e # f => row'[e] = row[e]
    BY <1>7, MarkedRow
  <2>4. holder' = holder
    BY <1>7, MarkedItems
  <2> HIDE DEF f
  <2>5. CASE d = w
    <3>1. Owned(d, f)
      BY <1>1, <2>1, <2>5 DEF Holds, Owned, OwnersInv, ClaimsNameHolder, f
    <3>2. disp'[w] = x /\ x.pc # "stopped"
      BY <1>0, <2>2, <2>5, <3>1 DEF TypeOK
    <3>3. \A i \in Items(x) : i \in Items(disp[w]) /\ i.event # f
      BY <2>1, <2>2, <2>5 DEF IInv, BatchesWellFormed, WellFormed, f
    <3> QED BY <1>1, <1>2, <2>3, <2>4, <3>2, <3>3 DEF SomeoneHoldsAll, Running, Holds
  <2>6. CASE d # w
    <3>1. disp'[w] = disp[w]
      BY <1>0, <2>2, <2>6 DEF TypeOK
    <3>2. \A i \in Items(disp[w]) : i.event = f => row' = row
      BY <1>1, <2>1, <2>2, <2>6, OwnerHolds DEF Holds
    <3> QED BY <1>1, <1>2, <2>3, <2>4, <3>1, <3>2 DEF SomeoneHoldsAll, Running, Holds
  <2> QED BY <2>5, <2>6
<1>8. ASSUME NEW d \in Dispatchers, ClaimFails(d) \/ Crash(d)
      PROVE  FALSE
  BY <1>8 DEF ClaimFails, Crash
<1> QED BY <1>3, <1>4, <1>5, <1>6, <1>7, <1>8 DEF Next, Dispatch

\* Lost claims end a dispatcher's loop, but never that of the last one: whoever
\* claimed last holds all its events.
THEOREM Survivor ==
    ASSUME DistinctIds, Dispatchers # {}, {"crash", "store"} \cap Faults = {}
    PROVE  Spec => [](SomeoneHoldsAll /\ SomeDispatcherRuns)
<1>1. Init => SomeoneHoldsAll
  BY EmptyWellFormed, Blanks DEF Init, SomeoneHoldsAll, Running
<1>2. IInv /\ OwnersInv /\ SomeoneHoldsAll /\ [Next]_vars => SomeoneHoldsAll'
  BY HoldsAllStep
<1>3. SomeoneHoldsAll => SomeDispatcherRuns
  BY DEF SomeoneHoldsAll, SomeDispatcherRuns
<1> QED BY <1>1, <1>2, <1>3, Invariant, ClaimsAreOwned, PTL DEF Spec

-----------------------------------------------------------------------------
(* The outbox is an AtLeastOnce channel *)

\* One event's stage changes.
LEMMA LedgerStep ==
    ASSUME NEW e \in Events, \A f \in Events \ {e} : Stage(f)' = Stage(f), NEW s,
           Stage(e)' = s
    PROVE  [f \in Events |-> Stage(f)]' = [[f \in Events |-> Stage(f)] EXCEPT ![e] = s]
<1>1. \A f \in Events : Stage(f)' = IF f = e THEN s ELSE Stage(f)
  OBVIOUS
<1> QED BY <1>1, Zenon

LEMMA StageOf ==
    ASSUME NEW e
    PROVE  /\ row[e].status = "NONE" <=> Stage(e) = "absent"
           /\ row[e].status = "PUBLISHED" <=> Stage(e) = "acknowledged"
           /\ row[e].status = "DEAD" <=> Stage(e) = "dead"
           /\ row[e].status \notin {"NONE", "PUBLISHED", "DEAD"} <=> Stage(e) = "queued"
BY DEF Stage

\* The channel acknowledges, gives up, queues or requeues an event when its row
\* does, and takes it when the broker does.
LEMMA ChannelStep ==
    ASSUME IInv, [Next]_vars
    PROVE  [Channel!Next]_<<[e \in Events |-> Stage(e)], broker>>
<1> DEFINE ledger == [e \in Events |-> Stage(e)]
           Quiet == ledger' = ledger /\ broker' = broker
<1>0. TypeOK
  BY DEF IInv
<1>1. ASSUME row' = row, broker' = broker
      PROVE  Quiet
  BY <1>1 DEF Stage
<1>2. ASSUME NEW e \in Events, Append(e)
      PROVE  Channel!Append(e)
  <2>1. row[e].status = "NONE" /\ row' = [row EXCEPT ![e].status = "PENDING"]
        /\ broker' = broker
    BY <1>2 DEF Append
  <2>2. row'[e].status = "PENDING" /\ \A f \in Events \ {e} : row'[f] = row[f]
    BY <1>0, <2>1 DEF TypeOK, Row
  <2>3. Stage(e) = "absent" /\ Stage(e)' = "queued"
        /\ \A f \in Events \ {e} : Stage(f)' = Stage(f)
    BY <2>1, <2>2 DEF Stage
  <2>4. ledger' = [ledger EXCEPT ![e] = "queued"]
    BY <2>3, LedgerStep
  <2> QED BY <2>1, <2>3, <2>4 DEF Channel!Append
<1>3. ASSUME NEW e \in Events, RetryOutboxEvent(e)
      PROVE  Quiet \/ Channel!Requeue(e)
  <2>1. row[e].status \in {"FAILED", "DEAD"} /\ broker' = broker
        /\ row' = [row EXCEPT ![e].status = "PENDING", ![e].by = NoId]
    BY <1>3 DEF RetryOutboxEvent
  <2>2. row'[e].status = "PENDING" /\ \A f \in Events \ {e} : row'[f] = row[f]
    BY <1>0, <2>1 DEF TypeOK, Row
  <2>3. Stage(e)' = "queued" /\ \A f \in Events \ {e} : Stage(f)' = Stage(f)
    BY <2>2 DEF Stage
  <2>4. CASE row[e].status = "DEAD"
    <3>1. ledger' = [ledger EXCEPT ![e] = "queued"]
      BY <2>3, LedgerStep
    <3> QED BY <2>1, <2>4, <3>1 DEF Channel!Requeue, Stage
  <2>5. CASE row[e].status = "FAILED"
    <3>1. \A f \in Events : Stage(f)' = Stage(f)
      BY <2>3, <2>5 DEF Stage
    <3> QED BY <2>1, <3>1
  <2> QED BY <2>1, <2>4, <2>5
<1>4. ASSUME NEW d \in Dispatchers, ClaimPending(d)
      PROVE  Quiet
  <2>1. PICK picked \in SUBSET Events, x \in Dispatcher : ClaimedAs(d, picked, x)
    BY <1>0, <1>4, ClaimShape
  <2>2. \A e \in picked : row[e].status \in {"PENDING", "FAILED", "CLAIMING"}
                          /\ row'[e].status = "CLAIMING"
    BY <2>1 DEF ClaimedAs, Claimable
  <2>3. \A e \in Events : Stage(e)' = Stage(e)
    <3>1. \A e \in picked : Stage(e)' = Stage(e)
      BY <2>2 DEF Stage
    <3>2. \A e \in Events \ picked : Stage(e)' = Stage(e)
      BY <2>1 DEF ClaimedAs, Stage
    <3> QED BY <3>1, <3>2
  <2> QED BY <2>1, <2>3 DEF ClaimedAs
<1>5. ASSUME NEW d \in Dispatchers, Publish(d)
      PROVE  Quiet \/ \E e \in Events : Channel!Deliver(e)
  <2>1. PICK item \in disp[d].batch :
           /\ broker' \in {broker, broker \cup {item.event}} /\ item.event \in Events
           /\ row' = row
    BY <1>5, PublishShape DEF IInv, BatchesWellFormed
  <2>2. row[item.event].status # "NONE"
    BY DEF Items, IInv, OnlyAppended
  <2>3. \A e \in Events : Stage(e)' = Stage(e)
    BY <2>1 DEF Stage
  <2>4. ledger' = ledger
    BY <2>3
  <2>5. CASE broker' = broker
    BY <2>4, <2>5
  <2>6. CASE broker' # broker
    <3>1. item.event \notin broker /\ broker' = broker \cup {item.event}
      BY <2>1, <2>6
    <3>2. Stage(item.event) # "absent"
      BY <2>2, StageOf
    <3> QED BY <2>1, <2>4, <3>1, <3>2 DEF Channel!Deliver
  <2> QED BY <2>5, <2>6
<1>6. ASSUME NEW d \in Dispatchers, MarkPublished(d) \/ MarkFailed(d)
      PROVE  Quiet \/ \E e \in Events : Channel!Acknowledge(e) \/ Channel!GiveUp(e)
  <2>1. broker' = broker
    BY <1>6, MarkedItems
  <2>2. CASE row' = row
    BY <1>1, <2>1, <2>2
  <2>3. CASE row' # row
    <3>1. PICK e \in Events : row'[e] # row[e]
      BY <1>0, <2>3, StepInv DEF IInv, TypeOK
    <3>2. /\ e = disp[d].item.event /\ row[e].status = "CLAIMING"
          /\ row'[e].status \in {"PUBLISHED", "FAILED", "DEAD"}
      BY <1>6, <3>1, MarkedRow DEF Owned
    <3>3. \A f \in Events \ {e} : row'[f] = row[f]
      BY <1>6, <3>2, MarkedRow
    <3>4. \A f \in Events \ {e} : Stage(f)' = Stage(f)
      BY <3>3 DEF Stage
    <3>5. Stage(e) = "queued"
      BY <3>2 DEF Stage
    <3>6. CASE row'[e].status = "PUBLISHED"
      <4>1. e \in broker
        BY <2>1, <3>6, StepInv DEF IInv, ConfirmedBeforeMarked
      <4>2. Stage(e)' = "acknowledged"
        BY <3>6 DEF Stage
      <4>3. ledger' = [ledger EXCEPT ![e] = "acknowledged"]
        BY <3>4, <4>2, LedgerStep
      <4> QED BY <2>1, <3>5, <4>1, <4>3 DEF Channel!Acknowledge
    <3>7. CASE row'[e].status = "DEAD"
      <4>1. Stage(e)' = "dead"
        BY <3>7 DEF Stage
      <4>2. ledger' = [ledger EXCEPT ![e] = "dead"]
        BY <3>4, <4>1, LedgerStep
      <4> QED BY <2>1, <3>5, <4>2 DEF Channel!GiveUp
    <3>8. CASE row'[e].status = "FAILED"
      <4>1. \A f \in Events : Stage(f)' = Stage(f)
        BY <3>4, <3>5, <3>8 DEF Stage
      <4> QED BY <2>1, <4>1
    <3> QED BY <3>2, <3>6, <3>7, <3>8
  <2> QED BY <2>2, <2>3
<1>7. ASSUME NEW d \in Dispatchers, ClaimFails(d) \/ Crash(d)
      PROVE  Quiet
  BY <1>0, <1>1, <1>7, EmptiedItems
<1>8. CASE UNCHANGED vars
  BY <1>1, <1>8 DEF vars
<1> QED BY <1>2, <1>3, <1>4, <1>5, <1>6, <1>7, <1>8 DEF Next, Dispatch, Channel!Next

\* An event of a committed transaction stays queued until the broker confirmed it
\* or it is given up as DEAD, and a PUBLISHED row never goes back.
THEOREM Refinement == Spec => ImplementsAtLeastOnce
<1>1. Init => Channel!Init
  BY DEF Init, Channel!Init, Stage
<1>2. IInv /\ [Next]_vars => [Channel!Next]_<<[e \in Events |-> Stage(e)], broker>>
  BY ChannelStep
<1> QED BY <1>1, <1>2, Invariant, PTL DEF Spec, ImplementsAtLeastOnce, Channel!Spec
=============================================================================
