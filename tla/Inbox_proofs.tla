---------------------------- MODULE Inbox_proofs ----------------------------
(***************************************************************************)
(* Inbox for any events, consumers, commands and faults: what is acked has *)
(* been served, the total of a group counts its notifications, and the     *)
(* unread counters promise no notification that is not there.              *)
(***************************************************************************)
EXTENDS Inbox, FiniteSetTheorems, TLAPS

-----------------------------------------------------------------------------
(* What the events ask for *)

LEMMA KeyFacts ==
    /\ \A m \in Stored : /\ m \in Messages /\ Asks[m].action = "store"
                         /\ Asks[m].key \in Keys /\ Asks[m].group = GroupOf[Asks[m].key]
    /\ \A k \in Keys : GroupOf[k] \in Groups /\ RecipientOf[k] \in Recipients
                       /\ CategoryOf[k] \in Categories
    /\ \A k, j \in Keys : GroupOf[k] = GroupOf[j] =>
          RecipientOf[k] = RecipientOf[j] /\ CategoryOf[k] = CategoryOf[j]
<1>1. \A m \in Stored : m \in Messages /\ Asks[m].action = "store" /\ Asks[m] \in Notes
  BY DEF Stored, Notes
<1>2. \A k \in Keys : NoteOf(k) \in Notes /\ NoteOf(k).key = k
  <2> SUFFICES ASSUME NEW k \in Keys PROVE NoteOf(k) \in Notes /\ NoteOf(k).key = k
    OBVIOUS
  <2>1. \E n \in Notes : n.key = k
    BY DEF Keys
  <2> QED BY <2>1 DEF NoteOf
<1>3. \A n1, n2 \in Notes : /\ n1.key = n2.key => n1 = n2
                            /\ n1.group = n2.group => /\ n1.recipient = n2.recipient
                                                      /\ n1.category = n2.category
  BY InboxAssumption
<1>4. \A k \in Keys : /\ GroupOf[k] = NoteOf(k).group
                      /\ RecipientOf[k] = NoteOf(k).recipient
                      /\ CategoryOf[k] = NoteOf(k).category
  BY DEF GroupOf, RecipientOf, CategoryOf
<1>5. ASSUME NEW m \in Stored
      PROVE  Asks[m].key \in Keys /\ Asks[m].group = GroupOf[Asks[m].key]
  <2>1. Asks[m].key \in Keys
    BY <1>1 DEF Keys
  <2>2. NoteOf(Asks[m].key) = Asks[m]
    BY <1>1, <1>2, <1>3, <2>1
  <2> QED BY <1>4, <2>1, <2>2
<1>6. \A n \in Notes : n.group \in Groups /\ n.recipient \in Recipients /\ n.category \in Categories
  BY DEF Groups, Recipients, Categories
<1> QED BY <1>1, <1>2, <1>3, <1>4, <1>5, <1>6

LEMMA KeysFinite == IsFiniteSet(Keys)
<1> DEFINE f == [m \in Stored |-> Asks[m].key]
<1>1. IsFiniteSet(Stored)
  BY FS_Subset, InboxAssumption DEF Stored
<1>2. \A k \in Keys : \E m \in Stored : f[m] = k
  BY DEF Keys, Notes
<1>3. f \in [Stored -> Keys]
  BY KeyFacts
<1>4. f \in Surjection(Stored, Keys)
  BY <1>2, <1>3 DEF Surjection
<1> QED BY <1>1, <1>4, FS_Surjection

\* Sizes of sets of notifications
LEMMA Sizes ==
    ASSUME NEW P \in SUBSET Keys
    PROVE  /\ IsFiniteSet(P) /\ Cardinality(P) \in Nat
           /\ \A Q \in SUBSET P : Cardinality(Q) \in Nat /\ Cardinality(Q) <= Cardinality(P)
           /\ \A k \in P : Cardinality(P \ {k}) = Cardinality(P) - 1
           /\ \A k : k \notin P => Cardinality(P \cup {k}) = Cardinality(P) + 1
<1>1. IsFiniteSet(P)
  BY KeysFinite, FS_Subset
<1>2. \A Q \in SUBSET P : IsFiniteSet(Q) /\ Cardinality(Q) <= Cardinality(P)
  BY <1>1, FS_Subset
<1> QED BY <1>1, <1>2, FS_CardinalityType, FS_AddElement, FS_RemoveElement

-----------------------------------------------------------------------------
(* The consumers *)

\* What was served stays served.
LEMMA ServedStays ==
    ASSUME Shown \subseteq Shown', dead \subseteq dead', NEW m, Served(m)
    PROVE  Served(m)'
BY DEF Served

\* A step of one consumer that touches no notification.
LEMMA ConsumerStep ==
    ASSUME IInv, NEW c \in Consumers, NEW x \in ConsumerState,
           consumer' = [consumer EXCEPT ![c] = x],
           x.step # "Waiting" => x.message \in Messages,
           x.step = "Ack" => Served(x.message)',
           x.step = "DeadLetter" => Asks[x.message].action = "dead_letter",
           ready' \in [Messages -> Nat], acked' \subseteq Messages, dead' \subseteq Messages,
           \A m \in acked' \ acked : Served(m), dead \subseteq dead', faults' \in 0..MaxFaults,
           UNCHANGED <<sent, consumed, status, total, unread, stats, req>>
    PROVE  IInv'
<1>1. TypeOK'
  BY DEF IInv, TypeOK
<1>2. Shown' = Shown
  BY DEF Shown
<1>3. \A m : Served(m) => Served(m)'
  BY <1>2, ServedStays
<1>4. HandlersServe'
  <2>1. \A d \in Consumers : consumer'[d] = IF d = c THEN x ELSE consumer[d]
    BY DEF IInv, TypeOK
  <2>2. \A m \in acked' \cup consumed' : Served(m)'
    BY <1>3 DEF IInv, HandlersServe
  <2>3. ASSUME NEW d \in Consumers
        PROVE  (/\ consumer[d].step # "Waiting" => consumer[d].message \in Messages
                /\ consumer[d].step = "Ack" => Served(consumer[d].message)
                /\ consumer[d].step = "DeadLetter" =>
                      Asks[consumer[d].message].action = "dead_letter")'
    <3>1. CASE d = c
      BY <2>1, <3>1 DEF Served
    <3>2. CASE d # c
      <4>1. consumer'[d] = consumer[d]
        BY <2>1, <3>2
      <4>2. consumer[d].step = "Ack" => Served(consumer[d].message)
        BY DEF IInv, HandlersServe
      <4>3. consumer[d].step = "Ack" => Served(consumer[d].message)'
        BY <1>2, <4>1, <4>2 DEF Served
      <4> QED BY <4>1, <4>3 DEF IInv, HandlersServe
    <3> QED BY <3>1, <3>2
  <2>4. (consumed \subseteq Stored)'
    BY DEF IInv, HandlersServe
  <2> QED BY <2>2, <2>3, <2>4 DEF HandlersServe
<1>5. GroupTotalsExact' /\ NeverOverstated'
  BY <1>2 DEF IInv, GroupTotalsExact, NeverOverstated, Unread
<1>6. LocksHold'
  BY <1>2 DEF IInv, LocksHold
<1> QED BY <1>1, <1>4, <1>5, <1>6 DEF IInv

LEMMA FaultsStay ==
    ASSUME TypeOK, NEW kind, Fault(kind) \/ UNCHANGED faults
    PROVE  faults' \in 0..MaxFaults
BY InboxAssumption DEF TypeOK, Fault

LEMMA States ==
    /\ Waiting \in ConsumerState /\ Waiting.step = "Waiting"
    /\ \A m \in Messages, step \in {"Waiting", "Handle", "DeadLetter", "Ack"} :
          /\ [step |-> step, message |-> m] \in ConsumerState
          /\ [step |-> step, message |-> m].step = step
          /\ [step |-> step, message |-> m].message = m
BY DEF Waiting, ConsumerState

\* A consumer that gives its message back.
LEMMA RequeueKeeps ==
    ASSUME IInv, NEW c \in Consumers, consumer[c].step # "Waiting", Requeue(c),
           faults' \in 0..MaxFaults, UNCHANGED <<consumed, status, total, unread, stats, req>>
    PROVE  IInv'
<1>1. consumer[c].message \in Messages
  BY DEF IInv, HandlersServe
<1>2. ready' \in [Messages -> Nat]
  BY <1>1 DEF Requeue, IInv, TypeOK
<1>3. acked' = acked /\ dead' = dead /\ UNCHANGED sent /\ acked \subseteq Messages /\ dead \subseteq Messages
  BY DEF Requeue, IInv, TypeOK
<1> QED BY <1>2, <1>3, ConsumerStep, States DEF Requeue

\* A consumer that goes on with its message.
LEMMA HandledState ==
    ASSUME IInv, NEW c \in Consumers, consumer[c].step # "Waiting",
           NEW step \in {"Waiting", "Handle", "DeadLetter", "Ack"},
           consumer' = [consumer EXCEPT ![c].step = step]
    PROVE  LET x == [step |-> step, message |-> consumer[c].message] IN
           /\ x \in ConsumerState /\ x.step = step /\ x.message = consumer[c].message
           /\ x.message \in Messages
           /\ consumer' = [consumer EXCEPT ![c] = x]
<1>1. consumer[c].message \in Messages /\ consumer[c] \in ConsumerState
  BY DEF IInv, HandlersServe, TypeOK
<1>2. [consumer[c] EXCEPT !.step = step] = [step |-> step, message |-> consumer[c].message]
  BY <1>1 DEF ConsumerState
<1>3. consumer' = [consumer EXCEPT ![c] = [consumer[c] EXCEPT !.step = step]]
  BY DEF IInv, TypeOK
<1> QED BY <1>1, <1>2, <1>3, States

LEMMA PublishKeeps ==
    ASSUME IInv, NEW m \in Messages, Publish(m)
    PROVE  IInv'
<1>1. TypeOK'
  BY InboxAssumption DEF Publish, IInv, TypeOK
<1>2. Shown' = Shown
  BY DEF Publish, Shown
<1>3. HandlersServe'
  BY <1>2, ServedStays DEF Publish, IInv, HandlersServe
<1>4. GroupTotalsExact' /\ NeverOverstated' /\ LocksHold'
  BY <1>2 DEF Publish, IInv, GroupTotalsExact, NeverOverstated, Unread, LocksHold
<1> QED BY <1>1, <1>3, <1>4 DEF IInv

LEMMA QueueKeeps ==
    ASSUME IInv, NEW c \in Consumers,
           \/ \E m \in Messages : Receive(c, m)
           \/ Ignore(c) \/ PublishDeadLetter(c) \/ Ack(c) \/ Crash(c) \/ StoreFails(c)
    PROVE  IInv'
<1>1. ASSUME NEW m \in Messages, Receive(c, m) PROVE IInv'
  <2>1. ready' \in [Messages -> Nat]
    BY <1>1 DEF Receive, IInv, TypeOK
  <2> QED BY <1>1, <2>1, ConsumerStep, States DEF Receive, IInv, TypeOK
<1>2. ASSUME Ignore(c), NEW m, m = consumer[c].message PROVE IInv'
  <2> DEFINE step == IF Asks[m].action = "noop" THEN "Ack" ELSE "DeadLetter"
             x == [step |-> step, message |-> m]
  <2>1. /\ x \in ConsumerState /\ x.step = step /\ x.message = m /\ m \in Messages
        /\ consumer' = [consumer EXCEPT ![c] = x]
    BY <1>2, HandledState DEF Ignore, Handled
  <2>2. x.step = "Ack" => Served(x.message)'
    BY <2>1 DEF Served
  <2>3. x.step = "DeadLetter" => Asks[x.message].action = "dead_letter"
    BY <1>2, <2>1 DEF Ignore
  <2>4. /\ UNCHANGED <<ready, sent, acked, dead, faults, consumed, status, total, unread, stats, req>>
        /\ TypeOK
    BY <1>2 DEF Ignore, Handled, IInv
  <2>5. /\ ready' \in [Messages -> Nat] /\ acked' \subseteq Messages /\ dead' \subseteq Messages
        /\ acked' \ acked = {} /\ dead \subseteq dead' /\ faults' \in 0..MaxFaults
    BY <2>4 DEF TypeOK
  <2> HIDE DEF x
  <2> QED BY <2>1, <2>2, <2>3, <2>4, <2>5, ConsumerStep
<1>3. ASSUME PublishDeadLetter(c), NEW m, m = consumer[c].message PROVE IInv'
  <2> DEFINE x == [step |-> "Ack", message |-> m]
  <2>1. CASE Fault("dlq") /\ Requeue(c)
    BY <1>3, <2>1, RequeueKeeps, FaultsStay DEF PublishDeadLetter, IInv
  <2>2. CASE /\ dead' = dead \cup {m} /\ consumer' = [consumer EXCEPT ![c].step = "Ack"]
             /\ UNCHANGED <<ready, sent, acked, faults>>
    <3>1. UNCHANGED <<consumed, status, total, unread, stats, req>> /\ consumer[c].step = "DeadLetter"
      BY <1>3 DEF PublishDeadLetter
    <3>2. /\ x \in ConsumerState /\ x.step = "Ack" /\ x.message = m /\ m \in Messages
          /\ consumer' = [consumer EXCEPT ![c] = x]
      BY <1>3, <2>2, <3>1, HandledState
    <3>3. Asks[m].action = "dead_letter"
      BY <1>3, <3>1 DEF IInv, HandlersServe
    <3>4. Served(x.message)'
      BY <2>2, <3>2, <3>3 DEF Served
    <3>5. /\ ready' \in [Messages -> Nat] /\ acked' \subseteq Messages /\ dead' \subseteq Messages
          /\ acked' \ acked = {} /\ dead \subseteq dead' /\ faults' \in 0..MaxFaults
      BY <2>2, <3>2 DEF IInv, TypeOK
    <3> HIDE DEF x
    <3> QED BY <2>2, <3>1, <3>2, <3>4, <3>5, ConsumerStep
  <2> QED BY <1>3, <2>1, <2>2 DEF PublishDeadLetter
<1>4. ASSUME Ack(c), NEW m, m = consumer[c].message PROVE IInv'
  <2>1. Served(m) /\ m \in Messages
    BY <1>4 DEF Ack, IInv, HandlersServe
  <2>2. /\ acked' = acked \cup {m} /\ consumer' = [consumer EXCEPT ![c] = Waiting]
        /\ UNCHANGED <<ready, sent, dead, faults, consumed, status, total, unread, stats, req>>
    BY <1>4 DEF Ack
  <2>3. /\ ready' \in [Messages -> Nat] /\ acked' \subseteq Messages /\ dead' \subseteq Messages
        /\ dead \subseteq dead' /\ faults' \in 0..MaxFaults
    BY <2>1, <2>2 DEF IInv, TypeOK
  <2>4. \A n \in acked' \ acked : Served(n)
    BY <2>1, <2>2
  <2> QED BY <2>2, <2>3, <2>4, ConsumerStep, States
<1>5. CASE Crash(c)
  BY <1>5, RequeueKeeps, FaultsStay DEF Crash, IInv
<1>6. CASE StoreFails(c)
  BY <1>6, RequeueKeeps, FaultsStay DEF StoreFails, Failed, IInv
<1> QED BY <1>1, <1>2, <1>3, <1>4, <1>5, <1>6
-----------------------------------------------------------------------------
(* The transaction that stores a notification *)

LEMMA InsertKeeps ==
    ASSUME TypeOK, GroupTotalsExact, LocksHold, NeverOverstated, NEW k \in Keys, Insert(k),
           UNCHANGED req
    PROVE  /\ status' \in [Keys -> {"NONE", "UNREAD", "READ"}]
           /\ total' \in [Groups -> Nat] /\ unread' \in [Groups -> Nat]
           /\ stats' \in [Recipients -> [Categories -> Nat]]
           /\ Shown' = Shown \cup {k}
           /\ GroupTotalsExact' /\ LocksHold' /\ NeverOverstated'
<1> DEFINE h == GroupOf[k]
           v == RecipientOf[k]
           d == CategoryOf[k]
<1>1. h \in Groups /\ v \in Recipients /\ d \in Categories
  BY KeyFacts
<1>2. CASE ~IsNew(k)
  <2>1. UNCHANGED <<status, total, unread, stats>>
    BY <1>2 DEF Insert
  <2>2. Shown' = Shown /\ Unread' = Unread /\ k \in Shown
    BY <1>2, <2>1 DEF Shown, Unread, IsNew
  <2>3. GroupTotalsExact' /\ NeverOverstated'
    BY <2>1, <2>2 DEF GroupTotalsExact, NeverOverstated
  <2>4. LocksHold'
    BY <2>1, <2>2 DEF LocksHold
  <2> QED BY <2>1, <2>2, <2>3, <2>4 DEF TypeOK
<1>3. CASE IsNew(k)
  <2>1. /\ status' = [status EXCEPT ![k] = "UNREAD"]
        /\ total' = [total EXCEPT ![h] = @ + 1] /\ unread' = [unread EXCEPT ![h] = @ + 1]
        /\ stats' = [stats EXCEPT ![v][d] = @ + 1]
    BY <1>3 DEF Insert
  <2>2. /\ status' \in [Keys -> {"NONE", "UNREAD", "READ"}]
        /\ total' \in [Groups -> Nat] /\ unread' \in [Groups -> Nat]
        /\ stats' \in [Recipients -> [Categories -> Nat]]
    BY <1>1, <2>1 DEF TypeOK
  <2>3. /\ Shown' = Shown \cup {k} /\ Unread' = Unread \cup {k}
        /\ k \notin Shown /\ k \notin Unread /\ Shown \subseteq Keys /\ Unread \subseteq Keys
    BY <1>3, <2>1 DEF Shown, Unread, IsNew, TypeOK
  <2>4. \A P \in SUBSET Keys :
            /\ Cardinality(Shown' \cap P) = IF k \in P THEN Cardinality(Shown \cap P) + 1
                                            ELSE Cardinality(Shown \cap P)
            /\ Cardinality(Unread' \cap P) = IF k \in P THEN Cardinality(Unread \cap P) + 1
                                             ELSE Cardinality(Unread \cap P)
            /\ Cardinality(Unread \cap P) \in Nat
    <3> SUFFICES ASSUME NEW P \in SUBSET Keys
                 PROVE  /\ Cardinality(Shown' \cap P) = IF k \in P THEN Cardinality(Shown \cap P) + 1
                                                        ELSE Cardinality(Shown \cap P)
                        /\ Cardinality(Unread' \cap P) = IF k \in P THEN Cardinality(Unread \cap P) + 1
                                                         ELSE Cardinality(Unread \cap P)
                        /\ Cardinality(Unread \cap P) \in Nat
      OBVIOUS
    <3>1. /\ Shown' \cap P = IF k \in P THEN (Shown \cap P) \cup {k} ELSE Shown \cap P
          /\ Unread' \cap P = IF k \in P THEN (Unread \cap P) \cup {k} ELSE Unread \cap P
          /\ k \notin Shown \cap P /\ k \notin Unread \cap P
          /\ Shown \cap P \in SUBSET Keys /\ Unread \cap P \in SUBSET Keys
      BY <2>3
    <3> QED BY <3>1, Sizes
  <2>5. /\ \A g \in Groups : InGroup[g] \in SUBSET Keys /\ (k \in InGroup[g] <=> g = h)
        /\ \A u \in Recipients, c \in Categories :
              InCategory(u, c) \in SUBSET Keys /\ (k \in InCategory(u, c) <=> u = v /\ c = d)
    BY DEF InGroup, InCategory
  <2>6. GroupTotalsExact'
    <3>1. ASSUME NEW g \in Groups PROVE total'[g] = Cardinality(Shown' \cap InGroup[g])
      <4>1. total'[g] = (IF g = h THEN total[g] + 1 ELSE total[g])
            /\ total[g] = Cardinality(Shown \cap InGroup[g])
        BY <2>1 DEF TypeOK, GroupTotalsExact
      <4> QED BY <2>4, <2>5, <4>1
    <3> QED BY <3>1 DEF GroupTotalsExact
  <2>7. NeverOverstated'
    <3>1. ASSUME NEW g \in Groups PROVE unread'[g] <= Cardinality(Unread' \cap InGroup[g])
      <4>1. unread'[g] = (IF g = h THEN unread[g] + 1 ELSE unread[g]) /\ unread[g] \in Nat
            /\ unread[g] <= Cardinality(Unread \cap InGroup[g])
        BY <2>1 DEF TypeOK, NeverOverstated
      <4>2. /\ Cardinality(Unread \cap InGroup[g]) \in Nat
            /\ Cardinality(Unread' \cap InGroup[g]) =
                  IF g = h THEN Cardinality(Unread \cap InGroup[g]) + 1
                  ELSE Cardinality(Unread \cap InGroup[g])
        BY <2>4, <2>5
      <4> QED BY <4>1, <4>2
    <3>2. ASSUME NEW u \in Recipients, NEW c \in Categories
          PROVE  stats'[u][c] <= Cardinality(Unread' \cap InCategory(u, c))
      <4>1. stats'[u][c] = (IF u = v /\ c = d THEN stats[u][c] + 1 ELSE stats[u][c])
            /\ stats[u][c] \in Nat
            /\ stats[u][c] <= Cardinality(Unread \cap InCategory(u, c))
        BY <2>1 DEF TypeOK, NeverOverstated
      <4>2. /\ Cardinality(Unread \cap InCategory(u, c)) \in Nat
            /\ Cardinality(Unread' \cap InCategory(u, c)) =
                  IF u = v /\ c = d THEN Cardinality(Unread \cap InCategory(u, c)) + 1
                  ELSE Cardinality(Unread \cap InCategory(u, c))
        BY <2>4, <2>5
      <4> QED BY <4>1, <4>2
    <3> QED BY <3>1, <3>2 DEF NeverOverstated
  <2>8. LocksHold'
    <3>1. \A j \in Keys : status[j] = "UNREAD" => status'[j] = "UNREAD"
      BY <2>1 DEF TypeOK
    <3>2. \A r \in Requests : req[r].marked \subseteq Keys
      BY DEF TypeOK, RequestState
    <3> QED BY <2>3, <3>1, <3>2 DEF LocksHold
  <2> QED BY <2>2, <2>3, <2>6, <2>7, <2>8
<1> QED BY <1>2, <1>3

LEMMA CreateKeeps ==
    ASSUME IInv, NEW c \in Consumers, CreateInteractionNotification(c)
    PROVE  IInv'
<1> SUFFICES ASSUME NEW m, m = consumer[c].message PROVE IInv'
  OBVIOUS
<1>1. /\ m \in Stored /\ consumer[c].step = "Handle" /\ consumed' = consumed \cup {m}
      /\ IF m \in consumed THEN UNCHANGED <<status, total, unread, stats>> ELSE Insert(Asks[m].key)
      /\ Handled(c, "Ack") \/ (Fault("store") /\ Failed(c))
  BY DEF CreateInteractionNotification
<1>2. /\ m \in Messages /\ Asks[m].action = "store" /\ Asks[m].key \in Keys /\ UNCHANGED req
  BY KeyFacts DEF CreateInteractionNotification
<1>3. /\ status' \in [Keys -> {"NONE", "UNREAD", "READ"}]
      /\ total' \in [Groups -> Nat] /\ unread' \in [Groups -> Nat]
      /\ stats' \in [Recipients -> [Categories -> Nat]]
      /\ Shown \subseteq Shown' /\ Asks[m].key \in Shown'
      /\ GroupTotalsExact' /\ LocksHold' /\ NeverOverstated'
  <2>1. CASE m \in consumed
    <3>1. UNCHANGED <<status, total, unread, stats, req>>
      BY <1>1, <1>2, <2>1
    <3>2. Shown' = Shown /\ Unread' = Unread
      BY <3>1 DEF Shown, Unread
    <3>3. Asks[m].key \in Shown
      BY <1>2, <2>1 DEF IInv, HandlersServe, Served
    <3>4. GroupTotalsExact' /\ NeverOverstated'
      BY <3>1, <3>2 DEF IInv, GroupTotalsExact, NeverOverstated
    <3>5. LocksHold'
      BY <3>1, <3>2 DEF IInv, LocksHold
    <3> QED BY <3>1, <3>2, <3>3, <3>4, <3>5 DEF IInv, TypeOK
  <2>2. CASE m \notin consumed
    BY <1>1, <1>2, <2>2, InsertKeeps DEF IInv
  <2> QED BY <2>1, <2>2
<1>4. Served(m)'
  BY <1>2, <1>3 DEF Served
<1>5. faults' \in 0..MaxFaults
  BY <1>1, FaultsStay DEF Handled, IInv
<1> DEFINE Ends(x) == /\ x \in ConsumerState /\ x.step \in {"Ack", "Waiting"}
                      /\ x.step = "Ack" => x.message = m
                      /\ consumer' = [consumer EXCEPT ![c] = x]
<1>6. \E x : Ends(x)
  <2>1. CASE Handled(c, "Ack")
    BY <1>1, <2>1, HandledState DEF Handled
  <2>2. CASE Failed(c)
    BY <2>2, States DEF Failed, Requeue
  <2> QED BY <1>1, <2>1, <2>2
<1>7. PICK x : Ends(x)
  BY <1>6
<1>8. ready' \in [Messages -> Nat] /\ UNCHANGED <<sent, acked, dead>>
  BY <1>1, <1>2 DEF Handled, Failed, Requeue, IInv, TypeOK
<1>9. TypeOK'
  BY <1>1, <1>2, <1>3, <1>5, <1>7, <1>8 DEF IInv, TypeOK
<1>10. HandlersServe'
  <2>1. \A n : Served(n) => Served(n)'
    BY <1>3, <1>8, ServedStays
  <2>2. \A d \in Consumers : consumer'[d] = IF d = c THEN x ELSE consumer[d]
    BY <1>7 DEF IInv, TypeOK
  <2>3. \A n \in acked' \cup consumed' : Served(n)'
    BY <1>1, <1>4, <1>8, <2>1 DEF IInv, HandlersServe
  <2>4. (consumed \subseteq Stored)'
    BY <1>1 DEF IInv, HandlersServe
  <2>5. ASSUME NEW d \in Consumers
        PROVE  (/\ consumer[d].step # "Waiting" => consumer[d].message \in Messages
                /\ consumer[d].step = "Ack" => Served(consumer[d].message)
                /\ consumer[d].step = "DeadLetter" =>
                      Asks[consumer[d].message].action = "dead_letter")'
    <3>1. CASE d = c
      BY <1>2, <1>4, <1>7, <2>2, <3>1 DEF Served
    <3>2. CASE d # c
      <4>1. consumer'[d] = consumer[d]
        BY <2>2, <3>2
      <4>2. consumer[d].step = "Ack" => Served(consumer[d].message)
        BY DEF IInv, HandlersServe
      <4>3. consumer[d].step = "Ack" => Served(consumer[d].message)'
        BY <1>3, <1>8, <4>1, <4>2 DEF Served
      <4> QED BY <4>1, <4>3 DEF IInv, HandlersServe
    <3> QED BY <3>1, <3>2
  <2> QED BY <2>3, <2>4, <2>5 DEF HandlersServe
<1> QED BY <1>3, <1>9, <1>10 DEF IInv

-----------------------------------------------------------------------------
(* Marking as read *)

\* A step of a command that shows no more and no fewer notifications.
LEMMA CommandStep ==
    ASSUME IInv, TypeOK', UNCHANGED <<queue, consumed, total>>, Shown' = Shown,
           LocksHold', NeverOverstated'
    PROVE  IInv'
<1>1. HandlersServe'
  <2>1. UNCHANGED <<ready, sent, consumer, acked, dead, faults, consumed>>
    BY DEF queue
  <2>2. \A n : Served(n) <=> Served(n)'
    BY <2>1 DEF Served
  <2>3. \A m \in acked' \cup consumed' : Served(m)'
    BY <2>1, <2>2 DEF IInv, HandlersServe
  <2>4. ASSUME NEW d \in Consumers
        PROVE  (/\ consumer[d].step # "Waiting" => consumer[d].message \in Messages
                /\ consumer[d].step = "Ack" => Served(consumer[d].message)
                /\ consumer[d].step = "DeadLetter" =>
                      Asks[consumer[d].message].action = "dead_letter")'
    BY <2>1 DEF Served, IInv, HandlersServe
  <2> QED BY <2>1, <2>3, <2>4 DEF IInv, HandlersServe
<1>2. GroupTotalsExact'
  BY DEF IInv, GroupTotalsExact
<1> QED BY <1>1, <1>2 DEF IInv

\* A step of a command that only reads and locks.
LEMMA ReadingStep ==
    ASSUME IInv, NEW r \in Requests, NEW x \in RequestState,
           req' = [req EXCEPT ![r] = x],
           UNCHANGED <<queue, consumed, status, total, unread, stats>>,
           x.step \in {"Idle", "Done", "MarkRead"} => x.locked = {},
           x.step \notin {"ResetGroups", "ResetStats"} => x.marked = {},
           x.step = "MarkRead" => x.key \in Shown,
           x.step \in {"MarkRows", "ResetGroups", "ResetStats"} => x.user \in Recipients,
           \A k \in x.marked : status[k] = "UNREAD" /\ RecipientOf[k] = x.user,
           x.step = "ResetStats" => \A k \in x.marked : GroupOf[k] \in x.locked,
           \A q \in Requests \ {r} : x.marked \cap req[q].marked = {}
    PROVE  IInv'
<1>1. TypeOK'
  BY DEF IInv, TypeOK, queue
<1>2. Shown' = Shown /\ Unread' = Unread
  BY DEF Shown, Unread
<1>3. NeverOverstated'
  BY <1>2 DEF IInv, NeverOverstated
<1>4. LocksHold'
  <2>1. \A q \in Requests : req'[q] = IF q = r THEN x ELSE req[q]
    BY DEF IInv, TypeOK
  <2>2. ASSUME NEW q \in Requests
        PROVE  /\ req'[q].step \in {"Idle", "Done", "MarkRead"} => req'[q].locked = {}
               /\ req'[q].step \notin {"ResetGroups", "ResetStats"} => req'[q].marked = {}
               /\ req'[q].step = "MarkRead" => req'[q].key \in Shown'
               /\ req'[q].step \in {"MarkRows", "ResetGroups", "ResetStats"} =>
                     req'[q].user \in Recipients
               /\ \A k \in req'[q].marked : status'[k] = "UNREAD" /\ RecipientOf[k] = req'[q].user
               /\ req'[q].step = "ResetStats" =>
                     \A k \in req'[q].marked : GroupOf[k] \in req'[q].locked
    <3>1. CASE q = r
      BY <1>2, <2>1, <3>1
    <3>2. CASE q # r
      <4>1. req'[q] = req[q]
        BY <2>1, <3>2
      <4> QED BY <1>2, <4>1 DEF IInv, LocksHold
    <3> QED BY <3>1, <3>2
  <2>3. ASSUME NEW p \in Requests, NEW q \in Requests, p # q
        PROVE  req'[p].marked \cap req'[q].marked = {}
    BY <2>1, <2>3 DEF IInv, LocksHold
  <2> QED BY <2>2, <2>3 DEF LocksHold
<1> QED BY <1>1, <1>2, <1>3, <1>4, CommandStep
LEMMA DoneState ==
    /\ Done \in RequestState /\ Done.step = "Done" /\ Done.locked = {} /\ Done.marked = {}
    /\ Idle \in RequestState /\ Idle.step = "Idle" /\ Idle.locked = {} /\ Idle.marked = {}
    /\ Idle = [step |-> "Idle", key |-> NoKey, wasRead |-> FALSE, user |-> 0,
               locked |-> {}, marked |-> {}]
<1>1. Idle = [step |-> "Idle", key |-> NoKey, wasRead |-> FALSE, user |-> 0,
              locked |-> {}, marked |-> {}]
  BY DEF Idle
<1>2. Done = [Idle EXCEPT !.step = "Done"]
  BY DEF Done
<1>3. Done = [step |-> "Done", key |-> NoKey, wasRead |-> FALSE, user |-> 0,
              locked |-> {}, marked |-> {}]
  BY <1>1, <1>2
<1> QED BY <1>1, <1>3 DEF RequestState, Steps

LEMMA IdleWith ==
    /\ \A k, b : [Idle EXCEPT !.step = "MarkRead", !.key = k, !.wasRead = b]
                = [step |-> "MarkRead", key |-> k, wasRead |-> b, user |-> 0,
                   locked |-> {}, marked |-> {}]
    /\ \A u, gs : [Idle EXCEPT !.step = "MarkRows", !.user = u, !.locked = gs]
                 = [step |-> "MarkRows", key |-> NoKey, wasRead |-> FALSE, user |-> u,
                    locked |-> gs, marked |-> {}]
<1>1. Idle = [step |-> "Idle", key |-> NoKey, wasRead |-> FALSE, user |-> 0,
              locked |-> {}, marked |-> {}]
  BY DEF Idle
<1> HIDE DEF Idle
<1>2. ASSUME NEW k, NEW b
      PROVE  [Idle EXCEPT !.step = "MarkRead", !.key = k, !.wasRead = b]
                = [step |-> "MarkRead", key |-> k, wasRead |-> b, user |-> 0,
                   locked |-> {}, marked |-> {}]
  <2>1. ASSUME NEW y, y = [Idle EXCEPT !.step = "MarkRead", !.key = k, !.wasRead = b]
        PROVE  y = [step |-> "MarkRead", key |-> k, wasRead |-> b, user |-> 0,
                    locked |-> {}, marked |-> {}]
    BY <1>1, <2>1
  <2> QED BY <2>1, Zenon
<1>3. ASSUME NEW u, NEW gs
      PROVE  [Idle EXCEPT !.step = "MarkRows", !.user = u, !.locked = gs]
                 = [step |-> "MarkRows", key |-> NoKey, wasRead |-> FALSE, user |-> u,
                    locked |-> gs, marked |-> {}]
  <2>1. ASSUME NEW y, y = [Idle EXCEPT !.step = "MarkRows", !.user = u, !.locked = gs]
        PROVE  y = [step |-> "MarkRows", key |-> NoKey, wasRead |-> FALSE, user |-> u,
                    locked |-> gs, marked |-> {}]
    BY <1>1, <2>1
  <2> QED BY <2>1, Zenon
<1> QED BY <1>2, <1>3

LEMMA RequestFacts ==
    ASSUME IInv, NEW r \in Requests
    PROVE  /\ req[r] \in RequestState /\ req[r].locked \subseteq Groups
           /\ req[r].marked \subseteq Unread /\ Unread \subseteq Shown /\ Shown \subseteq Keys
           /\ \A q \in Requests \ {r} : req[r].marked \cap req[q].marked = {}
           /\ \A u : GroupsOf(u) \subseteq Groups
BY DEF IInv, TypeOK, LocksHold, RequestState, Unread, Shown, GroupsOf

LEMMA ReadingKeeps ==
    ASSUME IInv, NEW r \in Requests,
           \/ \E k \in Keys : FindNotification(r, k)
           \/ \E u \in Recipients : LockGroups(r, u)
           \/ MarkRows(r) \/ ResetGroups(r) \/ Rollback(r)
    PROVE  IInv'
<1>1. ASSUME NEW k \in Keys, FindNotification(r, k) PROVE IInv'
  <2> DEFINE x == [step |-> "MarkRead", key |-> k, wasRead |-> status[k] = "READ", user |-> 0,
                   locked |-> {}, marked |-> {}]
  <2>1. [Idle EXCEPT !.step = "MarkRead", !.key = k, !.wasRead = status[k] = "READ"] = x
    BY IdleWith
  <2>2. x \in RequestState
    BY DEF RequestState, Steps
  <2>3. x.step = "MarkRead" /\ x.locked = {} /\ x.marked = {} /\ x.key = k
    OBVIOUS
  <2>4. req' = [req EXCEPT ![r] = x] /\ k \in Shown
        /\ UNCHANGED <<queue, consumed, status, total, unread, stats>>
    BY <1>1, <2>1 DEF FindNotification
  <2> HIDE DEF x
  <2> QED BY <2>2, <2>3, <2>4, ReadingStep
<1>2. ASSUME NEW u \in Recipients, LockGroups(r, u) PROVE IInv'
  <2> DEFINE x == [step |-> "MarkRows", key |-> NoKey, wasRead |-> FALSE, user |-> u,
                   locked |-> GroupsOf(u), marked |-> {}]
  <2>1. [Idle EXCEPT !.step = "MarkRows", !.user = u, !.locked = GroupsOf(u)] = x
    BY IdleWith
  <2>2. x \in RequestState
    BY RequestFacts DEF RequestState, Steps
  <2>3. x.step = "MarkRows" /\ x.marked = {} /\ x.user = u
    OBVIOUS
  <2>4. req' = [req EXCEPT ![r] = x]
        /\ UNCHANGED <<queue, consumed, status, total, unread, stats>>
    BY <1>2, <2>1 DEF LockGroups
  <2> HIDE DEF x
  <2> QED BY <2>2, <2>3, <2>4, ReadingStep
<1>3. CASE MarkRows(r)
  <2> DEFINE rows == {k \in Unread : RecipientOf[k] = req[r].user}
             x == [req[r] EXCEPT !.step = "ResetGroups", !.marked = rows]
  <2>1. /\ rows \cap LockedRows = {} /\ req[r].step = "MarkRows"
        /\ UNCHANGED <<queue, consumed, status, total, unread, stats>>
        /\ req' = [req EXCEPT ![r] = x]
    BY <1>3 DEF MarkRows, IInv, TypeOK
  <2>2. rows \in SUBSET Keys /\ \A k \in rows : status[k] = "UNREAD" /\ RecipientOf[k] = req[r].user
    BY DEF Unread
  <2> HIDE DEF rows
  <2>3. x \in RequestState /\ x.step = "ResetGroups" /\ x.marked = rows /\ x.user = req[r].user
    BY <2>2, RequestFacts DEF RequestState, Steps
  <2>4. x.user \in Recipients
    BY <2>1, <2>3 DEF IInv, LocksHold
  <2>5. \A q \in Requests \ {r} : x.marked \cap req[q].marked = {}
    BY <2>1, <2>3 DEF LockedRows
  <2>6. \A k \in x.marked : status[k] = "UNREAD" /\ RecipientOf[k] = x.user
    BY <2>2, <2>3
  <2>7. x.step \notin {"Idle", "Done", "MarkRead", "ResetStats"} /\ x.step = "ResetGroups"
    BY <2>3
  <2> HIDE DEF x
  <2> QED BY <2>1, <2>3, <2>4, <2>5, <2>6, <2>7, ReadingStep
<1>4. CASE ResetGroups(r)
  <2> DEFINE u == req[r].user
             x == [req[r] EXCEPT !.step = "ResetStats", !.locked = GroupsOf(u)]
  <2>1. /\ req[r].step = "ResetGroups" /\ req' = [req EXCEPT ![r] = x]
        /\ UNCHANGED <<queue, consumed, status, total, unread, stats>>
    BY <1>4 DEF ResetGroups, GroupsToReset, IInv, TypeOK
  <2>2. /\ x \in RequestState /\ x.step = "ResetStats" /\ x.locked = GroupsOf(u)
        /\ x.marked = req[r].marked /\ x.user = u
    BY RequestFacts DEF RequestState, Steps
  <2>3. u \in Recipients /\ \A k \in req[r].marked : status[k] = "UNREAD" /\ RecipientOf[k] = u
    BY <2>1 DEF IInv, LocksHold
  <2>4. ASSUME NEW k \in req[r].marked PROVE GroupOf[k] \in GroupsOf(u)
    <3>1. k \in Shown /\ k \in Keys /\ GroupOf[k] \in Groups /\ k \in InGroup[GroupOf[k]]
      BY RequestFacts, KeyFacts DEF InGroup
    <3> DEFINE P == Shown \cap InGroup[GroupOf[k]]
    <3>2. P \in SUBSET Keys /\ k \in P
      BY <3>1 DEF Shown
    <3> HIDE DEF P
    <3>3. Cardinality(P) \in Nat /\ Cardinality(P \ {k}) \in Nat
          /\ Cardinality(P \ {k}) = Cardinality(P) - 1
      BY <3>2, Sizes
    <3>4. total[GroupOf[k]] = Cardinality(P)
      BY <3>1 DEF P, IInv, GroupTotalsExact
    <3> QED BY <2>3, <3>1, <3>3, <3>4 DEF GroupsOf
  <2>5. \A q \in Requests \ {r} : x.marked \cap req[q].marked = {}
    BY <2>2, RequestFacts
  <2>6. \A k \in x.marked : /\ status[k] = "UNREAD" /\ RecipientOf[k] = x.user
                            /\ GroupOf[k] \in x.locked
    BY <2>2, <2>3, <2>4
  <2>7. x.step \notin {"Idle", "Done", "MarkRead"} /\ x.user \in Recipients
    BY <2>2, <2>3
  <2> HIDE DEF x
  <2> QED BY <2>1, <2>2, <2>5, <2>6, <2>7, ReadingStep
<1>5. CASE Rollback(r)
  BY <1>5, DoneState, ReadingStep DEF Rollback
<1> QED BY <1>1, <1>2, <1>3, <1>4, <1>5

\* The commit of a command that marks the rows R, with counters that fit what is left.
LEMMA ReadRowsStep ==
    ASSUME IInv, NEW r \in Requests, NEW R \in SUBSET Shown,
           \A q \in Requests \ {r} : R \cap req[q].marked = {},
           \A k \in Keys : status'[k] = IF k \in R THEN "READ" ELSE status[k],
           status' \in [Keys -> {"NONE", "UNREAD", "READ"}],
           unread' \in [Groups -> Nat], stats' \in [Recipients -> [Categories -> Nat]],
           \A g \in Groups : unread'[g] <= Cardinality((Unread \ R) \cap InGroup[g]),
           \A u \in Recipients, c \in Categories :
               stats'[u][c] <= Cardinality((Unread \ R) \cap InCategory(u, c)),
           req' = [req EXCEPT ![r] = Done], UNCHANGED <<queue, consumed, total>>
    PROVE  IInv'
<1>1. TypeOK'
  BY DoneState DEF IInv, TypeOK, queue
<1>2. Shown' = Shown /\ Unread' = Unread \ R
  BY DEF Shown, Unread
<1>3. NeverOverstated'
  BY <1>2 DEF NeverOverstated
<1>4. \A q \in Requests : req'[q] = IF q = r THEN Done ELSE req[q]
  BY DEF IInv, TypeOK
<1>5. ASSUME NEW q \in Requests
      PROVE  /\ req'[q].step \in {"Idle", "Done", "MarkRead"} => req'[q].locked = {}
             /\ req'[q].step \notin {"ResetGroups", "ResetStats"} => req'[q].marked = {}
             /\ req'[q].step = "MarkRead" => req'[q].key \in Shown'
             /\ req'[q].step \in {"MarkRows", "ResetGroups", "ResetStats"} =>
                   req'[q].user \in Recipients
             /\ \A k \in req'[q].marked : status'[k] = "UNREAD" /\ RecipientOf[k] = req'[q].user
             /\ req'[q].step = "ResetStats" =>
                   \A k \in req'[q].marked : GroupOf[k] \in req'[q].locked
  <2>1. CASE q = r
    BY <1>4, <2>1, DoneState
  <2>2. CASE q # r
    <3>1. req'[q] = req[q] /\ req[q].marked \subseteq Keys
      BY <1>4, <2>2, RequestFacts
    <3>2. \A k \in req[q].marked : status'[k] = status[k]
      BY <2>2, <3>1
    <3> QED BY <1>2, <3>1, <3>2 DEF IInv, LocksHold
  <2> QED BY <2>1, <2>2
<1>6. ASSUME NEW p \in Requests, NEW q \in Requests, p # q
      PROVE  req'[p].marked \cap req'[q].marked = {}
  BY <1>4, <1>6, DoneState DEF IInv, LocksHold
<1>7. LocksHold'
  BY <1>5, <1>6 DEF LocksHold
<1> QED BY <1>1, <1>2, <1>3, <1>7, CommandStep

LEMMA MarkReadKeeps ==
    ASSUME IInv, NEW r \in Requests, MarkRead(r)
    PROVE  IInv'
<1> SUFFICES ASSUME NEW k, k = req[r].key PROVE IInv'
  OBVIOUS
<1> DEFINE h == GroupOf[k]
           v == RecipientOf[k]
           d == CategoryOf[k]
<1>1. /\ k \in Shown /\ k \in Keys /\ h \in Groups /\ v \in Recipients /\ d \in Categories
      /\ k \in InGroup[h] /\ k \in InCategory(v, d)
  BY RequestFacts, KeyFacts DEF MarkRead, IInv, LocksHold, InGroup, InCategory
<1>2. CASE req[r].wasRead
  BY <1>2, DoneState, ReadingStep DEF MarkRead
<1>3. CASE ~req[r].wasRead
  <2>1. /\ k \notin LockedRows /\ status' = [status EXCEPT ![k] = "READ"]
        /\ unread' = [unread EXCEPT ![h] = Less(unread[h], 1)]
        /\ stats' = [stats EXCEPT ![v][d] = Less(@, 1)]
        /\ req' = [req EXCEPT ![r] = Done] /\ UNCHANGED <<queue, consumed, total>>
    BY <1>3 DEF MarkRead, GroupLess, Decremented
  <2>2. /\ status' \in [Keys -> {"NONE", "UNREAD", "READ"}]
        /\ \A j \in Keys : status'[j] = IF j \in {k} THEN "READ" ELSE status[j]
    BY <1>1, <2>1 DEF IInv, TypeOK
  <2>3. unread' \in [Groups -> Nat] /\ stats' \in [Recipients -> [Categories -> Nat]]
    BY <1>1, <2>1 DEF IInv, TypeOK, Less
  <2>4. \A q \in Requests \ {r} : {k} \cap req[q].marked = {}
    BY <2>1 DEF LockedRows
  <2>5. ASSUME NEW P \in SUBSET Keys
        PROVE  /\ Cardinality(Unread \cap P) \in Nat /\ Cardinality((Unread \ {k}) \cap P) \in Nat
               /\ \/ Cardinality((Unread \ {k}) \cap P) = Cardinality(Unread \cap P)
                  \/ k \in P /\ Cardinality((Unread \ {k}) \cap P) = Cardinality(Unread \cap P) - 1
    <3> DEFINE Q == Unread \cap P
    <3>1. Q \in SUBSET Keys /\ (Unread \ {k}) \cap P = Q \ {k} /\ (k \notin Q => Q \ {k} = Q)
          /\ (k \in Q => k \in P)
      OBVIOUS
    <3> HIDE DEF Q
    <3>2. Cardinality(Q) \in Nat /\ Cardinality(Q \ {k}) \in Nat
          /\ (k \in Q => Cardinality(Q \ {k}) = Cardinality(Q) - 1)
      BY <3>1, Sizes
    <3> QED BY <3>1, <3>2 DEF Q
  <2>6. ASSUME NEW g \in Groups
        PROVE  unread'[g] <= Cardinality((Unread \ {k}) \cap InGroup[g])
    <3>1. InGroup[g] \in SUBSET Keys /\ (k \in InGroup[g] <=> g = h)
      BY <1>1 DEF InGroup
    <3>2. unread'[g] = (IF g = h THEN Less(unread[g], 1) ELSE unread[g])
          /\ unread[g] \in Nat /\ unread[g] <= Cardinality(Unread \cap InGroup[g])
      BY <2>1 DEF IInv, TypeOK, NeverOverstated
    <3> DEFINE a == Cardinality(Unread \cap InGroup[g])
               b == Cardinality((Unread \ {k}) \cap InGroup[g])
    <3>3. a \in Nat /\ b \in Nat /\ (b = a \/ (g = h /\ b = a - 1))
      BY <2>5, <3>1
    <3> HIDE DEF a, b
    <3> QED BY <3>2, <3>3 DEF Less, a, b
  <2>7. ASSUME NEW u \in Recipients, NEW c \in Categories
        PROVE  stats'[u][c] <= Cardinality((Unread \ {k}) \cap InCategory(u, c))
    <3>1. InCategory(u, c) \in SUBSET Keys /\ (k \in InCategory(u, c) <=> u = v /\ c = d)
      BY <1>1 DEF InCategory
    <3>2. stats'[u][c] = (IF u = v /\ c = d THEN Less(stats[u][c], 1) ELSE stats[u][c])
          /\ stats[u][c] \in Nat /\ stats[u][c] <= Cardinality(Unread \cap InCategory(u, c))
      BY <2>1 DEF IInv, TypeOK, NeverOverstated
    <3> QED BY <2>5, <3>1, <3>2 DEF Less
  <2>8. {k} \in SUBSET Shown
    BY <1>1
  <2> HIDE DEF h, v, d
  <2> QED BY <2>1, <2>2, <2>3, <2>4, <2>6, <2>7, <2>8, ReadRowsStep
<1> QED BY <1>2, <1>3

\* What is left of a set of unread notifications after some of them are marked.
LEMMA SizesLeft ==
    ASSUME IInv, NEW R \in SUBSET Unread, NEW P \in SUBSET Keys
    PROVE  /\ Cardinality(Unread \cap P) \in Nat /\ Cardinality((Unread \ R) \cap P) \in Nat
           /\ R \cap P = {} => Cardinality((Unread \ R) \cap P) = Cardinality(Unread \cap P)
           /\ R \subseteq P => /\ Cardinality(R) \in Nat
                              /\ Cardinality((Unread \ R) \cap P) =
                                    Cardinality(Unread \cap P) - Cardinality(R)
<1> DEFINE Q == Unread \cap P
<1>1. Q \in SUBSET Keys /\ R \in SUBSET Keys /\ (Unread \ R) \cap P = Q \ R
      /\ (R \cap P = {} => Q \ R = Q) /\ (R \subseteq P => Q \cap R = R)
  BY DEF Unread
<1> HIDE DEF Q
<1>2. IsFiniteSet(Q) /\ Cardinality(Q) \in Nat /\ Cardinality(Q \ R) \in Nat
      /\ Cardinality(R) \in Nat
  BY <1>1, Sizes
<1>3. Cardinality(Q \ R) = Cardinality(Q) - Cardinality(Q \cap R)
  BY <1>2, FS_Difference
<1> QED BY <1>1, <1>2, <1>3 DEF Q

LEMMA MarkGroupReadKeeps ==
    ASSUME IInv, NEW r \in Requests, NEW h \in Groups, MarkGroupRead(r, h)
    PROVE  IInv'
<1> DEFINE R == Unread \cap InGroup[h]
           k == CHOOSE k \in InGroup[h] : TRUE
           n == Cardinality(R)
<1> SUFFICES ASSUME NEW v, v = RecipientOf[k], NEW d, d = CategoryOf[k] PROVE IInv'
  OBVIOUS
<1>1. /\ R \cap LockedRows = {} /\ total[h] > 0
      /\ status' = [j \in Keys |-> IF j \in R THEN "READ" ELSE status[j]]
      /\ unread' = [unread EXCEPT ![h] = 0]
      /\ stats' = [stats EXCEPT ![v][d] = Less(@, n)]
      /\ req' = [req EXCEPT ![r] = Done] /\ UNCHANGED <<queue, consumed, total>>
  BY DEF MarkGroupRead, Decremented
<1>2. k \in InGroup[h] /\ k \in Keys /\ v \in Recipients /\ d \in Categories
  <2>1. \E j \in Keys : GroupOf[j] = h
    <3>1. PICK note \in Notes : note.group = h
      BY DEF Groups
    <3>2. PICK m \in Stored : Asks[m].group = h
      BY <3>1 DEF Notes
    <3> QED BY <3>2, KeyFacts
  <2>2. \E j : j \in InGroup[h]
    BY <2>1 DEF InGroup
  <2>3. k \in InGroup[h]
    BY <2>2
  <2>4. k \in Keys
    BY <2>3 DEF InGroup
  <2> HIDE DEF k
  <2> QED BY <2>3, <2>4, KeyFacts
<1>3. \A j \in InGroup[h] : j \in InCategory(v, d)
  <2>1. GroupOf[k] = h
    BY <1>2 DEF InGroup
  <2>2. \A j \in InGroup[h] : j \in Keys /\ GroupOf[j] = h
    BY DEF InGroup
  <2> HIDE DEF k
  <2> QED BY <1>2, <2>1, <2>2, KeyFacts DEF InCategory
<1>4. R \in SUBSET Unread /\ R \in SUBSET Shown /\ R \subseteq InGroup[h]
  BY RequestFacts
<1> HIDE DEF R, k
<1>5. /\ status' \in [Keys -> {"NONE", "UNREAD", "READ"}]
      /\ \A j \in Keys : status'[j] = IF j \in R THEN "READ" ELSE status[j]
  BY <1>1 DEF IInv, TypeOK
<1>6. n \in Nat
  BY <1>4, Sizes DEF Unread
<1>7. unread' \in [Groups -> Nat] /\ stats' \in [Recipients -> [Categories -> Nat]]
  <2> HIDE DEF n
  <2> QED BY <1>1, <1>2, <1>6 DEF IInv, TypeOK, Less
<1>8. \A q \in Requests \ {r} : R \cap req[q].marked = {}
  BY <1>1 DEF LockedRows
<1>9. ASSUME NEW g \in Groups
      PROVE  unread'[g] <= Cardinality((Unread \ R) \cap InGroup[g])
  <2>1. InGroup[g] \in SUBSET Keys /\ (g # h => R \cap InGroup[g] = {})
    BY <1>4 DEF InGroup
  <2>2. unread'[g] = (IF g = h THEN 0 ELSE unread[g])
        /\ unread[g] \in Nat /\ unread[g] <= Cardinality(Unread \cap InGroup[g])
    BY <1>1 DEF IInv, TypeOK, NeverOverstated
  <2>3. /\ Cardinality((Unread \ R) \cap InGroup[g]) \in Nat
        /\ g # h => Cardinality((Unread \ R) \cap InGroup[g]) = Cardinality(Unread \cap InGroup[g])
    BY <1>4, <2>1, SizesLeft
  <2> QED BY <2>2, <2>3
<1>10. ASSUME NEW u \in Recipients, NEW c \in Categories
       PROVE  stats'[u][c] <= Cardinality((Unread \ R) \cap InCategory(u, c))
  <2>1. /\ InCategory(u, c) \in SUBSET Keys
        /\ u = v /\ c = d => R \subseteq InCategory(u, c)
        /\ ~(u = v /\ c = d) => R \cap InCategory(u, c) = {}
    BY <1>3, <1>4 DEF InCategory
  <2>2. stats'[u][c] = (IF u = v /\ c = d THEN Less(stats[u][c], n) ELSE stats[u][c])
        /\ stats[u][c] \in Nat /\ stats[u][c] <= Cardinality(Unread \cap InCategory(u, c))
    BY <1>1, <1>2 DEF IInv, TypeOK, NeverOverstated
  <2>3. /\ Cardinality((Unread \ R) \cap InCategory(u, c)) \in Nat
        /\ Cardinality(Unread \cap InCategory(u, c)) \in Nat
        /\ u = v /\ c = d => Cardinality((Unread \ R) \cap InCategory(u, c)) =
                              Cardinality(Unread \cap InCategory(u, c)) - n
        /\ ~(u = v /\ c = d) => Cardinality((Unread \ R) \cap InCategory(u, c)) =
                                 Cardinality(Unread \cap InCategory(u, c))
    BY <1>4, <2>1, SizesLeft
  <2> HIDE DEF n
  <2> QED BY <1>6, <2>2, <2>3 DEF Less
<1> QED BY <1>1, <1>4, <1>5, <1>7, <1>8, <1>9, <1>10, ReadRowsStep

LEMMA ResetStatsKeeps ==
    ASSUME IInv, NEW r \in Requests, ResetStats(r)
    PROVE  IInv'
<1> SUFFICES ASSUME NEW x, x = req[r] PROVE IInv'
  OBVIOUS
<1> DEFINE R == x.marked
<1>1. /\ status' = [j \in Keys |-> IF j \in R THEN "READ" ELSE status[j]]
      /\ unread' = [g \in Groups |-> IF g \in x.locked THEN 0 ELSE unread[g]]
      /\ stats' = [stats EXCEPT ![x.user] = [c \in Categories |-> 0]]
      /\ req' = [req EXCEPT ![r] = Done] /\ UNCHANGED <<queue, consumed, total>>
      /\ x.step = "ResetStats"
  BY DEF ResetStats
<1>2. /\ x.user \in Recipients /\ R \in SUBSET Unread /\ R \in SUBSET Shown
      /\ \A j \in R : RecipientOf[j] = x.user /\ GroupOf[j] \in x.locked
      /\ \A q \in Requests \ {r} : R \cap req[q].marked = {}
  <2>1. R \in SUBSET Unread /\ R \in SUBSET Shown
        /\ \A q \in Requests \ {r} : R \cap req[q].marked = {}
    BY RequestFacts
  <2>2. x.user \in Recipients /\ \A j \in R : RecipientOf[j] = x.user /\ GroupOf[j] \in x.locked
    BY <1>1 DEF IInv, LocksHold
  <2> QED BY <2>1, <2>2
<1> HIDE DEF R
<1>3. /\ status' \in [Keys -> {"NONE", "UNREAD", "READ"}]
      /\ \A j \in Keys : status'[j] = IF j \in R THEN "READ" ELSE status[j]
  BY <1>1 DEF IInv, TypeOK
<1>4. unread' \in [Groups -> Nat] /\ stats' \in [Recipients -> [Categories -> Nat]]
  BY <1>1, <1>2 DEF IInv, TypeOK
<1>5. ASSUME NEW g \in Groups
      PROVE  unread'[g] <= Cardinality((Unread \ R) \cap InGroup[g])
  <2>1. InGroup[g] \in SUBSET Keys /\ (g \notin x.locked => R \cap InGroup[g] = {})
    BY <1>2 DEF InGroup
  <2>2. unread'[g] = (IF g \in x.locked THEN 0 ELSE unread[g])
        /\ unread[g] \in Nat /\ unread[g] <= Cardinality(Unread \cap InGroup[g])
    BY <1>1 DEF IInv, TypeOK, NeverOverstated
  <2>3. /\ Cardinality((Unread \ R) \cap InGroup[g]) \in Nat
        /\ g \notin x.locked =>
              Cardinality((Unread \ R) \cap InGroup[g]) = Cardinality(Unread \cap InGroup[g])
    BY <1>2, <2>1, SizesLeft
  <2> QED BY <2>2, <2>3
<1>6. ASSUME NEW u \in Recipients, NEW c \in Categories
      PROVE  stats'[u][c] <= Cardinality((Unread \ R) \cap InCategory(u, c))
  <2>1. InCategory(u, c) \in SUBSET Keys /\ (u # x.user => R \cap InCategory(u, c) = {})
    BY <1>2 DEF InCategory
  <2>2. stats'[u][c] = (IF u = x.user THEN 0 ELSE stats[u][c])
        /\ stats[u][c] \in Nat /\ stats[u][c] <= Cardinality(Unread \cap InCategory(u, c))
    BY <1>1, <1>2 DEF IInv, TypeOK, NeverOverstated
  <2>3. /\ Cardinality((Unread \ R) \cap InCategory(u, c)) \in Nat
        /\ u # x.user => Cardinality((Unread \ R) \cap InCategory(u, c)) =
                           Cardinality(Unread \cap InCategory(u, c))
    BY <1>2, <2>1, SizesLeft
  <2> QED BY <2>2, <2>3
<1> QED BY <1>1, <1>2, <1>3, <1>4, <1>5, <1>6, ReadRowsStep

-----------------------------------------------------------------------------
(* The theorems *)

LEMMA InitHolds == Init => IInv
<1> SUFFICES ASSUME Init PROVE IInv
  OBVIOUS
<1>1. TypeOK
  BY States, DoneState, InboxAssumption DEF Init, TypeOK
<1>2. Shown = {}
  BY DEF Init, Shown
<1>3. HandlersServe
  BY States DEF Init, HandlersServe
<1>4. \A P : Shown \cap P = {}
  BY <1>2
<1>5. GroupTotalsExact
  BY <1>4, FS_EmptySet DEF Init, GroupTotalsExact
<1>6. LocksHold
  BY DoneState DEF Init, LocksHold
<1>7. NeverOverstated
  <2>1. \A P \in SUBSET Keys : Cardinality(Unread \cap P) \in Nat
    BY Sizes DEF Unread
  <2>2. /\ \A g \in Groups : unread[g] = 0 /\ InGroup[g] \in SUBSET Keys
        /\ \A u \in Recipients, c \in Categories : stats[u][c] = 0 /\ InCategory(u, c) \in SUBSET Keys
    BY DEF Init, InGroup, InCategory
  <2>3. \A n \in Nat : 0 <= n
    OBVIOUS
  <2> QED BY <2>1, <2>2, <2>3 DEF NeverOverstated
<1> QED BY <1>1, <1>3, <1>5, <1>6, <1>7 DEF IInv

LEMMA StepHolds == IInv /\ [Next]_vars => IInv'
<1> SUFFICES ASSUME IInv, [Next]_vars PROVE IInv'
  OBVIOUS
<1>1. CASE UNCHANGED vars
  <2>1. UNCHANGED <<queue, consumed, status, total, unread, stats, req>>
    BY <1>1 DEF vars
  <2>2. TypeOK'
    BY <2>1 DEF queue, IInv, TypeOK
  <2>3. Shown' = Shown /\ Unread' = Unread
    BY <2>1 DEF Shown, Unread
  <2>4. LocksHold' /\ NeverOverstated'
    BY <2>1, <2>3 DEF IInv, LocksHold, NeverOverstated
  <2> QED BY <2>1, <2>2, <2>3, <2>4, CommandStep
<1>2. ASSUME NEW c \in Consumers, Consume(c) PROVE IInv'
  BY <1>2, QueueKeeps, CreateKeeps DEF Consume
<1>3. ASSUME NEW m \in Messages, Publish(m) PROVE IInv'
  BY <1>3, PublishKeeps
<1>4. ASSUME NEW r \in Requests, Mark(r) PROVE IInv'
  BY <1>4, ReadingKeeps, MarkReadKeeps, MarkGroupReadKeeps, ResetStatsKeeps DEF Mark, Proceed
<1> QED BY <1>1, <1>2, <1>3, <1>4 DEF Next

\* The inductive invariant holds: a handler that is about to ack has served its event, and
\* the rows a command has marked stay unread and locked until its commit.
THEOREM Invariant == Spec => []IInv
BY InitHolds, StepHolds, PTL DEF Spec

\* No event is acked before its notification is stored or the dead-letter queue has it,
\* whatever is redelivered, fails after its commit or is lost with a channel.
THEOREM AckedAreServed == Spec => []AckedEventsServed
<1>1. IInv => AckedEventsServed
  BY DEF IInv, HandlersServe, AckedEventsServed
<1> QED BY <1>1, Invariant, PTL

\* The total of a group is the number of its notifications, however often their events
\* are published and delivered.
THEOREM TotalsExact == Spec => []GroupTotalsExact
<1>1. IInv => GroupTotalsExact
  BY DEF IInv
<1> QED BY <1>1, Invariant, PTL

\* No unread counter of a group or a recipient exceeds the unread notifications, whichever
\* commands race with each other and with the consumers.
THEOREM CountersPromiseNothing == Spec => []NeverOverstated
<1>1. IInv => NeverOverstated
  BY DEF IInv
<1> QED BY <1>1, Invariant, PTL
=============================================================================
