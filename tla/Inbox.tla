-------------------------------- MODULE Inbox --------------------------------
(***************************************************************************)
(* The notification service's inbox: the consumers of integration events,  *)
(* the transaction that stores a notification with the counters of its     *)
(* group and its recipient, and the three commands that mark as read.      *)
(*                                                                         *)
(* Every transaction is at READ COMMITTED.  What it reads without a lock   *)
(* is a step; the rest is one step at the commit, since all it writes      *)
(* stays locked until then and counters change relative to their newest    *)
(* value.  Marking all as read spans several statements that each see      *)
(* another snapshot, so each is a step.                                    *)
(***************************************************************************)
EXTENDS InteractionEvents, Integers, FiniteSets

CONSTANTS
    Messages,    \* events their producers publish, each at least once
    Event,       \* what each of them says
    Consumers,   \* goroutines that handle deliveries
    Requests,    \* commands that mark as read, each issued once (bounds the model)
    MaxCopies,   \* how often a producer publishes one event (bounds the model)
    Faults,      \* the faults the environment may inject
    MaxFaults,   \* how many it may inject (bounds the model)
    NoMessage, NoKey

FaultKinds ==
    { "crash",   \* a consumer loses its channel, with what it has not acked
      "store",   \* a transaction fails, perhaps after it was committed
      "dlq" }    \* the dead-letter exchange does not confirm

Asks == [m \in Messages |-> Outcome(Event[m])]
Stored == {m \in Messages : Asks[m].action = "store"}
Notes == {Asks[m] : m \in Stored}
Keys == {n.key : n \in Notes}
Groups == {n.group : n \in Notes}
Recipients == {n.recipient : n \in Notes}
Categories == {n.category : n \in Notes}

\* A dedupe key belongs to one group, and a group to one recipient and category.
NoteOf(k) == CHOOSE n \in Notes : n.key = k
GroupOf == [k \in Keys |-> NoteOf(k).group]
RecipientOf == [k \in Keys |-> NoteOf(k).recipient]
CategoryOf == [k \in Keys |-> NoteOf(k).category]
InGroup == [g \in Groups |-> {k \in Keys : GroupOf[k] = g}]

ASSUME InboxAssumption ==
    /\ IsFiniteSet(Messages)
    /\ \A m \in Messages : Asks[m].action # "plan"
    /\ \A n1, n2 \in Notes :
          /\ n1.key = n2.key => n1 = n2
          /\ n1.group = n2.group => n1.recipient = n2.recipient /\ n1.category = n2.category
    /\ MaxCopies \in Nat /\ MaxFaults \in Nat /\ Faults \subseteq FaultKinds
    /\ NoMessage \notin Messages /\ NoKey \notin Keys

VARIABLES
    ready,      \* copies of a message the broker has to deliver
    sent,       \* times its producer has published it
    consumer,   \* what a consumer handles, and how far it is
    acked,      \* messages some copy of which was acked
    dead,       \* messages in the dead-letter queue
    faults,     \* how many faults there have been
    consumed,   \* consumed_events
    status,     \* notifications: NONE, UNREAD or READ for each dedupe key
    total,      \* notification_group_state.total_count, 0 before its row exists
    unread,     \* notification_group_state.unread_count
    stats,      \* notification_stats: unread per recipient and category
    req         \* the commands and what they have read

queue == <<ready, sent, consumer, acked, dead, faults>>
vars == <<queue, consumed, status, total, unread, stats, req>>

Waiting == [step |-> "Waiting", message |-> NoMessage]
ConsumerState == [step : {"Waiting", "Handle", "DeadLetter", "Ack"},
                  message : Messages \cup {NoMessage}]

Idle == [step |-> "Idle", key |-> NoKey, wasRead |-> FALSE, user |-> 0,
         locked |-> {}, marked |-> {}]
Done == [Idle EXCEPT !.step = "Done"]
Steps == {"Idle", "Done", "MarkRead", "MarkRows", "ResetGroups", "ResetStats"}
RequestState == [step : Steps, key : Keys \cup {NoKey}, wasRead : BOOLEAN,
                 user : Recipients \cup {0}, locked : SUBSET Groups, marked : SUBSET Keys]

Shown == {k \in Keys : status[k] # "NONE"}
Unread == {k \in Keys : status[k] = "UNREAD"}
InCategory(u, c) == {k \in Keys : RecipientOf[k] = u /\ CategoryOf[k] = c}
GroupsOf(u) == {g \in Groups : total[g] > 0 /\ \E k \in InGroup[g] : RecipientOf[k] = u}

\* Rows another transaction has locked; whoever needs one waits.
LockedGroups == UNION {req[r].locked : r \in Requests}
LockedRows == UNION {req[r].marked : r \in Requests}

Less(n, d) == IF n > d THEN n - d ELSE 0

Init ==
    /\ ready = [m \in Messages |-> 0] /\ sent = [m \in Messages |-> 0]
    /\ consumer = [c \in Consumers |-> Waiting]
    /\ acked = {} /\ dead = {} /\ faults = 0 /\ consumed = {}
    /\ status = [k \in Keys |-> "NONE"]
    /\ total = [g \in Groups |-> 0] /\ unread = [g \in Groups |-> 0]
    /\ stats = [u \in Recipients |-> [c \in Categories |-> 0]]
    /\ req = [r \in Requests |-> Idle]

-----------------------------------------------------------------------------
(* The consumers *)

Publish(m) ==
    /\ sent[m] < MaxCopies
    /\ ready' = [ready EXCEPT ![m] = @ + 1] /\ sent' = [sent EXCEPT ![m] = @ + 1]
    /\ UNCHANGED <<consumer, acked, dead, faults, consumed, status, total, unread, stats, req>>

Receive(c, m) ==
    /\ consumer[c].step = "Waiting" /\ ready[m] > 0
    /\ consumer' = [consumer EXCEPT ![c] = [step |-> "Handle", message |-> m]]
    /\ ready' = [ready EXCEPT ![m] = @ - 1]
    /\ UNCHANGED <<sent, acked, dead, faults, consumed, status, total, unread, stats, req>>

Fault(kind) == kind \in Faults /\ faults < MaxFaults /\ faults' = faults + 1

\* Nack(requeue), and what the broker does when a channel closes
Requeue(c) ==
    /\ consumer' = [consumer EXCEPT ![c] = Waiting]
    /\ ready' = [ready EXCEPT ![consumer[c].message] = @ + 1]
    /\ UNCHANGED <<sent, acked, dead>>

WrongFailed(c) ==
    /\ consumer' = [consumer EXCEPT ![c].step = "Ack"]
    /\ UNCHANGED <<ready, sent, acked, dead>>

WrongFailedDropped(c) ==
    /\ consumer' = [consumer EXCEPT ![c] = Waiting]
    /\ UNCHANGED <<ready, sent, acked, dead>>

Failed(c) == Requeue(c)

Handled(c, step) ==
    /\ consumer' = [consumer EXCEPT ![c].step = step]
    /\ UNCHANGED <<ready, sent, acked, dead, faults>>

\* An event that asks for nothing is acked and not recorded.
Ignore(c) ==
    LET m == consumer[c].message IN
    /\ consumer[c].step = "Handle" /\ Asks[m].action \in {"noop", "dead_letter"}
    /\ Handled(c, IF Asks[m].action = "noop" THEN "Ack" ELSE "DeadLetter")
    /\ UNCHANGED <<consumed, status, total, unread, stats, req>>

WrongIsNew(k) == TRUE
IsNew(k) == status[k] = "NONE"

\* Insert ON CONFLICT DO NOTHING; only a row that was inserted is counted.
Insert(k) ==
    IF IsNew(k)
    THEN /\ status' = [status EXCEPT ![k] = "UNREAD"]
         /\ total' = [total EXCEPT ![GroupOf[k]] = @ + 1]
         /\ unread' = [unread EXCEPT ![GroupOf[k]] = @ + 1]
         /\ stats' = [stats EXCEPT ![RecipientOf[k]][CategoryOf[k]] = @ + 1]
    ELSE UNCHANGED <<status, total, unread, stats>>

\* An event consumed before commits nothing and is acked.
CreateInteractionNotification(c) ==
    LET m == consumer[c].message IN
    /\ consumer[c].step = "Handle" /\ m \in Stored
    /\ m \notin consumed => Asks[m].group \notin LockedGroups
    /\ consumed' = consumed \cup {m}
    /\ IF m \in consumed THEN UNCHANGED <<status, total, unread, stats>>
                         ELSE Insert(Asks[m].key)
    /\ \/ Handled(c, "Ack")
       \/ Fault("store") /\ Failed(c)
    /\ UNCHANGED req

StoreFails(c) ==
    /\ Fault("store") /\ consumer[c].step = "Handle"
    /\ consumer[c].message \in Stored
    /\ Failed(c)
    /\ UNCHANGED <<consumed, status, total, unread, stats, req>>

PublishDeadLetter(c) ==
    /\ consumer[c].step = "DeadLetter"
    /\ \/ /\ dead' = dead \cup {consumer[c].message}
          /\ consumer' = [consumer EXCEPT ![c].step = "Ack"]
          /\ UNCHANGED <<ready, sent, acked, faults>>
       \/ Fault("dlq") /\ Requeue(c)
    /\ UNCHANGED <<consumed, status, total, unread, stats, req>>

Ack(c) ==
    /\ consumer[c].step = "Ack"
    /\ acked' = acked \cup {consumer[c].message}
    /\ consumer' = [consumer EXCEPT ![c] = Waiting]
    /\ UNCHANGED <<ready, sent, dead, faults, consumed, status, total, unread, stats, req>>

Crash(c) ==
    /\ Fault("crash") /\ consumer[c].step # "Waiting" /\ Requeue(c)
    /\ UNCHANGED <<consumed, status, total, unread, stats, req>>

Consume(c) ==
    \/ \E m \in Messages : Receive(c, m)
    \/ Ignore(c) \/ CreateInteractionNotification(c) \/ StoreFails(c)
    \/ PublishDeadLetter(c) \/ Ack(c) \/ Crash(c)

-----------------------------------------------------------------------------
(* Marking as read *)

\* UPDATE of the statistics of a recipient by n of one category.  The column
\* unread_total loses n as well, never going below 0, and must stay the sum of the
\* others, or the transaction fails.
Decrementable(u, c, n) ==
    stats[u][c] >= n \/ \A d \in Categories \ {c} : stats[u][d] = 0
Decremented(u, c, n) == [stats EXCEPT ![u][c] = Less(@, n)]

\* The row is read before the group is locked.
FindNotification(r, k) ==
    /\ req[r].step = "Idle" /\ k \in Shown
    /\ req' = [req EXCEPT ![r] = [Idle EXCEPT
          !.step = "MarkRead", !.key = k, !.wasRead = status[k] = "READ"]]
    /\ UNCHANGED <<queue, consumed, status, total, unread, stats>>

GroupLess(g) == Less(unread[g], 1)

MarkRead(r) ==
    LET k == req[r].key
        u == RecipientOf[k]
        c == CategoryOf[k]
    IN
    /\ req[r].step = "MarkRead" /\ GroupOf[k] \notin LockedGroups
    /\ IF req[r].wasRead
       THEN UNCHANGED <<status, unread, stats>>
       ELSE /\ k \notin LockedRows /\ Decrementable(u, c, 1)
            /\ status' = [status EXCEPT ![k] = "READ"]
            /\ unread' = [unread EXCEPT ![GroupOf[k]] = GroupLess(GroupOf[k])]
            /\ stats' = Decremented(u, c, 1)
    /\ req' = [req EXCEPT ![r] = Done]
    /\ UNCHANGED <<queue, consumed, total>>

\* One transaction that begins by locking the group.
MarkGroupRead(r, g) ==
    LET changed == Unread \cap InGroup[g]
        k == CHOOSE k \in InGroup[g] : TRUE
        n == Cardinality(changed)
    IN
    /\ req[r].step = "Idle" /\ total[g] > 0
    /\ g \notin LockedGroups /\ changed \cap LockedRows = {}
    /\ n > 0 => Decrementable(RecipientOf[k], CategoryOf[k], n)
    /\ status' = [j \in Keys |-> IF j \in changed THEN "READ" ELSE status[j]]
    /\ unread' = [unread EXCEPT ![g] = 0]
    /\ stats' = Decremented(RecipientOf[k], CategoryOf[k], n)
    /\ req' = [req EXCEPT ![r] = Done]
    /\ UNCHANGED <<queue, consumed, total>>

\* SELECT .. FOR UPDATE of the groups that exist now, once they are all free
LockGroups(r, u) ==
    /\ req[r].step = "Idle" /\ GroupsOf(u) \cap LockedGroups = {}
    /\ req' = [req EXCEPT ![r] = [Idle EXCEPT
          !.step = "MarkRows", !.user = u, !.locked = GroupsOf(u)]]
    /\ UNCHANGED <<queue, consumed, status, total, unread, stats>>

\* The rows to be marked; the others' snapshots do not show it before the commit.
MarkRows(r) ==
    LET rows == {k \in Unread : RecipientOf[k] = req[r].user} IN
    /\ req[r].step = "MarkRows" /\ rows \cap LockedRows = {}
    /\ req' = [req EXCEPT ![r].step = "ResetGroups", ![r].marked = rows]
    /\ UNCHANGED <<queue, consumed, status, total, unread, stats>>

WrongGroupsToReset(r) == req[r].locked
GroupsToReset(r) == GroupsOf(req[r].user)

\* The groups that exist by now, whether locked above or not
ResetGroups(r) ==
    /\ req[r].step = "ResetGroups"
    /\ \A q \in Requests \ {r} : GroupsToReset(r) \cap req[q].locked = {}
    /\ req' = [req EXCEPT ![r].step = "ResetStats", ![r].locked = GroupsToReset(r)]
    /\ UNCHANGED <<queue, consumed, status, total, unread, stats>>

ResetStats(r) ==
    /\ req[r].step = "ResetStats"
    /\ status' = [k \in Keys |-> IF k \in req[r].marked THEN "READ" ELSE status[k]]
    /\ unread' = [g \in Groups |-> IF g \in req[r].locked THEN 0 ELSE unread[g]]
    /\ stats' = [stats EXCEPT ![req[r].user] = [c \in Categories |-> 0]]
    /\ req' = [req EXCEPT ![r] = Done]
    /\ UNCHANGED <<queue, consumed, total>>

\* Any statement of a command may fail, and a deadlock ends one of its parties.
Rollback(r) ==
    /\ req[r].step \notin {"Idle", "Done"}
    /\ req' = [req EXCEPT ![r] = Done]
    /\ UNCHANGED <<queue, consumed, status, total, unread, stats>>

Proceed(r) == MarkRead(r) \/ MarkRows(r) \/ ResetGroups(r) \/ ResetStats(r) \/ Rollback(r)

Mark(r) ==
    \/ \E k \in Keys : FindNotification(r, k)
    \/ \E g \in Groups : MarkGroupRead(r, g)
    \/ \E u \in Recipients : LockGroups(r, u)
    \/ Proceed(r)

-----------------------------------------------------------------------------
Next ==
    \/ \E m \in Messages : Publish(m)
    \/ \E c \in Consumers : Consume(c)
    \/ \E r \in Requests : Mark(r)

Spec == Init /\ [][Next]_vars

\* The broker delivers what it has, handlers go on until they ack or fail, and
\* commands end.
Fairness ==
    /\ \A c \in Consumers : WF_vars(Consume(c))
    /\ \A r \in Requests : WF_vars(Proceed(r))

-----------------------------------------------------------------------------
(* What holds of every reachable state *)

TypeOK ==
    /\ ready \in [Messages -> Nat] /\ sent \in [Messages -> 0..MaxCopies]
    /\ consumer \in [Consumers -> ConsumerState]
    /\ acked \subseteq Messages /\ dead \subseteq Messages
    /\ consumed \subseteq Messages /\ faults \in 0..MaxFaults
    /\ status \in [Keys -> {"NONE", "UNREAD", "READ"}]
    /\ total \in [Groups -> Nat] /\ unread \in [Groups -> Nat]
    /\ stats \in [Recipients -> [Categories -> Nat]]
    /\ req \in [Requests -> RequestState]

\* What an event asks for has been done.
Served(m) ==
    CASE Asks[m].action = "store"       -> Asks[m].key \in Shown
      [] Asks[m].action = "dead_letter" -> m \in dead
      [] OTHER                                    -> TRUE

\* No event is acked before its notification is stored or, when it is
\* malformed, before the dead-letter queue has it.
AckedEventsServed == \A m \in acked : Served(m)

\* The total of a group is the number of its notifications, however often their
\* events come.
GroupTotalsExact == \A g \in Groups : total[g] = Cardinality(Shown \cap InGroup[g])

\* The unread counters of a group and of a recipient may fall behind when commands
\* race, but never promise a notification that is not there.
NeverOverstated ==
    /\ \A g \in Groups : unread[g] <= Cardinality(Unread \cap InGroup[g])
    /\ \A u \in Recipients : \A c \in Categories :
          stats[u][c] <= Cardinality(Unread \cap InCategory(u, c))

-----------------------------------------------------------------------------
(* The inductive invariant *)

\* A handler that is about to ack has served its event, and so has whoever recorded
\* an event as consumed.
HandlersServe ==
    /\ \A m \in acked \cup consumed : Served(m)
    /\ consumed \subseteq Stored
    /\ \A c \in Consumers :
          /\ consumer[c].step # "Waiting" => consumer[c].message \in Messages
          /\ consumer[c].step = "Ack" => Served(consumer[c].message)
          /\ consumer[c].step = "DeadLetter" =>
                Asks[consumer[c].message].action = "dead_letter"

\* Rows to be marked stay unread until the commit, are marked by one command, and
\* belong to groups that this command resets.
LocksHold ==
    /\ \A r \in Requests :
          /\ req[r].step \in {"Idle", "Done", "MarkRead"} => req[r].locked = {}
          /\ req[r].step \notin {"ResetGroups", "ResetStats"} => req[r].marked = {}
          /\ req[r].step = "MarkRead" => req[r].key \in Shown
          /\ req[r].step \in {"MarkRows", "ResetGroups", "ResetStats"} => req[r].user \in Recipients
          /\ \A k \in req[r].marked : status[k] = "UNREAD" /\ RecipientOf[k] = req[r].user
          /\ req[r].step = "ResetStats" => \A k \in req[r].marked : GroupOf[k] \in req[r].locked
    /\ \A r, q \in Requests : r # q => req[r].marked \cap req[q].marked = {}

IInv == TypeOK /\ HandlersServe /\ GroupTotalsExact /\ LocksHold /\ NeverOverstated

-----------------------------------------------------------------------------
(* What no step may do *)

\* Marking one notification read that is read already takes nothing from the
\* counters: "no matter how often it is repeated, it deducts once".
RepeatedReadsDeductOnce ==
    [][\A r \in Requests :
         /\ req[r].step = "MarkRead" /\ req'[r].step = "Done"
         /\ status[req[r].key] = "READ"
         => UNCHANGED <<unread, stats>>]_vars
=============================================================================
