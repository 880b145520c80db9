----------------------------- MODULE AtLeastOnce -----------------------------
(***************************************************************************)
(* What a transactional outbox promises: an event of a committed           *)
(* transaction is queued until the broker has it, may reach the broker     *)
(* more than once, is given up only visibly, and once it is acknowledged   *)
(* the broker has it for good.                                             *)
(***************************************************************************)
CONSTANT Events

VARIABLES
    ledger,     \* how far each event is
    delivered   \* events the broker took, once or more

Stages == {"absent", "queued", "acknowledged", "dead"}

Init ==
    /\ ledger = [e \in Events |-> "absent"]
    /\ delivered = {}

Append(e) ==
    /\ ledger[e] = "absent"
    /\ ledger' = [ledger EXCEPT ![e] = "queued"]
    /\ UNCHANGED delivered

\* The first copy; later ones change nothing here.
Deliver(e) ==
    /\ ledger[e] # "absent" /\ e \notin delivered
    /\ delivered' = delivered \cup {e}
    /\ UNCHANGED ledger

Acknowledge(e) ==
    /\ ledger[e] = "queued" /\ e \in delivered
    /\ ledger' = [ledger EXCEPT ![e] = "acknowledged"]
    /\ UNCHANGED delivered

GiveUp(e) ==
    /\ ledger[e] = "queued"
    /\ ledger' = [ledger EXCEPT ![e] = "dead"]
    /\ UNCHANGED delivered

Requeue(e) ==
    /\ ledger[e] = "dead"
    /\ ledger' = [ledger EXCEPT ![e] = "queued"]
    /\ UNCHANGED delivered

Next == \E e \in Events :
            Append(e) \/ Deliver(e) \/ Acknowledge(e) \/ GiveUp(e) \/ Requeue(e)

Spec == Init /\ [][Next]_<<ledger, delivered>>
=============================================================================
