---------------------------- MODULE ServedEvents ----------------------------
(***************************************************************************)
(* What the services promise of an integration event from end to end: once *)
(* its transaction is committed it is under way until what it asks for is  *)
(* done, or it is given up where an operator sees it and can resume it.    *)
(* No event is lost, none is settled before it is served, and nothing is   *)
(* shown or refused that no committed event asked for.                     *)
(***************************************************************************)
CONSTANTS
    Events,
    Shows,      \* the notifications an event asks for
    Malformed   \* events nothing can be made of

VARIABLES
    stage,      \* how far each event is
    shown,      \* notifications that are stored
    refused     \* events in the dead-letter queue

Stages == {"absent", "underway", "settled", "given_up"}

Init ==
    /\ stage = [e \in Events |-> "absent"]
    /\ shown = {} /\ refused = {}

Move(e, from, to) ==
    /\ stage[e] = from
    /\ stage' = [stage EXCEPT ![e] = to]
    /\ UNCHANGED <<shown, refused>>

Commit(e) == Move(e, "absent", "underway")

\* More than one event may ask for a notification, and an event may come again.
Show(e) ==
    /\ stage[e] = "underway"
    /\ shown' = shown \cup Shows[e]
    /\ UNCHANGED <<stage, refused>>

Refuse(e) ==
    /\ stage[e] = "underway" /\ e \in Malformed
    /\ refused' = refused \cup {e}
    /\ UNCHANGED <<stage, shown>>

Served(e) == Shows[e] \subseteq shown /\ (e \in Malformed => e \in refused)

Settle(e) == Served(e) /\ Move(e, "underway", "settled")

GiveUp(e) == Move(e, "underway", "given_up")

Resume(e) == Move(e, "given_up", "underway")

Next == \E e \in Events :
            Commit(e) \/ Show(e) \/ Refuse(e) \/ Settle(e) \/ GiveUp(e) \/ Resume(e)

Spec == Init /\ [][Next]_<<stage, shown, refused>>

-----------------------------------------------------------------------------
\* Settled events have been served, and what is shown or refused was asked for by
\* an event whose transaction was committed.
SettledServed == \A e \in Events : stage[e] = "settled" => Served(e)

OnlyAsked ==
    /\ \A n \in shown : \E e \in Events : stage[e] # "absent" /\ n \in Shows[e]
    /\ \A e \in refused : e \in Malformed /\ stage[e] # "absent"

Promises == stage \in [Events -> Stages] /\ SettledServed /\ OnlyAsked
=============================================================================
