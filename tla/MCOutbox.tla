------------------------------ MODULE MCOutbox ------------------------------
(* Small instances of Outbox for TLC. *)
EXTENDS Outbox, TLC

\* Ids as the comment service configures them, one per process
OwnIds == [d \in Dispatchers |-> d]

\* The id that every replica of the content service uses
ContentId == [d \in Dispatchers |-> "zhicore-content:outbox-dispatcher"]

\* Events are interchangeable, and so are processes: both id functions treat them
\* alike.
Symmetry == Permutations(Events) \cup Permutations(Dispatchers)
=============================================================================
