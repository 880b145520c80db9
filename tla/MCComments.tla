----------------------------- MODULE MCComments -----------------------------
(* Comments for TLC: ids, users and requests are interchangeable. *)
EXTENDS Comments, TLC

Symmetry == Permutations(Comments) \cup Permutations(Users) \cup Permutations(Requests)

=============================================================================
