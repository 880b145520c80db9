--------------------------- MODULE MCContentPosts ---------------------------
(* Small instances of ContentPosts for TLC. *)
EXTENDS ContentPosts, TLC

\* Ids, hashes and slots are interchangeable: none is named by the model, and the
\* runs with this symmetry check no liveness.
Symmetry ==
    Permutations(DraftBodies) \cup Permutations(Snapshots)
    \cup Permutations(Hashes) \cup Permutations(Requests) \cup Permutations(Workers)
=============================================================================
