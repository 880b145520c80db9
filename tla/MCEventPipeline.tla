--------------------------- MODULE MCEventPipeline ---------------------------
(* Small instances of EventPipeline for TLC. *)
EXTENDS EventPipeline, TLC

Liked(by) ==
    [type |-> "content.post.liked", complete |-> by # 0, named |-> TRUE,
     actor |-> by, owner |-> 1, post |-> 1,
     comment |-> 0, root |-> 0, rootAuthor |-> 0, parent |-> 0, parentAuthor |-> 0]

\* A like, and one whose envelope misses a field
Likes == [m \in Messages |-> IF m = "malformed" THEN Liked(0) ELSE Liked(2)]

OwnIds == [d \in Dispatchers |-> d]
=============================================================================
