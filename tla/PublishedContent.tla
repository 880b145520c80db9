-------------------------- MODULE PublishedContent --------------------------
(***************************************************************************)
(* What a reader of the site may observe of a post, and nothing else: the  *)
(* post is hidden, or it shows one body.  The body of a public post never  *)
(* changes under the reader; it has to be hidden before another one can be *)
(* shown.  ContentPosts implements this specification with a PostgreSQL    *)
(* row that points at documents of a separate body store.                  *)
(***************************************************************************)
CONSTANTS
    Posts,      \* the posts of the site
    Hashes,     \* the bodies that can be shown, by content hash
    Hidden      \* what a reader sees of a post that is not public; no hash

VARIABLE visible    \* what a reader sees of each post

TypeOK == visible \in [Posts -> Hashes \cup {Hidden}]

Init == visible = [p \in Posts |-> Hidden]

Show(p, h) ==
    /\ visible[p] = Hidden
    /\ visible' = [visible EXCEPT ![p] = h]

Hide(p) ==
    /\ visible[p] # Hidden
    /\ visible' = [visible EXCEPT ![p] = Hidden]

Next == \E p \in Posts : Hide(p) \/ \E h \in Hashes : Show(p, h)

Spec == Init /\ [][Next]_visible
=============================================================================
