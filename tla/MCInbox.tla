------------------------------- MODULE MCInbox -------------------------------
(* Small instances of Inbox for TLC. *)
EXTENDS Inbox, TLC

Like(actor) ==
    [type |-> "content.post.liked", complete |-> TRUE, named |-> TRUE,
     actor |-> actor, owner |-> 1, post |-> 1,
     comment |-> 0, root |-> 0, rootAuthor |-> 0, parent |-> 0, parentAuthor |-> 0]

Follow(actor) ==
    [Like(actor) EXCEPT !.type = "user.followed", !.post = 0]

Comment(actor) == [Like(actor) EXCEPT !.type = "comment.created", !.comment = 1]

\* A like, a follow and messages of the other outcomes
Mixed ==
    [m \in Messages |->
        CASE m = "like"      -> Like(2)
          [] m = "relike"    -> Like(2)
          [] m = "like3"     -> Like(3)
          [] m = "follow"    -> Follow(2)
          [] m = "reply"     -> [Comment(2) EXCEPT !.root = 1, !.rootAuthor = 1,
                                                   !.parent = 1, !.parentAuthor = 1]
          [] m = "self"      -> [Comment(3) EXCEPT !.root = 1, !.rootAuthor = 1,
                                                   !.parent = 1, !.parentAuthor = 3]
          [] m = "malformed" -> [Like(2) EXCEPT !.complete = FALSE]]
=============================================================================
