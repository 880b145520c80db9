-------------------------- MODULE InteractionEvents --------------------------
(***************************************************************************)
(* What the notification service makes of one integration event: the pure  *)
(* part of interaction_consumer.go.  An event is a record of the ids its   *)
(* payload carries, 0 for one that is absent; names, titles and urls are   *)
(* one flag that says whether the required ones are there.                 *)
(***************************************************************************)
EXTENDS Naturals

Types == {"content.post.liked", "comment.created", "user.followed",
          "content.post.published", "other"}

\* owner is whom the event is about: the author of the post or who is followed.
EventOf(Ids) ==
    [type : Types, complete : BOOLEAN, named : BOOLEAN,
     actor : Ids, owner : Ids, post : Ids,
     comment : Ids, root : Ids, rootAuthor : Ids, parent : Ids, parentAuthor : Ids]

\* The actions the handler can ask for, with what is to be stored
DeadLetter == [action |-> "dead_letter"]
Noop == [action |-> "noop"]
Plan == [action |-> "plan"]
Notify(recipient, category, kind, object, item) ==
    [action |-> "store", recipient |-> recipient, category |-> category,
     key |-> <<recipient, kind, object, item>>,
     group |-> <<recipient, kind, object>>]

Missing(ids) == 0 \in ids

PostLiked(e) ==
    IF Missing({e.post, e.owner, e.actor}) \/ ~e.named THEN DeadLetter
    ELSE IF e.owner = e.actor THEN Noop
    ELSE Notify(e.owner, "INTERACTION", "post_liked", e.post, e.actor)

IsReply(e) == e.parent > 0 \/ e.root > 0

WrongCommentCreated(e) ==
    IF Missing({e.comment, e.post, e.owner, e.actor}) \/ ~e.named THEN DeadLetter
    ELSE IF e.owner = e.actor THEN Noop
    ELSE IF IsReply(e)
    THEN IF Missing({e.parent, e.parentAuthor, e.root, e.rootAuthor}) THEN DeadLetter
         ELSE Notify(e.parentAuthor, "INTERACTION", "comment_replied", e.parent, e.comment)
    ELSE Notify(e.owner, "INTERACTION", "post_commented", e.post, e.comment)

\* A reply goes to the author of its parent only, not to the author of the post.
CommentCreated(e) ==
    IF Missing({e.comment, e.post, e.owner, e.actor}) \/ ~e.named THEN DeadLetter
    ELSE IF IsReply(e)
    THEN IF Missing({e.parent, e.parentAuthor, e.root, e.rootAuthor}) THEN DeadLetter
         ELSE IF e.parentAuthor = e.actor THEN Noop
         ELSE Notify(e.parentAuthor, "INTERACTION", "comment_replied", e.parent, e.comment)
    ELSE IF e.owner = e.actor THEN Noop
    ELSE Notify(e.owner, "INTERACTION", "post_commented", e.post, e.comment)

\* The group of a follow is named after the follower: every follower is a group.
UserFollowed(e) ==
    IF Missing({e.actor, e.owner}) \/ ~e.named THEN DeadLetter
    ELSE IF e.actor = e.owner THEN Noop
    ELSE Notify(e.owner, "SOCIAL", "user_followed", e.actor, e.owner)

PostPublished(e) ==
    IF Missing({e.post, e.owner}) \/ ~e.named THEN DeadLetter ELSE Plan

Decoded(e) ==
    CASE e.type = "content.post.published" -> PostPublished(e)
      [] e.type = "content.post.liked"     -> PostLiked(e)
      [] e.type = "comment.created"        -> CommentCreated(e)
      [] e.type = "user.followed"          -> UserFollowed(e)
      [] OTHER                             -> Noop

\* The envelope is decoded first, and refused whatever it carries.
Outcome(e) == IF e.complete THEN Decoded(e) ELSE DeadLetter

\* Nobody is notified of what they did themselves, nor is anyone who is not known;
\* and what is stored about an act names who did it to whom.
OnlyOthersNotified(e) ==
    Outcome(e).action = "store" =>
        Outcome(e).recipient \notin {0, e.actor} /\ 0 \notin {e.actor, e.owner}
=============================================================================
