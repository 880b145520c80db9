------------------------------ MODULE Comments ------------------------------
(***************************************************************************)
(* The comments of one post (services/zhicore-comment): the tree of        *)
(* comments and replies, the counters kept beside it, the rank rows of     *)
(* top-level comments, likes and their counter deltas.                     *)
(*                                                                         *)
(* Every command is one PostgreSQL transaction at READ COMMITTED that      *)
(* locks nothing it reads: it reads rows with find_comment_for_mutation    *)
(* and writes later.  A step is one such read, or the rest of the          *)
(* transaction, which writes: what it writes first stays locked until the  *)
(* commit, and counters are updated relative to their newest value, so all *)
(* writes appear at the commit.                                            *)
(*                                                                         *)
(* Left out: bodies, media and authors; that the actor may comment, reply, *)
(* delete or like (a refusal changes nothing, and TxFails covers one that  *)
(* comes after a read); edits, which no code makes.                        *)
(***************************************************************************)
EXTENDS Integers, FiniteSets

CONSTANTS
    Comments,            \* ids that rows of the table comments may take
    Users,               \* who may like
    Requests,            \* transactions in flight that have read something
    TwoCommandsAccepted, \* does one Exec of hide_top_level_ranks.sql, two
                         \* UPDATEs with parameters, succeed?
    NoComment            \* SQL's NULL

ASSUME CommentsAssumption ==
    /\ IsFiniteSet(Comments) /\ IsFiniteSet(Users)
    /\ TwoCommandsAccepted \in BOOLEAN
    /\ NoComment \notin Comments

VARIABLES
    status,      \* comments.status, NONE before the insert
    root,        \* comments.root_id
    parent,      \* comments.parent_id
    replyCount,  \* comment_stats.reply_count
    total,       \* comment_post_stats.total_comments
    topLevel,    \* comment_post_stats.total_top_level_comments
    visible,     \* comments whose hot and recommended rank rows are visible
    likes,       \* comment_likes
    deltas,      \* the sum of a comment's comment_counter_deltas
    announced,   \* comment.created events less what comment.deleted counts
    req          \* the requests in flight and what they have read

tree == <<root, parent>>
counters == <<replyCount, total, topLevel, announced>>
liked == <<likes, deltas>>
vars == <<status, tree, counters, visible, liked, req>>

Idle == [step |-> "Idle", target |-> NoComment, root |-> NoComment, subtree |-> {}]

Steps == {"Idle", "FindRoot", "CommitReply", "ReadSubtree", "CommitDelete", "CommitLike"}

Request == [step : Steps, target : Comments \cup {NoComment},
            root : Comments \cup {NoComment}, subtree : SUBSET Comments]

\* Comment.IsTopLevel, and the id the code takes for the tree a row is in.
IsTopLevel(c) == root[c] = NoComment /\ parent[c] = NoComment
RootOf(c) == IF root[c] = NoComment THEN c ELSE root[c]

Normal == {c \in Comments : status[c] = "NORMAL"}
NormalTopLevel == {c \in Normal : root[c] = NoComment}
NormalReplies(r) == {c \in Normal : root[c] = r}

\* The recursive query of soft_delete_subtree.sql: the row of e and, again and
\* again, the rows whose parent is found.  It looks at every status.
Subtree(e) ==
    {c \in Comments :
        \A S \in SUBSET Comments :
            (e \in S /\ \A d \in Comments : parent[d] \in S => d \in S) => c \in S}

\* GREATEST(0, n) of the decrements.
AtLeastZero(n) == IF n > 0 THEN n ELSE 0

Init ==
    /\ status = [c \in Comments |-> "NONE"]
    /\ root = [c \in Comments |-> NoComment]
    /\ parent = [c \in Comments |-> NoComment]
    /\ replyCount = [c \in Comments |-> 0]
    /\ total = 0 /\ topLevel = 0 /\ announced = 0
    /\ visible = {}
    /\ likes = {}
    /\ deltas = [c \in Comments |-> 0]
    /\ req = [r \in Requests |-> Idle]

-----------------------------------------------------------------------------
(* Creating a comment *)

\* createTopLevel reads nothing before it writes.
CreateTopLevel(c) ==
    /\ status[c] = "NONE"
    /\ status' = [status EXCEPT ![c] = "NORMAL"]
    /\ total' = total + 1
    /\ topLevel' = topLevel + 1
    /\ announced' = announced + 1
    /\ visible' = visible \cup {c}
    /\ UNCHANGED <<tree, replyCount, liked, req>>

\* The first read of FindReplyTarget.  The root of a reply is a second read.
FindParent(r, p) ==
    /\ req[r] = Idle
    /\ status[p] = "NORMAL"
    /\ req' = [req EXCEPT ![r] =
                IF IsTopLevel(p) THEN [Idle EXCEPT !.step = "CommitReply", !.target = p, !.root = p]
                                 ELSE [Idle EXCEPT !.step = "FindRoot", !.target = p]]
    /\ UNCHANGED <<status, tree, counters, visible, liked>>

FindRoot(r) ==
    /\ req[r].step = "FindRoot"
    /\ LET top == root[req[r].target] IN
         req' = [req EXCEPT ![r] =
                   IF status[top] = "NORMAL" /\ IsTopLevel(top)
                   THEN [@ EXCEPT !.step = "CommitReply", !.root = top]
                   ELSE Idle]
    /\ UNCHANGED <<status, tree, counters, visible, liked>>

\* createReply: the row, the counters of root and post, and the event.  Nothing
\* looks again at what FindReplyTarget saw.
CommitReply(r, c) ==
    /\ req[r].step = "CommitReply"
    /\ status[c] = "NONE"
    /\ status' = [status EXCEPT ![c] = "NORMAL"]
    /\ root' = [root EXCEPT ![c] = req[r].root]
    /\ parent' = [parent EXCEPT ![c] = req[r].target]
    /\ replyCount' = [replyCount EXCEPT ![req[r].root] = @ + 1]
    /\ total' = total + 1
    /\ announced' = announced + 1
    /\ req' = [req EXCEPT ![r] = Idle]
    /\ UNCHANGED <<topLevel, visible, liked>>

-----------------------------------------------------------------------------
(* Deleting a subtree *)

\* FindCommentForMutation of deleteComment and SoftDeleteSubtree.  A row that is
\* deleted already ends the request here: an error for its author, success with
\* nothing done for an administrator.
FindEntry(r, e) ==
    /\ req[r] = Idle
    /\ status[e] = "NORMAL"
    /\ req' = [req EXCEPT ![r] = [Idle EXCEPT !.step = "ReadSubtree", !.target = e]]
    /\ UNCHANGED <<status, tree, counters, visible, liked>>

\* The rows that soft_delete_subtree.sql sees are those of its own snapshot.
ReadSubtree(r) ==
    /\ req[r].step = "ReadSubtree"
    /\ req' = [req EXCEPT ![r].step = "CommitDelete", ![r].subtree = Subtree(req[r].target)]
    /\ UNCHANGED <<status, tree, counters, visible, liked>>

\* Its UPDATE waits for the rows other transactions hold, then tests their
\* status again, so a row is counted by one deletion only.
WrongAffected(r) == req[r].subtree
Affected(r) == {c \in req[r].subtree : status[c] = "NORMAL"}

AffectedCount(r) == Cardinality(Affected(r))

\* DecrementForDelete, and HideTopLevelRanks, whose one Exec holds two commands
\* with parameters.
TopLevelLeft(e) == IF IsTopLevel(e) THEN AtLeastZero(topLevel - 1) ELSE topLevel

VisibleLeft(e) == IF IsTopLevel(e) THEN visible \ {e} ELSE visible

Hideable(e) == IsTopLevel(e) => TwoCommandsAccepted

CommitDelete(r) ==
    /\ req[r].step = "CommitDelete"
    /\ Affected(r) # {}
    /\ Hideable(req[r].target)
    /\ status' = [c \in Comments |-> IF c \in Affected(r) THEN "DELETED" ELSE status[c]]
    /\ replyCount' = IF IsTopLevel(req[r].target) THEN replyCount
                     ELSE [replyCount EXCEPT ![root[req[r].target]] =
                             AtLeastZero(@ - AffectedCount(r))]
    /\ total' = AtLeastZero(total - AffectedCount(r))
    /\ topLevel' = TopLevelLeft(req[r].target)
    /\ announced' = announced - AffectedCount(r)
    /\ visible' = VisibleLeft(req[r].target)
    /\ req' = [req EXCEPT ![r] = Idle]
    /\ UNCHANGED <<tree, liked>>

\* affected_count = 0: another deletion took every row.
NothingToDelete(r) ==
    /\ req[r].step = "CommitDelete"
    /\ Affected(r) = {}
    /\ req' = [req EXCEPT ![r] = Idle]
    /\ UNCHANGED <<status, tree, counters, visible, liked>>

-----------------------------------------------------------------------------
(* Likes *)

\* changeLike reads the comment, then asks the user service for relations.
FindLiked(r, c) ==
    /\ req[r] = Idle
    /\ status[c] = "NORMAL"
    /\ req' = [req EXCEPT ![r] = [Idle EXCEPT !.step = "CommitLike", !.target = c]]
    /\ UNCHANGED <<status, tree, counters, visible, liked>>

\* ON CONFLICT DO NOTHING: the delta and the event belong to a new row only.
WrongChanged(c, u) == TRUE
Changed(c, u) == <<c, u>> \notin likes

CommitLike(r, u) ==
    /\ req[r].step = "CommitLike"
    /\ likes' = likes \cup {<<req[r].target, u>>}
    /\ deltas' = IF Changed(req[r].target, u)
                 THEN [deltas EXCEPT ![req[r].target] = @ + 1] ELSE deltas
    /\ req' = [req EXCEPT ![r] = Idle]
    /\ UNCHANGED <<status, tree, counters, visible>>

\* Unliking accepts any row, which never vanishes, so its read tells nothing.
Unlike(c, u) ==
    /\ <<c, u>> \in likes
    /\ likes' = likes \ {<<c, u>>}
    /\ deltas' = [deltas EXCEPT ![c] = @ - 1]
    /\ UNCHANGED <<status, tree, counters, visible, req>>

-----------------------------------------------------------------------------

\* A transaction rolls back: the database refuses a command or picks the victim
\* of a deadlock, a guard or the author's snapshot fails, or the process ends.
TxFails(r) ==
    /\ req[r] # Idle
    /\ req' = [req EXCEPT ![r] = Idle]
    /\ UNCHANGED <<status, tree, counters, visible, liked>>

Reads(r) ==
    \/ \E c \in Comments : FindParent(r, c) \/ FindEntry(r, c) \/ FindLiked(r, c)
    \/ FindRoot(r)
    \/ ReadSubtree(r)

Commits(r) ==
    \/ \E c \in Comments : CommitReply(r, c)
    \/ CommitDelete(r)
    \/ NothingToDelete(r)
    \/ \E u \in Users : CommitLike(r, u)

Next ==
    \/ \E c \in Comments : CreateTopLevel(c)
    \/ \E c \in Comments, u \in Users : Unlike(c, u)
    \/ \E r \in Requests : Reads(r) \/ Commits(r) \/ TxFails(r)

Spec == Init /\ [][Next]_vars

-----------------------------------------------------------------------------
(* Properties *)

TypeOK ==
    /\ status \in [Comments -> {"NONE", "NORMAL", "DELETED"}]
    /\ root \in [Comments -> Comments \cup {NoComment}]
    /\ parent \in [Comments -> Comments \cup {NoComment}]
    /\ replyCount \in [Comments -> Nat]
    /\ total \in Nat /\ topLevel \in Nat
    /\ announced \in Int
    /\ visible \subseteq Comments
    /\ likes \subseteq Comments \X Users
    /\ deltas \in [Comments -> Int]
    /\ req \in [Requests -> Request]

\* A reply is in the tree of the comment it answers, and trees are as deep as
\* replies go: root_id leads to the top in one step (NewReplyDraft).
TreeWellFormed ==
    \A c \in Comments :
        /\ root[c] = NoComment <=> parent[c] = NoComment
        /\ status[c] = "NONE" => root[c] = NoComment /\ replyCount[c] = 0
        /\ parent[c] # NoComment =>
              /\ status[c] # "NONE" /\ status[parent[c]] # "NONE"
              /\ root[c] = RootOf(parent[c])
              /\ status[root[c]] # "NONE" /\ root[root[c]] = NoComment

\* What a transaction in flight has read of the shape of the tree stays true;
\* what it has read of a status may not.
MatchesTree(q) ==
    /\ q.step = "Idle" => q.subtree = {}
    /\ q.step # "Idle" => q.target \in Comments /\ status[q.target] # "NONE"
    /\ q.step = "FindRoot" => root[q.target] # NoComment
    /\ q.step = "CommitReply" => q.root = RootOf(q.target)
    /\ q.step = "CommitDelete" => q.target \in q.subtree
    /\ \A c \in q.subtree :
          /\ status[c] # "NONE" /\ RootOf(c) = RootOf(q.target)
          /\ c = q.target \/ parent[c] # NoComment

RequestsMatchTree == \A r \in Requests : MatchesTree(req[r])

\* What readers are told is the number of comments of the post: the statistics
\* that the pages show, and what consumers make of the created and deleted
\* events (createReply, deleteComment).  However deletions overlap, each row is
\* counted down once, and GREATEST never hides a count that went wrong.
TotalsExact == total = Cardinality(Normal) /\ announced = total

\* The reply count of a comment that is shown is the number of its replies at
\* any depth, which data-events.md wants strongly consistent, though replies
\* are created and subtrees deleted at the same time and nothing is locked.
ReplyCountsExact ==
    \A r \in NormalTopLevel : replyCount[r] = Cardinality(NormalReplies(r))

\* total_top_level_comments never counts a comment that is gone, so the pages
\* it promises exist.  It may count too few: of two deletions of one top-level
\* comment, the second may find a reply that the first did not see, and takes
\* one from this counter again.
TopLevelNeverOverstated == topLevel <= Cardinality(NormalTopLevel)

\* The rank rows that lists are read from show the top-level comments that are
\* not deleted and no other (InitializeTopLevelRanks, HideTopLevelRanks).
RanksMatch == visible = NormalTopLevel

\* The deltas of a comment add up to its likes, whatever users repeat or undo
\* at once (changeLike, upsert_like.sql): applying them makes like_count right.
DeltasMatchLikes ==
    \A c \in Comments : deltas[c] = Cardinality({u \in Users : <<c, u>> \in likes})

\* Every number and every list that readers are shown is that of the tree, but for
\* the top-level total, which may fall behind.
CountersMatchTree ==
    TotalsExact /\ ReplyCountsExact /\ TopLevelNeverOverstated /\ RanksMatch

IInv ==
    /\ TypeOK
    /\ TreeWellFormed
    /\ RequestsMatchTree
    /\ TotalsExact
    /\ ReplyCountsExact
    /\ TopLevelNeverOverstated
    /\ RanksMatch
    /\ DeltasMatchLikes

\* docs/architecture/services/comment/README.md:98: deleting any comment deletes
\* its whole subtree, so no reply is shown under a comment that is gone.
NoReplyOutlivesItsParent ==
    \A c \in Normal : parent[c] # NoComment => status[parent[c]] = "NORMAL"

=============================================================================
