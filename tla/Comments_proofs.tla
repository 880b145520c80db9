--------------------------- MODULE Comments_proofs ---------------------------
(***************************************************************************)
(* Comments for any number of comments, users and transactions: whatever   *)
(* overlaps or fails, each counter is the cardinality of the set it stands *)
(* for.                                                                    *)
(***************************************************************************)
EXTENDS Comments, FiniteSetTheorems, TLAPS

\* A finite set without a subset of it.
LEMMA CountDifference ==
    ASSUME NEW S, IsFiniteSet(S), NEW T \in SUBSET S
    PROVE  /\ IsFiniteSet(S \ T) /\ Cardinality(S \ T) = Cardinality(S) - Cardinality(T)
           /\ Cardinality(T) \in Nat /\ Cardinality(T) <= Cardinality(S)
<1>1. IsFiniteSet(S \ T) /\ IsFiniteSet(T) /\ Cardinality(T) <= Cardinality(S)
  BY FS_Subset
<1>2. (S \ T) \cup T = S /\ (S \ T) \cap T = {}
  OBVIOUS
<1>3. Cardinality(S) = Cardinality(S \ T) + Cardinality(T) - Cardinality({})
  BY <1>1, <1>2, FS_Union
<1>4. Cardinality(S) \in Nat /\ Cardinality(T) \in Nat /\ Cardinality(S \ T) \in Nat
  BY <1>1, FS_CardinalityType
<1> QED BY <1>1, <1>3, <1>4, FS_EmptySet

LEMMA CountsFinite ==
    /\ IsFiniteSet(Normal) /\ IsFiniteSet(NormalTopLevel)
    /\ \A r : IsFiniteSet(NormalReplies(r))
    /\ \A c : IsFiniteSet({u \in Users : <<c, u>> \in likes})
<1>1. Normal \in SUBSET Comments /\ NormalTopLevel \in SUBSET Comments
  BY DEF Normal, NormalTopLevel
<1>2. \A r : NormalReplies(r) \in SUBSET Comments
  BY DEF Normal, NormalReplies
<1>3. \A c : {u \in Users : <<c, u>> \in likes} \in SUBSET Users
  OBVIOUS
<1> QED BY <1>1, <1>2, <1>3, CommentsAssumption, FS_Subset

\* Everything below a comment exists and is in its tree.
LEMMA SubtreeOfTree ==
    ASSUME TypeOK, TreeWellFormed, NEW e \in Comments, status[e] # "NONE"
    PROVE  /\ Subtree(e) \in SUBSET Comments /\ e \in Subtree(e)
           /\ \A c \in Subtree(e) :
                 /\ status[c] # "NONE" /\ RootOf(c) = RootOf(e)
                 /\ c = e \/ parent[c] # NoComment
<1> DEFINE S == {d \in Comments : /\ status[d] # "NONE" /\ RootOf(d) = RootOf(e)
                                  /\ d = e \/ parent[d] # NoComment}
<1>1. Subtree(e) \in SUBSET Comments /\ e \in Subtree(e)
  BY DEF Subtree
<1>2. ASSUME NEW d \in Comments, parent[d] \in S
      PROVE  d \in S
  <2>1. parent[d] # NoComment /\ RootOf(parent[d]) = RootOf(e)
    BY <1>2, CommentsAssumption
  <2>2. status[d] # "NONE" /\ root[d] = RootOf(e) /\ root[d] # NoComment
    BY <2>1 DEF TreeWellFormed
  <2>3. RootOf(d) = RootOf(e)
    BY <2>2 DEF RootOf
  <2> QED BY <2>1, <2>2, <2>3
<1>3. e \in S /\ S \in SUBSET Comments
  OBVIOUS
<1>4. \A c \in Subtree(e) : c \in S
  BY <1>2, <1>3 DEF Subtree
<1> QED BY <1>1, <1>4

\* What a request has read of the tree survives any step that neither removes
\* a row nor moves one.
LEMMA TreeReadsStay ==
    ASSUME NEW q \in Request, MatchesTree(q),
           \A c \in Comments : status[c] # "NONE" =>
              status'[c] # "NONE" /\ root'[c] = root[c] /\ parent'[c] = parent[c]
    PROVE  MatchesTree(q)'
<1>1. q.subtree \in SUBSET Comments
  BY DEF Request
<1>2. \A c \in Comments : status[c] # "NONE" => RootOf(c)' = RootOf(c)
  BY DEF RootOf
<1>3. q.step # "Idle" => RootOf(q.target)' = RootOf(q.target)
  BY <1>2 DEF MatchesTree
<1>4. q.step = "Idle" => q.subtree = {}
  BY DEF MatchesTree
<1>5. ASSUME NEW c \in q.subtree
      PROVE  /\ status'[c] # "NONE" /\ RootOf(c)' = RootOf(q.target)'
             /\ c = q.target \/ parent'[c] # NoComment
  BY <1>1, <1>2, <1>3, <1>4 DEF MatchesTree
<1> QED BY <1>3, <1>4, <1>5 DEF MatchesTree

\* At most one request moves on, to q, and no row is moved or removed.
LEMMA RequestsStay ==
    ASSUME TypeOK, RequestsMatchTree, NEW q \in Request, MatchesTree(q),
           req' = req \/ \E r \in Requests : req' = [req EXCEPT ![r] = q],
           \A c \in Comments : status[c] # "NONE" =>
              status'[c] # "NONE" /\ root'[c] = root[c] /\ parent'[c] = parent[c]
    PROVE  req' \in [Requests -> Request] /\ RequestsMatchTree'
<1>1. req \in [Requests -> Request]
  BY DEF TypeOK
<1>2. ASSUME NEW x \in Requests
      PROVE  MatchesTree(req[x])'
  <2>1. PICK v \in Request : v = req'[x]
    BY <1>1
  <2>2. v = q \/ v = req[x]
    BY <1>1, <2>1
  <2>3. MatchesTree(v)
    BY <2>2 DEF RequestsMatchTree
  <2>4. MatchesTree(v)'
    BY <2>3, TreeReadsStay
  <2> QED BY <2>1, <2>4 DEF MatchesTree
<1> QED BY <1>1, <1>2 DEF RequestsMatchTree

LEMMA IdleMatches == Idle \in Request /\ MatchesTree(Idle)
BY DEF Idle, Request, Steps, MatchesTree

\* A transaction reads, does nothing or ends.
LEMMA Reading ==
    ASSUME IInv, NEW r \in Requests, NEW q \in Request, MatchesTree(q),
           req' = [req EXCEPT ![r] = q],
           UNCHANGED <<status, tree, counters, visible, liked>>
    PROVE  IInv'
<1> USE DEF IInv, tree, counters, liked
<1>1. TypeOK'
  BY DEF TypeOK
<1>2. TreeWellFormed'
  BY DEF TreeWellFormed, RootOf
<1>3. RequestsMatchTree'
  BY RequestsStay DEF TypeOK
<1>4. Normal' = Normal
  BY DEF Normal
<1>5. NormalTopLevel' = NormalTopLevel /\ \A x : NormalReplies(x)' = NormalReplies(x)
  BY <1>4 DEF NormalTopLevel, NormalReplies
<1>6. TotalsExact' /\ ReplyCountsExact' /\ TopLevelNeverOverstated' /\ RanksMatch'
  BY <1>4, <1>5 DEF TotalsExact, ReplyCountsExact, TopLevelNeverOverstated, RanksMatch
<1>7. DeltasMatchLikes'
  BY DEF DeltasMatchLikes
<1> QED BY <1>1, <1>2, <1>3, <1>6, <1>7

LEMMA ReadsKeep ==
    ASSUME IInv, NEW r \in Requests, Reads(r) \/ NothingToDelete(r) \/ TxFails(r)
    PROVE  IInv'
<1> USE DEF IInv
<1>0. req[r] \in Request /\ MatchesTree(req[r])
  BY DEF TypeOK, RequestsMatchTree
<1>1. ASSUME NEW p \in Comments, FindParent(r, p) PROVE IInv'
  <2>1. CASE IsTopLevel(p)
    <3> DEFINE q == [Idle EXCEPT !.step = "CommitReply", !.target = p, !.root = p]
    <3>1. q \in Request /\ q.step = "CommitReply" /\ q.target = p /\ q.root = p /\ q.subtree = {}
      BY DEF Idle, Request, Steps
    <3>2. MatchesTree(q)
      BY <1>1, <2>1, <3>1 DEF MatchesTree, FindParent, IsTopLevel, RootOf
    <3> QED BY <1>1, <2>1, <3>1, <3>2, Reading DEF FindParent
  <2>2. CASE ~IsTopLevel(p)
    <3> DEFINE q == [Idle EXCEPT !.step = "FindRoot", !.target = p]
    <3>1. q \in Request /\ q.step = "FindRoot" /\ q.target = p /\ q.subtree = {}
      BY DEF Idle, Request, Steps
    <3>2. root[p] # NoComment
      BY <2>2 DEF IsTopLevel, TreeWellFormed
    <3>3. MatchesTree(q)
      BY <1>1, <3>1, <3>2 DEF MatchesTree, FindParent
    <3> QED BY <1>1, <2>2, <3>1, <3>3, Reading DEF FindParent
  <2> QED BY <2>1, <2>2
<1>2. ASSUME FindRoot(r) PROVE IInv'
  <2> DEFINE top == root[req[r].target]
             q == [req[r] EXCEPT !.step = "CommitReply", !.root = top]
  <2>1. top \in Comments /\ RootOf(req[r].target) = top /\ req[r].target \in Comments
    BY <1>0, <1>2 DEF MatchesTree, FindRoot, RootOf, TypeOK
  <2>2. q \in Request /\ q.step = "CommitReply" /\ q.target = req[r].target /\ q.root = top
        /\ q.subtree = req[r].subtree
    BY <1>0, <2>1 DEF Request, Steps
  <2>3. MatchesTree(q)
    BY <1>0, <1>2, <2>1, <2>2 DEF MatchesTree, FindRoot
  <2>4. req' = [req EXCEPT ![r] = q] \/ req' = [req EXCEPT ![r] = Idle]
    BY <1>2 DEF FindRoot
  <2> HIDE DEF q
  <2> QED BY <1>2, <2>2, <2>3, <2>4, IdleMatches, Reading DEF FindRoot
<1>3. ASSUME NEW e \in Comments, FindEntry(r, e) PROVE IInv'
  <2> DEFINE q == [Idle EXCEPT !.step = "ReadSubtree", !.target = e]
  <2>1. q \in Request /\ q.step = "ReadSubtree" /\ q.target = e /\ q.subtree = {}
    BY DEF Idle, Request, Steps
  <2>2. MatchesTree(q)
    BY <1>3, <2>1 DEF MatchesTree, FindEntry
  <2> QED BY <1>3, <2>1, <2>2, Reading DEF FindEntry
<1>4. ASSUME ReadSubtree(r) PROVE IInv'
  <2> DEFINE e == req[r].target
             q == [req[r] EXCEPT !.step = "CommitDelete", !.subtree = Subtree(e)]
  <2>1. e \in Comments /\ status[e] # "NONE"
    BY <1>0, <1>4 DEF MatchesTree, ReadSubtree
  <2>2. /\ Subtree(e) \in SUBSET Comments /\ e \in Subtree(e)
        /\ \A c \in Subtree(e) :
              /\ status[c] # "NONE" /\ RootOf(c) = RootOf(e)
              /\ c = e \/ parent[c] # NoComment
    BY <2>1, SubtreeOfTree
  <2>3. q \in Request /\ q.step = "CommitDelete" /\ q.target = e /\ q.subtree = Subtree(e)
    BY <1>0, <2>2 DEF Request, Steps
  <2>4. MatchesTree(q)
    BY <2>1, <2>2, <2>3 DEF MatchesTree
  <2>5. req' = [req EXCEPT ![r] = q]
    BY <1>4 DEF ReadSubtree, TypeOK
  <2> HIDE DEF q
  <2> QED BY <1>4, <2>3, <2>4, <2>5, Reading DEF ReadSubtree
<1>5. ASSUME NEW c \in Comments, FindLiked(r, c) PROVE IInv'
  <2> DEFINE q == [Idle EXCEPT !.step = "CommitLike", !.target = c]
  <2>1. q \in Request /\ q.step = "CommitLike" /\ q.target = c /\ q.subtree = {}
    BY DEF Idle, Request, Steps
  <2>2. MatchesTree(q)
    BY <1>5, <2>1 DEF MatchesTree, FindLiked
  <2> QED BY <1>5, <2>1, <2>2, Reading DEF FindLiked
<1>6. ASSUME NothingToDelete(r) \/ TxFails(r) PROVE IInv'
  BY <1>6, IdleMatches, Reading DEF NothingToDelete, TxFails
<1> QED BY <1>1, <1>2, <1>3, <1>4, <1>5, <1>6 DEF Reads

\* A new row joins the sets it belongs to and no other.
LEMMA CreatedRow ==
    ASSUME TypeOK, TreeWellFormed, NEW c \in Comments, status[c] = "NONE",
           status' = [status EXCEPT ![c] = "NORMAL"],
           \A d \in Comments \ {c} : root'[d] = root[d],
           root'[c] # c
    PROVE  /\ Cardinality(Normal)' = Cardinality(Normal) + 1
           /\ NormalTopLevel' = IF root'[c] = NoComment THEN NormalTopLevel \cup {c}
                                ELSE NormalTopLevel
           /\ c \notin NormalTopLevel
           /\ \A r \in Comments :
                 Cardinality(NormalReplies(r))' =
                    IF root'[c] = r THEN Cardinality(NormalReplies(r)) + 1
                    ELSE Cardinality(NormalReplies(r))
<1>0. \A d \in Comments : status'[d] = IF d = c THEN "NORMAL" ELSE status[d]
  BY DEF TypeOK
<1>1. Normal' = Normal \cup {c} /\ c \notin Normal
  BY <1>0 DEF Normal
<1>2. NormalTopLevel' = (IF root'[c] = NoComment THEN NormalTopLevel \cup {c}
                         ELSE NormalTopLevel)
      /\ c \notin NormalTopLevel
  <2>1. Normal \subseteq Comments
    BY DEF Normal
  <2> QED BY <1>1, <2>1 DEF NormalTopLevel
<1>3. ASSUME NEW r \in Comments
      PROVE  Cardinality(NormalReplies(r))' =
                IF root'[c] = r THEN Cardinality(NormalReplies(r)) + 1
                ELSE Cardinality(NormalReplies(r))
  <2>1. Normal \subseteq Comments
    BY DEF Normal
  <2>2. NormalReplies(r)' = (IF root'[c] = r THEN NormalReplies(r) \cup {c} ELSE NormalReplies(r))
        /\ c \notin NormalReplies(r)
    BY <1>1, <2>1 DEF NormalReplies
  <2> QED BY <2>2, CountsFinite, FS_AddElement
<1> QED BY <1>1, <1>2, <1>3, CountsFinite, FS_AddElement

LEMMA CreateTopLevelKeeps ==
    ASSUME IInv, NEW c \in Comments, CreateTopLevel(c)
    PROVE  IInv'
<1> USE DEF IInv, tree, counters, liked
<1>0. \A d \in Comments : status'[d] = IF d = c THEN "NORMAL" ELSE status[d]
  BY DEF CreateTopLevel, TypeOK
<1>1. root[c] = NoComment /\ parent[c] = NoComment /\ replyCount[c] = 0
  BY DEF CreateTopLevel, TreeWellFormed
<1>2. TypeOK'
  BY DEF CreateTopLevel, TypeOK
<1>3. TreeWellFormed'
  BY <1>0 DEF CreateTopLevel, TreeWellFormed, RootOf
<1>4. RequestsMatchTree'
  BY <1>0, IdleMatches, RequestsStay DEF CreateTopLevel
<1>5. /\ Cardinality(Normal)' = Cardinality(Normal) + 1
      /\ NormalTopLevel' = NormalTopLevel \cup {c} /\ c \notin NormalTopLevel
      /\ \A r \in Comments : Cardinality(NormalReplies(r))' = Cardinality(NormalReplies(r))
  <2>1. root' = root /\ root'[c] # c /\ \A r \in Comments : root'[c] # r
    BY <1>1, CommentsAssumption DEF CreateTopLevel
  <2> QED BY <1>1, <2>1, CreatedRow DEF CreateTopLevel
<1>6. TotalsExact'
  BY <1>5 DEF TotalsExact, CreateTopLevel, TypeOK
<1>7. ReplyCountsExact'
  <2>1. Cardinality(NormalReplies(c)) = 0
    <3>1. NormalReplies(c) = {}
      BY CommentsAssumption DEF NormalReplies, Normal, TreeWellFormed, CreateTopLevel
    <3> QED BY <3>1, FS_EmptySet
  <2>2. \A r \in NormalTopLevel : r \in Comments
    BY DEF NormalTopLevel, Normal
  <2> QED BY <1>1, <1>5, <2>1, <2>2 DEF ReplyCountsExact, CreateTopLevel
<1>8. TopLevelNeverOverstated'
  <2>1. Cardinality(NormalTopLevel') = Cardinality(NormalTopLevel) + 1
        /\ Cardinality(NormalTopLevel) \in Nat
    BY <1>5, CountsFinite, FS_AddElement, FS_CardinalityType
  <2> QED BY <2>1 DEF TopLevelNeverOverstated, CreateTopLevel, TypeOK
<1>9. RanksMatch'
  BY <1>5 DEF RanksMatch, CreateTopLevel
<1>10. DeltasMatchLikes'
  BY DEF DeltasMatchLikes, CreateTopLevel
<1> QED BY <1>2, <1>3, <1>4, <1>6, <1>7, <1>8, <1>9, <1>10

LEMMA CommitReplyKeeps ==
    ASSUME IInv, NEW r \in Requests, NEW c \in Comments, CommitReply(r, c)
    PROVE  IInv'
<1> USE DEF IInv, tree, counters, liked
<1>0. \A d \in Comments : status'[d] = IF d = c THEN "NORMAL" ELSE status[d]
  BY DEF CommitReply, TypeOK
<1>1. PICK above \in Comments, top \in Comments :
         /\ above = req[r].target /\ top = req[r].root
         /\ status[above] # "NONE" /\ above # c /\ top = RootOf(above)
  <2>1. /\ req[r] \in Request /\ req[r].target \in Comments
        /\ status[req[r].target] # "NONE" /\ req[r].target # c
        /\ req[r].root = RootOf(req[r].target)
    BY DEF CommitReply, TypeOK, RequestsMatchTree, MatchesTree
  <2>2. RootOf(req[r].target) \in Comments
    BY <2>1 DEF RootOf, TypeOK
  <2> QED BY <2>1, <2>2
<1>2. status[top] # "NONE" /\ root[top] = NoComment /\ top # c
  BY <1>1 DEF RootOf, TreeWellFormed, TypeOK, CommitReply
<1>3. \A d \in Comments :
         /\ root'[d] = IF d = c THEN top ELSE root[d]
         /\ parent'[d] = IF d = c THEN above ELSE parent[d]
         /\ replyCount'[d] = IF d = top THEN replyCount[d] + 1 ELSE replyCount[d]
  BY <1>1 DEF CommitReply, TypeOK
<1>4. above # NoComment /\ top # NoComment
  BY CommentsAssumption
<1>5. TypeOK'
  <2>1. req' \in [Requests -> Request]
    BY IdleMatches DEF CommitReply, TypeOK
  <2> QED BY <1>1, <1>2, <2>1 DEF CommitReply, TypeOK
<1>6. TreeWellFormed'
  <2>1. \A d \in Comments : parent[d] # c /\ root[d] # c
    BY CommentsAssumption DEF TreeWellFormed, CommitReply
  <2>2. \A d \in Comments \ {c} : parent[d] # NoComment => parent[d] \in Comments /\ root[d] \in Comments
    BY DEF TreeWellFormed, TypeOK
  <2>3. ASSUME NEW d \in Comments, d # c
        PROVE  /\ root'[d] = NoComment <=> parent'[d] = NoComment
               /\ status'[d] = "NONE" => root'[d] = NoComment /\ replyCount'[d] = 0
               /\ parent'[d] # NoComment =>
                    /\ status'[d] # "NONE" /\ status'[parent'[d]] # "NONE"
                    /\ root'[d] = IF root'[parent'[d]] = NoComment THEN parent'[d]
                                  ELSE root'[parent'[d]]
                    /\ status'[root'[d]] # "NONE" /\ root'[root'[d]] = NoComment
    <3>1. /\ root[d] = NoComment <=> parent[d] = NoComment
          /\ status[d] = "NONE" => root[d] = NoComment /\ replyCount[d] = 0 /\ d # top
          /\ parent[d] # NoComment =>
               /\ status[d] # "NONE" /\ status[parent[d]] # "NONE"
               /\ root[d] = IF root[parent[d]] = NoComment THEN parent[d] ELSE root[parent[d]]
               /\ status[root[d]] # "NONE" /\ root[root[d]] = NoComment
      BY <1>2 DEF TreeWellFormed, RootOf
    <3>2. root'[d] = root[d] /\ parent'[d] = parent[d] /\ status'[d] = status[d]
      BY <1>0, <1>3, <2>3
    <3>3. status[d] = "NONE" => replyCount'[d] = replyCount[d]
      BY <1>3, <3>1
    <3>4. ASSUME parent[d] # NoComment
          PROVE  /\ root'[parent[d]] = root[parent[d]] /\ status'[parent[d]] = status[parent[d]]
                 /\ root'[root[d]] = root[root[d]] /\ status'[root[d]] = status[root[d]]
      BY <1>0, <1>3, <2>1, <2>2, <2>3, <3>4
    <3> QED BY <3>1, <3>2, <3>3, <3>4
  <2>4. /\ root'[c] = top /\ parent'[c] = above
        /\ status'[c] = "NORMAL" /\ status'[above] # "NONE"
        /\ root'[above] = root[above]
        /\ status'[top] # "NONE" /\ root'[top] = NoComment
    BY <1>0, <1>1, <1>2, <1>3
  <2>5. top = IF root'[above] = NoComment THEN above ELSE root'[above]
    BY <1>1, <2>4 DEF RootOf
  <2> QED BY <1>4, <2>3, <2>4, <2>5 DEF TreeWellFormed, RootOf
<1>7. RequestsMatchTree'
  <2>1. \A d \in Comments : status[d] # "NONE" =>
           status'[d] # "NONE" /\ root'[d] = root[d] /\ parent'[d] = parent[d]
    BY <1>0, <1>3 DEF CommitReply
  <2> QED BY <2>1, IdleMatches, RequestsStay DEF CommitReply
<1>8. /\ Cardinality(Normal)' = Cardinality(Normal) + 1
      /\ NormalTopLevel' = NormalTopLevel
      /\ \A t \in Comments : Cardinality(NormalReplies(t))' =
             IF t = top THEN Cardinality(NormalReplies(t)) + 1 ELSE Cardinality(NormalReplies(t))
  <2>1. root'[c] = top /\ top # c /\ top # NoComment
        /\ \A d \in Comments \ {c} : root'[d] = root[d]
    BY <1>2, <1>3, CommentsAssumption
  <2> QED BY <2>1, CreatedRow DEF CommitReply
<1>9. TotalsExact'
  BY <1>8 DEF TotalsExact, CommitReply, TypeOK
<1>10. ReplyCountsExact'
  <2>1. \A t \in NormalTopLevel : t \in Comments
    BY DEF NormalTopLevel, Normal
  <2> QED BY <1>3, <1>8, <2>1 DEF ReplyCountsExact
<1>11. TopLevelNeverOverstated' /\ RanksMatch' /\ DeltasMatchLikes'
  BY <1>8 DEF TopLevelNeverOverstated, RanksMatch, DeltasMatchLikes, CommitReply
<1> QED BY <1>5, <1>6, <1>7, <1>9, <1>10, <1>11

\* What a deletion takes: rows of the tree of its entry that are not deleted;
\* no top-level comment but the entry itself.
LEMMA DeletedRows ==
    ASSUME IInv, NEW r \in Requests, req[r].step = "CommitDelete",
           NEW e, e = req[r].target
    PROVE  /\ e \in Comments /\ status[e] # "NONE" /\ req[r] \in Request
           /\ Affected(r) \in SUBSET Normal
           /\ AffectedCount(r) \in Nat /\ AffectedCount(r) <= Cardinality(Normal)
           /\ e \in Normal => e \in Affected(r)
           /\ IsTopLevel(e) <=> root[e] = NoComment
           /\ root[e] = NoComment => \A c \in Affected(r) : c = e \/ root[c] = e
           /\ root[e] # NoComment => \A c \in Affected(r) : root[c] = root[e]
<1> USE DEF IInv
<1>1. /\ req[r] \in Request /\ e \in Comments /\ status[e] # "NONE"
      /\ e \in req[r].subtree
      /\ \A c \in req[r].subtree : RootOf(c) = RootOf(e) /\ (c = e \/ parent[c] # NoComment)
  BY DEF TypeOK, RequestsMatchTree, MatchesTree
<1>2. Affected(r) \in SUBSET Normal
  BY <1>1 DEF Affected, Normal, Request
<1>3. IsTopLevel(e) <=> root[e] = NoComment
  BY <1>1 DEF IsTopLevel, TreeWellFormed
<1>4. ASSUME NEW c \in Affected(r)
      PROVE  /\ root[e] = NoComment => c = e \/ root[c] = e
             /\ root[e] # NoComment => root[c] = root[e]
  <2>1. c \in Comments /\ RootOf(c) = RootOf(e) /\ (c = e \/ root[c] # NoComment)
    BY <1>1, <1>2 DEF Affected, Normal, TreeWellFormed
  <2> QED BY <2>1 DEF RootOf
<1>5. AffectedCount(r) \in Nat /\ AffectedCount(r) <= Cardinality(Normal)
  BY <1>2, CountsFinite, CountDifference DEF AffectedCount
<1>6. e \in Normal => e \in Affected(r)
  BY <1>1 DEF Affected, Normal
<1> QED BY <1>1, <1>2, <1>3, <1>4, <1>5, <1>6

LEMMA CommitDeleteKeeps ==
    ASSUME IInv, NEW r \in Requests, CommitDelete(r)
    PROVE  IInv'
<1> USE DEF IInv, tree, counters, liked
<1>0. PICK e : e = req[r].target
  OBVIOUS
<1> DEFINE D == Affected(r)
           n == AffectedCount(r)
<1>1. /\ e \in Comments /\ status[e] # "NONE" /\ req[r] \in Request
      /\ D \in SUBSET Normal
      /\ n \in Nat /\ n <= Cardinality(Normal)
      /\ e \in Normal => e \in D
      /\ IsTopLevel(e) <=> root[e] = NoComment
      /\ root[e] = NoComment => \A c \in D : c = e \/ root[c] = e
      /\ root[e] # NoComment => \A c \in D : root[c] = root[e]
  BY <1>0, DeletedRows DEF CommitDelete
<1>2. /\ root' = root /\ parent' = parent /\ likes' = likes /\ deltas' = deltas
      /\ status' = [c \in Comments |-> IF c \in D THEN "DELETED" ELSE status[c]]
      /\ replyCount' = IF root[e] = NoComment THEN replyCount
                       ELSE [replyCount EXCEPT ![root[e]] = AtLeastZero(@ - n)]
      /\ total' = AtLeastZero(total - n)
      /\ topLevel' = IF root[e] = NoComment THEN AtLeastZero(topLevel - 1) ELSE topLevel
      /\ announced' = announced - n
      /\ visible' = IF root[e] = NoComment THEN visible \ {e} ELSE visible
      /\ req' = [req EXCEPT ![r] = Idle]
  BY <1>0, <1>1 DEF CommitDelete, TopLevelLeft, VisibleLeft
<1>3. Cardinality(D) = n
  BY DEF AffectedCount
<1>4. root[e] \in Comments \cup {NoComment} /\ Normal \subseteq Comments
  BY <1>1 DEF TypeOK, Normal
<1> HIDE DEF D, n
<1>5. Normal' = Normal \ D
  BY <1>1, <1>2, <1>4 DEF Normal
<1>6. /\ IsFiniteSet(Normal)
      /\ Cardinality(Normal') = Cardinality(Normal) - n /\ Cardinality(Normal) \in Nat
  BY <1>1, <1>3, <1>5, CountsFinite, CountDifference, FS_CardinalityType
<1>7. TypeOK'
  <2>1. total' \in Nat /\ topLevel' \in Nat /\ announced' \in Int
    BY <1>1, <1>2 DEF AtLeastZero, TypeOK
  <2>2. replyCount' \in [Comments -> Nat]
    <3>1. CASE root[e] = NoComment
      BY <1>2, <3>1 DEF TypeOK
    <3>2. CASE root[e] # NoComment
      <4>1. AtLeastZero(replyCount[root[e]] - n) \in Nat
        BY <1>1, <1>4, <3>2 DEF AtLeastZero, TypeOK
      <4> QED BY <1>2, <3>2, <4>1 DEF TypeOK
    <3> QED BY <3>1, <3>2
  <2>3. status' \in [Comments -> {"NONE", "NORMAL", "DELETED"}] /\ visible' \subseteq Comments
    BY <1>2 DEF TypeOK
  <2> QED BY <1>2, <2>1, <2>2, <2>3, IdleMatches DEF TypeOK
<1>8. \A c \in Comments : status'[c] = "NONE" <=> status[c] = "NONE"
  BY <1>1, <1>2 DEF Normal
<1>9. TreeWellFormed'
  <2>1. \A c \in Comments : status[c] = "NONE" => replyCount'[c] = 0
    <3>1. root[e] # NoComment => status[root[e]] # "NONE"
      BY <1>1 DEF TreeWellFormed
    <3> QED BY <1>2, <3>1 DEF TreeWellFormed, TypeOK
  <2>2. \A c \in Comments : parent[c] # NoComment => parent[c] \in Comments /\ root[c] \in Comments
    BY DEF TreeWellFormed, TypeOK
  <2> QED BY <1>2, <1>8, <2>1, <2>2 DEF TreeWellFormed, RootOf
<1>10. RequestsMatchTree'
  BY <1>2, <1>8, IdleMatches, RequestsStay
<1>11. TotalsExact'
  BY <1>1, <1>2, <1>6 DEF TotalsExact, AtLeastZero
<1>12. NormalTopLevel' = IF root[e] = NoComment THEN NormalTopLevel \ {e} ELSE NormalTopLevel
  <2>1. CASE root[e] = NoComment
    BY <1>1, <1>2, <1>4, <1>5, <2>1, CommentsAssumption DEF NormalTopLevel
  <2>2. CASE root[e] # NoComment
    BY <1>1, <1>2, <1>5, <2>2 DEF NormalTopLevel
  <2> QED BY <2>1, <2>2
<1>13. ReplyCountsExact'
  <2> SUFFICES ASSUME NEW t \in NormalTopLevel'
               PROVE  replyCount'[t] = Cardinality(NormalReplies(t)')
    BY DEF ReplyCountsExact, NormalReplies
  <2>1. t \in NormalTopLevel /\ t \in Comments /\ t \notin D
    BY <1>4, <1>5, <1>12 DEF NormalTopLevel
  <2>2. replyCount[t] = Cardinality(NormalReplies(t))
    BY <2>1 DEF ReplyCountsExact
  <2>3. NormalReplies(t)' = NormalReplies(t) \ D
    BY <1>2, <1>5 DEF NormalReplies
  <2>4. CASE root[e] = t
    <3>1. D \in SUBSET NormalReplies(t)
      BY <1>1, <2>1, <2>4, CommentsAssumption DEF NormalReplies
    <3>2. Cardinality(NormalReplies(t)') = Cardinality(NormalReplies(t)) - n
          /\ n <= Cardinality(NormalReplies(t)) /\ Cardinality(NormalReplies(t)) \in Nat
      BY <1>3, <2>3, <3>1, CountsFinite, CountDifference, FS_CardinalityType
    <3>3. replyCount'[t] = AtLeastZero(replyCount[t] - n)
      BY <1>2, <2>1, <2>4, CommentsAssumption DEF TypeOK
    <3> QED BY <1>1, <2>2, <3>2, <3>3 DEF AtLeastZero
  <2>5. CASE root[e] # t
    <3>1. replyCount'[t] = replyCount[t]
      BY <1>2, <2>1, <2>5 DEF TypeOK
    <3>2. e # t \/ root[e] # NoComment
      BY <1>1, <2>1 DEF NormalTopLevel
    <3>3. NormalReplies(t) \ D = NormalReplies(t)
      BY <1>1, <2>1, <2>5, <3>2, CommentsAssumption DEF NormalReplies, NormalTopLevel
    <3> QED BY <2>2, <2>3, <3>1, <3>3
  <2> QED BY <2>4, <2>5
<1>14. TopLevelNeverOverstated'
  <2>1. CASE root[e] = NoComment
    <3>1. Cardinality(NormalTopLevel') \in Nat
          /\ Cardinality(NormalTopLevel') >= Cardinality(NormalTopLevel) - 1
          /\ Cardinality(NormalTopLevel) \in Nat
      BY <1>12, <2>1, CountsFinite, FS_RemoveElement, FS_CardinalityType
    <3> QED BY <1>2, <2>1, <3>1 DEF TopLevelNeverOverstated, AtLeastZero, TypeOK
  <2>2. CASE root[e] # NoComment
    BY <1>2, <1>12, <2>2 DEF TopLevelNeverOverstated
  <2> QED BY <2>1, <2>2
<1>15. RanksMatch' /\ DeltasMatchLikes'
  BY <1>2, <1>12 DEF RanksMatch, DeltasMatchLikes
<1> QED BY <1>7, <1>9, <1>10, <1>11, <1>13, <1>14, <1>15

\* Likes and deltas change together, and nothing else does.
LEMMA LikesKeep ==
    ASSUME IInv, NEW r, NEW c \in Comments, NEW u \in Users,
           (r \in Requests /\ CommitLike(r, u)) \/ Unlike(c, u)
    PROVE  IInv'
<1> USE DEF IInv, tree, counters, liked
<1>1. UNCHANGED <<status, tree, counters, visible>>
  BY DEF CommitLike, Unlike
<1>2. PICK d \in Comments : r \in Requests /\ CommitLike(r, u) => d = req[r].target
  <2>1. r \in Requests /\ CommitLike(r, u) => req[r].target \in Comments
    BY DEF CommitLike, RequestsMatchTree, MatchesTree
  <2> QED BY <2>1
<1>3. req' = req \/ \E x \in Requests : req' = [req EXCEPT ![x] = Idle]
  BY DEF CommitLike, Unlike
<1>4. req' \in [Requests -> Request] /\ RequestsMatchTree'
  BY <1>1, <1>3, IdleMatches, RequestsStay
<1>5. TreeWellFormed'
  BY <1>1 DEF TreeWellFormed, RootOf
<1>6. Normal' = Normal /\ NormalTopLevel' = NormalTopLevel
      /\ \A t : NormalReplies(t)' = NormalReplies(t)
  BY <1>1 DEF Normal, NormalTopLevel, NormalReplies
<1>7. TotalsExact' /\ ReplyCountsExact' /\ TopLevelNeverOverstated' /\ RanksMatch'
  BY <1>1, <1>6 DEF TotalsExact, ReplyCountsExact, TopLevelNeverOverstated, RanksMatch
<1>8. likes' \subseteq Comments \X Users /\ deltas' \in [Comments -> Int]
  BY <1>2 DEF TypeOK, CommitLike, Unlike
<1>9. DeltasMatchLikes'
  <2> SUFFICES ASSUME NEW x \in Comments
               PROVE  deltas'[x] = Cardinality({v \in Users : <<x, v>> \in likes'})
    BY DEF DeltasMatchLikes
  <2> DEFINE L == {v \in Users : <<x, v>> \in likes}
             M == {v \in Users : <<x, v>> \in likes'}
  <2>1. deltas[x] = Cardinality(L) /\ IsFiniteSet(L)
    BY CountsFinite DEF DeltasMatchLikes
  <2>2. CASE r \in Requests /\ CommitLike(r, u)
    <3>1. M = IF x = d THEN L \cup {u} ELSE L
      BY <1>2, <2>2 DEF CommitLike
    <3>2. deltas'[x] = IF x = d /\ u \notin L THEN deltas[x] + 1 ELSE deltas[x]
      BY <1>2, <2>2 DEF CommitLike, Changed, TypeOK
    <3> HIDE DEF L, M
    <3>3. Cardinality(M) = IF x = d /\ u \notin L THEN Cardinality(L) + 1 ELSE Cardinality(L)
      BY <2>1, <3>1, FS_AddElement
    <3> QED BY <2>1, <3>2, <3>3 DEF M
  <2>3. CASE Unlike(c, u)
    <3>1. M = (IF x = c THEN L \ {u} ELSE L) /\ (x = c => u \in L)
      BY <2>3 DEF Unlike
    <3>2. deltas'[x] = IF x = c THEN deltas[x] - 1 ELSE deltas[x]
      BY <2>3 DEF Unlike, TypeOK
    <3> HIDE DEF L, M
    <3>3. Cardinality(M) = IF x = c THEN Cardinality(L) - 1 ELSE Cardinality(L)
      BY <2>1, <3>1, FS_RemoveElement
    <3> QED BY <2>1, <3>2, <3>3 DEF M
  <2> QED BY <2>2, <2>3
<1>10. TypeOK'
  BY <1>1, <1>4, <1>8 DEF TypeOK
<1> QED BY <1>4, <1>5, <1>7, <1>9, <1>10

LEMMA InitInvariant == Init => IInv
<1> SUFFICES ASSUME Init PROVE IInv
  OBVIOUS
<1> USE DEF Init
<1>1. TypeOK
  BY IdleMatches DEF TypeOK
<1>2. TreeWellFormed
  BY CommentsAssumption DEF TreeWellFormed
<1>3. RequestsMatchTree
  BY IdleMatches DEF RequestsMatchTree
<1>4. Normal = {} /\ NormalTopLevel = {}
  BY DEF Normal, NormalTopLevel
<1>5. TotalsExact /\ ReplyCountsExact /\ TopLevelNeverOverstated /\ RanksMatch
  BY <1>4, FS_EmptySet DEF TotalsExact, ReplyCountsExact, TopLevelNeverOverstated, RanksMatch
<1>6. DeltasMatchLikes
  <2>1. \A c : {u \in Users : <<c, u>> \in likes} = {}
    OBVIOUS
  <2> QED BY <2>1, FS_EmptySet DEF DeltasMatchLikes
<1> QED BY <1>1, <1>2, <1>3, <1>5, <1>6 DEF IInv

LEMMA StutterKeeps ==
    ASSUME IInv, UNCHANGED vars
    PROVE  IInv'
<1> USE DEF IInv, vars, tree, counters, liked
<1>1. RequestsMatchTree'
  BY IdleMatches, RequestsStay
<1>2. Normal' = Normal /\ NormalTopLevel' = NormalTopLevel
      /\ \A t : NormalReplies(t)' = NormalReplies(t)
  BY DEF Normal, NormalTopLevel, NormalReplies
<1> QED BY <1>1, <1>2 DEF TypeOK, TreeWellFormed, RootOf, TotalsExact, ReplyCountsExact,
          TopLevelNeverOverstated, RanksMatch, DeltasMatchLikes

\* The invariant holds for any number of comments, users and transactions in
\* flight, whichever of them overlap and fail.
THEOREM Invariant == Spec => []IInv
<1>1. ASSUME IInv, [Next]_vars
      PROVE  IInv'
  <2>1. ASSUME NEW c \in Comments, CreateTopLevel(c) PROVE IInv'
    BY <1>1, <2>1, CreateTopLevelKeeps
  <2>2. ASSUME NEW c \in Comments, NEW u \in Users, Unlike(c, u) PROVE IInv'
    BY <1>1, <2>2, LikesKeep
  <2>3. ASSUME NEW r \in Requests, Reads(r) \/ TxFails(r) PROVE IInv'
    BY <1>1, <2>3, ReadsKeep
  <2>4. ASSUME NEW r \in Requests, Commits(r) PROVE IInv'
    <3>1. ASSUME NEW c \in Comments, CommitReply(r, c) PROVE IInv'
      BY <1>1, <3>1, CommitReplyKeeps
    <3>2. ASSUME CommitDelete(r) PROVE IInv'
      BY <1>1, <3>2, CommitDeleteKeeps
    <3>3. ASSUME NothingToDelete(r) PROVE IInv'
      BY <1>1, <3>3, ReadsKeep
    <3>4. ASSUME NEW u \in Users, CommitLike(r, u) PROVE IInv'
      <4>1. req[r].target \in Comments
        BY <1>1, <3>4 DEF IInv, CommitLike, RequestsMatchTree, MatchesTree
      <4> QED BY <1>1, <3>4, <4>1, LikesKeep
    <3> QED BY <2>4, <3>1, <3>2, <3>3, <3>4 DEF Commits
  <2>5. CASE UNCHANGED vars
    BY <1>1, <2>5, StutterKeeps
  <2> QED BY <1>1, <2>1, <2>2, <2>3, <2>4, <2>5 DEF Next
<1> QED BY <1>1, InitInvariant, PTL DEF Spec

\* The statistics of the post, and the events that others count by, are the
\* number of its comments.
THEOREM TotalsAreExact == Spec => []TotalsExact
<1>1. IInv => TotalsExact
  BY DEF IInv
<1> QED BY <1>1, Invariant, PTL

\* The reply count of every comment shown is the number of replies below it.
THEOREM RepliesAreCounted == Spec => []ReplyCountsExact
<1>1. IInv => ReplyCountsExact
  BY DEF IInv
<1> QED BY <1>1, Invariant, PTL

\* Every counter and the rank rows match the tree.
THEOREM CountersMatch == Spec => []CountersMatchTree
<1>1. IInv => CountersMatchTree
  BY DEF IInv, CountersMatchTree
<1> QED BY <1>1, Invariant, PTL

\* Like deltas add up to likes.
THEOREM LikesAreCounted == Spec => []DeltasMatchLikes
<1>1. IInv => DeltasMatchLikes
  BY DEF IInv
<1> QED BY <1>1, Invariant, PTL

=============================================================================
