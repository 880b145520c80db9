-------------------------------- MODULE Users --------------------------------
(***************************************************************************)
(* The user service: profiles and the follow and block relations between   *)
(* them.  A command reads profiles and blocks first and writes in a later  *)
(* transaction, so commands interleave between the two.  The repositories  *)
(* are ports without an adapter in the repository; they are modelled from  *)
(* what ports and tests say of them.  Events leave in the order their      *)
(* transactions commit, so what a subscriber has been told is state.       *)
(***************************************************************************)
EXTENDS Naturals, FiniteSets

CONSTANTS
    People,     \* accounts, each of which is one user once it has a profile
    Requests,   \* concurrent commands
    MaxVersion, \* changes of a profile's public part (bounds the model)
    Nobody      \* none of the People

VARIABLES
    profile,     \* profiles: status and profile_version
    follows,     \* pairs <<follower, following>>
    blocks,      \* pairs <<blocker, blocked>>
    toldFollows, \* what subscribers of user.followed and user.unfollowed believe
    toldBlocks,  \* and those of user.blocked and user.unblocked
    toldVersion, \* the last profile_version announced, by user
    created,     \* how often user.profile.created was announced
    late,        \* history: follows that were committed under a block
    request      \* commands between what they read and their transaction

vars == <<profile, follows, blocks, toldFollows, toldBlocks, toldVersion, created, late, request>>
profiles == <<profile, toldVersion, created>>
relations == <<follows, blocks, toldFollows, toldBlocks, late>>

Pairs == People \X People
Statuses == {"NONE", "ACTIVE", "DEACTIVATED", "DELETED"}
Profile == [status : Statuses, version : 0..MaxVersion]
Idle == [kind |-> "Idle", actor |-> Nobody, target |-> Nobody]
Request ==
    {Idle} \cup [kind : {"Create", "Update"}, actor : People, target : {Nobody}]
    \cup [kind : {"Follow", "Unfollow", "Block", "Unblock"}, actor : People, target : People]

Init ==
    /\ profile = [u \in People |-> [status |-> "NONE", version |-> 0]]
    /\ follows = {} /\ blocks = {} /\ toldFollows = {} /\ toldBlocks = {}
    /\ toldVersion = [u \in People |-> 0] /\ created = [u \in People |-> 0]
    /\ late = {}
    /\ request = [r \in Requests |-> Idle]

Active(u) == profile[u].status = "ACTIVE"
Exists(u) == profile[u].status # "NONE"
Ended(r) == request' = [request EXCEPT ![r] = Idle]
Issue(r, kind, a, t) ==
    /\ request[r] = Idle
    /\ request' = [request EXCEPT ![r] = [kind |-> kind, actor |-> a, target |-> t]]
    /\ UNCHANGED <<profiles, relations>>

-----------------------------------------------------------------------------
(* Profiles *)

\* The auth service asks for a profile; one that exists is answered at once.
FindByAccountID(r, u) == ~Exists(u) /\ Issue(r, "Create", u, Nobody)

\* The unique key decides which of two concurrent calls inserts.
Created(u) == ~Exists(u)

CreateProfileForAccount(r) ==
    LET u == request[r].actor IN
    /\ request[r].kind = "Create"
    /\ profile' = [profile EXCEPT ![u].status = IF Exists(u) THEN @ ELSE "ACTIVE"]
    /\ created' = [created EXCEPT ![u] = IF Created(u) THEN @ + 1 ELSE @]
    /\ Ended(r) /\ UNCHANGED <<toldVersion, relations>>

\* A DELETED profile is "indistinguishable from missing", and any but an ACTIVE one
\* is refused.
LoadForUpdate(r, u) == Active(u) /\ Issue(r, "Update", u, Nobody)

\* The repository increments the version the row has by now.  A change of the
\* private part only is neither counted nor announced.
UpdateProfile(r) ==
    LET u == request[r].actor IN
    /\ request[r].kind = "Update"
    /\ \/ /\ profile[u].version < MaxVersion
          /\ profile' = [profile EXCEPT ![u].version = @ + 1]
          /\ toldVersion' = [toldVersion EXCEPT ![u] = profile'[u].version]
       \/ UNCHANGED <<profile, toldVersion>>
    /\ Ended(r) /\ UNCHANGED <<created, relations>>

Transition(u, from, to) ==
    /\ profile[u].status \in from
    /\ profile' = [profile EXCEPT ![u].status = to]
    /\ UNCHANGED <<toldVersion, created, relations, request>>

DeactivateUserProfile(u) == Transition(u, {"ACTIVE"}, "DEACTIVATED")
MarkUserDeleted(u) == Transition(u, {"ACTIVE", "DEACTIVATED"}, "DELETED")
RestoreDeletedUserProfile(u) == Transition(u, {"DELETED"}, "ACTIVE")

-----------------------------------------------------------------------------
(* Relations *)

AnyDirectionBlocked(a, t) == <<a, t>> \in blocks \/ <<t, a>> \in blocks

\* What the commands check before their transaction
PlanFollow(a, t) == a # t /\ Active(a) /\ Active(t) /\ ~AnyDirectionBlocked(a, t)
PlanUnfollow(a, t) == a # t /\ Active(a) /\ Exists(t)
PlanBlock(a, t) == a # t /\ Active(a) /\ Active(t)
PlanUnblock(a, t) == PlanUnfollow(a, t)

LoadActorAndTarget(r, a, t) ==
    \/ PlanFollow(a, t) /\ Issue(r, "Follow", a, t)
    \/ PlanUnfollow(a, t) /\ Issue(r, "Unfollow", a, t)
    \/ PlanBlock(a, t) /\ Issue(r, "Block", a, t)
    \/ PlanUnblock(a, t) /\ Issue(r, "Unblock", a, t)

Pair(r) == <<request[r].actor, request[r].target>>
Reverse(p) == <<p[2], p[1]>>

\* Only a row that was inserted or deleted is announced.
FollowUser(r) ==
    LET p == Pair(r) IN
    /\ request[r].kind = "Follow"
    /\ follows' = follows \cup {p}
    /\ toldFollows' = IF p \in follows THEN toldFollows ELSE toldFollows \cup {p}
    /\ late' = IF p \notin follows /\ AnyDirectionBlocked(p[1], p[2]) THEN late \cup {p} ELSE late
    /\ Ended(r) /\ UNCHANGED <<blocks, toldBlocks, profiles>>

UnfollowUser(r) ==
    /\ request[r].kind = "Unfollow"
    /\ follows' = follows \ {Pair(r)} /\ late' = late \ {Pair(r)}
    /\ toldFollows' = IF Pair(r) \in follows THEN toldFollows \ {Pair(r)} ELSE toldFollows
    /\ Ended(r) /\ UNCHANGED <<blocks, toldBlocks, profiles>>

WrongRemovedFollows(p) == {p}

\* Both directions
RemovedFollows(p) == {p, Reverse(p)}

Announced(removed) == removed

\* A block that exists already changes nothing, not even follows made under it.
BlockUser(r) ==
    LET p == Pair(r)
        removed == IF p \in blocks THEN {} ELSE RemovedFollows(p) \cap follows
    IN
    /\ request[r].kind = "Block"
    /\ blocks' = blocks \cup {p} /\ toldBlocks' = toldBlocks \cup {p}
    /\ follows' = follows \ removed /\ late' = late \ removed
    /\ toldFollows' = toldFollows \ Announced(removed)
    /\ Ended(r) /\ UNCHANGED profiles

UnblockUser(r) ==
    /\ request[r].kind = "Unblock"
    /\ blocks' = blocks \ {Pair(r)} /\ toldBlocks' = toldBlocks \ {Pair(r)}
    /\ Ended(r) /\ UNCHANGED <<follows, toldFollows, late, profiles>>

\* A failed read, call or transaction of a command changes nothing.
Abandon(r) == request[r] # Idle /\ Ended(r) /\ UNCHANGED <<profiles, relations>>

-----------------------------------------------------------------------------
Next ==
    \/ \E u \in People :
          DeactivateUserProfile(u) \/ MarkUserDeleted(u) \/ RestoreDeletedUserProfile(u)
    \/ \E r \in Requests :
          \/ \E u \in People : FindByAccountID(r, u) \/ LoadForUpdate(r, u)
          \/ \E a, t \in People : LoadActorAndTarget(r, a, t)
          \/ CreateProfileForAccount(r) \/ UpdateProfile(r) \/ Abandon(r)
          \/ FollowUser(r) \/ UnfollowUser(r) \/ BlockUser(r) \/ UnblockUser(r)

Spec == Init /\ [][Next]_vars

-----------------------------------------------------------------------------
(* What holds of every reachable state *)

TypeOK ==
    /\ profile \in [People -> Profile] /\ follows \subseteq Pairs /\ blocks \subseteq Pairs
    /\ toldFollows \subseteq Pairs /\ toldBlocks \subseteq Pairs /\ late \subseteq Pairs
    /\ toldVersion \in [People -> 0..MaxVersion] /\ created \in [People -> Nat]
    /\ request \in [Requests -> Request]

\* Nobody follows across a block, in either direction, except by a follow that read
\* the relations before the block and was committed after it.
BlocksEndFollows == \A p \in follows : AnyDirectionBlocked(p[1], p[2]) => p \in late

\* Whoever applies the events in order has the relations, the versions and the
\* users that the rows have, whichever commands overlapped or found nothing to do.
EventsMatchRows ==
    /\ toldFollows = follows /\ toldBlocks = blocks
    /\ \A u \in People :
          /\ toldVersion[u] = profile[u].version
          /\ created[u] = (IF Exists(u) THEN 1 ELSE 0)
=============================================================================
