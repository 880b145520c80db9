--------------------------------- MODULE Tags ---------------------------------
(***************************************************************************)
(* Tags of posts in the content service, and the statistics that every     *)
(* change of a post's tags counts anew.  A transaction locks its post, not *)
(* the posts it counts, and under READ COMMITTED its count sees only what  *)
(* others have committed.  Publishing belongs to ContentPosts; here it is  *)
(* the step that moves a post in or out of the count.                      *)
(***************************************************************************)
EXTENDS Naturals, Sequences, SequencesExt, FiniteSets, Functions

CONSTANTS
    Posts, TagSet,  \* TagSet: the active tags, by their slugs
    Unknown,        \* a slug that no active tag has
    Malformed,      \* one the pattern refuses
    Requests,       \* concurrent changes of tags
    MaxPostTags,    \* maxPostTagCount
    MaxVersion      \* changes of a post (bounds the model)

VARIABLES
    post,     \* posts: status, post_version and their tags with their positions
    stats,    \* tag_stats.post_count
    request,  \* what a transaction was asked for, has locked and counted
    read,     \* history: the tags of each version of a post, as clients read them
    stale     \* history: tags whose posts changed since, or while, they were counted

vars == <<post, stats, request, read, stale>>

NoPost == "no_post"
Untagged == [t \in {} |-> 0]
Idle == [post |-> NoPost, tags |-> Untagged, base |-> Untagged,
         count |-> [t \in TagSet |-> 0], counted |-> {}, missed |-> {}]
Slugs == TagSet \cup {Unknown, Malformed}

\* Version 1 is the one a post has, a draft or published, when the model begins.
Init ==
    /\ \E shown \in [Posts -> BOOLEAN] : post = [p \in Posts |->
          [published |-> shown[p], deleted |-> FALSE, version |-> 1, tags |-> Untagged]]
    /\ stats = [t \in TagSet |-> 0]
    /\ request = [r \in Requests |-> Idle]
    /\ read = [p \in Posts |-> [v \in 1..MaxVersion |-> Untagged]] /\ stale = {}

\* "Trimmed, lower case"; a repeated slug counts once, where it came first: its position
\* is the number of slugs before that.
Before(raw, slug) == {raw[i] : i \in {j \in DOMAIN raw : \A k \in 1..j : raw[k] # slug}}
NormalizeTagSlugs(raw) == [slug \in ToSet(raw) |-> Cardinality(Before(raw, slug))]

ValidTags(raw) == Len(raw) <= MaxPostTags /\ ~Contains(raw, Malformed)

Shows(x, t) == x.published /\ ~x.deleted /\ t \in DOMAIN x.tags

Counted(t, posts) == Cardinality({p \in Posts : Shows(posts[p], t)})

Locked == {request[r].post : r \in Requests}

WrongSameVersion(p, version) == TRUE
SameVersion(p, version) == post[p].version = version

\* The tags that are counted anew: those the post had and those it gets
Refreshed(old, new) == DOMAIN old \cup DOMAIN new

\* A transaction locks the post it may change.
GetForUpdate(r, p, version) ==
    /\ request[r] = Idle /\ p \notin Locked
    /\ ~post[p].deleted /\ SameVersion(p, version) /\ post[p].version < MaxVersion

\* It writes the tags of the post and counts.  A tag that is not found rolls it back, as
\* does every check; a removal counts its tag whether the post had it or not.
MutatePostTags(r, p, version, tags, refreshed) ==
    /\ DOMAIN tags \subseteq TagSet
    /\ LET after == [post EXCEPT ![p].tags = tags] IN
       request' = [request EXCEPT ![r] =
           [post |-> p, tags |-> tags, base |-> read[p][version],
            counted |-> refreshed, missed |-> {},
            count |-> [t \in TagSet |-> IF t \in refreshed THEN Counted(t, after) ELSE 0]]]
    /\ UNCHANGED <<post, stats, read, stale>>

ReplacePostTags(r, p, version, raw) ==
    LET slugs == NormalizeTagSlugs(raw) IN
    /\ ValidTags(raw)
    /\ MutatePostTags(r, p, version, slugs, Refreshed(post[p].tags, slugs))

RemovePostTag(r, p, version, slug) ==
    /\ slug \in TagSet
    /\ MutatePostTags(r, p, version,
                      Restrict(post[p].tags, DOMAIN post[p].tags \ {slug}), {slug})

\* Those who have counted tags and not committed miss what happens to them now.
Missed(tags, but) == [r \in Requests |->
    IF r = but THEN Idle
    ELSE [request[r] EXCEPT !.missed = @ \cup (tags \cap request[r].counted)]]

\* The rows of tag_stats, the version and the commit
TouchPostTags(r) ==
    LET x == request[r]
        p == x.post
    IN
    /\ p # NoPost
    /\ post' = [post EXCEPT ![p].tags = x.tags, ![p].version = @ + 1]
    /\ read' = [read EXCEPT ![p][post[p].version + 1] = x.tags]
    /\ stats' = [t \in TagSet |-> IF t \in x.counted THEN x.count[t] ELSE stats[t]]
    /\ stale' = (stale \ x.counted) \cup x.missed
    /\ request' = Missed(x.counted, r)

Rollback(r) ==
    /\ request[r] # Idle /\ request' = [request EXCEPT ![r] = Idle]
    /\ UNCHANGED <<post, stats, read, stale>>

\* PublishPost, UnpublishPost, DeletePost and RestorePost: none of them counts.
PublishOrHide(p) ==
    /\ p \notin Locked /\ post[p].version < MaxVersion
    /\ \E published, deleted \in BOOLEAN :
          /\ <<published, deleted>> # <<post[p].published, post[p].deleted>>
          /\ post' = [post EXCEPT ![p].published = published, ![p].deleted = deleted,
                                  ![p].version = @ + 1]
    /\ read' = [read EXCEPT ![p][post[p].version + 1] = post[p].tags]
    /\ stale' = stale \cup DOMAIN post[p].tags
    /\ request' = Missed(DOMAIN post[p].tags, NoPost)
    /\ UNCHANGED stats

Next ==
    \/ \E p \in Posts : PublishOrHide(p)
    \/ \E r \in Requests :
          \/ \E p \in Posts, version \in 1..MaxVersion :
             /\ GetForUpdate(r, p, version)
             /\ \/ \E raw \in BoundedSeq(Slugs, MaxPostTags + 1) :
                      ReplacePostTags(r, p, version, raw)
                \/ \E slug \in Slugs : RemovePostTag(r, p, version, slug)
          \/ TouchPostTags(r) \/ Rollback(r)

Spec == Init /\ [][Next]_vars

-----------------------------------------------------------------------------
Tagging == UNION {[T -> 0..MaxPostTags - 1] : T \in SUBSET TagSet}
Post == [published : BOOLEAN, deleted : BOOLEAN, version : 1..MaxVersion, tags : Tagging]
Request == [post : Posts \cup {NoPost}, tags : Tagging, base : Tagging,
            count : [TagSet -> 0..Cardinality(Posts)],
            counted : SUBSET TagSet, missed : SUBSET TagSet]

TypeOK ==
    /\ post \in [Posts -> Post] /\ request \in [Requests -> Request]
    /\ stats \in [TagSet -> 0..Cardinality(Posts)] /\ stale \subseteq TagSet
    /\ read \in [Posts -> [1..MaxVersion -> Tagging]]

\* A tag's count is the number of published posts that have it, unless posts of it were
\* published, hidden or tagged since or while it was counted; and whoever changes the
\* tags of a post changes those that it read, never another's.
TagsConsistent ==
    /\ \A t \in TagSet \ stale : stats[t] = Counted(t, post)
    /\ \A r \in Requests : request[r].post # NoPost =>
          request[r].base = post[request[r].post].tags
    /\ \A p \in Posts : IsInjective(post[p].tags)

-----------------------------------------------------------------------------
(* What the above follows from, by induction *)

VersionsAreRead == \A p \in Posts : read[p][post[p].version] = post[p].tags

LocksAreOwned ==
    \A r \in Requests : request[r].post # NoPost =>
        /\ post[request[r].post].version < MaxVersion
        /\ \A s \in Requests \ {r} : request[s].post # request[r].post

\* What a transaction that has counted will find when it commits: tags it did not count
\* stay where they are, and what it counted is right unless others committed meanwhile.
After(x) == [post EXCEPT ![x.post].tags = x.tags]

CountsAreRight(x) ==
    x.post # NoPost =>
        /\ IsInjective(x.tags)
        /\ \A t \in TagSet \ x.counted : t \in DOMAIN x.tags <=> t \in DOMAIN post[x.post].tags
        /\ \A t \in x.counted \ x.missed : x.count[t] = Counted(t, After(x))

IInv ==
    /\ TypeOK /\ TagsConsistent /\ VersionsAreRead /\ LocksAreOwned
    /\ \A r \in Requests : CountsAreRight(request[r])
=============================================================================
