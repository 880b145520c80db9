--------------------------- MODULE Campaigns_proofs ---------------------------
(***************************************************************************)
(* Campaigns for any followers, workers, ids, batch size and faults: no    *)
(* follower is passed over, a shard is closed by the worker that claimed   *)
(* it last, its cursor never falls, and its count of notifications is never *)
(* larger than the inbox.                                                  *)
(***************************************************************************)
EXTENDS Campaigns, FiniteSetTheorems, WellFoundedInduction, TLAPS

-----------------------------------------------------------------------------
(* Pages *)

\* A finite set of numbers has a least and a largest element.
LEMMA Extremes ==
    ASSUME NEW P \in SUBSET Nat, IsFiniteSet(P), P # {}
    PROVE  /\ \E f \in P : \A g \in P : f <= g
           /\ \E f \in P : \A g \in P : g <= f
<1> DEFINE Below(f) == {g \in P : g < f}
           Above(f) == {g \in P : f < g}
           R == StrictSubsetOrdering(P)
           Finite == FiniteSubsetsOf(P)
<1>1. IsWellFoundedOn(R, Finite)
  BY FS_StrictSubsetOrderingWellFounded
<1>2. \A T \in SUBSET P : T \in Finite
  BY FS_Subset DEF FiniteSubsetsOf
<1>3. \A S, T \in SUBSET P : S \subseteq T /\ S # T => <<S, T>> \in R
  BY DEF StrictSubsetOrdering
<1>4. \E f \in P : \A g \in P : f <= g
  <2> DEFINE A == {Below(f) : f \in P}
  <2>1. A \subseteq Finite /\ A # {}
    BY <1>2
  <2> HIDE DEF R, Finite
  <2>2. PICK x \in A : \A y \in A : <<y, x>> \notin R
    BY <1>1, <2>1, WFMin
  <2>3. PICK f \in P : x = Below(f)
    OBVIOUS
  <2>4. ASSUME NEW g \in P, ~(f <= g) PROVE FALSE
    <3> g \in Nat /\ f \in Nat /\ g < f
      BY <2>4
    <3>1. \A h \in Below(g) : h \in P /\ h < f
      OBVIOUS
    <3>2. Below(g) \subseteq Below(f)
      BY <3>1
    <3>3. g \in Below(f) /\ g \notin Below(g)
      OBVIOUS
    <3>4. <<Below(g), Below(f)>> \in R
      BY <1>3, <3>2, <3>3
    <3> QED BY <2>2, <2>3, <3>4
  <2> QED BY <2>4
<1>5. \E f \in P : \A g \in P : g <= f
  <2> DEFINE A == {Above(f) : f \in P}
  <2>1. A \subseteq Finite /\ A # {}
    BY <1>2
  <2> HIDE DEF R, Finite
  <2>2. PICK x \in A : \A y \in A : <<y, x>> \notin R
    BY <1>1, <2>1, WFMin
  <2>3. PICK f \in P : x = Above(f)
    OBVIOUS
  <2>4. ASSUME NEW g \in P, ~(g <= f) PROVE FALSE
    <3> g \in Nat /\ f \in Nat /\ f < g
      BY <2>4
    <3>1. \A h \in Above(g) : h \in P /\ f < h
      OBVIOUS
    <3>2. Above(g) \subseteq Above(f)
      BY <3>1
    <3>3. g \in Above(f) /\ g \notin Above(g)
      OBVIOUS
    <3>4. <<Above(g), Above(f)>> \in R
      BY <1>3, <3>2, <3>3
    <3> QED BY <2>2, <2>3, <3>4
  <2> QED BY <2>4
<1> QED BY <1>4, <1>5

LEMMA FollowersFinite ==
    ASSUME NEW P \in SUBSET Followers
    PROVE  P \in SUBSET Nat /\ IsFiniteSet(P) /\ \A f \in P : f > 0
<1>1. Followers \subseteq Nat \ {0} /\ IsFiniteSet(Followers)
  BY CampaignsAssumption
<1>2. IsFiniteSet(P)
  BY <1>1, FS_Subset
<1> QED BY <1>1, <1>2

LEMMA LargestOfPage ==
    ASSUME NEW P \in SUBSET Followers, P # {}
    PROVE  Largest(P) \in P /\ \A g \in P : g <= Largest(P)
<1>1. \E f \in P : \A g \in P : g <= f
  BY Extremes, FollowersFinite
<1> QED BY <1>1 DEF Largest

\* What the user service returns: the first of those after the cursor, and somebody if
\* there is anybody.
LEMMA PageOfFollowers ==
    ASSUME audience \in SUBSET Followers, NEW cursor \in Nat
    PROVE  /\ Page(cursor) \subseteq After(cursor)
           /\ After(cursor) \in SUBSET Followers
           /\ After(cursor) # {} => Page(cursor) # {}
           /\ \A f \in After(cursor) \ Page(cursor), g \in Page(cursor) : g < f
<1> DEFINE A == After(cursor)
           UpTo(f) == {g \in A : g <= f}
<1>1. A \in SUBSET Followers /\ A \in SUBSET Nat /\ IsFiniteSet(A)
  BY FollowersFinite DEF After
<1>2. Page(cursor) = {f \in A : Cardinality(UpTo(f)) <= BatchSize}
  BY DEF Page
<1>3. \A f : IsFiniteSet(UpTo(f)) /\ Cardinality(UpTo(f)) \in Nat
  BY <1>1, FS_Subset, FS_CardinalityType
<1>4. ASSUME A # {} PROVE Page(cursor) # {}
  <2>1. PICK f \in A : \A g \in A : f <= g
    BY <1>1, <1>4, Extremes
  <2>2. UpTo(f) = {f}
    BY <1>1, <2>1
  <2>3. Cardinality(UpTo(f)) = 1
    BY <2>2, FS_Singleton
  <2> QED BY <1>2, <2>3, CampaignsAssumption
<1>5. ASSUME NEW f \in A \ Page(cursor), NEW g \in Page(cursor), ~(g < f)
      PROVE  FALSE
  <2>1. UpTo(f) \subseteq UpTo(g)
    BY <1>1, <1>2, <1>5
  <2>2. Cardinality(UpTo(f)) <= Cardinality(UpTo(g))
    BY <1>3, <2>1, FS_Subset
  <2>3. Cardinality(UpTo(g)) <= BatchSize /\ ~(Cardinality(UpTo(f)) <= BatchSize)
    BY <1>2
  <2>4. BatchSize \in Nat
    BY CampaignsAssumption
  <2> QED BY <1>3, <2>2, <2>3, <2>4
<1> QED BY <1>1, <1>2, <1>4, <1>5

-----------------------------------------------------------------------------
(* The ledger *)

\* A row of the ledger is written once.
LEMMA DeliveryRow ==
    ASSUME TypeOK, NEW c \in Campaigns, NEW f \in Followers, NEW fresh
    PROVE  LET row == DeliveryOf(c, f, fresh) IN
           /\ row \in [Channels -> DeliveryStatuses]
           /\ \A h \in Channels : delivery[c][f][h] # "NONE" => row[h] # "NONE"
           /\ decision[f] = "SKIP" => row["IN_APP"] # "NONE"
           /\ decision[f] = "DIGEST" => row["EMAIL"] # "NONE"
<1>1. delivery[c][f] \in [Channels -> DeliveryStatuses] /\ decision[f] \in Decisions
  BY DEF TypeOK
<1> QED BY <1>1 DEF DeliveryOf, Recorded, Channels, DeliveryStatuses, Decisions

\* What is stored reaches everybody of the page, and what was stored stays.
LEMMA StoredPage ==
    ASSUME TypeOK, NEW c \in Campaigns, NEW page \in SUBSET Followers, Stores(c, page)
    PROVE  /\ inbox' \subseteq Campaigns \X Followers
           /\ delivery' \in [Campaigns -> [Followers -> [Channels -> DeliveryStatuses]]]
           /\ \A d \in Campaigns, f \in Followers : Told(d, f) => Told(d, f)'
           /\ \A f \in page : Told(c, f)'
<1> DEFINE fresh == Fresh(c, page)
<1>1. fresh \subseteq Followers /\ fresh \subseteq page
  BY DEF Fresh
<1>2. inbox' = inbox \cup {<<c, f>> : f \in fresh}
  BY DEF Stores
<1>3. inbox' \subseteq Campaigns \X Followers
  BY <1>1, <1>2 DEF TypeOK
<1> DEFINE Row(f) == IF f \in page \ {Author} THEN DeliveryOf(c, f, fresh) ELSE delivery[c][f]
<1>4. delivery' = [delivery EXCEPT ![c] = [f \in Followers |-> Row(f)]]
  BY DEF Stores
<1>5. \A f \in Followers :
          /\ delivery[c][f] \in [Channels -> DeliveryStatuses]
          /\ Row(f) \in [Channels -> DeliveryStatuses]
          /\ \A h \in Channels : delivery[c][f][h] # "NONE" => Row(f)[h] # "NONE"
  BY DeliveryRow DEF TypeOK
<1> HIDE DEF Row
<1>6. delivery' \in [Campaigns -> [Followers -> [Channels -> DeliveryStatuses]]]
  BY <1>4, <1>5 DEF TypeOK
<1>7. \A d \in Campaigns, f \in Followers :
          delivery'[d][f] = IF d = c THEN Row(f) ELSE delivery[d][f]
  BY <1>4 DEF TypeOK
<1>8. ASSUME NEW d \in Campaigns, NEW f \in Followers, Told(d, f) PROVE Told(d, f)'
  BY <1>2, <1>5, <1>7, <1>8 DEF Told
<1>9. ASSUME NEW f \in page, f # Author PROVE Told(c, f)'
  <2>1. decision[f] \in Decisions /\ f \in Followers
    BY DEF TypeOK
  <2>2. delivery'[c][f] = DeliveryOf(c, f, fresh)
    BY <1>7, <1>9 DEF Row
  <2>3. CASE decision[f] = "SKIP"
    BY <2>1, <2>2, <2>3, DeliveryRow DEF Told, Channels
  <2>4. CASE decision[f] = "DIGEST"
    BY <2>1, <2>2, <2>4, DeliveryRow DEF Told, Channels
  <2>5. CASE Notified(decision[f])
    <3>1. f \in fresh \/ <<c, f>> \in inbox
      BY <1>9, <2>5 DEF Fresh
    <3> QED BY <1>2, <3>1 DEF Told
  <2> QED BY <2>1, <2>3, <2>4, <2>5 DEF Decisions, Notified
<1>10. \A f \in page : Told(c, f)'
  BY <1>9 DEF Told
<1> QED BY <1>3, <1>6, <1>8, <1>10

-----------------------------------------------------------------------------
(* Steps of the workers W, and what the others see of them *)

\* The followers a campaign has reached stay reached.
Reached == \A c \in Campaigns, f \in Followers : Told(c, f) => Told(c, f)'

\* Whoever holds a lease that no one of W took sees the shard as it was.
LeasesKept(W) ==
    /\ \A c \in Campaigns : shard'[c].lease \in Nat /\ shard[c].lease <= shard'[c].lease
    /\ \A v \in Workers \ W :
          LET c == worker[v].campaign IN
          /\ worker[v].step # "Claim" /\ Holds(v)
          /\ shard'[c].lease = shard[c].lease
          => /\ shard'[c].status = "PROCESSING" /\ shard'[c].cursor = shard[c].cursor
             /\ holder'[c] = v

LEMMA WorkersStep ==
    ASSUME TypeOK, WorkersCurrent, NEW W \in SUBSET Workers,
           \A v \in Workers \ W : worker'[v] = worker[v],
           \A w \in W : worker'[w].step = "Claim" \/ Current(w)',
           \A c \in Campaigns : stayed'[c] \subseteq stayed[c] \/ shard[c].status = "NONE",
           Reached, LeasesKept(W)
    PROVE  WorkersCurrent'
<1>1. ASSUME NEW v \in Workers \ W, worker[v].step # "Claim"
      PROVE  Current(v)'
  <2> DEFINE x == worker[v]
             c == x.campaign
  <2>1. Current(v)
    BY <1>1 DEF WorkersCurrent
  <2>2. worker'[v] = x /\ c \in Campaigns /\ x \in Worker
    BY <2>1 DEF Current, TypeOK
  <2>3. x.lease \in Nat /\ shard[c].lease \in Nat /\ x.page \subseteq Followers
    BY <2>2 DEF TypeOK, Worker, Shard
  <2>4. x.lease <= shard'[c].lease
    BY <2>1, <2>2, <2>3 DEF Current, LeasesKept
  <2>5. x.step = "Complete" => /\ x.success <= Cardinality(x.page)
                               /\ \A f \in x.page : Told(c, f)'
    BY <2>1, <2>2, <2>3 DEF Current, Reached
  <2>6. CASE Holds(v)'
    <3>1. shard'[c].lease = x.lease
      BY <2>2, <2>6 DEF Holds
    <3>2. shard[c].lease = x.lease
      BY <2>1, <2>2, <2>3, <3>1 DEF Current, LeasesKept
    <3>3. Holds(v)
      BY <1>1, <3>2 DEF Holds
    <3>4. /\ shard'[c].status = "PROCESSING" /\ shard'[c].cursor = shard[c].cursor
          /\ holder'[c] = v
      BY <1>1, <3>1, <3>2, <3>3 DEF LeasesKept
    <3>5. stayed'[c] \subseteq stayed[c]
      BY <2>1, <2>2, <3>3 DEF Current
    <3> QED BY <2>1, <2>2, <2>4, <2>5, <3>3, <3>4, <3>5 DEF Current
  <2>7. CASE ~Holds(v)'
    BY <2>1, <2>2, <2>4, <2>5, <2>7 DEF Current
  <2> QED BY <2>6, <2>7
<1>2. ASSUME NEW v \in Workers, worker'[v].step # "Claim" PROVE Current(v)'
  BY <1>1, <1>2
<1> QED BY <1>2 DEF WorkersCurrent

\* The worker that may close a shard is the one that claimed it last.
LEMMA OwnerHolds ==
    ASSUME TypeOK, WorkersCurrent, NEW w \in Workers, worker[w].step # "Claim", Owns(w)
    PROVE  LET c == worker[w].campaign IN
           /\ c \in Campaigns /\ Holds(w) /\ holder[c] = w /\ worker[w].cursor = shard[c].cursor
           /\ \A v \in Workers : worker[v].step # "Claim" /\ worker[v].campaign = c /\ Holds(v)
                                  => v = w
BY DEF WorkersCurrent, Current, Owns, Holds

\* Nobody is passed over where the shards have not moved.
LEMMA PassedStep ==
    ASSUME NobodyPassedOver, stayed \in [Campaigns -> SUBSET Followers], Reached,
           \A c \in Campaigns : stayed'[c] \cap Passed(c)' \subseteq stayed[c] \cap Passed(c)
    PROVE  NobodyPassedOver'
BY DEF NobodyPassedOver, Reached
-----------------------------------------------------------------------------
(* Each action keeps the invariant *)

LEMMA FreeIsWorker == Free \in Worker
<1>1. Free = [step |-> "Claim", campaign |-> NoCampaign, lease |-> 0, cursor |-> 0,
              page |-> {}, more |-> FALSE, success |-> 0]
  BY DEF Free
<1> QED BY <1>1 DEF Worker

LEMMA FaultsStay ==
    ASSUME TypeOK, NEW kind, Fault(kind) \/ UNCHANGED faults
    PROVE  faults' \in 0..MaxFaults
BY CampaignsAssumption DEF TypeOK, Fault

LEMMA PlanKeeps ==
    ASSUME IInv, NEW c \in Campaigns, PlanPostPublishedCampaign(c)
    PROVE  IInv'
<1> USE DEF PlanPostPublishedCampaign
<1>1. TypeOK'
  BY DEF IInv, TypeOK, Shard
<1>2. Reached
  BY DEF Reached, Told
<1>3. shard[c] = NoShard /\ shard'[c] = [NoShard EXCEPT !.status = "PENDING"]
  BY DEF IInv, TypeOK, CampaignsWellFormed
<1>4. \A d \in Campaigns \ {c} : shard'[d] = shard[d] /\ stayed'[d] = stayed[d]
  BY DEF IInv, TypeOK
<1>5. LeasesKept({})
  <2>1. \A d \in Campaigns : shard'[d].lease = shard[d].lease /\ shard[d].lease \in Nat
    BY <1>3, <1>4 DEF NoShard, IInv, TypeOK, Shard
  <2>2. ASSUME NEW v \in Workers, worker[v].step # "Claim", Holds(v)
        PROVE  LET d == worker[v].campaign IN
               /\ shard'[d].status = "PROCESSING" /\ shard'[d].cursor = shard[d].cursor
               /\ holder'[d] = v
    BY <1>4, <2>2 DEF IInv, WorkersCurrent, Current
  <2> QED BY <2>1, <2>2 DEF LeasesKept
<1>6. WorkersCurrent'
  BY <1>2, <1>4, <1>5, WorkersStep DEF IInv
<1>7. Passed(c)' = {}
  BY <1>3, FollowersFinite DEF Passed, NoShard
<1>8. NobodyPassedOver'
  BY <1>2, <1>4, <1>7, PassedStep DEF IInv, TypeOK, Passed
<1>9. CampaignsWellFormed'
  BY <1>3, <1>4 DEF IInv, TypeOK, CampaignsWellFormed, NoShard
<1> QED BY <1>1, <1>6, <1>8, <1>9 DEF IInv

\* A step of workers that moves no shard and stores nothing.
LEMMA QuietStep ==
    ASSUME IInv, NEW W \in SUBSET Workers, TypeOK',
           UNCHANGED <<shard, inbox, delivery, holder>>,
           \A v \in Workers \ W : worker'[v] = worker[v],
           \A w \in W : worker'[w].step = "Claim" \/ Current(w)',
           \A c \in Campaigns : stayed'[c] \subseteq stayed[c] /\ stayed'[c] \subseteq audience'
    PROVE  IInv'
<1>1. Reached
  BY DEF Reached, Told
<1>2. LeasesKept(W)
  BY DEF LeasesKept, IInv, WorkersCurrent, Current, TypeOK, Shard
<1>3. WorkersCurrent'
  BY <1>1, <1>2, WorkersStep DEF IInv
<1>4. NobodyPassedOver'
  BY <1>1, PassedStep DEF IInv, TypeOK, Passed
<1>5. CampaignsWellFormed'
  BY DEF IInv, CampaignsWellFormed
<1> QED BY <1>3, <1>4, <1>5 DEF IInv

LEMMA UsersKeep ==
    ASSUME IInv, NEW f \in Followers, FollowOrUnfollow(f) \/ ChangeSettings(f)
    PROVE  IInv'
<1>1. TypeOK'
  <2>1. faults' \in 0..MaxFaults
    BY FaultsStay DEF IInv, FollowOrUnfollow, ChangeSettings
  <2>2. audience' \subseteq Followers /\ stayed' \in [Campaigns -> SUBSET Followers]
    BY DEF IInv, TypeOK, FollowOrUnfollow, ChangeSettings
  <2>3. decision' \in [Followers -> Decisions]
    BY DEF IInv, TypeOK, FollowOrUnfollow, ChangeSettings
  <2> QED BY <2>1, <2>2, <2>3 DEF IInv, TypeOK, FollowOrUnfollow, ChangeSettings
<1>2. \A c \in Campaigns : stayed'[c] \subseteq stayed[c] /\ stayed'[c] \subseteq audience'
  BY DEF IInv, TypeOK, CampaignsWellFormed, FollowOrUnfollow, ChangeSettings
<1>3. UNCHANGED <<shard, inbox, delivery, holder>> /\ worker' = worker
  BY DEF FollowOrUnfollow, ChangeSettings
<1>4. {} \in SUBSET Workers /\ \A v \in Workers \ {} : worker'[v] = worker[v]
  BY <1>3
<1>5. \A w \in {} : worker'[w].step = "Claim" \/ Current(w)'
  OBVIOUS
<1> QED BY <1>1, <1>2, <1>3, <1>4, <1>5, QuietStep

LEMMA ClaimKeeps ==
    ASSUME IInv, NEW w \in Workers, NEW c \in Campaigns, ClaimCampaignShard(w, c)
    PROVE  IInv'
<1> USE DEF ClaimCampaignShard
<1>1. shard[c] \in Shard /\ shard[c].status # "NONE"
  BY DEF Due, IInv, TypeOK
<1>2. /\ shard'[c].status = "PROCESSING" /\ shard'[c].lease = shard[c].lease + 1
      /\ shard'[c].cursor = shard[c].cursor
      /\ \A d \in Campaigns \ {c} : shard'[d] = shard[d]
  BY DEF IInv, TypeOK, Shard
<1>3. worker'[w] = [Free EXCEPT !.step = "Fetch", !.campaign = c,
                                !.lease = shard[c].lease + 1, !.cursor = shard[c].cursor]
  BY DEF IInv, TypeOK
<1>4. TypeOK'
  <2>1. worker'[w] \in Worker
    <3> HIDE DEF ClaimCampaignShard
    <3>1. worker'[w] = [step |-> "Fetch", campaign |-> c, lease |-> shard[c].lease + 1,
                        cursor |-> shard[c].cursor, page |-> {}, more |-> FALSE, success |-> 0]
      BY <1>3 DEF Free
    <3>2. shard[c].lease + 1 \in Nat /\ shard[c].cursor \in Followers \cup {0}
      BY <1>1 DEF Shard
    <3> QED BY <3>1, <3>2 DEF Worker
  <2>2. shard'[c] \in Shard
    <3>1. shard'[c] = [shard[c] EXCEPT !.status = "PROCESSING", !.by = WorkerId[w],
                                       !.lease = shard[c].lease + 1]
      BY DEF IInv, TypeOK
    <3>2. shard[c].lease + 1 \in Nat
      BY <1>1 DEF Shard
    <3>3. WorkerId[w] \in {WorkerId[v] : v \in Workers} \cup {NoId}
      OBVIOUS
    <3> HIDE DEF ClaimCampaignShard
    <3> QED BY <1>1, <3>1, <3>2, <3>3 DEF Shard
  <2>3. worker' \in [Workers -> Worker] /\ shard' \in [Campaigns -> Shard]
    BY <2>1, <2>2 DEF IInv, TypeOK
  <2>4. faults' \in 0..MaxFaults
    BY CampaignsAssumption DEF IInv, TypeOK, Fault
  <2> QED BY <2>3, <2>4 DEF IInv, TypeOK
<1>5. Reached
  BY DEF Reached, Told
<1>6. LeasesKept({w})
  <2>1. \A d \in Campaigns : shard'[d].lease \in Nat /\ shard[d].lease <= shard'[d].lease
    BY <1>1, <1>2 DEF IInv, TypeOK, Shard
  <2>2. shard'[c].lease # shard[c].lease
    BY <1>1, <1>2 DEF Shard
  <2>3. ASSUME NEW v \in Workers \ {w}, worker[v].step # "Claim", Holds(v),
               shard'[worker[v].campaign].lease = shard[worker[v].campaign].lease
        PROVE  LET d == worker[v].campaign IN
               /\ shard'[d].status = "PROCESSING" /\ shard'[d].cursor = shard[d].cursor
               /\ holder'[d] = v
    BY <1>2, <2>2, <2>3 DEF IInv, TypeOK, WorkersCurrent, Current
  <2> QED BY <2>1, <2>3 DEF LeasesKept
<1>7. Current(w)'
  BY <1>1, <1>2, <1>3 DEF Current, Free, IInv, TypeOK, Shard
<1>8. WorkersCurrent'
  BY <1>5, <1>6, <1>7, WorkersStep DEF IInv, TypeOK
<1>9. \A d \in Campaigns : Passed(d)' \subseteq Passed(d)
  BY <1>2 DEF Passed, IInv, TypeOK
<1>10. NobodyPassedOver'
  BY <1>5, <1>9, PassedStep DEF IInv, TypeOK
<1>11. CampaignsWellFormed'
  BY <1>2 DEF IInv, CampaignsWellFormed
<1> QED BY <1>4, <1>8, <1>10, <1>11 DEF IInv

LEMMA FetchKeeps ==
    ASSUME IInv, NEW w \in Workers, FetchPage(w)
    PROVE  IInv'
<1> DEFINE x == worker[w]
           c == x.campaign
<1> USE DEF FetchPage
<1>1. x \in Worker /\ x.step = "Fetch" /\ Current(w) /\ c \in Campaigns
  BY DEF IInv, TypeOK, WorkersCurrent, Current
<1>2. x.cursor \in Nat
  BY <1>1, FollowersFinite DEF Worker
<1>3. /\ Page(x.cursor) \subseteq After(x.cursor) /\ After(x.cursor) \in SUBSET Followers
      /\ After(x.cursor) # {} => Page(x.cursor) # {}
      /\ \A f \in After(x.cursor) \ Page(x.cursor), g \in Page(x.cursor) : g < f
  BY <1>2, PageOfFollowers DEF IInv, TypeOK
<1> DEFINE more == After(x.cursor) # Page(x.cursor)
<1> more \in BOOLEAN
  OBVIOUS
<1>4. worker'[w] = [x EXCEPT !.step = "Materialize", !.page = Page(x.cursor), !.more = more]
  BY DEF IInv, TypeOK
<1>5. \A v \in Workers \ {w} : worker'[v] = worker[v]
  BY DEF IInv, TypeOK
<1>6. TypeOK'
  <2>1. worker'[w] \in Worker
    <3> HIDE DEF more, FetchPage, x
    <3> QED BY <1>1, <1>3, <1>4 DEF Worker
  <2>2. worker' \in [Workers -> Worker]
    BY <2>1 DEF IInv, TypeOK
  <2> QED BY <2>2 DEF IInv, TypeOK
<1>7. /\ worker'[w].step = "Materialize" /\ worker'[w].campaign = c
      /\ worker'[w].lease = x.lease /\ worker'[w].cursor = x.cursor
      /\ worker'[w].page = Page(x.cursor) /\ worker'[w].more = more
  <2> HIDE DEF more, FetchPage, x
  <2> QED BY <1>1, <1>4 DEF Worker
<1>8. ASSUME NEW f \in stayed[c] \ Page(x.cursor), ~(f <= x.cursor)
      PROVE  After(x.cursor) # Page(x.cursor) /\ \A g \in Page(x.cursor) : g < f
  <2>1. f \in audience /\ f \in Nat
    BY <1>1, FollowersFinite DEF IInv, TypeOK, CampaignsWellFormed
  <2>2. f \in After(x.cursor)
    BY <1>2, <1>8, <2>1 DEF After
  <2> QED BY <1>3, <2>2
<1>9. Current(w)'
  <2>1. Holds(w)' => Holds(w)
    BY <1>1, <1>7 DEF Holds
  <2>2. \A g \in Page(x.cursor) : g > x.cursor
    BY <1>3 DEF After
  <2> QED BY <1>1, <1>3, <1>7, <1>8, <2>1, <2>2 DEF Current
<1>10. UNCHANGED <<shard, inbox, delivery, holder, stayed, audience>>
  OBVIOUS
<1>11. \A d \in Campaigns : stayed'[d] \subseteq stayed[d] /\ stayed'[d] \subseteq audience'
  BY <1>10 DEF IInv, CampaignsWellFormed
<1>12. {w} \in SUBSET Workers /\ \A v \in {w} : worker'[v].step = "Claim" \/ Current(v)'
  BY <1>9
<1> HIDE DEF FetchPage
<1> QED BY <1>5, <1>6, <1>10, <1>11, <1>12, QuietStep
\* A worker forgets what it was doing.
LEMMA FreedKeeps ==
    ASSUME IInv, NEW w \in Workers, worker' = [worker EXCEPT ![w] = Free],
           faults' \in 0..MaxFaults,
           UNCHANGED <<shard, audience, decision, inbox, delivery, stayed, holder>>
    PROVE  IInv'
<1>1. TypeOK'
  BY FreeIsWorker DEF IInv, TypeOK
<1>2. /\ worker'[w] = Free /\ worker'[w].step = "Claim"
      /\ \A v \in Workers \ {w} : worker'[v] = worker[v]
  BY DEF IInv, TypeOK, Free
<1>3. {w} \in SUBSET Workers /\ \A v \in {w} : worker'[v].step = "Claim" \/ Current(v)'
  BY <1>2
<1>4. \A d \in Campaigns : stayed'[d] \subseteq stayed[d] /\ stayed'[d] \subseteq audience'
  BY DEF IInv, CampaignsWellFormed
<1> QED BY <1>1, <1>2, <1>3, <1>4, QuietStep

LEMMA FetchFailsKeeps ==
    ASSUME IInv, NEW w \in Workers, FetchFails(w)
    PROVE  IInv'
<1>1. faults' \in 0..MaxFaults
  BY FaultsStay DEF IInv, FetchFails
<1>2. Current(w) /\ worker[w] \in Worker
  BY DEF FetchFails, IInv, TypeOK, WorkersCurrent
<1>3. /\ worker'[w] = [worker[w] EXCEPT !.step = "Fail"]
      /\ \A v \in Workers \ {w} : worker'[v] = worker[v]
  BY DEF FetchFails, Degraded, IInv, TypeOK
<1>4. TypeOK'
  <2>1. worker'[w] \in Worker
    BY <1>2, <1>3 DEF Worker
  <2>2. worker' \in [Workers -> Worker]
    BY <2>1 DEF FetchFails, Degraded, IInv, TypeOK
  <2> QED BY <1>1, <2>2 DEF FetchFails, IInv, TypeOK
<1>5. /\ worker'[w].step = "Fail" /\ worker'[w].campaign = worker[w].campaign
      /\ worker'[w].lease = worker[w].lease /\ worker'[w].cursor = worker[w].cursor
      /\ worker'[w].page = worker[w].page /\ worker'[w].more = worker[w].more
  BY <1>2, <1>3 DEF Worker
<1>6. Holds(w)' => Holds(w)
  BY <1>5 DEF FetchFails, Holds
<1>7. Current(w)'
  BY <1>2, <1>5, <1>6 DEF FetchFails, Current
<1>8. {w} \in SUBSET Workers /\ \A v \in {w} : worker'[v].step = "Claim" \/ Current(v)'
  BY <1>7
<1>9. \A d \in Campaigns : stayed'[d] \subseteq stayed[d] /\ stayed'[d] \subseteq audience'
  BY DEF FetchFails, IInv, CampaignsWellFormed
<1> QED BY <1>3, <1>4, <1>8, <1>9, QuietStep DEF FetchFails

LEMMA CrashKeeps ==
    ASSUME IInv, NEW w \in Workers, Crash(w)
    PROVE  IInv'
<1>1. faults' \in 0..MaxFaults
  BY FaultsStay DEF IInv, Crash
<1> QED BY <1>1, FreedKeeps DEF Crash

\* The owner gives the shard back, with everybody reached that it puts behind it.
LEMMA ClosedStep ==
    ASSUME IInv, NEW w \in Workers, worker[w].step # "Claim", Owns(w), NEW row \in Shard,
           NEW c \in Campaigns, c = worker[w].campaign,
           row.status # "NONE", row.lease = shard[c].lease,
           shard' = [shard EXCEPT ![c] = row],
           \A f \in stayed[c] \cap Passed(c)' : Told(c, f),
           worker' = [worker EXCEPT ![w] = Free],
           UNCHANGED <<audience, decision, inbox, delivery, stayed, holder, faults>>
    PROVE  IInv'
<1>1. \A v \in Workers : worker[v].step # "Claim" /\ worker[v].campaign = c /\ Holds(v)
                         => v = w
  BY OwnerHolds DEF IInv
<1>2. shard'[c] = row /\ \A d \in Campaigns \ {c} : shard'[d] = shard[d]
  BY <1>1 DEF IInv, TypeOK
<1>3. /\ worker'[w] = Free /\ worker'[w].step = "Claim"
      /\ \A v \in Workers \ {w} : worker'[v] = worker[v]
  BY DEF IInv, TypeOK, Free
<1>4. TypeOK'
  BY <1>1, FreeIsWorker DEF IInv, TypeOK
<1>5. Reached
  BY DEF Reached, Told
<1>6. LeasesKept({w})
  <2>1. \A d \in Campaigns : shard'[d].lease \in Nat /\ shard[d].lease <= shard'[d].lease
    <3>1. \A d \in Campaigns : shard'[d].lease = shard[d].lease
      BY <1>2
    <3> QED BY <3>1 DEF IInv, TypeOK, Shard
  <2>2. ASSUME NEW v \in Workers \ {w}, worker[v].step # "Claim", Holds(v)
        PROVE  LET d == worker[v].campaign IN
               /\ shard'[d].status = "PROCESSING" /\ shard'[d].cursor = shard[d].cursor
               /\ holder'[d] = v
    <3>1. Current(v) /\ worker[v].campaign \in Campaigns \ {c}
      BY <1>1, <2>2 DEF IInv, WorkersCurrent, Current
    <3> QED BY <1>2, <2>2, <3>1 DEF Current
  <2> QED BY <2>1, <2>2 DEF LeasesKept
<1>7. WorkersCurrent'
  <2>1. {w} \in SUBSET Workers /\ \A v \in {w} : worker'[v].step = "Claim" \/ Current(v)'
    BY <1>3
  <2> QED BY <1>3, <1>5, <1>6, <2>1, WorkersStep DEF IInv
<1>8. NobodyPassedOver'
  <2>1. ASSUME NEW d \in Campaigns, NEW f \in stayed[d] \cap Passed(d)' PROVE Told(d, f)
    <3>1. CASE d = c
      BY <2>1, <3>1
    <3>2. CASE d # c
      BY <1>2, <2>1, <3>2 DEF IInv, NobodyPassedOver, Passed
    <3> QED BY <3>1, <3>2
  <2> QED BY <1>5, <2>1 DEF NobodyPassedOver, Reached, IInv, TypeOK
<1>9. CampaignsWellFormed'
  BY <1>2 DEF IInv, CampaignsWellFormed
<1> QED BY <1>4, <1>7, <1>8, <1>9 DEF IInv

LEMMA FailKeeps ==
    ASSUME IInv, NEW w \in Workers, FailCampaignShard(w)
    PROVE  IInv'
<1> SUFFICES ASSUME NEW c, c = worker[w].campaign PROVE IInv'
  OBVIOUS
<1>1. faults' \in 0..MaxFaults
  BY FaultsStay DEF IInv, FailCampaignShard
<1>2. CASE UNCHANGED shard
  BY <1>1, <1>2, FreedKeeps DEF FailCampaignShard
<1>3. CASE Owns(w) /\ shard' = [shard EXCEPT ![c].status = "FAILED"] /\ UNCHANGED faults
  <2> DEFINE row == [shard[c] EXCEPT !.status = "FAILED"]
  <2>1. c \in Campaigns /\ shard[c] \in Shard
    BY <1>3, OwnerHolds DEF FailCampaignShard, IInv, TypeOK
  <2>2. row \in Shard /\ row.status = "FAILED" /\ row.lease = shard[c].lease
        /\ row.cursor = shard[c].cursor
    BY <2>1 DEF Shard
  <2>3. shard' = [shard EXCEPT ![c] = row] /\ shard'[c] = row
    BY <1>3, <2>1 DEF IInv, TypeOK
  <2>4. Passed(c)' \subseteq Passed(c)
    BY <1>3, <2>2, <2>3 DEF Passed, Owns
  <2>5. \A f \in stayed[c] \cap Passed(c)' : Told(c, f)
    BY <2>1, <2>4 DEF IInv, NobodyPassedOver
  <2>6. row.status # "NONE"
    BY <2>2
  <2> HIDE DEF row
  <2> QED BY <1>3, <2>1, <2>2, <2>3, <2>5, <2>6, ClosedStep DEF FailCampaignShard
<1> QED BY <1>2, <1>3 DEF FailCampaignShard

LEMMA CompleteKeeps ==
    ASSUME IInv, NEW w \in Workers, CompleteCampaignShard(w)
    PROVE  IInv'
<1> SUFFICES ASSUME NEW x, x = worker[w], NEW c, c = x.campaign PROVE IInv'
  OBVIOUS
<1>1. faults' \in 0..MaxFaults
  BY FaultsStay DEF IInv, CompleteCampaignShard
<1>2. CASE UNCHANGED shard
  BY <1>1, <1>2, FreedKeeps DEF CompleteCampaignShard
<1>3. CASE Owns(w) /\ shard' = [shard EXCEPT ![c] = Completed(@, x)] /\ UNCHANGED faults
  <2> DEFINE row == Completed(shard[c], x)
             n == Cardinality(x.page)
  <2>1. /\ c \in Campaigns /\ shard[c] \in Shard /\ x \in Worker /\ x.step = "Complete"
        /\ Holds(w) /\ x.cursor = shard[c].cursor /\ Current(w)
    BY <1>3, OwnerHolds DEF CompleteCampaignShard, IInv, TypeOK, WorkersCurrent
  <2>2. n \in Nat /\ x.success \in Nat /\ x.success <= n /\ x.page \in SUBSET Followers
    BY <2>1, FollowersFinite, FS_CardinalityType DEF Current, Worker
  <2>3. x.more => Largest(x.page) \in x.page /\ \A g \in x.page : g <= Largest(x.page)
    BY <2>1, <2>2, LargestOfPage DEF Current
  <2> DEFINE status == IF x.more THEN "PENDING" ELSE "COMPLETED"
             cursor == IF x.more THEN Largest(x.page) ELSE shard[c].cursor
  <2>4. cursor \in Followers \cup {0} /\ x.more \in BOOLEAN
    BY <2>1, <2>2, <2>3 DEF Shard, Worker
  <2> DEFINE p == shard[c].processed + n
             u == shard[c].success + x.success
             k == shard[c].skipped + n - x.success
  <2>5. row = [shard[c] EXCEPT !.status = status, !.cursor = cursor, !.by = NoId,
                               !.processed = p, !.success = u, !.skipped = k]
    BY DEF Completed
  <2>6. row \in Shard /\ row.status = status /\ row.lease = shard[c].lease
        /\ row.cursor = cursor
    <3>1. status \in {"NONE", "PENDING", "PROCESSING", "FAILED", "COMPLETED"}
      OBVIOUS
    <3>2. p \in Nat /\ u \in Nat /\ k \in Nat
      BY <2>1, <2>2 DEF Shard
    <3> HIDE DEF status, cursor, row, n, p, u, k
    <3>3. shard[c] \in Shard
      BY <2>1
    <3> QED BY <2>4, <2>5, <3>1, <3>2, <3>3 DEF Shard
  <2>7. shard' = [shard EXCEPT ![c] = row] /\ shard'[c] = row
    BY <1>3, <2>1 DEF IInv, TypeOK
  <2>8. ASSUME NEW f \in stayed[c] \cap Passed(c)' PROVE Told(c, f)
    <3>1. f \in Followers /\ f \in Nat
      BY <2>1, FollowersFinite DEF IInv, TypeOK
    <3>2. CASE f \in x.page
      BY <2>1, <3>2 DEF Current
    <3>3. CASE f \in Passed(c)
      BY <2>1, <3>3 DEF IInv, NobodyPassedOver
    <3>4. CASE f \notin x.page /\ f \notin Passed(c)
      <4>1. ~(f <= shard[c].cursor)
        BY <1>3, <3>1, <3>4 DEF Passed, Owns
      <4>2. x.more /\ \A g \in x.page : g < f
        BY <2>1, <3>4, <4>1 DEF Current
      <4>3. f <= Largest(x.page)
        BY <2>6, <2>7, <2>8, <4>2 DEF Passed
      <4>4. Largest(x.page) < f /\ Largest(x.page) \in Nat
        BY <2>2, <2>3, <4>2, FollowersFinite
      <4> QED BY <3>1, <4>3, <4>4
    <3> QED BY <3>2, <3>3, <3>4
  <2>9. row.status # "NONE"
    BY <2>6
  <2> HIDE DEF row
  <2> QED BY <1>3, <2>1, <2>6, <2>7, <2>8, <2>9, ClosedStep DEF CompleteCampaignShard
<1> QED BY <1>2, <1>3 DEF CompleteCampaignShard
LEMMA MaterializeKeeps ==
    ASSUME IInv, NEW w \in Workers, MaterializeCampaignFollowers(w)
    PROVE  IInv'
<1> SUFFICES ASSUME NEW x, x = worker[w], NEW c, c = x.campaign PROVE IInv'
  OBVIOUS
<1>1. faults' \in 0..MaxFaults
  BY FaultsStay DEF IInv, MaterializeCampaignFollowers
<1>2. /\ x \in Worker /\ x.step = "Materialize" /\ Current(w) /\ c \in Campaigns
      /\ x.page \in SUBSET Followers
  BY DEF MaterializeCampaignFollowers, IInv, TypeOK, WorkersCurrent, Current, Worker
<1>3. UNCHANGED <<shard, audience, decision, stayed, holder>>
  BY DEF MaterializeCampaignFollowers
<1>4. CASE worker' = [worker EXCEPT ![w] = Free] /\ UNCHANGED <<inbox, delivery>>
  BY <1>1, <1>3, <1>4, FreedKeeps
<1> DEFINE n == Cardinality(Fresh(c, x.page))
           stored == [x EXCEPT !.step = "Complete", !.success = n]
<1>5. CASE /\ Stores(c, x.page)
           /\ worker' \in {[worker EXCEPT ![w] = stored], [worker EXCEPT ![w] = Free]}
  <2>1. /\ inbox' \subseteq Campaigns \X Followers
        /\ delivery' \in [Campaigns -> [Followers -> [Channels -> DeliveryStatuses]]]
        /\ Reached /\ \A f \in x.page : Told(c, f)'
    BY <1>2, <1>5, StoredPage DEF IInv, Reached
  <2>2. n \in Nat /\ n <= Cardinality(x.page)
    <3>1. Fresh(c, x.page) \subseteq x.page /\ IsFiniteSet(x.page)
      BY <1>2, FollowersFinite DEF Fresh
    <3> QED BY <3>1, FS_Subset, FS_CardinalityType
  <2> HIDE DEF n
  <2>3. stored \in Worker
    BY <1>2, <2>2 DEF Worker
  <2>4. worker' \in [Workers -> Worker] /\ worker'[w] \in {stored, Free}
        /\ \A v \in Workers \ {w} : worker'[v] = worker[v]
    BY <1>5, <2>3, FreeIsWorker DEF IInv, TypeOK
  <2>5. TypeOK'
    BY <1>1, <1>3, <2>1, <2>4 DEF IInv, TypeOK
  <2>6. ASSUME worker'[w] = stored PROVE Current(w)'
    <3>1. /\ worker'[w].step = "Complete" /\ worker'[w].campaign = c /\ worker'[w].success = n
          /\ worker'[w].lease = x.lease /\ worker'[w].cursor = x.cursor
          /\ worker'[w].page = x.page /\ worker'[w].more = x.more
      BY <1>2, <2>6 DEF Worker
    <3>2. Holds(w)' => Holds(w)
      BY <1>2, <1>3, <3>1 DEF Holds
    <3> QED BY <1>2, <1>3, <2>1, <2>2, <3>1, <3>2 DEF Current
  <2>7. Free.step = "Claim"
    BY DEF Free
  <2>8. {w} \in SUBSET Workers /\ \A v \in {w} : worker'[v].step = "Claim" \/ Current(v)'
    BY <2>4, <2>6, <2>7
  <2>9. LeasesKept({w})
    BY <1>3 DEF LeasesKept, IInv, WorkersCurrent, Current, TypeOK, Shard
  <2>10. WorkersCurrent'
    BY <1>3, <2>1, <2>4, <2>8, <2>9, WorkersStep DEF IInv
  <2>11. NobodyPassedOver'
    BY <1>3, <2>1, PassedStep DEF IInv, TypeOK, Passed
  <2>12. CampaignsWellFormed'
    BY <1>3 DEF IInv, CampaignsWellFormed
  <2> QED BY <2>5, <2>10, <2>11, <2>12 DEF IInv
<1>6. CASE Stores(c, x.page) /\ worker' = [worker EXCEPT ![w].step = "Complete", ![w].success = n]
  <2>1. worker' = [worker EXCEPT ![w] = stored]
    BY <1>6 DEF IInv, TypeOK
  <2> QED BY <1>5, <1>6, <2>1
<1> QED BY <1>4, <1>5, <1>6 DEF MaterializeCampaignFollowers

-----------------------------------------------------------------------------
(* The count of notifications *)

\* Notifications are never taken back, so that a count they cover stays covered.
LEMMA InboxGrows ==
    ASSUME TypeOK, NEW c \in Campaigns, inbox \subseteq inbox'
    PROVE  /\ Cardinality(InboxOf(c)) \in Nat /\ Cardinality(InboxOf(c))' \in Nat
           /\ Cardinality(InboxOf(c)) <= Cardinality(InboxOf(c))'
<1>1. InboxOf(c) \subseteq InboxOf(c)' /\ InboxOf(c)' \subseteq Followers
  BY DEF InboxOf
<1>2. IsFiniteSet(InboxOf(c)) /\ IsFiniteSet(InboxOf(c)')
  BY <1>1, FollowersFinite
<1> QED BY <1>1, <1>2, FS_Subset, FS_CardinalityType

\* A page adds to the inbox as many notifications as the worker counts.
LEMMA FreshCounted ==
    ASSUME TypeOK, NEW c \in Campaigns, NEW page \in SUBSET Followers, Stores(c, page)
    PROVE  Cardinality(InboxOf(c))' = Cardinality(InboxOf(c)) + Cardinality(Fresh(c, page))
<1> DEFINE old == InboxOf(c)
           fresh == Fresh(c, page)
<1>1. IsFiniteSet(old) /\ IsFiniteSet(fresh) /\ fresh \subseteq Followers
  BY FollowersFinite DEF InboxOf, Fresh
<1>2. InboxOf(c)' = old \cup fresh
  BY <1>1 DEF InboxOf, Stores
<1>3. old \cap fresh = {}
  BY DEF InboxOf, Fresh
<1>4. Cardinality(old) \in Nat /\ Cardinality(fresh) \in Nat
  BY <1>1, FS_CardinalityType
<1> HIDE DEF old, fresh
<1>5. Cardinality(old \cup fresh) = Cardinality(old) + Cardinality(fresh)
  BY <1>1, <1>3, <1>4, FS_Union, FS_EmptySet
<1> QED BY <1>2, <1>5 DEF old, fresh

\* A worker that holds its lease after a step held it before.
LEMMA HeldBefore ==
    ASSUME IInv, NEW v \in Workers, worker'[v] = worker[v],
           \A c \in Campaigns : shard'[c].lease \in Nat /\ shard[c].lease <= shard'[c].lease,
           worker[v].step # "Claim", Holds(v)'
    PROVE  Holds(v)
<1> DEFINE x == worker[v]
           c == x.campaign
<1>1. c \in Campaigns /\ x.lease <= shard[c].lease
  BY DEF IInv, WorkersCurrent, Current
<1>2. x.lease \in Nat /\ shard[c].lease \in Nat
  BY <1>1 DEF IInv, TypeOK, Worker, Shard
<1>3. shard'[c].lease = x.lease
  BY DEF Holds
<1> QED BY <1>1, <1>2, <1>3 DEF Holds

\* A step that adds to no shard's count, after which the workers W have nothing to report.
LEMMA CountStep ==
    ASSUME CountInv, NEW W \in SUBSET Workers, inbox \subseteq inbox',
           \A v \in Workers \ W : worker'[v] = worker[v],
           \A w \in W : worker'[w].step # "Complete",
           \A c \in Campaigns : /\ shard'[c].lease \in Nat /\ shard[c].lease <= shard'[c].lease
                                /\ shard'[c].success = shard[c].success
    PROVE  SuccessNotOverstated' /\ PageCountedOnce'
<1>1. \A c \in Campaigns :
          /\ Cardinality(InboxOf(c)) \in Nat /\ Cardinality(InboxOf(c))' \in Nat
          /\ Cardinality(InboxOf(c)) <= Cardinality(InboxOf(c))' /\ shard[c].success \in Nat
  BY InboxGrows DEF CountInv, IInv, TypeOK, Shard
<1>2. SuccessNotOverstated'
  BY <1>1 DEF CountInv, SuccessNotOverstated
<1>3. ASSUME NEW v \in Workers, worker'[v].step = "Complete", Holds(v)',
             NEW x, x = worker[v], NEW c, c = x.campaign
      PROVE  shard'[c].success + x.success <= Cardinality(InboxOf(c))'
  <2>1. worker'[v] = x /\ x.step = "Complete" /\ Holds(v)
    BY <1>3, HeldBefore DEF CountInv
  <2>2. c \in Campaigns /\ x.success \in Nat
    BY <1>3, <2>1 DEF CountInv, IInv, TypeOK, WorkersCurrent, Current, Worker
  <2>3. shard[c].success + x.success <= Cardinality(InboxOf(c))
    BY <1>3, <2>1 DEF CountInv, PageCountedOnce
  <2> QED BY <1>1, <2>1, <2>2, <2>3
<1>4. ASSUME NEW v \in Workers, worker'[v].step = "Complete", Holds(v)'
      PROVE  worker'[v] = worker[v]
  BY <1>4
<1> QED BY <1>2, <1>3, <1>4 DEF PageCountedOnce

\* The step of each handler, seen from the leases and the counts.
LEMMA QuietCounts ==
    ASSUME IInv, UNCHANGED shard
    PROVE  \A c \in Campaigns : /\ shard'[c].lease \in Nat /\ shard[c].lease <= shard'[c].lease
                                /\ shard'[c].success = shard[c].success
BY DEF IInv, TypeOK, Shard

LEMMA FreedCounts ==
    ASSUME CountInv, NEW w \in Workers, worker' = [worker EXCEPT ![w] = Free],
           inbox \subseteq inbox', UNCHANGED shard
    PROVE  SuccessNotOverstated' /\ PageCountedOnce'
<1>1. {w} \in SUBSET Workers /\ \A v \in Workers \ {w} : worker'[v] = worker[v]
  BY DEF CountInv, IInv, TypeOK
<1>2. worker'[w].step # "Complete"
  BY DEF CountInv, IInv, TypeOK, Free
<1> QED BY <1>1, <1>2, CountStep, QuietCounts DEF CountInv

LEMMA ClaimCounts ==
    ASSUME CountInv, NEW w \in Workers, NEW c \in Campaigns, ClaimCampaignShard(w, c)
    PROVE  SuccessNotOverstated' /\ PageCountedOnce'
<1>1. shard \in [Campaigns -> Shard] /\ worker \in [Workers -> Worker] /\ shard[c] \in Shard
  BY DEF CountInv, IInv, TypeOK
<1>2. shard' = [shard EXCEPT ![c].status = "PROCESSING", ![c].by = WorkerId[w], ![c].lease = @ + 1]
  BY DEF ClaimCampaignShard
<1>3. \A d \in Campaigns : /\ shard'[d].lease \in Nat /\ shard[d].lease <= shard'[d].lease
                           /\ shard'[d].success = shard[d].success
  BY <1>1, <1>2 DEF Shard
<1>4. /\ {w} \in SUBSET Workers /\ \A v \in Workers \ {w} : worker'[v] = worker[v]
      /\ worker'[w].step # "Complete"
  BY <1>1 DEF ClaimCampaignShard, Free
<1>5. inbox' = inbox
  BY DEF ClaimCampaignShard
<1> QED BY <1>3, <1>4, <1>5, CountStep

\* The worker holds the lease after it stored a page only if it did before, and then
\* nothing else was to be reported for the campaign.
LEMMA MaterializeCounts ==
    ASSUME CountInv, NEW w \in Workers, MaterializeCampaignFollowers(w)
    PROVE  SuccessNotOverstated' /\ PageCountedOnce'
<1> SUFFICES ASSUME NEW x, x = worker[w], NEW c, c = x.campaign
             PROVE  SuccessNotOverstated' /\ PageCountedOnce'
  OBVIOUS
<1>1. /\ IInv /\ TypeOK /\ x \in Worker /\ x.step = "Materialize" /\ Current(w)
      /\ c \in Campaigns /\ x.page \in SUBSET Followers
  BY DEF MaterializeCampaignFollowers, CountInv, IInv, TypeOK, WorkersCurrent, Current, Worker
<1>2. inbox \subseteq inbox' /\ UNCHANGED shard
  BY DEF MaterializeCampaignFollowers, Stores
<1>3. CASE worker' = [worker EXCEPT ![w] = Free]
  BY <1>2, <1>3, FreedCounts
<1> DEFINE n == Cardinality(Fresh(c, x.page))
<1>4. CASE /\ Stores(c, x.page)
           /\ worker' = [worker EXCEPT ![w].step = "Complete", ![w].success = n]
  <2>1. \A d \in Campaigns :
            /\ Cardinality(InboxOf(d)) \in Nat /\ Cardinality(InboxOf(d))' \in Nat
            /\ Cardinality(InboxOf(d)) <= Cardinality(InboxOf(d))'
            /\ shard'[d] = shard[d] /\ shard[d].success \in Nat
            /\ shard[d].success <= Cardinality(InboxOf(d))
    BY <1>1, <1>2, InboxGrows DEF CountInv, SuccessNotOverstated, TypeOK, Shard
  <2>2. Cardinality(InboxOf(c))' = Cardinality(InboxOf(c)) + n
    BY <1>1, <1>4, FreshCounted
  <2>3. n \in Nat
    BY <1>1, FollowersFinite, FS_CardinalityType DEF Fresh
  <2> HIDE DEF n
  <2>4. SuccessNotOverstated'
    BY <2>1 DEF SuccessNotOverstated
  <2>5. /\ worker'[w].campaign = c /\ worker'[w].success = n
        /\ \A v \in Workers \ {w} : worker'[v] = worker[v]
    BY <1>1, <1>4 DEF TypeOK, Worker
  <2>6. shard'[c].success + worker'[w].success <= Cardinality(InboxOf(c))'
    BY <1>1, <2>1, <2>2, <2>3, <2>5
  <2>7. ASSUME NEW v \in Workers \ {w}, worker[v].step = "Complete", Holds(v)',
               NEW d, d = worker[v].campaign
        PROVE  shard'[d].success + worker[v].success <= Cardinality(InboxOf(d))'
    <3>1. Holds(v)
      BY <1>1, <1>2, <2>5, <2>7, HeldBefore, QuietCounts
    <3>2. d \in Campaigns /\ worker[v].success \in Nat
      BY <1>1, <2>7 DEF IInv, TypeOK, WorkersCurrent, Current, Worker
    <3>3. shard[d].success + worker[v].success <= Cardinality(InboxOf(d))
      BY <2>7, <3>1 DEF CountInv, PageCountedOnce
    <3> QED BY <2>1, <3>2, <3>3
  <2> QED BY <2>4, <2>5, <2>6, <2>7 DEF PageCountedOnce
<1> QED BY <1>3, <1>4 DEF MaterializeCampaignFollowers

\* The owner is the only one that holds the lease, so its page is added once.
LEMMA CompleteCounts ==
    ASSUME CountInv, NEW w \in Workers, CompleteCampaignShard(w)
    PROVE  SuccessNotOverstated' /\ PageCountedOnce'
<1> SUFFICES ASSUME NEW x, x = worker[w], NEW c, c = x.campaign
             PROVE  SuccessNotOverstated' /\ PageCountedOnce'
  OBVIOUS
<1>1. inbox' = inbox /\ worker' = [worker EXCEPT ![w] = Free]
  BY DEF CompleteCampaignShard
<1>2. CASE UNCHANGED shard
  BY <1>1, <1>2, FreedCounts
<1>3. CASE Owns(w) /\ shard' = [shard EXCEPT ![c] = Completed(@, x)]
  <2>1. /\ IInv /\ TypeOK /\ WorkersCurrent /\ x \in Worker /\ x.step = "Complete"
    BY DEF CompleteCampaignShard, CountInv, IInv, TypeOK
  <2>2. /\ c \in Campaigns /\ Holds(w)
        /\ \A v \in Workers : worker[v].step # "Claim" /\ worker[v].campaign = c /\ Holds(v)
                               => v = w
    BY <1>3, <2>1, OwnerHolds
  <2>3. shard \in [Campaigns -> Shard] /\ shard[c] \in Shard
    BY <2>1, <2>2 DEF TypeOK
  <2>4. Completed(shard[c], x).lease = shard[c].lease
        /\ Completed(shard[c], x).success = shard[c].success + x.success
    BY <2>3 DEF Completed, Shard
  <2>5. /\ shard'[c].lease = shard[c].lease /\ shard'[c].success = shard[c].success + x.success
        /\ \A d \in Campaigns \ {c} : shard'[d] = shard[d]
        /\ \A d \in Campaigns : shard[d].lease \in Nat /\ shard'[d].lease = shard[d].lease
    BY <1>3, <2>2, <2>3, <2>4 DEF Shard
  <2>6. \A d \in Campaigns : Cardinality(InboxOf(d))' = Cardinality(InboxOf(d))
    BY <1>1 DEF InboxOf
  <2>7. shard[c].success + x.success <= Cardinality(InboxOf(c))
    BY <2>1, <2>2 DEF CountInv, PageCountedOnce
  <2>8. SuccessNotOverstated'
    BY <2>2, <2>5, <2>6, <2>7 DEF CountInv, SuccessNotOverstated
  <2>9. worker'[w].step = "Claim" /\ \A v \in Workers \ {w} : worker'[v] = worker[v]
    BY <1>1, <2>1 DEF TypeOK, Free
  <2>10. ASSUME NEW v \in Workers \ {w}, worker[v].step = "Complete", Holds(v)',
                NEW d, d = worker[v].campaign
         PROVE  shard'[d].success + worker[v].success <= Cardinality(InboxOf(d))'
    <3>1. Holds(v)
      BY <2>1, <2>5, <2>9, <2>10, HeldBefore
    <3>2. d \in Campaigns /\ d # c
      BY <2>1, <2>2, <2>10, <3>1 DEF WorkersCurrent, Current
    <3>3. shard[d].success + worker[v].success <= Cardinality(InboxOf(d))
      BY <2>10, <3>1 DEF CountInv, PageCountedOnce
    <3> QED BY <2>5, <2>6, <3>2, <3>3
  <2> QED BY <2>8, <2>9, <2>10 DEF PageCountedOnce
<1> QED BY <1>2, <1>3 DEF CompleteCampaignShard

\* No other step adds to a count.
LEMMA FailCounts ==
    ASSUME CountInv, NEW w \in Workers, FailCampaignShard(w)
    PROVE  SuccessNotOverstated' /\ PageCountedOnce'
<1>1. inbox' = inbox /\ worker' = [worker EXCEPT ![w] = Free]
  BY DEF FailCampaignShard
<1>2. shard \in [Campaigns -> Shard] /\ worker \in [Workers -> Worker]
  BY DEF CountInv, IInv, TypeOK
<1>3. /\ {w} \in SUBSET Workers /\ \A v \in Workers \ {w} : worker'[v] = worker[v]
      /\ worker'[w].step # "Complete"
  BY <1>1, <1>2 DEF Free
<1>4. \A c \in Campaigns : /\ shard'[c].lease \in Nat /\ shard[c].lease <= shard'[c].lease
                           /\ shard'[c].success = shard[c].success
  BY <1>2 DEF FailCampaignShard, Shard
<1> QED BY <1>1, <1>3, <1>4, CountStep

LEMMA PlanCounts ==
    ASSUME CountInv, NEW c \in Campaigns, PlanPostPublishedCampaign(c)
    PROVE  SuccessNotOverstated' /\ PageCountedOnce'
<1>1. inbox' = inbox /\ worker' = worker /\ {} \in SUBSET Workers
  BY DEF PlanPostPublishedCampaign
<1>2. \A d \in Campaigns : /\ shard'[d].lease \in Nat /\ shard[d].lease <= shard'[d].lease
                           /\ shard'[d].success = shard[d].success
  BY DEF PlanPostPublishedCampaign, CountInv, IInv, TypeOK, Shard
<1> QED BY <1>1, <1>2, CountStep

LEMMA OthersCount ==
    ASSUME CountInv,
           \/ UNCHANGED vars
           \/ \E f \in Followers : FollowOrUnfollow(f) \/ ChangeSettings(f)
           \/ \E w \in Workers : FetchPage(w) \/ FetchFails(w) \/ Crash(w)
    PROVE  SuccessNotOverstated' /\ PageCountedOnce'
<1>1. CASE UNCHANGED <<shard, inbox, worker>>
  <2>1. {} \in SUBSET Workers /\ inbox \subseteq inbox'
    BY <1>1
  <2>2. \A v \in Workers \ {} : worker'[v] = worker[v]
    BY <1>1
  <2>3. \A w \in {} : worker'[w].step # "Complete"
    OBVIOUS
  <2> QED BY <1>1, <2>1, <2>2, <2>3, CountStep, QuietCounts DEF CountInv
<1>2. ASSUME NEW w \in Workers, FetchPage(w) \/ FetchFails(w) \/ Crash(w)
      PROVE  SuccessNotOverstated' /\ PageCountedOnce'
  <2>1. UNCHANGED <<shard, inbox>>
    BY <1>2 DEF FetchPage, FetchFails, Crash
  <2>2. worker \in [Workers -> Worker]
    BY DEF CountInv, IInv, TypeOK
  <2>3. \A v \in Workers \ {w} : worker'[v] = worker[v]
    BY <1>2, <2>2 DEF FetchPage, FetchFails, Degraded, Crash
  <2>4. worker'[w].step # "Complete"
    <3>1. worker[w] \in Worker
      BY <2>2
    <3>2. CASE FetchPage(w)
      <4>1. worker'[w].step = "Materialize"
        BY <2>2, <3>1, <3>2 DEF FetchPage, Worker
      <4> QED BY <4>1
    <3>3. CASE FetchFails(w)
      <4>1. worker'[w].step = "Fail"
        BY <2>2, <3>1, <3>3 DEF FetchFails, Degraded, Worker
      <4> QED BY <4>1
    <3>4. CASE Crash(w)
      BY <2>2, <3>4 DEF Crash, Free
    <3> QED BY <1>2, <3>2, <3>3, <3>4
  <2>5. {w} \in SUBSET Workers
    OBVIOUS
  <2> QED BY <2>1, <2>3, <2>4, <2>5, CountStep, QuietCounts DEF CountInv
<1> QED BY <1>1, <1>2 DEF FollowOrUnfollow, ChangeSettings, vars

-----------------------------------------------------------------------------
(* The theorems *)

LEMMA InitHolds == Init => IInv
<1> SUFFICES ASSUME Init PROVE IInv
  OBVIOUS
<1>1. NoShard \in Shard /\ NoShard.status = "NONE" /\ NoShard.cursor = 0
  BY DEF NoShard, Shard
<1>2. TypeOK
  BY <1>1, FreeIsWorker, CampaignsAssumption
     DEF Init, TypeOK, Channels, DeliveryStatuses
<1>3. WorkersCurrent
  BY DEF Init, WorkersCurrent, Free
<1>4. NobodyPassedOver /\ CampaignsWellFormed
  BY DEF Init, NobodyPassedOver, CampaignsWellFormed
<1> QED BY <1>2, <1>3, <1>4 DEF IInv

LEMMA StepHolds == IInv /\ [Next]_vars => IInv'
<1> SUFFICES ASSUME IInv, [Next]_vars PROVE IInv'
  OBVIOUS
<1>1. CASE UNCHANGED vars
  BY <1>1 DEF vars, IInv, TypeOK, WorkersCurrent, Current, Holds, Told,
              NobodyPassedOver, Passed, CampaignsWellFormed
<1>2. CASE \E c \in Campaigns : PlanPostPublishedCampaign(c)
  BY <1>2, PlanKeeps
<1>3. CASE \E f \in Followers : FollowOrUnfollow(f) \/ ChangeSettings(f)
  BY <1>3, UsersKeep
<1>4. ASSUME NEW w \in Workers, ExecuteOnce(w) PROVE IInv'
  BY <1>4, ClaimKeeps, FetchKeeps, FetchFailsKeeps, FailKeeps, MaterializeKeeps,
     CompleteKeeps, CrashKeeps DEF ExecuteOnce
<1> QED BY <1>1, <1>2, <1>3, <1>4 DEF Next

\* The inductive invariant holds: every worker's page is beyond its cursor, and the one
\* that holds a shard's newest lease works on the page after the shard's cursor.
THEOREM Invariant == Spec => []IInv
BY InitHolds, StepHolds, PTL DEF Spec

\* Whoever followed the author since the post was published has a notification, or a
\* record of why there is none, once the shard has put their page behind it.
THEOREM NobodyIsPassedOver == Spec => []NobodyPassedOver
<1>1. IInv => NobodyPassedOver
  BY DEF IInv
<1> QED BY <1>1, Invariant, PTL

\* A shard leaves PROCESSING only by the worker that claimed it last, because it compares
\* the deadline of the claim: the worker ids are the same in every replica.
THEOREM HolderCloses == Spec => OnlyHolderCloses
<1> DEFINE Closed(c) == shard[c].status = "PROCESSING" /\ shard'[c].status # "PROCESSING"
           ByHolder(c) == \E w \in Workers :
                             holder[c] = w /\ worker[w].campaign = c /\ worker'[w] # worker[w]
<1>1. ASSUME IInv, [Next]_vars, NEW c \in Campaigns, Closed(c) PROVE ByHolder(c)
  <2>1. ASSUME NEW w \in Workers, FailCampaignShard(w) \/ CompleteCampaignShard(w)
        PROVE  ByHolder(c)
    <3>1. Owns(w) /\ worker[w].campaign = c
      BY <1>1, <2>1 DEF FailCampaignShard, CompleteCampaignShard, IInv, TypeOK
    <3>2. holder[c] = w
      <4>1. TypeOK /\ WorkersCurrent /\ worker[w].step # "Claim"
        BY <1>1, <2>1 DEF FailCampaignShard, CompleteCampaignShard, IInv
      <4> QED BY <3>1, <4>1, OwnerHolds
    <3>3. worker'[w].step = "Claim" /\ worker[w].step # "Claim"
      BY <1>1, <2>1 DEF FailCampaignShard, CompleteCampaignShard, IInv, TypeOK, Free
    <3> QED BY <3>1, <3>2, <3>3
  <2>2. ASSUME NEW d \in Campaigns, PlanPostPublishedCampaign(d) PROVE FALSE
    BY <1>1, <2>2 DEF PlanPostPublishedCampaign, IInv, TypeOK
  <2>3. ASSUME NEW w \in Workers, NEW d \in Campaigns, ClaimCampaignShard(w, d) PROVE FALSE
    BY <1>1, <2>3 DEF ClaimCampaignShard, IInv, TypeOK, Shard
  <2>4. ~UNCHANGED shard
    BY <1>1
  <2> QED BY <1>1, <2>1, <2>2, <2>3, <2>4
          DEF Next, vars, ExecuteOnce, FollowOrUnfollow, ChangeSettings, FetchPage,
              FetchFails, MaterializeCampaignFollowers, Crash
<1>2. IInv /\ [Next]_vars => [\A c \in Campaigns : Closed(c) => ByHolder(c)]_vars
  BY <1>1
<1> QED BY <1>2, Invariant, PTL DEF Spec, OnlyHolderCloses

\* The shard's cursor never falls, whichever worker completes it.
THEOREM CursorGrows == Spec => CursorNeverFalls
<1>1. ASSUME IInv, [Next]_vars, NEW c \in Campaigns
      PROVE  shard'[c].cursor >= shard[c].cursor
  <2>1. shard[c] \in Shard /\ shard[c].cursor \in Nat
    <3>1. shard[c] \in Shard
      BY <1>1 DEF IInv, TypeOK
    <3>2. shard[c].cursor \in Followers \cup {0}
      BY <3>1 DEF Shard
    <3>3. Followers \subseteq Nat \ {0}
      BY CampaignsAssumption
    <3>4. \A k \in Followers \cup {0} : k \in Nat
      BY <3>3
    <3> QED BY <3>1, <3>2, <3>4
  <2>2. ASSUME NEW w \in Workers, CompleteCampaignShard(w)
        PROVE  shard'[c].cursor >= shard[c].cursor
    <3>1. CASE shard'[c] = shard[c]
      BY <2>1, <3>1
    <3>2. CASE shard'[c] # shard[c]
      <4> SUFFICES ASSUME NEW x, x = worker[w] PROVE shard'[c].cursor >= shard[c].cursor
        OBVIOUS
      <4>1. Owns(w) /\ x.campaign = c /\ shard'[c] = Completed(shard[c], x)
        BY <1>1, <2>2, <3>2 DEF CompleteCampaignShard, IInv, TypeOK
      <4>2. x.cursor = shard[c].cursor /\ Current(w) /\ x.page \in SUBSET Followers
        BY <1>1, <2>2, <4>1, OwnerHolds
           DEF CompleteCampaignShard, IInv, TypeOK, WorkersCurrent, Worker
      <4>3. shard'[c].cursor = IF x.more THEN Largest(x.page) ELSE shard[c].cursor
        BY <2>1, <4>1 DEF Completed, Shard
      <4>4. CASE x.more
        <5>1. Largest(x.page) \in x.page
          BY <4>2, <4>4, LargestOfPage DEF Current
        <5>2. Largest(x.page) > shard[c].cursor /\ Largest(x.page) \in Nat
          BY <4>2, <5>1, FollowersFinite DEF Current
        <5> QED BY <2>1, <4>3, <4>4, <5>2
      <4>5. CASE ~x.more
        BY <2>1, <4>3, <4>5
      <4> QED BY <4>4, <4>5
    <3> QED BY <3>1, <3>2
  <2>3. ASSUME NEW w \in Workers,
               FailCampaignShard(w) \/ \E d \in Campaigns : ClaimCampaignShard(w, d)
        PROVE  shard'[c].cursor = shard[c].cursor
    <3>1. shard \in [Campaigns -> Shard]
      BY <1>1 DEF IInv, TypeOK
    <3>2. CASE FailCampaignShard(w)
      BY <2>1, <3>1, <3>2 DEF FailCampaignShard, Shard
    <3>3. ASSUME NEW d \in Campaigns, ClaimCampaignShard(w, d)
          PROVE  shard'[c].cursor = shard[c].cursor
      BY <2>1, <3>1, <3>3 DEF ClaimCampaignShard, Shard
    <3> QED BY <2>3, <3>2, <3>3
  <2>4. ASSUME NEW d \in Campaigns, PlanPostPublishedCampaign(d)
        PROVE  shard'[c].cursor = shard[c].cursor
    BY <1>1, <2>1, <2>4 DEF PlanPostPublishedCampaign, IInv, TypeOK, Shard
  <2>5. CASE shard' = shard
    BY <2>1, <2>5
  <2>6. CASE UNCHANGED vars
    BY <2>5, <2>6 DEF vars
  <2>7. ASSUME NEW f \in Followers, FollowOrUnfollow(f) \/ ChangeSettings(f) PROVE shard' = shard
    BY <2>7 DEF FollowOrUnfollow, ChangeSettings
  <2>8. ASSUME NEW w \in Workers, FetchPage(w) \/ FetchFails(w) \/ Crash(w)
                                   \/ MaterializeCampaignFollowers(w)
        PROVE  shard' = shard
    BY <2>8 DEF FetchPage, FetchFails, MaterializeCampaignFollowers, Crash
  <2>9. shard'[c].cursor = shard[c].cursor => shard'[c].cursor >= shard[c].cursor
    BY <2>1
  <2> QED BY <1>1, <2>2, <2>3, <2>4, <2>5, <2>6, <2>7, <2>8, <2>9 DEF Next, ExecuteOnce
<1>2. IInv /\ [Next]_vars => [\A c \in Campaigns : shard'[c].cursor >= shard[c].cursor]_vars
  BY <1>1
<1> QED BY <1>2, Invariant, PTL DEF Spec, CursorNeverFalls

\* What the shard reports as delivered is never more than the notifications of the
\* campaign: two workers may store the same page, and the lease decides which of them
\* adds it.  PageCountedOnce says what the one that may still add it has to offer.
THEOREM SuccessIsNotOverstated == Spec => []SuccessNotOverstated
<1>1. Init => CountInv
  <2> SUFFICES ASSUME Init PROVE CountInv
    OBVIOUS
  <2>1. IInv
    BY InitHolds
  <2>2. \A c \in Campaigns : shard[c].success = 0 /\ Cardinality(InboxOf(c)) = 0
    BY FS_EmptySet DEF Init, NoShard, InboxOf
  <2>3. SuccessNotOverstated
    BY <2>2 DEF SuccessNotOverstated
  <2>4. PageCountedOnce
    BY DEF Init, Free, PageCountedOnce
  <2> QED BY <2>1, <2>3, <2>4 DEF CountInv
<1>2. CountInv /\ [Next]_vars => CountInv'
  <2> SUFFICES ASSUME CountInv, [Next]_vars PROVE CountInv'
    OBVIOUS
  <2>1. IInv'
    BY StepHolds DEF CountInv
  <2>2. SuccessNotOverstated' /\ PageCountedOnce'
    BY ClaimCounts, MaterializeCounts, CompleteCounts, FailCounts, PlanCounts, OthersCount
       DEF Next, ExecuteOnce
  <2> QED BY <2>1, <2>2 DEF CountInv
<1>3. CountInv => SuccessNotOverstated
  BY DEF CountInv
<1> QED BY <1>1, <1>2, <1>3, PTL DEF Spec
=============================================================================
