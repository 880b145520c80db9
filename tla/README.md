# Verification of zhicore-go

TLA+ models of the parts of zhicore-go where order, concurrency and failure
decide what is right, TLC runs that check them on small instances, and proofs
for every instance. Paths are relative to the repository root, and `C/` stands
for `services/zhicore-content/internal/content/`. `PROJECT.json` lists the
runs, the theorems, the deliberately broken definitions each property notices,
and the source lines every definition stands for. In the modules, a definition
`WrongX` is `X` with a plausible bug in it; nothing but that list uses it.

## 1. The system

zhicore-go is a set of Go services of a writing platform. Each owns a
PostgreSQL schema; they talk over HTTP clients and, through a transactional
outbox and RabbitMQ, by integration events. Six services have code; gateway,
message, search, ranking, admin, id-generator and ops are placeholders
(`doc.go` only).

| part | state | operations | what is hard | what makes it correct |
| --- | --- | --- | --- | --- |
| content: posts | `posts` row with `status`, `post_version` and two body pointers; `scheduled_publish_events` | create, save draft, update metadata, delete draft, publish, schedule, cancel, unpublish, delete, restore, change tags, admin delete, read | bodies live in MongoDB, pointers in PostgreSQL, no common transaction; requests race through optimistic versions | pointers never dangle; readers never see a public body change; a schedule pins its draft; every change of visibility is announced, in order |
| content: bodies and cleanup | MongoDB bodies, `content_body_cleanup_tasks` | write, read, delete, claim, retry, give up | the worker's check and its deletion are separate calls; commits may be ambiguous; claims go stale; replicas share an id | only garbage is removed; garbage is eventually removed |
| content: repairs | `content_body_repair_tasks` | record, re-read, mark | read after the pointer was read | a repair is about a pointer that is broken |
| content: outbox | `outbox_events` with claim, attempts, next retry | append in a transaction, claim, publish, mark, admin retry | crash between publish and mark; stale claims | at least once, none lost, dead ones visible |
| content: engagement | `post_likes`, `post_favorites`, `post_stats`, `domain_event_tasks`, Redis caches | like, favourite and their opposites, apply deltas | the count is applied later by a worker | counts equal relations once the tasks are done |
| content: body parser | nothing | parse a body, read a stored one back | nested blocks, limits counted over the whole body | accepts exactly what the limits allow; what was stored parses again as the same |
| content: rate limiter | counters in Redis, fallback windows in memory | check a request | the fallback of each process when Redis does not answer | a window's limit, shared or per process |
| content: tags | `post_tags`, `tag_stats` | replace, add and remove tags of a post | counts refreshed under one post's lock only | a count is that of the published posts |
| lists of content, comment, notification | cursors or page numbers held by clients | read a page | rows come, go and move while a client reads | no row that stays is skipped or shown twice |
| process of content and notification | open clients, workers, HTTP server | open, serve, stop | failures half way; a budget for stopping | nothing is closed under a user; everything is closed once |
| calls between services | nothing | ask, retry, map the answer | late, lost and foreign answers | outages are not told as refusals |
| comment | `comments` tree, counters, ranks, likes, outbox | create, reply, delete a subtree, like, dispatch | replies and overlapping deletions lock nothing that they read | counters equal the tree; no reply outlives its parent |
| notification: inbox | consumed events, notifications, group counters, unread statistics | consume, mark one, a group or all as read | redelivery; commands that read before they lock | an event is acked once served; counters never promise what is not there |
| notification: campaigns | campaigns, shards with a lease, deliveries | plan, claim, fetch a page, materialise, complete, fail | leases that end in the middle, worker ids shared by replicas | no follower is passed over; a campaign completes |
| notification: settings | preferences, do-not-disturb, author subscriptions | save, decide on a delivery | overlapping saves; windows across midnight | the settings of one save; nobody interrupted against them |
| auth | accounts, sessions (ports only), cookies | register, log in, refresh, log out | two transactions around an external call, retried; pages of one browser that overlap | an account in use is complete; a browser keeps the token of its session |
| user | profiles, follows, blocks (ports only) | create, update and govern a profile; follow, block and their opposites | checks outside the transaction | a block ends follows; events say what rows say |
| file | nothing of its own | upload, batch upload | partial failure | success means all files; content agrees with name, claim and limit |
| `libs/kit` | `postgres/outbox`, `taskworker`, clients | claim and mark loops | errors end a loop | |

Interaction. Content and comment append integration events to their outbox in
the transaction of the change; a dispatcher publishes them to RabbitMQ;
notification consumes `content.post.published`, comment and like events, and
plans campaigns that ask the user service for followers. Content and comment
ask user, file and each other through HTTP ports before their transactions.

What is hard to test in this code is listed at its lines under `hazards` in
`PROJECT.json`.

## 2. The modules

| module | what it is |
| --- | --- |
| `PublishedContent` | the promise to a reader: a post is hidden or shows one body, and a body that is shown does not change until it is hidden |
| `ContentPosts` | posts, bodies, cleanup tasks, repair rows, requests in flight and cleanup workers |
| `MCContentPosts` | symmetry for the TLC runs of `ContentPosts` |
| `ContentPosts_proofs` | the inductive invariant of `ContentPosts`, and what its steps do to rows and bodies: events, schedules, drafts, what readers see, which bodies cleanup is after |
| `AtLeastOnce` | the promise of an outbox: what was committed is queued until the broker has it or it is visibly given up |
| `Outbox` | outbox rows, the broker, and the dispatchers of content and comment |
| `MCOutbox` | ids, and symmetry, for the TLC runs of `Outbox` |
| `Comments` | the comments of a post, their counters, ranks and likes |
| `MCComments` | symmetry for the TLC runs of `Comments` |
| `Comments_proofs` | the invariant of `Comments` |
| `Outbox_proofs` | the invariants of `Outbox`, its action properties, and that it implements `AtLeastOnce` |
| `Engagement` | likes and favorites, delta tasks, the workers that apply them, the cache of a viewer's status |
| `InteractionEvents` | what the notification service makes of one event, a pure rule |
| `Inbox` | consumers, stored notifications, counters and the commands that mark as read; extends `InteractionEvents` |
| `ServedEvents` | the promise from end to end: a committed event is under way until it is served or visibly given up |
| `EventPipeline` | `Outbox` and `Inbox` composed, with RabbitMQ between them |
| `MCEventPipeline` | events and ids for the TLC run of `EventPipeline` |
| `EventPipeline_proofs` | that nothing is lost between the two, and that the pipeline implements `ServedEvents` |
| `Campaigns` | shards of post campaigns and the workers that lease them |
| `DeliveryRules` | preferences, subscriptions and do-not-disturb windows, pure rules |
| `MCInbox`, `MCCampaigns` | events and ids for the TLC runs |
| `Engagement_proofs`, `Inbox_proofs`, `Campaigns_proofs` | their inductive invariants and what follows |
| `Users`, `Accounts`, `AuthSessions` | the user and auth services |
| `RateLimits`, `Tags`, `BodyBlocks`, `Uploads` | content's limiter, tags and body parser; the file service |
| `Settings`, `Paging`, `Lifecycle`, `Providers` | saving settings; lists read page by page; a process from start to stop; calls between services |
| `Services` | the last three rows, without `BodyBlocks`, and the pure rules side by side, one per behaviour |
| `MCServices` | values for the TLC run of `Services`, and `BodyBlocks`, which is recursive |
| `Services_proofs` | an inductive invariant for each part of `Services` and what follows from it |

### ContentPosts and the code

State. `post` is the `posts` table: status (`NONE` before the insert), version
and the two body pointers, each an id and a hash. `schedule` is the body that
the one PENDING row of `scheduled_publish_events` pins. `lastEvent` is what the
newest outbox event of a post says of its visibility. `store` is MongoDB: for
every body id its content hash, or that it is not written yet or removed again.
`cleanup` and `repairs` are the two task tables. `req` holds the requests in
flight with what each has read; `worker` the cleanup workers with the batch
they claimed.

Steps. Each action is one call that leaves the process, because between two
calls anything may happen:

| code | actions |
| --- | --- |
| `loadPostForDraftWrite`, `GetForUpdate` before a command | `Load` |
| `ReadBody` in publish, schedule, author and public reads | `ReadBody`, `ReadBodyUnavailable`, `ReadBodyFails` |
| `WriteDraftBody`, `WriteSnapshotBody` | `WriteDraftBody`, `CreateWithBody`, `WriteSnapshotBody` |
| the `WithinTx` of each command | `CommitCreate`, `CommitSave`, `CommitPublish`, `CommitSchedule`, `CommitMeta`, `CommitUnpublish`, `CommitDelete`, `CommitRestore`, `CommitCancelSchedule` |
| a transaction that fails, or seems to | `TxFails`, the second disjunct of `Answered` |
| `AppendOutsideTx` of the orphan | `RegisterOrphan` |
| commands that are one transaction under the row lock | `DeleteAuthorDraft`, `DeleteAdminPost`, `MutatePostTags` |
| `taskworker.Runner` with the cleanup handler | `Claim`, `ClaimFails`, `CheckReference`, `DeleteBody`, `MarkSucceeded`, `MarkFailed` |
| the process | `RequestCrash`, `WorkerCrash`, `WorkerStart` |

The guards of the `Commit` actions are the WHERE clauses of the SQL files,
gathered in the `...Matches` operators. Delete, restore and cancel accept base
version 0 (`api/http/post_lifecycle_handlers.go`), which matches any version, so
their guards test the status only.

Abstractions. Time: a retry may be due and a claim stale at any moment, which
contains every schedule the timers can produce. Bodies are hashes. Titles,
tags, covers and authors are left out; the version they bump is kept. A client
always sends the version and pointer it could have seen in the row that the
handler loads; any other pair is answered with a conflict and changes nothing
(`Reject`). The outcome of an ambiguous commit is decided when its caller sees
the error. Event delivery is not part of this module, only the order in which
events are appended.

Environment. `Faults` names what may go wrong: `crash`, `ambiguous` (a commit
that succeeds and reports an error), `append` (an append outside a transaction
is lost) and `store` (a MongoDB call, or a database call of the worker, fails).

### Outbox and the code

State. `row` is `outbox_events` with status (`NONE` before the insert),
`attempt_count` and `claimed_by`. `broker` is the set of events RabbitMQ took at
least once. `disp` holds what each dispatcher claimed and has not marked, with
the attempts the claim returned. `holder` is a history variable: which process
claimed an event last, which `claimed_by` can only tell if ids differ.

| code | actions |
| --- | --- |
| `InsertPublisher.Publish`, content's `insert_outbox_event.sql` | `Append` |
| `RetryAdminOutboxEvent`, `retry_admin_outbox_event.sql` | `RetryOutboxEvent` |
| `ClaimPending`, `claim_pending.sql` | `ClaimPending`, `ClaimFails` |
| `TopicPublisher.PublishJSON`, `waitForConfirm` | `Publish` |
| `MarkPublished`, `MarkFailed`, `requireClaimedRow` | `MarkPublished`, `MarkFailed`, `Mark`, `Owned` |
| the process | `Crash`, also its restart |

The content service runs the loop of `libs/kit/taskworker`, the comment service
one of its own; both claim a batch, publish and mark one event after another, and
return on the first error of a claim or mark. `DispatcherId` is the difference
that matters: the comment service is configured with an id, the content service
uses one constant for all its replicas (`C/runtime/module.go:290`).

Abstractions. Time as above: a retry may be due and a lease stale at any moment.
A claim takes any set of claimable events, which contains the oldest fifty that
are not locked. `attempt_count` stops at `DeadThreshold`, beyond which nothing
distinguishes its values. `ContentPosts` only records that an event was appended
and what it says; what `Outbox` adds is that it arrives, at least once and in
any order, which is why `EventsOrdered` gives the consumer a version (a theorem;
see section 4).

Environment. `crash`, `store` (a call to PostgreSQL fails, perhaps after it took
effect) and `broker` (a publication fails, perhaps after the broker took it).

### Comments and the code

State. `status`, `root` and `parent` are columns of `comments`; `replyCount` is
`comment_stats`, `total` and `topLevel` are `comment_post_stats`, `visible` the
rank rows, `likes` and `deltas` the tables of likes and of their counter deltas
(as a sum: no code applies them yet). `announced` is what a consumer that adds
up `comment.created` and `comment.deleted` events arrives at. `req` holds the
transactions in flight with what each has read.

| code | actions |
| --- | --- |
| `createTopLevel` | `CreateTopLevel` |
| `FindReplyTarget`, then `createReply` | `FindParent`, `FindRoot`, `CommitReply` |
| `deleteComment`: the entry, the snapshot of `soft_delete_subtree.sql`, the rest | `FindEntry`, `ReadSubtree`, `CommitDelete`, `NothingToDelete` |
| `changeLike` | `FindLiked`, `CommitLike`, `Unlike` |
| rollback, for whatever reason | `TxFails` |

A transaction at READ COMMITTED sees, in each command, what was committed
before that command; what it writes stays locked until it commits, and the
counters are updated relative to their newest value. So each read is a step, and
all writes of a transaction appear in the step that commits it. A deletion marks
the rows of its snapshot that are still NORMAL when it gets their locks, which
are those NORMAL at its commit, since nobody else can take them in between.
Deletions by authors and administrators differ in who may make them and in the
answer for a row that is deleted already; neither changes state.

Environment. `TwoCommandsAccepted`: `hide_top_level_ranks.sql` holds two UPDATEs
that are sent with parameters in one `Exec`. lib/pq prepares such a command, and
PostgreSQL does not prepare two at once, so as the code stands the deletion of a
top-level comment rolls back. `FALSE` is that; `TRUE`, which allows everything
`FALSE` does, is the intent, and what the counters are checked and proved for.

The module has one post, since no row is shared by two. The comment service's
events go through `Outbox` like those of content.

### Engagement and the code

State. `relation` is `post_likes` and `post_favorites` of one published post,
`task` is `domain_event_tasks` in the order of ids, `stats` the two counts in
`post_stats`, `cache` the viewer status in Redis. `lost` is a history variable:
what `GREATEST(0, ..)` has added to a count. `worker` holds the batch a worker
claimed and the task it failed to apply.

| code | actions |
| --- | --- |
| `LikePost`, `UnlikePost`, `FavoritePost`, `UnfavoritePost`: relation and task in one transaction | `MutateEngagement` |
| the viewer status of a read, and the cache write after either | `GetPostEngagement`, `StoreViewerStatus`; `Expire` is its TTL |
| `taskworker.Runner`: claim a batch, apply each task, mark a failure | `Claim`, `ApplyClaimed`, `MarkFailed` |
| the process | `Crash`, `Start` |

`Owned` is the WHERE clause of the mark: PROCESSING and claimed by the worker's
id. That id is a constant all replicas share, so it does not tell two claims
apart; `EachDeltaOnce` is what holds all the same.

### Inbox and the code

State. `ready` counts the copies of a message that RabbitMQ has to deliver;
`consumer` is what each handler has in hand; `acked` and `dead` are history.
`consumed`, `status`, `total`, `unread` and `stats` are the tables
`consumed_events`, `notifications`, `notification_group_state` (two columns) and
`notification_stats`. `req` holds commands with what they read and locked.

| code | actions |
| --- | --- |
| a delivery; decoding and planning it (`Outcome` of `InteractionEvents`) | `Receive`, `Ignore` |
| `CreateInteractionNotification` | the action of that name, `StoreFails` |
| dead letter, ack, and a requeue with nack or by a closed channel | `PublishDeadLetter`, `Ack`, `Requeue`, `Crash` |
| `MarkRead`: `find`, then the transaction | `FindNotification`, `MarkRead` |
| `MarkGroupRead` | `MarkGroupRead` |
| `MarkAllRead`, statement by statement | `LockGroups`, `MarkRows`, `ResetGroups`, `ResetStats` |
| rollback, for whatever reason | `Rollback` |

The consumers' transaction takes its locks when it writes and commits at once,
so it is one step that waits for locked groups. Marking all as read holds
locks over several statements, each with a snapshot of its own.

### EventPipeline and the code

State. That of `Inbox`, which the module extends, and that of `Outbox`, which is
an instance: `Outbox!broker`, the events RabbitMQ has taken, is read off the
queue (`Sent`), and a message of `Inbox` is an event of `Outbox`.

| code | actions |
| --- | --- |
| `PublishJSON`, the message taken | `Transmit`: `Outbox!Publish` and `Inbox!Publish` in one step |
| `PublishJSON`, the message not taken | `Refuse`: `Outbox!Publish` alone |
| claims and marks of a dispatcher | `Claim`, `MarkSent`, `MarkUnsent` |
| appends, operators' retries, crashes and lost claims of the producer | `Produce` |
| everything of the notification service | `Consumption` |

Alone, `Outbox` has a broker that may take any message and `Inbox` a producer
that may publish any: each is the other's environment. Composed, a copy is in the
queue only because a dispatcher put it there, and a dispatcher sees a confirm only
of what the queue took, now or before.

Environment. The exchange is bound to the queues of the notification service, as
`deploy/docker/rabbitmq/definitions.json` declares it. `PublishJSON` publishes
without the mandatory flag, so a message that no binding matches is confirmed
and dropped, and no service checks the bindings when it starts, as
`docs/contracts/events.md:63` says it does. Nothing in the repository but tests
attaches `NewConsumerHandler` to a queue yet; the module has consumers that do
what that handler asks of a `Delivery`.

### Campaigns and the code

State. `shard` is `notification_campaign_shard`; its deadline, which is the token
the closing statements compare, is a number that every claim raises. `audience`
is what the user service would answer, `decision` what a follower's settings
decide (`DeliveryRules` says how), `inbox` and `delivery` what was
materialised. `stayed` and `holder` are history: who has followed since the post
was published, and who claimed last.

| code | actions |
| --- | --- |
| planning from `content.post.published` | `PlanPostPublishedCampaign` |
| `ExecuteOnce`: claim; the page of followers; materialise; complete or fail | `ClaimCampaignShard`, `FetchPage`, `FetchFails`, `MaterializeCampaignFollowers`, `CompleteCampaignShard`, `FailCampaignShard` |
| the process | `Crash` |
| the users | `FollowOrUnfollow`, `ChangeSettings` |

A lease ends at any moment if its holder is gone, and by the fault `slow` if it
is not. Workers are numbered per process, so `MCCampaigns` gives all of them one
id. The model has one shard per campaign, as the code does.

### The smaller parts and the code

Each is a module of its own; `Services` puts them side by side. Its
first state chooses the part, the other parts' variables are then the constant
"none", and only steps of that part follow.

| module | code | state | what is left out |
| --- | --- | --- | --- |
| `Users` | profile, follow and block commands of the user service | profiles, follows, blocks, commands between their reads and their transaction, and what subscribers were told | display data; the stores are ports, modelled by what the commands ask of them |
| `Accounts` | registration in two transactions around `CreateProfileForAccount`, login | one e-mail: account, credential, role, profile, sessions, clients at their steps | password hashing; refusals of the limiter |
| `AuthSessions` | the auth HTTP layer | cookies, what each page was given, requests with what the browser attached, answers on their way, live tokens and their sessions | the session service is an interface: it acts, refuses, fails, or accepts for later |
| `RateLimits` | rules from the configuration, `INCR` and `EXPIRE`, the fallbacks | keys with count and TTL, buckets by window, requests at their command with the time they read | keys, headers, one subject and operation |
| `Tags` | `ReplacePostTags`, `RemovePostTag`, the refresh of `tag_stats` | posts with version and tags, counts, requests with what they counted | names; publishing and hiding are one step; `post_tags` is the position of each tag |
| `BodyBlocks` | the version 1 parser | none: a function from bodies to results | text is a number of characters; urls and ids are classes that normalisation changes, keeps or refuses |
| `Uploads` | checks, single uploads, batches | the request, how far it is, what the store took | contents; a file is its name, claim, first bytes and size |
| `Settings` | `SaveNotificationPreferences`, `SaveNotificationDND`, `SaveAuthorSubscription` | rows, and transactions with the rows they delete and insert | values: a row remembers who saved it |
| `Paging` | keyset lists and offset lists | rows with keys, the client's cursor or page, what it was shown, how often a row moved down | what a row says; ORDER BY, LIMIT and OFFSET are ranks in the set of rows |
| `Lifecycle` | `main` and the server of content and notification | what is open, running, cancelled and closed | how long anything takes: the budget ends at any time |
| `Providers` | the JSON clients and the mapping of their errors | attempts, the last answer, the answer given | payloads |
| `InteractionEvents`, `DeliveryRules` | the event decoder and planner; the delivery decision | none | names, urls, the days |

`BodyBlocks!AcceptsExactlyValid` compares the parser, which walks the tree with
counters and stops at the first limit passed, with a declarative definition over
the list of all blocks. `DeliveryRules!SettingsRespected` compares
the window test, which cuts a window at midnight, with arithmetic modulo a day.

## 3. The runs

| run | question | bounds | properties |
| --- | --- | --- | --- |
| `posts_race` | does a race of two requests lose, skip or mispublish a draft, and do schedule, row and events stay in step? | 2 requests, 2 drafts, 1 snapshot, 2 hashes, version 3 | `GarbageExact`, `SchedulePinned`, `LastEventShowsVisibility`, `PublishesCurrentDraft` |
| `posts_faults` | does a pointer never dangle, is DONE never said of a body that is still there, and does a reader never see a body change, whatever fails? | 1 request, 1 draft, 1 snapshot, version 4, all faults | `ReferencedBodiesLive`, `DoneMeansRemoved`, `ImplementsPublishedContent` |
| `posts_settle` | does every task end, and all garbage go? | fair workers, no crash | `CleanupEnds` |
| `outbox_faults` | is an event PUBLISHED only once the broker has it, and does the mark of a stale claim change nothing? | 2 events, 2 dispatchers with ids of their own, all faults | `ImplementsAtLeastOnce`, `OnlyHolderMarks` |
| `outbox_settle` | can dispatchers stop one another, and does every event end PUBLISHED or DEAD? | 2 events, 2 fair dispatchers, `broker` | `SomeDispatcherRuns`, `EventsSettle` |
| `comments_counts` | are the counters, ranks and deltas those of the tree? | 4 comments, 2 requests, 1 user | `CountersMatchTree`, `DeltasMatchLikes` |
| `comments_orphans` | does a deletion take all replies? | 3 comments, 2 requests | `NoReplyOutlivesItsParent`, **violated** |
| `inbox` | are totals exact and counters never too high, while commands race with consumers? | 4 messages (a like, the same again, a follow, a malformed one), 2 consumers, 2 commands, 1 fault | `GroupTotalsExact`, `NeverOverstated` |
| `event_pipeline` | is a committed event served, once or more, and then left alone, and in the end served or given up? | 2 events (a like, a malformed one), 1 dispatcher, 1 consumer, 1 command, 2 publications of an event, threshold 2, 1 fault of the consumer, any number of refused publications | `ImplementsServedEvents`, `CommittedEventsSettle` |
| `campaigns` | is every follower reached, and every campaign completed, through lost leases, failures and a changing audience? | 1 campaign, 3 followers of whom one is the author, pages of 1, 2 workers with one id, 2 faults | `NobodyPassedOver`, `SuccessNotOverstated`, `OnlyHolderCloses`, `CampaignsComplete` |
| `engagement` | is a delta applied once though claims cannot be told apart, and does the cache catch up? | 1 user, 2 requests, 2 workers, 2 changes, threshold 2, 3 faults | `EachDeltaOnce`, `TasksSettle`, `CacheCatchesUp` |
| `services` | does each of the smaller parts keep its promise? | below | 15 properties, below |

`GarbageExact` is `DraftBodiesCollectable` and `TasksNameGarbage`: what no row
needs is named by a task, and what a task names no row needs. `CleanupEnds` is
`TasksSettle` and `GarbageRemoved`.

The properties of `services`, each about the behaviours of its part:

| property | what holds |
| --- | --- |
| `RelationsHold` | nobody follows across a block, except by a follow that had read before the block; events applied in order give the rows |
| `RegistrationHolds` | an account that left PENDING_PROFILE has its profile, role and event; sessions were opened with its one password |
| `CookieHoldsLiveToken` | however pages overlap: once the answers to its cookie are there, the browser holds no token that one of them replaced or revoked, unless such an answer was lost, or came after one that was given later |
| `QuotaBounded` | of those Redis counted in a window no more than the limit pass while it lasts, nor in any later life of its key; the fallback, per process, keeps to the limit; a closed rule lets nothing through |
| `UploadsComplete` | success means every file, in order; nothing stored contradicts its name, claim or limit |
| `TagsConsistent` | a count is that of the published posts unless they changed since or while it was counted |
| `TraversalComplete` | reading a keyset list to its end shows every row that stays where it is exactly once, and any row once more at most than it was moved down, which happens in `groups` and `author` only; an offset list, if nothing changes |
| `DrainedBeforeClosed`, `StopsWhenAsked` | within the budget nothing is closed under a request or worker, and whatever was opened is closed once; a process asked to stop ends |
| `PreferencesOfOneSave` | the channels of a type are those of one save |
| `OutagesStayOutages` | 4xx only for what a provider refused; lost and late answers are 503; a deadline that comes before the headers is final (one that cuts the body short is a decoding error, and retried) |
| `AcceptsExactlyValid`, `StoredBodiesParse` | the parser is its reference definition; what it stored it reads back as the same |
| `OnlyOthersNotified`, `SettingsRespected` | no notification of one's own act; nobody is interrupted in a window of theirs, a muted author reaches nobody, a digest-only one nobody but in a digest |

Why the bounds are enough. A race of this code has two parties, since a
conditional update either matches the loaded row or fails, and the worker is a
third that needs no request slot; `posts_race` has both. Version 3 allows
create, save and publish; 4 adds the change that makes the published body
unreferenced; a second publication needs 5, which only `MCPostsSnapshots.cfg` has:
beyond that the theorems, which bound nothing, stand in. Two draft ids are what
one replacement takes. Rows of different posts share no state but the body ids,
and the theorems cover many posts. `DeadThreshold` is 3 for cleanup tasks and 5
for events in the code; 1 and 2 reach FAILED, DEAD and a retry by another
replica. In `Outbox` a claim is taken over by one other dispatcher at a time; two
of them and two events give every order of claims, losses and marks. In
`Comments` a second deletion begins when the reply it will find is committed, so
two requests in flight show three that overlap; four comments are a top-level
comment, a reply, its reply, and one more top-level comment to count wrongly.

In `Inbox` two likes of one group share a key, and a follow is a second group of
the same recipient and another category, which is what marking all as read has
to keep apart; one fault is a redelivery after a commit, and the theorems have no
bound. In `EventPipeline` two publications of an event are one whose confirm came
late and its retry, or one made for an operator after the event was given up; a
claim is made only if the publications it leads to are within that bound (`Room`),
so the bound never stops a dispatcher that has claimed. With
two dispatchers and one event, and with crashes and failures of the producer's
database, TLC finds the same (50 thousand and 1.3 million states; the second
without liveness). In `Campaigns` three pages are a first, a middle and a last one, the
author on the last; two faults are a lost lease and one more failure on top.
In `Engagement` two changes are a like and its opposite, or a like and a favorite;
two workers and three faults let one lose a claim, fail and be restarted while
the other applies. The parts of `services` have two of whatever may race (users,
requests, clients, pages, processes, workers), lists of three rows read in
pages of at most two, bodies of up to two blocks nested to the limit and past it,
files at each limit and one over, windows over a day of six minutes, and answers
of every class the clients distinguish. Two tokens in all
are what a login and a refresh, or two logins, take: the answers of two logins, or
of a refresh and a logout, then cross. Three requests of the limiter, a limit of one and
windows of one or two ticks let a key fill, go and come back. The inductive
invariants of `AuthSessions`, `RateLimits` and `Paging` were checked with the same bounds.

`CHECK_DEADLOCK FALSE`: with its versions and ids used up and its tasks done the
bounded system may stop.

Fairness. In `ContentPosts` (`FairSpec`) each worker's claim, check, deletion and
marks are weakly fair, as a polling loop that keeps running would be, and a
request that saw its transaction fail goes on to append its orphan. Nothing
makes clients act, and `WorkerStart`, a restart of the process, is not fair: no
code does it. In `Outbox` publishing and marking are weakly fair, and the claim
of an event is strongly fair: a claim takes the oldest claimable events, and only
finitely many are older than a given one, so it is not passed over for ever,
though it may be out of reach while another dispatcher holds it. In `Inbox` a
consumer goes on while it has something to do, since the broker delivers and the
handler returns, and a command in progress ends. `EventPipeline` has the fairness
of both; a publication ends one way or the other. In `Campaigns` a worker's
`ExecuteOnce` is weakly fair, since `LoopWorker` calls it for ever whatever it
returns. In `Engagement` requests write their cache entry or give up, entries
expire, and workers poll; a worker that ended is started again, which the
platform does and not this code, and without which `TasksSettle` fails as it
does for cleanup workers. In `Lifecycle` the main goroutine, `Serve` after
`Shutdown` and the deadline of the budget come; of requests and workers nothing
is assumed. Faults are bounded, but for publications the
broker refuses, which the threshold of attempts ends; so every other liveness
property says what happens once failures stop.

### What the violated run shows

`comments_orphans`: a reply finds its parent NORMAL, a deletion of the parent
reads the subtree, the reply commits, the deletion commits. The reply stays
visible, and counted, below a comment that is gone. Reading the parent with a
lock in `FindReplyTarget` would close the gap.

### Other places where code and documents differ

Each can be seen with the configuration named (`tlc -config X.cfg M`), whose
property TLC finds violated. They are not among the runs, which keep one such
question that concerns what users see.

1. `MCPostsSnapshots.cfg` of `MCContentPosts`: `PublishPost` registers the draft it
   consumed but not the snapshot it replaces (`C/application/publish_post.go:176`);
   `OLD_SNAPSHOT` exists in the schema and in
   `docs/architecture/services/content/body-storage-and-publishing.md:94` only.
   Snapshots of earlier publications stay in MongoDB for good.
2. `MCPostsRepairs.cfg`: readers load the row, then read the body. A save and its
   cleanup in between make them record a repair for a body that is gone on
   purpose (`C/application/author_workbench.go:299`).
3. `MCPostsOldVisibility.cfg`: delete and restore with base version 0 announce the
   visibility of the row they loaded, which a concurrent publication may have
   changed (`C/application/post_lifecycle.go:103`). The new visibility and the
   version are right (`LastEventShowsVisibility`, `EventsOrdered`).
4. `MCOutboxSharedId.cfg` of `MCOutbox`: replicas of the content service share the id
   `zhicore-content:outbox-dispatcher` (`C/runtime/module.go:290`), so a dispatcher
   whose claim went stale ends the claim of the replica that took the event over.
   It needs no fault but a slow publication. Nothing is lost by it (the theorem
   `Refinement` holds for any ids), but the attempts of the second claim may be
   overwritten, and two replicas can stop one another: `SomeDispatcherRuns` holds
   for ids of their own only.
5. `MCEngagementCounts.cfg` of `Engagement`: two workers apply an unlike before
   the like it undoes; `GREATEST(0, ..)` swallows the first delta and the count is
   one too high for good, where
   `docs/architecture/services/content/domain-model.md:93` has it converge.
   `NeverUnderstated`, a theorem, is the side that holds.
6. `MCInboxRepeat.cfg` of `MCInbox`: two commands read a notification before either
   locks its group, both find it unread, and the second deducts again
   (`services/zhicore-notification/internal/notification/infrastructure/postgres/store.go:38`),
   where `docs/architecture/services/notification/README.md:356`
   has a repetition deduct once. `NeverOverstated` is the side that holds.

What else the models showed:

* `posts_settle` with the fault `store` fails: one error of a database call ends
  the worker until the process restarts (`libs/kit/taskworker/runner.go:91`,
  `C/runtime/module.go:316`), as the repository's own debt note records;
  readiness stays up.
* Two replicas of the content service can end each other's cleanup workers
  without any failure (`MCPostsReplicas.cfg` of `MCContentPosts`): a batch of two
  tasks goes stale while its worker is at it, the other claims both, each marks one
  of them, and the mark of what the other has done is an error that ends the loop
  (`C/infrastructure/postgres/tasks.go:267`). `DoneMeansRemoved` holds in
  that configuration, `CleanupEnds` does not; `posts_settle` has one worker.
* `total_top_level_comments` is at most the number of top-level comments, not
  equal to it. The first deletion of a comment reads the subtree, a reply
  commits, a second deletion reads the subtree with the reply and waits; the
  first commits; the second deletes the reply, and counts its entry down once
  more (`delete_comment.go:88`). It takes `TwoCommandsAccepted`, so it will
  appear when the deletion of top-level comments is repaired.
* A like may be inserted after its comment was deleted (`like_comment.go:54`).
  Nothing that is shown depends on it.
* A delivery recorded as SKIPPED stays so if the follower's settings change and
  the page is materialised again; `notification_campaign.status` never leaves
  PLANNED; retrying a delivery turns a digest into a websocket delivery
  (`retry_delivery.sql`), and no code sends either.
* Two registrations of one address that overlap with different passwords end
  with one account and the password that was stored last before it was active.
* If `EXPIRE` fails after `INCR`, the key of a window has no TTL. The fallback is
  per process, so in an outage the limit is too.
* The TTL of a key is one window from its first `INCR`
  (`C/infrastructure/redis/rate_limiter.go:55`). A request that read the clock
  in a window, and counts after the key of that window is gone, makes the key anew,
  with count 1: beyond what the window let through while it lasted, up to the limit
  more pass for each such life of its key.
* Two pages of one browser: a refresh rotates to a new token, a logout of the
  other page revokes it, and the answer to the logout arrives first. The answer to
  the refresh then leaves the revoked token in the cookie, though none was lost
  (`services/zhicore-auth/api/http/auth_handlers.go:121`). An overlap of a logout
  accepted for later (202) and a refresh leaves a token that dies when the revocation
  takes effect, and so does a page that revokes, by its id, a session which another
  page of the browser has begun since.
* A group takes the time of the event that was consumed last
  (`upsert_interaction_notification_group.sql:15`): an event that comes late
  moves it below newer ones, and whoever had seen it further up sees it again.
* A batch upload that fails leaves its earlier files in the store. `image/jpg` is
  accepted as a type but not for a file named `.jpg`; `wav`, `ogg`, `m4a` and `webm`
  are allowed types whose first bytes are never recognised as such.
* Publishing, hiding, deleting and restoring a post never refresh `tag_stats`.
* A list or gallery without items is accepted and stored but fails when it is
  read or published.
* Overlapping saves of preferences of different types leave the union of both;
  a failing cache deletion reports an error for a save that was committed.
* Both servers have one budget for all their steps of stopping. When the
  content server's listener fails, the clients are closed while workers may still
  run (`services/zhicore-content/cmd/server/server.go:87`).
* A medium the file service refuses makes the comment service answer 500; its
  clients have no deadline of their own. Content's file client takes any 404 or
  410 for a refusal and retries 400, 403 and 429.

## 4. What is proved

`ContentPosts_proofs` proves for any constants that satisfy
`ConstantsAssumption`, so for any number of posts, bodies, requests and workers
and any set of faults:

* `Invariant`: `Spec => []IInv`.
* `TypeCorrect`: `Spec => []TypeOK`.
* `NoDanglingPointer`: `Spec => []ReferencedBodiesLive`.

The argument. That a pointer never dangles is not inductive: nothing in it says
that a worker that is about to delete a body still may. Four facts close the
gap. A body a request has written but not yet committed is known to that request
only, and no task names it (`PendingBodiesSafe`, `HeldOnce`). Tasks name bodies
that were written (`TasksExist`), so a fresh id has none. Hence a body that no
row references, and that some task names, is no candidate of any pending
transaction, and so never becomes referenced again: what the worker learned from
`IsBodyReferenced` is still true when it deletes (`DeletionsSafe`). This is why
the copy-on-write ids make the unlocked check sound, and the one place it is
needed is the orphan task of an ambiguous commit, whose body may be live.

About what steps change it proves, for the same constants:

* `EventsComplete`, `EventsAreOrdered`, `ScheduleKeepsDraft`: `LastEventShowsVisibility`,
  `EventsOrdered` and `SchedulePinned`.
* `DraftsAreRegistered`, `PublishesTheDraft`: `DroppedDraftsRegistered` and
  `PublishesCurrentDraft`.
* `Refinement`: `Spec => ImplementsPublishedContent`.
* `TasksAreGarbage`, `DoneIsRemoved`: `TasksNameGarbage` and `DoneMeansRemoved`.
* `GarbageIsExact`: `GarbageExact`, if `Faults \subseteq {"ambiguous"}`.

The first six rest on one case distinction, `RowChange`: a step leaves all rows
alone or changes one, and then it creates it, saves or drops a draft, publishes,
moves it between statuses, or bumps its version. Each property looks at what the
change says of events, schedule, drafts and the published pointer.
`PublishesTheDraft` needs one more invariant, `SnapshotsMatch`: the snapshot a
publisher wrote has the hash of the draft it validated.

The last three rest on a second one, `Moves`: for every row, body, task, request
and worker, the ways in which a step can move it. A task appears when a row drops
its draft or a failed request registers what it wrote. That it then names garbage
needs that drafts and snapshots never change places (`KindsKept`), that no other
row has the same draft (`DraftsUnique`), and that a body whose transaction failed
is in no row (`FailedUnreferenced`). DONE is written by a worker that has removed
the body with its own hands, whoever holds the claim by then (`SucceededRemoved`),
and no body is written twice. `GarbageExact` adds the other direction: a body
leaves the hands of a request into a row or into a task, and those of a row into
a task. The hypothesis of `GarbageIsExact` leaves out what breaks it: after a
crash, a lost append or a failed write nobody knows the body any more, which is
the hazard listed at `save_draft_body.go:112`. An ambiguous commit is within it.

`Outbox_proofs` proves, for any events, dispatchers and faults:

* `Invariant`, `Refinement`: `IInv`, and `ImplementsAtLeastOnce`, whatever ids
  the dispatchers use.
* `ClaimsAreOwned`: `OwnersInv`.
* `HoldersMark`, `AttemptsGrow`: `OnlyHolderMarks` and `AttemptsNeverFall`, if
  the ids differ (`DistinctIds`).
* `Survivor`: `SomeDispatcherRuns`, if the ids differ and neither processes nor
  the database fail.

The argument. A row is PUBLISHED only by a dispatcher that holds an item the
broker confirmed (`ConfirmedBeforeMarked`); that the broker has only appended
events needs that claimed rows exist (`OnlyAppended`). A mark tests `claimed_by`,
which names whoever claimed last (`ClaimsNameHolder`); with ids of their own this
is the holder, and what it read of the row is still there (`HolderIsCurrent`), so
the attempts it writes are one more than the row's. That some dispatcher runs
is not inductive; `SomeoneHoldsAll` is: a claim makes its dispatcher one that
holds all it has claimed, and a mark by another cannot touch what it holds.

`Comments_proofs` proves, for any comments, users and transactions in flight:

* `Invariant`: `IInv`, hence `TotalsAreExact`, `RepliesAreCounted`, `LikesAreCounted`
  and `CountersMatch`, which are `DeltasMatchLikes` and `CountersMatchTree` of the
  runs.

The argument. Counters are compared with cardinalities, so each commit needs to
know which sets its rows belong to. That the rows of a deletion are in the tree
whose root it counts down follows from the shape of the tree (`TreeWellFormed`),
and stays true while the deletion waits because no row ever moves: what a request
has read of the tree cannot go stale (`RequestsMatchTree`), only what it has read
of a status. A row is counted down by the one deletion that still finds it
NORMAL. That `Subtree` is the least set closed under replies, and not a recursion,
lets the proof instantiate it with the rows of one tree (`SubtreeOfTree`).

`Campaigns_proofs` proves, for any campaigns, followers, workers with whatever
ids, page size and faults:

* `Invariant`: `IInv`, hence `NobodyIsPassedOver` (`NobodyPassedOver`).
* `HolderCloses`, `CursorGrows`: `OnlyHolderCloses` and `CursorNeverFalls`.
* `SuccessIsNotOverstated`: `SuccessNotOverstated`.

The argument. Leases only grow, so a worker that lost its lease owns nothing,
whatever id it shares, and what it still stores is stored in the name of
followers only. The worker with the newest lease works on the page after the
shard's cursor, and no one who stayed is missing between that cursor and the end
of its page (`Current`). When it completes, everybody on the page has been told,
since materialising came before. Two workers may store one page, and only one of
them may report it: what the holder of the lease has stored and not reported is
in the inbox beside all that the shard has counted (`PageCountedOnce`), which
stays true because the rows a page adds are new, the inbox only grows, and only
the holder of the lease raises what the shard counts.

`Engagement_proofs` proves, for any users, requests, workers, batch size and
faults:

* `Invariant`: `IInv`, hence `DeltasCountOnce` (`EachDeltaOnce`) and
  `CountsReachRelations` (`NeverUnderstated`).

The argument. A relation's rows are the sum of the deltas of its tasks
(`TasksAccount`), since each change appends one. A count is the sum over DONE
tasks: only the application of a PROCESSING task changes it, and that makes the
task DONE in the same transaction, so it does not matter whose claim it was.

`Inbox_proofs` proves, for any events, consumers, commands and faults:

* `Invariant`: `IInv`, hence `AckedAreServed`, `TotalsExact` and
  `CountersPromiseNothing` (`AckedEventsServed`, `GroupTotalsExact`,
  `NeverOverstated`).

The argument. A handler that is about to ack has served its event, and so has
whoever recorded one as consumed (`HandlersServe`). Counters stay below the rows
because every command that lowers rows lowers, or resets, their counters: the
rows that marking all as read has changed stay unread for the others, belong to
it alone, and are in groups that it has locked by the time it resets them
(`LocksHold`), since a group with a row has a total above zero.

`EventPipeline_proofs` proves, for any events, dispatchers, ids, consumers,
commands, and faults on either side:

* `ComponentsAsAlone`: `PipelineSpec => Spec /\ Producer!Spec`, so that every
  theorem about `Inbox` and about `Outbox` is one about the pipeline.
* `CopiesAreAccounted`: `CopiesAccounted`, with the invariants of both components.
* `NothingLost`: no event is in the stage "lost".
* `EndToEnd`: `ImplementsServedEvents`.
* `PromisesKept`: `[]Delivery!Promises`, the invariants of `ServedEvents` for what
  the pipeline shows of itself.

The argument composes what was proved before. A step of the pipeline is a step
or a stutter of each component (`Projection`), so `Inbox!IInv` and the
refinement of `AtLeastOnce` by `Outbox` hold of it as they stand, and neither is
proved again. What they do not say is what happens between the two: `Outbox` ends
with an event that the broker has, `Inbox` begins with a copy in the queue.
`CopiesAccounted` closes the gap, in both directions: what the broker took is in
the queue, in the hands of a consumer or acked, and there is nothing there that
the broker did not take. The first is kept because a consumer gives back what it
does not ack, whether it fails, is refused by the dead-letter exchange or loses
its channel; the second makes a shown notification one that a committed event
asked for, since the broker takes only what was appended. So the stage of an
event, `Stage`, is never "lost", and a case for each step shows that the stages
move as `ServedEvents` has it. An event may be PUBLISHED or DEAD in its outbox
while its copy is on the way, and be retried after it was served: stages are read
off both components for that reason, and settled ones stay settled.

`Services_proofs` proves the promises of the smaller parts, for any values of
their constants that satisfy `ServicesAssumption`: users, pages, processes,
posts, files, rows, clients, answers. A behaviour of `Services` stays with the
part it chose, so each part has an invariant of its own, `IInv` of its module,
that its steps keep; the theorem is then about `Spec` of `Services`.

| theorem | property | what makes it inductive |
| --- | --- | --- |
| `Relations` | `RelationsHold` | nothing more: a follow that is late is recorded as such, and a block removes both directions |
| `Registrations` | `RegistrationHolds` | what a request has got past is still true when it goes on (`RequestsUpToDate`): a profile does not vanish, a credential in use does not change |
| `CookiesHoldLiveTokens` | `CookieHoldsLiveToken` | the answer to the cookie that was given last is good while it is on its way (`LastAnswerIsGood`): what the service did since, it also answered, or the session is one that `ended` otherwise; a page has a request or an answer (`RepliesFit`) |
| `QuotasAreKept` | `QuotaBounded` | each request let through, or counted and not told yet, has a value of the counter to itself in one life of its key (`RedisQuota`, `Distinct`); a key outlives its window, since its TTL begins inside it or later (`OutlivesWindow`), so who counts in time counts in the first life; a process lets through no more than its bucket (`LocalQuota`) |
| `UploadsAreComplete` | `UploadsComplete` | the store has a prefix of the request, each file checked (`StoredInOrder`), and a prefix weighs no more than the whole (`SizeOfFirst`) |
| `TagsAreConsistent` | `TagsConsistent` | a client has read the tags of the version it names (`VersionsAreRead`), a post is locked by one transaction (`LocksAreOwned`), and what that one counted is what its commit makes true, but for tags that others moved since (`CountsAreRight`) |
| `TraversalsAreComplete` | `TraversalComplete` | a row that was shown once more than it was moved down is behind the cursor, and stays so where it is or further up (`ShownIsPassed`, `HistoriesFit`), rows that stayed and are behind it were shown (`PassedIsShown`); pages by number cut the ranks 0 to n - 1 into pieces (`PagesCoverRanks`, lemma `Ranks`) |
| `ProcessesDrain` | `DrainedBeforeClosed` | whom a process has waited for is gone for good (`WaitedFor`): workers before requests in the content service, after them in the other |
| `PreferencesAreOfOneSave` | `PreferencesOfOneSave` | a save takes whole types and writes in their place (`WholeTypes`, `WrittenInOrder`), two saves never the same (`Apart`), one alone all there is (`AloneRemovesAll`) |
| `OutagesAreTold` | `OutagesStayOutages` | nothing more: cases of an answer |
| `OthersAreNotified`, `SettingsAreRespected` | the properties of nearly those names | pure rules; cutting a window at midnight is arithmetic modulo a day (`WindowsCrossMidnight`) |

Assumptions. `ConstantsAssumption`, `DistinctIds` where named, and the `...Assumption`
of each module: finite sets where something is counted, placeholders
that are no members, thresholds above zero, and for `Inbox` that a dedupe key
means one notification, and a group one recipient and category.
`ServicesAssumption` says of sizes, versions and limits that they are numbers,
that the built-in rules of the limiter are complete, that row ids are positive,
and that an answer of another service is lost, late or has a status from 200 to
299 or from 400 to 599: no handler of the services redirects. TLC evaluates each
assumption on its runs.

Every inductive invariant was checked with TLC as an invariant of the instances
above before it was proved.

Only model-checked: liveness (`CleanupEnds`, `EventsSettle`, `CommittedEventsSettle`,
`CampaignsComplete`, `TasksSettle`, `CacheCatchesUp`, `StopsWhenAsked`), which the
prover cannot do; `AcceptsExactlyValid` and `StoredBodiesParse`, since the parser
is a recursion over nested blocks and what it computes for every body takes an
induction the prover does not have; and the violated property. Every other
property of the runs is a theorem.

## 5. What is not modelled, and the plan

* Posts: titles, tags and covers; the repair worker, which re-reads a body and
  marks its task. The orphan scanner of the documents does not exist.
* Engagement: the cache of counts, which is derived on every read.
* Inbox: `RebuildGroupState`, which nothing calls; the cache of unread counts.
* Settings and deliveries: the retry of a delivery, one UPDATE whose result no
  code sends.
* Auth and user: the session service and all stores are ports without code, so
  these modules say what holds if the adapters keep to what the ports and tests
  ask of them.
* HTTP decoding and response shapes, loading and validation of configuration,
  construction of clients, observability: straight-line code that keeps no state.
* The public id codec: a bijection over 64 bits, arithmetic on strings that
  small numbers would not exercise.
* Contracts are documents; gateway, message, search, ranking, admin, id-generator
  and ops are placeholders without behaviour.

Limits of what is modelled. `RateLimits` has one clock for all processes and Redis.
In `Paging` the times of posts and actors only rise: a publication reads its clock
after it has loaded what the one before it left, and actors are listed by their newest event;
groups and the rows of an author's workbench may move either way. The inbox's fallback to
rows that have no group is its first page only; the page count of comments comes from `comment_post_stats`, which
`Comments` is about; the list of deliveries has no largest page. `Campaigns` has
the settings of a follower as one decision, which may change between any two
steps. `Lifecycle` has RabbitMQ's channel and connection as one dependency.

The plan, in order:

1. `content.post.published` in the pipeline: its consumer plans a campaign, so
   `Campaigns` would be the next component behind the queue.
2. More of what a step may never do, as theorems: that versions and attempts of
   the smaller parts only rise, and that a DONE or DEAD task stays so.
3. The repair worker and the retry of deliveries, once code acts on either.
