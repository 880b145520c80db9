----------------------------- MODULE MCServices -----------------------------
(***************************************************************************)
(* Values for the TLC run of Services, and the body parser, whose rules    *)
(* are recursive and have no state.                                        *)
(***************************************************************************)
EXTENDS Services, TLC

-----------------------------------------------------------------------------
(* The values of their constants that take more than a name *)

\* The rules of draft_write, which falls back to memory, and of publish_lifecycle, which
\* fails closed; a configuration may leave them, move one or be incomplete.
Rules ==
    "draft_write" :> [limit |-> 1, window |-> 2, fallback |-> "local_memory",
                      fallbackWindow |-> 1, failClosed |-> FALSE]
    @@ "publish_lifecycle" :> [limit |-> 1, window |-> 2, fallback |-> "none",
                               fallbackWindow |-> 0, failClosed |-> TRUE]
GatewayOnly == [limit |-> 1, window |-> 1, fallback |-> "gateway_only",
                fallbackWindow |-> 0, failClosed |-> FALSE]
Configurations ==
    {<< >>, "draft_write" :> GatewayOnly, "draft_write" :> [GatewayOnly EXCEPT !.limit = 0]}

\* Names, claims and contents that agree and that do not; a file at its limit and over it
UploadedFiles ==
    [ext : {".jpg", ".mp3", ".exe"}, claimed : {"image/jpeg", "image/jpg", "audio/mp3"},
     sniffed : {"image/jpeg", "audio/mpeg", "text/html"}, size : {0, 2, 3}, opens : {TRUE}]
    \cup {[ext |-> ".jpg", claimed |-> "image/jpeg", sniffed |-> "image/jpeg", size |-> 2,
           opens |-> FALSE]}

ProviderAnswers ==
    [kind : {"lost", "late"}, status : {0}, code : {0}, yes : {FALSE}]
    \cup [kind : {"text"}, status : {200, 404, 410, 502}, code : {0}, yes : {FALSE}]
    \cup [kind : {"json"}, status : {200}, code : {200}, yes : BOOLEAN]
    \cup [kind : {"json"}, status : {200, 400, 403, 404, 410, 429, 500, 503},
          code : {1000, 1001, 1004, 3001, 3006, 3010, 4001}, yes : {FALSE}]

\* Urls and ids that normalisation changes, refuses and leaves
SafeUrl(u) == IF u \in {"safe", "safe "} THEN "safe" ELSE ""
Trimmed(f) == IF f \in {"f", "f "} THEN "f" ELSE ""

Body == INSTANCE BodyBlocks WITH
    MaxBlocks <- 3, MaxInlineNodes <- 2, MaxContainerDepth <- 2, MaxTableCells <- 2,
    MaxPlainTextChars <- 5, MaxBlockChars <- 3, MaxExternalLinks <- 1,
    MaxCanonicalSize <- 6, MaxValidationErrors <- 2

-----------------------------------------------------------------------------
(* What the pure rules are asked *)

\* Bodies of up to three blocks, each limit met and passed
Text(marks) == [type |-> "text", chars |-> 1, marks |-> marks]
Link(u) == [type |-> "link", href |-> u]
OtherMark == [type |-> "other", href |-> ""]
Inlines ==
    { << >>, <<Text(<< >>)>>, <<Text(<<[type |-> "bold", href |-> ""], Link("safe ")>>)>>,
      <<Text(<<Link("js")>>)>>,
      <<Text(<<OtherMark>>), [type |-> "other", chars |-> 2, marks |-> << >>]>>,
      <<Text(<< >>), Text(<< >>), Text(<<Link("safe")>>)>> }
Leaves ==
    Body!LeafBlocks(Inlines, {0, 3, 4},
        {<< >>, << << >>, <<Text(<<Link("safe ")>>)>> >>, << << >>, << >>, << >> >>},
        {"f ", " "}, {"safe", "js"})
Lines(Blocks) == {<<b>> : b \in Blocks}
Around(Inner) == Body!ContainerBlocks({<<Text(<< >>)>>}, Inner)
Nested == Around({<< >>} \cup Lines(Leaves))
NestedTwice == Around(Lines(Nested))
TooDeep == Around(Lines(Around({<<[type |-> "quote", blocks |-> << >>]>>})))
Bodies ==
    [version : {1}, given : {TRUE},
     blocks : Lines(Leaves \cup Nested \cup NestedTwice \cup TooDeep)
              \cup (Leaves \X Leaves) \cup (Leaves \X Nested) \cup (Nested \X Leaves)]
    \cup [version : {1, 2}, given : BOOLEAN, blocks : {<< >>}]

EventsReceived ==
    {e \in [type : Events!Types, complete : BOOLEAN, named : BOOLEAN,
            actor : 0..2, owner : 0..2, post : 0..1, comment : 0..1,
            root : 0..1, rootAuthor : 0..1, parent : 0..1, parentAuthor : 0..2] :
        e.complete \/ e.actor = 1}

Flags == Delivery!Stored(BOOLEAN)
Windows ==
    [enabled : BOOLEAN, start : 0..6, end : 0..6,
     categories : {{}, {"CONTENT"}, {"SOCIAL"}}, channels : {{}, {"WEBSOCKET"}}]
Open == [inApp |-> TRUE, websocket |-> TRUE, email |-> FALSE]
SettingsMet ==
    [preference : {Open}, sub : {Delivery!NoSubscription}, window : Windows, time : 0..5]
    \cup [preference : [inApp : Flags, websocket : Flags, email : Flags],
          sub : Delivery!Subscription(Flags),
          window : {[enabled |-> TRUE, start |-> 4, end |-> 1, categories |-> {},
                     channels |-> {}]},
          time : {0, 2}]

-----------------------------------------------------------------------------
(* What the parser promises; the module says what it means *)

\* The parser accepts what the limits allow and what has no fault, and nothing else.
AcceptsExactlyValid ==
    part = "rules" /\ input.rule = "body" => Body!AcceptsExactlyValid(input.body)

\* What the parser stored, it reads again as the same.
StoredBodiesParse ==
    part = "rules" /\ input.rule = "body" => Body!StoredBodiesParse(input.body)
=============================================================================
