------------------------------ MODULE BodyBlocks ------------------------------
(***************************************************************************)
(* Bodies of posts: what the V1 parser accepts, the canonical form it      *)
(* stores, and what reading a stored body makes of it.  A text is its      *)
(* length; a block has the fields its type has.  The parser is one pass    *)
(* with an early end, so its state goes through every definition.          *)
(***************************************************************************)
EXTENDS Naturals, Sequences, SequencesExt

CONSTANTS
    MaxBlocks, MaxInlineNodes, MaxContainerDepth, MaxTableCells,
    MaxPlainTextChars, MaxBlockChars, MaxExternalLinks,
    MaxCanonicalSize, MaxValidationErrors,
    SafeUrl(_),  \* the form a safe url is stored in, "" for one that is not safe
    Trimmed(_)   \* a file id without blanks, "" if it has nothing else

Containers == {"quote", "list", "collapsible"}
Enabled == {"paragraph", "heading", "code_block", "math", "table", "image",
            "external_embed", "attachment_gallery"} \cup Containers

\* The blocks there are: Inline, Chars, Cells ... hold the values of their fields.  given
\* tells a list from null; a type that is not enabled keeps nothing but its type.
LeafBlocks(Inline, Chars, Cells, Files, Urls) ==
    [type : {"paragraph", "heading"}, inline : Inline]
    \cup [type : {"code_block", "math"}, chars : Chars]
    \cup [type : {"table"}, cells : Cells]
    \cup [type : {"image"}, file : Files]
    \cup [type : {"external_embed"}, provider : {"image", "video"}, url : Urls]
    \cup [type : {"attachment_gallery"}, given : {FALSE}, files : {<< >>}]
    \cup [type : {"attachment_gallery"}, given : {TRUE},
          files : {<< >>} \cup {<<f>> : f \in Files} \cup (Files \X Files)]
    \cup [type : {"", "mention"}]
ContainerBlocks(Inline, Blocks) ==
    [type : {"quote"}, blocks : Blocks]
    \cup [type : {"list"}, given : {FALSE}, items : {<< >>}]
    \cup [type : {"list"}, given : {TRUE}, items : {<< >>} \cup {<<b>> : b \in Blocks}]
    \cup [type : {"collapsible"}, inline : Inline, blocks : Blocks]

Start == [errors |-> 0, truncated |-> FALSE, stop |-> FALSE, blocks |-> 0, inline |-> 0,
          cells |-> 0, text |-> << >>, media |-> << >>, links |-> << >>]

AddError(s) ==
    LET n == IF s.errors < MaxValidationErrors THEN s.errors + 1 ELSE s.errors IN
    IF n < MaxValidationErrors THEN [s EXCEPT !.errors = n]
    ELSE [s EXCEPT !.errors = n, !.truncated = TRUE, !.stop = TRUE]

StopAfterHardLimit(s) == [AddError(s) EXCEPT !.stop = TRUE]

\* A loop whose body does nothing once validation has stopped
Each(F(_, _), s, items) == FoldLeft(LAMBDA t, x : IF t.stop THEN t ELSE F(t, x), s, items)

AppendPlainText(s, chars) == IF chars = 0 THEN s ELSE [s EXCEPT !.text = Append(@, chars)]

AddExternalLink(s, link) ==
    IF Len(s.links) >= MaxExternalLinks THEN StopAfterHardLimit(s)
    ELSE [s EXCEPT !.links = Append(@, link)]

ValidateMark(s, mark) ==
    CASE mark.type = "bold" -> s
      [] mark.type = "link" /\ SafeUrl(mark.href) # "" -> AddExternalLink(s, SafeUrl(mark.href))
      [] OTHER -> AddError(s)

ValidateInlineNode(s, node) ==
    LET t == [s EXCEPT !.inline = @ + 1] IN
    IF t.inline > MaxInlineNodes THEN StopAfterHardLimit(t)
    ELSE IF node.type # "text" THEN AddError(t)
    ELSE Each(ValidateMark, t, node.marks)

ValidateInlineNodes(s, nodes) == Each(ValidateInlineNode, s, nodes)

\* The text of the nodes passed before validation stopped
TextOf(s, nodes) ==
    LET last == ValidateInlineNodes(s, nodes).inline
        passed == (IF last > MaxInlineNodes THEN MaxInlineNodes ELSE last) - s.inline
    IN
    FoldLeft(LAMBDA n, node : IF node.type = "text" THEN n + node.chars ELSE n, 0,
             SubSeq(nodes, 1, passed))

ValidateTable(s, cells) ==
    LET t == [s EXCEPT !.cells = @ + Len(cells)] IN
    IF t.cells > MaxTableCells THEN StopAfterHardLimit(t)
    ELSE Each(ValidateInlineNodes, t, cells)

ValidateMediaRef(s, file) ==
    IF Trimmed(file) = "" THEN AddError(s) ELSE [s EXCEPT !.media = Append(@, Trimmed(file))]

ValidateExternalEmbed(s, block) ==
    LET t == IF block.provider = "image" THEN s ELSE AddError(s) IN
    IF SafeUrl(block.url) = "" THEN AddError(t) ELSE AddExternalLink(t, SafeUrl(block.url))

\* A gallery is the one list that is walked to its end.
ValidateAttachmentGallery(s, block) ==
    IF ~block.given THEN AddError(s) ELSE FoldLeft(ValidateMediaRef, s, block.files)

ValidateLeaf(s, block) ==
    CASE block.type \in {"paragraph", "heading"} ->
            AppendPlainText(ValidateInlineNodes(s, block.inline), TextOf(s, block.inline))
      [] block.type \in {"code_block", "math"} ->
            AppendPlainText(IF block.chars > MaxBlockChars THEN AddError(s) ELSE s, block.chars)
      [] block.type = "table"              -> ValidateTable(s, block.cells)
      [] block.type = "image"              -> ValidateMediaRef(s, block.file)
      [] block.type = "external_embed"     -> ValidateExternalEmbed(s, block)
      [] block.type = "attachment_gallery" -> ValidateAttachmentGallery(s, block)
      [] OTHER                             -> AddError(s)

WrongTooDeep(depth) == depth > MaxContainerDepth
TooDeep(depth) == depth + 1 > MaxContainerDepth

RECURSIVE ValidateBlocks(_, _, _)
ValidateBlock(s, block, depth) ==
    LET t == [s EXCEPT !.blocks = @ + 1] IN
    IF t.blocks > MaxBlocks THEN StopAfterHardLimit(t)
    ELSE IF block.type \notin Containers THEN ValidateLeaf(t, block)
    ELSE IF TooDeep(depth) THEN StopAfterHardLimit(t)
    ELSE CASE block.type = "quote" -> ValidateBlocks(t, block.blocks, depth + 1)
           [] block.type = "list"  ->
                IF ~block.given THEN AddError(t)
                ELSE Each(LAMBDA u, item : ValidateBlocks(u, item, depth + 1), t, block.items)
           [] OTHER ->
                LET u == ValidateInlineNodes(t, block.inline) IN
                IF u.stop THEN u ELSE ValidateBlocks(u, block.blocks, depth + 1)
ValidateBlocks(s, blocks, depth) == Each(LAMBDA t, b : ValidateBlock(t, b, depth), s, blocks)

Total(lengths) == FoldLeft(LAMBDA n, m : n + m, 0, lengths)
PlainTextChars(s) == Total(s.text) + (IF s.text = << >> THEN 0 ELSE Len(s.text) - 1)

-----------------------------------------------------------------------------
(* The canonical form, and reading it back *)

WrongCanonicalNode(node) == [node EXCEPT !.type = "other"]
CanonicalNode(node) ==
    [node EXCEPT !.marks = [i \in DOMAIN @ |-> IF @[i].type = "link"
        THEN [@[i] EXCEPT !.href = SafeUrl(@)] ELSE [@[i] EXCEPT !.href = ""]]]
CanonicalNodes(nodes) == [i \in DOMAIN nodes |-> CanonicalNode(nodes[i])]

\* An empty list is left out of the JSON, and what is left out is read as null.
Given(list) == list # << >>

RECURSIVE CanonicalizeBlocks(_)
CanonicalizeBlock(block) ==
    CASE block.type \in {"paragraph", "heading"} -> [block EXCEPT !.inline = CanonicalNodes(@)]
      [] block.type = "table" ->
            [block EXCEPT !.cells = [i \in DOMAIN @ |-> CanonicalNodes(@[i])]]
      [] block.type = "quote" -> [block EXCEPT !.blocks = CanonicalizeBlocks(@)]
      [] block.type = "list"  ->
            [block EXCEPT !.items = [i \in DOMAIN @ |-> CanonicalizeBlocks(@[i])],
                          !.given = Given(block.items)]
      [] block.type = "collapsible" ->
            [block EXCEPT !.inline = CanonicalNodes(@), !.blocks = CanonicalizeBlocks(@)]
      [] block.type = "image"          -> [block EXCEPT !.file = Trimmed(@)]
      [] block.type = "external_embed" -> [block EXCEPT !.url = SafeUrl(@)]
      [] block.type = "attachment_gallery" ->
            [block EXCEPT !.files = [i \in DOMAIN @ |-> Trimmed(@[i])],
                          !.given = Given(block.files)]
      [] OTHER -> block
CanonicalizeBlocks(blocks) == [i \in DOMAIN blocks |-> CanonicalizeBlock(blocks[i])]

AddErrorIf(wrong, s) == IF wrong THEN AddError(s) ELSE s
CheckText(s) == AddErrorIf(PlainTextChars(s) > MaxPlainTextChars, s)

\* A body: its schema version, and its blocks unless they are missing
ValidateBody(body) ==
    CheckText(ValidateBlocks(AddErrorIf(~body.given, AddErrorIf(body.version # 1, Start)),
                             body.blocks, 0))

\* The size of the canonical form is the number of its blocks and nodes and the text in
\* them; it is looked at last.
TooLarge(s) == s.blocks + s.inline + Total(s.text) > MaxCanonicalSize
Result(s, canonical) ==
    [ok |-> s.errors = 0 /\ ~TooLarge(s),
     errors |-> IF s.errors = 0 /\ TooLarge(s) THEN 1 ELSE s.errors,
     media |-> s.media, links |-> s.links, text |-> s.text, blocks |-> s.blocks,
     canonical |-> canonical]
Parse(body) == Result(ValidateBody(body), CanonicalizeBlocks(body.blocks))

\* The store keeps the blocks of the canonical form; a reader parses them again and
\* compares hashes, which are equal when the canonical forms are.
ReadBody(parsed) == [version |-> 1, given |-> TRUE, blocks |-> parsed.canonical]

SameBody(parsed, again) == again.ok /\ again.canonical = parsed.canonical
ValidateStoredBody(parsed) == SameBody(parsed, Parse(ReadBody(parsed)))

-----------------------------------------------------------------------------
(* What parsing promises, in terms of all blocks of a body *)

\* Every block with its depth, in document order
RECURSIVE Within(_, _)
Within(blocks, depth) ==
    FlattenSeq([i \in DOMAIN blocks |->
        LET b == blocks[i] IN
        <<[block |-> b, depth |-> depth]>> \o
        (CASE b.type \in {"quote", "collapsible"} -> Within(b.blocks, depth + 1)
           [] b.type = "list" -> Within(FlattenSeq(b.items), depth + 1)
           [] OTHER -> << >>)])

All(body) == Within(body.blocks, 0)
InlineOf(b) ==
    CASE b.type \in {"paragraph", "heading", "collapsible"} -> b.inline
      [] b.type = "table" -> FlattenSeq(b.cells)
      [] OTHER -> << >>
LinksOf(b) ==
    IF b.type = "external_embed" THEN <<b.url>>
    ELSE FlattenSeq([i \in DOMAIN InlineOf(b) |->
            LET links == SelectSeq(InlineOf(b)[i].marks, LAMBDA m : m.type = "link")
            IN [j \in DOMAIN links |-> links[j].href]])
FilesOf(b) ==
    CASE b.type = "image" -> <<b.file>>
      [] b.type = "attachment_gallery" -> b.files
      [] OTHER -> << >>
CharsOf(b) ==
    CASE b.type \in {"paragraph", "heading"} -> Total([i \in DOMAIN b.inline |-> b.inline[i].chars])
      [] b.type \in {"code_block", "math"} -> b.chars
      [] OTHER -> 0
Over(all, Of(_)) == FlattenSeq([i \in DOMAIN all |-> Of(all[i].block)])

Sound(b, depth) ==
    /\ b.type \in Enabled
    /\ b.type \in Containers => depth < MaxContainerDepth
    /\ b.type \in {"list", "attachment_gallery"} => b.given
    /\ b.type = "external_embed" => b.provider = "image"
    /\ b.type \in {"code_block", "math"} => b.chars <= MaxBlockChars
    /\ \A i \in DOMAIN LinksOf(b) : SafeUrl(LinksOf(b)[i]) # ""
    /\ \A i \in DOMAIN FilesOf(b) : Trimmed(FilesOf(b)[i]) # ""
    /\ \A i \in DOMAIN InlineOf(b) :
          LET node == InlineOf(b)[i] IN
          node.type = "text" /\ \A j \in DOMAIN node.marks : node.marks[j].type \in {"bold", "link"}

Texts(all) == SelectSeq(Over(all, LAMBDA b : <<CharsOf(b)>>), LAMBDA n : n > 0)
Valid(body, all) ==
    /\ body.version = 1 /\ body.given
    /\ \A i \in DOMAIN all : Sound(all[i].block, all[i].depth)
    /\ Len(all) <= MaxBlocks
    /\ Len(Over(all, InlineOf)) <= MaxInlineNodes
    /\ Len(Over(all, LAMBDA b : IF b.type = "table" THEN b.cells ELSE << >>)) <= MaxTableCells
    /\ Len(Over(all, LinksOf)) <= MaxExternalLinks
    /\ Total(Texts(all)) + Len(Texts(all)) <= MaxPlainTextChars + 1
    /\ Len(all) + Len(Over(all, InlineOf)) + Total(Texts(all)) <= MaxCanonicalSize

Agrees(parsed, body, all) ==
    /\ parsed.ok <=> Valid(body, all)
    /\ parsed.errors <= MaxValidationErrors /\ (parsed.ok <=> parsed.errors = 0)
    /\ parsed.ok =>
          /\ parsed.links = [i \in DOMAIN Over(all, LinksOf) |-> SafeUrl(Over(all, LinksOf)[i])]
          /\ parsed.media = [i \in DOMAIN Over(all, FilesOf) |-> Trimmed(Over(all, FilesOf)[i])]
          /\ parsed.blocks = Len(all) /\ parsed.text = Texts(all)

\* The parser, which stops early and counts as it goes, accepts exactly the bodies
\* whose every block is sound and whose totals are within the limits, reports every
\* media reference and link of those, and never more errors than it may.
AcceptsExactlyValid(body) == Agrees(Parse(body), body, All(body))

EmptyList(b) == \/ b.type = "list" /\ b.items = << >>
                \/ b.type = "attachment_gallery" /\ b.files = << >>
ReadsBack(parsed, all) ==
    parsed.ok => (ValidateStoredBody(parsed) <=> \A i \in DOMAIN all : ~EmptyList(all[i].block))

\* A body that was accepted is accepted again when it is read, with the same hash, or
\* its draft could not be published; but for a list or gallery that is there and empty,
\* which is stored as if it were missing.
StoredBodiesParse(body) == ReadsBack(Parse(body), All(body))
=============================================================================
