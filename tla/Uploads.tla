------------------------------- MODULE Uploads -------------------------------
(***************************************************************************)
(* Uploads of the file service: what it checks of a file, and the batch it *)
(* hands to an external store one file at a time.  A file is what is said  *)
(* of it (name, content type, size) and what its first bytes look like.    *)
(***************************************************************************)
EXTENDS Naturals, Sequences, SequencesExt, FiniteSets

CONSTANTS
    Files,      \* files that are sent: [ext, claimed, sniffed, size, opens]
    MaxImageSize, MaxAudioSize, MaxBatchImageSize, Overhead,  \* bytes
    MaxFiles    \* files of a batch (bounds the model)

AllowedImageType == {"image/jpeg", "image/jpg", "image/png", "image/gif", "image/webp"}
AllowedAudioType == {"audio/mpeg", "audio/mp3", "audio/mp4", "audio/x-m4a", "audio/aac",
                     "audio/wav", "audio/x-wav", "audio/ogg", "audio/webm"}

VARIABLES
    request,  \* the files of a request, its kind and the access it asks for
    next,     \* the file it handles
    stored,   \* what the store has taken for it: files and their access, in order
    answer    \* what the client was told

vars == <<request, next, stored, answer>>

ImageKinds == {"image", "image_with_access", "batch"}
Allowed(kind) == IF kind = "audio" THEN AllowedAudioType ELSE AllowedImageType
MaxSize(kind) == IF kind = "audio" THEN MaxAudioSize ELSE MaxImageSize
BodyLimit(kind) ==
    (CASE kind = "audio" -> MaxAudioSize
       [] kind = "batch" -> MaxBatchImageSize
       [] OTHER          -> MaxImageSize) + Overhead

\* Only image/with-access insists on a level; no level means public, and a level that is
\* neither is refused by the service.
ParseAccessLevel(kind, level) ==
    IF kind \in {"image", "audio"} THEN "PUBLIC"
    ELSE IF level # "absent" THEN level
    ELSE IF kind = "batch" THEN "PUBLIC" ELSE "missing"

ExtensionAllows(ext, type) ==
    CASE ext \in {".jpg", ".jpeg"} -> type = "image/jpeg"
      [] ext = ".png"              -> type = "image/png"
      [] ext = ".gif"              -> type = "image/gif"
      [] ext = ".webp"             -> type = "image/webp"
      [] ext = ".mp3"              -> type \in {"audio/mpeg", "audio/mp3"}
      [] ext \in {".m4a", ".mp4"}  -> type \in {"audio/mp4", "audio/x-m4a", "audio/aac"}
      [] ext = ".aac"              -> type \in {"audio/aac", "audio/mp4"}
      [] ext = ".wav"              -> type \in {"audio/wav", "audio/x-wav"}
      [] ext = ".ogg"              -> type = "audio/ogg"
      [] ext = ".webm"             -> type = "audio/webm"
      [] OTHER                     -> FALSE

Equivalent == {{"image/jpg", "image/jpeg"}, {"audio/mp3", "audio/mpeg"}, {"audio/x-wav", "audio/wav"}}
Compatible(claimed, sniffed) == claimed = sniffed \/ {claimed, sniffed} \in Equivalent

ValidateFile(f, kind) ==
    /\ f.size > 0 /\ f.claimed \in Allowed(kind) /\ f.size <= MaxSize(kind)
    /\ ExtensionAllows(f.ext, f.claimed)
    /\ f.opens /\ Compatible(f.claimed, f.sniffed) /\ f.sniffed \in Allowed(kind)

Bytes(files) == UNION {{i} \X (1..files[i].size) : i \in DOMAIN files}
SizeOf(files) == Cardinality(Bytes(files))

Init ==
    /\ \E kind \in ImageKinds \cup {"audio"}, level \in {"absent", "PUBLIC", "PRIVATE", "OTHER"} :
       \E files \in SeqOf(Files, IF kind = "batch" THEN MaxFiles ELSE 1) :
          /\ SizeOf(files) <= BodyLimit(kind)
          /\ request = [kind |-> kind, files |-> files, access |-> ParseAccessLevel(kind, level)]
    /\ next = 1 /\ stored = << >> /\ answer = "none"

Answer(a) == answer' = a /\ UNCHANGED <<request, next, stored>>

InvalidArgument ==
    /\ answer = "none" /\ next = 1 /\ stored = << >>
    /\ request.files = << >> \/ request.access \notin {"PUBLIC", "PRIVATE"}
    /\ Answer("refused")

Current == request.files[next]
Ready ==
    /\ answer = "none" /\ request.access \in {"PUBLIC", "PRIVATE"}
    /\ next <= Len(request.files)

WrongRefused == next' = next + 1 /\ UNCHANGED <<request, stored, answer>>

\* The whole request ends, and what was stored of the batch stays there.
Refused == Answer("refused")

RefuseFile == Ready /\ ~ValidateFile(Current, request.kind) /\ Refused

\* The external store; when it fails it may have taken the file.
Upload ==
    /\ Ready /\ ValidateFile(Current, request.kind)
    /\ \/ /\ stored' = Append(stored, [file |-> Current, access |-> request.access])
          /\ next' = next + 1 /\ UNCHANGED <<request, answer>>
       \/ Answer("error")
       \/ /\ stored' = Append(stored, [file |-> Current, access |-> request.access])
          /\ answer' = "error" /\ UNCHANGED <<request, next>>

WriteSuccess ==
    /\ answer = "none" /\ request.files # << >> /\ next > Len(request.files)
    /\ Answer("ok")

Next == InvalidArgument \/ RefuseFile \/ Upload \/ WriteSuccess

Spec == Init /\ [][Next]_vars

-----------------------------------------------------------------------------
(* What holds of every reachable state *)

\* Success is answered only when every file of the request is in the store, in order
\* and with the access asked for; nothing in it contradicts its name, its claim
\* or the limits of its kind, and no batch holds more than its limit.
UploadsComplete ==
    /\ answer = "ok" =>
          stored = [i \in DOMAIN request.files |->
                       [file |-> request.files[i], access |-> request.access]]
    /\ \A i \in DOMAIN stored :
          LET f == stored[i].file IN
          /\ f.size \in 1..MaxSize(request.kind) /\ stored[i].access \in {"PUBLIC", "PRIVATE"}
          /\ f.sniffed \in Allowed(request.kind) /\ ExtensionAllows(f.ext, f.claimed)
    /\ SizeOf([i \in DOMAIN stored |-> stored[i].file]) <= BodyLimit(request.kind)

-----------------------------------------------------------------------------
(* What the above follows from, by induction *)

Accesses == {"PUBLIC", "PRIVATE"}

Asked ==
    /\ request.files \in Seq(Files) /\ request.kind \in ImageKinds \cup {"audio"}
    /\ SizeOf(request.files) <= BodyLimit(request.kind)
    /\ next \in 1..Len(request.files) + 1

\* The store has the files before the one that is handled, and this one perhaps when an
\* error was answered for it.
StoredInOrder ==
    /\ stored \in Seq([file : Files, access : Accesses])
    /\ Len(stored) = next - 1 \/ (answer = "error" /\ Len(stored) = next /\ next <= Len(request.files))
    /\ answer = "ok" => next > Len(request.files)
    /\ \A i \in 1..Len(stored) :
          /\ stored[i] = [file |-> request.files[i], access |-> request.access]
          /\ ValidateFile(request.files[i], request.kind)

IInv == Asked /\ StoredInOrder
=============================================================================
