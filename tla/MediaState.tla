----------------------------- MODULE MediaState -----------------------------
(***************************************************************************)
(* The state that every request of homeMedia's media service works on, and *)
(* the primitive operations on it: the table media_assets (one operator    *)
(* per SQL statement of the PostgreSQL repository), the directory tree of  *)
(* the local file store, and the local variables of each request in flight.*)
(*                                                                         *)
(* The service holds no lock and opens no transaction, so a request is a   *)
(* sequence of SQL statements and file operations, each of them one step,  *)
(* and the steps of different requests interleave freely.                  *)
(***************************************************************************)
EXTENDS Integers, FiniteSets

CONSTANTS
    Ids,            \* asset ids (UUIDs); an id also names its original's file
    Procs,          \* goroutines serving requests, and backfill commands
    Contents,       \* distinct binary contents a client can upload
    Null,           \* SQL NULL, and a local variable without a value
    MediaTypeOf,    \* content -> media type that MIME sniffing yields
    SizeOf,         \* content -> size in bytes
    Legacy,         \* ids of active rows older than content_hash
    LegacyContent,  \* legacy id -> content of its original
    LegacyPath,     \* legacy id -> storage_path, itself one of the ids
    Kinds,          \* process -> kinds of request it serves
    MaxDay,         \* the last day of the history (bound)
    MaxFaults,      \* failures and crashes in a history (bound)
    AckLoss         \* may a committed statement's answer be lost?

VARIABLES
    rows,           \* table media_assets
    originals,      \* files <day>/<uuid><ext>
    thumbnails,     \* files thumbnails/<day>/<asset id>.jpg
    previews,       \* files previews/<day>/<asset id><ext>
    today,          \* the day the store puts in new paths
    issued,         \* UUIDs drawn so far
    faults,         \* failures so far
    req             \* per process, its request's local variables

stored == <<rows, originals, thumbnails, previews, today, issued, faults>>
vars == <<rows, originals, thumbnails, previews, today, issued, faults, req>>

-----------------------------------------------------------------------------
(* Values. *)

MediaTypes == {"image", "video", "pdf"}
DuplicateActions == {"prompt", "restore", "new"}

AllKinds == {"upload", "delete", "restore", "purge", "empty", "download",
             "thumbnail", "trashThumbnail", "preview", "backfill"}

Days == 1 .. MaxDay
NoPath == 0         \* '' : the empty path
SqlNull == -1       \* preview_storage_path IS NULL

OriginalFile == Contents \cup {"none", "partial"}
DerivedFile == {"none", "empty", "partial", "whole"}

\* A derived file's path is fixed by the asset and the day it was written, so
\* a row records the day. The row's content stands for the columns that
\* describe it (size_bytes, mime_type, media_type); its hash is idealised as
\* the content hashed.
Row == [state   : {"none", "active", "trashed"},
        content : Contents \cup {Null},
        hash    : Contents \cup {Null},
        thumb   : {NoPath} \cup Days,
        preview : {SqlNull, NoPath} \cup Days]

NoRow == [state |-> "none", content |-> Null, hash |-> Null,
          thumb |-> NoPath, preview |-> SqlNull]

\* storage_path never changes once a row exists. Uploads of this version draw
\* a fresh name; legacy rows may share one (CountByStoragePath exists for them).
StoragePath(a) == IF a \in Legacy THEN LegacyPath[a] ELSE a

PCs == {"idle", "answer",
        "upFind", "upFindTrash", "upRestore", "upLegacy", "upProbe",
        "upBackfill", "upStore", "upThumb", "upPreview", "upInsert",
        "upUndo", "upRefind",
        "delFind", "delMark", "resFind", "resMark",
        "emptyList", "purNext", "purFind", "purCount", "purRow",
        "purThumb", "purPreview", "purOriginal",
        "dlFind", "dlOpen", "pvFind", "pvOpen",
        "thFind", "thTrashFind", "thOpen", "thGenerate", "thCreate",
        "thWrite", "thRecord",
        "bfList", "bfNext", "bfFind", "bfGenerate", "bfCreate", "bfWrite",
        "bfRecord"}

Answers == {"created", "existing", "restored", "decision", "ok", "served",
            "unsupported", "notFound", "duplicate", "fileMissing",
            "noPreview", "noThumbnail", "failed"}

Request == [pc      : PCs,
            op      : AllKinds \cup {Null},
            target  : Ids \cup {Null},      \* the asset worked on
            content : Contents \cup {Null}, \* the uploaded bytes
            action  : DuplicateActions \cup {Null},
            asset   : Row,                  \* the Asset value held in memory
            hash    : Contents \cup {Null}, \* hash of a legacy candidate
            refs    : 0 .. Cardinality(Ids),\* storagePathRefCount
            todo    : SUBSET Ids,           \* rest of a list being walked
            listed  : SUBSET Ids,           \* the whole of that list
            failed  : BOOLEAN,              \* backfill: failed > 0
            how     : Answers \cup {Null}]  \* answer, or the error to return

Idle == [pc |-> "idle", op |-> Null, target |-> Null, content |-> Null,
         action |-> Null, asset |-> NoRow, hash |-> Null, refs |-> 0,
         todo |-> {}, listed |-> {}, failed |-> FALSE, how |-> Null]

ASSUME ConstantsAssumption ==
    /\ IsFiniteSet(Ids)
    /\ Null \notin Ids \cup Contents \cup AllKinds \cup Answers \cup DuplicateActions
    /\ Contents \cap {"none", "partial"} = {}
    /\ MediaTypeOf \in [Contents -> MediaTypes \cup {"other"}]
    /\ SizeOf \in [Contents -> Nat]
    /\ Kinds \in [Procs -> SUBSET AllKinds]
    /\ MaxDay \in Nat \ {0}
    /\ MaxFaults \in Nat
    /\ AckLoss \in BOOLEAN

ASSUME LegacyAssumption ==
    /\ Legacy \subseteq Ids
    /\ LegacyContent \in [Legacy -> Contents]
    /\ LegacyPath \in [Legacy -> Legacy]
    /\ \A a, b \in Legacy :
          LegacyPath[a] = LegacyPath[b] => LegacyContent[a] = LegacyContent[b]

-----------------------------------------------------------------------------
(* The repository: what each statement selects or does. A statement that    *)
(* changes rows is a new value of the table, and its outcome as the         *)
(* repository reports it: "ok", "notFound" (no row affected) or "duplicate" *)
(* (partial unique index on content_hash of active rows).                   *)

FindByID(a) == {b \in {a} : rows[b].state = "active"}

FindDeletedByID(a) == {b \in {a} : rows[b].state = "trashed"}

FindByContentHash(h) == {a \in Ids : rows[a].state = "active" /\ rows[a].hash = h}

\* The code takes the row trashed last; the model any of them.
FindDeletedByContentHash(h) ==
    {a \in Ids : rows[a].state = "trashed" /\ rows[a].hash = h}

FindWithoutContentHashBySize(n) ==
    {a \in Ids : /\ rows[a].state = "active"
                 /\ rows[a].hash = Null
                 /\ SizeOf[rows[a].content] = n}

ListWithoutPreview ==
    {a \in Ids : rows[a].state = "active" /\ rows[a].preview = SqlNull}

ListTrash == {a \in Ids : rows[a].state = "trashed"}

\* Mutant: trashed rows count as references as well.
CountByStoragePathAllRows(path) ==
    Cardinality({a \in Ids : rows[a].state # "none" /\ StoragePath(a) = path})

CountByStoragePath(path) ==
    Cardinality({a \in Ids : rows[a].state = "active" /\ StoragePath(a) = path})

HashTaken(a, h) ==
    /\ h # Null
    /\ \E b \in Ids \ {a} : rows[b].state = "active" /\ rows[b].hash = h

SaveOutcome(a, asset) == IF HashTaken(a, asset.hash) THEN "duplicate" ELSE "ok"

Save(a, asset) ==
    IF SaveOutcome(a, asset) = "ok" THEN [rows EXCEPT ![a] = asset] ELSE rows

\* WHERE id = $1 only: a trashed row is updated too, a missing one is no error.
UpdateContentHash(a, h) ==
    IF \/ rows[a].state = "none"
       \/ rows[a].state = "active" /\ HashTaken(a, h)
    THEN rows ELSE [rows EXCEPT ![a].hash = h]

UpdateThumbnailStoragePath(a, day) ==
    IF rows[a].state = "none" THEN rows ELSE [rows EXCEPT ![a].thumb = day]

UpdatePreviewOutcome(a) == IF rows[a].state = "none" THEN "notFound" ELSE "ok"

UpdatePreviewStoragePath(a, day) ==
    IF rows[a].state = "none" THEN rows ELSE [rows EXCEPT ![a].preview = day]

SoftDeleteOutcome(a) == IF rows[a].state = "active" THEN "ok" ELSE "notFound"

SoftDelete(a) ==
    IF SoftDeleteOutcome(a) = "ok" THEN [rows EXCEPT ![a].state = "trashed"]
                                   ELSE rows

\* Mutant: no unique index stands in the way of a restored duplicate.
RestoreOutcomeNoIndex(a) ==
    IF rows[a].state = "trashed" THEN "ok" ELSE "notFound"

RestoreOutcome(a) ==
    CASE rows[a].state # "trashed" -> "notFound"
      [] rows[a].state = "trashed" /\ HashTaken(a, rows[a].hash) -> "duplicate"
      [] OTHER -> "ok"

Restore(a) ==
    IF RestoreOutcome(a) = "ok" THEN [rows EXCEPT ![a].state = "active"] ELSE rows

\* Mutant: the statement has no "deleted_at IS NOT NULL".
DeleteOutcomeUnguarded(a) == IF rows[a].state # "none" THEN "ok" ELSE "notFound"

DeleteOutcome(a) == IF rows[a].state = "trashed" THEN "ok" ELSE "notFound"

Delete(a) == IF DeleteOutcome(a) = "ok" THEN [rows EXCEPT ![a] = NoRow] ELSE rows

-----------------------------------------------------------------------------
(* The file store. Opening a file to write it creates or truncates it       *)
(* (os.Create); the bytes follow in a later step; a write through a file    *)
(* unlinked meanwhile leaves no file behind.                                *)

Created(files, a) == [files EXCEPT ![a][today] = "empty"]

Written(files, a, day, result) ==
    [files EXCEPT ![a][day] = IF @ = "none" THEN "none" ELSE result]

Unlinked(files, a, day) ==
    IF day \in Days THEN [files EXCEPT ![a][day] = "none"] ELSE files

\* What the generators may come to. They run ffmpeg or pdftoppm under a
\* timeout, and any file may defeat them; for a PDF there is no preview.
ThumbnailOutcomes == {"whole", "failed"}

PreviewOutcomes(content) ==
    IF MediaTypeOf[content] = "pdf" THEN {"failed"} ELSE {"whole", "failed"}

-----------------------------------------------------------------------------
(* Control of a request. *)

At(p, pc) == req[p].pc = pc

Begin(p, kind, first, local) ==
    /\ At(p, "idle")
    /\ kind \in Kinds[p]
    /\ req' = [req EXCEPT ![p] = [local EXCEPT !.op = kind, !.pc = first]]

\* A client asks for an asset it has been told of.
StartOn(p, kind, first) ==
    /\ \E a \in issued : Begin(p, kind, first, [Idle EXCEPT !.target = a])
    /\ UNCHANGED stored

Goto(p, pc, local) == req' = [req EXCEPT ![p] = [local EXCEPT !.pc = pc]]

\* A handler returns: only its answer, and what it was asked, remain.
Answer(p, how, a) ==
    req' = [req EXCEPT ![p] =
              [Idle EXCEPT !.pc = "answer", !.op = req[p].op, !.target = a,
                           !.content = req[p].content, !.action = req[p].action,
                           !.listed = req[p].listed, !.how = how]]

\* The answer reaches the client and the goroutine is free again.
Respond(p) ==
    /\ At(p, "answer")
    /\ req' = [req EXCEPT ![p] = Idle]
    /\ UNCHANGED stored
=============================================================================
