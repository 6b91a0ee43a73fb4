# A formal model of homeMedia

homeMedia is a private photo and video library: a Go server (Gin, PostgreSQL, a
local directory tree), a React single-page application, and two maintenance
commands. This directory holds TLA+ modules that model its core, the media
service, both commands, the sessions, and the pages and the upload panel in the
browser, the TLC configurations that check them on small instances, and theorems
checked by TLAPS. Paths below are relative to the
repository's root.

## 1. The system

### Components

| component | state it keeps | operations | modelled in |
|---|---|---|---|
| media service (`internal/media/service.go`) | none between requests | upload, delete, restore, delete permanently, empty trash, download, preview, thumbnail, trash thumbnail, backfill preview; list, get, playback warning | `UploadFlow`, `TrashFlow`, `DerivedFlow`, composed in `MediaService` |
| PostgreSQL repository (`internal/repository/postgres`) | table `media_assets` | one SQL statement per method, no transaction | `MediaState` |
| local file store (`internal/storage/local`) | files under `<day>/`, `thumbnails/<day>/`, `previews/<day>/` | save (create, then write), open, delete | `MediaState`, faults in `MediaService` |
| preview backfill (`cmd/backfill-previews`) | the list it walks, a failure count | a second process on the same table and files | `DerivedFlow` |
| thumbnail backfill (`cmd/backfill-thumbnails`) | the listing it walks, counters | the same, through the service's `Thumbnail` | `ThumbnailBackfill`, composed with `MediaService` |
| HTTP handlers, router (`internal/http`) | none | a request becomes one service call; errors become status codes | which call, which answers: the `Start...` and `Answer` of the modules; checks of session and token: `BrowserSession` |
| sessions and CSRF (`internal/http/auth.go`) | none on the server: a signed cookie with an expiry, a token derived from it, a login token in a cookie of its own | start and end a session, check a request | `BrowserSession` |
| rate limiter (`internal/http/rate_limit.go`) | a token bucket per client address | allow or refuse a login or an upload | not modelled (a refusal is one of the failures) |
| upload panel (`web/frontend/src/upload-island.tsx`) | the queue of files, each queued, uploading or failed; the last six results | add, remove, upload one, upload all queued, answer a trashed duplicate | `UploadQueue` |
| SPA pages, API client (`app.tsx`, `api-client.ts`) | the page, its cards, loading and error; the session's status | open, load, delete, restore, purge, empty, upload; log in and out | `LibraryPages`, `BrowserSession` |
| start-up and configuration (`cmd/server`, `internal/config`) | environment | wait for the database, serve, shut down | only the death of a process (`Die`) |
| migrations (`migrations/`) | schema | columns added over time, the partial unique index | the legacy rows of `Init`, the index in `HashTaken` |
| deployment scripts, end-to-end tests, styles, build output | | | not modelled: around the program, or assets |

### How they interact, and what is hard about it

A handler calls the service with the request's context; the service calls the
repository and the store. **There is no lock and no transaction.** Every request
is a goroutine that issues SQL statements and file operations one at a time, and
the backfill commands are further processes on the same table and directory. The
only coordination is in single statements: the guards `deleted_at IS NULL` /
`IS NOT NULL`, and the unique index on `content_hash` of active rows. So:

- what a request has read (that a content is unknown, that an asset is in the
  trash, how many rows refer to a file, which thumbnail a row records) may be
  stale when it acts on it;
- table and files cannot change together: an upload writes files before its row,
  a purge deletes the row before its files, and both may fail, or die, between;
- a crash loses what a request had in memory and nothing else, and nothing
  cleans up after it;
- legacy rows have no content hash, no thumbnail, no preview (NULL), and may
  share a file.

The browser adds interleavings of its own. Its code runs one event at a time, but
every call of the API is answered later, when the page may have been left, the list
may have changed, another tab or client may have acted, or the answer may be lost.
Tabs share the cookies and nothing else, and the server keeps nothing of a session.

What makes each part correct:

- *upload*: two active rows never hold one content (unless one is not hashed
  yet); the answer names an asset with the uploaded content; a refused upload
  leaves no file;
- *trash and purge*: an active asset is never removed; every asset with a row has
  its original, whole; a purge that succeeds leaves no original behind; emptying
  the trash succeeds only if everything listed is gone;
- *derived files*: a recorded thumbnail or preview exists, a recorded preview is
  complete; a backfill that exits normally has done all it listed;
- *the whole*: to its users the service is a library in which assets are added,
  trashed, put back and purged, and originals can always be read;
- *sessions*: a tab that shows the pages can act until its session expires or is
  logged out; a login form that is shown can be submitted; after a logout the tab
  changes nothing any more, and reads only once some tab has logged in again;
- *upload panel*: no file is sent twice, the list shows what is under way, every
  upload ends, and a duplicate in the trash is put to the user;
- *pages*: a page shows only what was in its part of the library since it was
  opened, and all that was there all the time, each once, unless it shows an
  error; what it had removed goes; it stops loading.

`PROJECT.json` lists the hazards, each at its line, with the properties on it.

## 2. The modules

| module | what it is |
|---|---|
| `MediaState` | constants and their assumptions, the state, one operator per SQL statement, the file store's operations, the control of a request |
| `UploadFlow` | `Service.Upload` and `findLegacyAssetByContentHash` |
| `TrashFlow` | `Delete`, `Restore`, `DeletePermanently`, `EmptyTrash` |
| `DerivedFlow` | `Download`, `Preview`, `Thumbnail`, `TrashThumbnail`, `BackfillPreview`, `backfill-previews` |
| `MediaLibrary` | the abstract specification: what the service promises |
| `MediaService` | all requests side by side, midnight, faults; the properties and the refinement mapping |
| `MC_MediaService` | instances for TLC |
| `MediaServiceProofs` | theorems: types, no data loss, active assets spared |
| `DedupProofs` | theorems about deduplication |
| `RefinementProofs` | the theorem that `MediaService` implements `MediaLibrary`, and what follows for active files |
| `RequestProofs` | theorems about emptying the trash, the preview backfill, missing files, purged and orphan originals |
| `ThumbnailBackfill`, `MC_ThumbnailBackfill` | the command `backfill-thumbnails` beside all that `MediaService` has |
| `DerivedProofs` | theorems about recorded thumbnails and previews, and about that command |
| `UploadQueue`, `MC_UploadQueue` | the upload panel in the browser and its instances |
| `UploadQueueProofs` | theorems about the panel |
| `LibraryPages`, `MC_LibraryPages` | the pages of a tab over the library of `MediaLibrary`, and their instances |
| `LibraryPagesProofs` | theorems about the pages |
| `BrowserSession`, `MC_BrowserSession` | sessions as the tabs of a browser see them, and the instance |
| `BrowserSessionProofs` | theorems about sessions |

### State and code

- `rows` is the table: per id its state (no row, active, trashed), the content
  its columns describe, its hash, and the paths of its thumbnail and preview.
- `originals`, `thumbnails`, `previews` are the files. A derived file's path is
  made of the asset's id and the day it was written, so a path is a day; `NoPath`
  is `''` and `SqlNull` is NULL, which the code tells apart in one query only
  (`ListWithoutPreview`). A derived file is absent, created but empty, partly
  written, or whole.
- `req[p]` holds the local variables of the request that process `p` serves: a
  program counter, the asset, the upload, the `Asset` value in memory, the list
  being walked, the answer.
- `issued` are the ids drawn; `today` is the day in new paths; `faults` counts.

Each SQL statement and each file operation is one step, in the order of the
code. A repository method is an operator for the new table and one for its outcome,
as the method reports it (done, no row affected, refused by the index).

Abstractions, and why they are sound:

- A content is a value, and its SHA-256 is that value: no collisions. A legacy
  candidate is hashed in one step with its opening, since originals never change
  while open.
- One id names a row and the original saved for it. The code draws two UUIDs;
  both are fresh, and one original belongs to one upload.
- The three files of an upload are each written in one step: nobody else knows
  their names until the row is there. For the same reason a refused upload's
  clean-up unlinks them in one step (`UnlinkFails` lets any of them stay). The
  files that a thumbnail request and a backfill write have known names, so creating
  (which truncates) and writing are two steps. Writing through a file that was
  unlinked meanwhile leaves none.
- `ORDER BY` is left open: whichever row the query could return, and any order of
  a list.
- Generators (ffmpeg, pdftoppm) succeed or fail, whatever the file; a PDF never
  gets a preview. A cancelled context shows as a failing statement or read.
- Left out: listings, `Get` and `PlaybackWarning` (they only read), the checks of
  `resolvePath` (every path was made by the store itself), file names,
  sizes beyond their equality, time stamps.

`Init` is the table after the migrations: legacy rows, active, unhashed, their
originals in place.

### The thumbnail command

`ThumbnailBackfill` adds one variable, `job`: the command's flags, the rest of its
listing with the thumbnail paths *as they were then*, and whether anything failed.
The command calls `Service.Thumbnail`, so it takes a slot of `Procs`, begins a
request there as a client would, and takes the answer itself (`CommandTakes`);
all between is the service's (`ServiceStep`), and the command dies with its request
(`ServiceFault`). Its own test for a usable file passes an empty one
(`HasUsableThumbnail`), which the service's does not. Left out: that a listing, or the
one byte it reads, fails; the command would end, or ask for one thumbnail more.

### The upload panel

`UploadQueue` models the React component over several visits to the page. `items`,
`isUploading` and `recent` are its state, `urls` the object URLs it holds, and
`uploads` the asynchronous calls that run: the loop of `uploadQueued`, with the rest
of the list it captured, and a call of `uploadOne` for each other click. Item ids
are numbers in the order of the list, so the list is a function, `map`, `filter`
and the spreading of new items need no sequence, and what a loop has left is a set
(`todo`) of which it takes the least (`Current`, `Rest`).

One event of the browser (a click, a progress event, the end of a request) is one
step, with all that the handler does up to its next `await`: an answer updates the
item, reports the result and lets the loop send its next file. React draws the
panel again before the next event, so a click sees the current list; a loop keeps
the older one. An update is a function of the current list, and updates of a panel
that was left have no effect: both are why a removed item does not come back.
`uploadFile` answers with any result that the service has for the action, or fails
(`Successes`, `Failures`), after any progress. Bounds: `MaxItems` files, `MaxVisits`
visits; `MaxRecent` is 6 in the code, and 1 in the runs, where only the newest result
matters. A history in which both bounds are used up stops, so these runs do not
check for deadlock. Left out: drag events, which end in `addFiles`; which file types
are refused (some are); rendering.

### The pages

`LibraryPages` models one tab over the library that `MediaLibrary` promises, which
other clients use too (`Elsewhere`); that the service is such a library is what
`ImplementsLibrary` says. A call of a page is *sent*, *carried out* by the server
(`Serves`) and its answer *taken* (`Arrives`), three steps between which everything
else may happen; a call may fail, or be carried out and its answer be lost.
Emptying the trash is carried out asset by asset.

`cards` says how many cards the page holds of each asset: order is left out, and a
card is as good as its asset. A load belongs to the effect that sent it and is
forgotten with it (`Cancelled`); the other calls outlive their page but change
nothing that is shown (`mounted`), except that a deletion from an asset's page leads
to the list even when the user has gone elsewhere (`RemovedShown`), as `navigate`
does. From one asset's page to another's the component stays mounted and keeps its
state (`Jump`). Three histories let the properties speak of time: `been` and `always`
(in the page's part of the library at some time, or all the time, since the page was
opened) and `taken` (removed at this page's request). `MaxCalls` bounds the calls
under way. Left out: the double effects of React's strict mode, which only
development builds have, thumbnails' proportions, and wording.

### Sessions

`BrowserSession` models the two cookies that all tabs share, what each tab keeps, and
requests that carry the cookies as they were when sent and change them when the
answer arrives. A session cookie is a number: the server's values are ordered by
their expiry, and a number also stands for the token derived from the value, which
is sound because the token is a keyed hash of the value. `Expire` lets the server refuse the oldest
value; only when no answer that sets it is under way, since a session lasts
hours and an answer does not. The value is made of the name and the second of expiry, so
two logins in one second get the same one (`StartSession`). Tokens of the login form
are random, hence one that nobody has; three suffice for two tabs with two requests
under way, since values out of use may come again. A page's own requests are of two
kinds: a POST carries the tab's token, which the handler checks (`Protected`); a GET, for
a listing, an asset or a file, needs the cookie alone (`RequireAuth`, `ProtectedRead`). What
a tab keeps of its session does not depend on their answers, so they name no tab, and of
any request that was answered only the session it carried is kept. A tab that has logged
out but got no status after that still shows its pages and can send both (`late`).
`ended`, `shared`, `writer`, `left` and `late` are histories.
Failures of the server, of the network and of the rate limiter are one (`Fails`).

### Faults

`MaxFaults` bounds the faults of a history. A read fails (`ReadFails`), a
statement fails (`StatementFails`), a save fails before or after creating its
file, leaving part of it (`OriginalNotSaved`, `ThumbnailNotSaved`,
`PreviewNotSaved`), an unlink fails (`UnlinkFails`), a process dies (`Die`; several
in a row are a crash of the server). With `AckLoss` a failed statement may have
been committed all the same: the answer was lost with the connection.

## 3. The checks

Every run is finite and explored in full. Bounds: the ids (`Ids`) bound the
assets of a history, the processes (`Procs`) the requests at a time (each serves
any number, one after the other), `MaxDay` the midnights, `MaxFaults` the faults.
Uploads that would need an id beyond `Ids` do not begin.

| run | instance | checks |
|---|---|---|
| `dedup` | 2 clients; upload, delete, restore; 3 ids, 2 contents of equal size, 1 legacy row | `ActiveContentUnique`, `UploadAnswersSameContent`, `OneFilePerFault`, `ImplementsLibrary` |
| `trash` | 3 clients; delete, restore, purge, empty, download; 2 assets, 2 days | `LiveOriginals`, `MissingMeansPurged`, `EmptyTrashComplete`, `OnlyTrashIsPurged` |
| `derived` | 3 processes: thumbnails, or `backfill-thumbnails`; thumbnails, deletes and `backfill-previews`; purges; 1 asset, 2 days, 1 fault | `RecordedFilesExist`, `PurgedOriginalsGone`, `ThumbnailsComplete`, `JobTypeOK` |
| `faults` | 2 processes, requests of all kinds but downloads, 1 legacy row, 1 upload, 1 fault | `TypeOK`, `RecordedFilesExist`, `RecordedPreviewsWhole`, `BackfillComplete`, `ImplementsLibrary`, `EveryStepCounts` |
| `progress` | 2 processes; upload, backfill, delete, empty; 2 faults, answers may be lost | `OneFilePerFault`, `EveryRequestAnswered` |
| `queue` | 3 files, 2 visits, fair answers | `TypeOK`, `OneUploadPerItem`, `StatusTellsUpload`, `UrlsOfListed`, `FullMeansSent`, `GoneStaysGone`, `EveryUploadEnds` |
| `pages` | 1 tab, 2 calls under way, 2 assets, 1 content, other clients | `TypeOK`, `NoPhantomCards`, `AlwaysListed`, `NoDuplicateCards`, `DetailShowsId`, `RemovedGoes`, `LoadingEnds` |
| `session` | 2 tabs, 2 requests under way, 2 sessions, 3 login tokens | `TypeOK`, `TabKeepsSession`, `LoginFormWorks`, `LeftChangesNothing`, `LeftReadsByLaterLogin` |

Why this is enough: the races of this code are between two requests on one asset,
or on one content; a third takes part when a restored asset is trashed again
under a purge, and when two thumbnail requests meet a purge, and these runs have
three. Two contents are needed to tell right answers from wrong, two of
equal size to reach the hashing of a legacy row that does not match; a third id
lets two uploads of one content both get as far as the INSERT beside a legacy row.
Two days let a file be regenerated under another path. One asset is enough for
`backfill-thumbnails` to make several calls, since it may be in both its listings.
`dedup` and `trash` declare
processes interchangeable (`ProcSymmetry`): there all processes serve the same
kinds of request and no liveness property is checked. No run of `MediaService`
disables the deadlock check: in every state some client may send a request. In the
panel three files let a loop have one under way and one before it while a third is
added or has failed, and two visits let a loop of the first run beside one of the
second.

What can go wrong on a page takes two calls: a load and an answer that it misses, a
removal and its repetition, an upload and a listing; the third actor is another
client, who is not bounded. One asset exists from the start and one is uploaded, so
that one can be shown where the other is asked for. In `session` two tabs with a
request each are the races of the cookies; two sessions let a tab hold the token of
one when the cookie is the other's. Tabs, tokens and slots are interchangeable there
(`MCSymmetry`), and no liveness is checked. Neither run disables the deadlock check.

Three of the panel's and the pages' properties hold only because of details that
look incidental: a card cannot be clicked while its page is loading (`RemoveEarly`),
a card is taken away when the removal is answered and not when it is clicked
(`RemoveAtOnce`), and the login handler answers a browser with a session with that
session (`LoginAnyway`).

Every property of a passing run is tied to a mutant: a change of one definition
as a plausible bug would make it (a dropped guard of a statement, an unlink before
the DELETE, a path recorded too early), under which the run must fail. The mutants
stand before the definitions they change.

### The abstract specification

`MediaLibrary` has no requests: an asset is unborn, live, trashed or gone; it is
added once, with a content, if no live asset is known by that content; trashed
and put back; purged from the trash only. The refinement mapping (`Library` in
`MediaService`) reads the status from the row, `unborn` being an id not drawn
yet or drawn by an upload that may still insert it; the original from the *file
system*, at the path of the row; and the known content from the hash column. That
every step of the service is a step of the library or none therefore says, at
once, that no original of an asset in the library is ever lost or changed, that
nothing leaves the library except by a purge from the trash, that a purged asset
never comes back, and that hashes are true and live ones unique.

### Fairness

`FairSpec` asks weak fairness of each request in flight and of nothing else: the
Go scheduler runs every goroutine, statements and file operations return (the
generators run under timeouts), and a request's next step is never disabled by
another request, so it does not wait for anybody. Clients need not send anything;
midnight and faults need not happen. `EveryRequestAnswered` then rests on the loops
over candidate lists, the trash and the backfill's list getting shorter:
`EveryStepCounts` says so, with the number of steps that are left (`StepsLeft`).

The pages' `FairSpec` asks that every call is carried out or fails, and that its answer
is taken; no user and no other client has to act. `LoadingEnds` is about a page on
which the user stays.

The panel's `FairSpec` asks that each request a call has sent comes to an end, by an
answer or a network error, as the browser sees to; no click has to happen.

### What the documentation says and the code does not do

Four runs are expected to find a violation; `PROJECT.json` quotes the lines.

| run | property | what happens |
|---|---|---|
| `shared_file` | `ActiveKeepsFile` | two legacy rows share a file; one is restored between the other purge's reference count and its unlink, and loses its file |
| `stale_count` | `PurgedOriginalsGone` | a row restored for a moment during its own purge is counted as a reference to its file, which then stays for ever |
| `removed_upload` | `TrashedDuplicateOffersChoice` | a file removed from the panel's list while the loop is busy is uploaded nevertheless, and its duplicate in the trash cannot be answered |
| `lost_upload` | `UploadedStays` | an upload is answered before the first listing, which was read earlier and then replaces the list: the new card is gone |

`derived` checks `PurgedOriginalsGone` too, in an instance without restores,
where it holds: the stale count takes a restore, as the theorem `PurgesUnlink` says
in general.

Three more disagreements need no concurrency, only one client's calls in a certain
order; the model contains them, and they are among the hazards, without a run: the
trash is looked up before active legacy rows, so the user is asked about a trashed
duplicate though an active one exists (`service.go:63`, `README.md:95`); a legacy
row trashed before it was hashed is not recognised as a duplicate
(`media_repository.go:144`, `README.md:96`); and a preview that failed is stored as
`''` where the backfill looks for NULL (`media_repository.go:239`, `README.md:135`).

## 4. The proofs

`MediaServiceProofs` proves, for any numbers of assets, contents, processes,
days and faults, from the two named assumptions on the constants in `MediaState`:

- **`TypeCorrect`**: `Spec => []TypeOK`. The inductive invariant `TypeInv` adds what
  a request must hold at each program counter: an asset where it works on one
  (`NeedsTarget`), the uploaded content where an upload goes on (`NeedsContent`), an
  error where an upload cleans up, an active row where it is about to insert one.
  Without it a step might read the row of an asset that does not exist.
- **`NoDataLoss`**: `Spec => []LiveOriginals`, assuming `UniquePaths` (no two legacy
  rows share a file) and `~AckLoss` (a failed statement was not committed). Every
  interleaving and every other fault is included. `LiveOriginals` is not
  inductive: that an unlink does no harm depends on who else has the id. The
  strengthening `LibInv` says that ids with rows were drawn (`IssuedOK`); an upload
  from its draw to its INSERT or clean-up owns an id that has no row and that no
  other upload has (`MakingOK`), its original being whole until the INSERT
  (`FillingOK`); a purge past its DELETE works on an id that has no row and that no
  upload has (`PurgingOK`). The proof has one lemma for each step that matters
  (`DrawKeeps`, `InsertKeeps`, `UndoKeeps`, `PurgeRowKeeps`, `PurgeOriginalKeeps`) and
  one frame lemma for all others (`Frame`): a step that adds and removes no row and
  no original, and gives nobody an id, keeps the invariant. Both assumptions are
  needed: TLC finds `LiveOriginals` violated in the instances of `shared_file` and
  of `progress`, where one of them fails.
- **`ActiveSpared`**: `Spec => OnlyTrashIsPurged`, with neither of those assumptions:
  no step takes the row of an active asset away, whatever a purge has read before.
  It follows from `TypeInv`: each statement carries its own guard, and an upload
  only inserts active rows. The cases are the statements that keep every asset, the
  INSERT, the DELETE, and a failed statement that was committed nevertheless.

`DedupProofs` proves, with neither of those assumptions and under every fault:

- **`ContentUnique`**: `Spec => []ActiveContentUnique`;
- **`AnsweredAlike`**: `Spec => []UploadAnswersSameContent`.

Both follow from the inductive invariant `DedupInv`. `TableOK` says what the hash
column means: a hash is the hash of the row's content, only legacy rows have none, and
no hash belongs to two active rows. It cannot stand alone: a step writes what a request
has in memory, so `LocalsFit` says that a candidate about to be hashed is a legacy row
and its hash that of its file (`FilesOK`: a legacy file is as it was, or gone), and
that an upload inserts a row of its own content. For the answers, `ClaimsOK` says of
every upload that has been given an asset, or is about to restore one, that the
asset holds its content *and always will* (`Holds`): its id is drawn, so no other
content can come under it, and no upload still has it to insert (`OwnersOK`). One
lemma, `DedupFrame`, carries all parts over a step that keeps the table's meaning
(`Kept`) and every request but one; the others say that each statement keeps the
table and that each kind of step leaves the request with fitting locals.

`RefinementProofs` proves **`LibraryImplemented`**: `Spec => ImplementsLibrary`, assuming
`UniquePaths` and `~AckLoss` as `NoDataLoss` does. The invariant is `LibInv` and
`DedupInv` together (`ServiceInv`): the first makes what the library sees of an
original the content of its row (`Seen`), the second makes hashes true and unique. A step
is then sorted by what it changes for the library: nothing (`StutterImplements`:
all reads, files, paths, ids drawn for an upload that goes on), or one asset
(`LibraryMoves`): the INSERT is `Add`, the hashing of a legacy row `Learn`, the three
statements on the trash `Trash`, `PutBack` and `Purge`, and an upload that gives up
before its INSERT, is refused by the index or dies is `Abandon`. Requests that hold
no drawn id cannot change which ids are still pending (`Aloof`), so all
actions come down to a few lemmas, one for each way to touch the library.

What the refinement gives, a reader need not prove again: **`ActiveFilesKept`**,
`Spec => ActiveKeepsFile` under the same two assumptions, is that no step of
`MediaLibrary` changes the original of an asset that is live before and after it. The
run `shared_file` is what happens without `UniquePaths`.

### Single requests

`RequestProofs` is about requests that act on what they read earlier. Its invariant
`SeenInv` is `DedupInv` with what each request has seen and done, in a form that no
other request can undo: an id is `Settled` once it was drawn and no upload will insert it any
more, so that a row that is gone stays gone (`Gone`); and of a row that stays, no
statement takes back a recorded thumbnail or preview. So of what `EmptyTrash` has
listed, all but the rest of its list and the asset in hand is gone (`EmptyOK`), and
the same holds of `backfill-previews` and previews (`BackfillOK`).
One lemma (`StepSeen`) carries all parts over a step that leaves settled assets
so (`Stays`). From this, with neither assumption and under every fault:

- **`TrashEmptied`**: `Spec => []EmptyTrashComplete`;
- **`PreviewsBackfilled`**: `Spec => []BackfillComplete`.

**`OnlyPurgedMissing`** (`MissingMeansPurged`) needs `LibInv` beside it (`MissingInv`), since a
file is there for as long as the row is, and with it `UniquePaths` and
`~AckLoss`.

**`PurgesUnlink`** is `PurgedOriginalsGone`, and **`FaultsCostOne`** is
`OneFilePerFault`. Both assume `UniquePaths`, but not `~AckLoss`, and both are about
behaviours in which no asset is restored between a purge's lookup and its count of
references (`[][~RestoredUnderPurge]_vars`). This is the window of `stale_count`, and
the theorems say that it is the only one: with it closed, whatever else is
interleaved and whatever fails, a purge that reports success has unlinked its original,
and every failure, crash or commit unseen by its caller costs one original at most,
left without a row or lost to its row. Without a failure, every original has a row or a
request in charge of it, and every row its original. The invariant `OrphanInv` says that
a purge about to count has an asset that is not active, has counted no reference from
there on, and has removed both row and original when it reports success. `UniquePaths`
cannot be dropped: trashed rows are not counted as references, so one purge unlinks the
file that another row in the trash still names.

`OneFilePerFault` counts, and its inductive form must charge a loss to the failure, not
to the clean-up that follows it: an upload whose INSERT was committed unseen is about
to unlink the file of a row that is there, and that file counts as lost at once
(`AtRisk`). `RiskInv` then says what an upload in flight has to itself. A step adds
nothing to the files at risk (`StepRisk`) nor, by `OrphanInv`, to the stray ones
(`NoNewStray`); a fault touches one original and the rows that name it
(`FaultTouches`), so each set grows by that one (`NextRisk`, `OneMore`).
**`LossesBounded`** is the half that needs no closed window: restores under purges
leave files behind, and never take one.

**`StepsRunOut`** (`EveryStepCounts`) is the part of termination that is no liveness: each step of a
request in flight, of its own or a fault, leaves it fewer to take. The bound is exact, 7
steps for each asset that EmptyTrash has listed, 6 for the backfill of previews, 2 for each
legacy row an upload hashes. It needs the types alone (`TypeInv`).

### Thumbnails and previews

`DerivedProofs` shares `SeenInv`. `FilesInv` adds that a request about to record a
path has its file, unless the asset is gone (`HeldOK`), that while nothing has failed
only a file being written is empty (`ThumbsWhole`, `PreviewsWhole`), and that what a lone
backfill has before it has no preview recorded (`FreshOK`). No file of an asset that
is not gone is ever unlinked (`FilesStay`).

- **`RecordedFilesThere`**: `Spec => []RecordedFilesExist`, assuming `~AckLoss`: an upload
  whose INSERT was committed unseen deletes the files its row names.
- **`PreviewsServedWhole`**: `Spec => []RecordedPreviewsWhole`, assuming `OneBackfill`: one
  process at most runs the preview backfill. Two of them truncate each other's files,
  and one records what the other has just emptied; nothing in the command prevents
  that, and the README's instructions start one.
- **`CommandIsAClient`**: `CommandSpec => Spec`. Whatever `backfill-thumbnails` does is what
  some client of the service could do, hence every theorem about
  `MediaService` holds with the command running.
- **`JobTypeCorrect`** and **`ThumbnailsMade`** (`ThumbnailsComplete`), from `CommandInv`:
  the command's slot serves nobody else, and of what it has listed all but the rest
  of its list, and the asset asked for, has a thumbnail recorded, unless one failed.

### Sessions

`BrowserSessionProofs` proves, for any number of tabs, requests, sessions and
tokens, **`SessionTypes`**, **`PagesStayUsable`** (`TabKeepsSession`),
**`FormStaysUsable`** (`LoginFormWorks`), **`LogoutEndsPosts`** (`LeftChangesNothing`) and
**`LogoutEndsReads`** (`LeftReadsByLaterLogin`). The last two say what a logout is worth to a
tab that goes on showing its pages: its token fits no later session, so no POST of it is
accepted; its GETs carry no token, so another tab's login lets them through again, but
the session that was left never does.
What a tab can do depends on which answers arrive after which, so `SessionInv` says of
every request what its answer may still do to the cookies: a session on its way to the
browser is one that no other request or tab has, unless it is `shared` (`NewOK`); a
request carries the browser's session for as long as that is good (`SentOK`); two sessions
are around only after two logins at a time, and one older than the last only then
(`CarriedOK`); and a request sent from a tab
that was left carries a token that no longer fits, and a session later than the one left, or
none that is good (`LateOK`). `TabsOK` adds what the tabs show.

### The upload panel

`UploadQueueProofs` proves, for any number of files, visits and results,
**`QueueTypes`**, **`SentOnce`** (`OneUploadPerItem`), **`ListIsTrue`** (`StatusTellsUpload`),
**`UrlsRevoked`** (`UrlsOfListed`) and **`NothingComesBack`** (`GoneStaysGone`: each update
of the list goes by id, so those of a file that left it find nothing). The invariant
`QueueInv` says which calls may be under way together: no two of them have an item in common,
counting what a loop has before it (`Apart`); one loop at most belongs to the
panel that is shown, and the upload button is disabled for it (`OneLoop`, `UploadOK`); the
items of a panel that was left are off the list. That a list older than the panel's, which
a loop captured, does no harm follows from these.

**`BarTellsTheEnd`** is `FullMeansSent`, about the bar alone. `Math.round` lets the bar show
100% a little early: two files, one failed and one at 99%, are enough. What a bar of 100% may
hide is at most half a percent for every file listed, over all of them together
(`SumLacks`), so with fewer than 200 files none is waiting. The run has 99 among the
percents (`Percents`) so that this happens, and the bound is reached there.

### The pages

`LibraryPagesProofs` proves type correctness and all five safety properties of the
pages for any number of assets, contents and calls under way, from `PagesAssumption`
alone: `PagesTypeCorrect`, **`OnlyWhatWasThere`** (`NoPhantomCards`),
**`NothingHidden`** (`AlwaysListed`), **`OneCardEach`** (`NoDuplicateCards`),
**`ShowsItsAsset`** (`DetailShowsId`) and **`RemovalsReported`** (`RemovedGoes`).

None of the five is inductive: what a page shows next depends on what the answers
under way will still do to it. `PagesInv` says that of every call (`CallOK`). A load
is the page's own, there is one at most (`OneLoad`), a list waiting for it shows no
asset but uploaded ones, and an answer that is back carries only assets that were
there since the page was opened and every asset that was there all the time
(`LoadOK`); an upload that is still listened to belongs to the list (`UploadOK`); a
removal was offered by the page that is shown, which has been loaded, so that no
listing can undo it, and once answered its asset is no longer one that was there
all the time (`RemovalOK`). `PageOK` ties the histories to the library. The
argument has one lemma for each way a page changes: `ShowKeeps`, `ClickKeeps`,
`JumpKeeps`, the server's steps, and the answers.

### What is only model-checked

- `EveryRequestAnswered`, `EveryUploadEnds` and `LoadingEnds`: liveness under fairness,
  which is out of the prover's reach. For `EveryRequestAnswered`, what is left to TLC is
  that a request in flight always has a next step (ENABLED); that it cannot take steps
  for ever is `StepsRunOut`.

What a recursive function computes for every input takes induction over data, which the
installed provers only do in the form of a least counterexample in a set of numbers: the
bar's sum (`SumLacks`) is the one place that needed it.

The two other properties, `TrashedDuplicateOffersChoice` and `UploadedStays`, are the ones
that the code does not have. Each inductive invariant was checked with TLC, on instances
of the runs of its module, before it was proved.

## 5. Plan

In this order; all but the last are done.

1. `MediaState`, `UploadFlow`, `TrashFlow`, `DerivedFlow`: the media service
2. `MediaLibrary`, and `MediaService` as its implementation
3. runs for deduplication, trash, derived files, faults, progress
4. `TypeCorrect`
5. `NoDataLoss`
6. `ActiveSpared`
7. `UploadQueue`
8. `LibraryPages`: a tab's pages over `MediaLibrary`, and the theorems about them
9. `BrowserSession`: sessions, expiry, login tokens, several tabs
10. `ThumbnailBackfill`
11. theorems: `ActiveContentUnique`, `UploadAnswersSameContent`, `ImplementsLibrary`
12. theorems: `MissingMeansPurged`, `EmptyTrashComplete`, `RecordedFilesExist`,
    `RecordedPreviewsWhole`, `BackfillComplete`, `PurgedOriginalsGone`
13. theorems: that the steps of `ThumbnailBackfill` are the service's, and its properties
14. theorems: the properties of `BrowserSession` and of `UploadQueue`
15. theorem: `ActiveKeepsFile` where no two rows share a file
16. theorem: what a failure may leave behind (`OneFilePerFault`)
17. theorem: requests run out of steps (`EveryStepCounts`)
18. open: the same as 16 for thumbnails and previews, whose files a purge may leave
    behind without any failure (the hazard at `service.go:301`)

### Not modelled

- *Rate limiter*: a map behind a mutex from addresses to token buckets of a library.
  The map only grows, which no bound in the code limits; a refusal is one of the
  failures of `BrowserSession` and `UploadQueue`.
- *Start-up and configuration*: environment, waiting for the database, listening;
  only the end of the process matters to what is stored (`Die`).
- *Running the migrations*: the state they leave is `Init`, the index `HashTaken`.
- *Drag and drop* in the panel, which ends in `addFiles`; rendering, labels,
  formatting, thumbnails' proportions.
- *Status codes* but for success and failure; `resolvePath`, since every path in use
  was made by the store.
- *Deployment scripts, end-to-end tests, styles, build output*: around the program,
  or generated.

## 6. Running it

    tlc -workers 2 -config Dedup.cfg MC_MediaService
    tlc -workers 2 -config Derived.cfg MC_ThumbnailBackfill
    tlc -workers 2 -config Queue.cfg MC_UploadQueue
    tlc -workers 2 -config Pages.cfg MC_LibraryPages
    tlc -workers 2 -config Session.cfg MC_BrowserSession
    tlapm MediaServiceProofs.tla
    tlapm DedupProofs.tla
    tlapm RefinementProofs.tla
    tlapm RequestProofs.tla
    tlapm DerivedProofs.tla
    tlapm LibraryPagesProofs.tla
    tlapm BrowserSessionProofs.tla
    tlapm UploadQueueProofs.tla

`RemovedUpload.cfg` belongs to `MC_UploadQueue`, `LostUpload.cfg` to
`MC_LibraryPages`, and the other `.cfg` files to `MC_MediaService`; each run takes
between a second and three minutes.
