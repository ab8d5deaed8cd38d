# A formal model of TeleCloud

TeleCloud stores a user's files as chunks posted to Telegram channels. What it
knows about them - accounts, folders, files, chunks, shares - is in a Supabase
(PostgREST) database; rate budgets and a retry queue are lists and sorted sets
in Redis; QStash calls two cleanup jobs on a schedule. The server is one or more
asyncio processes that keep no lock and open no transaction across calls. A
handler therefore is a sequence of single requests to a database, to Redis and
to Telegram, and at each `await` any other handler or job run may go ahead. That
is where this code can go wrong and where its unit tests, which run one handler
at a time against fakes, do not look. The modules here have one action per such
request.

## 1. The system's parts

Paths are under `src/telecloud/` unless they start with `frontend`.

| Part | State it keeps | Operations | Talks to | What is hard |
|---|---|---|---|---|
| Files (`files/service.py`, `files_repo`, `chunks_repo`) | rows `files` (pending, committed, deleting), `chunks` | upload, list, rename, move, download, soft-delete | storage, quota, jobs (enqueuer) | status is checked by a read and written by id later |
| Upload (`storage/upload.py`) | the piece being sent | post a piece, insert its row, commit chunks, commit file | Telegram, database | two-phase commit with no rollback; failure between post and row |
| Download (`storage/download.py`, `shared/helpers.py`) | an open stream: its list of chunks and its place in it | read file and chunk rows, stream whole or a byte range | Telegram, database | rows read one after the other while a delete runs; range arithmetic; status and headers sent before the first chunk is fetched |
| Jobs (`jobs/service.py`, `jobs/router.py`, `jobs/enqueue.py`) | a run's batch and snapshot | sweep_orphans, delete_deferred, process_retries | everything | runs overlap each other and the requests, and act on stale lists |
| Retry queue (`rate_limit/queue.py`) | ready list, dead-letter list | enqueue, dequeue, mark_failed | Redis | at-most-once dequeue, attempts counted on a copy |
| Telegram transport (`telegram/transport.py`, `client.py`, `pool.py`) | none of its own | send, fetch, delete, spend budgets, enqueue on failure | Telegram, limiter, queue | transient or permanent, before or after Telegram acted |
| Rate limiting (`rate_limit/limiter.py`, `redis_client.py`, `middleware/rate_limit.py`) | a sorted set per key | check | Redis | the clock is read before the script runs; window boundary; two budgets one after the other; a reply lost after the script has run |
| Quota (`quota/service.py`, `policy.py`) | `profiles.storage_used_bytes` | check_can_upload, add_usage, subtract_usage | database | gate and charge apart; the floor at zero is a second update |
| Folders (`folders/service.py`, `folders_repo`) | `folders.parent_id`, `deleted_at` | create, list, rename, move, soft-delete with cascade | database, files | a tree changed row by row by several requests |
| Sharing (`sharing/service.py`, `shares_repo`) | rows `shares` | create, revoke, list, public download | database, storage | one read decides, then name, count and opening are three more calls |
| Database clients (`database/client.py`) | pool of idle clients | acquire, release, close | Supabase | a client carries one user's token; the pool may be closed and made anew while clients are out |
| Tokens (`auth/tokens.py`, `dependencies.py`) | cache of signing keys | verify a token | Supabase Auth | keys rotate while fetches are under way; one fetch at a time behind a lock |
| Accounts (`auth/service.py`, `supabase_auth.py`, `profiles_repo`, `users/`, the triggers of migration 0005) | rows `profiles` beside the users Supabase keeps | sign up, resend a confirmation, login, logout, read the profile | Supabase Auth, database | the row is a copy made by triggers and, in two calls, by logins, while users are confirmed and removed |
| Job signatures (`jobs/signature.py`), middleware, configuration, models | none | one check, wrapping | - | - |
| Frontend transfers (`frontend/src/transfers.js`) | three transfer slots, a queue | add, run, finish, pump, clear | the API | a slot per callback |
| Frontend session and requests (`frontend/src/session.js`, `api.js`, `views/auth.js`) | an access and a refresh token, one shared refresh | login, logout, refresh, request with retries | the API, Supabase Auth | refreshes overlap requests, a 401 and a logout |
| Frontend views (`frontend/src/views/`) | what is on screen | render, handle clicks | the API | the page of a link makes downloads of its own |

How they meet: `upload_file` asks quota, inserts the pending row, lets
`store_upload` post and record the chunks and commit, and then charges the
account. `soft_delete_file` marks the row, refunds, and calls an enqueuer that
only logs; the row and the messages go when a scheduled run finds the row.
`soft_delete_folder` calls `soft_delete_file` for each file of each folder of a
subtree. A run first drains the retry queue, then looks for pending files older
than a day (sweep) or for deleting files (deferred), deletes the messages its
chunk rows name, and deletes the row; messages it could not delete are handed
to the queue. The transport hands its own failures to the same queue, and spends
one or two rate budgets before each call to Telegram. A signed-in request first
passes the request limiter, has its token verified with the cached keys and then
borrows a database client for each of its reads and writes. A public download
has no token: the link's row is its only gate, and after it the path is that of
an owner's download. In the browser every request and every transfer uses the
one session, and any of them may be the one that renews it.

Every part, modelled or not, is in `PROJECT.json` under `components`, and every
place where this code is hard to test under `hazards`, at its line, with the
properties that watch it.

## 2. The modules

| Module | Models | Abstract specification |
|---|---|---|
| `FileStore` | what the owner of a file is promised | - |
| `DeferredDeletes` | what the retry queue promises the cleanup jobs | - |
| `Lifecycle` (`MCLifecycle`, `LifecycleProofs`) | upload, soft delete, both cleanup jobs, faults | implements `FileStore` and `DeferredDeletes` |
| `RetryQueue` (`MCRetryQueue`, `RetryQueueProofs`) | the queue, the transport that fills it, `process_retries` | implements `DeferredDeletes` |
| `Quota` (`MCQuota`, `QuotaProofs`) | usage of one account | - |
| `FolderTree` (`MCFolderTree`, `FolderTreeProofs`) | the folder tree of one account, cascades, placing of files | - |
| `Ranges` | byte ranges and chunk numbers, as functions | - |
| `Download` | opening and streaming of one file, while it is deleted | - |
| `Sharing` (`MCSharing`, `SharingProofs`) | a link to the file; composes with `Download` and `Ranges` | - |
| `KeyCache` | verification of tokens against cached signing keys | - |
| `ClientPool` | lending of user clients | - |
| `Accounts` (`MCAccounts`, `RequestsProofs`) | users, profiles, confirmation and logins | - |
| `Requests` (`MCRequests`, `RequestsProofs`) | a signed-in request: `KeyCache`, then `ClientPool` | - |
| `RateLimit` (`MCRateLimit`, `RateLimitProofs`) | the limiter, the middleware and the transport that call it | - |
| `Transfers` | the three slots of a tab | - |
| `Session` | the tokens of a tab and their renewal | - |
| `Browser` (`MCBrowser`, `BrowserProofs`) | API requests and jobs; composes `Transfers` and `Session` | - |

`Lifecycle` and `RetryQueue` share the queue. `Lifecycle` keeps of it only which
messages it owes and which it has parked, with the three steps that can happen to
an owed message (`RetryDelivers`, `RetryGivesUp`, `RetryDropped`). `RetryQueue`
has the descriptors, attempts and drains. Both are shown to implement
`DeferredDeletes`, which is what makes the abstraction in `Lifecycle` an honest
one: the detail refines the promise that the coarse module lives by.

### Lifecycle

State is the database and Telegram (`status`, `aged`, `rows`, `msgs`), where each
handler is (`pc`, `sent`, `del`), what each run has read (`batch`, `target`,
`todo`) and the queue (`owed`, `dead`). A message and its chunk row are both
named by file and chunk index. Each action is one call: `UploadInsert`,
`UploadSend`, `UploadRecord`, `UploadCommitChunks`, `UploadCommitFile` for
`upload_file`/`store_upload`; `DeleteLoad` and `DeleteMark` for
`soft_delete_file`; `JobFind` (the one query of a run), `JobList` (the snapshot
of a file's chunks), `JobDeleteMessage`, `JobDeferMessage`, `JobSkipMessage` (the
three ends of one delete), `JobDeleteRow`. The updates are by id and overwrite
whatever status they meet, as in the repositories. `Age` is the passing of the
sweep's cutoff. Faults are opt-in per instance by `Faults`: a lost reply, a failed
insert, a crash of the process, an aborted run, a lost descriptor, a permanent
refusal, an upload slower than the cutoff.

### RetryQueue

`ready` and `dead` are the two Redis lists; each push or pop is one action. The
inline attempt of a delete may be queued twice, once by the transport
(`InlineRequeue`) and once by the cleanup run that catches the error
(`InlineHandover`), as the code does. A replay goes through the same transport,
so `ReplayRequeue` enqueues a fresh descriptor before `MarkFailed` puts the old
one back. Sends are queued and then dropped by the drain (`ReplayUnknown`). A run may
die with a descriptor in its hands (`DrainDies`); `lost` is the history of what
was lost so, `effected` is what Telegram has done, `fails` counts the failures of
an item. Towards `DeferredDeletes`, what a dead run took with it stays owed: it
is never delivered, and never called done.

### Quota

One account; files have sizes, an upload passes `CheckProfile`, `CheckUsage`,
`Store`, `Charge`, a delete `DeleteLoad`, `DeleteMark`, `Refund`, `Floor`. Each
update is one atomic `UPDATE` (migration 0003), `Adjust`. A charge may be lost
(`ChargeFails`), and so may either update of a refund (`DeleteFails`); a
file may be asked to be deleted by several requests that each found it there. What
a set of files comes to is the number of bytes in them, counted as the
members of a set (`ByteSet`), which needs no recursion. The gate compares the declared size (the request's
Content-Length) and the charge uses the stored size; the model takes them to be
equal.

### FolderTree

`parent`, `deleted` are the folder rows, `where`, `status` the files. `req` is
what each client's request has found out: the target and the walk of
`move_folder` (`MoveTarget`, `MoveAscend`, then `MoveReject` or `MoveAccept` and
`MoveWrite`), the queue and the list of a cascade (`DeleteCollect`, `DeleteList`,
`DeleteFileLoad`, `DeleteFileMark`, `DeleteStamp`). An upload or file move checks
the folder (`PlaceLoad`) and writes later (`PlaceWrite`). `late` and `raced` are
history: which files came into a folder after it was listed, and whether a
cascade was cut short or met a write.

### Ranges, Download and Sharing

`Ranges` has `parse_range` (`ParseRange`, `Clamp`) and the chunk arithmetic
(`ChunkCount`, `IndexOf`, `OffsetOf`, `ChunkLength`), and beside them what a range
header means (`Wanted`), defined by the bytes it names. An owner's download reads
the row twice (`OwnerLoad`, `Open`), then the chunk rows (`ListWhole`,
`ListRange`), and streams: `PieceWhole`, `PieceSkipped` and `PieceSent` are what
the two generators do with one piece from Telegram, which cuts a chunk into
pieces of any length. `cursor` is the generator's place: the chunk, the place in
it, the bytes still to be skipped and those still to be sent; `out` is what the
client has received. `SoftDelete` and `RowsGone` may come between any two steps,
and Telegram may fail at any piece: a stream that cannot go on ends `broken`, its
status and length having been sent.

`Sharing` adds the link and its owner (`CreateLoad`, `CreateInsert`,
`RevokeLoad`, `RevokeWrite`), its expiry and its cascade, and puts the gate in
front of a visitor's download: the row is read once and enforced, the file's
name is read, the count is raised by one atomic update, and only then is the
download opened. `Pages` are downloads made by the link's page in the browser,
which first asks for one byte to learn the file's name and size.

### KeyCache, ClientPool and Requests

`verify` is where a request's verification is; the lock is the queue of those
that wait for it, served in order. The server publishes one set of keys after
another (`Rotate`, an external step); a fetch gets a copy of the current set
(`FetchAnswered`), which replaces the cache later (`Replace`), or it fails. A pool lends, takes back
and overflows; borrowing and setting the token is one step because there is no
`await` between. `close` drops the idle clients one by one, and a client that is
out comes back to the list of the pool it came from. `Requests` orders the two: no
client before the token is verified, and the answer after it is back.

### Accounts

`user` is what Supabase keeps (`auth.users`), `profile` the row beside it. A
trigger inserts the row with the user (`Shell` in `SignUp`), a second one copies
the confirmation (`Confirm`), and a removal cascades (`Remove`). A login signs in
(`SignIn`), looks for the row (`FindProfile`) and inserts a shell if there is none
(`InsertProfile`), which the database refuses when another login or a removal was
faster. `LoginDies` is a call that fails, the insert made or not. `Early` users
are from before the triggers and have no row. `flag` is the `email_verified` a
client was last told, by a login or by `ReadProfile`.

### RateLimit

A call reads its clock and then sends the script; between the two, other calls'
scripts run, with later times in them. The script is one atomic step. Redis may
be unreachable with the script run or not. The middleware then lets the request
pass, the transport does not. A call that needs two buckets spends them in
order, and what it spent of the first is not returned. `log` and `expires` are
what Redis keeps; `grants` is the history the properties speak of.

### Transfers, Session and Browser

`Transfers` has the slots and the queue with `Pump` inside each step, as in the
code. `Session` numbers the token pairs. `flights` are the exchanges Supabase has
been asked for, and `inFlight` is the one that callers share. `Exchanged` writes
the new pair whatever has become of the session meanwhile, as the code does, and
`Login` replaces whatever session there is. `used` and `lost` are history: the
refresh tokens that have been exchanged, and those of them whose answer never
came, which the browser still holds. A reply with an access token and no refresh
token is left out.
`Browser` walks a request through renewal, sending, a 401 with one more renewal
and one more sending, retries and the end, and lets uploads and downloads do this
in their slots. A download looks twice whether it needs new tokens, on its own
(`transfers.js` 184) and in its request (`api.js` 76). A transfer ends once: that
the browser fires one of `onload` and `onerror`, and that once, is taken as given. Logins, logouts and the expiry of tokens come at any time. It is
one tab that is not reloaded.

## 3. What is checked

Sizes and bounds are in the `.cfg` files; every one is named here.

| Run | Instance | Properties |
|---|---|---|
| `lifecycle_safety` | a two-chunk and an empty file, two soft-deletes each, two sweeps and a deferred run, batches of 2, all faults but `slow` | `CommittedIntact`, `ImplementsStore` |
| `lifecycle_live` | a two-chunk and a one-chunk file, one soft-delete each, one sweep, one deferred run, batches of 1, no faults | `MessagesAccounted`, `ImplementsDeletes`, `ImplementsLiveStore`, `AbandonedReclaimed`, `RemovedReclaimed` |
| `retry_queue` | a message and a piece, two drains, two attempts, batches of 2, three transient failures, one process that dies | `TypeOK`, `DescriptorsKept`, `ParkedLate`, `ImplementsDeletes`, `QueueDrains` |
| `quota` | sizes 1, 2, 2 under a cap of 2, two uploads at a time, one delete per file and a second one of one of them | `FloorPending`, `NeverUndercharged`, `RefundsAddUp`, `OvershootBounded` |
| `folders` | every tree of at most three folders, one file, two clients, one of them a mover | `TypeOK`, `Acyclic`, `StrandedOnlyLate`, `CascadesComplete` |
| `sharing` | a file of 0 to 3 bytes in chunks of 2; the owner asks with nine ranges, two visitors for one byte; limit 1 or none | `StreamExact`, `RangeHonoured`, `EveryStreamCounted`, `LimitOvershoot`, `ShutStaysShut` |
| `requests` | three requests, two of which use the database; two keys and the shared secret; published sets {k1}, {k1, k2}, {k2}; two clients | `TypeOK`, `ActsForHolder`, `NoneLost`, `CacheNeverOlder`, `NoFalseRefusal`, `Decided` |
| `accounts` | a user from before the triggers and one who signs up, three logins of either, confirmation asked for or not | `SyncedSinceTriggers`, `NeverToldTooMuch`, `ConflictOnlyIfRaced` |
| `rate_limit` | a request, a stream and two sends; the bot's bucket 2 in a window of 2, the others 1 in a window of 3 | `BudgetKept`, `RefusedOnlyWhenFull` |
| `browser` | a download, an upload and a logout in one tab with one slot | `TypeOK`, `SlotsExact`, `SingleFlight`, `TransfersEnd` |

Why these bounds are enough to meet the interesting cases. Two chunks make a
first and a last chunk and a commit that could come between them; an empty file
goes through commit and cleanup with no chunk; two sweeps and a deferred run
give two runs of the same kind, and two kinds, working on one file from lists of
different ages; a batch smaller than the candidates makes runs leave work for
the next one. Two attempts are the fewest for which a descriptor is both put back
and parked; two drains hold two descriptors of one message at once, and a third
transient failure comes after one has been parked. Under a cap
of 2 no two files fit together, so two overlapping uploads overshoot and a delete
meets a total that is too small; a repeated delete of one file (`OnlyOneRepeated`)
is what refunds too much. Two logins of one user are the fewest that race for a
row, and the third may come before, between and after them. Three folders are the smallest tree with a
grandchild, a sibling and a move from one branch to the other; two clients
suffice for each race the code has between two requests, and the same client sends
one request after the other without end. Three bytes in chunks of two make a
full chunk and a short one, and sizes 0 to 3 (`MaxSize`) meet the empty file, the
exact multiple and both sides of it; every form of range is asked for: open,
suffix, inside one chunk, across two, past the end, reversed, empty, malformed. Two visitors
under a limit of one both pass the gate on a count of zero; without a limit
`MaxCount` stops admissions, as the count grows without end there. Three sets of
keys add one and withdraw one, so that a cached set can be too old and a token
can be older than the set; of the three requests two contend for the lock and
one, signed with the shared secret, never needs it. `MaxIdle = 1` with two
clients makes the pool overflow, and `MaxPools = 2` lets it be made anew once.
Windows of 2 and 3 against `MaxTime = 3` let entries leave the set while calls
are under way, and `MaxDelay = 1` lets stamps arrive out of order. One slot
makes the second transfer wait; a click is left out, because it takes the steps of
a download's request; `MaxPairs = 3` allows a login, a renewal and one
more of either; one retry (`Retries`) has a first and a last attempt.

`MaxTransient` bounds only how often Telegram fails transiently, and `MaxDeaths`
how often a process dies;
`FolderTree` and `Lifecycle` have no counter to bound. The proofs of section 5
hold for every value of all these bounds. Deadlock is checked where
the system cannot stop (`RetryQueue`: the schedule always starts another run)
and is switched off for the others, which stop when every request of the
instance has been made. `Permutations` of the folders, of the visitors in `sharing` and of alike calls in `rate_limit`,
are used for safety only.

**Fairness.** `lifecycle_live` assumes weak fairness of the passing of time, of
each job's steps and of the queue's replays: QStash keeps delivering both
schedules, a run that was started goes on, and each run drains the queue first.
Nothing is assumed about clients: an upload may hang for ever and a delete need
not be asked for. Liveness is checked without faults, that is, in the periods in
which runs end normally; with runs that abort without end it would be false and
no code could help. `retry_queue` assumes the same of drains, and that a caller
which has begun a hand-over finishes it, after the last death. `requests` assumes weak fairness of each
request's steps in the key cache: the event loop runs what can run, the lock is
first come first served, and a fetch ends within the client's timeout of ten
seconds (`auth/tokens.py` 48). Nothing is assumed of the pool or of rotation.
`browser` assumes that scripts go on and that requests and exchanges end with an
answer or an error. Nothing is assumed of the user: logins, logouts, clicks and
the expiry of tokens may happen or not.

**What the properties say** is stated in front of each of them in the modules.
The central ones: a file shown as committed has every chunk row and every
message, whatever runs or crashes where (`CommittedIntact`); a file takes only
the steps its owner may rely on (`ImplementsStore`); no message is forgotten,
between rows that go first and messages that go last (`MessagesAccounted`); the
total is negative only while a refund that will lift it is under way
(`FloorPending`), and never ends up below what is stored (`NeverUndercharged`)
but by what a lost charge or a repeated delete explains (`RefundsAddUp`);
a cascade leaves nothing behind but what came late (`StrandedOnlyLate`,
`CascadesComplete`); the ancestor walk is enough to keep the tree a tree as long
as moves do not overlap each other (`Acyclic`); a stream sends exactly
the bytes asked for, or breaks off (`StreamExact`), and what a header asks for is
what it names (`RangeHonoured`); a limited link is exceeded by less than the
number of visitors at once (`LimitOvershoot`), never opens uncounted
(`EveryStreamCounted`) and once shut stays shut (`ShutStaysShut`); a client acts
for the request that holds it, even across a closing of the pool
(`ActsForHolder`), and none is dropped unclosed (`NoneLost`); a token whose key
was published all along is not refused for an unknown key (`NoFalseRefusal`), and
every verification is decided (`Decided`); a profile says what Supabase knows
(`SyncedSinceTriggers`), no client is told more (`NeverToldTooMuch`), and a login
fails over its profile only in a race (`ConflictOnlyIfRaced`); a bucket grants no more than its limit
in any stretch shorter than its window by the delay (`BudgetKept`); the slot
count is exact and nothing waits beside a free slot (`SlotsExact`), every
transfer that was queued ends (`TransfersEnd`), and exchanges come one at a time,
none with a token whose successor the browser has been given (`SingleFlight`). The
last does not say that a token is exchanged once, see section 4.

Each property of a passing run comes with a mutant, a definition that differs from the code's
the way a plausible slip would (named `Action_Slip` in the modules), for which
TLC finds the property violated.

## 4. Where code and documentation disagree

| Run | Property | What happens |
|---|---|---|
| `finding_folder_cycle` | `Acyclic` | two overlapping moves each pass the walk and close a cycle that `folders/service.py` 164-168 says is rejected |
| `finding_share_page` | `LimitPermitsDownloads` | the page of a link probes it with a GET of one byte (`views/share.js` 104), which is counted; under a limit of 1 the file itself is then forbidden, where `sharing/README.md` 48-49 says the limit permits exactly one download |

Seen while modelling, with no run of their own.

In uploads, deletes and the queue: a chunk's row is inserted after its message is
posted, and if the insert fails, the reply is lost or the process dies in between,
nothing names the message any more, where `storage/upload.py` 17-20 says that after
"a Telegram send or a DB insert raising" the sweeper "reclaims the abandoned
Telegram messages + rows later" (`MessagesAccounted` is false with these faults, and
`lifecycle_live` has none); an upload
still alive after the sweep's cutoff loses chunks to the sweep and then commits,
which is why `slow` is a fault of its own in `Lifecycle`; each transient failure
of a replay doubles the descriptor, so a delete may fail more often than
`max_attempts`; a delete that overtakes the charge of its upload is floored at
zero, and the charge then counts bytes that are gone; sends are queued by the transport
and dropped by the drain; overlapping uploads may exceed the cap together
(`OvershootBounded` says by how much, as long as nothing is deleted meanwhile);
the stored total is negative between the two updates of a refund; a second
soft-delete that loaded the file before the first marked it refunds it again; a
cascade ends with `not_found` when one of its files was deleted by somebody else,
which leaves the rest of the subtree in place, and nothing resumes it; a replay
of a delete whose message is already gone uses up its attempts and is
dead-lettered; a bot that is no longer configured makes a drain raise `KeyError`
and lose the descriptor it holds.

In requests: a user from before the triggers who confirmed before the first
login gets an unverified shell, and nothing lifts it later, because the second
trigger fires on a confirmation only (`auth/service.py` 65; `Early` in `Accounts`);
a first login that loses the race for the row is answered with an error, the
row being there; a budget is exact only up to the delay between the reading of the
clock and the run of the script, because an entry stamped late leaves the set
early; a download is counted before it is opened, and stays counted when the
opening fails or the range is refused.

In the browser: a network error on the re-sent request after a 401 clears the
session (`api.js` 92-97), where the comments of `main.js` say "a transient/offline
error is ignored so we don't kick out a valid session" (121-122) and "the session
stays intact for the next reload" (146); a refresh token that Supabase has used up
while its answer was lost stays in the session and is sent again by the next
refresh, which Supabase then refuses (`session.js` 105-126; `lost` in `Session`); an exchange that ends after a logout writes its tokens into the session
that was cleared; an upload that waits for a slot is sent with the tokens of
whoever is signed in when it gets one; two tabs share the stored refresh token
and may both exchange it.

## 5. What is proved

All proofs are for every value of the constants that satisfies the named
assumptions of the modules (`ConstantsAssumption`, or the module's own name with
`Assumption`, such as `SharingAssumption`), and are checked by TLAPS.

**`LifecycleProofs`.** `TypeCorrect`. `CommittedStaysIntact` and
`StoreImplemented`, assuming that no upload outlives the cutoff
(`"slow" \notin Faults`; with it the first is false, see section 4). `CommittedIntact`
is not inductive: a run acts on lists that are stale by then. What saves the
code is that whatever a run lists, or the queue owes, can never become committed
again: `Doomed(f)`, deleting, gone, or pending with its upload over. The
inductive invariant `Inv` says that every file in a batch, under work or owed
for is doomed, that a soft-delete past its load has met a committed file, and
that a running upload has a pending, young row that is complete up to `sent`.
The refinement follows step by step from `Inv`. `MessagesStayAccounted`, for
runs that may abort but no other fault (with each of the others the code can
lose track of a message), adds `SnapshotComplete`:
what a run has not yet listed as to do is deleted or handed over, because no
upload can add to a doomed file. `DeletesImplemented`, under the first assumption
and that no run ends with a descriptor in hand (`"drop" \notin Faults`), adds
`DeleteInv`: what was parked is of a doomed file as well, and no message of a
running upload is ahead of the chunk it is at (`Fresh`), so that what it posts is
neither there nor owed. Posting, deleting, deferring, replaying and giving up then
map to the five steps of `DeferredDeletes`, and everything else stutters.

**`RetryQueueProofs`.** None of its theorems has a hypothesis beyond the
module's assumptions. `TypeCorrect`; `NothingParkedEarly`, by the invariant
that the attempts written on every descriptor, wherever it is, have happened
(`CountInv`). `NothingForgotten` is inductive with the types: `HeldInline`,
`HeldDrain` and `HeldDies` say what one step of a caller, of a run and of a death
does to what is held, and only a success, a parking or a death lets go of a
delete. `DeletesImplemented` maps each step to one of `DeferredDeletes`, with a
small invariant of its own (`OnlyDeletesFail`): a run that gives a descriptor
back or parks it holds a delete, never a send.

**`QuotaProofs`.** `TypeCorrect` and `FloorIsRestored`: `FloorPending` is
inductive together with the types, by the refund that has seen the lowest total.
The other three speak of sums over sets of files. A sum is defined as the
cardinality of a set of bytes, so that adding one file to a sum (`BytesAdd`),
taking one out (`BytesRemove`) and bounding it (`BytesAtMost`) follow from the
theorems about cardinalities, without induction. `Balanced` counts a charge
from when it falls due: charges made or due and refunds made cover what was
stored, and no step changes the balance but a floor, which raises it. `InOrder`
ties the steps of a delete to the status of its file, and `FinitelyMany` says that
only finitely many uploads and deletes have begun, whatever `Files` is. From them
`RefundsAlwaysAddUp`, and with no file asked for twice `NeverUnderchargedHolds`.
`OvershootIsBounded` rests on `WithinBatch`: what is charged, with what has been
admitted and not yet charged, exceeds the cap by no more than the other uploads of
one batch.

**`FolderTreeProofs`.** `TypeCorrect`, which here says that no request refers to
a row that is not there, and holds because rows are never taken away.
`OneMoverAcyclic`, assuming at most one client moves folders: the invariant
`Walked` says that a walk has seen the new parent and all its ancestors up to
where it is, and not the folder to be moved; it survives inserts, because a new
folder has no children, and cascades, because they leave `parent` alone. A set
of folders closed under `parent` after the write would then give a smaller
closed set before it. `FoldersEmptied`: every committed file in the folder a
cascade is emptying is on its list, is the one it marks next, or came late
(`Handed`). `CascadesLeaveNothing` covers the rest: as long as no
write met a cascade and none was cut short (`~raced`), no file came late, the
list of a cascade has the live children of every folder it has scanned
(`Covered`), and a live folder under a deleted one is on the list of a cascade
that is still under way (`Followed`); together they are `CascadeInv`. That a cascade with room for all folders lists all the
children is `ListingAll`: distinct names fill as many places.

**`SharingProofs`.** `TypeCorrect`. `StreamsExact` and `RangesHonoured` rest on
lemmas about chunks (which chunk a byte is in, where it starts, how many chunks a
range touches) and on `StreamInv`: what was delivered so far, what remains and
where the cursor stands add up to the range, and the list has either every chunk of the
file or, once the rows are gone, none. Multiplication by a variable
`ChunkSize` is beyond the solver, so the lemmas isolate each use of it.
`StreamsCounted`, `OvershootBounded` and `ShutForGood` rest on `GateInv`: nobody
is on the way before the link exists; the streams opened and the visitors counted
but not yet opened are together at most `count`; and under a limit `count` and
the visitors admitted but not counted are together less than the limit and the
number of visitors. The last is what makes the overshoot bound inductive: a
visitor is admitted only below the limit, and moves from one term to the other.

**`RequestsProofs`.** `TypeCorrect`; `CacheMonotone` and `NoRefusalIsFalse`, by
`KeyInv`: only the holder of the lock fetches, so what it was answered is at
least as new as the set in the cache and as what was current when it began;
`ClientsExclusive`, `ClientsActForHolders` and `ClientsNotLost`, by `PoolInv`: a
client is in exactly one place, and in each of them it is open. The accounts are
in this module too: `AccountsTyped`, `ProfilesInSync`, `VerificationIsKept` and
`ConflictsAreRaces`, all from `ShellInv`. None of the three properties is
inductive alone. It takes that a working link belongs to an unconfirmed user
(`LinksOpen`), that whoever is between sign-in and answer was confirmed and can
since only have been removed (`SignedIn`), and that a login about to insert still
finds no row unless somebody raced it (`RowMissing`). Of these and the types,
`UserStepKeeps` says once what a step of the user may do to logins in progress.

**`RateLimitProofs`.** `TypeCorrect`; `BudgetsKept`, by the invariant `Kept` that
a set has forgotten no grant recorded less than a window minus the longest delay
ago: what the script removes is older than its stamp less the window, and the
stamp is no older than the delay. `RefusalsJustified` follows from the step alone
and the types.

**`BrowserProofs`.** `TypeCorrect`; `SlotsStayExact`, where `SlotInv` is
inductive because each step that frees a slot or adds to the queue ends in
`Pump`; `ExchangesSingle`, by `TokenInv`: the refresh token the session holds has
not been exchanged before unless the answer was lost, and no exchange is under way
but the one that callers share. That the successor of an exchanged token replaces it
in the same step is what makes this inductive, and no login or logout brings an old
token back.

**Only model-checked.** Liveness (`ImplementsLiveStore`, `AbandonedReclaimed`,
`RemovedReclaimed`, `QueueDrains`, `Decided`, `TransfersEnd`), which rests on
fairness and is beyond the proof system's reach. Every other property of a passing
run is stated by a theorem.

## 6. The plan

Done, in this order: `FileStore`, `DeferredDeletes`, `Lifecycle`, `RetryQueue`,
`Quota`, `FolderTree`, `Ranges`, `Download`, `Sharing`, `KeyCache`, `ClientPool`,
`Requests`, `RateLimit`, `Transfers`, `Session`, `Browser`, `Accounts`, each with its runs and
proofs. Left:

1. The theorems of `LifecycleProofs` without their assumptions on faults, by
   history of what a dead run took, as `RetryQueue` has it.
2. Two tabs that share the stored tokens, and users told apart in the browser.
3. The composition of `Quota` with a shared download's file, and of the rate
   budgets with the retry queue they feed.

## 7. What is not modelled

Rendering, routing, CORS, logging and error envelopes keep no state. Signature
and password checks, token signing and the calls to Supabase Auth are
cryptography and I/O. Row-level security and ownership checks restrict every
query to one owner; each module models one account and takes that as given. Bot
selection (`telegram/pool.py`) does not affect the properties. Renaming changes a
name on which nothing modelled depends, and listings only read. Chunk contents,
names and timestamps other than the cutoff, a link's expiry and the limiter's
clock are abstracted away.

Of the modelled parts: the service-role client, one object that is never given
back, and the warm-up that borrows a client at start and returns it
(`database/client.py`); the choice of a rate-limit key from a token or an address,
a constant of `RateLimit`; page reloads and further tabs in `Browser`, and the
warning a tab gives before it is left while a transfer runs. A link is to one
file, and there is one link; links do not affect each other.
