# A TLA+ model of shareserver

shareserver is a file-sharing server: one Go process behind a gateway, an SQLite
database, and a directory of encrypted blobs. A browser encrypts a payload,
uploads it with a password verifier, and gets a link that works until the share
expires. This directory holds a formal model of it, what TLC checks about the
model on small instances, and what TLAPS proves for all of them.

`PROJECT.json` maps every definition to the lines it models, and lists the runs,
the mutants that show each property can fail, the hazards and the findings.

## 1. The system

### Components

| Component | State it keeps | Operations | Talks to |
|---|---|---|---|
| Uploader (`internal/upload`) | `capMu`, the map `reservations`, `hashMu`; one goroutine per request | `Do`: validate, purge, claim capacity, hash, stage, check again, commit, insert | blob store, integrity, shares table, audit |
| Blob store (`internal/storage/blobstore.go`) | `<id>.blob` files, `.staging/<id>.tmp` files | `Stage`, `Commit`, `UsedBytes`, `RemoveBlobBestEffort` | the file system |
| Integrity (`internal/storage/integrity.go`) | `mu` | `Remove`, `Purge`, `PurgeUnprotected`, `Reconcile`, `ClearStaging`, `Lock` | blob files and shares table, together |
| Shares table (`internal/share`) | rows in SQLite, one connection | `Insert`, `Delete`, `Get`, listings, counts; `ActiveRule` decides expiry | the data layer |
| Maintenance (`internal/http/cleanup.go`, `main.go`) | one goroutine | at startup: clear staging, purge unprotected, reconcile, purge expired; the last three again every midnight, then expired sessions | integrity, sessions |
| HTTP routes (`router.go`, `handlers.go`) | a goroutine per request | pages and lists (each reconciles first), share page, download, private lookup, bulk deletion | all of the above |
| Download guard (`download.go`) | failure events and bans in SQLite; a mutex | `bannedUntil`, `recordFailure` | the download route |
| Admin login (`internal/auth`) | admins, failure events, bans in SQLite | `AdminLogin`, `EnsureAdmin` | login route, startup |
| Sessions (`sessions.go`, `middleware.go`) | session rows; the browser's cookie | `Get`, `GetOrCreate`, `Rotate`, `Delete`, CSRF check, `requireAdmin`, daily cleanup | every route |
| Application secret (`internal/config`) | the secret file next to the database | `persistentAppSecret` | startup; the private-key lookup hash |
| Browser pages (`web/static/js`) | page state; progress queue; file selection | encrypt and upload, download and decrypt, previews, cancel | the API; the service worker |
| Download worker (`download-sw.js`, `download.js`) | a map of staged files; timers in the page | stage, forget, answer a fetch | messages between page and worker |
| Supervision (`entrypoint.sh`, `deploy.sh`) | processes, binaries on disk | start, restart, replace | the server and the Anubis gateway |
| Data layer (`internal/ent`, generated) | six tables; a mutation per builder | create, update, delete, query builders | SQLite, one connection |
| Audit (`internal/audit`) | append-only records | `audit.Log` | the data layer |

Shared state is what makes the server interesting. Three mutexes and no
transactions stand between any number of upload goroutines, request goroutines
and one maintenance goroutine, and two stores that cannot be updated together:
a directory and a table. A share is one row *and* one blob; everything in
`internal/storage` exists because one can be there without the other.

### What is hard about each

* **Uploads.** Capacity is claimed before the body is read and checked again after
  it, with minutes of an unlocked stream in between; the claim is given back by a
  deferred call that runs after the locks of the publication are released. Correct
  means: the cap is never exceeded, claims add up, every return path undoes what it
  did, nobody waits for a slow client.
* **Integrity.** Passes work file by file and row by row; the process may die between
  any two steps, any call may fail, somebody may edit the directory. Correct means:
  no share in good standing is lost, blobs and rows are paired again after the next
  pass, expired shares go, and none that was removed can still be read.
* **Requests.** `getShare` reads a row without the lock, looks at the blob, and later
  serves or removes it. Correct means: acting on the stale copy does no harm.
* **Maintenance.** Must complete before the server listens, whatever it finds; must
  come back every day.
* **Guard and login.** Counting and banning are several database calls; only one of
  the two has a mutex, and the read of the ban is outside it. Correct means: guesses are
  limited, a ban is earned and lasts, nobody is let in by a call that failed.
* **Sessions.** Responses arrive in any order and carry cookies; deletions may fail
  silently. Correct means: a session that ended never authorises, an id from before the
  login never becomes an admin's.
* **Secret.** Two processes start at once, and either may die halfway.
* **Upload requests.** A form that is edited while it is sent, a token and a cookie of
  different times, limits that page and server each check in their own way, and an expiry
  that Go and SQL compare differently.
* **Data layer.** Generated separately for six entities; builders are filled in by
  calls in any order and saved against rows others have changed since.
* **Browser.** Timers, messages to a worker that may be stopped at any time, input
  methods that never commit.

## 2. The plan

In order of importance; all but the last line are done.

1. **Storage core** - `ShareData`, `Integrity`, `Upload`, `ShareServer`, `ShareLifecycle`:
   uploads, passes, requests, restarts, composed, and shown to implement an abstract life
   of a share. Theorems: every safety property, and the refinement step by step.
2. **Download guard** - `DownloadBans`. Theorems: types, limited guesses, earned bans.
3. **Who is an admin** - `Sessions` <- `AdminLogin` <- `Access`. Theorems: every property.
4. **Data layer** - `EntSchema` <- `EntMutation` <- `EntQuery` <- `EntStore`, a refinement of
   `RowWishes`. Theorems: every property, and the refinement step by step.
5. **Startup** - `Startup`: secret, account, the two processes and their supervision.
   Theorems: every safety property.
6. **Share page** - `Progress`, `DownloadWorker` <- `SharePage`. Theorems: both safety
   properties.
7. **Upload requests** - `ShareStore` <- `UploadPolicy` <- `UploadPage` <- `UploadRequests`: from the
   form to the listing. Theorems: every property.
8. *Left:* the smaller page scripts (cached sidebar list, login form), if a property of
   theirs turns up that is worth one.

What is composed: 1 is one system; 3 composes sessions, login and the browser; 6 the page,
its progress display and the worker; 7 the page, the policy, the sessions a request is
compared with, and the table. The groups meet in little: 7 leaves open whether there is
room (1's business) and takes of the sessions only which rows are alive (3's business);
5 precedes the `Init` of everything else; 4 lies below all and is what makes it right for
the others to treat a database call as one step on a table.

## 3. The models

### The storage core: modules

| Module | What it is |
|---|---|
| `ShareData` | constants and their assumptions; disk, table, mutexes, reservation total, and the queries on them |
| `Integrity` | the passes under `Integrity.mu`, each file operation and each row deletion a step |
| `Upload` | `Uploader.Do` from line 149, one action per critical section or call |
| `ShareServer` | requests, startup, midnight, crash, clock, edits from outside; `Init`, `Next`, fairness, properties |
| `ShareLifecycle` | the abstract specification: what the server promises about shares |
| `MCShareServer` | symmetry for TLC; the `.cfg` files give the instances |
| `ShareServerProofs` <- `PairingProofs` | lemmas and theorems |

`ShareData` <- `Integrity` <- `Upload` <- `ShareServer` by EXTENDS, for they share all
their state as the goroutines do.

### The storage core: state and code

| Variable | In the code |
|---|---|
| `file`, `size`, `staging` | what lies at `<id>.blob`, its bytes, and `.staging/<id>.tmp` |
| `rows` | the shares table: id, `expires_at`, and whether the payload policy is met |
| `mu`, `capMu`, `reservations` | `Integrity.mu`, `upload.capMu`, `reservations[BlobDir]` |
| `pc`, `asof`, `target` | where a goroutine is, the `time.Now()` it captured, its share |
| `pass` | the locals of the one pass in progress (`known`, the range loop, the walk) |
| `res`, `got`, `exp`, `answer`, `snap` | the locals of `Do` and the directory listing of `UsedBytes` |
| `issued` | UUIDs drawn; they never repeat |
| `chosen`, `rowExp` | the ids of a bulk deletion, a download's copy of the row |
| `selected`, `tampered`, `missed`, `crashes`, `faults` | history, and bounds |

Where a goroutine calls a pass, its `pc` is the label of the call; `StartPass` takes
`Integrity.mu` and runs the query, the middle actions handle one file or row each,
and `EndPass` unlocks and moves `pc` to `Return(label)`. The rows a pass works on are
read when it takes the lock: rows change only under it. `Reserve` lets the walk of
`UsedBytes` count any listed file that is unlinked while it walks, because that walk
does not hold `Integrity.mu`. Its errors are dropped (`blobstore.go:82-88`), so a walk that
fails (`opendir`, `lstat`) counts any part of what it listed; `missed` counts such walks. `Unlock`, `Unstage` and `Release` are three steps, in the
order in which Go runs the deferred calls.

### The storage core: what is abstracted

Payloads are their size in units; instants are naturals; a row keeps what retention
looks at; the path of a blob is its id, which is how `Commit` names it. Wording,
metadata, audit records and HTTP are left out. A *crash* is the death of the process:
what it wrote is still there afterwards (loss of power with unflushed pages is not
modelled). Edits from outside delete a registered blob or put a directory in its
place. `IOFaults` names the calls that may fail: `hash`, `create`, `rename`, `insert`,
`delete`, `unlink`, `lstat`, `query`, `opendir`, `clear`.

### The download guard

`DownloadBans` stands alone: it shares no state with the storage core but the share a
password is looked up for, which is `CheckPassword`'s free choice here. Each request is a
process that fixes `at` on arrival, as the handler captures `time.Now()` once, and
may be slow in anything afterwards. `bans` and `events` are the `download:` rows of the
two tables, `mu` is `downloadProtection.mu`, `failed` is history. An event is
named by the request that failed, so its time and address are the request's.

| Action | Code |
|---|---|
| `ReadBan`, `LiftBan` | `bannedUntil`, once without the mutex and once under it: the row is read, then deleted by key |
| `CheckPassword` | the rest of `apiDownloadPost` |
| `LockGuard`, `RecordFailure`, `PruneFailures`, `CountFailures`, `FindBan`, `WriteBan`, `Unlock` | `recordFailure`, one database call each |
| `Crash`, `Tick` | the process ends, rows stay; the clock, which is taken to be monotone |

`DownloadBansProofs` has the theorems; `MCDownloadBans` holds the symmetry for TLC. Failing calls: `query`, `insert` (also an
update), `delete`. Times are naturals: the text
they are stored in is fixed-width for events (`downloadTimestamp`), so its order is
theirs, and a ban is parsed before it is compared. The value of `Retry-After` is left
out.

### Who is an admin

`Sessions` has one step per database call of `GetOrCreate`, `Get`, `Rotate`, `Delete` and the
daily cleanup, and `Route` for the checks between them; `AdminLogin` has those of
`AdminLogin`; `Access` adds the browser. Nothing here holds a lock, so every two
requests interleave at every call, and every call may fail on its own.

| Variable | In the code |
|---|---|
| `rows`, `drawn` | the sessions table; how many ids were drawn (`randHex(32)` never repeats) |
| `bans`, `events` | `ip_bans` and `login_failure_events` of the login |
| `sent`, `token`, `sess`, `setCookie` | a request's cookie and CSRF token, its `CurrentSession`, its `Set-Cookie` |
| `from`, `at`, `right` | client address, `now` of `AdminLogin`, whether name and password are right |
| `jar`, `tokens` | external: the browser's cookie, and the tokens in the pages its tabs show |
| `ended`, `late`, `locked`, `failedAt` | history |

`CheckBan`, `CheckPassword`, `RecordFailure`, `CountFailures`, `Ban`, `ResetFailures`,
`RetireSession`, `CreateAdminSession` follow the code call by call, with what it does with
each error: a ban that cannot be read is a ban, a failure that cannot be stored is none.
A token is written as the id it was drawn with. Responses are delivered in any order, or
never. `AccessProofs` has the theorems.

### The data layer

`internal/ent` is generated, and most of the program's lines. `EntSchema` transcribes what
each of its files says of the six entities: the migration's columns, the create builder's
checks and defaults, the update builders, the mutation's switch tables, the scanned struct.
The generator wrote these one by one, so that they agree is checked, not assumed.
`EntMutation` is the mutation (`SetX`, `AddX`, `ClearX`, `ResetX`, and what a save makes of
them), `EntQuery` the predicates with SQL's three truth values. The program itself calls only
`SetX` (`auth.go:109,166`, `download.go:103`); the other three are what the generated package
offers. `OldX`, which nothing calls either, is left out. `EntStore` lets goroutines
fill in builders and save them on one connection, each statement a step; `RowWishes` is the
abstract specification, in which a builder is one wish per column and the last call
decides. `EntStore` implements it under the mapping at its end. `Over(f, g)` is the one record of
changes laid over another. `EntStoreProofs` has the theorems.

### Startup

`Startup` has the two processes of `entrypoint.sh`, each a step per file operation of
`persistentAppSecret` (`CreateTemp`, `WriteKey`, `SyncFile`, `Link`, `SyncDir`, `ReadKey`,
`RemoveTemp`), then for the server `EnsureAdmin` call by call (`FindAccount`,
`UpdatePassword`, `CountAccounts`, `InsertAccount`) and `Listen`. `Supervise` is the entry
point with its trap, and docker's `restart: unless-stopped`. A failing call ends the process
(`log.Fatal`), which `Crash` also does at any other step. A configuration may have
`APP_SECRET` set, which skips the secret file. `PowerLoss` keeps what was synced
and may keep or lose the rest. A file is named by its key, out of `Keys`; a temporary file whose process
died is forgotten, for nobody reads it. `StartupProofs` has the theorems.

### The share page

`Progress` states every method of `progress.js` as a function from the object to the object.
`DownloadWorker` is a click on its way, `await` by `await`: the archive of all files is made,
`workerReady` (the one promise of all clicks) settles, the staging is confirmed, the browser
navigates; and the worker's map of staged files, the messages to it in order, and the
navigations that take another way. `SharePage` is `share.js` and `ime.js`: `pc` is where
`loadEntries` is, one action per `await`. `anchor` and `zipBusy` say which click keeps which
button busy. The visitor may type, press, open entries and change the language at any time;
the browser may stop the worker with the message it had just taken, its registration may hang or
fail, and the visitor may leave: promises and timers end with the page, and the worker keeps its
files (`Leave`). `SharePageProofs` has the theorems.

### Upload requests

| Module | What it is |
|---|---|
| `ShareStore` | a share, its row, the active rule of Go and of SQL, listings, the lookup |
| `UploadPolicy` | the refusals of `apiUploadPost`, `uploadParts` and `Do`, in order; who is an admin; the share stored |
| `UploadPage` | the form, the clipboard box, the submit handler, await by await |
| `UploadRequests` | a page or a client, three sessions, the clock, the table; `Receive...`, `Claim`, `StageBody`, `Publish`, purges |
| `UploadRequestsProofs` | lemmas about the operators of the others, and the theorems |

`ShareStore` models a timestamp by what decides its order as text: a second, and one of
four fractions whose RFC3339Nano text has different lengths. A request is a record of what
the checks look at; texts are their length in bytes, with the line breaks of a notice
counted apart, since a form sends each as two bytes. Every check is a refusal with an
answer, and `FirstOf` takes the first that applies. Reading the clipboard is a press, its items
and its end, or its failure; the button is not disabled meanwhile, so `reads` counts how many are
pending. The read of the session, that of the fields and `time.Now()` (`upload.go:149`) are
one step (`Accepted`): nothing between them is locked or awaited but the client's own bytes, and
a session that ends while they arrive is as one that ends just after.

## 4. What the runs show

| Run | Instance | Shows |
|---|---|---|
| `uploads` | 2 uploaders, 2 ids, cap 3, upload limit 2, a failing call of the upload or of the walk of the blobs, a crash | the cap, the exact sum of claims, the footprint with staged files, that rest means paired, and that a failed upload leaves nothing |
| `failures` | 1 uploader, 1 client, 1 legacy share, 1 failing call, 1 edit from outside | no share in good standing is lost; no removed share is served; a Reconcile in which nothing fails pairs blobs and rows; `ShareServer` implements `ShareLifecycle` |
| `restarts` | 2 uploaders, 2 ids, sizes of one unit, 1 crash, a row deletion that fails, a moving clock | staged files do not outlive their process; expired shares go without any request; startup completes; each of two uploads that compete for the locks is answered once its body has ended |
| `guesses` | 3 requests, 2 addresses, limit 1, window 2, an old ban, 4 failing calls, a crash | wrong passwords learnt within a window are at most the limit; a ban is earned by its own address's failures |
| `access` | 3 requests of any kind, 2 tabs, 4 session ids, limit 1, 1 failing call, perhaps a session of an earlier visit | what ended never authorises; no row is elevated in place; late responses do not displace an admin's cookie; every admin gave a right password outside a ban |
| `logins` | 4 logins, 2 tabs, limit 2, window 1, 4 instants | failures that were answered before an attempt was sent count against it, until they leave the window |
| `rows` | 2 goroutines, 2 builders, 3 calls, 8 columns of 6 entities, rows of an earlier run | builders implement wishes; only duplicates are refused |
| `startup` | server and gateway, 5 configurations (one with `APP_SECRET`), new or old data, 2 faults, 1 power loss, 1 redeployment | one secret for good; accounts left alone in production; somebody able to log in, unless only left-over accounts of an older release are there; both processes up in the end |
| `share_page` | 2 entries of one name, 1 of another, and the archive of all; 2 clicks, 2 attempts, 1 stop of the worker | each click saves its own file; finished lines stay; buttons come back unless the registration hangs; the worker forgets unless nobody is left to tell it |
| `upload_request` | the code's limits (512, 4096, 65 536, 65 537), hours of one second, 1 upload, 1 old row | what is stored was allowed; listings show what the share page serves; the page's own form is refused for named reasons only; what the clipboard box shows and what is sent differ in the named ways only |
| `lost_blobs`, `ban_deleted` | smallest that show it | the findings below |

**Bounds.** Two uploaders and a cap of one and a half uploads are the least in which
one claim is cut short by another and two final checks compete; a third uploader
repeats the part of one of the two. One client is enough for every interaction of a
stale reader with a pass, an upload or the maintenance goroutine; two ids for one
share to survive what happens to the other. In `restarts` the two uploads have an id each, so that
both can be at any lock at once; shares of an earlier release are in `failures`. For the guard,
which bans whoever has *more* failures than the limit, a limit of one makes the second failure
the one that counts, so three requests are a request over the limit and one that races it. The
login bans *at* the limit, so `logins` has a limit of two: two failures, in order or in parallel,
an attempt that must be refused for them, and one more that may come when the first has left the
window; `access` asks other questions, for which a ban at the first failure is enough. In `guesses`, four failing deletions let a row stay expired until
`update` finds it gone. In `access`, two tabs make a late response, the third request uses
what the two left, and four ids are one of an earlier visit and one per request. A ban of three
ticks outlasts its behaviours, so that no late ban can do harm (`Prompt`, section 5); bans that
end are the theorem's business. In `rows`,
three calls are the shortest sequence in which a set, an addition and a clear can be in
every order on one column, and each kind of column (required, optional, numeric, unique,
with a default, nullable) comes up in some entity. In `startup`, two faults let one process
die of its own and the other in the restart after it, and of five keys one is always fresh. In `share_page`, two clicks are an
earlier and a later staging of one URL. In `upload_request`, a behaviour has a page *or* a
client; a client's request has any cookie, token, visibility, key and hours and one more
odd field, the page's form starts at most one field from a filled one and takes two acts
of the visitor (`MaxEdits`); listings are cut at one row, the clock stands still for the
page, which reads no clock, and one upload is under way at a time, since what uploads do to
each other is the first run's. `MaxFaults`, `MaxCrashes`, `MaxTampers`, `MaxTime`, `MaxSids`,
`MaxCalls`, `MaxBuilders`, `MaxLosses`, `MaxDeploys`, `MaxClicks`, `MaxStops`, `MaxAttempts`,
`MaxEdits`, `MaxUploads` and `MaxNow` bound the environment, the stock of `Ids` the number
of uploads. The theorems do without these bounds. Symmetry is used for fresh ids,
uploaders, requests and workers, and not in the runs of liveness properties.
`CHECK_DEADLOCK FALSE` is said where the environment is exhausted in the end (all requests
answered, all calls made); the storage core runs with the check, for its maintenance
goroutine never ends.

**Fairness.** Each goroutine of the storage core runs under strong fairness: `sync.Mutex`
hands a lock to a waiter that has starved for a millisecond, so a goroutine that is enabled
again and again gets its turn. `BeginUpload`, the two ends of a body (`StageBody`,
`RefuseBody`), arriving requests, faults, crashes and edits have none: the server sets no
timeout for reading a body, so `UploadsAnswered` starts where the body has ended. `Tick` has
none either; `Midnight` belongs to the maintenance goroutine, which always wakes. In
`Startup` each process and the supervisor run under weak fairness: the kernel schedules
both, the shell waits for its children, docker restarts what stopped; the operator,
failures and power losses have none. In `SharePage` timers fire, promises settle and
events are handled (weak), and a transfer ends (`SF` of the last read, since chunks may
arrive as long as they like before it); this is a page in the foreground whose requests end, as the
browser sees to. The registration of the worker has none, because nothing in the code bounds
it; the wait for its control has, for it has a timer of five seconds. The visitor, who may also
leave, a worker's stop and the end of a composition have none.

### Findings

* `lost_blobs` - `Reconcile` deletes the blob of a registered share when `Lstat` fails on
  it once (`integrity.go:115`): the row is kept "for retry", the file is not. And
  `Store.query` turns an error into an empty list (`store.go:139`), with which `Reconcile`
  deletes every blob. `StoredSharesKept` is therefore checked with every failing call
  but `lstat` and `query`, and holds.
* `ban_deleted` - `bannedUntil`, called without the mutex, deletes by key the ban it judged
  expired (`download.go:61`); a ban that `recordFailure` created in between goes with it.
  `GuessesLimited` survives this, since the events stay: the effect is that one day's ban
  lasts no longer than the window of its failures.

In three places the code does not do what the repository says or counts on. They have no run of their own: the
property that would be violated holds with the exception named in it.

* `docs/LLM_WIKI.md:1039-1041`: "only events strictly newer than `now - 1 minute` count" and the
  eleventh "in that rolling window creates the ban". `now` is the instant at which a request
  arrived, and the count has no upper bound (`download.go:91-95`): a request that took long is
  counted with failures that came after it, over more than a minute. `BansEarned` says what is counted.
* `download.js:201`: `forgetStagedDownload` "expires unused staged responses after one minute". It
  does not if the page is left before, has no controller then, or gave up on the confirmation
  (`StagedFilesForgotten`).
* `upload.go:237` and its callers treat the sum of `UsedBytes` as what is stored, though
  `blobstore.go:82-88` drops the errors of the walk: each failed walk may let one upload past
  `STORAGE_CAP_BYTES` (`CapacityRespected`).

Some properties carry an exception, which names a behaviour the model reaches and a reader
may want to know of:

* `ListingsFollowTheRule`: within the second in which a share expires, `Z` sorts after
  `.5Z`, and a listing may show a share the share page no longer serves, or leave out
  one it does.
* `OwnFormRefusals`: the page counts a notice before its line breaks become CR LF, the
  server after; the page checks no title; and its token is refused when its session has
  gone, also for a visitor who needs none. (`upload too large` is the text of both, of the page
  before it sends and of the server; the property says that only the page ever gives it.)
* `PreviewsUploaded`: `Read clipboard` empties the list before it awaits, so previews of files that
  will not be sent stay until the read ends, or for good if it is denied. And files are sent that are
  not shown: those a pending read puts beside what was pasted meanwhile, those a read had got
  before it failed, and those whose preview the visitor erased from the box.
* `ButtonsComeBack`: `navigator.serviceWorker.ready` has no timeout (`download.js:97`). If the
  registration hangs, every click waits for it and its button stays busy.
* `AdminsReady`: accounts of an older release, whose hash is of the plain password, are
  replaced only under the configured name and password (`auth.go:101-104`); others count as accounts
  and are refused at every login (`auth.go:34-38`). In production a server may listen with no other.
* `OwnFileSaved`: two entries of one base name in different folders have one URL.
* `OneSecret`: power lost between a link and the sync of its directory, after the other
  process has read the file, rotates the secret. `AccountsKept`: `EnsureAdmin` drops the
  error of its count, and creates an account beside those there are.
* `EndedSessionsRefused`: a session whose deletion failed at logout or rotation lives until
  it expires, for the error is ignored. `AdminCookieKept`: a read that fails for a moment
  makes `GetOrCreate` delete a valid session.
* `FailuresLockOut`: it counts the failures that were answered before an attempt was sent.
  Attempts in parallel each read the ban before any of them has made it.

## 5. What is proved

The theorems hold for all values of the constants that satisfy the assumptions of the
modules: sets are finite, numbers natural, names distinct, and what the code's own numbers
satisfy (named below). No bound of section 4 is one of them. Every invariant of a component
follows from one inductive invariant, whose parts are named; TLC checked each on the instance
of its run before it was proved.

### The storage core

* `TypeCorrect` (`ShareServerProofs`): `Spec => []TypeOK`. `TypeOK` alone is not
  inductive: an upload inserts a row for `target[u]`, which is an id only because of
  where the goroutine is. The invariant `TypeInv` adds `TargetsKnown`: at every label of
  `NeedsTarget` the goroutine has a share.
* `CapacityHolds` and `ReservationsAccounted` (`ShareServerProofs`): `Spec => []CapacityRespected`
  and `Spec => []ReservationsExact`. Neither is inductive. `CapacityInv` is their
  conjunction with `LockHeld` (who is between `Lock` and `Unlock` holds `capMu`, so two
  uploaders never are) and `WalkSeesAll` (while `reserveCapacity` walks, no blob appears
  that it did not list, since blobs are committed under `capMu`). The argument has three
  steps that do something: `Reserve` takes at most what is left beside the counted blobs
  and *all* claims, of which the claims not yet stored are a part; `Commit` turns a claim
  into stored bytes after a check against everybody else's claims; `Release` subtracts
  exactly what the total contains. A walk that fails adds one upload limit to the
  slack (`Slack`), which no step takes away. Every other step is quiet (`QuietStep`, `QuietMove`):
  it adds no blob and moves nobody across the borders of the sums. Integrity.mu plays no
  part in the cap, which the proof makes visible.
* The sum `Total(S, f)` is defined as the cardinality of a set, so that
  facts about finite sets give its type, monotonicity, and what one element adds.
* `PairingProofs` proves `PairedAtRest`, `ReconcileRepairs`, `ServedSharesRegistered`,
  `FailedUploadsLeaveNothing` and `StagingOwned` from one invariant, `PairingInv`. What its
  parts are for:
  * `Places`, `Exclusion`: which goroutine may be where, and that Integrity.mu is held by
    whoever publishes or by the caller of the pass in progress. This is why the window between
    the two removals of a pass and the one between `Commit` and `Insert` are never seen
    by each other.
  * `IdsDrawn`, `DraftsHidden`: an id belongs to one upload; until its row is inserted an upload
    has no row, and a blob only at `insert`, or after an unlink that failed.
  * `ReadersSawRow`: a request that read a row knows that its upload was answered, and that
    the blob is not there without the row. This is all that the stale copy needs,
    because rows never come back and the blob goes first.
  * `PassFacts`: what a pass has still to do are rows it may take, although the clock moved on
    and rows went since it listed them; and, for a Reconcile in which nothing failed, which
    rows and blobs it knows at each point.
  * `Paired` is `PairedAtRest` with the two exceptions that make it inductive: the blob of the
    upload about to insert, and the row whose blob the pass has just removed.
  * `StagingKnown`, `PastInstants`: staged files are of uploads, captured instants not ahead
    of the clock.
* `SharesAreKept`, `OrphansAreOrphans`, `ServerImplementsLifecycle` have the hypothesis `ReadsWork`:
  neither `lstat` nor the query for all shares is among the calls that may fail. All other
  calls may. The hypothesis is necessary, as the run `lost_blobs` shows. With it,
  `StoredSharesKept` follows from `PairingInv` and from `BlobsLost`, which lists why a step loses
  a blob; and the refinement `ImplementsLifecycle` is proved step by step: initial states map to
  initial states, an `Insert` is a publication within the cap (here `CapacityInv` enters),
  a removal is a drop of a doomed share, an edit is a loss or nothing, and everything else
  stutters.
* `FootprintFits`: `Spec => []FootprintRespected`. What is staged is not what is claimed, and an
  upload stops being a claimant before its staged file is gone. So the sum that is kept is
  over `Holders`, claimants and owners of staged files (`Room`), and `ClaimsHeld` says that a
  payload fits its claim.

### The download guard

* `GuessesAreLimited` and `GuardTypeCorrect` (`DownloadBansProofs`): `Spec => []GuessesLimited`
  and `Spec => []TypeOK` of `DownloadBans`, for any `Requests`, `Addresses`, `Limit`,
  `Window`, `BanLengths`, faults and crashes, from `GuardAssumption` (finite requests, the
  numbers natural, the window not zero). What is answered and what is counted are two
  things; `GuardInv` ties them: a request denied less than a window ago is still in `events`
  (`DeniedRemembered`), because whoever prunes is not ahead of the clock (`NobodyAhead`); and
  who prunes or counts has its own event in (`OwnEventStored`), because only the holder of the
  mutex prunes. So the set `CountFailures` finds contains everyone denied so far and the one
  about to be (`DeniedAreCounted`), and no other step denies. The bans play no part in
  it, which is why the finding above does not break it.
* `BansAreEarned`: `Spec => []BansEarned`. `EarnInv` adds that whoever is about to write a ban has
  more than the limit of failures held against it (`CountedMany`); failures, once history,
  are neither forgotten nor moved, so counts only grow, whatever is pruned from the table
  (`HeldGrow`).

### Who is an admin

`AccessProofs` proves every property of `Access`, for any number of requests, tabs, addresses and
ids, from `SessionAssumption`, `LoginAssumption` (the limit is not zero, a ban is longer than the
window, as 24 hours and a minute are) and `AccessAssumption`.

* `AccessTypes`, `EndedRefused`, `AdminsProved`, `NeverElevated`, `CookieKept` rest on `AccessInv`. Ids are
  drawn once (`IdsDrawnOnce`, a part of `TypeOK`), so a row that is gone never comes back, a session
  that is dead stays dead, and nothing a late request finds revives it (`EndedGone`, `LateDead`).
  `AdminsAnswered` ties an admin's row to the login that set its cookie and has been answered
  since: it strengthens `AdminsProvedThemselves`, because a login still under way could lose its
  claim. `CookieForDead` is what makes late responses harmless.
* `LockedOut`: `Spec /\ []Prompt => []FailuresLockOut`. A ban is reckoned from the start of its attempt
  and overwrites the one there is, so an attempt that took hours would shorten a fresh ban; `Prompt`
  says that every attempt is answered well before a ban of its time would end. Without it the
  property is false: with a ban of two ticks, three instants and a session that lives
  as long, TLC finds the attempt whose late ban ends at once. `LockOutInv` carries three
  counts: of failures answered (`DeniedFew`), of those known when an attempt was sent
  (`SentFew`), and of those known to one that is being told (`ToldFew`).

### Startup

`StartupProofs` proves the safety properties of `Startup` for any configurations, `Keys`, faults, losses and
redeployments, from `StartupAssumption` and `AccountAssumption`.

* `OneSecretUsed`, `SecretNeverTorn`: a key that may be linked is synced (`KeysApart`), so what the name
  stands for is whole after any loss of power (`SecretSafe`); and all keys in use are the one
  that has the name (`OnlyTheNamed`), until the loss the history variable `torn` records.
* `ListensWithAdmin`, `AccountsSurvive`: what `EnsureAdmin` found of the accounts is still so when it
  acts on it (`AccountsSeen`), since no process but the server writes them. What is ready is
  an account in the format logins accept, up to the exception of `AdminsReady`.

### Upload requests

`UploadRequestsProofs` proves the four properties of `UploadRequests`, for any limits, files, keys and
number of shares. `StoreAssumption`, `PolicyAssumption` and `PageAssumption` say what is assumed of the
constants: limits are natural numbers, a title and a message fit a field, a field that can be
uploaded can be looked up (`FieldLimit <= MaxKey + 1`, which `handlers.go:26-27` sets equal), an hour is
whole seconds, and only the empty key is empty.

* `ListingsFollow` rests on `TextOrdersSeconds`: RFC3339Nano text of instants of different seconds is
  in the order of the instants, whatever their fractions, for the text starts with the second.
* `StoredWasAllowed` and `OwnFormRefusedForAReason` rest on `FirstOfDecides` and, on top of it, what each answer of
  the gates, the parts and the validation says of a request (`GateSays`, `PartsSay`, `PolicySays`).
  `RequestsInv` has `PageInv` (the form keeps its rules, and what was read of it was such a form),
  `SessionInv` (the cookie moves on and never back), `StoreInv` (an upload under way, like every
  row, is what its request was allowed) and `OwnFormRefusals` itself.
* `PreviewsAreUploaded` is inductive as it stands: it is about the list and the previews together,
  and `since` remembers what has come between them.

### The data layer

`EntStoreProofs` proves every property of `EntStore`, for any goroutines, ids, calls and builders and any
entity and columns in `Focus`, from `NullAssumption` (NULL is no value of a column) and `EntBounds` (the columns
in focus are some of the entity's).

* `FilesAgree` is what the generator has to get right and no compiler checks: for each of the six
  entities, the create builder requires exactly the columns that are `NOT NULL` in the migration,
  the two update builders and the switch tables of the mutation name the same columns,
  only a nullable column can be cleared, defaults are those of the migration, and no unique column
  is numeric or has a default (`Agrees`). It is proved entity by entity from the transcribed files; if
  one of them is changed, this is the lemma that fails.
* `IInv` has `RowsInv` (rows are of the table's columns, their ids of the past, unique values differ) and
  `BuildersInv` (what a builder holds is for columns that may have it). `RowsTyped` follows at once. `TypeOK` is not inductive by itself: that an
  `INSERT` is not refused rests on what the builder may hold.
* `SetGrants`, `AddGrants`, `ClearGrants` and `ResetGrants` say what one call does to the wish for its
  column and that it does nothing to the others', `UpdateGrants` and `InsertGrants` that the three lists,
  merged as the `UPDATE` or the `INSERT` merges them, are the wishes. From these
  `WishesGranted` proves the refinement, `Spec => SavesGrantWishes`: every builder's beginning, call
  and save is a step of `RowWishes`.
* `DuplicatesOnly`: when the database refuses an insert or an update, the typed rows leave only two rows
  with one unique value, and since unique columns cannot be added to, one of them
  got it from the builder.

### The share page

`SharePageProofs` proves the two safety properties of `SharePage`, for any entries, names, clicks, attempts
and stops of the worker, from `PageAssumption` (an archive has a file), `ProgressAssumption` (the phases of
`share.js` are among those of the display) and `WorkerAssumption`.

* `LinesStay`: `Spec => FinishedLinesStay`. A flush paints what was queued, a pulse what it
  finds; so the property needs that only a phase still at work has anything queued or pulsing
  (`OnlyWorkQueued`), and `StageInv`, which says for each `await` of `loadEntries` which lines
  are done, which phase works and which pulses.
* `OwnFiles`: `Spec => []OwnFileSaved`. `FilesInv` follows a file through the message that stages it, the
  worker's map, and the answer: in all three it is under its own name (`WorkerInv`), whatever is
  lost, late or forgotten in between, whether one click is prepared, all that wait are settled
  at once, or the page is left.

### Only model-checked

Every invariant and every action property that a passing run checks is stated by a theorem.
Liveness, under fairness, is beyond the prover: `ExpiredSharesRemoved`, `StartupCompletes`,
`UploadsAnswered`, `ComesUp`, `ButtonsComeBack` and `StagedFilesForgotten` stay with TLC. For
`FailuresLockOut` and for what depends on `ReadsWork` the theorems have the hypothesis named there.

## 6. What is not modelled, and why

* The counts of the admin pages and the audit records: nothing decides by them.
* Cryptography, archives and text conversion (`crypto.js`, `zip.js`, `text.js`): pure
  functions of bytes. A password is right or wrong, a blob can be decrypted or not.
* Templates, translations, styles, rendering: layout and wording. `UploadPage` takes from the
  templates which fields the form has and what they are limited to.
* The sidebar's cached list (`archive-list.js`), the selection boxes (`admin-shares.js`), the
  login form (`admin-login.js`) and the countdown: a few handlers each.
* In `internal/ent`: transactions, bulk creates, hooks, `Select` and `GroupBy`, which nothing
  in the program calls. Predicates are modelled once per operator, since the generated
  ones differ in the column only.
* The text of the timestamps of login failures and sessions, which `AdminLogin` and
  `Sessions` compare as instants; `ShareStore` models that text, for shares.
* SQLite, the file system, Anubis, docker and the browser are external: they appear
  only through what this code relies on.
