# Verification of r2storage

TLA+ models, TLC runs and TLAPS proofs for r2storage, an S3-compatible object
store (`src/backend`) with a multi-tenant control plane (`src/platform`).
Source paths below are relative to the repository, which is `src/`.

## 1. The system

### Components, their state and their operations

| Component | State | Operations | What makes it hard |
|---|---|---|---|
| Object store (`backend/src/api/s3.ts`, `storage/engine.ts`, `api/admin.ts`) | SQLite rows `Bucket`, `Object`; one blob file per object; `.tmp-` files | PutObject, CopyObject, GetObject, DeleteObject(s), tagging, dashboard upload and delete, bucket create and delete | Node handlers interleave at every `await`; rows and files change in separate steps without a transaction, a lock or a rollback; every version of an object has the same path |
| Storage quota (`quota.ts`) | a `Setting` row or an environment variable; the sum of `Object.size` | `wouldExceedQuota`, read and set | the test and the commit are separate steps |
| Write preconditions (`api/range.ts`) | none | `checkWritePreconditions` | tested on a row read before the body is streamed |
| Maintenance sweeper (`maintenance.ts`) | none of its own | `.tmp-` files over 1 h, uploads over 24 h, expired objects, logs, sessions | runs beside the handlers and acts on rows read earlier |
| Multipart uploads (`s3.ts`, `engine.ts`) | `MultipartUpload`, `UploadPart` rows; part files | Create, UploadPart, UploadPartCopy, Complete, Abort | several requests, one upload; parts are rewritten in place |
| Listings (`s3.ts`) | none; the client holds the marker | ListObjects V1/V2, ListParts, ListMultipartUploads | paging boundaries, delimiters, rows that come and go between pages |
| Access (`auth/s3auth.ts`, `api/public.ts`, `api/admin.ts`) | `AccessKey`, `Bucket`, `CustomDomain` rows | key, bucket and domain administration, presigned URLs, authentication, public serving | rows change between the awaits of a request that was let in by them |
| Login lockout (`auth/lockout.ts`) | in-memory counters | `isLockedOut`, `recordFailure`, `resetLockout` | windows, cooldowns, two counters |
| Admin sessions (`auth/session.ts`) | `AdminSession` rows | create, renew, destroy, sweep | renewal racing logout and expiry |
| aws-chunked, ranges (`api/aws-chunked.ts`, `api/range.ts`, `storage/crypto.ts`) | decoder and slicer state | decode, slice | input cut anywhere |
| Provisioning (`platform/lib/provision.ts`, `nginx.ts`) | `Instance` rows, containers, data directories, hostnames, nginx map | provision, suspend, resume, delete | many external steps, each of which may fail |
| Accounts (`platform/app/api/auth`) | `Customer` rows | sign-up, verification | verification provisions an instance |
| Billing (`platform/lib/stripe.ts`, `app/api/billing`) | the customer's subscription fields, the tenant's quota | checkout, webhook, push of the quota | webhooks reordered and repeated |
| Metering (`platform/lib/usage.ts`; the log in `s3.ts`) | `RequestLog` and `UsageSnapshot` rows | log, poll, snapshot | gaps and repeats |

Clients call the backend's handlers over HTTP; the handlers share the database
and the storage directory with the sweeper, a timer in the same process. The
control plane starts one backend per tenant, routes to it with nginx, and talks
to its admin API to push quotas and poll usage. Stripe, Docker, Cloudflare and
nginx are external.

The properties each component owes: rows and files agree once a key is quiet;
a row never names a payload that failed its checks, nor a missing file; no
client ever sees a partly written body; a precondition holds when the write
commits; the quota bounds what is stored; what a crash leaves is collected; the
parts of a completed upload are those its ETags name and none leak; pages name
every key once; nobody is served what no rule allowed while his request ran; a
session ends in time and a revoked one stays revoked; one address cannot lock
out everybody; a framed body is decoded to its payload however it is cut; a
failed provisioning leaves nothing behind; the plan in force is the last one
Stripe reported; a GET is billed once.

## 2. Modules

| Module | What it is |
|---|---|
| `ObjectStore` | One bucket and every handler that touches its objects |
| `AtomicStore` | The abstract map a client is entitled to: write, remove, read at one moment |
| `DisciplinedStore` | `ObjectStore` under clients that keep their requests for a key apart; refines `AtomicStore` |
| `Multipart` | Uploads of one object, their parts and the object Complete publishes |
| `Listing` | The three paged listings |
| `Access` | Keys, buckets, domains, presigned URLs, and the requests that depend on them |
| `AdminAuth` | Login, lockout and dashboard sessions |
| `Streams` | The aws-chunked decoder and the range slicer |
| `Provision` | Accounts, instances, containers and nginx |
| `Billing` | One customer's subscription and its webhooks |
| `Metering` | Request log, usage polls and snapshots |
| `MC...` | Small instances for TLC. `MCServices` runs `Access`, `Streams` and `Metering`, which share no state, side by side: a behaviour is one of the part it begins with |
| `ObjectStoreProofs` | Proofs about `ObjectStore` (types, the quota, what rows and files say in every interleaving) and about `DisciplinedStore`, among them its refinement of `AtomicStore` |
| `MultipartProofs`, `ListingProofs`, `AdminAuthProofs`, `BillingProofs`, `ProvisionProofs` | Proofs about the module of that name |
| `ServicesProofs` | Proofs about `Access`, `Streams` and `Metering`, through `MCServices` |
| `Counting` | Lemmas on sums of lengths, and on writers that test a quota first and write later; both quota proofs rest on it |

The parts that meet do so through few steps. Multipart repeats the quota, the
final rename and the upsert of the store, on one object; Billing's quota is the
plan pushed to `api/admin.ts`; Provision's accounts come from sign-up; Metering
reads the log that GetObject writes. Elsewhere they share nothing but the
process, so each is a module of its own.

### How ObjectStore corresponds to the code

`rows[k]` is the `Object` row: its id, ETag, CRC-32 and whether its `updatedAt`
is before the cutoff of a `Days` lifecycle rule (`old`). Size, MD5 and CRC-32
are functions of the payload, so a payload is one value and the row's size is
`Size[etag]`. `blobs[k]` is the file at `getFilePath(bucket, key)`: the payload
it holds, `Absent`, or `Torn`; `open` names the dashboard uploads writing to
that inode. `litter[k]` is the set of `.tmp-` files a dead process left.
`req[w]` is the request in slot `w`: its pc is the `await` it is at, its other
fields are its local variables, with the row values as they were when read.

| Code | Actions |
|---|---|
| PutObject, `s3.ts:1302-1428`, `saveObjectFromStream` | `PutBegin` (row and precondition), `PutQuota` (early check, opens the `.tmp-` file), `PutRename` or `PutBodyFails`, `PutVerify` (digests, tag header, final quota), `PutReject` or `CommitRow` |
| CopyObject, `s3.ts:977-1206`, `copyObjectFile` | `CopyBegin`, `CopyDest`, `CopyQuota`, `CopyRead`, `CopyRename`, `CommitRow` |
| Dashboard upload, `admin.ts:183-223`, `saveObject` | `UploadBegin`, `UploadQuota`, `UploadTruncate`, `UploadFill`, `CommitRow` |
| Put/DeleteObjectTagging | `TagBegin`, `TagUpdate` (renews `updatedAt`) |
| DeleteObject, DeleteObjects, dashboard delete, lifecycle sweep | `DeleteObject`, `DeleteObjects` or `SweepExpiredObjects`, then `UnlinkVictim` and `DeleteRow` per victim |
| Bucket deletion and creation | `DropBegin`, `DropUnlink`, `DropCascade`; `MakeBucket` |
| GetObject | `GetBegin` (row), `GetOpen` (file) |
| `sweepTmpFiles`, time, crash | `SweepTmpFiles`, `LitterAges`, `Age`, `Crash` |

Decisions worth knowing:

- The bucket lookup, the authentication and the row lookup at the start of a
  handler are one step. A bucket dropped between them makes the commit fail on
  the foreign key, as it does when it is dropped just after.
- Upload and copy sizes are exact at the quota; the content that passes a
  check is any payload outside `Corrupt`. A payload of `Corrupt` stands for
  one that fails Content-MD5, CRC-32, the trailer or the tag header: all are
  tested after the rename and all end in the same unlink.
- `CopyRead` reads the source file in one step. A source torn while it is
  copied is the case where it is read torn.
- Two requests for one key that start in the same millisecond get the same
  `.tmp-` name (`SameMs`). The first to rename it publishes any of their
  payloads or a mixture; the others fail when they find nothing to rename.
- A request in flight is bounded by the server's request timeout (10 minutes),
  so `SweepTmpFiles`, with its threshold of an hour, never meets its file:
  only files of dead processes age.
- Objects of different keys interact only through the quota, copies, batches
  and bucket deletion; encryption at rest changes bytes, not steps.
- `Date` lifecycle rules, prefixes and several buckets select other sets of
  rows for the same steps; the model has one bucket and one `Days` rule.

### Multipart

`upload[u]` and `parts[u][n]` are the `MultipartUpload` and `UploadPart` rows,
`files[u][n]` the file `multipart/<uploadId>/<n>` with the requests that have it
open. Opening a part file truncates it for everyone (`Open`); a part that two
requests wrote into at once is `mixed`. `row` and `blob` are the object the
upload is for, each the function from part numbers to the bytes it was made of.

| Code | Actions |
|---|---|
| CreateMultipartUpload | `CreateMultipartUpload` |
| UploadPart, UploadPartCopy | `UploadPart` or `UploadPartCopy`, then `PartLook`, `PartQuota` (opens the file), `PartStored` or `PartBodyFails`, `PartVerify`, `PartReject` or `PartRecord` |
| CompleteMultipartUpload | `CompleteBegin`, `CompleteMatch`, `CompleteCheck`, `CompleteQuota`, one `AssemblePart` per part, `AssembleRename`, `CompletePublish`, `Forget`, `DeleteUploadParts` |
| AbortMultipartUpload | `AbortBegin`, `Forget`, `DeleteUploadParts` |
| 24-hour sweep, time, crash | `SweepSelect`, `SweepFiles`, `SweepRow`; `UploadAges`; `Crash` |

Most guarantees need a client that keeps the protocol: one request for a part
at a time, no part sent again once acknowledged, nothing in flight when the
upload is completed or aborted. `polite`, chosen once per behaviour, says
whether clients do; `declares` whether they declare part lengths. The sweep and
crashes respect neither. The assembly's own `.tmp-` file behaves as PutObject's
and is not repeated.

### Listing

Names are their places in the database's order and `PrefixOf` the place of the
string up to the delimiter. `ListObjects`, `ListMultipartUploads` and
`ListParts` answer one page; they differ in the marker: ListObjects resumes
after the first name that did not fit, the others after the last item shown.
`Write` adds or removes one row between two pages; `always` remembers the rows
no write touched. `ListingAssumption` says of names what their order implies:
whatever stands between a prefix and a name that has it, has it too. V1 and V2 page alike; the prefix only restricts the names;
page sizes below 1 are left out.

### Access

`buckets`, `keys`, `domains` are the rows; deleted keys and domains stay in
their sequences with `live` off, so a request can still hold one it read.
`req[r]` goes through the stages of a request: `host`, `bucket`, `key`,
`verify`, `act`, one await each (`ResolveHost`, `ReadBucket`, `LookUpKey`,
`Verify`, `Act` or `ListBuckets`). Creating a key or a domain, and moving one,
test the bucket and write later (`Ask...`, `Write...`). A signature is the
knowledge of which key signed what, so it is never guessed or altered; what is
modelled is what it is then worth: which key, until when, for which request.
An instant is a fraction of a second, because presigned URLs are dated in whole
seconds and their lives read with `parseInt`. `seen[r]` is history: every right
that held while the request ran.

### AdminAuth

The lockout's counters are in memory and a login changes them without an await,
so `LoginFails`, `LoginSucceeds` and `HeaderFails` are one step each on
`perIp`, `global` and `cooldown`; the session row of a successful login is
written later (`CreateSession`). The guard reads and judges the session
(`GuardAccepts`) and writes its new expiry later (`RenewSession`), so renewals
overtake each other and the logout. Instants are kept relative to now and
ages stop one past their limit, so the clock is unbounded and `Tick` may always
happen. Constants are `LOGIN_FAIL_THRESHOLD`, `LOGIN_GLOBAL_THRESHOLD`, the
cooldowns, `FAIL_WINDOW_MS` and the two session lifetimes.

### Streams

The wire is a sequence of one-letter bytes, CR and LF among them and in the
payloads too. `Receive` delivers a piece of any length up to `MaxPiece`; `ReadSize`,
`ReadData`, `ReadCrlf` and `ReadTrailer` are the decoder's states, `Flush` the end of
the input, `ConnectionLost` its loss, `CheckTrailer` the checksum comparison.
Bodies also arrive damaged: chunks swapped, missing or altered, signatures
dropped or unasked for, a size line too long. `Get`, `SourceData` and `SourceEnd`
answer a GET of what was stored, with the range parsed and the slice carved out
of pieces of any size, encrypted or not. The signature of the final, empty chunk
is not checked by the code, so a signed body may lose its last chunks unless a
checksum trailer follows; `OnlySentPayload` speaks of a prefix for that reason.
`Digits` and `Signatures` name the size lines and the chunks' signatures, so that
what is proved holds for chunks of any size and bodies of any number of chunks.

### Provision, Billing, Metering

In `Provision`, `proc[p]` is a request of the control plane, its pc the call it is at:
`CheckDuplicate` to `CreateRow` are the checks of `provisionInstance`,
`RunContainer`, `SetUpTenant`, `CreateHostname`, `UpdateStatus` its work,
`RollbackContainer` and `RollbackRow` its catch block; `LifecycleBegin` starts a
suspension, resumption or deletion; `ListActive`, `WriteMap`, `ReloadNginx` are
`nginx.ts`. Every call to Docker, Cloudflare, nginx or the tenant may fail. A
database write that fails during a rollback is not modelled.

In `Billing`, Stripe is external: `sub` is its record, `Pay`, `Change` and `Cancel` its
changes, each sending numbered events, which it delivers in any order and again
until they are acknowledged. `CheckoutBegin` to `OpenSession` is the checkout
route, `ReadCustomer`, `WriteCustomer`, `PushQuota` the webhook.

In `Metering`, `LogRequest` stands for stamping and inserting a log row, in one step;
`PollBegin`, `SumBytes`, `CountRequests`, `RecordSnapshot` are the awaits of one poll.

`mishaps` in `Provision` and `Billing` and `overlapped` in `Metering` are
history: they remember that two requests crossed, or that an external call
failed, so that a property can name the exception it makes.

Every module contains altered operators marked "Mutant", one for each property
its run checks: the operation with a plausible mistake in it (a check dropped,
a rename in the wrong place, a column kept). None is used by `Next`; putting
one in place of its operation makes TLC report the property violated.

## 3. Runs

Bounds on requests, crashes, changes or writes make the instances finite; they
are why deadlock is not checked: when a bound is used up the system rests. Two
slots let every pair of handlers interleave; the hazards listed need two
requests in flight, and one or two more in sequence to observe the damage.

| Run | Instance | Shows |
|---|---|---|
| `store_interleaved` | 2 keys, 3 payloads (one fails verification), 2 slots, 4 requests, 1 crash; all S3 operations and sweeps | `TypeOK`, `BlobsWhole`, `RowsVerified`, `ChecksumOfContent` |
| `store_publish` | no deletions or rejections; dashboard uploads, clashing `.tmp-` names, 3 requests, 2 crashes, fair sweep | `RowHasBlob`, `LitterRemoved` |
| `store_quota` | 3 keys, sizes 1 and 2, quota 2, 4 requests, declared and undeclared lengths | `QuotaOvershootBounded`: at most one largest object per other slot. With three keys the rows can hold 6, the bound is 4 |
| `disciplined` | 2 keys, 2 slots, 4 requests of every kind (batches, copies, dashboard uploads, bucket deletions and sweeps among them), four kinds of precondition, clashing `.tmp-` names | `RowMatchesBlob`, `ImplementsAtomic` (refinement of `AtomicStore`), `ConditionHoldsAtCommit` |
| `multipart` | 1 upload, 3 parts, 2 payloads (one fails its digest), 2 slots, quota 2, 4 requests, 1 crash; polite clients and others | `AcknowledgedPartKept`, `PublishedAsListed`, `NoOrphanParts`, `PartsOvershootBounded`, `UploadsEnd` |
| `listing` | every set of up to 4 names (a, b/, b/x, c), 2 upload ids, pages of 1 and 2, one write between pages | `ListedOnceInOrder`, `MissesBounded`, `ListingEnds` |
| `admin_auth` | 2 addresses, thresholds 2 and 6, 1 token, 2 slots; either no sessions and any number of failures, or sessions and 2 failures | `SessionsExpire`, `DeletedStaysDeleted`, `GlobalNeedsTwoSources`, `SessionsAndLocksEnd` |
| `services` | Access: a private and a public bucket holding the object, one FULL key and one custom domain at first, one request, 2 changes, times 0 to 3 with 2 instants a second, a client clock 1 instant slow. Streams: 6 bodies of up to two chunks and their damaged forms, pieces of 1 to 3 bytes. Metering: 2 GETs, 2 pollers, 3 polls, times up to 4 | `RequestsAllowed`, `OnlySentPayload`, `RangeServed`, `Metered` |
| `provision` | 1 customer, 2 domains, 2 ids, as many ports, 2 requests at a time, limit 1 per customer and 2 in all, one kind of mishap | `StatusMatchesContainer`, `RoutesCatchUp`, `FailedLeavesNothing`, `LimitHolds` |
| `billing` | 2 Stripe ids, 2 slots; 1 subscription, 3 events, 1 failed delivery, or 2 subscriptions, 4 events, none | `RowMatchesStripe`, `PaidCustomerKnown`, `OneSubscription`, `EventsAcknowledged` |

Each also checks its module's type invariant (`disciplined`, `store_publish`
and `store_quota` are instances of `ObjectStore`, whose types
`store_interleaved` checks).

Why the bounds are enough: three part numbers let an assembly read a part,
lose the next and leave the third unlisted; four names with one prefix shared by
two of them put a page's end before, inside and after a group; thresholds 2 and
6 are the smallest with the ratio of three `GlobalNeedsTwoSources` needs (with
a cooldown longer than half the window; the shipped ones are 5, 15 and exactly
half, where only failures that fall into the very millisecond a lock and the
window end could do it); two
pieces inside a CRLF are the cut a decoder gets wrong; three polls are a
snapshot, one that overlaps it and one after both.

### Fairness

| Specification | Assumes | Because |
|---|---|---|
| `ObjectStore!FairSpec` | weak fairness of `SweepTmpFiles` and `LitterAges` | the interval timer of `startMaintenanceSweeper`; time passes |
| `Multipart!FairSpec` | weak fairness of the sweep's steps and `UploadAges` | the same |
| `AdminAuth!FairSpec` | weak fairness of `Tick` and `SweepExpiredSessions` | the same |
| `Listing!FairSpec` | weak fairness of `NextPage` | the listing ends if the client goes on asking |
| `Billing!FairSpec` | weak fairness of handlers' steps, strong fairness of deliveries | awaited calls return; Stripe repeats an event until it is acknowledged |

Otherwise nothing is assumed of clients. Crashes and failed deliveries are finitely many, and the
restart is part of `Crash`.

### Statements of the repository that do not hold

| Run | The behaviour |
|---|---|
| `find_rejected_put` | A PUT whose body fails its checksum has already replaced the file of the object and unlinks it: the old version's row stays, its file is gone. The comment beside the check promises only to remove the new blob |
| `find_plan_not_pushed` | A paid plan is written to the customer's row, and the quota then pushed is that of the instance's row, which nothing updates. `PLATFORM.md` says the new quota is pushed |

### What the properties exclude, because it happens

The passing properties state their conditions; these are the behaviours behind
them, each found with TLC by dropping the condition.

- Two PUTs of a key, renamed in one order and committed in the other, leave one's
  ETag with the other's bytes (`RowMatchesBlob` and the refinement hold where a
  key's requests do not overlap); two `If-None-Match: *` can both succeed.
- A dashboard upload keeps the CRC-32 column of the object it replaces
  (`ChecksumOfContent` is about S3 writes), and truncates the file under readers
  (`BlobsWhole`).
- The lifecycle sweep deletes an object rewritten after it was selected.
- Two PUTs of one key in one millisecond share a `.tmp-` file and may publish a
  mixture (`SameMs`).
- Two PUTs that each fit exceed the quota together (hence a bound on the excess).
- A part sent again and rejected takes the accepted part's file with it; an
  Abort with a part in flight leaves a part file (hence `polite`).
- ListObjects gives the first name of the next page as the marker and then
  resumes after it: one name is skipped at the end of every full page
  (`MissesBounded`). Folded listings of uploads may repeat a prefix, and with
  pages of one item never end.
- A lockout ends with the window that began at the first failure, even before
  its cooldown is over: only that every lock ends is claimed.
- A lifecycle request that crosses a deletion brings the deleted instance's row
  back; two crossing writes of the nginx map leave an old one in place until
  the next; a failed reload during provisioning leaves its route in the map.
- An older subscription event applied after a newer one stays applied; a second
  checkout before the first one's webhook pays twice.
- Polls that overlap may count a GET twice, and a GET logged between a poll's
  question and its snapshot is never billed.

## 4. Proofs

The theorems hold for every value of the constants that satisfies the modules'
named assumptions, which TLC evaluates on every instance: sizes are naturals and
some payload is the longest, keys and request slots are finitely many and there
is a slot (`FiniteAssumption`),
markers such as `None` are not data, operations and permissions are among those
the code has, thresholds are positive, upload ids and part numbers are numbered,
a customer may have at least one instance, names and upload ids are finitely many
and names with one prefix stand together, the rows a behaviour starts with have
their columns' types (`AccessAssumption`), CR is no size line and no size line
stands for two sizes (`ServicesAssumption`). Bounds on requests, crashes or pages
are arbitrary naturals.

| Theorem | States | Condition |
|---|---|---|
| `ObjectStoreProofs!TypeCorrect` | `Spec => []TypeOK` | none |
| `OnlyVerifiedRows` | `Spec => []RowsVerified` | no dashboard uploads |
| `ChecksumMatchesETag` | `Spec => []ChecksumOfContent` | no dashboard uploads |
| `RowsHaveBlobs` | `Spec => []RowHasBlob` | no deletions, no rejected bodies, no quota |
| `FilesAreWhole` | `Spec => []BlobsWhole` | no dashboard uploads, no `.tmp-` clashes |
| `OvershootIsBounded` | `Spec => []QuotaOvershootBounded` | `Quota > 0`: there is a quota (0 is none) |
| `QuietKeysMatch` | `DisciplinedSpec => []RowMatchesBlob` | `WellBehaved`: no rejected bodies, no quota, no crash |
| `ConditionsHold` | `DisciplinedSpec => ConditionHoldsAtCommit` | `WellBehaved` |
| `DisciplinedRefinesAtomic` | `DisciplinedSpec => ImplementsAtomic` | `WellBehaved` |
| `MultipartTypeCorrect` | `Spec => []TypeOK` | none |
| `AcknowledgedPartsStay` | `Spec => []AcknowledgedPartKept` | none |
| `EndedUploadsLeaveNothing` | `Spec => []NoOrphanParts` | none |
| `PublishesWhatWasListed` | `Spec => PublishedAsListed` | none |
| `PartsOvershootIsBounded` | `Spec => []PartsOvershootBounded` | none |
| `ListingTypeCorrect` | `Spec => []TypeOK` | none |
| `PagesInOrder` | `Spec => []ListedOnceInOrder` | none |
| `FewMissed` | `Spec => []MissesBounded` | none |
| `AdminAuthProofs!TypeCorrect` | `Spec => []TypeOK` | none |
| `SessionLifetimes` | `Spec => []SessionsExpire` | none |
| `NoSessionRevived` | `Spec => DeletedStaysDeleted` | none |
| `OneAddressIsNotEnough` | `Spec => []GlobalNeedsTwoSources` | some `n` with `n * IpCooldown > FailWindow` and `(n + 1) * FailThreshold <= GlobalThreshold` |
| `ServicesTypeCorrect` | `ServicesSpec => []ServicesTypeOK` | none |
| `GivenWhatWasAllowed` | `ServicesSpec => []RequestsAllowed` | none |
| `OnlyTheClientsChunks` | `ServicesSpec => []OnlySentPayload` | none |
| `RangeServedWhole` | `ServicesSpec => []RangeServed` | none |
| `BilledOnce` | `ServicesSpec => []Metered` | none |
| `ProvisionTypeCorrect` | `Spec => []TypeOK` | none |
| `StatusIsTrue` | `Spec => []StatusMatchesContainer` | none |
| `RoutesFollow` | `Spec => []RoutesCatchUp` | none |
| `FailuresCleanUp` | `Spec => []FailedLeavesNothing` | none |
| `LimitIsKept` | `Spec => []LimitHolds` | none |
| `BillingTypeCorrect` | `Spec => []TypeOK` | none |
| `PaidCustomersAreKnown` | `Spec => []PaidCustomerKnown` | none |
| `NobodyPaysTwice` | `Spec => []OneSubscription` | none |
| `RowCatchesUp` | `Spec => []RowMatchesStripe` | none |

"None" means no condition beside those the property itself states (polite
clients, polls that do not overlap, no mishap of a named kind).

### The object store

Each invariant is about rows or files and says nothing of requests in flight,
so none is inductive. The strengthenings add what a request must carry:

- `VerifiedInv`: a copy carries its source row's payload and checksum, so it
  inherits the source's verification; a PUT is at `commit` only with a payload
  that passed. Without it `CommitRow` could write anything.
- `PublishInv`: a request at `verify`, `fill` or `commit` has a file at its
  key, one holding a `.tmp-` file has bytes in it, and no request is at a step
  that unlinks.
- `WholeInv`: a request writes only to its own `.tmp-` file and holds no torn
  bytes. `tmp = w` makes `Sharers(w) = {w}`, so a rename publishes the
  request's own bytes.

Each proof has a lemma for the actions that begin a request, one for the steps
of a request (one case per action) and one for the environment, over lemmas on
the helpers (`Goto`, `OpenTmp`, `RenameTmp`, ...).

### The quota

`wouldExceedQuota` sums the rows, subtracts the size its caller read before, and
the row is written some awaits later. The bound is not inductive: nothing in it
says what the requests in flight may still write. Two facts about them do, and
`Counting` states both of abstract writers, each out of the picture, `looked` (it
has read the size it will replace) or `admitted` (it has passed the test):

- `Capped`: whatever the rows become when any of the admitted writers write, in
  any order, and any rows are removed or shrink, the sum is at most the bound.
  This is the property, made to speak of every outcome instead of the present.
- `OneNewest`: if every slot is at work, some writer saw a state nobody has
  written since. An admitted one still fits by what the sum is now; one that
  only looked still sees the size that is there. Without it the last slot to
  pass the test might subtract a size long gone, as all the others may have, and
  the sum could exceed the bound by one object more.

A step of the store is one of three moves, or leaves all this as it was: a
request ends, having written what it was admitted for, or rows go (`Departs`,
lemma `Leaving`); it reads the size it will replace (`Looks`, `Looking`); it
passes the test (`Passes`, `Admission`). Only the last needs arithmetic: what
the admitted writers write beyond the sum of the moment is at most one largest
object each (`Overshoot`). A copy no larger than what it replaces skips the test
and counts as admitted from its look on.

`Multipart` makes the same moves on the parts of an upload (`RoomInv`), for each
live upload by itself: a request for one upload is out of the picture for
another. An upload without a row has no parts, and the cascade that removes the
row removes them. `PartsOvershootBounded` is about declared lengths.

The sum itself is `MapThenSumSet`, defined by choosing one element after another.
`UsedIsHeld` and `UsedIsTotal` unfold it and `Total` counts it: it is the number
of pairs of a place and a byte stored there, so that the library's facts on
finite sets apply (`SumIsTotal`, `TotalChanged`, `TotalRaised`).

### Disciplined clients and the atomic map

`DisciplinedInv` says at which stage of a request its keys' rows and files may
differ (`Unsettled`: between the rename and the commit, between the unlink and
the deletion of the row, and during the purge of a bucket), what the request
then holds of them (`Sound`), and that everything else is settled: the file
holds what the row names. Discipline (`NoOverlap`) makes a key's stage that of
one request. Every step is then either local, changing only unsettled keys of
its own request, or one that settles them; a key nobody works on is settled
(`QuietKeysMatch`), and the row a precondition was tested on is still there at
the commit (`ConditionsHold`). Under the refinement mapping the commit of a row
is the abstract write, the deletion of a row the abstract removal, the reply the
abstract read, and every other step a stutter. `WellBehaved` is needed: a
rejected body has already replaced the file (section 3), and a crash between
file and row leaves them apart for good.

### Multipart uploads

`MultipartInv` needs nothing of clients for what the sweep does (`SweepSound`).
For polite ones it adds that a part file has one writer (`SoloParts`), that a
Complete or an Abort has its upload to itself (`ClosersAlone`), what file and
row of a part are at each stage of its request (`FilesSound`, `PartSound`), what
a Complete in flight has assembled so far (`CompleteSound`), and that an ended
upload has only its clean-up left (`GoneSound`). The sweep is the only one to
interfere with a Complete, and what was already read cannot be taken back.

### Listings

`ListingInv` relates the marker to what was listed: until the last page, every
row the marker has not passed belongs to an item that comes after the last one
listed (`Ahead`; a folded upload's may be that one again), and the rows it has
passed without their being listed (`Lost`) are none, or for objects at most one
per page. `FoldsInOrder` is where names with one prefix must stand together: rows
in order fold into items in order. `PageSound` says that a page holds the items
at places 1, 2, ... of what remains; that each place is taken is counting
(`PlaceSound`). The two kinds of marker are then one lemma each (`ObjectsStep`,
`OthersStep`).

### Login

`LifeInv` adds to `SessionsExpire`, which is about rows, what a request in
flight carries, because a row is written from what a request computed some
awaits before:

- `Renewals`: an expiry still to be written respects both limits. It did when
  it was computed, and each `Tick` takes from it what it adds to the ages.
- `Creations`: the token of a session still to be created is unused and in
  nobody else's hands. It is what makes a deletion final: an update finds no
  row, and no creation is for a token that ever had one.

The type invariant needs no strengthening; it holds because a login is refused
while the global lock lasts, so a new lock counts from now (`CountGlobalType`).

`OneAddressIsNotEnough` counts an address's rounds (`Single`): while the global
window holds failures of one address only, their number is bounded by the
rounds of `FailThreshold` that address can have begun, and between two rounds
lies a cooldown. If `n` cooldowns outlast the window there are at most `n + 1`
rounds in it. With the shipped values (5 per address, 15 in all, cooldown 30
minutes, window 60) the theorem needs `n = 2`, for which the cooldown would have
to be longer than half the window and is exactly half, or `n = 3` and a global
threshold of 20: the defaults miss it by the millisecond section 3 speaks of.

### Access, streams and metering

- `AccessInv`: what a request has read of a key, a domain or a bucket it has
  also `seen`, and key rows never change but for being deleted (`KeysGrow`), so
  what was allowed at the time of a read is among the rights seen.
- `StreamInv`: what is in the decoder's buffer and still on the wire is, at each
  of its states, the framing of some remaining chunks (`ToCome`), and what was
  passed on and what remains are the client's chunks, unless they are damaged
  and unsigned (`Passed`). The framing of a line has its CRLF at one place only
  (`LineRead`), wherever the pieces end. For a GET, `Spans` ties the parsed range
  to the bytes asked for, and `Sends` says what was sent at each position of the
  source. `FlattenSeq` is a recursive function of the sequence; what it does
  with one more element (`FlattenAppend`, `FlattenCons`) is proved from a least
  counterexample, with the library's theorem on minimal elements.
- `MeterInv`: a query's result is what was logged between two instants and is
  still kept (`Finds`), and without overlap the intervals of snapshots and of
  the poll in flight follow one another (`InTurn`).

### Provisioning and billing

Both properties and invariants name the mishaps they do not survive: each
conjunct of `ProvisionInv` and `BillingInv` holds without its own set of them.

- `ProvisionInv`: without crossing requests an instance has one (`Solo`), and
  its container, volume and hostname are as far as that request's pc says
  (`StatusSound`, `FailedSound`); the map file and what nginx has loaded lag
  behind the rows only while somebody has yet to list, write or reload
  (`RoutesSound`); whoever is past the check of the limit found room for one
  (`LimitSound`).
- `BillingInv`: without a second checkout there is one purchase (`OnePurchase`),
  without a second first checkout one Stripe customer (`OneCustomer`), and with
  neither and events in order a subscription's newest event is still to come or
  the row already says what it says (`InStep`).

The strengthenings of the object store, multipart uploads, login, provisioning
and billing were model-checked on the instances of section 3 before they were
proved, where TLC can evaluate them.

## 5. What is only model-checked

Liveness, which the prover does not handle: `LitterRemoved`, `UploadsEnd`,
`SessionsAndLocksEnd`, `ListingEnds` and `EventsAcknowledged`. Every invariant,
action property and refinement that a passing run checks is also a theorem.

## 6. What remains

The modules of the plan are written and their safety is proved. What remains is
code that is not modelled.

## 7. Not modelled

SigV4's canonicalisation, TOTP and AES-GCM (cryptography and string
formatting); XML, tag, CORS, metadata, SSE-C and lifecycle parsing (sequential
text processing); read preconditions, which only choose a GET's answer; the
quota's own setting (`PATCH /api/admin/quota`), a constant of the store; the
user interfaces, examples and deployment scripts; audit rows, failed-login rows
and statistics, which nothing reads back; the admin address allowlist, a fixed
list read once; control-plane passwords, login
cookies and e-mail; a graceful shutdown, which lets requests finish.
