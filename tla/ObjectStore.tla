---------------------------- MODULE ObjectStore ----------------------------
(***************************************************************************)
(* One bucket of the storage backend: the object rows of the metadata      *)
(* database, the blob files on disk, and the request handlers that keep    *)
(* the two together without a transaction or a lock.                       *)
(*                                                                         *)
(* A handler is a record of `req`: its pc names the `await` it is at and   *)
(* the other fields are its local variables, what it read from the         *)
(* database included, so a value read before an await can be stale when it *)
(* is used.  One action is the code between two awaits that change or read *)
(* shared state.  The file of an object is found from its bucket and key,  *)
(* so every version of an object has the same path: the blob is `blobs[k]`.*)
(***************************************************************************)
EXTENDS Integers, FiniteSets, FiniteSetsExt

CONSTANTS
  Keys,         \* object keys of the bucket
  Contents,     \* payloads; a payload stands for its bytes, MD5 and CRC-32
  Size,         \* Size[c]: length of payload c
  Corrupt,      \* payloads that fail a check made after the body is stored
  Workers,      \* slots for requests in flight
  Ops,          \* the operations clients and the maintenance timer issue
  Conds,        \* the write preconditions clients send
  Declared,     \* may a PUT declare its length (TRUE) or omit it (FALSE)?
  SameMs,       \* may requests open their .tmp- files in the same millisecond?
  Quota,        \* STORAGE_QUOTA_BYTES; 0 means unlimited
  MaxRequests,  \* bound on the requests started
  MaxCrashes,   \* bound on process crashes
  None,         \* no payload
  Absent,       \* bytes of a blob file that does not exist
  Torn          \* bytes of a file truncated, partly written or mixed

AllOps == {"put", "copy", "upload", "tag", "delete", "batch", "sweep",
           "dropBucket", "makeBucket", "get"}
AllConds == [kind : {"none", "exists", "absent", "unmodified"}, tag : {None}]
              \cup [kind : {"match", "differs"}, tag : Contents]

ASSUME FiniteAssumption == IsFiniteSet(Keys) /\ IsFiniteSet(Workers) /\ Workers # {}
ASSUME SizeAssumption == Size \in [Contents -> Nat]
ASSUME LongestAssumption == \E c \in Contents : \A d \in Contents : Size[d] <= Size[c]
ASSUME CorruptAssumption == Corrupt \subseteq Contents
ASSUME OpsAssumption == Ops \subseteq AllOps
ASSUME CondsAssumption == Conds \subseteq AllConds
ASSUME DeclaredAssumption == Declared \subseteq BOOLEAN
ASSUME SameMsAssumption == SameMs \in BOOLEAN
ASSUME BoundsAssumption == Quota \in Nat /\ MaxRequests \in Nat /\ MaxCrashes \in Nat
ASSUME MarkerAssumption ==
  /\ {None, Absent, Torn} \cap Contents = {}
  /\ None # Absent /\ None # Torn /\ Absent # Torn

VARIABLES
  bucket,   \* does the bucket row exist?
  rows,     \* rows[k]: the object row of k, or NoRow
  blobs,    \* blobs[k]: the file at k's path
  litter,   \* litter[k]: .tmp- files left at k's path, "fresh" or "stale"
  req,      \* req[w]: the request in flight in slot w
  reply,    \* the last body sent to a client, with the ETag announced for it
  nextId,   \* the id the next row gets
  started,  \* requests started so far
  crashes   \* crashes so far

vars == <<bucket, rows, blobs, litter, req, reply, nextId, started, crashes>>
store == <<bucket, rows, blobs, litter, nextId>>

----------------------------------------------------------------------------
(* Rows, files and requests.                                               *)

(* The row's size is Size[etag] and its storagePath is k's path.  `old`    *)
(* says that updatedAt is before the cutoff of the bucket's Days rule.     *)
NoRow == [id |-> 0, etag |-> None, crc |-> None, old |-> FALSE]
Row == [id : Nat \ {0}, etag : Contents, crc : Contents \cup {None}, old : BOOLEAN]
Live(k) == rows[k] # NoRow

Bytes == Contents \cup {Absent, Torn}
NoBlob == [data |-> Absent, open |-> {}]
Blob == [data : Bytes, open : SUBSET Workers]
NoReply == [etag |-> None, body |-> Absent]

Idle == [pc |-> "idle"]
Victim == [key : Keys, id : Nat \ {0}]
WriteReq == [pc : {"quota", "stream", "verify", "reject", "dest", "read", "rename",
                   "truncate", "fill", "commit"},
             op : {"put", "copy", "upload"}, key : Keys, src : Keys,
             content : Contents, crc : Contents \cup {None}, bytes : Bytes,
             seen : Contents \cup {None}, cond : AllConds, declared : BOOLEAN,
             tmp : Workers]
ReadReq == [pc : {"open"}, key : Keys, etag : Contents]
TagReq == [pc : {"tag"}, victim : Victim]
DeleteReq == [pc : {"unlink", "purge"}, todo : SUBSET Victim]
               \cup [pc : {"rmrow"}, victim : Victim, todo : SUBSET Victim]

Pc(w) == req[w].pc
Finish(w) == req' = [req EXCEPT ![w] = Idle]
Goto(w, label) == req' = [req EXCEPT ![w].pc = label]
Start(w, op, r) ==
  /\ op \in Ops /\ req[w] = Idle /\ started < MaxRequests
  /\ req' = [req EXCEPT ![w] = r]
  /\ started' = started + 1

(* Bytes the metadata accounts for, and the quota test of quota.ts.        *)
Len(c) == IF c = None THEN 0 ELSE Size[c]
Used == MapThenSumSet(LAMBDA k : Len(rows[k].etag), Keys)
WouldExceedQuota(added, removed) == Quota > 0 /\ Used - removed + added > Quota

(* checkWritePreconditions: does a write with precondition c go ahead?     *)
Admits(c, row) ==
  CASE c.kind = "none" -> TRUE
    [] c.kind = "exists" -> row # NoRow
    [] c.kind = "absent" -> row = NoRow
    [] c.kind = "match" -> row # NoRow /\ row.etag = c.tag
    [] c.kind = "differs" -> row = NoRow \/ row.etag # c.tag
    [] c.kind = "unmodified" -> row = NoRow \/ row.old

(* rename() over k's path and unlink() of it: whoever still has the old    *)
(* file open keeps writing to an inode no path names.                      *)
Replace(k, bytes) == blobs' = [blobs EXCEPT ![k] = [data |-> bytes, open |-> {}]]
Unlink(k) == blobs' = [blobs EXCEPT ![k] = NoBlob]

(* A .tmp- file is named after its object, the process and the time in     *)
(* milliseconds, so two requests for one key can end up with one file.  It *)
(* is then what they wrote over each other, and the first of them to       *)
(* rename or unlink it leaves nothing for the others to rename: they fail. *)
HasTmp(w, k) == Pc(w) \in {"stream", "rename"} /\ req[w].key = k
Sharers(w) == {v \in Workers : HasTmp(v, req[w].key) /\ req[v].tmp = req[w].tmp}
OpenTmp(w, label, bytes) ==
  \E v \in {w} \cup {u \in Workers : SameMs /\ HasTmp(u, req[w].key)} :
    req' = [req EXCEPT ![w].pc = label, ![w].bytes = bytes, ![w].tmp = req[v].tmp]
DropTmp(w) ==
  req' = [v \in Workers |-> IF v \in Sharers(w) THEN Idle ELSE req[v]]
RenameTmp(w, label) ==
  /\ \E bytes \in IF Sharers(w) = {w} THEN {req[w].bytes}
                   ELSE {req[v].bytes : v \in Sharers(w)} \cup {Torn} :
       Replace(req[w].key, bytes)
  /\ req' = [v \in Workers |->
               IF v = w THEN [req[w] EXCEPT !.pc = label, !.tmp = w]
               ELSE IF v \in Sharers(w) THEN Idle ELSE req[v]]

----------------------------------------------------------------------------
(* PutObject.  The body goes to a .tmp- file, is renamed over the object's *)
(* path, and only then are its digests and the final quota checked.        *)

Writing(w, op, k, s, c, cond, declared) ==
  [pc |-> "quota", op |-> op, key |-> k, src |-> s, content |-> c, crc |-> c,
   bytes |-> c, seen |-> rows[k].etag, cond |-> cond, declared |-> declared,
   tmp |-> w]

PutBegin(w, k, c, cond, declared) ==
  /\ bucket /\ Admits(cond, rows[k])
  /\ Start(w, "put", Writing(w, "put", k, k, c, cond, declared))
  /\ UNCHANGED <<store, reply, crashes>>

(* Mutant: the row is written before the body has arrived.                 *)
PutQuotaThenRow(w) ==
  /\ Pc(w) = "quota" /\ req[w].op = "put"
  /\ Goto(w, "commit")
  /\ UNCHANGED <<store, reply, started, crashes>>

PutQuota(w) ==
  /\ Pc(w) = "quota" /\ req[w].op = "put"
  /\ LET r == req[w] IN
       IF r.declared /\ Len(r.content) > 0
                     /\ WouldExceedQuota(Len(r.content), Len(r.seen))
       THEN Finish(w)
       ELSE OpenTmp(w, "stream", r.bytes)
  /\ UNCHANGED <<store, reply, started, crashes>>

(* Mutant: the .tmp- file is renamed whether or not the body is complete.  *)
PutBodyFailsRenamed(w) ==
  /\ Pc(w) = "stream"
  /\ Replace(req[w].key, Torn)
  /\ DropTmp(w)
  /\ UNCHANGED <<bucket, rows, litter, nextId, reply, started, crashes>>

(* The body breaks off: the .tmp- file is unlinked and nothing else changes.*)
PutBodyFails(w) ==
  /\ Pc(w) = "stream"
  /\ DropTmp(w)
  /\ UNCHANGED <<store, reply, started, crashes>>

PutRename(w) ==
  /\ Pc(w) = "stream"
  /\ RenameTmp(w, "verify")
  /\ UNCHANGED <<bucket, rows, litter, nextId, reply, started, crashes>>

(* Mutant: the digests of the body are not compared with the headers.      *)
PutVerifyQuotaOnly(w) ==
  /\ Pc(w) = "verify"
  /\ LET r == req[w] IN
       IF WouldExceedQuota(Len(r.content), Len(r.seen))
       THEN Goto(w, "reject")
       ELSE Goto(w, "commit")
  /\ UNCHANGED <<store, reply, started, crashes>>

(* Mutant: only the declared length is held against the quota.             *)
PutVerifyDigestsOnly(w) ==
  /\ Pc(w) = "verify"
  /\ IF req[w].content \in Corrupt THEN Goto(w, "reject") ELSE Goto(w, "commit")
  /\ UNCHANGED <<store, reply, started, crashes>>

PutVerify(w) ==
  /\ Pc(w) = "verify"
  /\ LET r == req[w] IN
       IF r.content \in Corrupt \/ WouldExceedQuota(Len(r.content), Len(r.seen))
       THEN Goto(w, "reject")
       ELSE Goto(w, "commit")
  /\ UNCHANGED <<store, reply, started, crashes>>

(* "Clean up the freshly written blob": whatever file is at the path now.  *)
PutReject(w) ==
  /\ Pc(w) = "reject"
  /\ Unlink(req[w].key)
  /\ Finish(w)
  /\ UNCHANGED <<bucket, rows, litter, nextId, reply, started, crashes>>

(* Mutant: an overwrite keeps the checksum of the row it finds.            *)
CommitRowKeepingCrc(w) ==
  /\ Pc(w) = "commit"
  /\ LET r == req[w]
         before == rows[r.key]
     IN IF ~bucket
        THEN UNCHANGED <<rows, nextId>>
        ELSE IF before = NoRow
        THEN /\ rows' = [rows EXCEPT ![r.key] =
                           [id |-> nextId, etag |-> r.content, crc |-> r.crc, old |-> FALSE]]
             /\ nextId' = nextId + 1
        ELSE /\ rows' = [rows EXCEPT ![r.key].etag = r.content, ![r.key].old = FALSE]
             /\ UNCHANGED nextId
  /\ Finish(w)
  /\ UNCHANGED <<bucket, blobs, litter, reply, started, crashes>>

(* The upsert of PutObject, CopyObject and the dashboard's upload: a row   *)
(* that exists keeps its id; the dashboard does not touch its checksum.    *)
(* Without the bucket row the foreign key fails and the handler throws.    *)
CommitRow(w) ==
  /\ Pc(w) = "commit"
  /\ LET r == req[w]
         before == rows[r.key]
         crc == IF r.op = "upload" THEN before.crc ELSE r.crc
         id == IF before = NoRow THEN nextId ELSE before.id
     IN IF bucket
        THEN /\ rows' = [rows EXCEPT ![r.key] =
                           [id |-> id, etag |-> r.content, crc |-> crc, old |-> FALSE]]
             /\ nextId' = IF before = NoRow THEN nextId + 1 ELSE nextId
        ELSE UNCHANGED <<rows, nextId>>
  /\ Finish(w)
  /\ UNCHANGED <<bucket, blobs, litter, reply, started, crashes>>

----------------------------------------------------------------------------
(* CopyObject: the new row repeats the source's row as first read; the     *)
(* bytes are those of the source's file when copyFile opens it.            *)

(* Mutant: a source row that does not exist is not noticed.                *)
CopyBeginUnchecked(w, s, k, cond) ==
  /\ bucket
  /\ Start(w, "copy",
           [Writing(w, "copy", k, s, rows[s].etag, cond, TRUE) EXCEPT
              !.pc = "dest", !.crc = rows[s].crc, !.bytes = Absent, !.seen = None])
  /\ UNCHANGED <<store, reply, crashes>>

CopyBegin(w, s, k, cond) ==
  /\ bucket /\ Live(s)
  /\ Start(w, "copy",
           [Writing(w, "copy", k, s, rows[s].etag, cond, TRUE) EXCEPT
              !.pc = "dest", !.crc = rows[s].crc, !.bytes = Absent, !.seen = None])
  /\ UNCHANGED <<store, reply, crashes>>

(* Mutant: the write preconditions are ignored for a copy.                 *)
CopyDestUnconditional(w) ==
  /\ Pc(w) = "dest"
  /\ req' = [req EXCEPT ![w].pc = "quota", ![w].seen = rows[req[w].key].etag]
  /\ UNCHANGED <<store, reply, started, crashes>>

CopyDest(w) ==
  /\ Pc(w) = "dest"
  /\ IF Admits(req[w].cond, rows[req[w].key])
     THEN req' = [req EXCEPT ![w].pc = "quota", ![w].seen = rows[req[w].key].etag]
     ELSE Finish(w)
  /\ UNCHANGED <<store, reply, started, crashes>>

CopyQuota(w) ==
  /\ Pc(w) = "quota" /\ req[w].op = "copy"
  /\ LET added == Len(req[w].content) - Len(req[w].seen) IN
       IF added > 0 /\ WouldExceedQuota(added, 0) THEN Finish(w) ELSE Goto(w, "read")
  /\ UNCHANGED <<store, reply, started, crashes>>

CopyRead(w) ==
  /\ Pc(w) = "read"
  /\ LET bytes == blobs[req[w].src].data IN
       IF bytes = Absent
       THEN Finish(w)
       ELSE OpenTmp(w, "rename", bytes)
  /\ UNCHANGED <<store, reply, started, crashes>>

(* Mutant: an existing file at the destination is not replaced.            *)
CopyRenameExclusive(w) ==
  /\ Pc(w) = "rename"
  /\ IF blobs[req[w].key].data = Absent
     THEN RenameTmp(w, "commit")
     ELSE Goto(w, "commit") /\ UNCHANGED blobs
  /\ UNCHANGED <<bucket, rows, litter, nextId, reply, started, crashes>>

CopyRename(w) ==
  /\ Pc(w) = "rename"
  /\ RenameTmp(w, "commit")
  /\ UNCHANGED <<bucket, rows, litter, nextId, reply, started, crashes>>

----------------------------------------------------------------------------
(* The dashboard's upload writes the buffered body in place.               *)

UploadBegin(w, k, c) ==
  /\ bucket
  /\ Start(w, "upload", Writing(w, "upload", k, k, c, [kind |-> "none", tag |-> None], TRUE))
  /\ UNCHANGED <<store, reply, crashes>>

UploadQuota(w) ==
  /\ Pc(w) = "quota" /\ req[w].op = "upload"
  /\ IF WouldExceedQuota(Len(req[w].content), Len(req[w].seen))
     THEN Finish(w)
     ELSE Goto(w, "truncate")
  /\ UNCHANGED <<store, reply, started, crashes>>

UploadTruncate(w) ==
  /\ Pc(w) = "truncate"
  /\ blobs' = [blobs EXCEPT ![req[w].key] = [data |-> Torn, open |-> @.open \cup {w}]]
  /\ Goto(w, "fill")
  /\ UNCHANGED <<bucket, rows, litter, nextId, reply, started, crashes>>

(* Two uploads of one key may share the inode and mix their bytes; an      *)
(* upload whose inode was replaced or unlinked writes to no visible file.  *)
UploadFill(w) ==
  /\ Pc(w) = "fill"
  /\ LET k == req[w].key
         c == req[w].content
         b == blobs[k]
         alone == b.open = {w} /\ b.data = Torn
     IN IF w \in b.open
        THEN \E data \in IF alone THEN {c} ELSE {c, Torn} :
               blobs' = [blobs EXCEPT ![k] = [data |-> data, open |-> b.open \ {w}]]
        ELSE UNCHANGED blobs
  /\ Goto(w, "commit")
  /\ UNCHANGED <<bucket, rows, litter, nextId, reply, started, crashes>>

----------------------------------------------------------------------------
(* Put/DeleteObjectTagging: an update by id, which also renews updatedAt.  *)

VictimOf(k) == [key |-> k, id |-> rows[k].id]

TagBegin(w, k) ==
  /\ Live(k)
  /\ Start(w, "tag", [pc |-> "tag", victim |-> VictimOf(k)])
  /\ UNCHANGED <<store, reply, crashes>>

TagUpdate(w) ==
  /\ Pc(w) = "tag"
  /\ LET v == req[w].victim IN
       rows' = IF rows[v.key].id = v.id THEN [rows EXCEPT ![v.key].old = FALSE] ELSE rows
  /\ Finish(w)
  /\ UNCHANGED <<bucket, blobs, litter, nextId, reply, started, crashes>>

----------------------------------------------------------------------------
(* Deletions: look the rows up, then for each one unlink the file and      *)
(* delete the row by id (a row that is gone makes that delete fail, which  *)
(* the batch and the sweep skip over and the single delete reports).       *)

DeleteBegin(w, op, S) ==
  /\ S # {} /\ S \subseteq {k \in Keys : Live(k)}
  /\ Start(w, op, [pc |-> "unlink", todo |-> {VictimOf(k) : k \in S}])
  /\ UNCHANGED <<store, reply, crashes>>

DeleteObject(w, k) == DeleteBegin(w, "delete", {k})
DeleteObjects(w, S) == bucket /\ DeleteBegin(w, "batch", S)
SweepExpiredObjects(w) == DeleteBegin(w, "sweep", {k \in Keys : rows[k].old})

(* Mutant: rows are deleted without their files.                           *)
UnlinkVictimNot(w) ==
  /\ Pc(w) = "unlink"
  /\ \E v \in req[w].todo :
       req' = [req EXCEPT ![w] = [pc |-> "rmrow", victim |-> v,
                                  todo |-> req[w].todo \ {v}]]
  /\ UNCHANGED <<bucket, rows, blobs, litter, nextId, reply, started, crashes>>

UnlinkVictim(w) ==
  /\ Pc(w) = "unlink"
  /\ \E v \in req[w].todo :
       /\ Unlink(v.key)
       /\ req' = [req EXCEPT ![w] = [pc |-> "rmrow", victim |-> v,
                                     todo |-> req[w].todo \ {v}]]
  /\ UNCHANGED <<bucket, rows, litter, nextId, reply, started, crashes>>

DeleteRow(w) ==
  /\ Pc(w) = "rmrow"
  /\ LET v == req[w].victim IN
       rows' = IF rows[v.key].id = v.id THEN [rows EXCEPT ![v.key] = NoRow] ELSE rows
  /\ req' = [req EXCEPT ![w] = IF req[w].todo = {} THEN Idle
                               ELSE [pc |-> "unlink", todo |-> req[w].todo]]
  /\ UNCHANGED <<bucket, blobs, litter, nextId, reply, started, crashes>>

(* Deleting a bucket: unlink the files of the rows found, then delete the  *)
(* bucket row, whose cascade takes every row there is by then.             *)
DropBegin(w) ==
  /\ Start(w, "dropBucket",
           [pc |-> "purge", todo |-> {VictimOf(k) : k \in {j \in Keys : Live(j)}}])
  /\ UNCHANGED <<store, reply, crashes>>

DropUnlink(w) ==
  /\ Pc(w) = "purge"
  /\ \E v \in req[w].todo :
       /\ Unlink(v.key)
       /\ req' = [req EXCEPT ![w].todo = @ \ {v}]
  /\ UNCHANGED <<bucket, rows, litter, nextId, reply, started, crashes>>

DropCascade(w) ==
  /\ Pc(w) = "purge" /\ req[w].todo = {}
  /\ bucket' = FALSE
  /\ rows' = [k \in Keys |-> NoRow]
  /\ Finish(w)
  /\ UNCHANGED <<blobs, litter, nextId, reply, started, crashes>>

MakeBucket(w) ==
  /\ ~bucket
  /\ Start(w, "makeBucket", Idle)
  /\ bucket' = TRUE
  /\ UNCHANGED <<rows, blobs, litter, nextId, reply, crashes>>

----------------------------------------------------------------------------
(* GetObject: headers from the row, body from whatever file is there when  *)
(* the stream is opened.                                                   *)

GetBegin(w, k) ==
  /\ bucket /\ Live(k)
  /\ Start(w, "get", [pc |-> "open", key |-> k, etag |-> rows[k].etag])
  /\ UNCHANGED <<store, reply, crashes>>

GetOpen(w) ==
  /\ Pc(w) = "open"
  /\ LET body == blobs[req[w].key].data IN
       reply' = IF body = Absent THEN reply ELSE [etag |-> req[w].etag, body |-> body]
  /\ Finish(w)
  /\ UNCHANGED <<store, started, crashes>>

----------------------------------------------------------------------------
(* Time, the .tmp- sweep, and crashes.                                     *)

(* An object's updatedAt falls behind the lifecycle cutoff.                *)
Age(k) ==
  /\ Live(k) /\ ~rows[k].old
  /\ rows' = [rows EXCEPT ![k].old = TRUE]
  /\ UNCHANGED <<bucket, blobs, litter, nextId, req, reply, started, crashes>>

(* A .tmp- file left by a crash becomes older than TMP_SWEEP_AGE_MS.       *)
LitterAges(k) ==
  /\ "fresh" \in litter[k]
  /\ litter' = [litter EXCEPT ![k] = {"stale"}]
  /\ UNCHANGED <<bucket, rows, blobs, nextId, req, reply, started, crashes>>

(* Mutant: the age comparison is the wrong way round.                      *)
SweepTmpFilesInverted ==
  /\ \E k \in Keys : "stale" \in litter[k]
  /\ litter' = [k \in Keys |-> litter[k] \ {"fresh"}]
  /\ UNCHANGED <<bucket, rows, blobs, nextId, req, reply, started, crashes>>

SweepTmpFiles ==
  /\ \E k \in Keys : "stale" \in litter[k]
  /\ litter' = [k \in Keys |-> litter[k] \ {"stale"}]
  /\ UNCHANGED <<bucket, rows, blobs, nextId, req, reply, started, crashes>>

(* The process dies and is restarted: requests are gone, files stay.       *)
Crash ==
  /\ crashes < MaxCrashes
  /\ crashes' = crashes + 1
  /\ litter' = [k \in Keys |-> litter[k] \cup
                  IF \E w \in Workers : HasTmp(w, k) THEN {"fresh"} ELSE {}]
  /\ blobs' = [k \in Keys |-> [blobs[k] EXCEPT !.open = {}]]
  /\ req' = [w \in Workers |-> Idle]
  /\ UNCHANGED <<bucket, rows, nextId, reply, started>>

----------------------------------------------------------------------------

Init ==
  /\ bucket = TRUE
  /\ rows = [k \in Keys |-> NoRow]
  /\ blobs = [k \in Keys |-> NoBlob]
  /\ litter = [k \in Keys |-> {}]
  /\ req = [w \in Workers |-> Idle]
  /\ reply = NoReply
  /\ nextId = 1
  /\ started = 0
  /\ crashes = 0

Begin(w) ==
  \/ \E k \in Keys, c \in Contents, cond \in Conds, declared \in Declared :
       PutBegin(w, k, c, cond, declared)
  \/ \E s, k \in Keys, cond \in Conds : CopyBegin(w, s, k, cond)
  \/ \E k \in Keys, c \in Contents : UploadBegin(w, k, c)
  \/ \E k \in Keys : TagBegin(w, k) \/ DeleteObject(w, k) \/ GetBegin(w, k)
  \/ \E S \in SUBSET Keys : DeleteObjects(w, S)
  \/ SweepExpiredObjects(w)
  \/ DropBegin(w)
  \/ MakeBucket(w)

Step(w) ==
  \/ PutQuota(w) \/ PutBodyFails(w) \/ PutRename(w) \/ PutVerify(w) \/ PutReject(w)
  \/ CopyDest(w) \/ CopyQuota(w) \/ CopyRead(w) \/ CopyRename(w)
  \/ UploadQuota(w) \/ UploadTruncate(w) \/ UploadFill(w)
  \/ CommitRow(w) \/ TagUpdate(w)
  \/ UnlinkVictim(w) \/ DeleteRow(w) \/ DropUnlink(w) \/ DropCascade(w)
  \/ GetOpen(w)

Environment ==
  \/ \E k \in Keys : Age(k) \/ LitterAges(k)
  \/ SweepTmpFiles
  \/ Crash

Next == (\E w \in Workers : Begin(w) \/ Step(w)) \/ Environment

Spec == Init /\ [][Next]_vars

(* The maintenance timer fires on every interval and files keep getting    *)
(* older; nothing is assumed of clients.                                   *)
FairSpec == Spec /\ WF_vars(SweepTmpFiles) /\ \A k \in Keys : WF_vars(LitterAges(k))

----------------------------------------------------------------------------
(* Properties.                                                             *)

(* Every variable holds the kind of value the code keeps there.            *)
TypeOK ==
  /\ bucket \in BOOLEAN
  /\ rows \in [Keys -> {NoRow} \cup Row]
  /\ blobs \in [Keys -> Blob]
  /\ litter \in [Keys -> SUBSET {"fresh", "stale"}]
  /\ req \in [Workers -> {Idle} \cup WriteReq \cup ReadReq \cup TagReq \cup DeleteReq]
  /\ reply \in [etag : Contents \cup {None}, body : Bytes]
  /\ nextId \in Nat \ {0} /\ started \in Nat /\ crashes \in Nat

(* Where the dashboard's upload is not used and .tmp- names do not clash,  *)
(* no file at an object's path, no copy in progress and no body sent to a  *)
(* client is ever partly written or mixed, whatever runs at the same time  *)
(* and wherever the process dies: the handlers publish with a rename.      *)
BlobsWhole ==
  /\ \A k \in Keys : blobs[k].data # Torn
  /\ \A w \in Workers : Pc(w) \in {"stream", "rename"} => req[w].bytes # Torn
  /\ reply.body # Torn

(* No row ever names a payload that failed its MD5, CRC-32 or tag check.   *)
RowsVerified == \A k \in Keys : rows[k].etag \notin Corrupt

(* Where the dashboard's upload is not used, the checksum stored with a    *)
(* row is the checksum of the payload the row's ETag names.                *)
ChecksumOfContent == \A k \in Keys : rows[k].crc \in {None, rows[k].etag}

(* Where nothing unlinks files, every row has a file, at every moment and  *)
(* after every crash: handlers publish the file before they write the row. *)
RowHasBlob == \A k \in Keys : Live(k) => blobs[k].data # Absent

(* Concurrent writers each test the quota before any of them has written   *)
(* its row, and subtract the size of a row that may be gone by then.  The  *)
(* metadata can exceed the quota, but by no more than one largest object   *)
(* for every other request in flight.                                      *)
MaxLen == CHOOSE n \in {Size[c] : c \in Contents} : \A c \in Contents : Size[c] <= n
QuotaOvershootBounded == Used <= Quota + (Cardinality(Workers) - 1) * MaxLen

(* Keys a request in flight may still read or write.                       *)
Touches(w) ==
  CASE Pc(w) = "idle" -> {}
    [] Pc(w) = "open" -> {req[w].key}
    [] Pc(w) = "tag" -> {req[w].victim.key}
    [] Pc(w) = "purge" -> Keys
    [] Pc(w) = "unlink" -> {v.key : v \in req[w].todo}
    [] Pc(w) = "rmrow" -> {req[w].victim.key} \cup {v.key : v \in req[w].todo}
    [] OTHER -> {req[w].key, req[w].src}
Quiet(k) == \A w \in Workers : k \notin Touches(w)

(* Once no request works on a key, its file holds the payload its row      *)
(* names and there is no file without a row.                               *)
RowMatchesBlob ==
  \A k \in Keys : Quiet(k) =>
    blobs[k].data = IF Live(k) THEN rows[k].etag ELSE Absent

(* A write sent with a precondition is committed over a row that still     *)
(* satisfies it.                                                           *)
ConditionHoldsAtCommit ==
  [][\A w \in Workers : CommitRow(w) /\ bucket =>
       Admits(req[w].cond, rows[req[w].key])]_vars

(* A .tmp- file left behind by a crash is eventually removed.              *)
LitterRemoved == \A k \in Keys : litter[k] # {} ~> litter[k] = {}

=============================================================================
