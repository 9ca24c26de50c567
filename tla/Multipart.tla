----------------------------- MODULE Multipart -----------------------------
(***************************************************************************)
(* Multipart uploads of one object: the upload and part rows, the part     *)
(* files under multipart/<uploadId>/, and the handlers CreateMultipart-    *)
(* Upload, UploadPart, UploadPartCopy, CompleteMultipartUpload and         *)
(* AbortMultipartUpload beside the 24-hour sweep.                          *)
(*                                                                         *)
(* A part's file is written in place, before its row; a part's payload     *)
(* stands for its bytes and their ETag.  The assembled object is the       *)
(* function from the listed part numbers to the bytes read for each: parts *)
(* are concatenated by number, so it determines the object, and the empty  *)
(* function <<>> is no object.  The .tmp- file of an assembly behaves as   *)
(* PutObject's in ObjectStore and is not repeated here.                    *)
(***************************************************************************)
EXTENDS Integers, FiniteSets, FiniteSetsExt

CONSTANTS
  Uploads,      \* upload ids
  Parts,        \* part numbers
  Contents,     \* part payloads
  Size,         \* Size[c]: length of payload c
  Corrupt,      \* payloads that fail Content-MD5 or a CRC-32 comparison
  Lists,        \* the part lists clients complete with
  Workers,      \* slots for requests in flight
  Quota,        \* the storage quota; 0 means unlimited
  MaxRequests,  \* bound on the requests started
  MaxCrashes,   \* bound on process crashes
  None,         \* no payload
  Absent,       \* bytes of a part file that does not exist
  Torn          \* bytes of a part file partly written or mixed

ASSUME FiniteAssumption == IsFiniteSet(Workers) /\ Workers # {}
ASSUME SizeAssumption == Size \in [Contents -> Nat]
ASSUME LongestAssumption == \E c \in Contents : \A d \in Contents : Size[d] <= Size[c]
ASSUME PartsAssumption == Parts \subseteq Nat \ {0} /\ IsFiniteSet(Parts)
ASSUME CorruptAssumption == Corrupt \subseteq Contents
ASSUME ListsAssumption == Lists \subseteq UNION {[S -> Contents] : S \in SUBSET Parts}
ASSUME BoundsAssumption == Quota \in Nat /\ MaxRequests \in Nat /\ MaxCrashes \in Nat
ASSUME MarkerAssumption ==
  /\ {None, Absent, Torn} \cap Contents = {}
  /\ None # Absent /\ None # Torn /\ Absent # Torn

VARIABLES
  polite,   \* do clients keep the protocol (see Polite)? chosen once
  declares, \* do clients declare the length of a part? chosen once
  upload,   \* upload[u]: "unused"; "open" or "old" (past the sweep's cutoff) while its
            \* row exists; then "gone" after a request, "swept" after the sweep
  parts,    \* parts[u][n]: the payload of the part row, or None
  files,    \* files[u][n]: the part file
  row,      \* the object row: what its ETag was computed from
  blob,     \* the file at the object's path
  job,      \* job[w]: the request in flight in slot w
  sweep,    \* what the sweep selected and has not removed yet
  started,  \* requests started
  crashes   \* crashes so far

vars == <<polite, declares, upload, parts, files, row, blob, job, sweep, started, crashes>>
object == <<row, blob>>
client == <<polite, declares>>
counters == <<client, started, crashes>>

----------------------------------------------------------------------------

Status == {"unused", "open", "old", "gone", "swept"}
Live(u) == upload[u] \in {"open", "old"}
Assembly == UNION {[S -> Contents \cup {Torn}] : S \in SUBSET Parts}
NoFile == [data |-> Absent, writers |-> {}, mixed |-> FALSE]
File == [data : Contents \cup {Absent, Torn}, writers : SUBSET Workers, mixed : BOOLEAN]
Open(f, w) == [data |-> Torn, writers |-> f.writers \cup {w}, mixed |-> f.writers # {}]
NoSweep == [todo |-> {}, row |-> {}]

Idle == [pc |-> "idle"]
PartPcs == {"look", "quota", "stream", "verify", "reject", "record"}
PartJob == [pc : PartPcs, u : Uploads, n : Parts, content : Contents, copy : BOOLEAN,
            seen : Contents \cup {None}]
CompleteJob == [pc : {"match", "check", "room", "assemble", "publish", "forget"},
                u : Uploads, list : Lists, createOnly : BOOLEAN,
                seen : Assembly, got : Assembly]
CloseJob == [pc : {"delete", "rmdir"}, u : Uploads]

Pc(w) == job[w].pc
IsPart(w) == Pc(w) \in PartPcs
Busy == {w \in Workers : job[w] # Idle}
On(u) == {w \in Busy : job[w].u = u}
Finish(w) == job' = [job EXCEPT ![w] = Idle]
Goto(w, label) == job' = [job EXCEPT ![w].pc = label]
Start(w, r) ==
  /\ job[w] = Idle /\ started < MaxRequests
  /\ job' = [job EXCEPT ![w] = r]
  /\ started' = started + 1

Len(c) == IF c \in Contents THEN Size[c] ELSE 0
Used(f) == MapThenSumSet(LAMBDA n : Len(f[n]), DOMAIN f)
WouldExceedQuota(added, removed) == Quota > 0 /\ Used(row) - removed + added > Quota

(* A polite client sends one request for a part at a time, does not send a *)
(* part again once it was acknowledged, and completes or aborts an upload  *)
(* only when nothing else of the object is in flight.                      *)
Polite(ok) == polite => ok

----------------------------------------------------------------------------
(* CreateMultipartUpload.                                                  *)

CreateMultipartUpload(u) ==
  /\ upload[u] = "unused" /\ started < MaxRequests
  /\ upload' = [upload EXCEPT ![u] = "open"]
  /\ started' = started + 1
  /\ UNCHANGED <<client, parts, files, object, job, sweep, crashes>>

----------------------------------------------------------------------------
(* UploadPart and UploadPartCopy: upload row, old part row, sum of the     *)
(* parts and quota, the file, the checks, the part row.                    *)

PartBegin(w, u, n, c, copy) ==
  /\ Live(u)
  /\ Polite(parts[u][n] = None /\ \A v \in On(u) : IsPart(v) /\ job[v].n # n)
  /\ Start(w, [pc |-> "look", u |-> u, n |-> n, content |-> c, copy |-> copy,
               seen |-> None])
  /\ UNCHANGED <<client, upload, parts, files, object, sweep, crashes>>

UploadPart(w, u, n, c) == PartBegin(w, u, n, c, FALSE)

(* UploadPartCopy takes the same steps but for PartVerify.  What is copied *)
(* is a stored object, and stored objects were verified.                   *)
UploadPartCopy(w, u, n, c) == c \notin Corrupt /\ PartBegin(w, u, n, c, TRUE)

PartLook(w) ==
  /\ Pc(w) = "look"
  /\ job' = [job EXCEPT ![w].pc = "quota", ![w].seen = parts[job[w].u][job[w].n]]
  /\ UNCHANGED <<upload, parts, files, object, sweep, counters>>

(* What is known of the length before the body: a copy's is its source's.  *)
Length(r) == IF r.copy \/ declares THEN Size[r.content] ELSE 0

(* Mutant: only the new part is held against the quota, not its siblings.  *)
PartQuotaAlone(w) ==
  /\ Pc(w) = "quota"
  /\ LET r == job[w]
         added == Length(r) IN
       IF added > 0 /\ WouldExceedQuota(added, Len(r.seen))
       THEN Finish(w) /\ UNCHANGED files
       ELSE /\ Goto(w, "stream")
            /\ files' = [files EXCEPT ![r.u][r.n] = Open(@, w)]
  /\ UNCHANGED <<upload, parts, object, sweep, counters>>

(* getPartPath makes the directory again if it is gone, and opening the    *)
(* file truncates it for whoever else has it open or relies on it.         *)
PartQuota(w) ==
  /\ Pc(w) = "quota"
  /\ LET r == job[w]
         added == Used(parts[r.u]) - Len(r.seen) + Length(r) IN
       IF added > 0 /\ WouldExceedQuota(added, 0)
       THEN Finish(w) /\ UNCHANGED files
       ELSE /\ Goto(w, "stream")
            /\ files' = [files EXCEPT ![r.u][r.n] = Open(@, w)]
  /\ UNCHANGED <<upload, parts, object, sweep, counters>>

(* The body ends.  What it wrote is lost if the file was unlinked in the   *)
(* meantime, and may be mixed with what others wrote into the same file.   *)
PartStored(w) ==
  /\ Pc(w) = "stream"
  /\ LET r == job[w]
         f == files[r.u][r.n]
         others == f.writers \ {w} IN
       /\ \E b \in IF others # {} THEN {Torn}
                   ELSE IF f.mixed THEN {r.content, Torn} ELSE {r.content} :
            files' = IF w \in f.writers
                     THEN [files EXCEPT ![r.u][r.n].data = b, ![r.u][r.n].writers = others]
                     ELSE files
       /\ Goto(w, IF r.copy THEN "record" ELSE "verify")
  /\ UNCHANGED <<upload, parts, object, sweep, counters>>

PartBodyFails(w) ==
  /\ Pc(w) = "stream"
  /\ files' = [files EXCEPT ![job[w].u][job[w].n] = NoFile]
  /\ Finish(w)
  /\ UNCHANGED <<upload, parts, object, sweep, counters>>

(* Mutant: the digests of the part are not compared with the headers.      *)
PartVerifyQuotaOnly(w) ==
  /\ Pc(w) = "verify"
  /\ LET r == job[w] IN
       IF WouldExceedQuota(Size[r.content], Len(r.seen))
       THEN Goto(w, "reject") ELSE Goto(w, "record")
  /\ UNCHANGED <<upload, parts, files, object, sweep, counters>>

PartVerify(w) ==
  /\ Pc(w) = "verify"
  /\ LET r == job[w] IN
       IF WouldExceedQuota(Size[r.content], Len(r.seen)) \/ r.content \in Corrupt
       THEN Goto(w, "reject") ELSE Goto(w, "record")
  /\ UNCHANGED <<upload, parts, files, object, sweep, counters>>

PartReject(w) ==
  /\ Pc(w) = "reject"
  /\ files' = [files EXCEPT ![job[w].u][job[w].n] = NoFile]
  /\ Finish(w)
  /\ UNCHANGED <<upload, parts, object, sweep, counters>>

(* Mutant: the row records what is in the file by now.                     *)
PartRecordFromDisk(w) ==
  /\ Pc(w) = "record"
  /\ LET r == job[w] IN
       parts' = IF Live(r.u) THEN [parts EXCEPT ![r.u][r.n] = files[r.u][r.n].data] ELSE parts
  /\ Finish(w)
  /\ UNCHANGED <<upload, files, object, sweep, counters>>

(* The upsert fails on its foreign key if the upload is gone by now, and   *)
(* nothing removes the file then.                                          *)
PartRecord(w) ==
  /\ Pc(w) = "record"
  /\ LET r == job[w] IN
       parts' = IF Live(r.u) THEN [parts EXCEPT ![r.u][r.n] = r.content] ELSE parts
  /\ Finish(w)
  /\ UNCHANGED <<upload, files, object, sweep, counters>>

----------------------------------------------------------------------------
(* CompleteMultipartUpload: upload row, part list and part rows, existing  *)
(* object and precondition, quota, assembly, object row, upload row, files.*)

CompleteBegin(w, u, list, createOnly) ==
  /\ Live(u)
  /\ Polite(Busy = {})
  /\ Start(w, [pc |-> "match", u |-> u, list |-> list, createOnly |-> createOnly,
               seen |-> <<>>, got |-> <<>>])
  /\ UNCHANGED <<client, upload, parts, files, object, sweep, crashes>>

(* Mutant: the part numbers are looked up but their ETags not compared.    *)
CompleteMatchNumbers(w) ==
  /\ Pc(w) = "match"
  /\ LET r == job[w] IN
       IF DOMAIN r.list # {} /\ \A n \in DOMAIN r.list : parts[r.u][n] # None
       THEN Goto(w, "check") ELSE Finish(w)
  /\ UNCHANGED <<upload, parts, files, object, sweep, counters>>

CompleteMatch(w) ==
  /\ Pc(w) = "match"
  /\ LET r == job[w] IN
       IF DOMAIN r.list # {} /\ \A n \in DOMAIN r.list : parts[r.u][n] = r.list[n]
       THEN Goto(w, "check") ELSE Finish(w)
  /\ UNCHANGED <<upload, parts, files, object, sweep, counters>>

CompleteCheck(w) ==
  /\ Pc(w) = "check"
  /\ IF job[w].createOnly /\ row # <<>> THEN Finish(w)
     ELSE job' = [job EXCEPT ![w].pc = "room", ![w].seen = row]
  /\ UNCHANGED <<upload, parts, files, object, sweep, counters>>

CompleteQuota(w) ==
  /\ Pc(w) = "room"
  /\ IF WouldExceedQuota(Used(job[w].list), Used(job[w].seen))
     THEN Finish(w) ELSE Goto(w, "assemble")
  /\ UNCHANGED <<upload, parts, files, object, sweep, counters>>

(* One readFile of assembleUpload; a missing part fails the request.       *)
AssemblePart(w, n) ==
  /\ Pc(w) = "assemble"
  /\ LET r == job[w]
         b == files[r.u][n].data IN
       /\ n \in DOMAIN r.list \ DOMAIN r.got
       /\ \A m \in DOMAIN r.list \ DOMAIN r.got : n <= m
       /\ IF b = Absent THEN Finish(w)
          ELSE job' = [job EXCEPT ![w].got =
                         [m \in DOMAIN r.got \cup {n} |-> IF m = n THEN b ELSE r.got[m]]]
  /\ UNCHANGED <<upload, parts, files, object, sweep, counters>>

AssembleRename(w) ==
  /\ Pc(w) = "assemble" /\ DOMAIN job[w].got = DOMAIN job[w].list
  /\ blob' = job[w].got
  /\ Goto(w, "publish")
  /\ UNCHANGED <<upload, parts, files, row, sweep, counters>>

CompletePublish(w) ==
  /\ Pc(w) = "publish"
  /\ row' = job[w].got
  /\ Goto(w, "forget")
  /\ UNCHANGED <<upload, parts, files, blob, sweep, counters>>

(* Deletes the upload row, and the part rows with it; fails if it is gone. *)
Forget(w) ==
  /\ Pc(w) \in {"forget", "delete"}
  /\ LET u == job[w].u IN
       IF Live(u)
       THEN /\ upload' = [upload EXCEPT ![u] = "gone"]
            /\ parts' = [parts EXCEPT ![u] = [n \in Parts |-> None]]
            /\ job' = [job EXCEPT ![w] = [pc |-> "rmdir", u |-> u]]
       ELSE Finish(w) /\ UNCHANGED <<upload, parts>>
  /\ UNCHANGED <<files, object, sweep, counters>>

(* Mutant: the request ends without removing the part files.               *)
DeleteUploadPartsNot(w) ==
  /\ Pc(w) = "rmdir"
  /\ Finish(w)
  /\ UNCHANGED <<upload, parts, files, object, sweep, counters>>

DeleteUploadParts(w) ==
  /\ Pc(w) = "rmdir"
  /\ files' = [files EXCEPT ![job[w].u] = [n \in Parts |-> NoFile]]
  /\ Finish(w)
  /\ UNCHANGED <<upload, parts, object, sweep, counters>>

----------------------------------------------------------------------------
(* AbortMultipartUpload: the upload row, then the same two deletions.      *)

AbortBegin(w, u) ==
  /\ Live(u)
  /\ Polite(Busy = {})
  /\ Start(w, [pc |-> "delete", u |-> u])
  /\ UNCHANGED <<client, upload, parts, files, object, sweep, crashes>>

----------------------------------------------------------------------------
(* The 24-hour sweep removes the files first and the row after them, one   *)
(* upload after the other, whatever requests are doing.                    *)

UploadAges(u) ==
  /\ upload[u] = "open"
  /\ upload' = [upload EXCEPT ![u] = "old"]
  /\ UNCHANGED <<parts, files, object, job, sweep, counters>>

(* Mutant: uploads of every age are selected.                              *)
SweepSelectAll ==
  /\ sweep = NoSweep /\ \E u \in Uploads : Live(u)
  /\ sweep' = [NoSweep EXCEPT !.todo = {u \in Uploads : Live(u)}]
  /\ UNCHANGED <<upload, parts, files, object, job, counters>>

(* Mutant: the age comparison is the wrong way round.                      *)
SweepSelectYoung ==
  /\ sweep = NoSweep /\ \E u \in Uploads : upload[u] = "open"
  /\ sweep' = [NoSweep EXCEPT !.todo = {u \in Uploads : upload[u] = "open"}]
  /\ UNCHANGED <<upload, parts, files, object, job, counters>>

SweepSelect ==
  /\ sweep = NoSweep /\ \E u \in Uploads : upload[u] = "old"
  /\ sweep' = [NoSweep EXCEPT !.todo = {u \in Uploads : upload[u] = "old"}]
  /\ UNCHANGED <<upload, parts, files, object, job, counters>>

SweepFiles(u) ==
  /\ sweep.row = {} /\ u \in sweep.todo
  /\ files' = [files EXCEPT ![u] = [n \in Parts |-> NoFile]]
  /\ sweep' = [todo |-> sweep.todo \ {u}, row |-> {u}]
  /\ UNCHANGED <<upload, parts, object, job, counters>>

SweepRow(u) ==
  /\ u \in sweep.row
  /\ upload' = [upload EXCEPT ![u] = IF Live(u) THEN "swept" ELSE @]
  /\ parts' = [parts EXCEPT ![u] = [n \in Parts |-> None]]
  /\ sweep' = [sweep EXCEPT !.row = {}]
  /\ UNCHANGED <<files, object, job, counters>>

(* The process dies and is restarted: half-written part files stay.        *)
Crash ==
  /\ crashes < MaxCrashes
  /\ crashes' = crashes + 1
  /\ files' = [u \in Uploads |-> [n \in Parts |->
                 [files[u][n] EXCEPT !.writers = {}, !.mixed = FALSE]]]
  /\ job' = [w \in Workers |-> Idle]
  /\ sweep' = NoSweep
  /\ UNCHANGED <<client, upload, parts, object, started>>

----------------------------------------------------------------------------

Init ==
  /\ polite \in BOOLEAN /\ declares \in BOOLEAN /\ (polite => declares)
  /\ upload = [u \in Uploads |-> "unused"]
  /\ parts = [u \in Uploads |-> [n \in Parts |-> None]]
  /\ files = [u \in Uploads |-> [n \in Parts |-> NoFile]]
  /\ row = <<>> /\ blob = <<>>
  /\ job = [w \in Workers |-> Idle]
  /\ sweep = NoSweep
  /\ started = 0 /\ crashes = 0

Begin(w) ==
  \E u \in Uploads :
    \/ \E n \in Parts, c \in Contents : UploadPart(w, u, n, c) \/ UploadPartCopy(w, u, n, c)
    \/ \E list \in Lists, createOnly \in BOOLEAN : CompleteBegin(w, u, list, createOnly)
    \/ AbortBegin(w, u)

Step(w) ==
  \/ PartLook(w) \/ PartQuota(w) \/ PartStored(w) \/ PartBodyFails(w)
  \/ PartVerify(w) \/ PartReject(w) \/ PartRecord(w)
  \/ CompleteMatch(w) \/ CompleteCheck(w) \/ CompleteQuota(w)
  \/ \E n \in Parts : AssemblePart(w, n)
  \/ AssembleRename(w) \/ CompletePublish(w)
  \/ Forget(w) \/ DeleteUploadParts(w)

Sweep == SweepSelect \/ \E u \in Uploads : SweepFiles(u) \/ SweepRow(u)

Next ==
  \/ \E u \in Uploads : CreateMultipartUpload(u) \/ UploadAges(u)
  \/ \E w \in Workers : Begin(w) \/ Step(w)
  \/ Sweep
  \/ Crash

Spec == Init /\ [][Next]_vars

(* The sweep's timer keeps firing and uploads get older; nothing is        *)
(* assumed of clients or of requests in flight.                            *)
FairSpec == Spec /\ WF_vars(Sweep) /\ \A u \in Uploads : WF_vars(UploadAges(u))

----------------------------------------------------------------------------
(* Properties.                                                             *)

(* Every variable holds the kind of value the code keeps there.            *)
TypeOK ==
  /\ polite \in BOOLEAN /\ declares \in BOOLEAN
  /\ upload \in [Uploads -> Status]
  /\ parts \in [Uploads -> [Parts -> Contents \cup {None}]]
  /\ files \in [Uploads -> [Parts -> File]]
  /\ row \in Assembly /\ blob \in Assembly
  /\ job \in [Workers -> {Idle} \cup PartJob \cup CompleteJob \cup CloseJob]
  /\ sweep \in [todo : SUBSET Uploads, row : SUBSET Uploads]
  /\ started \in Nat /\ crashes \in Nat

(* For polite clients, an acknowledged part is on disk, whole and verified,*)
(* from its acknowledgement until its upload is completed, aborted or      *)
(* older than a day, whatever crashes and sweeps come in between: part     *)
(* rows are written after part files, and the sweep takes only old uploads.*)
AcknowledgedPartKept ==
  polite => \A u \in Uploads, n \in Parts :
    upload[u] = "open" /\ parts[u][n] # None =>
      files[u][n].data = parts[u][n]
        \/ \E w \in Workers : Pc(w) = "rmdir" /\ job[w].u = u

(* For polite clients, the object a Complete publishes consists of exactly *)
(* the parts its list named, none torn, mixed or replaced, even when the   *)
(* sweep takes the upload away or the server dies while it assembles.      *)
PublishedAsListed ==
  [][\A w \in Workers : polite /\ CompletePublish(w) => row' = job[w].list]_vars

(* With declared lengths, no upload's recorded parts exceed the quota by   *)
(* more than one largest part for every other request in flight, whether   *)
(* clients are polite or not: parts that start together are each tested    *)
(* before any of them is recorded.                                         *)
MaxLen == CHOOSE n \in {Size[c] : c \in Contents} : \A c \in Contents : Size[c] <= n
PartsOvershootBounded ==
  declares /\ Quota > 0 => \A u \in Uploads :
    Used(parts[u]) <= Quota + (Cardinality(Workers) - 1) * MaxLen

(* For polite clients and without a crash, an upload that a Complete or an *)
(* Abort ended leaves no part file behind once the request is over.        *)
NoOrphanParts ==
  polite /\ crashes = 0 => \A u \in Uploads :
    upload[u] = "gone" /\ On(u) = {} => \A n \in Parts : files[u][n] = NoFile

(* Every upload ends: what no client completes or aborts, the sweep does.  *)
UploadsEnd == \A u \in Uploads : Live(u) ~> ~Live(u)

=============================================================================
