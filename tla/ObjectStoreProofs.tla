------------------------- MODULE ObjectStoreProofs -------------------------
(***************************************************************************)
(* Proofs about ObjectStore and DisciplinedStore, for every value of their *)
(* constants.  First types and the safety invariants that hold whatever    *)
(* runs at the same time, and among them the bound on what concurrent      *)
(* writers exceed the quota by.  Then the discipline: as long as requests  *)
(* for one key do not overlap, no body is rejected after it was stored,    *)
(* and the process does not die, files and rows agree, preconditions hold  *)
(* when the write is committed, and the store implements AtomicStore.      *)
(***************************************************************************)
EXTENDS DisciplinedStore, Counting, TLAPS

WritePcs == {"quota", "stream", "verify", "reject", "dest", "read", "rename",
             "truncate", "fill", "commit"}

(* The shape of a request follows from its pc.                              *)
LEMMA RequestShape ==
  ASSUME TypeOK, NEW w \in Workers
  PROVE  /\ Pc(w) \in WritePcs => req[w] \in WriteReq
         /\ Pc(w) = "open" => req[w] \in ReadReq
         /\ Pc(w) = "tag" => req[w] \in TagReq
         /\ Pc(w) \in {"unlink", "purge"} =>
              req[w] \in [pc : {"unlink", "purge"}, todo : SUBSET Victim]
         /\ Pc(w) = "rmrow" =>
              req[w] \in [pc : {"rmrow"}, victim : Victim, todo : SUBSET Victim]
         /\ Pc(w) = "idle" => req[w] = Idle
  BY DEF TypeOK, Pc, WritePcs, WriteReq, ReadReq, TagReq, DeleteReq, Idle

(* What the helpers that change one file or one request leave behind.       *)
LEMMA ReplaceType ==
  ASSUME TypeOK, NEW k \in Keys, NEW bytes \in Bytes, Replace(k, bytes)
  PROVE  blobs' \in [Keys -> Blob]
  BY DEF TypeOK, Replace, Blob

LEMMA UnlinkType ==
  ASSUME TypeOK, NEW k \in Keys, Unlink(k)
  PROVE  blobs' \in [Keys -> Blob]
  BY DEF TypeOK, Unlink, Blob, NoBlob, Bytes

Request == {Idle} \cup WriteReq \cup ReadReq \cup TagReq \cup DeleteReq

LEMMA StartType ==
  ASSUME TypeOK, NEW w \in Workers, NEW op, NEW r \in Request, Start(w, op, r)
  PROVE  req' \in [Workers -> Request] /\ started' \in Nat
  BY DEF TypeOK, Start, Request

LEMMA FinishType ==
  ASSUME TypeOK, NEW w \in Workers, Finish(w)
  PROVE  req' \in [Workers -> Request]
  BY DEF TypeOK, Finish, Request

LEMMA GotoType ==
  ASSUME TypeOK, NEW w \in Workers, Pc(w) \in WritePcs,
         NEW label \in WritePcs, Goto(w, label)
  PROVE  req' \in [Workers -> Request]
  <1>1. req[w] \in WriteReq
    BY RequestShape
  <1>2. [req[w] EXCEPT !.pc = label] \in WriteReq
    BY <1>1 DEF WriteReq, WritePcs
  <1>3. QED
    BY <1>2 DEF TypeOK, Goto, Request

(* Opening, dropping and renaming a .tmp- file.                             *)
LEMMA OpenTmpType ==
  ASSUME TypeOK, NEW w \in Workers, Pc(w) \in WritePcs,
         NEW label \in {"stream", "rename"}, NEW bytes \in Bytes, OpenTmp(w, label, bytes)
  PROVE  req' \in [Workers -> Request]
  <1>1. req[w] \in WriteReq
    BY RequestShape
  <1>2. PICK v \in {w} \cup {u \in Workers : SameMs /\ HasTmp(u, req[w].key)} :
          req' = [req EXCEPT ![w].pc = label, ![w].bytes = bytes, ![w].tmp = req[v].tmp]
    BY DEF OpenTmp
  <1>3. req[v] \in WriteReq
    BY <1>1, <1>2, RequestShape DEF HasTmp, WritePcs
  <1>4. [req[w] EXCEPT !.pc = label, !.bytes = bytes, !.tmp = req[v].tmp] \in WriteReq
    BY <1>1, <1>3 DEF WriteReq
  <1>5. QED
    BY <1>2, <1>4 DEF TypeOK, Request

LEMMA RenameTmpType ==
  ASSUME TypeOK, NEW w \in Workers, HasTmp(w, req[w].key),
         NEW label \in {"verify", "commit"}, RenameTmp(w, label)
  PROVE  blobs' \in [Keys -> Blob] /\ req' \in [Workers -> Request]
  <1>1. req[w] \in WriteReq
    BY RequestShape DEF HasTmp, WritePcs
  <1>2. \A v \in Sharers(w) : req[v] \in WriteReq
    BY RequestShape DEF Sharers, HasTmp, WritePcs
  <1>3. PICK bytes \in IF Sharers(w) = {w} THEN {req[w].bytes}
                       ELSE {req[v].bytes : v \in Sharers(w)} \cup {Torn} :
          Replace(req[w].key, bytes)
    BY DEF RenameTmp
  <1>4. bytes \in Bytes /\ req[w].key \in Keys
    BY <1>1, <1>2, <1>3 DEF WriteReq, Bytes
  <1>5. [req[w] EXCEPT !.pc = label, !.tmp = w] \in WriteReq
    BY <1>1 DEF WriteReq
  <1>6. req' \in [Workers -> Request]
    BY <1>5 DEF RenameTmp, TypeOK, Request
  <1>7. QED
    BY <1>3, <1>4, <1>6, ReplaceType

LEMMA DropTmpType ==
  ASSUME TypeOK, NEW w \in Workers, DropTmp(w)
  PROVE  req' \in [Workers -> Request]
  BY DEF TypeOK, DropTmp, Request

----------------------------------------------------------------------------
(* Type correctness.                                                        *)

LEMMA WritingType ==
  ASSUME TypeOK, NEW w \in Workers, NEW op \in {"put", "copy", "upload"}, NEW k \in Keys, NEW s \in Keys,
         NEW c \in Contents, NEW cond \in AllConds, NEW declared \in BOOLEAN
  PROVE  Writing(w, op, k, s, c, cond, declared) \in WriteReq
  <1>1. rows[k].etag \in Contents \cup {None}
    BY DEF TypeOK, NoRow, Row
  <1>2. QED
    BY <1>1 DEF Writing, WriteReq, Bytes

LEMMA VictimType ==
  ASSUME TypeOK, NEW k \in Keys, Live(k)
  PROVE  VictimOf(k) \in Victim
  BY DEF TypeOK, VictimOf, Victim, Live, Row

LEMMA BeginType ==
  ASSUME TypeOK, NEW w \in Workers, Begin(w)
  PROVE  TypeOK'
  <1> DEFINE Effect == /\ req' \in [Workers -> Request] /\ started' \in Nat
                       /\ bucket' \in BOOLEAN
                       /\ UNCHANGED <<rows, blobs, litter, nextId, reply, crashes>>
  <1>1. Effect
    <2>1. ASSUME NEW k \in Keys, NEW c \in Contents, NEW cond \in Conds,
                 NEW declared \in Declared, PutBegin(w, k, c, cond, declared)
          PROVE  Effect
      BY <2>1, WritingType, StartType, CondsAssumption, DeclaredAssumption
         DEF PutBegin, Request, store, TypeOK
    <2>2. ASSUME NEW s \in Keys, NEW k \in Keys, NEW cond \in Conds,
                 CopyBegin(w, s, k, cond)
          PROVE  Effect
      <3>1. rows[s] \in Row
        BY <2>2 DEF CopyBegin, Live, TypeOK
      <3> DEFINE r == Writing(w, "copy", k, s, rows[s].etag, cond, TRUE)
      <3>2. r \in WriteReq
        BY <3>1, WritingType, CondsAssumption DEF Row
      <3>3. [r EXCEPT !.pc = "dest", !.crc = rows[s].crc, !.bytes = Absent,
                      !.seen = None] \in WriteReq
        BY <3>1, <3>2 DEF Row, WriteReq, Bytes
      <3>4. QED
        BY <2>2, <3>3, StartType DEF CopyBegin, Request, store, TypeOK
    <2>3. ASSUME NEW k \in Keys, NEW c \in Contents, UploadBegin(w, k, c)
          PROVE  Effect
      <3>1. [kind |-> "none", tag |-> None] \in AllConds
        BY DEF AllConds
      <3>2. QED
        BY <2>3, <3>1, WritingType, StartType DEF UploadBegin, Request, store, TypeOK
    <2>4. ASSUME NEW k \in Keys, TagBegin(w, k)
          PROVE  Effect
      BY <2>4, VictimType, StartType DEF TagBegin, TagReq, Request, store, TypeOK
    <2>5. ASSUME NEW op, NEW S \in SUBSET Keys, DeleteBegin(w, op, S)
          PROVE  Effect
      BY <2>5, VictimType, StartType DEF DeleteBegin, DeleteReq, Request, store, TypeOK
    <2>6. CASE DropBegin(w)
      BY <2>6, VictimType, StartType DEF DropBegin, DeleteReq, Request, store, TypeOK
    <2>7. CASE MakeBucket(w)
      BY <2>7, StartType DEF MakeBucket, Request
    <2>8. ASSUME NEW k \in Keys, GetBegin(w, k)
          PROVE  Effect
      <3>1. rows[k] \in Row
        BY <2>8 DEF GetBegin, Live, TypeOK
      <3>2. [pc |-> "open", key |-> k, etag |-> rows[k].etag] \in Request
        BY <3>1 DEF Row, ReadReq, Request
      <3>3. QED
        BY <2>8, <3>2, StartType DEF GetBegin, store, TypeOK
    <2>9. ASSUME NEW k \in Keys, DeleteObject(w, k)
          PROVE  Effect
      BY <2>9, <2>5, {k} \in SUBSET Keys DEF DeleteObject
    <2>10. ASSUME NEW S \in SUBSET Keys, DeleteObjects(w, S)
           PROVE  Effect
      BY <2>10, <2>5 DEF DeleteObjects
    <2>11. CASE SweepExpiredObjects(w)
      BY <2>11, VictimType, StartType
         DEF SweepExpiredObjects, DeleteBegin, DeleteReq, Request, store, TypeOK
    <2>12. QED
      <3> HIDE DEF Effect
      <3>1. QED
        BY <2>1, <2>2, <2>3, <2>4, <2>6, <2>7, <2>8, <2>9, <2>10, <2>11 DEF Begin
  <1>2. QED
    BY <1>1 DEF TypeOK, Request

(* Changing a row's age keeps it a row.                                     *)
LEMMA RowRefreshType ==
  ASSUME TypeOK, NEW k \in Keys, NEW old \in BOOLEAN, Live(k)
  PROVE  [rows EXCEPT ![k].old = old] \in [Keys -> {NoRow} \cup Row]
  <1>1. [rows[k] EXCEPT !.old = old] \in Row
    BY DEF TypeOK, Live, Row
  <1>2. QED
    BY <1>1 DEF TypeOK

LEMMA StepType ==
  ASSUME TypeOK, NEW w \in Workers, Step(w)
  PROVE  TypeOK'
  <1> USE RequestShape DEF WritePcs
  <1>1. CASE PutQuota(w)
    <2>1. req[w].bytes \in Bytes
      BY <1>1 DEF PutQuota, WriteReq
    <2>2. QED
      BY <1>1, <2>1, FinishType, OpenTmpType DEF PutQuota, store, TypeOK, Request
  <1>2. CASE PutBodyFails(w)
    BY <1>2, DropTmpType DEF PutBodyFails, store, TypeOK, Request
  <1>3. CASE PutRename(w)
    BY <1>3, RenameTmpType DEF PutRename, HasTmp, TypeOK, Request
  <1>4. CASE PutVerify(w)
    BY <1>4, GotoType DEF PutVerify, store, TypeOK, Request
  <1>5. CASE PutReject(w)
    <2>1. req[w].key \in Keys
      BY <1>5 DEF PutReject, WriteReq
    <2>2. QED
      BY <1>5, <2>1, UnlinkType, FinishType DEF PutReject, TypeOK, Request
  <1>6. CASE CopyDest(w)
    <2>1. rows[req[w].key].etag \in Contents \cup {None}
      BY <1>6 DEF CopyDest, WriteReq, TypeOK, NoRow, Row
    <2>2. [req[w] EXCEPT !.pc = "quota", !.seen = rows[req[w].key].etag] \in WriteReq
      BY <1>6, <2>1 DEF CopyDest, WriteReq
    <2>3. QED
      BY <1>6, <2>2, FinishType DEF CopyDest, store, TypeOK, Request
  <1>7. CASE CopyQuota(w)
    BY <1>7, FinishType, GotoType DEF CopyQuota, store, TypeOK, Request
  <1>8. CASE CopyRead(w)
    <2>1. blobs[req[w].src].data \in Bytes
      BY <1>8 DEF CopyRead, WriteReq, TypeOK, Blob
    <2>2. QED
      BY <1>8, <2>1, FinishType, OpenTmpType DEF CopyRead, store, TypeOK, Request
  <1>9. CASE CopyRename(w)
    BY <1>9, RenameTmpType DEF CopyRename, HasTmp, TypeOK, Request
  <1>10. CASE UploadQuota(w)
    BY <1>10, FinishType, GotoType DEF UploadQuota, store, TypeOK, Request
  <1>11. CASE UploadTruncate(w)
    <2>1. req[w].key \in Keys
      BY <1>11 DEF UploadTruncate, WriteReq
    <2>2. blobs' \in [Keys -> Blob]
      BY <1>11, <2>1 DEF UploadTruncate, TypeOK, Blob, Bytes
    <2>3. QED
      BY <1>11, <2>2, GotoType DEF UploadTruncate, TypeOK, Request
  <1>12. CASE UploadFill(w)
    <2>1. req[w].key \in Keys /\ req[w].content \in Contents
      BY <1>12 DEF UploadFill, WriteReq
    <2>2. ASSUME NEW bytes \in Bytes, NEW open \in SUBSET Workers
          PROVE  [blobs EXCEPT ![req[w].key] = [data |-> bytes, open |-> open]]
                   \in [Keys -> Blob]
      BY <2>1 DEF TypeOK, Blob
    <2>3. blobs[req[w].key] \in Blob
      BY <2>1 DEF TypeOK
    <2>4. blobs[req[w].key].open \ {w} \in SUBSET Workers
      BY <2>3 DEF Blob
    <2>5. req[w].content \in Bytes /\ Torn \in Bytes
      BY <2>1 DEF Bytes
    <2>6. blobs' \in [Keys -> Blob]
      <3>1. CASE w \in blobs[req[w].key].open
        <4>1. PICK data \in {req[w].content, Torn} :
                blobs' = [blobs EXCEPT ![req[w].key] =
                            [data |-> data, open |-> blobs[req[w].key].open \ {w}]]
          BY <1>12, <3>1 DEF UploadFill
        <4>2. QED
          BY <2>2, <2>4, <2>5, <4>1
      <3>2. CASE w \notin blobs[req[w].key].open
        BY <1>12, <3>2 DEF UploadFill, TypeOK
      <3>3. QED
        BY <3>1, <3>2
    <2>7. QED
      BY <1>12, <2>6, GotoType DEF UploadFill, TypeOK, Request
  <1>13. CASE CommitRow(w)
    <2>1. /\ req[w].key \in Keys /\ req[w].content \in Contents
          /\ req[w].crc \in Contents \cup {None}
      BY <1>13 DEF CommitRow, WriteReq
    <2> DEFINE before == rows[req[w].key]
               crc == IF req[w].op = "upload" THEN before.crc ELSE req[w].crc
               id == IF before = NoRow THEN nextId ELSE before.id
               row == [id |-> id, etag |-> req[w].content, crc |-> crc, old |-> FALSE]
    <2>2. before = NoRow \/ before \in Row
      BY <2>1 DEF TypeOK
    <2>3. crc \in Contents \cup {None} /\ id \in Nat \ {0}
      <3>1. before.crc \in Contents \cup {None}
        BY <2>2 DEF NoRow, Row
      <3>2. before # NoRow => before.id \in Nat \ {0}
        BY <2>2 DEF Row
      <3>3. nextId \in Nat \ {0}
        BY DEF TypeOK
      <3>4. QED
        BY <2>1, <3>1, <3>2, <3>3
    <2>4. row \in Row
      BY <2>1, <2>3 DEF Row
    <2>5. rows' = rows \/ rows' = [rows EXCEPT ![req[w].key] = row]
      BY <1>13 DEF CommitRow
    <2>6. rows' \in [Keys -> {NoRow} \cup Row]
      BY <2>4, <2>5 DEF TypeOK
    <2>7. nextId' \in Nat \ {0}
      BY <1>13 DEF CommitRow, TypeOK
    <2>8. QED
      BY <1>13, <2>6, <2>7, FinishType DEF CommitRow, TypeOK, Request
  <1>14. CASE TagUpdate(w)
    <2>1. req[w].victim \in Victim
      BY <1>14 DEF TagUpdate, TagReq
    <2>2. rows' \in [Keys -> {NoRow} \cup Row]
      <3>1. CASE rows[req[w].victim.key].id = req[w].victim.id
        <4>1. req[w].victim.key \in Keys /\ Live(req[w].victim.key)
          BY <2>1, <3>1 DEF Victim, Live, NoRow
        <4>2. QED
          BY <1>14, <3>1, <4>1, RowRefreshType DEF TagUpdate
      <3>2. QED
        BY <1>14, <3>1 DEF TagUpdate, TypeOK
    <2>3. QED
      BY <1>14, <2>2, FinishType DEF TagUpdate, TypeOK, Request
  <1>15. CASE UnlinkVictim(w)
    <2>1. req[w] \in [pc : {"unlink", "purge"}, todo : SUBSET Victim]
      BY <1>15 DEF UnlinkVictim
    <2>2. PICK v \in req[w].todo :
            /\ Unlink(v.key)
            /\ req' = [req EXCEPT ![w] = [pc |-> "rmrow", victim |-> v,
                                          todo |-> req[w].todo \ {v}]]
      BY <1>15 DEF UnlinkVictim
    <2>3. v \in Victim /\ v.key \in Keys
      BY <2>1 DEF Victim
    <2>4. [pc |-> "rmrow", victim |-> v, todo |-> req[w].todo \ {v}] \in DeleteReq
      BY <2>1, <2>3 DEF DeleteReq
    <2>5. QED
      BY <1>15, <2>2, <2>3, <2>4, UnlinkType DEF UnlinkVictim, TypeOK
  <1>16. CASE DeleteRow(w)
    <2>1. req[w] \in [pc : {"rmrow"}, victim : Victim, todo : SUBSET Victim]
      BY <1>16 DEF DeleteRow
    <2>2. rows' \in [Keys -> {NoRow} \cup Row]
      BY <1>16, <2>1 DEF DeleteRow, TypeOK, Victim
    <2>3. [pc |-> "unlink", todo |-> req[w].todo] \in DeleteReq
      BY <2>1 DEF DeleteReq
    <2>4. QED
      BY <1>16, <2>2, <2>3 DEF DeleteRow, TypeOK
  <1>17. CASE DropUnlink(w)
    <2>1. req[w] \in [pc : {"unlink", "purge"}, todo : SUBSET Victim]
      BY <1>17 DEF DropUnlink
    <2>2. PICK v \in req[w].todo :
            /\ Unlink(v.key)
            /\ req' = [req EXCEPT ![w].todo = @ \ {v}]
      BY <1>17 DEF DropUnlink
    <2>3. v.key \in Keys
      BY <2>1 DEF Victim
    <2>4. [req[w] EXCEPT !.todo = @ \ {v}] \in DeleteReq
      BY <2>1 DEF DeleteReq
    <2>5. QED
      BY <1>17, <2>2, <2>3, <2>4, UnlinkType DEF DropUnlink, TypeOK
  <1>18. CASE DropCascade(w)
    BY <1>18, FinishType DEF DropCascade, TypeOK, Request
  <1>19. CASE GetOpen(w)
    <2>1. req[w].key \in Keys /\ req[w].etag \in Contents
      BY <1>19 DEF GetOpen, ReadReq
    <2>2. reply' \in [etag : Contents \cup {None}, body : Bytes]
      BY <1>19, <2>1 DEF GetOpen, TypeOK, Blob
    <2>3. QED
      BY <1>19, <2>2, FinishType DEF GetOpen, store, TypeOK, Request
  <1>20. QED
    BY <1>1, <1>2, <1>3, <1>4, <1>5, <1>6, <1>7, <1>8, <1>9, <1>10, <1>11, <1>12,
       <1>13, <1>14, <1>15, <1>16, <1>17, <1>18, <1>19 DEF Step

LEMMA EnvironmentType ==
  ASSUME TypeOK, Environment
  PROVE  TypeOK'
  <1>1. ASSUME NEW k \in Keys, Age(k) \/ LitterAges(k)
        PROVE  TypeOK'
    <2>1. CASE Age(k)
      BY <2>1, RowRefreshType DEF Age, Live, TypeOK
    <2>2. CASE LitterAges(k)
      BY <2>2 DEF LitterAges, TypeOK
    <2>3. QED
      BY <1>1, <2>1, <2>2
  <1>2. CASE SweepTmpFiles
    BY <1>2 DEF SweepTmpFiles, TypeOK
  <1>3. CASE Crash
    BY <1>3, BoundsAssumption DEF Crash, TypeOK, Blob
  <1>4. QED
    BY <1>1, <1>2, <1>3 DEF Environment

(* Every variable always holds a value of its type.                         *)
THEOREM TypeCorrect == Spec => []TypeOK
  <1>1. Init => TypeOK
    BY DEF Init, TypeOK, NoBlob, Blob, Bytes, NoReply, Idle
  <1>2. TypeOK /\ [Next]_vars => TypeOK'
    <2>1. ASSUME TypeOK, UNCHANGED vars
          PROVE  TypeOK'
      BY <2>1 DEF vars, TypeOK
    <2>2. QED
      BY <2>1, BeginType, StepType, EnvironmentType DEF Next
  <1>3. QED
    BY <1>1, <1>2, PTL DEF Spec

----------------------------------------------------------------------------
(* Rows name only payloads that passed their checks, with their checksums.  *)

(* A request that will write a row: a copy repeats the row of its source,   *)
(* whose payload was verified; a PUT reaches "commit" through its checks.   *)
Verified(r) ==
  r.pc \in WritePcs =>
    /\ r.op \in {"put", "copy"} /\ r.pc \notin {"truncate", "fill"}
    /\ r.crc \in {None, r.content}
    /\ r.pc \in {"read", "rename"} => r.op = "copy"
    /\ r.op = "copy" \/ r.pc = "commit" => r.content \notin Corrupt

VerifiedRows == RowsVerified /\ ChecksumOfContent
VerifiedInv == VerifiedRows /\ \A w \in Workers : Verified(req[w])

LEMMA VerifiedBegin ==
  ASSUME TypeOK, VerifiedInv, "upload" \notin Ops, NEW w \in Workers, Begin(w)
  PROVE  VerifiedInv'
  <1> DEFINE Effect == rows' = rows /\ \A v \in Workers : Verified(req'[v])
  <1>1. ASSUME NEW op, NEW r, Start(w, op, r), Verified(r)
        PROVE  \A v \in Workers : Verified(req'[v])
    BY <1>1 DEF Start, VerifiedInv, TypeOK
  <1>2. Effect
    <2>1. ASSUME NEW k \in Keys, NEW c \in Contents, NEW cond \in Conds,
                 NEW declared \in Declared, PutBegin(w, k, c, cond, declared)
          PROVE  Effect
      <3>1. Verified(Writing(w, "put", k, k, c, cond, declared))
        BY DEF Verified, Writing
      <3>2. QED
        BY <1>1, <2>1, <3>1 DEF PutBegin, store
    <2>2. ASSUME NEW s \in Keys, NEW k \in Keys, NEW cond \in Conds,
                 CopyBegin(w, s, k, cond)
          PROVE  Effect
      <3> DEFINE r == [Writing(w, "copy", k, s, rows[s].etag, cond, TRUE) EXCEPT
                         !.pc = "dest", !.crc = rows[s].crc, !.bytes = Absent,
                         !.seen = None]
      <3>1. /\ r.op = "copy" /\ r.pc = "dest"
            /\ r.crc = rows[s].crc /\ r.content = rows[s].etag
        BY DEF Writing
      <3>2. rows[s].etag \notin Corrupt /\ rows[s].crc \in {None, rows[s].etag}
        BY DEF VerifiedInv, VerifiedRows, RowsVerified, ChecksumOfContent
      <3>3. Verified(r)
        BY <3>1, <3>2 DEF Verified
      <3>4. QED
        BY <1>1, <2>2, <3>3 DEF CopyBegin, store
    <2>3. ASSUME NEW k \in Keys, NEW c \in Contents, UploadBegin(w, k, c)
          PROVE  FALSE
      BY <2>3 DEF UploadBegin, Start
    <2>4. ASSUME NEW k \in Keys, TagBegin(w, k)
          PROVE  Effect
      BY <1>1, <2>4 DEF TagBegin, Verified, WritePcs, store
    <2>5. ASSUME NEW op, NEW S, DeleteBegin(w, op, S)
          PROVE  Effect
      BY <1>1, <2>5 DEF DeleteBegin, Verified, WritePcs, store
    <2>6. CASE DropBegin(w)
      BY <1>1, <2>6 DEF DropBegin, Verified, WritePcs, store
    <2>7. CASE MakeBucket(w)
      BY <1>1, <2>7 DEF MakeBucket, Verified, WritePcs, Idle
    <2>8. ASSUME NEW k \in Keys, GetBegin(w, k)
          PROVE  Effect
      BY <1>1, <2>8 DEF GetBegin, Verified, WritePcs, store
    <2>9. QED
      <3>1. ASSUME NEW k \in Keys, DeleteObject(w, k)
            PROVE  Effect
        BY <2>5, <3>1 DEF DeleteObject
      <3>2. ASSUME NEW S \in SUBSET Keys, DeleteObjects(w, S)
            PROVE  Effect
        BY <2>5, <3>2 DEF DeleteObjects
      <3>3. CASE SweepExpiredObjects(w)
        BY <2>5, <3>3 DEF SweepExpiredObjects
      <3> HIDE DEF Effect
      <3>4. QED
        BY <2>1, <2>2, <2>3, <2>4, <2>6, <2>7, <2>8, <3>1, <3>2, <3>3 DEF Begin
  <1>3. QED
    BY <1>2 DEF VerifiedInv, VerifiedRows, RowsVerified, ChecksumOfContent

(* The helpers that end requests or move one on.                            *)
LEMMA VerifiedEnd ==
  ASSUME TypeOK, VerifiedInv, NEW w \in Workers, Finish(w) \/ DropTmp(w)
  PROVE  \A v \in Workers : Verified(req'[v])
  <1>1. Verified(Idle)
    BY DEF Verified, Idle, WritePcs
  <1>2. QED
    BY <1>1 DEF Finish, DropTmp, TypeOK, VerifiedInv

LEMMA VerifiedMove ==
  ASSUME TypeOK, VerifiedInv, NEW w \in Workers, NEW r, Verified(r),
         req' = [req EXCEPT ![w] = r]
  PROVE  \A v \in Workers : Verified(req'[v])
  BY DEF TypeOK, VerifiedInv

LEMMA VerifiedRename ==
  ASSUME TypeOK, VerifiedInv, NEW w \in Workers, Pc(w) \in WritePcs,
         NEW label \in {"verify", "commit"}, RenameTmp(w, label),
         label = "commit" => req[w].op = "copy"
  PROVE  \A v \in Workers : Verified(req'[v])
  <1>1. req[w] \in WriteReq /\ Verified(req[w])
    BY RequestShape DEF VerifiedInv
  <1>2. Verified([req[w] EXCEPT !.pc = label, !.tmp = w])
    BY <1>1 DEF Verified, WriteReq, WritePcs, Pc
  <1>3. Verified(Idle)
    BY DEF Verified, Idle, WritePcs
  <1>4. QED
    BY <1>2, <1>3 DEF RenameTmp, VerifiedInv

LEMMA VerifiedOpen ==
  ASSUME TypeOK, VerifiedInv, NEW w \in Workers, Pc(w) \in WritePcs, NEW bytes,
         NEW label \in {"stream", "rename"}, OpenTmp(w, label, bytes),
         label = "rename" => req[w].op = "copy"
  PROVE  \A v \in Workers : Verified(req'[v])
  <1>1. req[w] \in WriteReq /\ Verified(req[w])
    BY RequestShape DEF VerifiedInv
  <1>2. PICK tmp :
          req' = [req EXCEPT ![w].pc = label, ![w].bytes = bytes, ![w].tmp = tmp]
    BY DEF OpenTmp
  <1>3. Verified([req[w] EXCEPT !.pc = label, !.bytes = bytes, !.tmp = tmp])
    BY <1>1 DEF Verified, WriteReq, WritePcs, Pc
  <1>4. QED
    BY <1>2, <1>3 DEF TypeOK, VerifiedInv

LEMMA VerifiedStep ==
  ASSUME TypeOK, VerifiedInv, NEW w \in Workers, Step(w)
  PROVE  VerifiedInv'
  <1> DEFINE Reqs == \A v \in Workers : Verified(req'[v])
  <1> USE RequestShape DEF WritePcs
  <1>1. Verified(req[w])
    BY DEF VerifiedInv
  <1>2. ASSUME NEW label \in WritePcs, Pc(w) \in WritePcs, Goto(w, label),
               label \notin {"truncate", "fill", "rename"},
               label = "read" => req[w].op = "copy",
               label = "commit" => req[w].op = "copy" \/ req[w].content \notin Corrupt
        PROVE  Reqs
    <2>1. Verified([req[w] EXCEPT !.pc = label])
      BY <1>1, <1>2 DEF Verified, WriteReq, Pc
    <2>2. QED
      BY <1>2, <2>1, VerifiedMove DEF Goto
  <1>3. CASE PutQuota(w)
    BY <1>3, VerifiedEnd, VerifiedOpen DEF PutQuota, store, VerifiedInv, VerifiedRows,
       RowsVerified, ChecksumOfContent
  <1>4. CASE PutBodyFails(w)
    BY <1>4, VerifiedEnd DEF PutBodyFails, store, VerifiedInv, VerifiedRows,
       RowsVerified, ChecksumOfContent
  <1>5. CASE PutRename(w)
    BY <1>5, VerifiedRename DEF PutRename, VerifiedInv, VerifiedRows, RowsVerified,
       ChecksumOfContent
  <1>6. CASE PutVerify(w)
    <2>1. Reqs
      BY <1>2, <1>6 DEF PutVerify
    <2>2. QED
      BY <1>6, <2>1 DEF PutVerify, store, VerifiedInv, VerifiedRows, RowsVerified,
         ChecksumOfContent
  <1>7. CASE PutReject(w)
    BY <1>7, VerifiedEnd DEF PutReject, VerifiedInv, VerifiedRows, RowsVerified,
       ChecksumOfContent
  <1>8. CASE CopyDest(w)
    <2> DEFINE r == [req[w] EXCEPT !.pc = "quota", !.seen = rows[req[w].key].etag]
    <2>1. Verified(r)
      BY <1>1, <1>8 DEF CopyDest, Verified, WriteReq, Pc
    <2>2. req' = [req EXCEPT ![w] = r] \/ Finish(w)
      BY <1>8 DEF CopyDest, TypeOK
    <2>3. Reqs
      <3> HIDE DEF r
      <3>1. QED
        BY <2>1, <2>2, VerifiedEnd, VerifiedMove
    <2>4. QED
      BY <1>8, <2>3 DEF CopyDest, store, VerifiedInv, VerifiedRows, RowsVerified,
         ChecksumOfContent
  <1>9. CASE CopyQuota(w)
    <2>1. Reqs
      BY <1>2, <1>9, VerifiedEnd DEF CopyQuota
    <2>2. QED
      BY <1>9, <2>1 DEF CopyQuota, store, VerifiedInv, VerifiedRows, RowsVerified,
         ChecksumOfContent
  <1>10. CASE CopyRead(w)
    <2>1. Reqs
      BY <1>1, <1>10, VerifiedEnd, VerifiedOpen DEF CopyRead, Verified, Pc
    <2>2. QED
      BY <1>10, <2>1 DEF CopyRead, store, VerifiedInv, VerifiedRows, RowsVerified,
         ChecksumOfContent
  <1>11. CASE CopyRename(w)
    BY <1>1, <1>11, VerifiedRename DEF CopyRename, VerifiedInv, VerifiedRows,
       RowsVerified, ChecksumOfContent, Verified, Pc
  <1>12. CASE UploadQuota(w) \/ UploadTruncate(w) \/ UploadFill(w)
    BY <1>1, <1>12 DEF UploadQuota, UploadTruncate, UploadFill, Verified, Pc
  <1>13. CASE CommitRow(w)
    <2>1. /\ req[w].content \notin Corrupt
          /\ req[w].crc \in {None, req[w].content}
          /\ req[w].op # "upload"
      BY <1>1, <1>13 DEF CommitRow, Verified, Pc
    <2>2. \A k \in Keys : \/ rows'[k] = rows[k]
                         \/ /\ rows'[k].etag = req[w].content
                            /\ rows'[k].crc = req[w].crc
      BY <1>13, <2>1 DEF CommitRow, TypeOK
    <2>3. VerifiedRows'
      BY <2>1, <2>2 DEF VerifiedInv, VerifiedRows, RowsVerified, ChecksumOfContent
    <2>4. QED
      BY <1>13, <2>3, VerifiedEnd DEF CommitRow, VerifiedInv
  <1>14. CASE TagUpdate(w)
    <2>1. VerifiedRows'
      BY <1>14 DEF TagUpdate, VerifiedInv, VerifiedRows, RowsVerified, ChecksumOfContent,
         TypeOK, NoRow, Row
    <2>2. QED
      BY <1>14, <2>1, VerifiedEnd DEF TagUpdate, VerifiedInv
  <1>15. CASE UnlinkVictim(w)
    <2>1. Reqs
      BY <1>15, VerifiedMove DEF UnlinkVictim, Verified
    <2>2. QED
      BY <1>15, <2>1 DEF UnlinkVictim, VerifiedInv, VerifiedRows, RowsVerified,
         ChecksumOfContent
  <1>16. VerifiedRows /\ (\A k \in Keys : rows'[k] \in {rows[k], NoRow}) => VerifiedRows'
    BY CorruptAssumption, MarkerAssumption
       DEF VerifiedRows, RowsVerified, ChecksumOfContent, NoRow
  <1>17. CASE DeleteRow(w)
    <2>1. \A k \in Keys : rows'[k] \in {rows[k], NoRow}
      BY <1>17 DEF DeleteRow, TypeOK
    <2>2. Reqs
      BY <1>17, VerifiedMove DEF DeleteRow, Verified, Idle
    <2>3. QED
      BY <1>16, <2>1, <2>2 DEF VerifiedInv
  <1>18. CASE DropUnlink(w)
    <2>1. PICK todo : req' = [req EXCEPT ![w] = [req[w] EXCEPT !.todo = todo]]
      BY <1>18 DEF DropUnlink, TypeOK
    <2>2. [req[w] EXCEPT !.todo = todo].pc = "purge"
      BY <1>18 DEF DropUnlink, Pc
    <2>3. Reqs
      BY <2>1, <2>2, VerifiedMove DEF Verified
    <2>4. QED
      BY <1>18, <2>3 DEF DropUnlink, VerifiedInv, VerifiedRows, RowsVerified,
         ChecksumOfContent
  <1>19. CASE DropCascade(w)
    BY <1>16, <1>19, VerifiedEnd DEF DropCascade, VerifiedInv
  <1>20. CASE GetOpen(w)
    BY <1>20, VerifiedEnd DEF GetOpen, store, VerifiedInv, VerifiedRows, RowsVerified,
       ChecksumOfContent
  <1>21. QED
    BY <1>3, <1>4, <1>5, <1>6, <1>7, <1>8, <1>9, <1>10, <1>11, <1>12, <1>13, <1>14,
       <1>15, <1>17, <1>18, <1>19, <1>20 DEF Step

LEMMA VerifiedEnvironment ==
  ASSUME TypeOK, VerifiedInv, Environment
  PROVE  VerifiedInv'
  <1>1. ASSUME NEW k \in Keys, Age(k) \/ LitterAges(k)
        PROVE  VerifiedInv'
    <2>1. \A j \in Keys : rows'[j].etag = rows[j].etag /\ rows'[j].crc = rows[j].crc
      BY <1>1 DEF Age, LitterAges, TypeOK, NoRow, Row
    <2>2. req' = req
      BY <1>1 DEF Age, LitterAges
    <2>3. QED
      BY <2>1, <2>2 DEF VerifiedInv, VerifiedRows, RowsVerified, ChecksumOfContent
  <1>2. CASE SweepTmpFiles
    BY <1>2 DEF SweepTmpFiles, VerifiedInv, VerifiedRows, RowsVerified, ChecksumOfContent
  <1>3. CASE Crash
    BY <1>3 DEF Crash, VerifiedInv, VerifiedRows, RowsVerified, ChecksumOfContent,
       Verified, WritePcs, Idle
  <1>4. QED
    BY <1>1, <1>2, <1>3 DEF Environment

LEMMA VerifiedInvariant ==
  ASSUME "upload" \notin Ops
  PROVE  Spec => []VerifiedInv
  <1>1. Init => VerifiedInv
    BY CorruptAssumption, MarkerAssumption
       DEF Init, VerifiedInv, VerifiedRows, RowsVerified, ChecksumOfContent, Verified,
           NoRow, Idle, WritePcs
  <1>2. TypeOK /\ VerifiedInv /\ [Next]_vars => VerifiedInv'
    <2>1. ASSUME VerifiedInv, UNCHANGED vars
          PROVE  VerifiedInv'
      BY <2>1 DEF vars, VerifiedInv, VerifiedRows, RowsVerified, ChecksumOfContent
    <2>2. QED
      BY <2>1, VerifiedBegin, VerifiedStep, VerifiedEnvironment DEF Next
  <1>3. QED
    BY <1>1, <1>2, TypeCorrect, PTL DEF Spec

(* Without the dashboard's upload, which stores unchecked bodies, no row    *)
(* ever names a payload that failed the MD5, CRC-32 or tag check of PutObject.*)
THEOREM OnlyVerifiedRows ==
  ASSUME "upload" \notin Ops
  PROVE  Spec => []RowsVerified
  <1>1. VerifiedInv => RowsVerified
    BY DEF VerifiedInv, VerifiedRows
  <1>2. QED
    BY <1>1, VerifiedInvariant, PTL

(* Without the dashboard's upload, which keeps the checksum of the object it*)
(* overwrites, a row's checksum is that of the payload its ETag names.      *)
THEOREM ChecksumMatchesETag ==
  ASSUME "upload" \notin Ops
  PROVE  Spec => []ChecksumOfContent
  <1>1. VerifiedInv => ChecksumOfContent
    BY DEF VerifiedInv, VerifiedRows
  <1>2. QED
    BY <1>1, VerifiedInvariant, PTL

----------------------------------------------------------------------------
(* Every row has a file, where nothing unlinks one.                         *)

(* What a request must have published before it may write its row.          *)
Unlinks == {"delete", "batch", "sweep", "dropBucket"}
Published(r, b) ==
  /\ r.pc \notin {"unlink", "purge", "rmrow", "reject"}
  /\ r.pc \in {"verify", "fill", "commit"} => b[r.key].data # Absent
  /\ r.pc \in {"stream", "rename"} => r.bytes # Absent
  /\ r.pc \in {"dest", "quota"} /\ r.op = "put" => r.bytes # Absent

PublishInv == RowHasBlob /\ \A w \in Workers : Published(req[w], blobs)

(* No file disappears in a step in which every blob stays or is replaced.   *)
LEMMA PublishedKeeps ==
  ASSUME NEW r, NEW b, NEW c, Published(r, b),
         r.pc \in {"verify", "fill", "commit"} => r.key \in Keys,
         \A k \in Keys : b[k].data # Absent => c[k].data # Absent
  PROVE  Published(r, c)
  BY DEF Published

LEMMA PublishBegin ==
  ASSUME TypeOK, PublishInv, Ops \cap Unlinks = {}, NEW w \in Workers, Begin(w)
  PROVE  PublishInv'
  <1> DEFINE Effect == /\ rows' = rows /\ blobs' = blobs
                       /\ \A v \in Workers : Published(req'[v], blobs)
  <1>1. ASSUME NEW op, NEW r, Start(w, op, r), Published(r, blobs)
        PROVE  \A v \in Workers : Published(req'[v], blobs)
    BY <1>1 DEF Start, PublishInv, TypeOK
  <1>2. Effect
    <2>1. ASSUME NEW k \in Keys, NEW c \in Contents, NEW cond \in Conds,
                 NEW declared \in Declared, PutBegin(w, k, c, cond, declared)
          PROVE  Effect
      <3>1. Published(Writing(w, "put", k, k, c, cond, declared), blobs)
        BY MarkerAssumption DEF Published, Writing
      <3>2. QED
        BY <1>1, <2>1, <3>1 DEF PutBegin, store
    <2>2. ASSUME NEW s \in Keys, NEW k \in Keys, NEW cond \in Conds,
                 CopyBegin(w, s, k, cond)
          PROVE  Effect
      <3> DEFINE r == [Writing(w, "copy", k, s, rows[s].etag, cond, TRUE) EXCEPT
                         !.pc = "dest", !.crc = rows[s].crc, !.bytes = Absent,
                         !.seen = None]
      <3>1. r.pc = "dest" /\ r.op = "copy"
        BY DEF Writing
      <3>2. Published(r, blobs)
        BY <3>1 DEF Published
      <3>3. QED
        BY <1>1, <2>2, <3>2 DEF CopyBegin, store
    <2>3. ASSUME NEW k \in Keys, NEW c \in Contents, UploadBegin(w, k, c)
          PROVE  Effect
      <3> DEFINE r == Writing(w, "upload", k, k, c, [kind |-> "none", tag |-> None], TRUE)
      <3>1. Published(r, blobs)
        BY DEF Published, Writing
      <3>2. QED
        BY <1>1, <2>3, <3>1 DEF UploadBegin, store
    <2>4. ASSUME NEW k \in Keys, TagBegin(w, k)
          PROVE  Effect
      BY <1>1, <2>4 DEF TagBegin, Published, store
    <2>5. ASSUME NEW op \in Unlinks, NEW r, Start(w, op, r)
          PROVE  FALSE
      BY <2>5 DEF Start
    <2>6. CASE MakeBucket(w)
      BY <1>1, <2>6 DEF MakeBucket, Published, Idle
    <2>7. ASSUME NEW k \in Keys, GetBegin(w, k)
          PROVE  Effect
      BY <1>1, <2>7 DEF GetBegin, Published, store
    <2>8. QED
      <3>1. /\ \A k \in Keys : ~DeleteObject(w, k)
            /\ \A S \in SUBSET Keys : ~DeleteObjects(w, S)
            /\ ~SweepExpiredObjects(w) /\ ~DropBegin(w)
        BY <2>5 DEF DeleteObject, DeleteObjects, SweepExpiredObjects, DropBegin,
           DeleteBegin, Unlinks
      <3> HIDE DEF Effect
      <3>2. QED
        BY <2>1, <2>2, <2>3, <2>4, <2>6, <2>7, <3>1 DEF Begin
  <1>3. QED
    BY <1>2 DEF PublishInv, RowHasBlob, Live

(* A step of w keeps the invariant if it leaves the rows alone, loses no    *)
(* file, at most ends other requests and leaves w with what it needs.       *)
LEMMA PublishMove ==
  ASSUME TypeOK, PublishInv, NEW w \in Workers, rows' = rows,
         \A k \in Keys : blobs[k].data # Absent => blobs'[k].data # Absent,
         \A v \in Workers \ {w} : req'[v] \in {req[v], Idle},
         Published(req'[w], blobs')
  PROVE  PublishInv'
  <1>1. \A v \in Workers : Published(req'[v], blobs')
    <2>1. ASSUME NEW v \in Workers \ {w}
          PROVE  Published(req[v], blobs')
      BY PublishedKeeps, RequestShape DEF PublishInv, Pc, WritePcs, WriteReq
    <2>2. Published(Idle, blobs')
      BY DEF Published, Idle
    <2>3. QED
      BY <2>1, <2>2
  <1>2. QED
    BY <1>1 DEF PublishInv, RowHasBlob, Live

LEMMA PublishRename ==
  ASSUME TypeOK, PublishInv, NEW w \in Workers, HasTmp(w, req[w].key),
         NEW label \in {"verify", "commit"}, RenameTmp(w, label), rows' = rows
  PROVE  PublishInv'
  <1> USE RequestShape DEF WritePcs, HasTmp
  <1>1. \A v \in Sharers(w) : req[v].bytes # Absent
    BY DEF Sharers, PublishInv, Published, Pc
  <1>2. w \in Sharers(w)
    BY DEF Sharers
  <1>3. PICK bytes : bytes # Absent /\ Replace(req[w].key, bytes)
    BY <1>1, <1>2, MarkerAssumption DEF RenameTmp
  <1>4. req[w] \in WriteReq /\ req[w].key \in Keys
    BY DEF WriteReq
  <1>5. /\ \A k \in Keys : blobs[k].data # Absent => blobs'[k].data # Absent
        /\ blobs'[req[w].key].data # Absent
    BY <1>3, <1>4 DEF Replace, TypeOK
  <1>6. /\ req'[w] = [req[w] EXCEPT !.pc = label, !.tmp = w]
        /\ \A v \in Workers \ {w} : req'[v] \in {req[v], Idle}
    BY DEF RenameTmp
  <1>7. Published(req'[w], blobs')
    BY <1>4, <1>5, <1>6 DEF Published, WriteReq
  <1>8. QED
    BY <1>5, <1>6, <1>7, PublishMove

LEMMA PublishStep ==
  ASSUME TypeOK, PublishInv, Corrupt = {}, Quota = 0, NEW w \in Workers, Step(w)
  PROVE  PublishInv'
  <1> USE RequestShape DEF WritePcs
  <1>1. Published(req[w], blobs)
    BY DEF PublishInv
  <1>2. ASSUME Finish(w) \/ DropTmp(w), rows' = rows, blobs' = blobs
        PROVE  PublishInv'
    <2>1. \A v \in Workers : req'[v] \in {req[v], Idle}
      BY <1>2 DEF Finish, DropTmp, TypeOK
    <2>2. Published(Idle, blobs)
      BY DEF Published, Idle
    <2>3. QED
      BY <1>1, <1>2, <2>1, <2>2, PublishMove
  <1>3. ASSUME Pc(w) \in WritePcs, NEW label \in {"read", "truncate", "commit"},
               label = "commit" => Pc(w) = "verify",
               Goto(w, label), rows' = rows, blobs' = blobs
        PROVE  PublishInv'
    <2>1. Published([req[w] EXCEPT !.pc = label], blobs)
      BY <1>1, <1>3 DEF Published, WriteReq, Pc
    <2>2. QED
      BY <1>3, <2>1, PublishMove DEF Goto, TypeOK
  <1>4. ASSUME Pc(w) \in WritePcs, NEW label \in {"stream", "rename"}, NEW bytes,
               bytes # Absent, OpenTmp(w, label, bytes), rows' = rows, blobs' = blobs
        PROVE  PublishInv'
    <2>1. PICK tmp :
            req' = [req EXCEPT ![w].pc = label, ![w].bytes = bytes, ![w].tmp = tmp]
      BY <1>4 DEF OpenTmp
    <2>2. Published([req[w] EXCEPT !.pc = label, !.bytes = bytes, !.tmp = tmp], blobs)
      BY <1>4 DEF Published, WriteReq
    <2>3. QED
      BY <1>4, <2>1, <2>2, PublishMove DEF TypeOK
  <1>5. CASE PutQuota(w)
    <2>1. req[w].bytes # Absent
      BY <1>1, <1>5 DEF PutQuota, Published, Pc
    <2>2. QED
      BY <1>2, <1>4, <1>5, <2>1 DEF PutQuota, store
  <1>6. CASE PutBodyFails(w)
    BY <1>2, <1>6 DEF PutBodyFails, store
  <1>7. CASE PutRename(w)
    BY <1>7, PublishRename DEF PutRename, HasTmp
  <1>8. CASE PutVerify(w)
    <2>1. Goto(w, "commit")
      BY <1>8 DEF PutVerify, WouldExceedQuota
    <2>2. QED
      BY <1>3, <1>8, <2>1 DEF PutVerify, store
  <1>9. ~PutReject(w) /\ ~UnlinkVictim(w) /\ ~DeleteRow(w) /\ ~DropUnlink(w) /\ ~DropCascade(w)
    BY <1>1 DEF PutReject, UnlinkVictim, DeleteRow, DropUnlink, DropCascade, Published, Pc
  <1>10. CASE CopyDest(w)
    <2>1. CASE Finish(w)
      BY <1>2, <1>10, <2>1 DEF CopyDest, store
    <2>2. CASE req' = [req EXCEPT ![w].pc = "quota", ![w].seen = rows[req[w].key].etag]
      <3> DEFINE r == [req[w] EXCEPT !.pc = "quota", !.seen = rows[req[w].key].etag]
      <3>1. Published(r, blobs)
        BY <1>1, <1>10 DEF CopyDest, Published, WriteReq, Pc
      <3>2. req'[w] = r /\ \A v \in Workers \ {w} : req'[v] = req[v]
        BY <2>2 DEF TypeOK
      <3>3. rows' = rows /\ blobs' = blobs
        BY <1>10 DEF CopyDest, store
      <3> HIDE DEF r
      <3>4. QED
        BY <3>1, <3>2, <3>3, PublishMove
    <2>3. QED
      BY <1>10, <2>1, <2>2 DEF CopyDest
  <1>11. CASE CopyQuota(w)
    <2>1. Finish(w) \/ Goto(w, "read")
      BY <1>11 DEF CopyQuota
    <2>2. Pc(w) \in WritePcs /\ rows' = rows /\ blobs' = blobs
      BY <1>11 DEF CopyQuota, store
    <2>3. CASE Finish(w)
      BY <1>2, <2>2, <2>3
    <2>4. CASE Goto(w, "read")
      BY <1>3, <2>2, <2>4
    <2>5. QED
      BY <2>1, <2>3, <2>4
  <1>12. CASE CopyRead(w)
    BY <1>2, <1>4, <1>12 DEF CopyRead, store
  <1>13. CASE CopyRename(w)
    BY <1>13, PublishRename DEF CopyRename, HasTmp
  <1>14. CASE UploadQuota(w)
    <2>1. Finish(w) \/ Goto(w, "truncate")
      BY <1>14 DEF UploadQuota
    <2>2. Pc(w) \in WritePcs /\ rows' = rows /\ blobs' = blobs
      BY <1>14 DEF UploadQuota, store
    <2>3. CASE Finish(w)
      BY <1>2, <2>2, <2>3
    <2>4. CASE Goto(w, "truncate")
      BY <1>3, <2>2, <2>4
    <2>5. QED
      BY <2>1, <2>3, <2>4
  <1>15. CASE UploadTruncate(w)
    <2>1. req[w] \in WriteReq /\ req[w].key \in Keys
      BY <1>15 DEF UploadTruncate, WriteReq
    <2>2. /\ \A k \in Keys : blobs[k].data # Absent => blobs'[k].data # Absent
          /\ blobs'[req[w].key].data # Absent
      BY <1>15, <2>1, MarkerAssumption DEF UploadTruncate, TypeOK
    <2>3. Published([req[w] EXCEPT !.pc = "fill"], blobs')
      BY <2>1, <2>2 DEF Published, WriteReq
    <2>4. QED
      BY <1>15, <2>2, <2>3, PublishMove DEF UploadTruncate, Goto, TypeOK
  <1>16. CASE UploadFill(w)
    <2>1. req[w] \in WriteReq /\ req[w].key \in Keys /\ req[w].content \in Contents
      BY <1>16 DEF UploadFill, WriteReq
    <2>2. blobs[req[w].key].data # Absent
      BY <1>1, <1>16 DEF UploadFill, Published, Pc
    <2>3. \/ blobs' = blobs
          \/ \E data \in {req[w].content, Torn} : \E open :
               blobs' = [blobs EXCEPT ![req[w].key] = [data |-> data, open |-> open]]
      BY <1>16 DEF UploadFill
    <2>4. /\ \A k \in Keys : blobs[k].data # Absent => blobs'[k].data # Absent
          /\ blobs'[req[w].key].data # Absent
      <3>1. CASE blobs' = blobs
        BY <2>2, <3>1
      <3>2. CASE \E data \in {req[w].content, Torn} : \E open :
                   blobs' = [blobs EXCEPT ![req[w].key] = [data |-> data, open |-> open]]
        <4>1. PICK data \in {req[w].content, Torn} : \E open :
                blobs' = [blobs EXCEPT ![req[w].key] = [data |-> data, open |-> open]]
          BY <3>2
        <4>2. PICK open :
                blobs' = [blobs EXCEPT ![req[w].key] = [data |-> data, open |-> open]]
          BY <4>1
        <4>3. data # Absent
          BY <2>1, <4>1, MarkerAssumption
        <4>4. QED
          BY <2>1, <4>2, <4>3 DEF TypeOK
      <3>3. QED
        BY <2>3, <3>1, <3>2
    <2>5. Published([req[w] EXCEPT !.pc = "commit"], blobs')
      BY <2>1, <2>4 DEF Published, WriteReq
    <2>6. QED
      BY <1>16, <2>4, <2>5, PublishMove DEF UploadFill, Goto, TypeOK
  <1>17. CASE CommitRow(w)
    <2>1. req[w].key \in Keys /\ blobs[req[w].key].data # Absent
      BY <1>1, <1>17 DEF CommitRow, Published, Pc, WriteReq
    <2>2. \A k \in Keys \ {req[w].key} : rows'[k] = rows[k]
      BY <1>17, <2>1 DEF CommitRow, TypeOK
    <2>3. RowHasBlob'
      BY <1>17, <2>1, <2>2 DEF CommitRow, PublishInv, RowHasBlob, Live
    <2>4. \A v \in Workers : Published(req'[v], blobs')
      BY <1>17 DEF CommitRow, Finish, TypeOK, PublishInv, Published, Idle
    <2>5. QED
      BY <2>3, <2>4 DEF PublishInv
  <1>18. CASE TagUpdate(w)
    <2>1. \A k \in Keys : rows'[k] # NoRow => rows[k] # NoRow
      <3>1. req[w].victim \in Victim
        BY <1>18 DEF TagUpdate, TagReq
      <3>2. CASE rows[req[w].victim.key].id = req[w].victim.id
        <4>1. rows[req[w].victim.key] # NoRow
          BY <3>1, <3>2 DEF Victim, NoRow
        <4>2. QED
          BY <1>18, <3>1, <4>1 DEF TagUpdate, TypeOK
      <3>3. QED
        BY <1>18, <3>2 DEF TagUpdate
    <2>2. \A v \in Workers : Published(req'[v], blobs')
      BY <1>18 DEF TagUpdate, Finish, TypeOK, PublishInv, Published, Idle
    <2>3. QED
      BY <1>18, <2>1, <2>2 DEF TagUpdate, PublishInv, RowHasBlob, Live
  <1>19. CASE GetOpen(w)
    BY <1>2, <1>19 DEF GetOpen, store
  <1>20. QED
    BY <1>5, <1>6, <1>7, <1>8, <1>9, <1>10, <1>11, <1>12, <1>13, <1>14, <1>15, <1>16,
       <1>17, <1>18, <1>19 DEF Step

LEMMA PublishEnvironment ==
  ASSUME TypeOK, PublishInv, Environment
  PROVE  PublishInv'
  <1>1. ASSUME NEW k \in Keys, Age(k) \/ LitterAges(k)
        PROVE  PublishInv'
    <2>1. /\ \A j \in Keys : Live(j)' => Live(j)
          /\ blobs' = blobs /\ req' = req
      BY <1>1 DEF Age, LitterAges, TypeOK, Live
    <2>2. QED
      BY <2>1 DEF PublishInv, RowHasBlob
  <1>2. CASE SweepTmpFiles
    BY <1>2 DEF SweepTmpFiles, PublishInv, RowHasBlob, Live
  <1>3. CASE Crash
    <2>1. \A k \in Keys : blobs'[k].data = blobs[k].data
      BY <1>3 DEF Crash, TypeOK, Blob
    <2>2. \A w \in Workers : Published(req'[w], blobs')
      BY <1>3 DEF Crash, Published, Idle
    <2>3. QED
      BY <1>3, <2>1, <2>2 DEF Crash, PublishInv, RowHasBlob, Live
  <1>4. QED
    BY <1>1, <1>2, <1>3 DEF Environment

(* Where no request deletes and no body is rejected, a row never exists     *)
(* without its file, in any interleaving and across crashes: every handler  *)
(* publishes the file before it writes the row.                             *)
THEOREM RowsHaveBlobs ==
  ASSUME Ops \cap Unlinks = {}, Corrupt = {}, Quota = 0
  PROVE  Spec => []RowHasBlob
  <1>1. Init => PublishInv
    BY DEF Init, PublishInv, RowHasBlob, Live, Published, Idle
  <1>2. TypeOK /\ PublishInv /\ [Next]_vars => PublishInv'
    <2>1. ASSUME PublishInv, UNCHANGED vars
          PROVE  PublishInv'
      BY <2>1 DEF vars, PublishInv, RowHasBlob, Live
    <2>2. QED
      BY <2>1, PublishBegin, PublishStep, PublishEnvironment DEF Next
  <1>3. PublishInv => RowHasBlob
    BY DEF PublishInv
  <1>4. QED
    BY <1>1, <1>2, <1>3, TypeCorrect, PTL DEF Spec

----------------------------------------------------------------------------
(* No file, copy or reply is ever partly written.                           *)

(* A request holds a whole payload in a .tmp- file no other request shares. *)
Whole(r, w) ==
  r.pc \in WritePcs =>
    /\ r.op \in {"put", "copy"} /\ r.pc \notin {"truncate", "fill"}
    /\ r.bytes # Torn /\ r.tmp = w

WholeFiles == reply.body # Torn /\ \A k \in Keys : blobs[k].data # Torn
WholeInv == WholeFiles /\ \A w \in Workers : Whole(req[w], w)

LEMMA WholeBegin ==
  ASSUME TypeOK, WholeInv, "upload" \notin Ops, NEW w \in Workers, Begin(w)
  PROVE  WholeInv'
  <1> DEFINE Effect == /\ blobs' = blobs /\ reply' = reply
                       /\ \A v \in Workers : Whole(req'[v], v)
  <1>1. ASSUME NEW op, NEW r, Start(w, op, r), Whole(r, w)
        PROVE  \A v \in Workers : Whole(req'[v], v)
    BY <1>1 DEF Start, WholeInv, TypeOK
  <1>2. Effect
    <2>1. ASSUME NEW k \in Keys, NEW c \in Contents, NEW cond \in Conds,
                 NEW declared \in Declared, PutBegin(w, k, c, cond, declared)
          PROVE  Effect
      <3>1. Whole(Writing(w, "put", k, k, c, cond, declared), w)
        BY MarkerAssumption DEF Whole, Writing
      <3>2. QED
        BY <1>1, <2>1, <3>1 DEF PutBegin, store
    <2>2. ASSUME NEW s \in Keys, NEW k \in Keys, NEW cond \in Conds,
                 CopyBegin(w, s, k, cond)
          PROVE  Effect
      <3> DEFINE r == [Writing(w, "copy", k, s, rows[s].etag, cond, TRUE) EXCEPT
                         !.pc = "dest", !.crc = rows[s].crc, !.bytes = Absent,
                         !.seen = None]
      <3>1. r.pc = "dest" /\ r.op = "copy" /\ r.bytes = Absent /\ r.tmp = w
        BY DEF Writing
      <3>2. Whole(r, w)
        BY <3>1, MarkerAssumption DEF Whole
      <3>3. QED
        BY <1>1, <2>2, <3>2 DEF CopyBegin, store
    <2>3. ASSUME NEW k \in Keys, NEW c \in Contents, UploadBegin(w, k, c)
          PROVE  FALSE
      BY <2>3 DEF UploadBegin, Start
    <2>4. ASSUME NEW k \in Keys, TagBegin(w, k)
          PROVE  Effect
      BY <1>1, <2>4 DEF TagBegin, Whole, WritePcs, store
    <2>5. ASSUME NEW op, NEW S, DeleteBegin(w, op, S)
          PROVE  Effect
      BY <1>1, <2>5 DEF DeleteBegin, Whole, WritePcs, store
    <2>6. CASE DropBegin(w)
      BY <1>1, <2>6 DEF DropBegin, Whole, WritePcs, store
    <2>7. CASE MakeBucket(w)
      BY <1>1, <2>7 DEF MakeBucket, Whole, WritePcs, Idle
    <2>8. ASSUME NEW k \in Keys, GetBegin(w, k)
          PROVE  Effect
      BY <1>1, <2>8 DEF GetBegin, Whole, WritePcs, store
    <2>9. QED
      <3>1. ASSUME NEW k \in Keys, DeleteObject(w, k)
            PROVE  Effect
        BY <2>5, <3>1 DEF DeleteObject
      <3>2. ASSUME NEW S \in SUBSET Keys, DeleteObjects(w, S)
            PROVE  Effect
        BY <2>5, <3>2 DEF DeleteObjects
      <3>3. CASE SweepExpiredObjects(w)
        BY <2>5, <3>3 DEF SweepExpiredObjects
      <3> HIDE DEF Effect
      <3>4. QED
        BY <2>1, <2>2, <2>3, <2>4, <2>6, <2>7, <2>8, <3>1, <3>2, <3>3 DEF Begin
  <1>3. QED
    BY <1>2 DEF WholeInv, WholeFiles

(* A step of w keeps the invariant if it tears no file or reply, at most    *)
(* ends other requests and leaves w whole.                                  *)
LEMMA WholeMove ==
  ASSUME WholeInv, NEW w \in Workers, WholeFiles',
         \A v \in Workers \ {w} : req'[v] \in {req[v], Idle},
         Whole(req'[w], w)
  PROVE  WholeInv'
  BY DEF WholeInv, Whole, Idle, WritePcs

LEMMA WholeRename ==
  ASSUME TypeOK, WholeInv, NEW w \in Workers, HasTmp(w, req[w].key),
         NEW label \in {"verify", "commit"}, RenameTmp(w, label), reply' = reply
  PROVE  WholeInv'
  <1> USE RequestShape DEF WritePcs, HasTmp
  <1>1. Sharers(w) = {w}
    BY DEF Sharers, WholeInv, Whole, Pc
  <1>2. Replace(req[w].key, req[w].bytes)
    BY <1>1 DEF RenameTmp
  <1>3. req[w] \in WriteReq /\ Whole(req[w], w)
    BY DEF WholeInv
  <1>4. WholeFiles'
    BY <1>2, <1>3 DEF Replace, TypeOK, WholeInv, WholeFiles, Whole, Pc
  <1>5. /\ req'[w] = [req[w] EXCEPT !.pc = label, !.tmp = w]
        /\ \A v \in Workers \ {w} : req'[v] \in {req[v], Idle}
    BY DEF RenameTmp
  <1>6. Whole(req'[w], w)
    BY <1>3, <1>5 DEF Whole, WriteReq, Pc
  <1>7. QED
    BY <1>4, <1>5, <1>6, WholeMove

LEMMA WholeStep ==
  ASSUME TypeOK, WholeInv, ~SameMs, NEW w \in Workers, Step(w)
  PROVE  WholeInv'
  <1> USE RequestShape DEF WritePcs
  <1>1. Whole(req[w], w)
    BY DEF WholeInv
  <1>2. ASSUME Finish(w) \/ DropTmp(w), WholeFiles'
        PROVE  WholeInv'
    <2>1. \A v \in Workers : req'[v] \in {req[v], Idle}
      BY <1>2 DEF Finish, DropTmp, TypeOK
    <2>2. Whole(Idle, w)
      BY DEF Whole, Idle
    <2>3. QED
      BY <1>1, <1>2, <2>1, <2>2, WholeMove
  <1>3. ASSUME Pc(w) \in WritePcs, Goto(w, "read") \/ Goto(w, "reject") \/ Goto(w, "commit"),
               WholeFiles'
        PROVE  WholeInv'
    <2>1. PICK label \in {"read", "reject", "commit"} : Goto(w, label)
      BY <1>3
    <2>2. Whole([req[w] EXCEPT !.pc = label], w)
      BY <1>1, <1>3 DEF Whole, WriteReq, Pc
    <2>3. QED
      BY <1>3, <2>1, <2>2, WholeMove DEF Goto, TypeOK
  <1>4. ASSUME Pc(w) \in WritePcs, NEW label \in {"stream", "rename"}, NEW bytes,
               bytes # Torn, OpenTmp(w, label, bytes), WholeFiles'
        PROVE  WholeInv'
    <2>1. req' = [req EXCEPT ![w].pc = label, ![w].bytes = bytes, ![w].tmp = req[w].tmp]
      BY <1>4 DEF OpenTmp
    <2>2. Whole([req[w] EXCEPT !.pc = label, !.bytes = bytes, !.tmp = req[w].tmp], w)
      BY <1>1, <1>4 DEF Whole, WriteReq, Pc
    <2>3. QED
      BY <1>4, <2>1, <2>2, WholeMove DEF TypeOK
  <1>5. ASSUME blobs' = blobs, reply' = reply
        PROVE  WholeFiles'
    BY <1>5 DEF WholeInv, WholeFiles
  <1>6. ASSUME NEW k \in Keys, Unlink(k), reply' = reply
        PROVE  WholeFiles'
    BY <1>6, MarkerAssumption DEF Unlink, NoBlob, TypeOK, WholeInv, WholeFiles
  <1>7. CASE PutQuota(w)
    <2>1. Finish(w) \/ OpenTmp(w, "stream", req[w].bytes)
      BY <1>7 DEF PutQuota
    <2>2. Pc(w) \in WritePcs /\ req[w].bytes # Torn /\ WholeFiles'
      BY <1>1, <1>5, <1>7 DEF PutQuota, Whole, Pc, store
    <2>3. QED
      BY <1>2, <1>4, <2>1, <2>2
  <1>8. CASE PutBodyFails(w)
    BY <1>2, <1>5, <1>8 DEF PutBodyFails, store
  <1>9. CASE PutRename(w)
    BY <1>9, WholeRename DEF PutRename, HasTmp
  <1>10. CASE PutVerify(w)
    <2>1. Goto(w, "reject") \/ Goto(w, "commit")
      BY <1>10 DEF PutVerify
    <2>2. QED
      BY <1>3, <1>5, <1>10, <2>1 DEF PutVerify, store
  <1>11. CASE PutReject(w)
    BY <1>2, <1>6, <1>11 DEF PutReject, WriteReq
  <1>12. CASE CopyDest(w)
    <2> DEFINE r == [req[w] EXCEPT !.pc = "quota", !.seen = rows[req[w].key].etag]
    <2>1. CASE Finish(w)
      BY <1>2, <1>5, <1>12, <2>1 DEF CopyDest, store
    <2>2. CASE req' = [req EXCEPT ![w].pc = "quota", ![w].seen = rows[req[w].key].etag]
      <3>1. Whole(r, w)
        BY <1>1, <1>12 DEF CopyDest, Whole, WriteReq, Pc
      <3>2. req'[w] = r /\ \A v \in Workers \ {w} : req'[v] = req[v]
        BY <2>2 DEF TypeOK
      <3>3. WholeFiles'
        BY <1>5, <1>12 DEF CopyDest, store
      <3> HIDE DEF r
      <3>4. QED
        BY <3>1, <3>2, <3>3, WholeMove
    <2>3. QED
      BY <1>12, <2>1, <2>2 DEF CopyDest
  <1>13. CASE CopyQuota(w)
    <2>1. Finish(w) \/ Goto(w, "read")
      BY <1>13 DEF CopyQuota
    <2>2. Pc(w) \in WritePcs /\ WholeFiles'
      BY <1>5, <1>13 DEF CopyQuota, store
    <2>3. QED
      BY <1>2, <1>3, <2>1, <2>2
  <1>14. CASE CopyRead(w)
    <2>1. Finish(w) \/ OpenTmp(w, "rename", blobs[req[w].src].data)
      BY <1>14 DEF CopyRead
    <2>2. Pc(w) \in WritePcs /\ blobs[req[w].src].data # Torn /\ WholeFiles'
      BY <1>5, <1>14 DEF CopyRead, WriteReq, WholeInv, WholeFiles, store
    <2>3. QED
      BY <1>2, <1>4, <2>1, <2>2
  <1>15. CASE CopyRename(w)
    BY <1>15, WholeRename DEF CopyRename, HasTmp
  <1>16. ~UploadQuota(w) /\ ~UploadTruncate(w) /\ ~UploadFill(w)
    BY <1>1 DEF UploadQuota, UploadTruncate, UploadFill, Whole, Pc
  <1>17. CASE CommitRow(w) \/ TagUpdate(w) \/ DropCascade(w)
    BY <1>2, <1>5, <1>17 DEF CommitRow, TagUpdate, DropCascade
  <1>18. CASE UnlinkVictim(w)
    <2>1. \E k \in Keys : Unlink(k)
      BY <1>18 DEF UnlinkVictim, Victim
    <2>2. WholeFiles'
      BY <1>6, <1>18, <2>1 DEF UnlinkVictim
    <2>3. req'[w].pc = "rmrow" /\ \A v \in Workers \ {w} : req'[v] = req[v]
      BY <1>18 DEF UnlinkVictim, TypeOK
    <2>4. QED
      BY <2>2, <2>3, WholeMove DEF Whole
  <1>19. CASE DeleteRow(w)
    <2>1. /\ req'[w].pc \in {"idle", "unlink"}
          /\ \A v \in Workers \ {w} : req'[v] = req[v]
      BY <1>19 DEF DeleteRow, Idle, TypeOK
    <2>2. QED
      BY <1>5, <1>19, <2>1, WholeMove DEF DeleteRow, Whole
  <1>20. CASE DropUnlink(w)
    <2>1. \E k \in Keys : Unlink(k)
      BY <1>20 DEF DropUnlink, Victim
    <2>2. WholeFiles'
      BY <1>6, <1>20, <2>1 DEF DropUnlink
    <2>3. req'[w].pc = "purge" /\ \A v \in Workers \ {w} : req'[v] = req[v]
      BY <1>20 DEF DropUnlink, Pc, TypeOK
    <2>4. QED
      BY <2>2, <2>3, WholeMove DEF Whole
  <1>21. CASE GetOpen(w)
    <2>1. req[w].key \in Keys
      BY <1>21 DEF GetOpen, ReadReq
    <2>2. WholeFiles'
      BY <1>21, <2>1 DEF GetOpen, store, WholeInv, WholeFiles
    <2>3. QED
      BY <1>2, <1>21, <2>2 DEF GetOpen
  <1>22. QED
    BY <1>7, <1>8, <1>9, <1>10, <1>11, <1>12, <1>13, <1>14, <1>15, <1>16, <1>17, <1>18,
       <1>19, <1>20, <1>21 DEF Step

LEMMA WholeEnvironment ==
  ASSUME TypeOK, WholeInv, Environment
  PROVE  WholeInv'
  <1>1. CASE Crash
    <2>1. WholeFiles'
      BY <1>1 DEF Crash, TypeOK, Blob, WholeInv, WholeFiles
    <2>2. QED
      BY <1>1, <2>1 DEF Crash, WholeInv, Whole, Idle, WritePcs
  <1>2. ASSUME UNCHANGED <<blobs, req, reply>>
        PROVE  WholeInv'
    BY <1>2 DEF WholeInv, WholeFiles
  <1>3. QED
    BY <1>1, <1>2 DEF Environment, Age, LitterAges, SweepTmpFiles

(* Without the dashboard's upload and without clashing .tmp- names, no file,*)
(* copy in progress or reply is ever partly written or mixed, in any        *)
(* interleaving and across crashes.                                         *)
THEOREM FilesAreWhole ==
  ASSUME "upload" \notin Ops, ~SameMs
  PROVE  Spec => []BlobsWhole
  <1>1. Init => WholeInv
    BY MarkerAssumption
       DEF Init, WholeInv, WholeFiles, Whole, NoBlob, NoReply, Idle, WritePcs
  <1>2. TypeOK /\ WholeInv /\ [Next]_vars => WholeInv'
    <2>1. ASSUME WholeInv, UNCHANGED vars
          PROVE  WholeInv'
      BY <2>1 DEF vars, WholeInv, WholeFiles
    <2>2. QED
      BY <2>1, WholeBegin, WholeStep, WholeEnvironment DEF Next
  <1>3. WholeInv => BlobsWhole
    BY DEF WholeInv, WholeFiles, BlobsWhole, Whole, Pc, WritePcs
  <1>4. QED
    BY <1>1, <1>2, <1>3, TypeCorrect, PTL DEF Spec

----------------------------------------------------------------------------
(* The quota.  Writers test it at one moment and write their rows at       *)
(* another; Counting.tla says how far they can go together.                *)

LEMMA Longest ==
  /\ MaxLen \in Nat
  /\ \A c \in Contents \cup {None} : Len(c) \in 0 .. MaxLen
<1>1. PICK c \in Contents : \A d \in Contents : Size[d] <= Size[c]
  BY LongestAssumption
<1>2. \E n \in {Size[d] : d \in Contents} : \A d \in Contents : Size[d] <= n
  BY <1>1
<1>3. MaxLen \in {Size[d] : d \in Contents} /\ \A d \in Contents : Size[d] <= MaxLen
  BY <1>2 DEF MaxLen
<1>4. MaxLen \in Nat
  BY <1>3, SizeAssumption
<1>5. ASSUME NEW d \in Contents PROVE Size[d] \in 0 .. MaxLen
  BY <1>3, <1>4, SizeAssumption
<1> QED
  BY <1>4, <1>5 DEF Len

(* The lengths the rows account for, and a request as a writer of one.     *)
Held == [k \in Keys |-> Len(rows[k].etag)]
IsAdmitted(r) ==
  \/ r.pc \in {"read", "rename", "truncate", "fill", "commit"}
  \/ r.pc = "quota" /\ r.op = "copy" /\ Len(r.content) <= Len(r.seen)
WriterOf(r) ==
  IF r.pc \in WritePcs \ {"dest"}
  THEN [stage |-> IF IsAdmitted(r) THEN "admitted" ELSE "looked",
        key |-> r.key, len |-> Len(r.content), seen |-> Len(r.seen)]
  ELSE Out
Slots == [w \in Workers |-> WriterOf(req[w])]

LEMMA HeldType ==
  ASSUME NEW r \in [Keys -> {NoRow} \cup Row]
  PROVE  [k \in Keys |-> Len(r[k].etag)] \in [Keys -> 0 .. MaxLen]
<1>1. \A k \in Keys : r[k].etag \in Contents \cup {None}
  BY DEF NoRow, Row
<1> QED
  BY <1>1, Longest

LEMMA WriterType ==
  ASSUME NEW r \in Request
  PROVE  WriterOf(r) \in Writers(Keys, MaxLen)
<1>1. CASE r.pc \in WritePcs \ {"dest"}
  <2>1. r \in WriteReq
    BY <1>1 DEF Request, Idle, ReadReq, TagReq, DeleteReq, WritePcs
  <2>2. r.key \in Keys /\ Len(r.content) \in 0 .. MaxLen /\ Len(r.seen) \in 0 .. MaxLen
    BY <2>1, Longest DEF WriteReq
  <2> QED
    BY <1>1, <2>2 DEF WriterOf, Writers
<1> QED
  BY <1>1 DEF WriterOf, Writers

LEMMA UsedIsHeld == ASSUME TypeOK PROVE Used = Total(Held) /\ Used \in Nat
<1> DEFINE F(h) == [T \in SUBSET Keys |->
                      IF T = {} THEN 0
                      ELSE LET x == CHOOSE x \in T : TRUE IN Len(rows[x].etag) + h[T \ {x}]]
           h0 == CHOOSE h : h = F(h)
           c == [T \in SUBSET Keys |-> Cardinality(Cells(Held, T))]
<1>1. Used = h0[Keys]
  BY DEF Used, MapThenSumSet, MapThenFoldSet
<1>2. /\ \A T \in SUBSET Keys : T # {} => (CHOOSE x \in T : TRUE) \in Keys
      /\ \A x \in Keys : Held[x] = Len(rows[x].etag)
  BY DEF Held
<1>3. Held \in [Keys -> 0 .. MaxLen]
  BY HeldType DEF Held, TypeOK
<1>4. c = F(c)
  <2>1. Sums(c, Held, Keys)
    BY <1>3, Longest, FiniteAssumption, CellsSum
  <2> SUFFICES ASSUME NEW T \in SUBSET Keys PROVE c[T] = F(c)[T]
    OBVIOUS
  <2> HIDE DEF c
  <2> QED
    BY <1>2, <2>1 DEF Sums
<1>5. h0 = F(h0)
  BY <1>4
<1>6. Sums(h0, Held, Keys)
  <2> HIDE DEF h0
  <2> SUFFICES ASSUME NEW T \in SUBSET Keys
               PROVE  h0[T] = IF T = {} THEN 0
                              ELSE LET x == CHOOSE x \in T : TRUE IN Held[x] + h0[T \ {x}]
    BY DEF Sums
  <2>1. h0[T] = F(h0)[T]
    BY <1>5, Zenon
  <2> QED
    BY <1>2, <2>1
<1> HIDE DEF h0
<1>7. Used = Total(Held)
  BY <1>1, <1>3, <1>6, Longest, FiniteAssumption, SumIsTotal
<1>8. DOMAIN Held = Keys
  BY <1>3
<1> QED
  BY <1>3, <1>7, <1>8, Longest, FiniteAssumption, CellsFinite DEF Total

(* What no outcome of the writes admitted so far exceeds.                   *)
QuotaInv ==
  /\ TypeOK
  /\ Capped(Held, Slots, Keys, MaxLen, Workers, Quota)
  /\ OneNewest(Held, Slots, Workers, Quota)

(* How a step treats the quota: requests end, or commit and end, or remove  *)
(* rows; one looks at a row; one passes its quota test.                     *)
Departs ==
  /\ \A y \in Workers : Slots'[y] = Slots[y] \/ Slots'[y] = Out
  /\ \A k \in Keys : Held'[k] <= Held[k] \/ Writes(Slots, Workers, Held', k)
  /\ Held' = Held \/ \E y \in Workers : Slots'[y] = Out
Looks(w) ==
  /\ Held' = Held /\ \A y \in Workers \ {w} : Slots'[y] = Slots[y]
  /\ Slots'[w].stage # "out" /\ Slots'[w].seen = Held[Slots'[w].key]
  /\ Slots'[w].stage = "admitted" => Slots'[w].len <= Slots'[w].seen
Passes(w) ==
  /\ Held' = Held /\ \A y \in Workers \ {w} : Slots'[y] = Slots[y]
  /\ Slots[w].stage = "looked" /\ Slots'[w] = [Slots[w] EXCEPT !.stage = "admitted"]
  /\ Total(Held) - Slots[w].seen + Slots[w].len <= Quota

LEMMA QuotaMove ==
  ASSUME QuotaInv, TypeOK', Departs \/ \E w \in Workers : Looks(w) \/ Passes(w)
  PROVE  QuotaInv'
<1> DEFINE g == Held
           h == Held'
           v == Slots
           u == Slots'
<1>1. g \in [Keys -> 0 .. MaxLen] /\ h \in [Keys -> 0 .. MaxLen]
  BY HeldType DEF QuotaInv, TypeOK, Held
<1>2. v \in [Workers -> Writers(Keys, MaxLen)] /\ u \in [Workers -> Writers(Keys, MaxLen)]
  BY WriterType DEF QuotaInv, TypeOK, Slots, Request
<1>3. MaxLen \in Nat /\ Quota \in Nat /\ IsFiniteSet(Keys) /\ IsFiniteSet(Workers)
  BY Longest, BoundsAssumption, FiniteAssumption
<1>4. Capped(g, v, Keys, MaxLen, Workers, Quota) /\ OneNewest(g, v, Workers, Quota)
  BY DEF QuotaInv
<1> DEFINE Goal == Capped(h, u, Keys, MaxLen, Workers, Quota) /\ OneNewest(h, u, Workers, Quota)
<1>5. ASSUME Departs
      PROVE  Goal
  <2>1. /\ \A y \in Workers : u[y] = v[y] \/ u[y] = Out
        /\ \A k \in Keys : h[k] <= g[k] \/ Writes(v, Workers, h, k)
        /\ h = g \/ \E y \in Workers : u[y] = Out
    BY <1>5 DEF Departs
  <2> HIDE DEF g, h, v, u
  <2>2. Capped(h, u, Keys, MaxLen, Workers, Quota)
    BY <1>1, <1>2, <1>3, <1>4, <2>1, Leaving
  <2>3. OneNewest(h, u, Workers, Quota)
    BY <1>4, <2>1 DEF OneNewest, Out
  <2> QED
    BY <2>2, <2>3
<1>6. ASSUME NEW w \in Workers, Looks(w)
      PROVE  Goal
  <2>1. /\ h = g /\ \A y \in Workers \ {w} : u[y] = v[y]
        /\ u[w].stage # "out" /\ u[w].seen = g[u[w].key]
        /\ u[w].stage = "admitted" => u[w].len <= u[w].seen
    BY <1>6 DEF Looks
  <2> HIDE DEF g, h, v, u
  <2> QED
    BY <1>1, <1>2, <1>3, <1>4, <2>1, Looking
<1>7. ASSUME NEW w \in Workers, Passes(w)
      PROVE  Goal
  <2>1. /\ h = g /\ \A y \in Workers \ {w} : u[y] = v[y]
        /\ v[w].stage = "looked" /\ u[w] = [v[w] EXCEPT !.stage = "admitted"]
        /\ Total(g) - v[w].seen + v[w].len <= Quota
    BY <1>7 DEF Passes
  <2> HIDE DEF g, h, v, u
  <2> QED
    BY <1>1, <1>2, <1>3, <1>4, <2>1, Admission
<1>8. Goal
  <2> HIDE DEF Goal
  <2> QED
    BY <1>5, <1>6, <1>7
<1> QED
  BY <1>8 DEF QuotaInv
(* The writers after a step that changes one request.                       *)
LEMMA SlotsAfter ==
  ASSUME TypeOK, NEW w \in Workers, NEW r, req' = [req EXCEPT ![w] = r]
  PROVE  Slots'[w] = WriterOf(r) /\ \A y \in Workers \ {w} : Slots'[y] = Slots[y]
  BY DEF Slots, TypeOK

LEMMA SlotIdle == WriterOf(Idle) = Out
  BY DEF WriterOf, Idle, WritePcs

(* Steps that leave every ETag, or take it away.                            *)
LEMMA Keeping ==
  ASSUME TypeOK, TypeOK', \A k \in Keys : rows'[k].etag \in {rows[k].etag, None},
         \A y \in Workers : Slots'[y] = Slots[y] \/ Slots'[y] = Out,
         rows' = rows \/ \E y \in Workers : Slots'[y] = Out
  PROVE  Departs
<1>1. Held \in [Keys -> 0 .. MaxLen]
  BY HeldType DEF TypeOK, Held
<1>2. ASSUME NEW k \in Keys PROVE Held'[k] <= Held[k]
  <2>1. Held[k] \in 0 .. MaxLen
    BY <1>1
  <2>2. Held'[k] = Held[k] \/ Held'[k] = 0
    BY DEF Held, Len
  <2> QED
    BY <2>1, <2>2, Longest
<1>3. rows' = rows => Held' = Held
  BY DEF Held
<1> QED
  BY <1>2, <1>3 DEF Departs

LEMMA Closing ==
  ASSUME TypeOK, TypeOK', rows' = rows, NEW w \in Workers, NEW r, req' = [req EXCEPT ![w] = r],
         WriterOf(r) = Slots[w] \/ WriterOf(r) = Out
  PROVE  Departs
  BY SlotsAfter, Keeping

LEMMA Finishing ==
  ASSUME TypeOK, TypeOK', rows' = rows, NEW w \in Workers, Finish(w)
  PROVE  Departs
  BY SlotsAfter, SlotIdle, Keeping DEF Finish

(* A write goes on: its own fields stay.                                    *)
LEMMA WriterStays ==
  ASSUME NEW r \in WriteReq, NEW s \in WriteReq, r.pc # "dest", s.pc # "dest",
         s.key = r.key, s.content = r.content, s.seen = r.seen, IsAdmitted(s) <=> IsAdmitted(r)
  PROVE  WriterOf(s) = WriterOf(r)
  BY DEF WriterOf, WriteReq, WritePcs

LEMMA WriterPasses ==
  ASSUME NEW r \in WriteReq, NEW s \in WriteReq, r.pc # "dest", s.pc # "dest",
         s.key = r.key, s.content = r.content, s.seen = r.seen, ~IsAdmitted(r), IsAdmitted(s)
  PROVE  /\ WriterOf(r).stage = "looked" /\ WriterOf(r).len = Len(r.content)
         /\ WriterOf(r).seen = Len(r.seen)
         /\ WriterOf(s) = [WriterOf(r) EXCEPT !.stage = "admitted"]
  BY DEF WriterOf, WriteReq, WritePcs

LEMMA QuotaBegin ==
  ASSUME TypeOK, TypeOK', NEW w \in Workers, Begin(w)
  PROVE  Departs \/ Looks(w)
<1>1. ASSUME NEW op, NEW k \in Keys, NEW c \in Contents, NEW cond, NEW declared,
             op \in {"put", "upload"}, rows' = rows,
             Start(w, op, Writing(w, op, k, k, c, cond, declared))
      PROVE  Looks(w)
  <2> DEFINE r == Writing(w, op, k, k, c, cond, declared)
  <2>1. req' = [req EXCEPT ![w] = r]
    BY <1>1 DEF Start
  <2>2. WriterOf(r) = [stage |-> "looked", key |-> k, len |-> Len(c), seen |-> Len(rows[k].etag)]
    BY <1>1 DEF WriterOf, Writing, WritePcs, IsAdmitted
  <2> HIDE DEF r
  <2>3. Slots'[w] = WriterOf(r) /\ \A y \in Workers \ {w} : Slots'[y] = Slots[y]
    BY <2>1, SlotsAfter
  <2>4. Held' = Held /\ Held[k] = Len(rows[k].etag)
    BY <1>1 DEF Held
  <2> QED
    BY <2>2, <2>3, <2>4 DEF Looks
<1>2. ASSUME NEW op, NEW r, Start(w, op, r), rows' = rows, r.pc \notin WritePcs \ {"dest"}
      PROVE  Departs
  BY <1>2, Closing DEF Start, WriterOf
<1>3. ASSUME NEW k \in Keys, NEW c \in Contents, NEW cond \in Conds,
             NEW declared \in Declared, PutBegin(w, k, c, cond, declared)
      PROVE  Looks(w)
  BY <1>1, <1>3 DEF PutBegin, store
<1>4. ASSUME NEW s \in Keys, NEW k \in Keys, NEW cond \in Conds, CopyBegin(w, s, k, cond)
      PROVE  Departs
  <2> DEFINE r == [Writing(w, "copy", k, s, rows[s].etag, cond, TRUE) EXCEPT
                     !.pc = "dest", !.crc = rows[s].crc, !.bytes = Absent, !.seen = None]
  <2>1. r.pc = "dest"
    BY DEF Writing
  <2>2. Start(w, "copy", r) /\ rows' = rows
    BY <1>4 DEF CopyBegin, store
  <2> HIDE DEF r
  <2> QED
    BY <1>2, <2>1, <2>2
<1>5. ASSUME NEW k \in Keys, NEW c \in Contents, UploadBegin(w, k, c)
      PROVE  Looks(w)
  <2> DEFINE cond == [kind |-> "none", tag |-> None]
             declared == TRUE
  <2>1. Start(w, "upload", Writing(w, "upload", k, k, c, cond, declared)) /\ rows' = rows
    BY <1>5 DEF UploadBegin, store
  <2> HIDE DEF cond, declared
  <2> QED
    BY <1>1, <2>1
<1>6. ASSUME NEW k \in Keys, TagBegin(w, k) \/ GetBegin(w, k)
      PROVE  Departs
  BY <1>2, <1>6 DEF TagBegin, GetBegin, store, WritePcs
<1>7. ASSUME NEW op, NEW S, DeleteBegin(w, op, S)
      PROVE  Departs
  BY <1>2, <1>7 DEF DeleteBegin, store, WritePcs
<1>8. CASE DropBegin(w) \/ MakeBucket(w)
  BY <1>2, <1>8 DEF DropBegin, MakeBucket, store, WritePcs, Idle
<1>9. ASSUME NEW k \in Keys, DeleteObject(w, k)
       PROVE  Departs
  BY <1>7, <1>9 DEF DeleteObject
<1>10. ASSUME NEW S \in SUBSET Keys, DeleteObjects(w, S)
       PROVE  Departs
  BY <1>7, <1>10 DEF DeleteObjects
<1>11. CASE SweepExpiredObjects(w)
  BY <1>7, <1>11 DEF SweepExpiredObjects
<1> QED
  BY <1>3, <1>4, <1>5, <1>6, <1>8, <1>9, <1>10, <1>11 DEF Begin

LEMMA QuotaCommit ==
  ASSUME TypeOK, TypeOK', NEW w \in Workers, CommitRow(w)
  PROVE  Departs
<1>1. req[w] \in WriteReq /\ req[w].pc = "commit"
  BY RequestShape DEF CommitRow, WritePcs, Pc
<1>2. Slots'[w] = Out /\ \A y \in Workers \ {w} : Slots'[y] = Slots[y]
  BY SlotsAfter, SlotIdle DEF CommitRow, Finish
<1>3. Slots[w].stage = "admitted" /\ Slots[w].key = req[w].key /\ Slots[w].len = Len(req[w].content)
  BY <1>1 DEF Slots, WriterOf, WritePcs, IsAdmitted
<1>4. ASSUME NEW k \in Keys
      PROVE  rows'[k] = rows[k] \/ (req[w].key = k /\ rows'[k].etag = req[w].content)
  <2>1. PICK r : r.etag = req[w].content /\ (rows' = rows \/ rows' = [rows EXCEPT ![req[w].key] = r])
    <3> DEFINE before == rows[req[w].key]
               crc == IF req[w].op = "upload" THEN before.crc ELSE req[w].crc
               id == IF before = NoRow THEN nextId ELSE before.id
               r == [id |-> id, etag |-> req[w].content, crc |-> crc, old |-> FALSE]
    <3>1. rows' = rows \/ rows' = [rows EXCEPT ![req[w].key] = r]
      BY DEF CommitRow
    <3> QED
      BY <3>1
  <2>2. req[w].key \in Keys /\ rows \in [Keys -> {NoRow} \cup Row]
    BY <1>1 DEF WriteReq, TypeOK
  <2>3. CASE rows' = rows
    BY <2>3
  <2>4. CASE rows' = [rows EXCEPT ![req[w].key] = r]
    BY <2>1, <2>2, <2>4
  <2> QED
    BY <2>1, <2>3, <2>4
<1>5. ASSUME NEW k \in Keys
      PROVE  Held'[k] <= Held[k] \/ Writes(Slots, Workers, Held', k)
  <2>1. Held[k] \in 0 .. MaxLen /\ Len(req[w].content) \in 0 .. MaxLen
    BY <1>1, HeldType, Longest DEF TypeOK, Held, WriteReq
  <2>2. Held'[k] = Held[k] \/ (req[w].key = k /\ Held'[k] = Len(req[w].content))
    BY <1>4 DEF Held
  <2>3. CASE Held'[k] = Held[k]
    BY <2>1, <2>3, Longest
  <2>4. CASE req[w].key = k /\ Held'[k] = Len(req[w].content)
    <3>1. Held'[k] <= Slots[w].len
      BY <1>3, <2>1, <2>4, Longest
    <3> QED
      BY <1>3, <2>4, <3>1 DEF Writes
  <2> QED
    BY <2>2, <2>3, <2>4
<1> QED
  BY <1>2, <1>5 DEF Departs
(* A write that gives up or goes on.                                        *)
LEMMA Going ==
  ASSUME TypeOK, TypeOK', rows' = rows, NEW w \in Workers, Pc(w) \in WritePcs \ {"dest"},
         NEW label \in WritePcs \ {"dest"}, Goto(w, label),
         IsAdmitted([req[w] EXCEPT !.pc = label]) <=> IsAdmitted(req[w])
  PROVE  Departs
<1>1. req[w] \in WriteReq /\ req[w].pc # "dest"
  BY RequestShape DEF Pc
<1>2. [req[w] EXCEPT !.pc = label] \in WriteReq
  BY <1>1 DEF WriteReq, WritePcs
<1>3. WriterOf([req[w] EXCEPT !.pc = label]) = WriterOf(req[w])
  BY <1>1, <1>2, WriterStays DEF WriteReq
<1>4. req' = [req EXCEPT ![w] = [req[w] EXCEPT !.pc = label]] /\ Slots[w] = WriterOf(req[w])
  BY DEF Goto, Slots
<1> QED
  BY <1>3, <1>4, Closing

LEMMA Passing ==
  ASSUME TypeOK, rows' = rows, NEW w \in Workers, Pc(w) \in WritePcs \ {"dest"},
         ~IsAdmitted(req[w]), NEW label \in {"commit", "read", "truncate"}, Goto(w, label),
         Used - Len(req[w].seen) + Len(req[w].content) <= Quota
  PROVE  Looks(w) \/ Passes(w)
<1>1. req[w] \in WriteReq /\ req[w].pc # "dest"
  BY RequestShape DEF Pc
<1> DEFINE s == [req[w] EXCEPT !.pc = label]
<1>2. s \in WriteReq /\ IsAdmitted(s) /\ s.pc # "dest"
      /\ s.key = req[w].key /\ s.content = req[w].content /\ s.seen = req[w].seen
  BY <1>1 DEF WriteReq, WritePcs, IsAdmitted
<1>3. req' = [req EXCEPT ![w] = s]
  BY DEF Goto
<1> HIDE DEF s
<1>4. Slots[w] = WriterOf(req[w]) /\ Slots'[w] = WriterOf(s)
      /\ \A y \in Workers \ {w} : Slots'[y] = Slots[y]
  BY <1>3, SlotsAfter DEF Slots
<1>5. /\ WriterOf(req[w]).stage = "looked" /\ WriterOf(req[w]).len = Len(req[w].content)
      /\ WriterOf(req[w]).seen = Len(req[w].seen)
      /\ WriterOf(s) = [WriterOf(req[w]) EXCEPT !.stage = "admitted"]
  BY <1>1, <1>2, WriterPasses
<1>6. Held' = Held /\ Used = Total(Held)
  BY UsedIsHeld DEF Held
<1> QED
  BY <1>4, <1>5, <1>6 DEF Passes

(* The .tmp- file of a write.                                               *)
LEMMA OpeningTmp ==
  ASSUME TypeOK, TypeOK', rows' = rows, NEW w \in Workers, Pc(w) \in {"quota", "read"},
         NEW label \in {"stream", "rename"}, NEW bytes \in Bytes, OpenTmp(w, label, bytes),
         label = "rename" <=> IsAdmitted(req[w])
  PROVE  Departs
<1>1. req[w] \in WriteReq /\ req[w].pc # "dest"
  BY RequestShape DEF Pc, WritePcs
<1>2. PICK v \in {w} \cup {u \in Workers : SameMs /\ HasTmp(u, req[w].key)} :
        req' = [req EXCEPT ![w].pc = label, ![w].bytes = bytes, ![w].tmp = req[v].tmp]
  BY DEF OpenTmp
<1> DEFINE s == [req[w] EXCEPT !.pc = label, !.bytes = bytes, !.tmp = req[v].tmp]
<1>3. req' = [req EXCEPT ![w] = s]
  BY <1>2
<1>4. req[v] \in WriteReq
  BY <1>1, <1>2, RequestShape DEF HasTmp, WritePcs
<1>5. /\ s \in WriteReq /\ s.pc = label
      /\ s.key = req[w].key /\ s.content = req[w].content /\ s.seen = req[w].seen
  BY <1>1, <1>4 DEF WriteReq
<1> HIDE DEF s
<1>6. IsAdmitted(s) <=> IsAdmitted(req[w])
  BY <1>5 DEF IsAdmitted
<1>7. WriterOf(s) = WriterOf(req[w]) /\ Slots[w] = WriterOf(req[w])
  BY <1>1, <1>5, <1>6, WriterStays DEF Slots
<1> QED
  BY <1>3, <1>7, Closing

LEMMA DroppingTmp ==
  ASSUME TypeOK, TypeOK', rows' = rows, NEW w \in Workers, DropTmp(w)
  PROVE  Departs
<1>1. ASSUME NEW y \in Workers PROVE Slots'[y] = Slots[y] \/ Slots'[y] = Out
  BY SlotIdle DEF DropTmp, Slots
<1> QED
  BY <1>1, Keeping

LEMMA RenamingTmp ==
  ASSUME TypeOK, TypeOK', rows' = rows, NEW w \in Workers, HasTmp(w, req[w].key),
         NEW label \in {"verify", "commit"}, RenameTmp(w, label),
         label = "commit" <=> Pc(w) = "rename"
  PROVE  Departs
<1>1. req[w] \in WriteReq /\ req[w].pc \in {"stream", "rename"}
  BY RequestShape DEF HasTmp, Pc, WritePcs
<1> DEFINE s == [req[w] EXCEPT !.pc = label, !.tmp = w]
<1>2. /\ s \in WriteReq /\ s.pc = label
      /\ s.key = req[w].key /\ s.content = req[w].content /\ s.seen = req[w].seen
  BY <1>1 DEF WriteReq
<1>3. req' = [v \in Workers |-> IF v = w THEN s ELSE IF v \in Sharers(w) THEN Idle ELSE req[v]]
  BY DEF RenameTmp
<1> HIDE DEF s
<1>4. WriterOf(s) = WriterOf(req[w])
  BY <1>1, <1>2, WriterStays DEF IsAdmitted, Pc
<1>5. ASSUME NEW y \in Workers PROVE Slots'[y] = Slots[y] \/ Slots'[y] = Out
  BY <1>3, <1>4, SlotIdle DEF Slots
<1> QED
  BY <1>5, Keeping

LEMMA QuotaStep ==
  ASSUME TypeOK, TypeOK', Quota > 0, NEW w \in Workers, Step(w)
  PROVE  Departs \/ Looks(w) \/ Passes(w)
<1>1. Pc(w) \in WritePcs => req[w] \in WriteReq
  BY RequestShape
<1>2. /\ Used \in Nat /\ Quota \in Nat
      /\ Pc(w) \in WritePcs => Len(req[w].content) \in Nat /\ Len(req[w].seen) \in Nat
  BY <1>1, Longest, UsedIsHeld, BoundsAssumption DEF WriteReq
<1>3. CASE PutQuota(w)
  <2>1. req[w].bytes \in Bytes /\ ~IsAdmitted(req[w])
    BY <1>1, <1>3 DEF PutQuota, WriteReq, WritePcs, Pc, IsAdmitted
  <2> QED
    BY <1>3, <2>1, Finishing, OpeningTmp DEF PutQuota, store
<1>4. CASE PutBodyFails(w)
  BY <1>4, DroppingTmp DEF PutBodyFails, store
<1>5. CASE PutRename(w)
  BY <1>5, RenamingTmp DEF PutRename, HasTmp
<1>6. CASE PutVerify(w)
  <2>1. ~IsAdmitted(req[w]) /\ Pc(w) \in WritePcs \ {"dest"}
    BY <1>6 DEF PutVerify, Pc, IsAdmitted, WritePcs
  <2>2. CASE Goto(w, "reject")
    <3>1. ~IsAdmitted([req[w] EXCEPT !.pc = "reject"])
      BY <1>1, <2>1 DEF IsAdmitted, WriteReq
    <3> QED
      BY <1>6, <2>1, <2>2, <3>1, Going DEF PutVerify, store, WritePcs
  <2>3. CASE Goto(w, "commit") /\ ~WouldExceedQuota(Len(req[w].content), Len(req[w].seen))
    <3>1. Used - Len(req[w].seen) + Len(req[w].content) <= Quota
      BY <1>2, <2>1, <2>3 DEF WouldExceedQuota
    <3> QED
      BY <1>6, <2>1, <2>3, <3>1, Passing DEF PutVerify, store
  <2> QED
    BY <1>6, <2>2, <2>3 DEF PutVerify
<1>7. CASE PutReject(w)
  BY <1>7, Finishing DEF PutReject
<1>8. CASE CopyDest(w)
  <2>1. CASE Finish(w)
    BY <1>8, <2>1, Finishing DEF CopyDest, store
  <2>2. CASE req' = [req EXCEPT ![w].pc = "quota", ![w].seen = rows[req[w].key].etag]
    <3> DEFINE s == [req[w] EXCEPT !.pc = "quota", !.seen = rows[req[w].key].etag]
    <3>1. req' = [req EXCEPT ![w] = s] /\ rows' = rows
      BY <1>8, <2>2 DEF CopyDest, store
    <3>2. /\ s.pc = "quota" /\ s.key = req[w].key /\ s.key \in Keys
          /\ s.seen = rows[req[w].key].etag
      BY <1>1, <1>8 DEF CopyDest, WriteReq, WritePcs
    <3> HIDE DEF s
    <3>3. /\ WriterOf(s).stage \in {"looked", "admitted"} /\ WriterOf(s).key = req[w].key
          /\ WriterOf(s).seen = Len(rows[req[w].key].etag) /\ WriterOf(s).len = Len(s.content)
          /\ WriterOf(s).stage = "admitted" => Len(s.content) <= Len(s.seen)
      BY <3>2 DEF WriterOf, WritePcs, IsAdmitted
    <3>4. Slots'[w] = WriterOf(s) /\ \A y \in Workers \ {w} : Slots'[y] = Slots[y]
      BY <3>1, SlotsAfter
    <3>5. Held' = Held /\ Held[req[w].key] = Len(rows[req[w].key].etag)
      BY <3>1, <3>2 DEF Held
    <3> QED
      BY <3>2, <3>3, <3>4, <3>5 DEF Looks
  <2> QED
    BY <1>8, <2>1, <2>2 DEF CopyDest
<1>9. CASE CopyQuota(w)
  <2> DEFINE added == Len(req[w].content) - Len(req[w].seen)
  <2>1. CASE Finish(w)
    BY <1>9, <2>1, Finishing DEF CopyQuota, store
  <2>2. CASE Goto(w, "read") /\ IsAdmitted(req[w])
    <3>1. IsAdmitted([req[w] EXCEPT !.pc = "read"])
      BY <1>1, <1>9 DEF IsAdmitted, WriteReq, CopyQuota, WritePcs
    <3> QED
      BY <1>9, <2>2, <3>1, Going DEF CopyQuota, store, WritePcs
  <2>3. CASE /\ Goto(w, "read") /\ ~IsAdmitted(req[w])
             /\ ~(added > 0 /\ WouldExceedQuota(added, 0))
    <3>1. /\ Len(req[w].content) \in Nat /\ Len(req[w].seen) \in Nat
          /\ ~(Len(req[w].content) <= Len(req[w].seen))
      BY <1>2, <1>9, <2>3 DEF IsAdmitted, CopyQuota, Pc, WritePcs
    <3>2. ~WouldExceedQuota(added, 0)
      BY <2>3, <3>1
    <3>3. Used - Len(req[w].seen) + Len(req[w].content) <= Quota
      BY <1>2, <3>1, <3>2 DEF WouldExceedQuota
    <3> QED
      BY <1>9, <2>3, <3>3, Passing DEF CopyQuota, store, WritePcs
  <2> QED
    BY <1>9, <2>1, <2>2, <2>3 DEF CopyQuota
<1>10. CASE CopyRead(w)
  <2>1. blobs[req[w].src].data \in Bytes /\ IsAdmitted(req[w])
    BY <1>1, <1>10 DEF CopyRead, WriteReq, TypeOK, Blob, WritePcs, IsAdmitted, Pc
  <2> QED
    BY <1>10, <2>1, Finishing, OpeningTmp DEF CopyRead, store
<1>11. CASE CopyRename(w)
  BY <1>11, RenamingTmp DEF CopyRename, HasTmp
<1>12. CASE UploadQuota(w)
  <2>1. CASE Finish(w)
    BY <1>12, <2>1, Finishing DEF UploadQuota, store
  <2>2. CASE Goto(w, "truncate") /\ ~WouldExceedQuota(Len(req[w].content), Len(req[w].seen))
    <3>1. ~IsAdmitted(req[w]) /\ Pc(w) \in WritePcs \ {"dest"}
      BY <1>12 DEF UploadQuota, Pc, IsAdmitted, WritePcs
    <3>2. Used - Len(req[w].seen) + Len(req[w].content) <= Quota
      BY <1>2, <2>2, <3>1 DEF WouldExceedQuota
    <3> QED
      BY <1>12, <2>2, <3>1, <3>2, Passing DEF UploadQuota, store
  <2> QED
    BY <1>12, <2>1, <2>2 DEF UploadQuota
<1>13. CASE UploadTruncate(w) \/ UploadFill(w)
  <2>1. PICK label \in {"fill", "commit"} : Goto(w, label)
    BY <1>13 DEF UploadTruncate, UploadFill
  <2>2. Pc(w) \in {"truncate", "fill"} /\ rows' = rows
    BY <1>13 DEF UploadTruncate, UploadFill
  <2>3. IsAdmitted([req[w] EXCEPT !.pc = label]) /\ IsAdmitted(req[w])
    BY <1>1, <2>2 DEF IsAdmitted, WriteReq, WritePcs, Pc
  <2> QED
    BY <2>1, <2>2, <2>3, Going DEF WritePcs
<1>14. CASE CommitRow(w)
  BY <1>14, QuotaCommit
<1>15. CASE TagUpdate(w)
  <2>1. \A k \in Keys : rows'[k].etag = rows[k].etag
    BY <1>15 DEF TagUpdate, TypeOK, NoRow, Row
  <2>2. Slots'[w] = Out /\ \A y \in Workers \ {w} : Slots'[y] = Slots[y]
    BY <1>15, SlotsAfter, SlotIdle DEF TagUpdate, Finish
  <2> QED
    BY <2>1, <2>2, Keeping
<1>16. CASE DeleteRow(w)
  <2>1. \A k \in Keys : rows'[k].etag \in {rows[k].etag, None}
    BY <1>16 DEF DeleteRow, TypeOK, NoRow
  <2>2. PICK r \in {Idle, [pc |-> "unlink", todo |-> req[w].todo]} : req' = [req EXCEPT ![w] = r]
    BY <1>16 DEF DeleteRow
  <2>3. WriterOf(r) = Out
    BY <2>2, SlotIdle DEF WriterOf, WritePcs
  <2>4. Slots'[w] = Out /\ \A y \in Workers \ {w} : Slots'[y] = Slots[y]
    BY <2>2, <2>3, SlotsAfter
  <2> QED
    BY <2>1, <2>4, Keeping
<1>17. CASE UnlinkVictim(w)
  <2>1. PICK v \in req[w].todo :
          req' = [req EXCEPT ![w] = [pc |-> "rmrow", victim |-> v, todo |-> req[w].todo \ {v}]]
    BY <1>17 DEF UnlinkVictim
  <2>2. WriterOf([pc |-> "rmrow", victim |-> v, todo |-> req[w].todo \ {v}]) = Out
    BY DEF WriterOf, WritePcs
  <2> QED
    BY <1>17, <2>1, <2>2, Closing DEF UnlinkVictim
<1>18. CASE DropUnlink(w)
  <2>1. PICK v \in req[w].todo : req' = [req EXCEPT ![w].todo = @ \ {v}]
    BY <1>18 DEF DropUnlink
  <2> DEFINE r == [req[w] EXCEPT !.todo = @ \ {v}]
  <2>2. req' = [req EXCEPT ![w] = r] /\ req[w].pc = "purge"
    BY <1>18, <2>1 DEF DropUnlink, Pc
  <2>3. r.pc = "purge"
    <3>1. req[w] \in [pc : {"unlink", "purge"}, todo : SUBSET Victim]
      BY <1>18, RequestShape DEF DropUnlink
    <3> QED
      BY <2>2, <3>1
  <2>4. WriterOf(r) = Out
    BY <2>3 DEF WriterOf, WritePcs
  <2> HIDE DEF r
  <2> QED
    BY <1>18, <2>2, <2>4, Closing DEF DropUnlink
<1>19. CASE DropCascade(w)
  <2>1. \A k \in Keys : rows'[k].etag = None
    BY <1>19 DEF DropCascade, NoRow
  <2>2. Slots'[w] = Out /\ \A y \in Workers \ {w} : Slots'[y] = Slots[y]
    BY <1>19, SlotsAfter, SlotIdle DEF DropCascade, Finish
  <2> QED
    BY <2>1, <2>2, Keeping
<1>20. CASE GetOpen(w)
  BY <1>20, Finishing DEF GetOpen, store
<1> QED
  <2> HIDE DEF Departs, Looks, Passes
  <2> QED
    BY <1>3, <1>4, <1>5, <1>6, <1>7, <1>8, <1>9, <1>10, <1>11, <1>12, <1>13, <1>14, <1>15,
       <1>16, <1>17, <1>18, <1>19, <1>20 DEF Step

LEMMA QuotaEnvironment ==
  ASSUME TypeOK, TypeOK', Environment
  PROVE  Departs
<1>1. ASSUME UNCHANGED req, \A k \in Keys : rows'[k].etag = rows[k].etag
      PROVE  Departs
  <2>1. Slots' = Slots /\ Held' = Held
    BY <1>1 DEF Slots, Held
  <2>2. \A k \in Keys : Held[k] <= Held[k]
    BY HeldType, Longest DEF TypeOK, Held
  <2> QED
    BY <2>1, <2>2 DEF Departs
<1>2. ASSUME NEW k \in Keys, Age(k) \/ LitterAges(k)
      PROVE  Departs
  BY <1>1, <1>2 DEF Age, LitterAges, TypeOK, NoRow, Row
<1>3. CASE SweepTmpFiles
  BY <1>1, <1>3 DEF SweepTmpFiles
<1>4. CASE Crash
  <2>1. \A y \in Workers : Slots'[y] = Out
    BY <1>4, SlotIdle DEF Crash, Slots
  <2>2. rows' = rows /\ Workers # {}
    BY <1>4, FiniteAssumption DEF Crash
  <2> QED
    BY <2>1, <2>2, Keeping
<1> QED
  BY <1>2, <1>3, <1>4 DEF Environment

(* PutObject, CopyObject and the dashboard's upload test the quota and      *)
(* write their row later, without a lock, against a size that may be gone   *)
(* by then.  With a quota, all of them together exceed it by at most one    *)
(* largest object for every other request in flight, whatever deletions,    *)
(* sweeps and crashes come in between.                                      *)
THEOREM OvershootIsBounded ==
  ASSUME Quota > 0
  PROVE  Spec => []QuotaOvershootBounded
<1>1. TypeOK /\ Init => QuotaInv
  <2> SUFFICES ASSUME TypeOK, Init PROVE QuotaInv
    OBVIOUS
  <2>1. \A w \in Workers : Slots[w] = Out
    BY SlotIdle DEF Init, Slots
  <2>2. Workers # {} /\ MaxLen \in Nat /\ Quota \in Nat /\ IsFiniteSet(Workers) /\ IsFiniteSet(Keys)
    BY FiniteAssumption, Longest, BoundsAssumption
  <2>3. \A k \in Keys : Held[k] = 0
    BY DEF Init, Held, NoRow, Len
  <2>4. Capped(Held, Slots, Keys, MaxLen, Workers, Quota) /\ OneNewest(Held, Slots, Workers, Quota)
    <3> HIDE DEF Held, Slots
    <3> QED
      BY <2>1, <2>2, <2>3, AllOut
  <2> QED
    BY <2>4 DEF QuotaInv
<1>2. QuotaInv /\ TypeOK' /\ [Next]_vars => QuotaInv'
  <2> SUFFICES ASSUME QuotaInv, TypeOK', [Next]_vars PROVE QuotaInv'
    OBVIOUS
  <2>1. CASE UNCHANGED vars
    <3>1. Slots' = Slots /\ Held' = Held
      BY <2>1 DEF vars, Slots, Held
    <3> QED
      BY <3>1 DEF QuotaInv
  <2>2. CASE Next
    <3>1. TypeOK
      BY DEF QuotaInv
    <3>2. Departs \/ \E w \in Workers : Looks(w) \/ Passes(w)
      <4> HIDE DEF Departs, Looks, Passes
      <4> QED
        BY <2>2, <3>1, QuotaBegin, QuotaStep, QuotaEnvironment DEF Next
    <3> QED
      BY <3>2, QuotaMove
  <2> QED
    BY <2>1, <2>2
<1>3. QuotaInv => QuotaOvershootBounded
  <2> SUFFICES ASSUME QuotaInv PROVE QuotaOvershootBounded
    OBVIOUS
  <2>1. TypeOK /\ Held \in [Keys -> 0 .. MaxLen]
    BY HeldType DEF QuotaInv, TypeOK, Held
  <2>2. \A k \in Keys : Held[k] <= Held[k]
    BY <2>1, Longest
  <2>3. Total(Held) <= Quota + (Cardinality(Workers) - 1) * MaxLen
    BY <2>1, <2>2 DEF QuotaInv, Capped
  <2> QED
    BY <2>1, <2>3, UsedIsHeld DEF QuotaOvershootBounded
<1> QED
  BY <1>1, <1>2, <1>3, TypeCorrect, PTL DEF Spec

----------------------------------------------------------------------------
(* Requests for one key kept apart.                                         *)

(* The payload a reader of the row expects is what the file holds, and no  *)
(* handler has the file open for writing.                                  *)
Settled(k) ==
  blobs[k] = [data |-> IF Live(k) THEN rows[k].etag ELSE Absent, open |-> {}]

(* Keys whose file is ahead of, or behind, their row because of w.         *)
Unsettled(w) ==
  CASE Pc(w) \in {"verify", "fill", "commit"} -> {req[w].key}
    [] Pc(w) = "rmrow" -> {req[w].victim.key}
    [] Pc(w) = "purge" -> {k \in Keys : \A v \in req[w].todo : v.key # k}
    [] OTHER -> {}

(* What the local variables of a request say of the store while it is the  *)
(* only one working on its keys: nothing it read has gone stale.           *)
WriteSound(w) == Pc(w) \in WritePcs =>
  /\ bucket /\ Pc(w) # "reject"
  /\ Pc(w) # "dest" => Admits(req[w].cond, rows[req[w].key])
  /\ Pc(w) = "dest" => req[w].op = "copy"
  /\ Pc(w) = "quota" => req[w].op = "copy" \/ req[w].bytes = req[w].content
  /\ Pc(w) \in {"stream", "rename"} => req[w].bytes = req[w].content
  /\ Pc(w) \in {"dest", "read"} \/ (Pc(w) = "quota" /\ req[w].op = "copy") =>
       rows[req[w].src].etag = req[w].content
  /\ Pc(w) = "fill" => blobs[req[w].key] = [data |-> Torn, open |-> {w}]
  /\ Pc(w) \in {"verify", "commit"} =>
       blobs[req[w].key] = [data |-> req[w].content, open |-> {}]

ReadSound(w) == Pc(w) = "open" => rows[req[w].key].etag = req[w].etag

DeleteSound(w) ==
  /\ Pc(w) \in {"unlink", "rmrow", "purge"} =>
       \A v \in req[w].todo : rows[v.key].id = v.id
  /\ Pc(w) = "rmrow" =>
       /\ rows[req[w].victim.key].id = req[w].victim.id
       /\ blobs[req[w].victim.key] = NoBlob
       /\ \A u \in req[w].todo : u.key # req[w].victim.key
  /\ Pc(w) = "purge" => \A k \in Unsettled(w) : blobs[k] = NoBlob

Sound(w) == WriteSound(w) /\ ReadSound(w) /\ DeleteSound(w)

(* The inductive invariant.                                                *)
AllSettled == \A k \in Keys : (\A w \in Workers : k \notin Unsettled(w)) => Settled(k)
DisciplinedInv == TypeOK /\ NoOverlap /\ AllSettled /\ \A w \in Workers : Sound(w)

(* The hypotheses: bodies are not rejected once stored, and no crash.      *)
WellBehaved == Corrupt = {} /\ Quota = 0 /\ MaxCrashes = 0

----------------------------------------------------------------------------
(* The keys of a request, by its pc.                                       *)

LEMMA TouchesShape ==
  ASSUME TypeOK, NEW w \in Workers
  PROVE  /\ Pc(w) = "idle" => Touches(w) = {}
         /\ Pc(w) = "open" => Touches(w) = {req[w].key}
         /\ Pc(w) = "tag" => Touches(w) = {req[w].victim.key}
         /\ Pc(w) = "purge" => Touches(w) = Keys
         /\ Pc(w) = "unlink" => Touches(w) = {v.key : v \in req[w].todo}
         /\ Pc(w) = "rmrow" =>
              Touches(w) = {req[w].victim.key} \cup {v.key : v \in req[w].todo}
         /\ Pc(w) \in WritePcs =>
              /\ Touches(w) = {req[w].key, req[w].src}
              /\ req[w].key \in Keys /\ req[w].src \in Keys
  <1>1. Pc(w) \in WritePcs => req[w].key \in Keys /\ req[w].src \in Keys
    BY RequestShape DEF WriteReq
  <1>2. QED
    BY <1>1 DEF Touches, WritePcs

LEMMA PcRange ==
  ASSUME TypeOK, NEW w \in Workers
  PROVE  Pc(w) \in WritePcs \cup {"idle", "open", "tag", "purge", "unlink", "rmrow"}
  BY DEF TypeOK, Pc, WritePcs, WriteReq, ReadReq, TagReq, DeleteReq, Idle

LEMMA UnsettledShape ==
  ASSUME TypeOK, NEW w \in Workers
  PROVE  /\ Pc(w) \in {"verify", "fill", "commit"} => Unsettled(w) = {req[w].key}
         /\ Pc(w) = "rmrow" => Unsettled(w) = {req[w].victim.key}
         /\ Pc(w) = "purge" =>
              Unsettled(w) = {k \in Keys : \A v \in req[w].todo : v.key # k}
         /\ Pc(w) \notin {"verify", "fill", "commit", "rmrow", "purge"} =>
              Unsettled(w) = {}
  BY DEF Unsettled

LEMMA UnsettledTouched ==
  ASSUME TypeOK, NEW w \in Workers
  PROVE  Unsettled(w) \subseteq Touches(w) /\ Touches(w) \subseteq Keys
  <1>1. Touches(w) \subseteq Keys
    <2>1. CASE Pc(w) = "unlink"
      BY <2>1, TouchesShape, RequestShape DEF Victim
    <2>2. CASE Pc(w) = "rmrow"
      BY <2>2, TouchesShape, RequestShape DEF Victim
    <2>3. CASE Pc(w) = "tag"
      BY <2>3, TouchesShape, RequestShape DEF TagReq, Victim
    <2>4. CASE Pc(w) = "open"
      BY <2>4, TouchesShape, RequestShape DEF ReadReq
    <2>5. CASE Pc(w) \in WritePcs \cup {"idle", "purge"}
      BY <2>5, TouchesShape
    <2>6. QED
      BY <2>1, <2>2, <2>3, <2>4, <2>5, PcRange
  <1>2. Unsettled(w) \subseteq Touches(w)
    BY TouchesShape, UnsettledShape DEF WritePcs
  <1>3. QED
    BY <1>1, <1>2

(* A request has the .tmp- file it writes to for itself.                   *)
LEMMA NoSharers ==
  ASSUME TypeOK, NoOverlap, NEW w \in Workers, HasTmp(w, req[w].key)
  PROVE  Sharers(w) = {w}
  <1>1. w \in Sharers(w)
    BY DEF Sharers
  <1>2. ASSUME NEW v \in Sharers(w), v # w
        PROVE  FALSE
    <2>1. v \in Workers /\ Pc(v) \in WritePcs /\ Pc(w) \in WritePcs /\ req[v].key = req[w].key
      BY DEF Sharers, HasTmp, WritePcs
    <2>2. req[w].key \in Touches(v) \cap Touches(w)
      BY <2>1, TouchesShape
    <2>3. QED
      BY <1>2, <2>1, <2>2 DEF NoOverlap
  <1>3. QED
    BY <1>1, <1>2

(* A key a request works on and has not unsettled is settled.              *)
LEMMA SettledKeys ==
  ASSUME DisciplinedInv, NEW w \in Workers, NEW k \in Touches(w), k \notin Unsettled(w)
  PROVE  Settled(k)
  <1>1. k \in Keys
    BY UnsettledTouched DEF DisciplinedInv
  <1>2. \A v \in Workers : k \notin Unsettled(v)
    BY UnsettledTouched DEF DisciplinedInv, NoOverlap
  <1>3. QED
    BY <1>1, <1>2 DEF DisciplinedInv, AllSettled

----------------------------------------------------------------------------
(* A step of one request leaves what the others rely on alone.             *)

RowKept(k) == rows'[k] = rows[k] \/ rows'[k] = [rows[k] EXCEPT !.old = TRUE]

(* The precondition of a write outlives the ageing of the row.             *)
LEMMA AdmitsKept ==
  ASSUME TypeOK, NEW k \in Keys, NEW c \in AllConds, RowKept(k), Admits(c, rows[k]),
         rows'[k] = NoRow <=> rows[k] = NoRow
  PROVE  Admits(c, rows'[k])
  <1>1. c.kind \in {"none", "exists", "absent", "unmodified", "match", "differs"}
    BY DEF AllConds
  <1>2. rows[k] \in {NoRow} \cup Row
    BY DEF TypeOK
  <1>3. rows'[k].etag = rows[k].etag /\ (rows[k].old => rows'[k].old)
    BY <1>2 DEF RowKept, Row, NoRow
  <1>4. QED
    BY <1>1, <1>3 DEF Admits

LEMMA SoundFrame ==
  ASSUME TypeOK, TypeOK', NEW w \in Workers, Sound(w), req'[w] = req[w],
         \A k \in Touches(w) : RowKept(k) /\ blobs'[k] = blobs[k],
         bucket' = bucket \/ bucket' \/ Pc(w) \notin WritePcs
  PROVE  Sound(w)' /\ Unsettled(w)' = Unsettled(w) /\ Touches(w)' = Touches(w)
  <1>1. Pc(w)' = Pc(w)
    BY DEF Pc
  <1>2. Unsettled(w)' = Unsettled(w)
    BY <1>1 DEF Unsettled
  <1>3. Touches(w)' = Touches(w)
    BY <1>1 DEF Touches
  <1>4. ASSUME NEW k \in Touches(w)
        PROVE  /\ rows'[k].etag = rows[k].etag /\ rows'[k].id = rows[k].id
               /\ rows'[k] = NoRow <=> rows[k] = NoRow
    <2>1. k \in Keys
      BY UnsettledTouched
    <2>2. rows[k] \in {NoRow} \cup Row /\ rows'[k] \in {NoRow} \cup Row
      BY <2>1 DEF TypeOK
    <2>3. RowKept(k)
      BY <1>4
    <2>4. rows'[k].etag = rows[k].etag /\ rows'[k].id = rows[k].id
      BY <2>2, <2>3 DEF RowKept, Row, NoRow
    <2>5. ASSUME NEW r \in {NoRow} \cup Row
          PROVE  r = NoRow <=> r.id = 0
      BY DEF Row, NoRow
    <2>6. QED
      BY <2>2, <2>4, <2>5
  <1>5. WriteSound(w)'
    <2> SUFFICES ASSUME Pc(w) \in WritePcs
                 PROVE  WriteSound(w)'
      BY <1>1 DEF WriteSound
    <2>1. req[w].key \in Touches(w) /\ req[w].src \in Touches(w) /\ req[w].key \in Keys
      BY TouchesShape
    <2>2. req[w].cond \in AllConds
      BY RequestShape DEF WriteReq
    <2>3. Pc(w) # "dest" => Admits(req[w].cond, rows'[req[w].key])
      BY <1>4, <2>1, <2>2, AdmitsKept DEF Sound, WriteSound
    <2>4. QED
      BY <1>1, <1>4, <2>1, <2>3 DEF Sound, WriteSound
  <1>6. ReadSound(w)'
    BY <1>1, <1>4, TouchesShape DEF Sound, ReadSound
  <1>7. DeleteSound(w)'
    <2>1. Pc(w) \in {"unlink", "rmrow", "purge"} =>
            \A v \in req[w].todo : v.key \in Touches(w)
      BY TouchesShape, RequestShape DEF Victim
    <2>2. Pc(w) = "rmrow" => req[w].victim.key \in Touches(w)
      BY TouchesShape
    <2>3. \A k \in Unsettled(w) : blobs'[k] = blobs[k]
      BY UnsettledTouched
    <2>4. QED
      BY <1>1, <1>2, <1>4, <2>1, <2>2, <2>3 DEF Sound, DeleteSound
  <1>8. QED
    BY <1>2, <1>3, <1>5, <1>6, <1>7 DEF Sound

(* What every action of w does, and all the invariant asks of it.          *)
LocalStep(w) ==
  /\ \A v \in Workers \ {w} : req'[v] = req[v]
  /\ \A k \in Keys \ Touches(w) : blobs'[k] = blobs[k] /\ rows'[k] = rows[k]
  /\ bucket' = bucket \/ bucket' \/ Touches(w) = Keys
  /\ Sound(w)'
  /\ \A k \in Touches(w) : k \in Unsettled(w)' \/ Settled(k)'

LEMMA LocalStepPreserves ==
  ASSUME DisciplinedInv, TypeOK', NoOverlap', NEW w \in Workers, LocalStep(w)
  PROVE  DisciplinedInv'
  <1>1. ASSUME NEW v \in Workers, v # w
        PROVE  Sound(v)' /\ Unsettled(v)' = Unsettled(v)
    <2>1. TypeOK /\ Sound(v) /\ req'[v] = req[v]
      BY <1>1 DEF LocalStep, DisciplinedInv
    <2>2. Touches(v) \subseteq Keys \ Touches(w)
      BY <1>1, UnsettledTouched DEF DisciplinedInv, NoOverlap
    <2>3. \A k \in Touches(v) : RowKept(k) /\ blobs'[k] = blobs[k]
      BY <2>2 DEF LocalStep, RowKept
    <2>4. Touches(w) = Keys => Pc(v) \notin WritePcs
      BY <2>1, <2>2, TouchesShape
    <2>5. QED
      BY <2>1, <2>3, <2>4, SoundFrame DEF LocalStep
  <1>2. AllSettled'
    <2> SUFFICES ASSUME NEW k \in Keys, \A v \in Workers : k \notin Unsettled(v)'
                 PROVE  Settled(k)'
      BY DEF AllSettled
    <2>1. CASE k \in Touches(w)
      BY <2>1 DEF LocalStep
    <2>2. CASE k \notin Touches(w)
      <3>1. \A v \in Workers : k \notin Unsettled(v)
        BY <1>1, <2>2, UnsettledTouched DEF DisciplinedInv
      <3>2. Settled(k)
        BY <3>1 DEF DisciplinedInv, AllSettled
      <3>3. QED
        BY <2>2, <3>2 DEF LocalStep, Settled, Live
    <2>3. QED
      BY <2>1, <2>2
  <1>3. QED
    BY <1>1, <1>2 DEF LocalStep, DisciplinedInv

----------------------------------------------------------------------------
(* Facts that recur: what is sound for an idle request and for a write,    *)
(* what Goto keeps, and a step that leaves the store alone.                *)

LEMMA IdleSound ==
  ASSUME NEW w \in Workers, req'[w] = Idle
  PROVE  Sound(w)'
  BY DEF Idle, Pc, Sound, WriteSound, ReadSound, DeleteSound, WritePcs

LEMMA WriteSuffices ==
  ASSUME NEW w \in Workers, Pc(w)' \in WritePcs, WriteSound(w)'
  PROVE  Sound(w)'
  BY DEF Sound, ReadSound, DeleteSound, WritePcs

SameFields(r, s) ==
  /\ r.op = s.op /\ r.key = s.key /\ r.src = s.src /\ r.content = s.content
  /\ r.bytes = s.bytes /\ r.cond = s.cond

LEMMA GotoFields ==
  ASSUME TypeOK, NEW w \in Workers, Pc(w) \in WritePcs, NEW label, Goto(w, label)
  PROVE  /\ Pc(w)' = label /\ SameFields(req'[w], req[w])
         /\ \A v \in Workers \ {w} : req'[v] = req[v]
  <1>1. req[w] \in WriteReq
    BY RequestShape
  <1>2. QED
    BY <1>1 DEF TypeOK, Goto, Pc, SameFields, WriteReq

LEMMA FinishFields ==
  ASSUME TypeOK, NEW w \in Workers, Finish(w)
  PROVE  req'[w] = Idle /\ \A v \in Workers \ {w} : req'[v] = req[v]
  BY DEF TypeOK, Finish

LEMMA QuietStep ==
  ASSUME DisciplinedInv, NEW w \in Workers, Sound(w)',
         \A v \in Workers \ {w} : req'[v] = req[v],
         rows' = rows, blobs' = blobs, bucket' = bucket \/ bucket',
         Unsettled(w) \subseteq Unsettled(w)'
  PROVE  LocalStep(w)
  <1>1. ASSUME NEW k \in Touches(w)
        PROVE  k \in Unsettled(w)' \/ Settled(k)'
    BY SettledKeys DEF Settled, Live
  <1>2. QED
    BY <1>1 DEF LocalStep

----------------------------------------------------------------------------
(* Requests begin without unsettling a key.                                *)

LEMMA BeginLocal ==
  ASSUME DisciplinedInv, NoOverlap', NEW w \in Workers, Begin(w)
  PROVE  LocalStep(w)
  <1> DEFINE Started(r) ==
        /\ req[w] = Idle /\ req'[w] = r
        /\ \A v \in Workers \ {w} : req'[v] = req[v]
  <1>1. ASSUME NEW op, NEW r, Start(w, op, r)
        PROVE  Started(r)
    BY <1>1 DEF Start, DisciplinedInv, TypeOK
  <1>2. ASSUME NEW r, Started(r), Sound(w)', rows' = rows, blobs' = blobs,
               bucket' = bucket \/ bucket'
        PROVE  LocalStep(w)
    <2>1. Unsettled(w) = {}
      BY <1>2, UnsettledShape DEF Idle, Pc, DisciplinedInv
    <2>2. QED
      BY <1>2, <2>1, QuietStep
  <1>3. ASSUME NEW k \in Keys, NEW c \in Contents, NEW cond \in Conds,
               NEW declared \in Declared, PutBegin(w, k, c, cond, declared)
        PROVE  LocalStep(w)
    <2>1. Started(Writing(w, "put", k, k, c, cond, declared))
      BY <1>1, <1>3 DEF PutBegin
    <2>2. /\ Pc(w)' = "quota" /\ req'[w].op = "put" /\ req'[w].bytes = req'[w].content
          /\ req'[w].key = k /\ req'[w].cond = cond
      BY <2>1 DEF Writing, Pc
    <2>3. bucket' /\ Admits(cond, rows'[k])
      BY <1>3 DEF PutBegin, store
    <2>4. Sound(w)'
      BY <2>2, <2>3, WriteSuffices DEF WriteSound, WritePcs
    <2>5. QED
      BY <1>2, <1>3, <2>1, <2>4 DEF PutBegin, store
  <1>4. ASSUME NEW s \in Keys, NEW k \in Keys, NEW cond \in Conds, CopyBegin(w, s, k, cond)
        PROVE  LocalStep(w)
    <2> DEFINE r == [Writing(w, "copy", k, s, rows[s].etag, cond, TRUE) EXCEPT
                       !.pc = "dest", !.crc = rows[s].crc, !.bytes = Absent, !.seen = None]
    <2>1. Started(r)
      BY <1>1, <1>4 DEF CopyBegin
    <2>2. r.pc = "dest" /\ r.op = "copy" /\ r.src = s /\ r.content = rows[s].etag
      BY DEF Writing
    <2>3. Sound(w)'
      <3> HIDE DEF r
      <3>1. QED
        BY <1>4, <2>1, <2>2, WriteSuffices DEF CopyBegin, store, Pc, WriteSound, WritePcs
    <2>4. QED
      BY <1>2, <1>4, <2>1, <2>3 DEF CopyBegin, store
  <1>5. ASSUME NEW k \in Keys, NEW c \in Contents, UploadBegin(w, k, c)
        PROVE  LocalStep(w)
    <2>1. Started(Writing(w, "upload", k, k, c, [kind |-> "none", tag |-> None], TRUE))
      BY <1>1, <1>5 DEF UploadBegin
    <2>2. /\ Pc(w)' = "quota" /\ req'[w].bytes = req'[w].content
          /\ req'[w].cond.kind = "none" /\ req'[w].op = "upload"
      BY <2>1 DEF Writing, Pc
    <2>3. Admits(req'[w].cond, rows'[req'[w].key])
      BY <2>2 DEF Admits
    <2>4. Sound(w)'
      BY <1>5, <2>2, <2>3, WriteSuffices DEF UploadBegin, store, WriteSound, WritePcs
    <2>5. QED
      BY <1>2, <1>5, <2>1, <2>4 DEF UploadBegin, store
  <1>6. ASSUME NEW k \in Keys, TagBegin(w, k)
        PROVE  LocalStep(w)
    <2>1. Started([pc |-> "tag", victim |-> VictimOf(k)])
      BY <1>1, <1>6 DEF TagBegin
    <2>2. Sound(w)'
      BY <2>1 DEF Pc, Sound, WriteSound, ReadSound, DeleteSound, WritePcs
    <2>3. QED
      BY <1>2, <1>6, <2>1, <2>2 DEF TagBegin, store
  <1>7. ASSUME NEW op, NEW S \in SUBSET Keys, DeleteBegin(w, op, S)
        PROVE  LocalStep(w)
    <2>1. Started([pc |-> "unlink", todo |-> {VictimOf(k) : k \in S}])
      BY <1>1, <1>7 DEF DeleteBegin
    <2>2. Sound(w)'
      BY <1>7, <2>1
         DEF DeleteBegin, store, VictimOf, Pc, Sound, WriteSound, ReadSound, DeleteSound, WritePcs
    <2>3. QED
      BY <1>2, <1>7, <2>1, <2>2 DEF DeleteBegin, store
  <1>8. CASE DropBegin(w)
    <2> DEFINE todo == {VictimOf(k) : k \in {j \in Keys : Live(j)}}
    <2>1. Started([pc |-> "purge", todo |-> todo])
      BY <1>1, <1>8 DEF DropBegin
    <2>2. rows' = rows /\ blobs' = blobs /\ bucket' = bucket
      BY <1>8 DEF DropBegin, store
    <2>3. \A v \in todo : rows[v.key].id = v.id
      BY DEF VictimOf
    <2>4. ASSUME NEW k \in Unsettled(w)'
          PROVE  blobs[k] = NoBlob
      <3>1. Pc(w)' = "purge" /\ req'[w].todo = todo
        BY <2>1 DEF Pc
      <3>2. k \in Keys /\ \A v \in todo : v.key # k
        BY <2>4, <3>1 DEF Unsettled
      <3>3. ~Live(k)
        <4>1. ASSUME Live(k)
              PROVE  VictimOf(k) \in todo /\ VictimOf(k).key = k
          BY <3>2, <4>1 DEF VictimOf
        <4>2. QED
          BY <3>2, <4>1
      <3>4. \A v \in Workers : k \notin Unsettled(v)
        <4>1. ASSUME NEW v \in Workers, k \in Unsettled(v)
              PROVE  FALSE
          <5>1. v # w
            BY <2>1, <4>1, UnsettledShape DEF Idle, Pc, DisciplinedInv
          <5>2. k \in Touches(v)' /\ Touches(w)' = Keys
            BY <2>1, <4>1, <5>1, UnsettledTouched DEF Touches, Pc, DisciplinedInv
          <5>3. QED
            BY <3>2, <5>1, <5>2 DEF NoOverlap
        <4>2. QED
          BY <4>1
      <3>5. QED
        BY <3>2, <3>3, <3>4 DEF DisciplinedInv, AllSettled, Settled, NoBlob
    <2>5. Sound(w)'
      <3> HIDE DEF todo
      <3>1. Pc(w)' = "purge" /\ req'[w].todo = todo
        BY <2>1 DEF Pc
      <3>2. QED
        BY <2>2, <2>3, <2>4, <3>1
           DEF Sound, WriteSound, ReadSound, DeleteSound, WritePcs
    <2>6. QED
      BY <1>2, <2>1, <2>2, <2>5
  <1>9. CASE MakeBucket(w)
    <2>1. Started(Idle)
      BY <1>1, <1>9 DEF MakeBucket
    <2>2. QED
      BY <1>2, <1>9, <2>1, IdleSound DEF MakeBucket
  <1>10. ASSUME NEW k \in Keys, GetBegin(w, k)
         PROVE  LocalStep(w)
    <2>1. Started([pc |-> "open", key |-> k, etag |-> rows[k].etag])
      BY <1>1, <1>10 DEF GetBegin
    <2>2. Sound(w)'
      BY <1>10, <2>1
         DEF GetBegin, store, Pc, Sound, WriteSound, ReadSound, DeleteSound, WritePcs
    <2>3. QED
      BY <1>2, <1>10, <2>1, <2>2 DEF GetBegin, store
  <1>11. QED
    BY <1>3, <1>4, <1>5, <1>6, <1>7, <1>8, <1>9, <1>10
       DEF Begin, DeleteObject, DeleteObjects, SweepExpiredObjects

----------------------------------------------------------------------------
(* Steps of a request under way.                                           *)

(* The request stops without having unsettled a key.                       *)
LEMMA GiveUpLocal ==
  ASSUME DisciplinedInv, NEW w \in Workers, Finish(w), Unsettled(w) = {},
         rows' = rows, blobs' = blobs, bucket' = bucket
  PROVE  LocalStep(w)
  BY FinishFields, IdleSound, QuietStep DEF DisciplinedInv

(* A .tmp- file is opened: the request goes on with the bytes it holds.    *)
LEMMA OpenTmpFields ==
  ASSUME DisciplinedInv, NEW w \in Workers, Pc(w) \in WritePcs,
         NEW label, NEW bytes, OpenTmp(w, label, bytes)
  PROVE  /\ Pc(w)' = label /\ req'[w].bytes = bytes
         /\ SameFields(req'[w], [req[w] EXCEPT !.bytes = bytes])
         /\ \A v \in Workers \ {w} : req'[v] = req[v]
  <1>1. req[w] \in WriteReq
    BY RequestShape DEF DisciplinedInv
  <1>2. PICK v \in Workers :
          req' = [req EXCEPT ![w].pc = label, ![w].bytes = bytes, ![w].tmp = req[v].tmp]
    BY DEF OpenTmp
  <1>3. req'[w] = [req[w] EXCEPT !.pc = label, !.bytes = bytes, !.tmp = req[v].tmp]
    BY <1>2 DEF DisciplinedInv, TypeOK
  <1>4. \A u \in Workers \ {w} : req'[u] = req[u]
    BY <1>2 DEF DisciplinedInv, TypeOK
  <1>5. QED
    BY <1>1, <1>3, <1>4 DEF Pc, SameFields, WriteReq

(* A .tmp- file is renamed over the path of its object.                    *)
LEMMA RenameTmpFields ==
  ASSUME DisciplinedInv, NEW w \in Workers, HasTmp(w, req[w].key),
         NEW label, RenameTmp(w, label)
  PROVE  /\ Pc(w)' = label /\ SameFields(req'[w], req[w])
         /\ \A v \in Workers \ {w} : req'[v] = req[v]
         /\ blobs' = [blobs EXCEPT ![req[w].key] = [data |-> req[w].content, open |-> {}]]
  <1>1. req[w] \in WriteReq /\ Pc(w) \in {"stream", "rename"} /\ Pc(w) \in WritePcs
    BY RequestShape DEF DisciplinedInv, HasTmp, WritePcs
  <1>2. Sharers(w) = {w}
    BY NoSharers DEF DisciplinedInv
  <1>3. req[w].bytes = req[w].content
    BY <1>1 DEF DisciplinedInv, Sound, WriteSound
  <1>4. Replace(req[w].key, req[w].content)
    BY <1>2, <1>3 DEF RenameTmp
  <1>5. req'[w] = [req[w] EXCEPT !.pc = label, !.tmp = w]
    BY <1>2 DEF RenameTmp
  <1>6. \A v \in Workers \ {w} : req'[v] = req[v]
    BY <1>2 DEF RenameTmp
  <1>7. QED
    BY <1>1, <1>4, <1>5, <1>6 DEF Replace, Pc, SameFields, WriteReq

(* A write puts its payload at the path of its key and goes on.            *)
LEMMA PublishLocal ==
  ASSUME DisciplinedInv, NEW w \in Workers, Pc(w) \in WritePcs, Pc(w) # "dest",
         Pc(w)' \in {"verify", "commit"}, SameFields(req'[w], req[w]),
         \A v \in Workers \ {w} : req'[v] = req[v],
         blobs' = [blobs EXCEPT ![req[w].key] = [data |-> req[w].content, open |-> {}]],
         rows' = rows, bucket' = bucket, Unsettled(w) \subseteq {req[w].key}
  PROVE  LocalStep(w)
  <1> USE DEF DisciplinedInv
  <1>1. req[w].key \in Keys /\ Touches(w) = {req[w].key, req[w].src}
    BY TouchesShape
  <1>2. Unsettled(w)' = {req[w].key}
    BY DEF Unsettled, SameFields
  <1>3. blobs \in [Keys -> Blob]
    BY DEF TypeOK
  <1>4. blobs'[req[w].key] = [data |-> req[w].content, open |-> {}]
    BY <1>1, <1>3
  <1>5. \A k \in Keys \ {req[w].key} : blobs'[k] = blobs[k]
    BY <1>1, <1>3
  <1>6. Admits(req[w].cond, rows'[req[w].key]) /\ bucket
    BY DEF Sound, WriteSound
  <1>7. Sound(w)'
    BY <1>4, <1>6, WriteSuffices DEF WriteSound, WritePcs, SameFields
  <1>8. ASSUME NEW k \in Touches(w), k # req[w].key
        PROVE  Settled(k)'
    <2>1. Settled(k) /\ k \in Keys
      BY <1>8, SettledKeys, UnsettledTouched
    <2>2. QED
      BY <1>5, <1>8, <2>1 DEF Settled, Live
  <1>9. QED
    BY <1>1, <1>2, <1>5, <1>7, <1>8 DEF LocalStep

LEMMA PutLocal ==
  ASSUME DisciplinedInv, WellBehaved, NEW w \in Workers,
         PutQuota(w) \/ PutBodyFails(w) \/ PutRename(w) \/ PutVerify(w) \/ PutReject(w)
  PROVE  LocalStep(w)
  <1> USE DEF DisciplinedInv
  <1>1. CASE PutQuota(w)
    <2>1. Pc(w) = "quota" /\ Pc(w) \in WritePcs /\ Unsettled(w) = {}
      BY <1>1, UnsettledShape DEF PutQuota, WritePcs
    <2>2. rows' = rows /\ blobs' = blobs /\ bucket' = bucket
      BY <1>1 DEF PutQuota, store
    <2>3. CASE Finish(w)
      BY <2>1, <2>2, <2>3, GiveUpLocal
    <2>4. CASE OpenTmp(w, "stream", req[w].bytes)
      <3>1. /\ Pc(w)' = "stream" /\ req'[w].bytes = req[w].bytes
            /\ SameFields(req'[w], [req[w] EXCEPT !.bytes = req[w].bytes])
            /\ \A v \in Workers \ {w} : req'[v] = req[v]
        BY <2>1, <2>4, OpenTmpFields
      <3>2. /\ req'[w].content = req[w].content /\ req'[w].key = req[w].key
            /\ req'[w].cond = req[w].cond
        BY <3>1 DEF SameFields
      <3>3. /\ bucket /\ Admits(req[w].cond, rows[req[w].key])
            /\ req[w].bytes = req[w].content
        BY <1>1, <2>1 DEF PutQuota, Sound, WriteSound
      <3>4. Sound(w)'
        BY <2>2, <3>1, <3>2, <3>3, WriteSuffices DEF WriteSound, WritePcs
      <3>5. QED
        BY <2>1, <2>2, <3>1, <3>4, QuietStep
    <2>5. QED
      BY <1>1, <2>3, <2>4 DEF PutQuota
  <1>2. CASE PutBodyFails(w)
    <2>1. Unsettled(w) = {} /\ Sharers(w) = {w}
      BY <1>2, UnsettledShape, NoSharers DEF PutBodyFails, HasTmp
    <2>2. req'[w] = Idle /\ \A v \in Workers \ {w} : req'[v] = req[v]
      BY <1>2, <2>1 DEF PutBodyFails, DropTmp
    <2>3. QED
      BY <1>2, <2>1, <2>2, IdleSound, QuietStep DEF PutBodyFails, store
  <1>3. CASE PutRename(w)
    <2>1. HasTmp(w, req[w].key) /\ Pc(w) \in WritePcs /\ Unsettled(w) = {} /\ Pc(w) # "dest"
      BY <1>3, UnsettledShape DEF PutRename, HasTmp, WritePcs
    <2>2. QED
      BY <1>3, <2>1, RenameTmpFields, PublishLocal DEF PutRename
  <1>4. CASE PutVerify(w)
    <2>1. Pc(w) = "verify" /\ Pc(w) \in WritePcs
      BY <1>4 DEF PutVerify, WritePcs
    <2>2. Goto(w, "commit")
      <3>1. ~WouldExceedQuota(Len(req[w].content), Len(req[w].seen))
        BY DEF WellBehaved, WouldExceedQuota
      <3>2. QED
        BY <1>4, <3>1 DEF PutVerify, WellBehaved
    <2>3. /\ Pc(w)' = "commit" /\ SameFields(req'[w], req[w])
          /\ \A v \in Workers \ {w} : req'[v] = req[v]
      BY <2>1, <2>2, GotoFields
    <2>4. rows' = rows /\ blobs' = blobs /\ bucket' = bucket
      BY <1>4 DEF PutVerify, store
    <2>5. /\ bucket /\ Admits(req[w].cond, rows[req[w].key])
          /\ blobs[req[w].key] = [data |-> req[w].content, open |-> {}]
      BY <2>1 DEF Sound, WriteSound
    <2>6. Sound(w)'
      BY <2>3, <2>4, <2>5, WriteSuffices DEF WriteSound, WritePcs, SameFields
    <2>7. Unsettled(w)' = Unsettled(w)
      BY <2>1, <2>3 DEF Unsettled, SameFields
    <2>8. QED
      BY <2>3, <2>4, <2>6, <2>7, QuietStep
  <1>5. CASE PutReject(w)
    BY <1>5 DEF PutReject, Sound, WriteSound, WritePcs
  <1>6. QED
    BY <1>1, <1>2, <1>3, <1>4, <1>5

LEMMA CopyLocal ==
  ASSUME DisciplinedInv, WellBehaved, NEW w \in Workers,
         CopyDest(w) \/ CopyQuota(w) \/ CopyRead(w) \/ CopyRename(w)
  PROVE  LocalStep(w)
  <1> USE DEF DisciplinedInv
  <1>1. CASE CopyDest(w)
    <2>1. Pc(w) = "dest" /\ Pc(w) \in WritePcs /\ Unsettled(w) = {}
      BY <1>1, UnsettledShape DEF CopyDest, WritePcs
    <2>2. rows' = rows /\ blobs' = blobs /\ bucket' = bucket
      BY <1>1 DEF CopyDest, store
    <2>3. CASE Finish(w)
      BY <2>1, <2>2, <2>3, GiveUpLocal
    <2>4. CASE /\ Admits(req[w].cond, rows[req[w].key])
               /\ req' = [req EXCEPT ![w].pc = "quota", ![w].seen = rows[req[w].key].etag]
      <3>1. req[w] \in WriteReq
        BY <2>1, RequestShape
      <3>2. req'[w] = [req[w] EXCEPT !.pc = "quota", !.seen = rows[req[w].key].etag]
        BY <2>4 DEF TypeOK
      <3>3. Pc(w)' = "quota" /\ SameFields(req'[w], req[w])
        BY <3>1, <3>2 DEF Pc, SameFields, WriteReq
      <3>4. \A v \in Workers \ {w} : req'[v] = req[v]
        BY <2>4 DEF TypeOK
      <3>5. bucket /\ rows[req[w].src].etag = req[w].content
        BY <2>1 DEF Sound, WriteSound
      <3>6. req[w].op = "copy"
        BY <2>1 DEF Sound, WriteSound
      <3>7. Sound(w)'
        BY <2>2, <2>4, <3>3, <3>5, <3>6, WriteSuffices DEF WriteSound, WritePcs, SameFields
      <3>8. QED
        BY <2>1, <2>2, <3>4, <3>7, QuietStep
    <2>5. QED
      BY <1>1, <2>3, <2>4 DEF CopyDest
  <1>2. CASE CopyQuota(w)
    <2>1. Pc(w) = "quota" /\ Pc(w) \in WritePcs /\ Unsettled(w) = {}
      BY <1>2, UnsettledShape DEF CopyQuota, WritePcs
    <2>2. rows' = rows /\ blobs' = blobs /\ bucket' = bucket
      BY <1>2 DEF CopyQuota, store
    <2>3. CASE Finish(w)
      BY <2>1, <2>2, <2>3, GiveUpLocal
    <2>4. CASE Goto(w, "read")
      <3>1. /\ Pc(w)' = "read" /\ SameFields(req'[w], req[w])
            /\ \A v \in Workers \ {w} : req'[v] = req[v]
        BY <2>1, <2>4, GotoFields
      <3>2. /\ bucket /\ Admits(req[w].cond, rows[req[w].key])
            /\ rows[req[w].src].etag = req[w].content
        BY <1>2, <2>1 DEF CopyQuota, Sound, WriteSound
      <3>3. Sound(w)'
        BY <2>2, <3>1, <3>2, WriteSuffices DEF WriteSound, WritePcs, SameFields
      <3>4. QED
        BY <2>1, <2>2, <3>1, <3>3, QuietStep
    <2>5. QED
      BY <1>2, <2>3, <2>4 DEF CopyQuota
  <1>3. CASE CopyRead(w)
    <2>1. Pc(w) = "read" /\ Pc(w) \in WritePcs /\ Unsettled(w) = {}
      BY <1>3, UnsettledShape DEF CopyRead, WritePcs
    <2>2. rows' = rows /\ blobs' = blobs /\ bucket' = bucket
      BY <1>3 DEF CopyRead, store
    <2>3. CASE Finish(w)
      BY <2>1, <2>2, <2>3, GiveUpLocal
    <2>4. CASE OpenTmp(w, "rename", blobs[req[w].src].data)
      <3> DEFINE bytes == blobs[req[w].src].data
      <3>1. /\ bucket /\ Admits(req[w].cond, rows[req[w].key])
            /\ rows[req[w].src].etag = req[w].content
        BY <2>1 DEF Sound, WriteSound
      <3>2. req[w] \in WriteReq
        BY <2>1, RequestShape
      <3>3. bytes = req[w].content
        <4>1. Settled(req[w].src)
          BY <2>1, TouchesShape, SettledKeys
        <4>2. Live(req[w].src)
          BY <3>1, <3>2, MarkerAssumption DEF Live, NoRow, WriteReq
        <4>3. QED
          BY <3>1, <4>1, <4>2 DEF Settled
      <3>4. /\ Pc(w)' = "rename" /\ req'[w].bytes = bytes
            /\ SameFields(req'[w], [req[w] EXCEPT !.bytes = bytes])
            /\ \A v \in Workers \ {w} : req'[v] = req[v]
        BY <2>1, <2>4, OpenTmpFields
      <3>5. /\ req'[w].content = req[w].content /\ req'[w].key = req[w].key
            /\ req'[w].cond = req[w].cond
        BY <3>2, <3>4 DEF SameFields, WriteReq
      <3>6. Sound(w)'
        BY <2>2, <3>1, <3>3, <3>4, <3>5, WriteSuffices DEF WriteSound, WritePcs
      <3>7. QED
        BY <2>1, <2>2, <3>4, <3>6, QuietStep
    <2>5. QED
      BY <1>3, <2>3, <2>4 DEF CopyRead
  <1>4. CASE CopyRename(w)
    <2>1. HasTmp(w, req[w].key) /\ Pc(w) \in WritePcs /\ Unsettled(w) = {} /\ Pc(w) # "dest"
      BY <1>4, UnsettledShape DEF CopyRename, HasTmp, WritePcs
    <2>2. QED
      BY <1>4, <2>1, RenameTmpFields, PublishLocal DEF CopyRename
  <1>5. QED
    BY <1>1, <1>2, <1>3, <1>4

LEMMA UploadLocal ==
  ASSUME DisciplinedInv, NEW w \in Workers,
         UploadQuota(w) \/ UploadTruncate(w) \/ UploadFill(w)
  PROVE  LocalStep(w)
  <1> USE DEF DisciplinedInv
  <1>1. CASE UploadQuota(w)
    <2>1. Pc(w) = "quota" /\ Pc(w) \in WritePcs /\ Unsettled(w) = {}
      BY <1>1, UnsettledShape DEF UploadQuota, WritePcs
    <2>2. rows' = rows /\ blobs' = blobs /\ bucket' = bucket
      BY <1>1 DEF UploadQuota, store
    <2>3. CASE Finish(w)
      BY <2>1, <2>2, <2>3, GiveUpLocal
    <2>4. CASE Goto(w, "truncate")
      <3>1. /\ Pc(w)' = "truncate" /\ SameFields(req'[w], req[w])
            /\ \A v \in Workers \ {w} : req'[v] = req[v]
        BY <2>1, <2>4, GotoFields
      <3>2. bucket /\ Admits(req[w].cond, rows[req[w].key])
        BY <2>1 DEF Sound, WriteSound
      <3>3. Sound(w)'
        BY <2>2, <3>1, <3>2, WriteSuffices DEF WriteSound, WritePcs, SameFields
      <3>4. QED
        BY <2>1, <2>2, <3>1, <3>3, QuietStep
    <2>5. QED
      BY <1>1, <2>3, <2>4 DEF UploadQuota
  <1>2. CASE UploadTruncate(w)
    <2>1. Pc(w) = "truncate" /\ Pc(w) \in WritePcs /\ Unsettled(w) = {}
      BY <1>2, UnsettledShape DEF UploadTruncate, WritePcs
    <2>2. rows' = rows /\ bucket' = bucket
      BY <1>2 DEF UploadTruncate
    <2>3. /\ Pc(w)' = "fill" /\ SameFields(req'[w], req[w])
          /\ \A v \in Workers \ {w} : req'[v] = req[v]
      BY <1>2, <2>1, GotoFields DEF UploadTruncate
    <2>4. req[w].key \in Keys /\ Touches(w) = {req[w].key, req[w].src}
      BY <2>1, TouchesShape
    <2>5. blobs[req[w].key].open = {}
      <3>1. Settled(req[w].key)
        BY <2>1, <2>4, SettledKeys
      <3>2. QED
        BY <3>1 DEF Settled
    <2>6. /\ blobs'[req[w].key] = [data |-> Torn, open |-> {w}]
          /\ \A k \in Keys \ {req[w].key} : blobs'[k] = blobs[k]
      BY <1>2, <2>4, <2>5 DEF UploadTruncate, TypeOK
    <2>7. bucket /\ Admits(req[w].cond, rows[req[w].key])
      BY <2>1 DEF Sound, WriteSound
    <2>8. Sound(w)'
      BY <2>2, <2>3, <2>6, <2>7, WriteSuffices DEF WriteSound, WritePcs, SameFields
    <2>9. Unsettled(w)' = {req[w].key}
      BY <2>3 DEF Unsettled, SameFields
    <2>10. ASSUME NEW k \in Touches(w), k # req[w].key
           PROVE  Settled(k)'
      <3>1. Settled(k) /\ k \in Keys
        BY <2>1, <2>10, SettledKeys, UnsettledTouched
      <3>2. QED
        BY <2>2, <2>6, <2>10, <3>1 DEF Settled, Live
    <2>11. QED
      BY <2>2, <2>3, <2>4, <2>6, <2>8, <2>9, <2>10 DEF LocalStep
  <1>3. CASE UploadFill(w)
    <2>1. Pc(w) = "fill" /\ Pc(w) \in WritePcs /\ Unsettled(w) = {req[w].key}
      BY <1>3, UnsettledShape DEF UploadFill, WritePcs
    <2>2. rows' = rows /\ bucket' = bucket
      BY <1>3 DEF UploadFill
    <2>3. /\ Pc(w)' = "commit" /\ SameFields(req'[w], req[w])
          /\ \A v \in Workers \ {w} : req'[v] = req[v]
      BY <1>3, <2>1, GotoFields DEF UploadFill
    <2>4. blobs[req[w].key] = [data |-> Torn, open |-> {w}]
      BY <2>1 DEF Sound, WriteSound
    <2>5. blobs' = [blobs EXCEPT ![req[w].key] = [data |-> req[w].content, open |-> {}]]
      <3>1. /\ w \in blobs[req[w].key].open /\ blobs[req[w].key].open = {w}
            /\ blobs[req[w].key].data = Torn /\ blobs[req[w].key].open \ {w} = {}
        BY <2>4
      <3>2. QED
        BY <1>3, <3>1 DEF UploadFill
    <2>6. QED
      BY <2>1, <2>2, <2>3, <2>5, PublishLocal
  <1>4. QED
    BY <1>1, <1>2, <1>3

(* The row is written over one that still satisfies the precondition, and  *)
(* names the payload the file already holds.                               *)
LEMMA CommitFields ==
  ASSUME DisciplinedInv, NEW w \in Workers, CommitRow(w)
  PROVE  /\ bucket /\ Admits(req[w].cond, rows[req[w].key])
         /\ req[w].key \in Keys /\ req[w].content \in Contents
         /\ rows'[req[w].key] # NoRow /\ rows'[req[w].key].etag = req[w].content
         /\ \A k \in Keys \ {req[w].key} : rows'[k] = rows[k]
         /\ blobs[req[w].key] = [data |-> req[w].content, open |-> {}]
  <1> USE DEF DisciplinedInv
  <1>1. Pc(w) = "commit" /\ Pc(w) \in WritePcs
    BY DEF CommitRow, WritePcs
  <1>2. req[w].key \in Keys /\ req[w].content \in Contents
    BY <1>1, RequestShape DEF WriteReq
  <1>3. /\ bucket /\ Admits(req[w].cond, rows[req[w].key])
        /\ blobs[req[w].key] = [data |-> req[w].content, open |-> {}]
    BY <1>1 DEF Sound, WriteSound
  <1>4. PICK id, crc : rows' = [rows EXCEPT ![req[w].key] =
                                  [id |-> id, etag |-> req[w].content,
                                   crc |-> crc, old |-> FALSE]]
    BY <1>3 DEF CommitRow
  <1>5. rows'[req[w].key] = [id |-> id, etag |-> req[w].content, crc |-> crc, old |-> FALSE]
    BY <1>2, <1>4 DEF TypeOK
  <1>6. rows'[req[w].key] # NoRow
    BY <1>2, <1>5, MarkerAssumption DEF NoRow
  <1>7. QED
    BY <1>2, <1>3, <1>4, <1>5, <1>6 DEF TypeOK

LEMMA CommitLocal ==
  ASSUME DisciplinedInv, NEW w \in Workers, CommitRow(w)
  PROVE  LocalStep(w)
  <1>1. Pc(w) = "commit" /\ Unsettled(w) = {req[w].key}
    BY UnsettledShape DEF CommitRow, DisciplinedInv
  <1>2. Touches(w) = {req[w].key, req[w].src} /\ Touches(w) \subseteq Keys
    BY <1>1, TouchesShape, UnsettledTouched DEF WritePcs, DisciplinedInv
  <1>3. /\ req'[w] = Idle /\ \A v \in Workers \ {w} : req'[v] = req[v]
        /\ blobs' = blobs /\ bucket' = bucket
    BY FinishFields, CommitFields DEF CommitRow, DisciplinedInv
  <1>4. /\ req[w].key \in Keys
        /\ rows'[req[w].key] # NoRow /\ rows'[req[w].key].etag = req[w].content
        /\ \A k \in Keys \ {req[w].key} : rows'[k] = rows[k]
        /\ blobs[req[w].key] = [data |-> req[w].content, open |-> {}]
    BY CommitFields
  <1>5. ASSUME NEW k \in Touches(w), k = req[w].key
        PROVE  Settled(k)'
    BY <1>3, <1>4, <1>5 DEF Settled, Live
  <1>6. ASSUME NEW k \in Touches(w), k # req[w].key
        PROVE  Settled(k)'
    <2>1. Settled(k) /\ k \in Keys
      BY <1>1, <1>2, <1>6, SettledKeys
    <2>2. QED
      BY <1>2, <1>3, <1>4, <1>6, <2>1 DEF Settled, Live
  <1>7. QED
    BY <1>2, <1>3, <1>4, <1>5, <1>6, IdleSound DEF LocalStep

(* Deletions.  A key not on the list any more is unsettled until its row,  *)
(* or the whole bucket, is gone.                                           *)
LEMMA VictimsDistinct ==
  ASSUME DisciplinedInv, NEW w \in Workers, Pc(w) \in {"unlink", "rmrow", "purge"},
         NEW v \in req[w].todo, NEW u \in req[w].todo, u.key = v.key
  PROVE  u = v
  <1>1. u \in Victim /\ v \in Victim
    BY RequestShape DEF DisciplinedInv
  <1>2. u.id = v.id
    BY DEF DisciplinedInv, Sound, DeleteSound
  <1>3. QED
    BY <1>1, <1>2 DEF Victim

LEMMA UnlinkLocal ==
  ASSUME DisciplinedInv, NEW w \in Workers, UnlinkVictim(w)
  PROVE  LocalStep(w)
  <1>1. /\ Pc(w) = "unlink" /\ Unsettled(w) = {} /\ TypeOK
        /\ req[w].todo \subseteq Victim /\ Touches(w) = {u.key : u \in req[w].todo}
        /\ Touches(w) \subseteq Keys
    BY UnsettledShape, UnsettledTouched, TouchesShape, RequestShape
       DEF UnlinkVictim, DisciplinedInv
  <1>2. PICK v \in req[w].todo :
          /\ Unlink(v.key)
          /\ req' = [req EXCEPT ![w] = [pc |-> "rmrow", victim |-> v,
                                        todo |-> req[w].todo \ {v}]]
    BY DEF UnlinkVictim
  <1>3. v.key \in Touches(w) /\ v.key \in Keys
    BY <1>1
  <1>4. /\ rows' = rows /\ bucket' = bucket /\ blobs'[v.key] = NoBlob
        /\ \A k \in Keys \ {v.key} : blobs'[k] = blobs[k]
    BY <1>1, <1>2, <1>3 DEF UnlinkVictim, Unlink, TypeOK
  <1>5. /\ Pc(w)' = "rmrow" /\ req'[w].victim = v /\ req'[w].todo = req[w].todo \ {v}
        /\ \A u \in Workers \ {w} : req'[u] = req[u]
    BY <1>1, <1>2 DEF Pc, TypeOK
  <1>6. \A u \in req[w].todo : rows[u.key].id = u.id
    BY <1>1 DEF DisciplinedInv, Sound, DeleteSound
  <1>7. \A u \in req[w].todo \ {v} : u.key # v.key
    BY <1>1, VictimsDistinct
  <1>8. Sound(w)'
    BY <1>4, <1>5, <1>6, <1>7 DEF Sound, WriteSound, ReadSound, DeleteSound, WritePcs
  <1>9. Unsettled(w)' = {v.key}
    BY <1>5 DEF Unsettled
  <1>10. ASSUME NEW k \in Touches(w), k # v.key
         PROVE  Settled(k)'
    <2>1. Settled(k) /\ k \in Keys
      BY <1>1, SettledKeys
    <2>2. QED
      BY <1>4, <1>10, <2>1 DEF Settled, Live
  <1>11. QED
    BY <1>3, <1>4, <1>5, <1>8, <1>9, <1>10 DEF LocalStep

LEMMA DeleteRowFields ==
  ASSUME DisciplinedInv, NEW w \in Workers, DeleteRow(w)
  PROVE  /\ req[w].victim.key \in Keys /\ rows[req[w].victim.key] \in Row
         /\ rows' = [rows EXCEPT ![req[w].victim.key] = NoRow]
  <1>1. Pc(w) = "rmrow" /\ req[w].victim \in Victim
    BY RequestShape DEF DeleteRow, DisciplinedInv
  <1>2. rows[req[w].victim.key].id = req[w].victim.id
    BY <1>1 DEF DisciplinedInv, Sound, DeleteSound
  <1>3. rows[req[w].victim.key].id # 0 /\ req[w].victim.key \in Keys
    BY <1>1, <1>2 DEF Victim
  <1>4. rows[req[w].victim.key] \in Row
    BY <1>3 DEF DisciplinedInv, TypeOK, NoRow
  <1>5. QED
    BY <1>2, <1>3, <1>4 DEF DeleteRow

LEMMA DeleteRowLocal ==
  ASSUME DisciplinedInv, NEW w \in Workers, DeleteRow(w)
  PROVE  LocalStep(w)
  <1> DEFINE key == req[w].victim.key
  <1>1. /\ Pc(w) = "rmrow" /\ Unsettled(w) = {key} /\ TypeOK
        /\ Touches(w) = {key} \cup {u.key : u \in req[w].todo} /\ Touches(w) \subseteq Keys
    BY UnsettledShape, UnsettledTouched, TouchesShape DEF DeleteRow, DisciplinedInv
  <1>2. /\ blobs[key] = NoBlob
        /\ \A u \in req[w].todo : u.key # key /\ rows[u.key].id = u.id
    BY <1>1 DEF DisciplinedInv, Sound, DeleteSound
  <1>3. rows' = [rows EXCEPT ![key] = NoRow] /\ key \in Keys
    BY DeleteRowFields
  <1>4. /\ rows'[key] = NoRow /\ \A k \in Keys \ {key} : rows'[k] = rows[k]
        /\ blobs' = blobs /\ bucket' = bucket
    BY <1>1, <1>3 DEF DeleteRow, TypeOK
  <1>5. /\ req'[w] = IF req[w].todo = {} THEN Idle
                     ELSE [pc |-> "unlink", todo |-> req[w].todo]
        /\ \A u \in Workers \ {w} : req'[u] = req[u]
    BY <1>1 DEF DeleteRow, TypeOK
  <1>6. Sound(w)'
    <2>1. CASE req[w].todo = {}
      BY <1>5, <2>1, IdleSound
    <2>2. CASE req[w].todo # {}
      <3>1. Pc(w)' = "unlink" /\ req'[w].todo = req[w].todo
        BY <1>5, <2>2 DEF Pc
      <3>2. \A u \in req[w].todo : rows'[u.key].id = u.id
        BY <1>1, <1>2, <1>4
      <3>3. QED
        BY <3>1, <3>2 DEF Sound, WriteSound, ReadSound, DeleteSound, WritePcs
    <2>3. QED
      BY <2>1, <2>2
  <1>7. ASSUME NEW k \in Touches(w)
        PROVE  Settled(k)'
    <2>1. CASE k = key
      BY <1>2, <1>4, <2>1 DEF Settled, Live, NoBlob
    <2>2. CASE k # key
      <3>1. Settled(k) /\ k \in Keys
        BY <1>1, <2>2, SettledKeys
      <3>2. QED
        BY <1>4, <2>2, <3>1 DEF Settled, Live
    <2>3. QED
      BY <2>1, <2>2
  <1>8. QED
    BY <1>1, <1>4, <1>5, <1>6, <1>7 DEF LocalStep

LEMMA DropLocal ==
  ASSUME DisciplinedInv, NEW w \in Workers, DropUnlink(w) \/ DropCascade(w)
  PROVE  LocalStep(w)
  <1>1. /\ Pc(w) = "purge" /\ TypeOK /\ Touches(w) = Keys /\ req[w].todo \subseteq Victim
        /\ Unsettled(w) = {k \in Keys : \A v \in req[w].todo : v.key # k}
    BY UnsettledShape, TouchesShape, RequestShape DEF DropUnlink, DropCascade, DisciplinedInv
  <1>2. /\ \A v \in req[w].todo : rows[v.key].id = v.id
        /\ \A k \in Unsettled(w) : blobs[k] = NoBlob
    BY <1>1 DEF DisciplinedInv, Sound, DeleteSound
  <1>3. CASE DropUnlink(w)
    <2>1. PICK v \in req[w].todo :
            /\ Unlink(v.key)
            /\ req' = [req EXCEPT ![w].todo = @ \ {v}]
      BY <1>3 DEF DropUnlink
    <2>2. v.key \in Keys
      BY <1>1 DEF Victim
    <2>3. /\ rows' = rows /\ bucket' = bucket /\ blobs'[v.key] = NoBlob
          /\ \A k \in Keys \ {v.key} : blobs'[k] = blobs[k]
      BY <1>1, <1>3, <2>1, <2>2 DEF DropUnlink, Unlink, TypeOK
    <2>4. /\ Pc(w)' = "purge" /\ req'[w].todo = req[w].todo \ {v}
          /\ \A u \in Workers \ {w} : req'[u] = req[u]
      <3>1. req[w] \in [pc : {"unlink", "purge"}, todo : SUBSET Victim]
        BY <1>1, RequestShape
      <3>2. req'[w] = [req[w] EXCEPT !.todo = @ \ {v}]
        BY <1>1, <2>1 DEF TypeOK
      <3>3. \A u \in Workers \ {w} : req'[u] = req[u]
        BY <1>1, <2>1 DEF TypeOK
      <3>4. QED
        BY <1>1, <3>1, <3>2, <3>3 DEF Pc
    <2>5. Unsettled(w)' = Unsettled(w) \cup {v.key}
      <3>1. Unsettled(w)' = {k \in Keys : \A u \in req[w].todo \ {v} : u.key # k}
        BY <2>4 DEF Unsettled
      <3>2. \A u \in req[w].todo \ {v} : u.key # v.key
        BY <1>1, VictimsDistinct
      <3>3. QED
        BY <1>1, <2>2, <3>1, <3>2
    <2>6. \A k \in Unsettled(w)' : blobs'[k] = NoBlob
      BY <1>1, <1>2, <2>3, <2>5
    <2>7. \A u \in req'[w].todo : rows'[u.key].id = u.id
      BY <1>2, <2>3, <2>4
    <2>8. Sound(w)'
      BY <2>4, <2>6, <2>7 DEF Sound, WriteSound, ReadSound, DeleteSound, WritePcs
    <2>9. ASSUME NEW k \in Touches(w), k \notin Unsettled(w)'
          PROVE  Settled(k)'
      <3>1. Settled(k) /\ k \in Keys /\ k # v.key
        BY <1>1, <2>5, <2>9, SettledKeys
      <3>2. QED
        BY <2>3, <3>1 DEF Settled, Live
    <2>10. QED
      BY <1>1, <2>3, <2>4, <2>8, <2>9 DEF LocalStep
  <1>4. CASE DropCascade(w)
    <2>1. Unsettled(w) = Keys
      BY <1>1, <1>4 DEF DropCascade
    <2>2. /\ req'[w] = Idle /\ \A v \in Workers \ {w} : req'[v] = req[v]
          /\ blobs' = blobs /\ rows' = [k \in Keys |-> NoRow]
      BY <1>1, <1>4, FinishFields DEF DropCascade
    <2>3. ASSUME NEW k \in Keys
          PROVE  Settled(k)'
      BY <1>2, <2>1, <2>2 DEF Settled, Live, NoBlob
    <2>4. QED
      BY <1>1, <2>2, <2>3, IdleSound DEF LocalStep
  <1>5. QED
    BY <1>3, <1>4

LEMMA TagLocal ==
  ASSUME DisciplinedInv, NEW w \in Workers, TagUpdate(w)
  PROVE  LocalStep(w) /\ \A k \in Keys : rows'[k].etag = rows[k].etag
  <1>1. /\ Pc(w) = "tag" /\ TypeOK /\ req[w].victim \in Victim /\ Unsettled(w) = {}
        /\ Touches(w) = {req[w].victim.key} /\ req[w].victim.key \in Keys
    BY UnsettledShape, TouchesShape, RequestShape DEF TagUpdate, TagReq, Victim, DisciplinedInv
  <1>2. /\ req'[w] = Idle /\ \A v \in Workers \ {w} : req'[v] = req[v]
        /\ blobs' = blobs /\ bucket' = bucket
    BY <1>1, FinishFields DEF TagUpdate
  <1>3. ASSUME NEW k \in Keys
        PROVE  /\ rows'[k].etag = rows[k].etag
               /\ rows'[k] = NoRow <=> rows[k] = NoRow
               /\ k # req[w].victim.key => rows'[k] = rows[k]
    <2>1. CASE rows[req[w].victim.key].id = req[w].victim.id
      <3>1. rows[req[w].victim.key].id # 0
        BY <1>1, <2>1 DEF Victim
      <3>2. rows[req[w].victim.key] \in Row
        BY <1>1, <3>1 DEF TypeOK, NoRow
      <3>3. rows' = [rows EXCEPT ![req[w].victim.key].old = FALSE]
        BY <2>1 DEF TagUpdate
      <3>4. rows'[k].etag = rows[k].etag /\ rows'[k].id = rows[k].id
        BY <1>1, <3>2, <3>3 DEF TypeOK, Row
      <3>5. k = req[w].victim.key => rows[k].id # 0 /\ rows'[k].id # 0
        BY <3>1, <3>4
      <3>6. k # req[w].victim.key => rows'[k] = rows[k]
        BY <1>1, <3>3 DEF TypeOK
      <3>7. QED
        BY <3>4, <3>5, <3>6 DEF NoRow
    <2>2. CASE rows[req[w].victim.key].id # req[w].victim.id
      BY <2>2 DEF TagUpdate
    <2>3. QED
      BY <2>1, <2>2
  <1>4. ASSUME NEW k \in Touches(w)
        PROVE  Settled(k)'
    <2>1. Settled(k) /\ k \in Keys
      BY <1>1, SettledKeys
    <2>2. QED
      BY <1>2, <1>3, <2>1 DEF Settled, Live
  <1>5. QED
    BY <1>1, <1>2, <1>3, <1>4, IdleSound DEF LocalStep

LEMMA GetLocal ==
  ASSUME DisciplinedInv, NEW w \in Workers, GetOpen(w)
  PROVE  LocalStep(w)
  <1>1. Pc(w) = "open" /\ Unsettled(w) = {}
    BY UnsettledShape DEF GetOpen, DisciplinedInv
  <1>2. QED
    BY <1>1, GiveUpLocal DEF GetOpen, store

LEMMA StepLocal ==
  ASSUME DisciplinedInv, WellBehaved, NEW w \in Workers, Step(w)
  PROVE  LocalStep(w)
  BY PutLocal, CopyLocal, UploadLocal, CommitLocal, TagLocal, UnlinkLocal,
     DeleteRowLocal, DropLocal, GetLocal DEF Step

----------------------------------------------------------------------------
(* The environment: rows age, .tmp- files go, and nothing dies.            *)

LEMMA AgeFields ==
  ASSUME TypeOK, NEW j \in Keys, Age(j)
  PROVE  \A k \in Keys : /\ RowKept(k) /\ rows'[k].etag = rows[k].etag
                         /\ rows'[k] = NoRow <=> rows[k] = NoRow
  <1> SUFFICES ASSUME NEW k \in Keys
               PROVE  /\ RowKept(k) /\ rows'[k].etag = rows[k].etag
                      /\ rows'[k] = NoRow <=> rows[k] = NoRow
    OBVIOUS
  <1>1. CASE k = j
    <2>1. rows[j] \in Row /\ rows'[j] = [rows[j] EXCEPT !.old = TRUE]
      BY DEF Age, Live, TypeOK
    <2>2. rows'[j].id = rows[j].id /\ rows[j].id # 0 /\ rows'[j].etag = rows[j].etag
      BY <2>1 DEF Row
    <2>3. QED
      BY <1>1, <2>1, <2>2 DEF RowKept, NoRow
  <1>2. CASE k # j
    BY <1>2 DEF Age, TypeOK, RowKept
  <1>3. QED
    BY <1>1, <1>2

LEMMA EnvironmentFields ==
  ASSUME TypeOK, WellBehaved, Environment
  PROVE  /\ UNCHANGED <<bucket, blobs, req, reply>>
         /\ \A k \in Keys : /\ RowKept(k) /\ rows'[k].etag = rows[k].etag
                            /\ rows'[k] = NoRow <=> rows[k] = NoRow
  <1>1. ASSUME NEW j \in Keys, Age(j)
        PROVE  UNCHANGED <<bucket, blobs, req, reply>>
    BY <1>1 DEF Age
  <1>2. CASE SweepTmpFiles \/ \E j \in Keys : LitterAges(j)
    BY <1>2 DEF SweepTmpFiles, LitterAges, RowKept
  <1>3. ~Crash
    <2>1. crashes \in Nat /\ MaxCrashes = 0
      BY DEF TypeOK, WellBehaved
    <2>2. QED
      BY <2>1 DEF Crash
  <1>4. QED
    BY <1>1, <1>2, <1>3, AgeFields DEF Environment

LEMMA EnvironmentPreserves ==
  ASSUME DisciplinedInv, WellBehaved, TypeOK', NoOverlap', Environment
  PROVE  DisciplinedInv'
  <1>1. TypeOK /\ UNCHANGED <<bucket, blobs, req>>
    BY EnvironmentFields DEF DisciplinedInv
  <1>2. \A k \in Keys : /\ RowKept(k) /\ rows'[k].etag = rows[k].etag
                        /\ rows'[k] = NoRow <=> rows[k] = NoRow
    BY <1>1, EnvironmentFields
  <1>3. ASSUME NEW w \in Workers
        PROVE  Sound(w)' /\ Unsettled(w)' = Unsettled(w)
    <2>1. Sound(w) /\ Touches(w) \subseteq Keys
      BY <1>1, UnsettledTouched DEF DisciplinedInv
    <2>2. QED
      BY <1>1, <1>2, <2>1, SoundFrame
  <1>4. AllSettled'
    <2>1. ASSUME NEW k \in Keys, Settled(k)
          PROVE  Settled(k)'
      BY <1>1, <1>2, <2>1 DEF Settled, Live
    <2>2. QED
      BY <1>3, <2>1 DEF DisciplinedInv, AllSettled
  <1>5. QED
    BY <1>3, <1>4 DEF DisciplinedInv

----------------------------------------------------------------------------
(* The theorems.                                                           *)

LEMMA DisciplinedInit == Init => DisciplinedInv
  <1> SUFFICES ASSUME Init
               PROVE  DisciplinedInv
    OBVIOUS
  <1>1. TypeOK
    BY DEF Init, TypeOK, NoBlob, Blob, Bytes, NoReply, Idle
  <1>2. ASSUME NEW w \in Workers
        PROVE  Pc(w) = "idle" /\ Touches(w) = {} /\ Unsettled(w) = {}
    <2>1. Pc(w) = "idle"
      BY DEF Init, Pc, Idle
    <2>2. QED
      BY <1>1, <2>1, TouchesShape, UnsettledShape
  <1>3. NoOverlap
    BY <1>2 DEF NoOverlap
  <1>4. AllSettled
    BY DEF Init, AllSettled, Settled, Live, NoBlob
  <1>5. \A w \in Workers : Sound(w)
    BY <1>2 DEF Sound, WriteSound, ReadSound, DeleteSound, WritePcs
  <1>6. QED
    BY <1>1, <1>3, <1>4, <1>5 DEF DisciplinedInv

LEMMA DisciplinedStep ==
  ASSUME WellBehaved, DisciplinedInv, [DisciplinedNext]_vars
  PROVE  DisciplinedInv'
  <1>1. CASE UNCHANGED vars
    <2>1. \A w \in Workers : /\ Sound(w)' = Sound(w) /\ Unsettled(w)' = Unsettled(w)
                             /\ Touches(w)' = Touches(w)
      BY <1>1 DEF vars, Sound, WriteSound, ReadSound, DeleteSound, Unsettled, Touches,
                  Pc, Admits
    <2>2. \A k \in Keys : Settled(k)' = Settled(k)
      BY <1>1 DEF vars, Settled, Live
    <2>3. TypeOK'
      BY <1>1 DEF vars, TypeOK, DisciplinedInv
    <2>4. QED
      BY <2>1, <2>2, <2>3 DEF DisciplinedInv, NoOverlap, AllSettled
  <1>2. CASE DisciplinedNext
    <2>1. TypeOK /\ TypeOK' /\ NoOverlap'
      BY <1>2, BeginType, StepType, EnvironmentType DEF DisciplinedNext, Next, DisciplinedInv
    <2>2. ASSUME NEW w \in Workers, Begin(w) \/ Step(w)
          PROVE  DisciplinedInv'
      BY <2>1, <2>2, BeginLocal, StepLocal, LocalStepPreserves
    <2>3. QED
      BY <1>2, <2>1, <2>2, EnvironmentPreserves DEF DisciplinedNext, Next
  <1>3. QED
    BY <1>1, <1>2

LEMMA DisciplinedInvariant ==
  ASSUME WellBehaved
  PROVE  DisciplinedSpec => []DisciplinedInv
  <1>1. DisciplinedInv /\ [DisciplinedNext]_vars => DisciplinedInv'
    BY DisciplinedStep
  <1>2. QED
    BY <1>1, DisciplinedInit, PTL DEF DisciplinedSpec

(* Whatever mixture of operations clients issue, a key no request is       *)
(* working on has the file its row names, and no file if it has no row.    *)
THEOREM QuietKeysMatch ==
  ASSUME WellBehaved
  PROVE  DisciplinedSpec => []RowMatchesBlob
  <1>1. DisciplinedInv => RowMatchesBlob
    <2> SUFFICES ASSUME DisciplinedInv, NEW k \in Keys, Quiet(k)
                 PROVE  blobs[k].data = IF Live(k) THEN rows[k].etag ELSE Absent
      BY DEF RowMatchesBlob
    <2>1. \A w \in Workers : k \notin Unsettled(w)
      BY UnsettledTouched DEF Quiet, DisciplinedInv
    <2>2. Settled(k)
      BY <2>1 DEF DisciplinedInv, AllSettled
    <2>3. QED
      BY <2>2 DEF Settled
  <1>2. QED
    BY <1>1, DisciplinedInvariant, PTL

(* A write sent with a precondition replaces a row that still satisfies it.*)
THEOREM ConditionsHold ==
  ASSUME WellBehaved
  PROVE  DisciplinedSpec => ConditionHoldsAtCommit
  <1> DEFINE Committed == \A w \in Workers : CommitRow(w) /\ bucket =>
                            Admits(req[w].cond, rows[req[w].key])
  <1>1. DisciplinedInv /\ [DisciplinedNext]_vars => [Committed]_vars
    BY CommitFields
  <1>2. QED
    BY <1>1, DisciplinedInvariant, PTL DEF DisciplinedSpec, ConditionHoldsAtCommit

----------------------------------------------------------------------------
(* Refinement: the abstract store changes when a row is written or goes,   *)
(* and is read when the body is opened; every other step is a stutter.     *)

AtomicContent == [k \in Keys |-> rows[k].etag]
Stutters == AtomicContent' = AtomicContent /\ reply' = reply

LEMMA SameRowsStutter ==
  ASSUME rows' = rows, reply' = reply
  PROVE  Stutters
  BY DEF Stutters, AtomicContent

LEMMA BeginStutters ==
  ASSUME NEW w \in Workers, Begin(w)
  PROVE  Stutters
  BY SameRowsStutter
     DEF Begin, PutBegin, CopyBegin, UploadBegin, TagBegin, DeleteObject, DeleteObjects,
         SweepExpiredObjects, DeleteBegin, DropBegin, MakeBucket, GetBegin, store

LEMMA CommitWrites ==
  ASSUME DisciplinedInv, NEW w \in Workers, CommitRow(w)
  PROVE  \E k \in Keys, c \in Contents : Atomic!Write(k, c)
  <1>1. /\ req[w].key \in Keys /\ req[w].content \in Contents
        /\ rows'[req[w].key].etag = req[w].content
        /\ \A k \in Keys \ {req[w].key} : rows'[k] = rows[k]
    BY CommitFields
  <1>2. AtomicContent' = [AtomicContent EXCEPT ![req[w].key] = req[w].content]
    BY <1>1 DEF AtomicContent
  <1>3. reply' = reply
    BY DEF CommitRow
  <1>4. QED
    BY <1>1, <1>2, <1>3 DEF Atomic!Write, AtomicContent

LEMMA DeleteRowRemoves ==
  ASSUME DisciplinedInv, NEW w \in Workers, DeleteRow(w)
  PROVE  \E k \in Keys : Atomic!Remove(k)
  <1> DEFINE key == req[w].victim.key
  <1>1. key \in Keys /\ rows[key] \in Row /\ rows' = [rows EXCEPT ![key] = NoRow]
    BY DeleteRowFields
  <1>2. AtomicContent' = [AtomicContent EXCEPT ![key] = None]
    BY <1>1 DEF AtomicContent, NoRow, DisciplinedInv, TypeOK
  <1>3. AtomicContent[key] # None
    BY <1>1, MarkerAssumption DEF AtomicContent, Row
  <1>4. reply' = reply
    BY DEF DeleteRow
  <1>5. QED
    BY <1>1, <1>2, <1>3, <1>4 DEF Atomic!Remove, AtomicContent

LEMMA CascadeRemovesAll ==
  ASSUME NEW w \in Workers, DropCascade(w)
  PROVE  Atomic!RemoveAll
  BY DEF DropCascade, Atomic!RemoveAll, NoRow

LEMMA OpenReads ==
  ASSUME DisciplinedInv, NEW w \in Workers, GetOpen(w)
  PROVE  \E k \in Keys : Atomic!Read(k)
  <1> DEFINE key == req[w].key
  <1>1. /\ Pc(w) = "open" /\ key \in Touches(w) /\ key \in Keys /\ Unsettled(w) = {}
        /\ req[w].etag \in Contents
    BY TouchesShape, UnsettledShape, RequestShape DEF GetOpen, ReadReq, DisciplinedInv
  <1>2. rows[key].etag = req[w].etag
    BY <1>1 DEF DisciplinedInv, Sound, ReadSound
  <1>3. Settled(key)
    BY <1>1, SettledKeys
  <1>4. Live(key)
    BY <1>1, <1>2, MarkerAssumption DEF Live, NoRow
  <1>5. blobs[key].data = req[w].etag /\ req[w].etag # Absent
    BY <1>1, <1>2, <1>3, <1>4, MarkerAssumption DEF Settled
  <1>6. reply' = [etag |-> rows[key].etag, body |-> rows[key].etag] /\ rows' = rows
    BY <1>2, <1>5 DEF GetOpen, store
  <1>7. AtomicContent[key] = rows[key].etag /\ AtomicContent[key] # None
    BY <1>1, <1>2, MarkerAssumption DEF AtomicContent
  <1>8. QED
    BY <1>1, <1>6, <1>7 DEF Atomic!Read, AtomicContent

LEMMA StepMaps ==
  ASSUME DisciplinedInv, NEW w \in Workers, Step(w)
  PROVE  Atomic!Next \/ Stutters
  <1>1. CASE TagUpdate(w)
    BY <1>1, TagLocal DEF TagUpdate, Stutters, AtomicContent
  <1>2. CASE CommitRow(w) \/ DeleteRow(w) \/ DropCascade(w) \/ GetOpen(w)
    BY <1>2, CommitWrites, DeleteRowRemoves, CascadeRemovesAll, OpenReads DEF Atomic!Next
  <1>3. CASE \/ PutQuota(w) \/ PutBodyFails(w) \/ PutRename(w) \/ PutVerify(w) \/ PutReject(w)
             \/ CopyDest(w) \/ CopyQuota(w) \/ CopyRead(w) \/ CopyRename(w)
             \/ UploadQuota(w) \/ UploadTruncate(w) \/ UploadFill(w)
             \/ UnlinkVictim(w) \/ DropUnlink(w)
    BY <1>3, SameRowsStutter
       DEF PutQuota, PutBodyFails, PutRename, PutVerify, PutReject, CopyDest, CopyQuota,
           CopyRead, CopyRename, UploadQuota, UploadTruncate, UploadFill, UnlinkVictim,
           DropUnlink, store
  <1>4. QED
    BY <1>1, <1>2, <1>3 DEF Step

(* To clients that keep their requests for a key apart, every write,       *)
(* deletion and read happens at one moment: the handlers' many steps       *)
(* implement the atomic map of keys to payloads.                           *)
THEOREM DisciplinedRefinesAtomic ==
  ASSUME WellBehaved
  PROVE  DisciplinedSpec => ImplementsAtomic
  <1>1. Init => Atomic!Init
    BY DEF Init, Atomic!Init, NoRow
  <1>2. DisciplinedInv /\ [DisciplinedNext]_vars => [Atomic!Next]_(Atomic!vars)
    <2> SUFFICES ASSUME DisciplinedInv, [DisciplinedNext]_vars
                 PROVE  Atomic!Next \/ Stutters
      BY DEF Atomic!vars, Stutters, AtomicContent
    <2>1. CASE UNCHANGED vars
      BY <2>1, SameRowsStutter DEF vars
    <2>2. ASSUME NEW w \in Workers, Begin(w) \/ Step(w)
          PROVE  Atomic!Next \/ Stutters
      BY <2>2, BeginStutters, StepMaps
    <2>3. CASE Environment
      BY <2>3, EnvironmentFields DEF DisciplinedInv, Stutters, AtomicContent
    <2>4. QED
      BY <2>1, <2>2, <2>3 DEF DisciplinedNext, Next
  <1>3. QED
    BY <1>1, <1>2, DisciplinedInvariant, PTL DEF DisciplinedSpec, ImplementsAtomic, Atomic!Spec

=============================================================================
