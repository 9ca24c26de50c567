-------------------------- MODULE MultipartProofs --------------------------
(***************************************************************************)
(* Proofs about Multipart, for any uploads, parts, payloads, part lists    *)
(* and requests in flight, with crashes and the 24-hour sweep anywhere:    *)
(* type correctness, what polite clients are promised, and how far parts   *)
(* that are tested together can exceed the quota.                          *)
(***************************************************************************)
EXTENDS Multipart, Counting, TLAPS

Job == {Idle} \cup PartJob \cup CompleteJob \cup CloseJob
CompletePcs == {"match", "check", "room", "assemble", "publish", "forget"}
Alone(w) == \A v \in Busy \ {w} : IsPart(v) /\ job[v].u # job[w].u

(* Whatever clients do: the sweep only has old uploads in its hands, and   *)
(* nothing was ever done to an upload that was not created.                *)
SweepSound == \A u \in sweep.todo \cup sweep.row : upload[u] \notin {"unused", "open"}
UnusedSound ==
  \A u \in Uploads : upload[u] = "unused" => On(u) = {} /\ \A n \in Parts : parts[u][n] = None

(* What the requests of polite clients leave room for: one request for a   *)
(* part at a time, and nothing beside a Complete or an Abort of an upload. *)
SoloParts ==
  \A v, w \in Workers : v # w /\ IsPart(v) /\ IsPart(w) =>
    job[v].u # job[w].u \/ job[v].n # job[w].n
ClosersAlone == \A w \in Busy : ~IsPart(w) => Alone(w)

(* The file at (u, n) holds c, or it went with an upload the sweep took.   *)
Holds(u, n, c) ==
  files[u][n].data = c \/ (upload[u] # "open" /\ files[u][n].data = Absent)

(* One writer for a file, and one it can count on.                         *)
FileSound(u, n) ==
  /\ ~files[u][n].mixed
  /\ \A w \in files[u][n].writers : Pc(w) = "stream" /\ job[w].u = u /\ job[w].n = n
  /\ parts[u][n] # None => Holds(u, n, parts[u][n])
FilesSound == \A u \in Uploads, n \in Parts : FileSound(u, n)

PartSound(w) == IsPart(w) =>
  /\ parts[job[w].u][job[w].n] = None
  /\ Pc(w) = "stream" /\ upload[job[w].u] = "open" => w \in files[job[w].u][job[w].n].writers
  /\ Pc(w) = "stream" /\ w \notin files[job[w].u][job[w].n].writers =>
       files[job[w].u][job[w].n].data = Absent
  /\ Pc(w) \in {"verify", "record"} => Holds(job[w].u, job[w].n, job[w].content)

(* What was read for an assembly is what the list named, and what is still *)
(* to be read is there or gone, never anything else.                       *)
CompleteSound(w) == Pc(w) \in CompletePcs =>
  /\ DOMAIN job[w].got \subseteq DOMAIN job[w].list
  /\ \A n \in DOMAIN job[w].got : job[w].got[n] = job[w].list[n]
  /\ Pc(w) \in {"check", "room", "assemble"} => \A n \in DOMAIN job[w].list :
       files[job[w].u][n].data \in {job[w].list[n], Absent}
  /\ Pc(w) = "publish" => DOMAIN job[w].got = DOMAIN job[w].list

(* An upload a request ended has that request's clean-up and nothing else. *)
GoneSound ==
  /\ \A w \in Workers : Pc(w) = "rmdir" => upload[job[w].u] = "gone"
  /\ \A u \in Uploads : upload[u] = "gone" =>
       /\ \A w \in On(u) : Pc(w) = "rmdir"
       /\ crashes = 0 /\ On(u) = {} => \A n \in Parts : files[u][n] = NoFile

PoliteSound ==
  /\ SoloParts /\ ClosersAlone /\ FilesSound /\ GoneSound
  /\ \A w \in Workers : PartSound(w) /\ CompleteSound(w)

(* The inductive invariant.                                                *)
MultipartInv == TypeOK /\ SweepSound /\ UnusedSound /\ (polite => PoliteSound)

----------------------------------------------------------------------------
(* The shape of a request follows from its pc.                             *)

LEMMA JobShape ==
  ASSUME TypeOK, NEW w \in Workers
  PROVE  /\ Pc(w) \in PartPcs \cup CompletePcs \cup {"idle", "delete", "rmdir"}
         /\ Pc(w) \in PartPcs => job[w] \in PartJob /\ IsPart(w) /\ job[w] # Idle
         /\ Pc(w) \in CompletePcs => job[w] \in CompleteJob /\ ~IsPart(w) /\ job[w] # Idle
         /\ Pc(w) \in {"delete", "rmdir"} => job[w] \in CloseJob /\ ~IsPart(w) /\ job[w] # Idle
         /\ Pc(w) = "idle" <=> job[w] = Idle
         /\ job[w] # Idle => job[w].u \in Uploads
  <1>1. job[w] \in {Idle} \cup PartJob \cup CompleteJob \cup CloseJob
    BY DEF TypeOK
  <1>2. CASE job[w] = Idle
    BY <1>2 DEF Idle, Pc, PartPcs, CompletePcs
  <1>3. CASE job[w] \in PartJob
    BY <1>3 DEF Idle, Pc, IsPart, PartPcs, CompletePcs, PartJob
  <1>4. CASE job[w] \in CompleteJob
    BY <1>4 DEF Idle, Pc, IsPart, PartPcs, CompletePcs, CompleteJob
  <1>5. CASE job[w] \in CloseJob
    BY <1>5 DEF Idle, Pc, IsPart, PartPcs, CompletePcs, CloseJob
  <1>6. QED
    BY <1>1, <1>2, <1>3, <1>4, <1>5

LEMMA StartJob ==
  ASSUME TypeOK, NEW w \in Workers, NEW r \in Job, Start(w, r)
  PROVE  /\ job[w] = Idle /\ job'[w] = r /\ job' \in [Workers -> Job] /\ started' \in Nat
         /\ \A v \in Workers \ {w} : job'[v] = job[v]
  BY DEF TypeOK, Start, Job

LEMMA FinishJob ==
  ASSUME TypeOK, NEW w \in Workers, Finish(w)
  PROVE  /\ job'[w] = Idle /\ job' \in [Workers -> Job]
         /\ \A v \in Workers \ {w} : job'[v] = job[v]
  BY DEF TypeOK, Finish, Job

LEMMA GotoJob ==
  ASSUME TypeOK, NEW w \in Workers, NEW label, Goto(w, label),
         \/ Pc(w) \in PartPcs /\ label \in PartPcs
         \/ Pc(w) \in CompletePcs /\ label \in CompletePcs
  PROVE  /\ job' \in [Workers -> Job] /\ \A v \in Workers \ {w} : job'[v] = job[v]
         /\ job'[w] = [job[w] EXCEPT !.pc = label] /\ Pc(w)' = label
         /\ job'[w].u = job[w].u
         /\ IsPart(w) => job'[w].n = job[w].n /\ job'[w].content = job[w].content
         /\ ~IsPart(w) => job'[w].list = job[w].list /\ job'[w].got = job[w].got
  <1>1. job'[w] = [job[w] EXCEPT !.pc = label] /\ \A v \in Workers \ {w} : job'[v] = job[v]
    BY DEF TypeOK, Goto
  <1>2. CASE Pc(w) \in PartPcs /\ label \in PartPcs
    <2>1. job[w] \in PartJob /\ IsPart(w)
      BY <1>2, JobShape
    <2>2. job'[w] \in PartJob /\ Pc(w)' = label
      BY <1>1, <1>2, <2>1 DEF PartJob, Pc
    <2>3. QED
      BY <1>1, <2>1, <2>2 DEF PartJob, TypeOK, Goto, Job
  <1>3. CASE Pc(w) \in CompletePcs /\ label \in CompletePcs
    <2>1. job[w] \in CompleteJob /\ ~IsPart(w)
      BY <1>3, JobShape
    <2>2. job'[w] \in CompleteJob /\ Pc(w)' = label
      BY <1>1, <1>3, <2>1 DEF CompleteJob, Pc, CompletePcs
    <2>3. QED
      BY <1>1, <2>1, <2>2 DEF CompleteJob, TypeOK, Goto, Job
  <1>4. QED
    BY <1>2, <1>3

(* What a request may put at a part's path.                                *)
LEMMA FileTypes ==
  ASSUME NEW f \in File, NEW w \in Workers, NEW c \in Contents \cup {Torn}
  PROVE  /\ NoFile \in File /\ Open(f, w) \in File
         /\ [f EXCEPT !.data = c, !.writers = f.writers \ {w}] \in File
  BY DEF File, NoFile, Open

LEMMA FileAfterCrash ==
  ASSUME NEW f \in File
  PROVE  [f EXCEPT !.writers = {}, !.mixed = FALSE] \in File
  BY DEF File

LEMMA FileChange ==
  ASSUME TypeOK, NEW u \in Uploads, NEW n \in Parts, NEW f \in File,
         files' = [files EXCEPT ![u][n] = f]
  PROVE  /\ files' \in [Uploads -> [Parts -> File]] /\ files'[u][n] = f
         /\ \A x \in Uploads, m \in Parts : x # u \/ m # n => files'[x][m] = files[x][m]
  BY DEF TypeOK

LEMMA PartChange ==
  ASSUME TypeOK, NEW u \in Uploads, NEW n \in Parts, NEW c \in Contents,
         parts' = [parts EXCEPT ![u][n] = c]
  PROVE  /\ parts' \in [Uploads -> [Parts -> Contents \cup {None}]] /\ parts'[u][n] = c
         /\ \A x \in Uploads, m \in Parts : x # u \/ m # n => parts'[x][m] = parts[x][m]
  BY DEF TypeOK

LEMMA EmptyAssembly == <<>> \in Assembly
  <1>1. <<>> \in [{} -> Contents \cup {Torn}]
    OBVIOUS
  <1>2. {} \in SUBSET Parts
    OBVIOUS
  <1>3. QED
    BY <1>1, <1>2 DEF Assembly

LEMMA ListsAreAssemblies ==
  ASSUME NEW list \in Lists
  PROVE  list \in Assembly /\ DOMAIN list \subseteq Parts
         /\ \A n \in DOMAIN list : list[n] \in Contents
  <1>1. PICK S \in SUBSET Parts : list \in [S -> Contents]
    BY ListsAssumption
  <1>2. list \in [S -> Contents \cup {Torn}]
    BY <1>1
  <1>3. QED
    BY <1>1, <1>2 DEF Assembly

----------------------------------------------------------------------------
(* Type correctness, and which upload and part a step works on.            *)

LEMMA MultipartBeginType ==
  ASSUME TypeOK, NEW w \in Workers, Begin(w)
  PROVE  /\ TypeOK' /\ job[w] = Idle /\ job'[w] # Idle
         /\ \A v \in Workers \ {w} : job'[v] = job[v]
  <1> DEFINE Effect == /\ job' \in [Workers -> Job] /\ started' \in Nat
                       /\ job[w] = Idle /\ job'[w] # Idle
                       /\ \A v \in Workers \ {w} : job'[v] = job[v]
                       /\ UNCHANGED <<client, upload, parts, files, object, sweep, crashes>>
  <1>1. ASSUME NEW u \in Uploads, NEW n \in Parts, NEW c \in Contents, NEW copy \in BOOLEAN,
               PartBegin(w, u, n, c, copy)
        PROVE  Effect
    <2> DEFINE r == [pc |-> "look", u |-> u, n |-> n, content |-> c, copy |-> copy,
                     seen |-> None]
    <2>1. r \in PartJob /\ r # Idle
      BY DEF PartJob, PartPcs, Idle
    <2>2. QED
      BY <1>1, <2>1, StartJob DEF PartBegin, Job
  <1>2. ASSUME NEW u \in Uploads, NEW list \in Lists, NEW createOnly \in BOOLEAN,
               CompleteBegin(w, u, list, createOnly)
        PROVE  Effect
    <2> DEFINE r == [pc |-> "match", u |-> u, list |-> list, createOnly |-> createOnly,
                     seen |-> <<>>, got |-> <<>>]
    <2>1. r \in CompleteJob /\ r # Idle
      BY EmptyAssembly DEF CompleteJob, Idle
    <2>2. QED
      BY <1>2, <2>1, StartJob DEF CompleteBegin, Job
  <1>3. ASSUME NEW u \in Uploads, AbortBegin(w, u)
        PROVE  Effect
    <2>1. [pc |-> "delete", u |-> u] \in CloseJob /\ [pc |-> "delete", u |-> u] # Idle
      BY DEF CloseJob, Idle
    <2>2. QED
      BY <1>3, <2>1, StartJob DEF AbortBegin, Job
  <1>4. Effect
    <2> HIDE DEF Effect
    <2>1. QED
      BY <1>1, <1>2, <1>3 DEF Begin, UploadPart, UploadPartCopy
  <1>5. QED
    BY <1>4 DEF TypeOK, Job, client, object

(* A step of w works on its upload, a part's on its part alone; it is the  *)
(* step of a request under way, and keeps it the request it is.            *)
InZone(w, u, n) == u = job[w].u /\ (IsPart(w) => n = job[w].n)
Moves(w) ==
  /\ job[w] # Idle /\ \A v \in Workers \ {w} : job'[v] = job[v]
  /\ job'[w] # Idle =>
       /\ job'[w].u = job[w].u /\ (IsPart(w)' <=> IsPart(w))
       /\ IsPart(w) => job'[w].n = job[w].n /\ job'[w].content = job[w].content
  /\ \A u \in Uploads : upload'[u] # upload[u] =>
       u = job[w].u /\ upload'[u] = "gone" /\ Pc(w) \in {"forget", "delete"}
  /\ \A u \in Uploads, n \in Parts :
       \/ InZone(w, u, n)
       \/ files'[u][n] = files[u][n] /\ parts'[u][n] = parts[u][n]
  /\ UNCHANGED <<client, sweep, crashes>>

(* What a step of a part request does to its own part, and to nothing else.*)
PartEffect(w) ==
  /\ job' \in [Workers -> Job] /\ \A v \in Workers \ {w} : job'[v] = job[v]
  /\ job'[w] # Idle =>
       /\ job'[w].u = job[w].u /\ IsPart(w)'
       /\ job'[w].n = job[w].n /\ job'[w].content = job[w].content
  /\ files' = files \/ \E g \in File : files' = [files EXCEPT ![job[w].u][job[w].n] = g]
  /\ parts' = parts
       \/ \E c \in Contents : parts' = [parts EXCEPT ![job[w].u][job[w].n] = c]
  /\ UNCHANGED <<upload, object, sweep, counters>>

PartStep(w) ==
  \/ PartLook(w) \/ PartQuota(w) \/ PartStored(w) \/ PartBodyFails(w)
  \/ PartVerify(w) \/ PartReject(w) \/ PartRecord(w)

LEMMA PartJobs ==
  ASSUME TypeOK, NEW w \in Workers, IsPart(w)
  PROVE  /\ Pc(w) \in PartPcs /\ job[w] \in PartJob /\ job[w] # Idle
         /\ job[w].u \in Uploads /\ job[w].n \in Parts /\ job[w].content \in Contents
         /\ files[job[w].u][job[w].n] \in File
         /\ parts[job[w].u][job[w].n] \in Contents \cup {None}
  <1>1. Pc(w) \in PartPcs /\ job[w] \in PartJob /\ job[w] # Idle
    BY JobShape DEF IsPart
  <1>2. job[w].u \in Uploads /\ job[w].n \in Parts /\ job[w].content \in Contents
    BY <1>1 DEF PartJob
  <1>3. QED
    BY <1>1, <1>2 DEF TypeOK

LEMMA PartEffects ==
  ASSUME TypeOK, NEW w \in Workers, PartStep(w)
  PROVE  IsPart(w) /\ PartEffect(w)
  <1> DEFINE u == job[w].u
             n == job[w].n
             f == files[u][n]
  <1>1. IsPart(w)
    BY DEF PartStep, PartLook, PartQuota, PartStored, PartBodyFails, PartVerify, PartReject,
           PartRecord, PartPcs, IsPart
  <1>2. /\ Pc(w) \in PartPcs /\ job[w] \in PartJob
        /\ u \in Uploads /\ n \in Parts /\ job[w].content \in Contents
        /\ f \in File /\ parts[u][n] \in Contents \cup {None}
    BY <1>1, PartJobs
  <1> DEFINE JobMoves == /\ job' \in [Workers -> Job]
                         /\ \A v \in Workers \ {w} : job'[v] = job[v]
                         /\ job'[w] # Idle =>
                              /\ job'[w].u = u /\ IsPart(w)'
                              /\ job'[w].n = n /\ job'[w].content = job[w].content
  <1>3. ASSUME Finish(w)
        PROVE  JobMoves
    BY <1>3, FinishJob
  <1>4. ASSUME NEW label \in PartPcs, Goto(w, label)
        PROVE  JobMoves
    BY <1>1, <1>2, <1>4, GotoJob DEF IsPart
  <1>5. CASE PartLook(w)
    <2>1. [job[w] EXCEPT !.pc = "quota", !.seen = parts[u][n]] \in PartJob
      BY <1>2 DEF PartJob, PartPcs
    <2>2. job' = [job EXCEPT ![w] = [job[w] EXCEPT !.pc = "quota", !.seen = parts[u][n]]]
      BY <1>5 DEF PartLook
    <2>3. JobMoves
      BY <1>2, <2>1, <2>2 DEF TypeOK, Job, PartJob, IsPart, Pc
    <2>4. QED
      BY <1>1, <1>5, <2>3 DEF PartLook, PartEffect
  <1>6. CASE PartQuota(w)
    <2>1. JobMoves
      BY <1>3, <1>4, <1>6 DEF PartQuota, PartPcs
    <2>2. Open(f, w) \in File
      BY <1>2, FileTypes
    <2>3. files' = files \/ files' = [files EXCEPT ![u][n] = Open(f, w)]
      BY <1>6 DEF PartQuota
    <2>4. QED
      BY <1>1, <1>6, <2>1, <2>2, <2>3 DEF PartQuota, PartEffect
  <1>7. CASE PartStored(w)
    <2>1. JobMoves
      <3>1. Goto(w, "record") \/ Goto(w, "verify")
        BY <1>7 DEF PartStored
      <3>2. QED
        BY <1>4, <3>1 DEF PartPcs
    <2>2. ASSUME files' # files
          PROVE  \E g \in File : files' = [files EXCEPT ![u][n] = g]
      <3>1. PICK b \in Contents \cup {Torn} :
              files' = [files EXCEPT ![u][n].data = b, ![u][n].writers = f.writers \ {w}]
        BY <1>2, <1>7, <2>2 DEF PartStored
      <3> DEFINE g == [f EXCEPT !.data = b, !.writers = f.writers \ {w}]
      <3>2. g \in File
        BY <1>2, FileTypes
      <3>3. files' = [files EXCEPT ![u][n] = g]
        BY <1>2, <3>1 DEF TypeOK
      <3>4. QED
        BY <3>2, <3>3
    <2>3. QED
      BY <1>1, <1>7, <2>1, <2>2 DEF PartStored, PartEffect
  <1>8. CASE PartBodyFails(w) \/ PartReject(w)
    <2>1. JobMoves
      BY <1>3, <1>8 DEF PartBodyFails, PartReject
    <2>2. NoFile \in File
      BY <1>2, FileTypes, <1>2
    <2>3. QED
      BY <1>1, <1>8, <2>1, <2>2 DEF PartBodyFails, PartReject, PartEffect
  <1>9. CASE PartVerify(w)
    <2>1. Goto(w, "reject") \/ Goto(w, "record")
      BY <1>9 DEF PartVerify
    <2>2. JobMoves
      BY <1>4, <2>1 DEF PartPcs
    <2>3. QED
      BY <1>1, <1>9, <2>2 DEF PartVerify, PartEffect
  <1>10. CASE PartRecord(w)
    <2>1. JobMoves
      BY <1>3, <1>10 DEF PartRecord
    <2>2. parts' = parts \/ parts' = [parts EXCEPT ![u][n] = job[w].content]
      BY <1>10 DEF PartRecord
    <2>3. QED
      BY <1>1, <1>2, <1>10, <2>1, <2>2 DEF PartRecord, PartEffect
  <1>11. QED
    BY <1>5, <1>6, <1>7, <1>8, <1>9, <1>10 DEF PartStep

LEMMA PartMoves ==
  ASSUME TypeOK, NEW w \in Workers, PartStep(w)
  PROVE  TypeOK' /\ Moves(w)
  <1>1. IsPart(w) /\ PartEffect(w)
    BY PartEffects
  <1>2. job[w].u \in Uploads /\ job[w].n \in Parts /\ job[w] # Idle
    BY <1>1, PartJobs
  <1> DEFINE FileStep(g) == files' = [files EXCEPT ![job[w].u][job[w].n] = g]
             PartStepTo(c) == parts' = [parts EXCEPT ![job[w].u][job[w].n] = c]
  <1>3. files' = files \/ \E g \in File : FileStep(g)
    BY <1>1 DEF PartEffect
  <1>4. parts' = parts \/ \E c \in Contents : PartStepTo(c)
    BY <1>1 DEF PartEffect
  <1> DEFINE FilesMove == /\ files' \in [Uploads -> [Parts -> File]]
                          /\ \A u \in Uploads, n \in Parts :
                               u # job[w].u \/ n # job[w].n => files'[u][n] = files[u][n]
             RowsMove == /\ parts' \in [Uploads -> [Parts -> Contents \cup {None}]]
                         /\ \A u \in Uploads, n \in Parts :
                              u # job[w].u \/ n # job[w].n => parts'[u][n] = parts[u][n]
  <1>5. FilesMove
    <2>1. CASE files' = files
      BY <2>1 DEF TypeOK
    <2>2. ASSUME NEW g \in File, FileStep(g)
          PROVE  FilesMove
      BY <1>2, <2>2, FileChange
    <2> HIDE DEF FileStep, FilesMove
    <2>3. QED
      BY <1>3, <2>1, <2>2
  <1>6. RowsMove
    <2>1. CASE parts' = parts
      BY <2>1 DEF TypeOK
    <2>2. ASSUME NEW c \in Contents, PartStepTo(c)
          PROVE  RowsMove
      BY <1>2, <2>2, PartChange
    <2> HIDE DEF PartStepTo, RowsMove
    <2>3. QED
      BY <1>4, <2>1, <2>2
  <1>7. TypeOK'
    BY <1>1, <1>5, <1>6 DEF PartEffect, TypeOK, Job, object, counters, client
  <1>8. QED
    BY <1>1, <1>2, <1>5, <1>6, <1>7 DEF PartEffect, Moves, InZone, counters

(* Steps of a Complete or an Abort.                                        *)
LEMMA AssemblyShape ==
  ASSUME NEW g \in Assembly
  PROVE  /\ DOMAIN g \subseteq Parts /\ g = [n \in DOMAIN g |-> g[n]]
         /\ \A n \in DOMAIN g : g[n] \in Contents \cup {Torn}
  BY DEF Assembly

LEMMA AssemblyGrows ==
  ASSUME NEW g \in Assembly, NEW n \in Parts, NEW b \in Contents \cup {Torn}
  PROVE  [m \in DOMAIN g \cup {n} |-> IF m = n THEN b ELSE g[m]] \in Assembly
  <1>1. PICK S \in SUBSET Parts : g \in [S -> Contents \cup {Torn}]
    BY DEF Assembly
  <1>2. [m \in DOMAIN g \cup {n} |-> IF m = n THEN b ELSE g[m]]
          \in [S \cup {n} -> Contents \cup {Torn}]
    BY <1>1
  <1>3. S \cup {n} \in SUBSET Parts
    OBVIOUS
  <1>4. QED
    BY <1>2, <1>3 DEF Assembly

LEMMA CompleteJobs ==
  ASSUME TypeOK, NEW w \in Workers, Pc(w) \in CompletePcs
  PROVE  /\ job[w] \in CompleteJob /\ ~IsPart(w) /\ job[w] # Idle
         /\ job[w].u \in Uploads /\ job[w].list \in Lists
         /\ job[w].seen \in Assembly /\ job[w].got \in Assembly
         /\ DOMAIN job[w].list \subseteq Parts
  <1>1. job[w] \in CompleteJob /\ ~IsPart(w) /\ job[w] # Idle
    BY JobShape
  <1>2. job[w].list \in Lists
    BY <1>1 DEF CompleteJob
  <1>3. DOMAIN job[w].list \subseteq Parts
    BY <1>2, ListsAreAssemblies
  <1>4. QED
    BY <1>1, <1>2, <1>3 DEF CompleteJob

CheckStep(w) == CompleteMatch(w) \/ CompleteCheck(w) \/ CompleteQuota(w)
BuildStep(w) == AssembleRename(w) \/ CompletePublish(w) \/ \E n \in Parts : AssemblePart(w, n)

(* What a Complete does up to the deletion of its upload.                  *)
CompleteEffect(w) ==
  /\ job' \in [Workers -> Job] /\ \A v \in Workers \ {w} : job'[v] = job[v]
  /\ job'[w] # Idle => /\ Pc(w)' \in CompletePcs /\ job'[w].u = job[w].u
                       /\ job'[w].list = job[w].list
  /\ row' \in Assembly /\ blob' \in Assembly
  /\ UNCHANGED <<upload, parts, files, sweep, counters>>

LEMMA CompleteEffects ==
  ASSUME TypeOK, NEW w \in Workers, CheckStep(w) \/ BuildStep(w)
  PROVE  Pc(w) \in CompletePcs /\ CompleteEffect(w)
  <1>1. Pc(w) \in CompletePcs
    BY DEF CheckStep, BuildStep, CompleteMatch, CompleteCheck, CompleteQuota,
           AssembleRename, CompletePublish, AssemblePart, CompletePcs
  <1>2. /\ job[w] \in CompleteJob /\ ~IsPart(w) /\ job[w].u \in Uploads
        /\ job[w].seen \in Assembly /\ job[w].got \in Assembly
    BY <1>1, CompleteJobs
  <1>3. row \in Assembly /\ blob \in Assembly
    BY DEF TypeOK
  <1> DEFINE JobMoves == /\ job' \in [Workers -> Job]
                         /\ \A v \in Workers \ {w} : job'[v] = job[v]
                         /\ job'[w] # Idle => /\ Pc(w)' \in CompletePcs
                                              /\ job'[w].u = job[w].u
                                              /\ job'[w].list = job[w].list
  <1>4. ASSUME Finish(w)
        PROVE  JobMoves
    BY <1>4, FinishJob
  <1>5. ASSUME NEW label \in CompletePcs, Goto(w, label)
        PROVE  JobMoves
    BY <1>1, <1>2, <1>5, GotoJob
  <1>6. ASSUME NEW r \in CompleteJob, job' = [job EXCEPT ![w] = r],
               r.u = job[w].u, r.list = job[w].list
        PROVE  JobMoves
    <2>1. r \in Job /\ r.pc \in CompletePcs
      BY DEF CompleteJob, CompletePcs, Job
    <2>2. QED
      BY <1>6, <2>1 DEF TypeOK, Job, Pc
  <1>7. CASE CompleteMatch(w)
    BY <1>3, <1>4, <1>5, <1>7 DEF CompleteMatch, CompleteEffect, CompletePcs, object
  <1>8. CASE CompleteCheck(w)
    <2> DEFINE r == [job[w] EXCEPT !.pc = "room", !.seen = row]
    <2>1. r \in CompleteJob /\ r.u = job[w].u /\ r.list = job[w].list
      BY <1>2, <1>3 DEF CompleteJob
    <2>2. Finish(w) \/ job' = [job EXCEPT ![w] = r]
      BY <1>8 DEF CompleteCheck
    <2>3. JobMoves
      BY <1>4, <1>6, <2>1, <2>2
    <2>4. UNCHANGED <<upload, parts, files, object, sweep, counters>>
      BY <1>8 DEF CompleteCheck
    <2>5. UNCHANGED <<upload, parts, files, sweep, counters>> /\ UNCHANGED <<row, blob>>
      BY <2>4 DEF object
    <2> HIDE DEF r
    <2>6. QED
      BY <1>1, <1>3, <2>3, <2>5 DEF CompleteEffect
  <1>9. CASE CompleteQuota(w)
    BY <1>3, <1>4, <1>5, <1>9 DEF CompleteQuota, CompleteEffect, CompletePcs, object
  <1>10. CASE AssembleRename(w)
    BY <1>2, <1>3, <1>5, <1>10 DEF AssembleRename, CompleteEffect, CompletePcs
  <1>11. CASE CompletePublish(w)
    BY <1>2, <1>3, <1>5, <1>11 DEF CompletePublish, CompleteEffect, CompletePcs
  <1>12. ASSUME NEW n \in Parts, AssemblePart(w, n)
         PROVE  CompleteEffect(w)
    <2> DEFINE b == files[job[w].u][n].data
               got == [m \in DOMAIN job[w].got \cup {n} |->
                         IF m = n THEN b ELSE job[w].got[m]]
               r == [job[w] EXCEPT !.got = got]
    <2>1. b \in Contents \cup {Absent, Torn}
      BY <1>2 DEF TypeOK, File
    <2>2. Finish(w) \/ (b # Absent /\ job' = [job EXCEPT ![w] = r])
      BY <1>12 DEF AssemblePart
    <2>3. ASSUME b # Absent
          PROVE  r \in CompleteJob /\ r.u = job[w].u /\ r.list = job[w].list
      <3>1. got \in Assembly
        BY <1>2, <2>1, <2>3, AssemblyGrows
      <3> HIDE DEF got
      <3>2. QED
        BY <1>2, <3>1 DEF CompleteJob
    <2>4. JobMoves
      <3> HIDE DEF r
      <3>1. QED
        BY <1>4, <1>6, <2>2, <2>3
    <2>5. QED
      BY <1>3, <1>12, <2>4 DEF AssemblePart, CompleteEffect, object
  <1>13. QED
    BY <1>1, <1>7, <1>8, <1>9, <1>10, <1>11, <1>12 DEF CheckStep, BuildStep

LEMMA CompleteMoves ==
  ASSUME TypeOK, NEW w \in Workers, CheckStep(w) \/ BuildStep(w)
  PROVE  TypeOK' /\ Moves(w)
  <1>1. Pc(w) \in CompletePcs /\ CompleteEffect(w)
    BY CompleteEffects
  <1>2. job[w] # Idle /\ ~IsPart(w)
    BY <1>1, JobShape
  <1>3. job'[w] # Idle => ~IsPart(w)'
    BY <1>1 DEF CompleteEffect, IsPart, PartPcs, CompletePcs
  <1>4. TypeOK'
    BY <1>1 DEF CompleteEffect, TypeOK, Job, counters, client
  <1>5. QED
    BY <1>1, <1>2, <1>3, <1>4 DEF CompleteEffect, Moves, counters

LEMMA CloseMoves ==
  ASSUME TypeOK, NEW w \in Workers, Forget(w) \/ DeleteUploadParts(w)
  PROVE  TypeOK' /\ Moves(w)
  <1>1. Pc(w) \in {"forget", "delete", "rmdir"}
    BY DEF Forget, DeleteUploadParts
  <1>2. job[w] # Idle /\ ~IsPart(w) /\ job[w].u \in Uploads
    BY <1>1, JobShape DEF CompletePcs
  <1>3. CASE Forget(w)
    <2>1. CASE ~Live(job[w].u)
      <3>1. Finish(w) /\ UNCHANGED <<upload, parts, files, object, sweep, counters>>
        BY <1>3, <2>1 DEF Forget
      <3>2. QED
        BY <1>2, <3>1, FinishJob DEF Moves, TypeOK, Job, object, counters, client
    <2>2. CASE Live(job[w].u)
      <3> DEFINE r == [pc |-> "rmdir", u |-> job[w].u]
      <3>1. r \in CloseJob /\ r \in Job
        BY <1>2 DEF CloseJob, Job
      <3>2. job' = [job EXCEPT ![w] = r]
        BY <1>3, <2>2 DEF Forget
      <3>3. /\ job' \in [Workers -> Job] /\ job'[w] = r
            /\ \A v \in Workers \ {w} : job'[v] = job[v]
        BY <3>1, <3>2 DEF TypeOK, Job
      <3>4. job'[w].u = job[w].u /\ ~IsPart(w)'
        BY <3>3 DEF IsPart, Pc, PartPcs
      <3>5. /\ upload' = [upload EXCEPT ![job[w].u] = "gone"]
            /\ parts' = [parts EXCEPT ![job[w].u] = [n \in Parts |-> None]]
            /\ UNCHANGED <<files, object, sweep, counters>>
        BY <1>3, <2>2 DEF Forget
      <3>6. upload' \in [Uploads -> Status]
        BY <3>5 DEF TypeOK, Status
      <3>7. parts' \in [Uploads -> [Parts -> Contents \cup {None}]]
        BY <3>5 DEF TypeOK
      <3>8. TypeOK'
        BY <3>3, <3>5, <3>6, <3>7 DEF TypeOK, Job, object, counters, client
      <3>9. \A u \in Uploads : upload'[u] # upload[u] =>
               u = job[w].u /\ upload'[u] = "gone" /\ Pc(w) \in {"forget", "delete"}
        BY <1>3, <3>5 DEF Forget, TypeOK
      <3>10. \A u \in Uploads, n \in Parts :
               \/ u = job[w].u
               \/ files'[u][n] = files[u][n] /\ parts'[u][n] = parts[u][n]
        BY <3>5 DEF TypeOK
      <3>11. QED
        BY <1>2, <3>3, <3>4, <3>5, <3>8, <3>9, <3>10 DEF Moves, InZone, counters
    <2>3. QED
      BY <2>1, <2>2
  <1>4. CASE DeleteUploadParts(w)
    <2>1. /\ job'[w] = Idle /\ job' \in [Workers -> Job]
          /\ \A v \in Workers \ {w} : job'[v] = job[v]
          /\ files' = [files EXCEPT ![job[w].u] = [n \in Parts |-> NoFile]]
          /\ UNCHANGED <<upload, parts, object, sweep, counters>>
      BY <1>4, FinishJob DEF DeleteUploadParts
    <2>2. /\ files' \in [Uploads -> [Parts -> File]]
          /\ \A u \in Uploads, n \in Parts : u # job[w].u => files'[u][n] = files[u][n]
      BY <1>2, <2>1 DEF TypeOK, File, NoFile
    <2>3. TypeOK'
      BY <2>1, <2>2 DEF TypeOK, Job, object, counters, client
    <2>4. QED
      BY <1>2, <2>1, <2>2, <2>3 DEF Moves, InZone, counters
  <1>5. QED
    BY <1>3, <1>4

LEMMA StepCases ==
  ASSUME NEW w \in Workers, Step(w)
  PROVE  PartStep(w) \/ CheckStep(w) \/ BuildStep(w) \/ Forget(w) \/ DeleteUploadParts(w)
  BY DEF Step, PartStep, CheckStep, BuildStep

LEMMA StepMoves ==
  ASSUME TypeOK, NEW w \in Workers, Step(w)
  PROVE  TypeOK' /\ Moves(w)
  BY StepCases, PartMoves, CompleteMoves, CloseMoves

(* Steps of nobody's request.                                              *)
LEMMA SurroundingsType ==
  ASSUME TypeOK,
         \/ Sweep \/ Crash
         \/ \E u \in Uploads : CreateMultipartUpload(u) \/ UploadAges(u)
  PROVE  TypeOK'
  <1>1. ASSUME NEW u \in Uploads, CreateMultipartUpload(u)
        PROVE  TypeOK'
    BY <1>1 DEF CreateMultipartUpload, TypeOK, Status, client, object
  <1>2. ASSUME NEW u \in Uploads, UploadAges(u)
        PROVE  TypeOK'
    BY <1>2 DEF UploadAges, TypeOK, Status, client, object, counters
  <1>3. CASE SweepSelect
    BY <1>3 DEF SweepSelect, NoSweep, TypeOK, client, object, counters
  <1>4. ASSUME NEW u \in Uploads, SweepFiles(u)
        PROVE  TypeOK'
    <2>1. files' \in [Uploads -> [Parts -> File]]
      BY <1>4 DEF SweepFiles, TypeOK, File, NoFile
    <2>2. QED
      BY <1>4, <2>1 DEF SweepFiles, TypeOK, client, object, counters
  <1>5. ASSUME NEW u \in Uploads, SweepRow(u)
        PROVE  TypeOK'
    <2>1. parts' \in [Uploads -> [Parts -> Contents \cup {None}]]
      BY <1>5 DEF SweepRow, TypeOK
    <2>2. upload' \in [Uploads -> Status]
      BY <1>5 DEF SweepRow, TypeOK, Status
    <2>3. sweep' \in [todo : SUBSET Uploads, row : SUBSET Uploads]
      BY <1>5 DEF SweepRow, TypeOK
    <2>4. QED
      BY <1>5, <2>1, <2>2, <2>3 DEF SweepRow, TypeOK, client, object, counters
  <1>6. CASE Crash
    <2>1. files' \in [Uploads -> [Parts -> File]]
      BY <1>6, FileAfterCrash DEF Crash, TypeOK
    <2>2. sweep' \in [todo : SUBSET Uploads, row : SUBSET Uploads]
      BY <1>6 DEF Crash, NoSweep
    <2>3. crashes' \in Nat /\ UNCHANGED <<polite, declares, upload, parts, row, blob, started>>
      <3>1. crashes' = crashes + 1 /\ UNCHANGED <<client, upload, parts, object, started>>
        BY <1>6 DEF Crash
      <3>2. crashes \in Nat
        BY DEF TypeOK
      <3>3. QED
        BY <3>1, <3>2 DEF client, object
    <2>4. job' \in [Workers -> {Idle} \cup PartJob \cup CompleteJob \cup CloseJob]
      BY <1>6 DEF Crash
    <2>5. QED
      BY <2>1, <2>2, <2>3, <2>4 DEF TypeOK
  <1>7. QED
    BY <1>1, <1>2, <1>3, <1>4, <1>5, <1>6 DEF Sweep

(* Rows, files, requests and the sweep's selection are always of the kind  *)
(* the code keeps there.                                                   *)
THEOREM MultipartTypeCorrect == Spec => []TypeOK
  <1>1. Init => TypeOK
    <2> SUFFICES ASSUME Init
                 PROVE  TypeOK
      OBVIOUS
    <2>1. row \in Assembly /\ blob \in Assembly
      BY EmptyAssembly DEF Init
    <2>2. files \in [Uploads -> [Parts -> File]]
      BY DEF Init, NoFile, File
    <2>3. QED
      BY <2>1, <2>2 DEF Init, TypeOK, Status, Idle, NoSweep
  <1>2. TypeOK /\ [Next]_vars => TypeOK'
    <2>1. ASSUME TypeOK, UNCHANGED vars
          PROVE  TypeOK'
      BY <2>1 DEF vars, TypeOK
    <2>2. QED
      BY <2>1, MultipartBeginType, StepMoves, SurroundingsType DEF Next
  <1>3. QED
    BY <1>1, <1>2, PTL DEF Spec

----------------------------------------------------------------------------
(* What a step of one request leaves alone.                                *)

(* For polite clients, two requests under way are about different parts,   *)
(* and if one is not about a part, about different uploads.                *)
LEMMA Apart ==
  ASSUME TypeOK, PoliteSound, NEW v \in Workers, NEW w \in Workers, v # w,
         job[v] # Idle, job[w] # Idle
  PROVE  \/ job[v].u # job[w].u
         \/ IsPart(v) /\ IsPart(w) /\ job[v].n # job[w].n
  <1>1. v \in Busy /\ w \in Busy
    BY DEF Busy
  <1>2. IsPart(v) /\ IsPart(w) => job[v].u # job[w].u \/ job[v].n # job[w].n
    BY DEF PoliteSound, SoloParts
  <1>3. ~IsPart(v) => job[v].u # job[w].u
    BY <1>1 DEF PoliteSound, ClosersAlone, Alone
  <1>4. ~IsPart(w) => job[v].u # job[w].u
    BY <1>1 DEF PoliteSound, ClosersAlone, Alone
  <1>5. QED
    BY <1>2, <1>3, <1>4

LEMMA MovesKeepsUnused ==
  ASSUME TypeOK, UnusedSound, SweepSound, NEW w \in Workers, Moves(w)
  PROVE  UnusedSound' /\ SweepSound'
  <1>1. ASSUME NEW u \in Uploads, upload'[u] = "unused"
        PROVE  On(u)' = {} /\ \A n \in Parts : parts'[u][n] = None
    <2>1. upload[u] = "unused"
      BY <1>1 DEF Moves
    <2>2. On(u) = {} /\ \A n \in Parts : parts[u][n] = None
      BY <2>1 DEF UnusedSound
    <2>3. u # job[w].u
      BY <2>2 DEF On, Busy, Moves
    <2>4. ASSUME NEW v \in On(u)'
          PROVE  FALSE
      <3>1. v \in Workers /\ job'[v] # Idle /\ job'[v].u = u
        BY DEF On, Busy
      <3>2. v # w
        BY <2>3, <3>1 DEF Moves
      <3>3. v \in On(u)
        BY <3>1, <3>2 DEF Moves, On, Busy
      <3>4. QED
        BY <2>2, <3>3
    <2>5. QED
      BY <2>2, <2>3, <2>4 DEF Moves, InZone
  <1>2. SweepSound'
    BY DEF SweepSound, Moves, TypeOK
  <1>3. QED
    BY <1>1, <1>2 DEF UnusedSound

LEMMA MovesKeepsApart ==
  ASSUME TypeOK, PoliteSound, NEW w \in Workers, Moves(w)
  PROVE  SoloParts' /\ ClosersAlone'
  <1>1. ASSUME NEW v \in Workers, job'[v] # Idle
        PROVE  /\ job[v] # Idle /\ job'[v].u = job[v].u /\ (IsPart(v)' <=> IsPart(v))
               /\ IsPart(v) => job'[v].n = job[v].n
    BY <1>1 DEF Moves, IsPart, Pc
  <1>2. \A v \in Workers : IsPart(v)' => job'[v] # Idle
    BY DEF IsPart, Pc, Idle, PartPcs
  <1>3. SoloParts'
    BY <1>1, <1>2, Apart DEF SoloParts
  <1>4. ASSUME NEW v \in Busy', ~IsPart(v)', NEW u \in Busy', u # v
        PROVE  IsPart(u)' /\ job'[u].u # job'[v].u
    <2>1. v \in Workers /\ u \in Workers /\ job'[v] # Idle /\ job'[u] # Idle
      BY DEF Busy
    <2>2. ~IsPart(v) /\ v \in Busy /\ u \in Busy
      BY <1>1, <1>4, <2>1 DEF Busy
    <2>3. IsPart(u) /\ job[u].u # job[v].u
      BY <1>4, <2>2 DEF PoliteSound, ClosersAlone, Alone
    <2>4. QED
      BY <1>1, <2>1, <2>3
  <1>5. QED
    BY <1>3, <1>4 DEF ClosersAlone, Alone

LEMMA MovesKeepsOthers ==
  ASSUME TypeOK, PoliteSound, NEW w \in Workers, Moves(w), NEW v \in Workers, v # w
  PROVE  PartSound(v)' /\ CompleteSound(v)'
  <1>1. job'[v] = job[v] /\ Pc(v)' = Pc(v) /\ (IsPart(v)' <=> IsPart(v))
    BY DEF Moves, Pc, IsPart
  <1>2. PartSound(v) /\ CompleteSound(v)
    BY DEF PoliteSound
  <1>3. CASE IsPart(v)
    <2> DEFINE u == job[v].u
               n == job[v].n
    <2>1. job[v] # Idle /\ u \in Uploads /\ n \in Parts /\ Pc(v) \in PartPcs
      BY <1>3, PartJobs
    <2>2. ~InZone(w, u, n)
      BY <1>3, <2>1, Apart DEF InZone, Moves
    <2>3. files'[u][n] = files[u][n] /\ parts'[u][n] = parts[u][n]
      BY <2>1, <2>2 DEF Moves
    <2>4. upload'[u] = "open" => upload[u] = "open"
      BY <2>1 DEF Moves
    <2>5. PartSound(v)'
      BY <1>1, <1>2, <1>3, <2>3, <2>4 DEF PartSound, Holds
    <2>6. CompleteSound(v)'
      BY <1>1, <2>1 DEF CompleteSound, PartPcs, CompletePcs
    <2>7. QED
      BY <2>5, <2>6
  <1>4. CASE Pc(v) \in CompletePcs
    <2>1. /\ job[v] # Idle /\ job[v].u \in Uploads /\ ~IsPart(v)
          /\ DOMAIN job[v].list \subseteq Parts
      BY <1>4, CompleteJobs
    <2>2. job[v].u # job[w].u
      BY <2>1, Apart DEF Moves
    <2>3. \A n \in Parts : files'[job[v].u][n] = files[job[v].u][n]
      BY <2>1, <2>2 DEF Moves, InZone
    <2>4. CompleteSound(v)'
      BY <1>1, <1>2, <2>1, <2>3 DEF CompleteSound
    <2>5. QED
      BY <1>1, <2>1, <2>4 DEF PartSound
  <1>5. CASE ~IsPart(v) /\ Pc(v) \notin CompletePcs
    BY <1>1, <1>5 DEF PartSound, CompleteSound
  <1>6. QED
    BY <1>3, <1>4, <1>5

LEMMA MovesKeepsFiles ==
  ASSUME TypeOK, PoliteSound, NEW w \in Workers, Moves(w),
         NEW u \in Uploads, NEW n \in Parts, ~InZone(w, u, n)
  PROVE  FileSound(u, n)'
  <1>1. FileSound(u, n)
    BY DEF PoliteSound, FilesSound
  <1>2. files'[u][n] = files[u][n] /\ parts'[u][n] = parts[u][n]
    BY DEF Moves
  <1>3. upload'[u] = "open" => upload[u] = "open"
    BY DEF Moves
  <1>4. ASSUME NEW v \in files[u][n].writers
        PROVE  Pc(v)' = "stream" /\ job'[v].u = u /\ job'[v].n = n
    <2>1. v \in Workers
      BY DEF TypeOK, File
    <2>2. Pc(v) = "stream" /\ job[v].u = u /\ job[v].n = n
      BY <1>1 DEF FileSound
    <2>3. v # w
      BY <2>2 DEF InZone
    <2>4. QED
      BY <2>1, <2>2, <2>3 DEF Moves, Pc
  <1>5. QED
    BY <1>1, <1>2, <1>3, <1>4 DEF FileSound, Holds

(* A step of w keeps the invariant if it does so where w works.            *)
LEMMA MovesPreserves ==
  ASSUME MultipartInv, TypeOK', NEW w \in Workers, Moves(w),
         polite =>
           /\ PartSound(w)' /\ CompleteSound(w)'
           /\ \A u \in Uploads, n \in Parts : InZone(w, u, n) => FileSound(u, n)'
           /\ Pc(w)' = "rmdir" => upload'[job[w].u] = "gone"
           /\ upload'[job[w].u] = "gone" => \/ Pc(w)' = "rmdir"
                                            \/ /\ job'[w] = Idle
                                               /\ \A n \in Parts : files'[job[w].u][n] = NoFile
  PROVE  MultipartInv'
  <1>1. UnusedSound' /\ SweepSound' /\ polite' = polite
    BY MovesKeepsUnused DEF MultipartInv, Moves, client
  <1>2. ASSUME polite
        PROVE  PoliteSound'
    <2>1. TypeOK /\ PoliteSound
      BY <1>2 DEF MultipartInv
    <2>2. SoloParts' /\ ClosersAlone'
      BY <2>1, MovesKeepsApart
    <2>3. \A v \in Workers : PartSound(v)' /\ CompleteSound(v)'
      BY <1>2, <2>1, MovesKeepsOthers
    <2>4. FilesSound'
      BY <1>2, <2>1, MovesKeepsFiles DEF FilesSound
    <2>5. ASSUME NEW v \in Workers, Pc(v)' = "rmdir"
          PROVE  upload'[job'[v].u] = "gone"
      <3>1. CASE v = w
        BY <1>2, <2>5, <3>1 DEF Moves, Idle, Pc
      <3>2. CASE v # w
        <4>1. job'[v] = job[v] /\ Pc(v) = "rmdir"
          BY <2>5, <3>2 DEF Moves, Pc
        <4>2. job[v].u \in Uploads /\ upload[job[v].u] = "gone"
          BY <2>1, <4>1, JobShape DEF PoliteSound, GoneSound
        <4>3. QED
          BY <4>1, <4>2 DEF Moves
      <3>3. QED
        BY <3>1, <3>2
    <2>6. ASSUME NEW u \in Uploads, upload'[u] = "gone"
          PROVE  /\ \A v \in On(u)' : Pc(v)' = "rmdir"
                 /\ crashes' = 0 /\ On(u)' = {} => \A n \in Parts : files'[u][n] = NoFile
      <3>1. \A v \in On(u)' : /\ v \in Workers /\ v \in On(u) /\ job'[v].u = u /\ job'[v] # Idle
                              /\ v # w => Pc(v)' = Pc(v)
        BY DEF On, Busy, Moves, Pc
      <3>2. CASE u = job[w].u
        <4>1. \A v \in On(u)' : v = w
          <5>1. ASSUME NEW v \in On(u)', v # w
                PROVE  FALSE
            <6>1. v \in Workers /\ job[v] # Idle /\ job[v].u = u /\ job[w] # Idle
              BY <3>1, <5>1 DEF Moves, On, Busy
            <6>2. IsPart(v) /\ IsPart(w)
              BY <2>1, <3>2, <5>1, <6>1, Apart
            <6>3. upload'[u] = upload[u]
              BY <6>2 DEF Moves, IsPart, PartPcs
            <6>4. w \in On(u) /\ upload[u] = "gone"
              BY <2>6, <3>2, <6>1, <6>3 DEF On, Busy
            <6>5. Pc(w) = "rmdir"
              BY <2>1, <6>4 DEF PoliteSound, GoneSound
            <6>6. QED
              BY <6>2, <6>5 DEF IsPart, PartPcs
          <5>2. QED
            BY <5>1
        <4>2. CASE Pc(w)' = "rmdir"
          <5>1. w \in On(u)'
            BY <3>2, <4>2 DEF On, Busy, Moves, Idle, Pc
          <5>2. QED
            BY <4>1, <4>2, <5>1
        <4>3. CASE job'[w] = Idle /\ \A n \in Parts : files'[job[w].u][n] = NoFile
          BY <3>1, <3>2, <4>1, <4>3
        <4>4. QED
          BY <1>2, <2>6, <3>2, <4>2, <4>3
      <3>3. CASE u # job[w].u
        <4>1. upload[u] = "gone" /\ crashes' = crashes
          BY <2>6, <3>3 DEF Moves
        <4>2. /\ \A v \in On(u) : Pc(v) = "rmdir"
              /\ crashes = 0 /\ On(u) = {} => \A n \in Parts : files[u][n] = NoFile
          BY <2>1, <4>1 DEF PoliteSound, GoneSound
        <4>3. \A n \in Parts : files'[u][n] = files[u][n]
          BY <3>3 DEF Moves, InZone
        <4>4. w \notin On(u) /\ w \notin On(u)'
          BY <3>1, <3>3 DEF On
        <4>5. On(u) \subseteq On(u)'
          BY <4>4 DEF On, Busy, Moves
        <4>6. \A v \in On(u)' : Pc(v)' = "rmdir"
          BY <3>1, <4>2, <4>4
        <4>7. QED
          BY <4>1, <4>2, <4>3, <4>5, <4>6
      <3>4. QED
        BY <3>2, <3>3
    <2>7. GoneSound'
      BY <2>5, <2>6 DEF GoneSound
    <2>8. QED
      BY <2>2, <2>3, <2>4, <2>7 DEF PoliteSound
  <1>3. QED
    BY <1>1, <1>2 DEF MultipartInv

----------------------------------------------------------------------------
(* Each step of a request, where it works.                                 *)

LEMMA IdleJobSound ==
  ASSUME NEW w \in Workers, job'[w] = Idle
  PROVE  PartSound(w)' /\ CompleteSound(w)' /\ Pc(w)' = "idle"
  BY DEF PartSound, CompleteSound, IsPart, Pc, Idle, PartPcs, CompletePcs

(* An upload somebody works on otherwise than by removing its files is not *)
(* gone.                                                                   *)
LEMMA WorkedOnNotGone ==
  ASSUME TypeOK, PoliteSound, NEW w \in Workers, job[w] # Idle, Pc(w) # "rmdir"
  PROVE  upload[job[w].u] # "gone"
  BY JobShape DEF PoliteSound, GoneSound, On, Busy

(* A file has no writer but the one request for its part.                  *)
LEMMA OnlyWriter ==
  ASSUME TypeOK, PoliteSound, NEW w \in Workers, IsPart(w)
  PROVE  /\ files[job[w].u][job[w].n].writers \subseteq {w}
         /\ Pc(w) # "stream" => files[job[w].u][job[w].n].writers = {}
         /\ ~files[job[w].u][job[w].n].mixed
  <1> DEFINE f == files[job[w].u][job[w].n]
  <1>1. job[w].u \in Uploads /\ job[w].n \in Parts /\ f \in File
    BY PartJobs
  <1>2. FileSound(job[w].u, job[w].n)
    BY <1>1 DEF PoliteSound, FilesSound
  <1>3. ASSUME NEW v \in f.writers
        PROVE  v = w /\ Pc(v) = "stream"
    <2>1. v \in Workers
      BY <1>1 DEF File
    <2>2. Pc(v) = "stream" /\ job[v].u = job[w].u /\ job[v].n = job[w].n
      BY <1>2 DEF FileSound
    <2>3. IsPart(v)
      BY <2>2 DEF IsPart, PartPcs
    <2>4. QED
      BY <2>1, <2>2, <2>3 DEF PoliteSound, SoloParts
  <1>4. QED
    BY <1>2, <1>3 DEF FileSound

LEMMA PartStepSound ==
  ASSUME TypeOK, PoliteSound, NEW w \in Workers, PartStep(w)
  PROVE  PartSound(w)' /\ \A x \in Uploads, m \in Parts : InZone(w, x, m) => FileSound(x, m)'
  <1> DEFINE u == job[w].u
             n == job[w].n
             f == files[u][n]
             ZoneSound == \A x \in Uploads, m \in Parts : InZone(w, x, m) => FileSound(x, m)'
  <1>1. IsPart(w) /\ PartEffect(w)
    BY PartEffects
  <1>2. /\ Pc(w) \in PartPcs /\ job[w] \in PartJob
        /\ u \in Uploads /\ n \in Parts /\ job[w].content \in Contents
        /\ f \in File
    BY <1>1, PartJobs
  <1>3. /\ PartSound(w) /\ parts[u][n] = None
        /\ f.writers \subseteq {w} /\ (Pc(w) # "stream" => f.writers = {}) /\ ~f.mixed
    BY <1>1, OnlyWriter DEF PoliteSound, PartSound
  <1>4. ASSUME files'[u][n].writers = {}, ~files'[u][n].mixed,
               parts'[u][n] # None => files'[u][n].data = parts'[u][n]
                 \/ (upload[u] # "open" /\ files'[u][n].data = Absent)
        PROVE  ZoneSound
    <2>1. ASSUME NEW x, NEW m, x = u, m = n
          PROVE  FileSound(x, m)'
      BY <1>1, <1>4, <2>1 DEF FileSound, Holds, PartEffect
    <2>2. QED
      BY <1>1, <2>1 DEF InZone
  <1>5. ASSUME NEW label \in PartPcs, Goto(w, label)
        PROVE  /\ Pc(w)' = label /\ job'[w].u = u /\ job'[w].n = n
               /\ job'[w].content = job[w].content
    BY <1>1, <1>2, <1>5, GotoJob
  <1>6. CASE PartLook(w)
    <2>1. /\ files' = files /\ parts' = parts /\ Pc(w) = "look" /\ job'[w] # Idle
          /\ Pc(w)' = "quota" /\ job'[w].u = u /\ job'[w].n = n
      <3>1. job'[w] = [job[w] EXCEPT !.pc = "quota", !.seen = parts[u][n]]
        BY <1>6 DEF PartLook, TypeOK
      <3>2. Pc(w)' = "quota" /\ job'[w].u = u /\ job'[w].n = n
        BY <1>2, <3>1 DEF PartJob, Pc
      <3>3. job'[w] # Idle
        BY <3>2 DEF Pc, Idle
      <3>4. QED
        BY <1>6, <3>2, <3>3 DEF PartLook
    <2>2. PartSound(w)'
      BY <1>1, <1>3, <2>1 DEF PartSound, PartEffect
    <2>3. QED
      BY <1>3, <1>4, <2>1, <2>2
  <1>7. CASE PartQuota(w)
    <2>1. parts' = parts /\ Pc(w) = "quota" /\ f.writers = {}
      BY <1>3, <1>7 DEF PartQuota
    <2>2. CASE Finish(w) /\ UNCHANGED files
      BY <1>3, <1>4, <2>1, <2>2, FinishJob, IdleJobSound
    <2>3. CASE Goto(w, "stream") /\ files' = [files EXCEPT ![u][n] = Open(f, w)]
      <3>1. files'[u][n] = [data |-> Torn, writers |-> {w}, mixed |-> FALSE]
        <4>1. Open(f, w) \in File /\ Open(f, w) = [data |-> Torn, writers |-> {w}, mixed |-> FALSE]
          BY <1>2, <2>1, FileTypes DEF Open
        <4>2. QED
          BY <1>2, <2>3, <4>1, FileChange
      <3>2. /\ Pc(w)' = "stream" /\ job'[w].u = u /\ job'[w].n = n
            /\ job'[w].content = job[w].content
        BY <1>5, <2>3 DEF PartPcs
      <3>3. PartSound(w)'
        BY <1>3, <2>1, <3>1, <3>2 DEF PartSound
      <3>4. ASSUME NEW x, NEW m, x = u, m = n
            PROVE  FileSound(x, m)'
        BY <1>3, <2>1, <3>1, <3>2, <3>4 DEF FileSound
      <3>5. QED
        BY <1>1, <3>3, <3>4 DEF InZone
    <2>4. QED
      BY <1>7, <2>2, <2>3 DEF PartQuota
  <1>8. CASE PartStored(w)
    <2>1. Pc(w) = "stream" /\ parts' = parts /\ upload' = upload
      BY <1>8 DEF PartStored
    <2>2. \E label \in {"record", "verify"} : Goto(w, label)
      BY <1>8 DEF PartStored
    <2>3. /\ Pc(w)' \in {"record", "verify"} /\ job'[w].u = u /\ job'[w].n = n
          /\ job'[w].content = job[w].content
      BY <1>5, <2>2 DEF PartPcs
    <2>4. CASE w \in f.writers
      <3>1. f.writers \ {w} = {}
        BY <1>3
      <3>2. files' = [files EXCEPT ![u][n].data = job[w].content, ![u][n].writers = {}]
        BY <1>3, <1>8, <2>4, <3>1 DEF PartStored
      <3>3. files'[u][n] = [f EXCEPT !.data = job[w].content, !.writers = {}]
        BY <1>2, <3>2 DEF TypeOK
      <3>4. /\ files'[u][n].data = job[w].content /\ files'[u][n].writers = {}
            /\ ~files'[u][n].mixed
        BY <1>2, <1>3, <3>3 DEF File
      <3>5. PartSound(w)'
        BY <1>3, <2>1, <2>3, <3>4 DEF PartSound, Holds
      <3>6. QED
        BY <1>3, <1>4, <2>1, <3>4, <3>5
    <2>5. CASE w \notin f.writers
      <3>1. files' = files
        BY <1>8, <2>5 DEF PartStored
      <3>2. upload[u] # "open" /\ f.data = Absent /\ f.writers = {}
        BY <1>1, <1>3, <2>1, <2>5 DEF PartSound
      <3>3. PartSound(w)'
        BY <1>3, <2>1, <2>3, <3>1, <3>2 DEF PartSound, Holds
      <3>4. QED
        BY <1>3, <1>4, <2>1, <3>1, <3>2, <3>3
    <2>6. QED
      BY <2>4, <2>5
  <1>9. CASE PartBodyFails(w) \/ PartReject(w)
    <2>1. parts' = parts /\ Finish(w) /\ files' = [files EXCEPT ![u][n] = NoFile]
      BY <1>9 DEF PartBodyFails, PartReject
    <2>2. files'[u][n] = NoFile
      BY <1>2, <2>1 DEF TypeOK
    <2>3. QED
      BY <1>3, <1>4, <2>1, <2>2, FinishJob, IdleJobSound DEF NoFile
  <1>10. CASE PartVerify(w)
    <2>1. parts' = parts /\ files' = files /\ Pc(w) = "verify" /\ upload' = upload
      BY <1>10 DEF PartVerify
    <2>2. \E label \in {"record", "reject"} : Goto(w, label)
      BY <1>10 DEF PartVerify
    <2>3. /\ Pc(w)' \in {"record", "reject"} /\ job'[w].u = u /\ job'[w].n = n
          /\ job'[w].content = job[w].content
      BY <1>5, <2>2 DEF PartPcs
    <2>4. PartSound(w)'
      BY <1>1, <1>3, <2>1, <2>3 DEF PartSound, Holds
    <2>5. QED
      BY <1>3, <1>4, <2>1, <2>4
  <1>11. CASE PartRecord(w)
    <2>1. files' = files /\ Pc(w) = "record" /\ Finish(w) /\ f.writers = {}
      BY <1>3, <1>11 DEF PartRecord
    <2>2. Holds(u, n, job[w].content)
      BY <1>1, <1>3, <2>1 DEF PartSound
    <2>3. parts'[u][n] \in {None, job[w].content}
      BY <1>2, <1>3, <1>11, PartChange DEF PartRecord
    <2>4. QED
      BY <1>3, <1>4, <2>1, <2>2, <2>3, FinishJob, IdleJobSound DEF Holds
  <1>12. QED
    BY <1>6, <1>7, <1>8, <1>9, <1>10, <1>11 DEF PartStep

LEMMA CompleteStepSound ==
  ASSUME TypeOK, PoliteSound, NEW w \in Workers, CheckStep(w) \/ BuildStep(w)
  PROVE  CompleteSound(w)'
  <1> DEFINE u == job[w].u
             list == job[w].list
  <1>1. Pc(w) \in CompletePcs /\ CompleteEffect(w)
    BY CompleteEffects
  <1>2. /\ job[w] \in CompleteJob /\ ~IsPart(w) /\ u \in Uploads /\ list \in Lists
        /\ job[w].got \in Assembly /\ DOMAIN list \subseteq Parts
    BY <1>1, CompleteJobs
  <1>3. CompleteSound(w) /\ files' = files
    BY <1>1 DEF PoliteSound, CompleteEffect
  <1>4. ASSUME Finish(w)
        PROVE  CompleteSound(w)'
    BY <1>4, FinishJob, IdleJobSound
  <1>5. ASSUME NEW label \in CompletePcs, Goto(w, label)
        PROVE  Pc(w)' = label /\ job'[w].u = u /\ job'[w].list = list /\ job'[w].got = job[w].got
    BY <1>1, <1>2, <1>5, GotoJob
  <1>6. CASE CompleteMatch(w)
    <2>1. CASE Finish(w)
      BY <1>4, <2>1
    <2>2. CASE Goto(w, "check") /\ \A n \in DOMAIN list : parts[u][n] = list[n]
      <3>1. ASSUME NEW n \in DOMAIN list
            PROVE  files[u][n].data \in {list[n], Absent}
        <4>1. n \in Parts /\ list[n] # None
          BY <1>2, ListsAreAssemblies, MarkerAssumption
        <4>2. FileSound(u, n) /\ parts[u][n] = list[n]
          BY <1>2, <2>2, <4>1 DEF PoliteSound, FilesSound
        <4>3. QED
          BY <4>1, <4>2 DEF FileSound, Holds
      <3>2. QED
        BY <1>1, <1>3, <1>5, <2>2, <3>1 DEF CompleteSound, CompletePcs
    <2>3. QED
      BY <1>6, <2>1, <2>2 DEF CompleteMatch
  <1>7. CASE CompleteCheck(w)
    <2>1. CASE Finish(w)
      BY <1>4, <2>1
    <2>2. CASE job' = [job EXCEPT ![w].pc = "room", ![w].seen = row]
      <3>1. job'[w] = [job[w] EXCEPT !.pc = "room", !.seen = row]
        BY <2>2 DEF TypeOK
      <3>2. Pc(w)' = "room" /\ job'[w].u = u /\ job'[w].list = list /\ job'[w].got = job[w].got
        BY <1>2, <3>1 DEF CompleteJob, Pc
      <3>3. Pc(w) = "check"
        BY <1>7 DEF CompleteCheck
      <3>4. QED
        BY <1>1, <1>3, <3>2, <3>3 DEF CompleteSound, CompletePcs
    <2>3. QED
      BY <1>7, <2>1, <2>2 DEF CompleteCheck
  <1>8. CASE CompleteQuota(w)
    <2>1. CASE Finish(w)
      BY <1>4, <2>1
    <2>2. CASE Goto(w, "assemble")
      <3>1. Pc(w) = "room"
        BY <1>8 DEF CompleteQuota
      <3>2. QED
        BY <1>1, <1>3, <1>5, <2>2, <3>1 DEF CompleteSound, CompletePcs
    <2>3. QED
      BY <1>8, <2>1, <2>2 DEF CompleteQuota
  <1>9. CASE AssembleRename(w)
    <2>1. Goto(w, "publish") /\ DOMAIN job[w].got = DOMAIN list
      BY <1>9 DEF AssembleRename
    <2>2. QED
      BY <1>1, <1>3, <1>5, <2>1 DEF CompleteSound, CompletePcs
  <1>10. CASE CompletePublish(w)
    <2>1. Goto(w, "forget")
      BY <1>10 DEF CompletePublish
    <2>2. QED
      BY <1>1, <1>3, <1>5, <2>1 DEF CompleteSound, CompletePcs
  <1>11. ASSUME NEW n \in Parts, AssemblePart(w, n)
         PROVE  CompleteSound(w)'
    <2> DEFINE b == files[u][n].data
               got == [m \in DOMAIN job[w].got \cup {n} |->
                         IF m = n THEN b ELSE job[w].got[m]]
    <2>1. Pc(w) = "assemble" /\ n \in DOMAIN list
      BY <1>11 DEF AssemblePart
    <2>2. CASE Finish(w)
      BY <1>4, <2>2
    <2>3. CASE b # Absent /\ job' = [job EXCEPT ![w].got = got]
      <3>1. job'[w] = [job[w] EXCEPT !.got = got]
        BY <2>3 DEF TypeOK
      <3>2. b = list[n]
        BY <1>1, <1>3, <2>1, <2>3 DEF CompleteSound
      <3>3. DOMAIN got \subseteq DOMAIN list /\ \A m \in DOMAIN got : got[m] = list[m]
        BY <1>1, <1>3, <2>1, <3>2 DEF CompleteSound
      <3> HIDE DEF got
      <3>4. Pc(w)' = "assemble" /\ job'[w].u = u /\ job'[w].list = list /\ job'[w].got = got
        BY <1>2, <2>1, <3>1 DEF CompleteJob, Pc
      <3>5. QED
        BY <1>1, <1>3, <2>1, <3>3, <3>4 DEF CompleteSound, CompletePcs
    <2>4. QED
      BY <1>11, <2>2, <2>3 DEF AssemblePart
  <1>12. QED
    BY <1>6, <1>7, <1>8, <1>9, <1>10, <1>11 DEF CheckStep, BuildStep

LEMMA MultipartStep ==
  ASSUME MultipartInv, NEW w \in Workers, Step(w)
  PROVE  MultipartInv'
  <1>1. TypeOK /\ TypeOK' /\ Moves(w) /\ job[w] # Idle
    BY StepMoves DEF MultipartInv, Moves
  <1>2. CASE ~polite
    BY <1>1, <1>2, MovesPreserves
  <1>3. CASE polite
    <2>1. PoliteSound
      BY <1>3 DEF MultipartInv
    <2>2. CASE PartStep(w)
      <3>1. IsPart(w) /\ PartEffect(w) /\ Pc(w) # "rmdir"
        BY <1>1, <2>2, PartEffects DEF IsPart, PartPcs
      <3>2. upload' = upload /\ upload[job[w].u] # "gone"
        BY <1>1, <2>1, <3>1, WorkedOnNotGone DEF PartEffect
      <3>3. CompleteSound(w)' /\ Pc(w)' # "rmdir"
        BY <3>1 DEF PartEffect, CompleteSound, CompletePcs, IsPart, PartPcs, Idle, Pc
      <3>4. PartSound(w)' /\ \A u \in Uploads, n \in Parts : InZone(w, u, n) => FileSound(u, n)'
        BY <1>1, <2>1, <2>2, PartStepSound
      <3>5. QED
        BY <1>1, <3>2, <3>3, <3>4, MovesPreserves
    <2>3. CASE CheckStep(w) \/ BuildStep(w)
      <3>1. Pc(w) \in CompletePcs /\ CompleteEffect(w) /\ Pc(w) # "rmdir"
        BY <1>1, <2>3, CompleteEffects DEF CompletePcs
      <3>2. upload' = upload /\ upload[job[w].u] # "gone"
        BY <1>1, <2>1, <3>1, WorkedOnNotGone DEF CompleteEffect
      <3>3. PartSound(w)' /\ Pc(w)' # "rmdir"
        BY <3>1 DEF CompleteEffect, PartSound, CompletePcs, IsPart, PartPcs, Idle, Pc
      <3>4. CompleteSound(w)'
        BY <1>1, <2>1, <2>3, CompleteStepSound
      <3>5. ASSUME NEW u \in Uploads, NEW n \in Parts
            PROVE  FileSound(u, n)'
        <4>1. FileSound(u, n) /\ UNCHANGED <<files, parts, upload>>
          BY <2>1, <3>1 DEF PoliteSound, FilesSound, CompleteEffect
        <4>2. ASSUME NEW v \in files[u][n].writers
              PROVE  Pc(v)' = "stream" /\ job'[v].u = u /\ job'[v].n = n
          <5>1. v \in Workers /\ Pc(v) = "stream" /\ job[v].u = u /\ job[v].n = n
            BY <1>1, <4>1 DEF FileSound, TypeOK, File
          <5>2. v # w
            BY <3>1, <5>1 DEF CompletePcs
          <5>3. QED
            BY <3>1, <5>1, <5>2 DEF CompleteEffect, Pc
        <4>3. QED
          BY <4>1, <4>2 DEF FileSound, Holds
      <3>6. QED
        BY <1>1, <3>2, <3>3, <3>4, <3>5, MovesPreserves
    <2>4. CASE Forget(w)
      <3>1. Pc(w) # "rmdir" /\ Pc(w) # "stream" /\ job[w].u \in Uploads /\ ~IsPart(w)
        BY <1>1, <2>4, JobShape DEF Forget, IsPart, PartPcs
      <3>2. upload[job[w].u] # "gone"
        BY <1>1, <2>1, <3>1, WorkedOnNotGone
      <3>3. CASE ~Live(job[w].u)
        <4>1. job'[w] = Idle /\ UNCHANGED <<upload, parts, files>>
          BY <1>1, <2>4, <3>3, FinishJob DEF Forget
        <4>2. ASSUME NEW u \in Uploads, NEW n \in Parts
              PROVE  FileSound(u, n)'
          <5>1. FileSound(u, n)
            BY <2>1 DEF PoliteSound, FilesSound
          <5>2. ASSUME NEW v \in files[u][n].writers
                PROVE  Pc(v)' = "stream" /\ job'[v].u = u /\ job'[v].n = n
            <6>1. v \in Workers /\ Pc(v) = "stream" /\ job[v].u = u /\ job[v].n = n
              BY <1>1, <5>1 DEF FileSound, TypeOK, File
            <6>2. QED
              BY <1>1, <3>1, <6>1 DEF Moves, Pc
          <5>3. QED
            BY <4>1, <5>1, <5>2 DEF FileSound, Holds
        <4>3. PartSound(w)' /\ CompleteSound(w)' /\ Pc(w)' = "idle"
          BY <4>1, IdleJobSound
        <4>4. upload'[job[w].u] # "gone"
          BY <3>2, <4>1
        <4>5. QED
          BY <1>1, <4>2, <4>3, <4>4, MovesPreserves
      <3>4. CASE Live(job[w].u)
        <4>1. /\ job'[w] = [pc |-> "rmdir", u |-> job[w].u] /\ files' = files
              /\ upload'[job[w].u] = "gone" /\ \A n \in Parts : parts'[job[w].u][n] = None
          BY <1>1, <2>4, <3>1, <3>4 DEF Forget, TypeOK
        <4>2. PartSound(w)' /\ CompleteSound(w)' /\ Pc(w)' = "rmdir"
          BY <4>1 DEF PartSound, CompleteSound, IsPart, Pc, PartPcs, CompletePcs
        <4>3. ASSUME NEW u \in Uploads, NEW n \in Parts, InZone(w, u, n)
              PROVE  FileSound(u, n)'
          <5>1. FileSound(u, n) /\ u = job[w].u
            BY <2>1, <4>3 DEF PoliteSound, FilesSound, InZone
          <5>2. ASSUME NEW v \in files[u][n].writers
                PROVE  Pc(v)' = "stream" /\ job'[v].u = u /\ job'[v].n = n
            <6>1. v \in Workers /\ Pc(v) = "stream" /\ job[v].u = u /\ job[v].n = n
              BY <1>1, <5>1 DEF FileSound, TypeOK, File
            <6>2. QED
              BY <1>1, <3>1, <6>1 DEF Moves, Pc
          <5>3. QED
            BY <4>1, <5>1, <5>2 DEF FileSound
        <4>4. QED
          BY <1>1, <4>1, <4>2, <4>3, MovesPreserves
      <3>5. QED
        BY <3>3, <3>4
    <2>5. CASE DeleteUploadParts(w)
      <3>1. job[w].u \in Uploads
        BY <1>1, JobShape
      <3>2. /\ job'[w] = Idle /\ parts' = parts /\ upload' = upload
            /\ \A n \in Parts : files'[job[w].u][n] = NoFile
        BY <1>1, <2>5, <3>1, FinishJob DEF DeleteUploadParts, TypeOK
      <3>3. PartSound(w)' /\ CompleteSound(w)' /\ Pc(w)' = "idle"
        BY <3>2, IdleJobSound
      <3>4. upload[job[w].u] = "gone"
        BY <2>1, <2>5 DEF DeleteUploadParts, PoliteSound, GoneSound
      <3>5. ASSUME NEW u \in Uploads, NEW n \in Parts, InZone(w, u, n)
            PROVE  FileSound(u, n)'
        <4>1. FileSound(u, n) /\ u = job[w].u
          BY <2>1, <3>5 DEF PoliteSound, FilesSound, InZone
        <4>2. /\ files'[u][n].data = Absent /\ files'[u][n].writers = {}
              /\ ~files'[u][n].mixed
          BY <3>2, <4>1 DEF NoFile
        <4>3. upload'[u] # "open"
          BY <3>2, <3>4, <4>1
        <4>4. QED
          BY <3>2, <4>2, <4>3 DEF FileSound, Holds
      <3>6. QED
        BY <1>1, <3>2, <3>3, <3>5, MovesPreserves
    <2>6. QED
      BY <2>2, <2>3, <2>4, <2>5, StepCases
  <1>4. QED
    BY <1>1, <1>2, <1>3 DEF TypeOK
----------------------------------------------------------------------------
(* Requests that start.                                                    *)

(* What a request finds when it starts: its upload is there, and if clients*)
(* are polite nobody works on its part, or on anything if it is no part.   *)
Starts(w, u) ==
  /\ job[w] = Idle /\ job'[w] # Idle /\ job'[w].u = u /\ Live(u)
  /\ Pc(w)' \in {"look", "match", "delete"}
  /\ \A v \in Workers \ {w} : job'[v] = job[v]
  /\ UNCHANGED <<client, upload, parts, files, object, sweep, crashes>>
  /\ polite =>
       \/ /\ Pc(w)' = "look" /\ job'[w].n \in Parts /\ parts[u][job'[w].n] = None
          /\ \A v \in On(u) : IsPart(v) /\ job[v].n # job'[w].n
       \/ Pc(w)' # "look" /\ Busy = {} /\ CompleteSound(w)'

LEMMA BeginStarts ==
  ASSUME TypeOK, NEW w \in Workers, Begin(w)
  PROVE  \E u \in Uploads : Starts(w, u)
  <1>1. ASSUME NEW u \in Uploads, NEW n \in Parts, NEW c \in Contents, NEW copy \in BOOLEAN,
               PartBegin(w, u, n, c, copy)
        PROVE  Starts(w, u)
    <2> DEFINE r == [pc |-> "look", u |-> u, n |-> n, content |-> c, copy |-> copy,
                     seen |-> None]
    <2>1. r \in Job /\ r # Idle /\ r.pc = "look" /\ r.u = u /\ r.n = n
      BY DEF PartJob, PartPcs, Idle, Job
    <2>2. Start(w, r)
      BY <1>1 DEF PartBegin
    <2> HIDE DEF r
    <2>3. job[w] = Idle /\ job'[w] = r /\ \A v \in Workers \ {w} : job'[v] = job[v]
      BY <2>1, <2>2, StartJob
    <2>4. /\ Live(u) /\ UNCHANGED <<client, upload, parts, files, object, sweep, crashes>>
          /\ polite => parts[u][n] = None /\ \A v \in On(u) : IsPart(v) /\ job[v].n # n
      BY <1>1 DEF PartBegin, Polite
    <2>5. Pc(w)' = "look"
      BY <2>1, <2>3 DEF Pc
    <2>6. QED
      BY <2>1, <2>3, <2>4, <2>5 DEF Starts
  <1>2. ASSUME NEW u \in Uploads, NEW list \in Lists, NEW createOnly \in BOOLEAN,
               CompleteBegin(w, u, list, createOnly)
        PROVE  Starts(w, u)
    <2> DEFINE r == [pc |-> "match", u |-> u, list |-> list, createOnly |-> createOnly,
                     seen |-> <<>>, got |-> <<>>]
    <2>1. r \in Job /\ r # Idle /\ r.pc = "match" /\ r.u = u /\ DOMAIN r.got = {}
      BY EmptyAssembly DEF CompleteJob, Idle, Job
    <2>2. Start(w, r)
      BY <1>2 DEF CompleteBegin
    <2> HIDE DEF r
    <2>3. job[w] = Idle /\ job'[w] = r /\ \A v \in Workers \ {w} : job'[v] = job[v]
      BY <2>1, <2>2, StartJob
    <2>4. /\ Live(u) /\ UNCHANGED <<client, upload, parts, files, object, sweep, crashes>>
          /\ polite => Busy = {}
      BY <1>2 DEF CompleteBegin, Polite
    <2>5. Pc(w)' = "match"
      BY <2>1, <2>3 DEF Pc
    <2>6. CompleteSound(w)'
      BY <2>1, <2>3, <2>5 DEF CompleteSound
    <2>7. QED
      BY <2>1, <2>3, <2>4, <2>5, <2>6 DEF Starts
  <1>3. ASSUME NEW u \in Uploads, AbortBegin(w, u)
        PROVE  Starts(w, u)
    <2> DEFINE r == [pc |-> "delete", u |-> u]
    <2>1. r \in Job /\ r # Idle /\ r.pc = "delete" /\ r.u = u
      BY DEF CloseJob, Idle, Job
    <2>2. Start(w, r)
      BY <1>3 DEF AbortBegin
    <2> HIDE DEF r
    <2>3. job[w] = Idle /\ job'[w] = r /\ \A v \in Workers \ {w} : job'[v] = job[v]
      BY <2>1, <2>2, StartJob
    <2>4. /\ Live(u) /\ UNCHANGED <<client, upload, parts, files, object, sweep, crashes>>
          /\ polite => Busy = {}
      BY <1>3 DEF AbortBegin, Polite
    <2>5. Pc(w)' = "delete"
      BY <2>1, <2>3 DEF Pc
    <2>6. CompleteSound(w)'
      BY <2>5 DEF CompleteSound, CompletePcs
    <2>7. QED
      BY <2>1, <2>3, <2>4, <2>5, <2>6 DEF Starts
  <1>4. QED
    BY <1>1, <1>2, <1>3 DEF Begin, UploadPart, UploadPartCopy

(* A request that starts keeps what the others rely on.                    *)
LEMMA StartsKeepOthers ==
  ASSUME TypeOK, PoliteSound, NEW w \in Workers, NEW u \in Uploads, Starts(w, u),
         NEW v \in Workers, v # w
  PROVE  /\ PartSound(v)' /\ CompleteSound(v)'
         /\ (IsPart(v)' <=> IsPart(v)) /\ Pc(v)' = Pc(v) /\ job'[v] = job[v]
  <1>1. job'[v] = job[v] /\ files' = files /\ parts' = parts /\ upload' = upload
    BY DEF Starts
  <1>2. Pc(v)' = Pc(v) /\ (IsPart(v)' <=> IsPart(v))
    BY <1>1 DEF Pc, IsPart
  <1>3. PartSound(v) /\ CompleteSound(v)
    BY DEF PoliteSound
  <1>4. PartSound(v)'
    BY <1>1, <1>2, <1>3 DEF PartSound, Holds
  <1>5. CompleteSound(v)'
    BY <1>1, <1>2, <1>3 DEF CompleteSound
  <1>6. QED
    BY <1>1, <1>2, <1>4, <1>5

LEMMA MultipartBegin ==
  ASSUME MultipartInv, NEW w \in Workers, Begin(w)
  PROVE  MultipartInv'
  <1>1. TypeOK /\ TypeOK'
    BY MultipartBeginType DEF MultipartInv
  <1>2. PICK u \in Uploads : Starts(w, u)
    BY <1>1, BeginStarts
  <1>3. /\ job[w] = Idle /\ job'[w] # Idle /\ job'[w].u = u /\ upload[u] \in {"open", "old"}
        /\ \A v \in Workers \ {w} : job'[v] = job[v]
        /\ files' = files /\ parts' = parts /\ upload' = upload /\ sweep' = sweep
        /\ polite' = polite /\ crashes' = crashes
    BY <1>2 DEF Starts, Live, client
  <1>4. \A x \in Uploads : x # u => On(x)' = On(x)
    <2>1. ASSUME NEW x \in Uploads, x # u, NEW v \in Workers
          PROVE  v \in On(x)' <=> v \in On(x)
      BY <1>3, <2>1 DEF On, Busy
    <2>2. QED
      BY <2>1 DEF On, Busy
  <1>5. UnusedSound' /\ SweepSound'
    BY <1>3, <1>4 DEF MultipartInv, UnusedSound, SweepSound
  <1>6. ASSUME polite
        PROVE  PoliteSound'
    <2>1. PoliteSound
      BY <1>6 DEF MultipartInv
    <2>2. \A v \in Workers : v # w => 
            /\ PartSound(v)' /\ CompleteSound(v)'
            /\ (IsPart(v)' <=> IsPart(v)) /\ Pc(v)' = Pc(v) /\ job'[v] = job[v]
      BY <1>1, <1>2, <2>1, StartsKeepOthers
    <2>3. IsPart(w)' <=> Pc(w)' = "look"
      BY <1>2 DEF Starts, IsPart, PartPcs
    <2>4. ASSUME Pc(w)' = "look", job'[w].n \in Parts, parts[u][job'[w].n] = None,
                 \A v \in On(u) : IsPart(v) /\ job[v].n # job'[w].n
          PROVE  SoloParts' /\ ClosersAlone' /\ PartSound(w)' /\ CompleteSound(w)'
      <3>1. PartSound(w)' /\ CompleteSound(w)' /\ IsPart(w)'
        BY <1>3, <2>3, <2>4 DEF PartSound, CompleteSound, CompletePcs
      <3>2. \A v \in Busy : job[v].u = u => IsPart(v) /\ job[v].n # job'[w].n
        BY <2>4 DEF On
      <3>3. \A v \in Workers : v # w /\ IsPart(v) => v \in Busy
        BY DEF IsPart, PartPcs, Busy, Pc, Idle
      <3>4. \A v \in Workers : v # w /\ IsPart(v) => job[v].u # u \/ job[v].n # job'[w].n
        BY <3>2, <3>3
      <3>5. SoloParts'
        <4>1. ASSUME NEW v \in Workers, NEW x \in Workers, v # x, IsPart(v)', IsPart(x)'
              PROVE  job'[v].u # job'[x].u \/ job'[v].n # job'[x].n
          <5>1. CASE v # w /\ x # w
            BY <2>1, <2>2, <4>1, <5>1 DEF PoliteSound, SoloParts
          <5>2. CASE v = w
            BY <1>3, <2>2, <3>4, <4>1, <5>2
          <5>3. CASE x = w
            BY <1>3, <2>2, <3>4, <4>1, <5>3
          <5>4. QED
            BY <5>1, <5>2, <5>3
        <4>2. QED
          BY <4>1 DEF SoloParts
      <3>6. ClosersAlone'
        <4>1. ASSUME NEW v \in Busy', ~IsPart(v)', NEW x \in Busy', x # v
              PROVE  IsPart(x)' /\ job'[x].u # job'[v].u
          <5>1. v \in Workers /\ v # w /\ x \in Workers /\ job'[v] # Idle /\ job'[x] # Idle
            BY <3>1, <4>1 DEF Busy
          <5>2. v \in Busy /\ ~IsPart(v) /\ job'[v] = job[v] /\ job[v].u # u
            BY <2>2, <3>2, <4>1, <5>1 DEF Busy
          <5>3. CASE x = w
            BY <1>3, <3>1, <5>2, <5>3
          <5>4. CASE x # w
            <6>1. x \in Busy /\ job'[x] = job[x] /\ (IsPart(x)' <=> IsPart(x))
              BY <2>2, <5>1, <5>4 DEF Busy
            <6>2. IsPart(x) /\ job[x].u # job[v].u
              BY <2>1, <4>1, <5>2, <6>1 DEF PoliteSound, ClosersAlone, Alone
            <6>3. QED
              BY <5>2, <6>1, <6>2
          <5>5. QED
            BY <5>3, <5>4
        <4>2. QED
          BY <4>1 DEF ClosersAlone, Alone
      <3>7. QED
        BY <3>1, <3>5, <3>6
    <2>5. ASSUME Pc(w)' # "look", Busy = {}, CompleteSound(w)'
          PROVE  SoloParts' /\ ClosersAlone' /\ PartSound(w)' /\ CompleteSound(w)'
      <3>1. PartSound(w)'
        BY <2>3, <2>5 DEF PartSound
      <3>2. \A v \in Busy' : v = w
        BY <2>2, <2>5 DEF Busy
      <3>3. \A v \in Workers : IsPart(v)' => v \in Busy'
        BY DEF IsPart, PartPcs, Busy, Pc, Idle
      <3>4. SoloParts' /\ ClosersAlone'
        BY <3>2, <3>3 DEF SoloParts, ClosersAlone, Alone
      <3>5. QED
        BY <2>5, <3>1, <3>4
    <2>6. SoloParts' /\ ClosersAlone' /\ PartSound(w)' /\ CompleteSound(w)'
      BY <1>2, <1>6, <2>4, <2>5 DEF Starts
    <2>7. ASSUME NEW x \in Uploads, NEW n \in Parts
          PROVE  FileSound(x, n)'
      <3>1. FileSound(x, n)
        BY <2>1 DEF PoliteSound, FilesSound
      <3>2. ASSUME NEW v \in files[x][n].writers
            PROVE  Pc(v)' = "stream" /\ job'[v].u = x /\ job'[v].n = n
        <4>1. v \in Workers /\ Pc(v) = "stream" /\ job[v].u = x /\ job[v].n = n
          BY <1>1, <3>1 DEF FileSound, TypeOK, File
        <4>2. v # w
          BY <1>3, <4>1 DEF Pc, Idle
        <4>3. QED
          BY <2>2, <4>1, <4>2
      <3>3. QED
        BY <1>3, <3>1, <3>2 DEF FileSound, Holds
    <2>8. GoneSound'
      <3>1. ASSUME NEW v \in Workers, Pc(v)' = "rmdir"
            PROVE  upload'[job'[v].u] = "gone"
        BY <1>2, <1>3, <2>1, <2>2, <3>1 DEF Starts, PoliteSound, GoneSound
      <3>2. ASSUME NEW x \in Uploads, upload'[x] = "gone"
            PROVE  /\ \A v \in On(x)' : Pc(v)' = "rmdir"
                   /\ crashes' = 0 /\ On(x)' = {} => \A n \in Parts : files'[x][n] = NoFile
        <4>1. x # u /\ On(x)' = On(x) /\ w \notin On(x) /\ upload[x] = "gone"
          BY <1>3, <1>4, <3>2 DEF On, Busy
        <4>2. \A v \in On(x) : v \in Workers /\ v # w
          BY <4>1 DEF On, Busy
        <4>3. QED
          BY <1>3, <2>1, <2>2, <4>1, <4>2 DEF PoliteSound, GoneSound
      <3>3. QED
        BY <3>1, <3>2 DEF GoneSound
    <2>9. QED
      BY <2>2, <2>6, <2>7, <2>8 DEF PoliteSound, FilesSound
  <1>7. QED
    BY <1>1, <1>3, <1>5, <1>6 DEF MultipartInv
----------------------------------------------------------------------------
(* The rest of the system: uploads are created and get older, the sweep    *)
(* runs, the process dies.                                                 *)

(* What happens to the uploads beside the requests under way: files can go *)
(* with an upload that is not open, a row with one that was swept.         *)
Passes ==
  /\ job' = job /\ polite' = polite /\ crashes' = crashes
  /\ \A u \in Uploads :
       /\ upload'[u] = "open" => upload[u] \in {"open", "unused"}
       /\ upload'[u] = "unused" => upload[u] = "unused"
       /\ upload'[u] = "gone" <=> upload[u] = "gone"
       /\ \A n \in Parts :
            /\ \/ files'[u][n] = files[u][n]
               \/ files'[u][n] = NoFile /\ upload[u] = upload'[u] /\ upload[u] # "open"
            /\ parts'[u][n] \in {parts[u][n], None}

LEMMA PassesPreserves ==
  ASSUME MultipartInv, TypeOK', SweepSound', Passes
  PROVE  MultipartInv'
  <1>1. TypeOK /\ UnusedSound
    BY DEF MultipartInv
  <1>2. \A u \in Uploads : On(u)' = On(u)
    BY DEF Passes, On, Busy
  <1>3. UnusedSound'
    BY <1>1, <1>2 DEF UnusedSound, Passes
  <1>4. \A w \in Workers : Pc(w)' = Pc(w) /\ (IsPart(w)' <=> IsPart(w)) /\ job'[w] = job[w]
    BY DEF Passes, Pc, IsPart
  <1>5. ASSUME polite
        PROVE  PoliteSound'
    <2>1. PoliteSound
      BY <1>5 DEF MultipartInv
    <2>2. SoloParts'
      BY <1>4, <2>1 DEF PoliteSound, SoloParts
    <2>3. ClosersAlone'
      <3>1. Busy' = Busy
        BY DEF Busy, Passes
      <3>2. \A w \in Busy : w \in Workers
        BY DEF Busy
      <3>3. QED
        BY <1>4, <2>1, <3>1, <3>2 DEF PoliteSound, ClosersAlone, Alone
    <2>4. ASSUME NEW u \in Uploads, NEW n \in Parts, NEW c \in Contents, Holds(u, n, c),
                 upload[u] # "unused"
          PROVE  Holds(u, n, c)'
      BY <2>4 DEF Holds, Passes, NoFile
    <2>5. ASSUME NEW u \in Uploads, NEW n \in Parts
          PROVE  FileSound(u, n)'
      <3>1. FileSound(u, n)
        BY <2>1 DEF PoliteSound, FilesSound
      <3>2. ~files'[u][n].mixed /\ files'[u][n].writers \subseteq files[u][n].writers
        BY <3>1 DEF FileSound, Passes, NoFile
      <3>3. ASSUME parts'[u][n] # None
            PROVE  Holds(u, n, parts[u][n])' /\ parts'[u][n] = parts[u][n]
        <4>1. parts'[u][n] = parts[u][n] /\ parts[u][n] \in Contents
          BY <1>1, <3>3 DEF Passes, TypeOK
        <4>2. upload[u] # "unused"
          BY <1>1, <3>3, <4>1 DEF UnusedSound
        <4>3. Holds(u, n, parts[u][n])
          BY <3>1, <3>3, <4>1 DEF FileSound
        <4>4. \A c \in Contents : c = parts[u][n] => Holds(u, n, c)'
          BY <2>4, <4>2, <4>3
        <4>5. QED
          BY <4>1, <4>4 DEF Holds
      <3>4. \A w \in files[u][n].writers : w \in Workers
        BY <1>1 DEF TypeOK, File
      <3>5. QED
        BY <1>4, <3>1, <3>2, <3>3, <3>4 DEF FileSound, Holds
    <2>6. ASSUME NEW w \in Workers
          PROVE  PartSound(w)'
      <3> DEFINE u == job[w].u
                 n == job[w].n
                 c == job[w].content
      <3>1. CASE IsPart(w)
        <4>1. /\ PartSound(w) /\ u \in Uploads /\ n \in Parts /\ c \in Contents
              /\ job[w] # Idle
          BY <1>1, <2>1, <3>1, PartJobs DEF PoliteSound
        <4>2. upload[u] # "unused"
          BY <1>1, <4>1 DEF UnusedSound, On, Busy
        <4>3. parts'[u][n] = None
          BY <3>1, <4>1 DEF PartSound, Passes
        <4>4. Pc(w) \in {"verify", "record"} =>
               \A x \in Uploads, m \in Parts, d \in Contents :
                 x = u /\ m = n /\ d = c => Holds(x, m, d)'
          <5>1. Pc(w) \in {"verify", "record"} => Holds(u, n, c)
            BY <3>1, <4>1 DEF PartSound
          <5>2. QED
            BY <2>4, <4>1, <4>2, <5>1
        <4>5. Pc(w) = "stream" /\ upload'[u] = "open" => w \in files'[u][n].writers
          BY <3>1, <4>1, <4>2 DEF PartSound, Passes
        <4>6. Pc(w) = "stream" /\ w \notin files'[u][n].writers => files'[u][n].data = Absent
          BY <3>1, <4>1 DEF PartSound, Passes, NoFile
        <4>7. QED
          BY <1>4, <4>1, <4>3, <4>4, <4>5, <4>6 DEF PartSound, Holds
      <3>2. QED
        BY <1>4, <3>1 DEF PartSound
    <2>7. ASSUME NEW w \in Workers
          PROVE  CompleteSound(w)'
      <3>1. CASE Pc(w) \in CompletePcs
        <4>1. /\ CompleteSound(w) /\ job[w].u \in Uploads
              /\ DOMAIN job[w].list \subseteq Parts
          BY <1>1, <2>1, <3>1, CompleteJobs DEF PoliteSound
        <4>2. \A n \in Parts : \/ files'[job[w].u][n] = files[job[w].u][n]
                               \/ files'[job[w].u][n].data = Absent
          BY <4>1 DEF Passes, NoFile
        <4>3. QED
          BY <1>4, <3>1, <4>1, <4>2 DEF CompleteSound
      <3>2. QED
        BY <1>4, <3>1 DEF CompleteSound
    <2>8. GoneSound'
      <3>1. ASSUME NEW w \in Workers, Pc(w)' = "rmdir"
            PROVE  upload'[job'[w].u] = "gone"
        <4>1. job[w].u \in Uploads /\ upload[job[w].u] = "gone"
          BY <1>1, <1>4, <2>1, <3>1, JobShape DEF PoliteSound, GoneSound
        <4>2. QED
          BY <1>4, <4>1 DEF Passes
      <3>2. ASSUME NEW u \in Uploads, upload'[u] = "gone"
            PROVE  /\ \A w \in On(u)' : Pc(w)' = "rmdir"
                   /\ crashes' = 0 /\ On(u)' = {} => \A n \in Parts : files'[u][n] = NoFile
        <4>1. upload[u] = "gone" /\ \A w \in On(u) : w \in Workers
          BY <3>2 DEF Passes, On, Busy
        <4>2. QED
          BY <1>2, <1>4, <2>1, <4>1 DEF PoliteSound, GoneSound, Passes
      <3>3. QED
        BY <3>1, <3>2 DEF GoneSound
    <2>9. QED
      BY <2>2, <2>3, <2>5, <2>6, <2>7, <2>8 DEF PoliteSound, FilesSound
  <1>6. QED
    BY <1>3, <1>5 DEF MultipartInv, Passes

LEMMA MultipartSurroundings ==
  ASSUME MultipartInv,
         \/ Sweep \/ \E u \in Uploads : CreateMultipartUpload(u) \/ UploadAges(u)
  PROVE  MultipartInv'
  <1>1. TypeOK /\ TypeOK' /\ SweepSound /\ UnusedSound
    BY SurroundingsType DEF MultipartInv
  <1>2. ASSUME NEW u \in Uploads, CreateMultipartUpload(u)
        PROVE  SweepSound' /\ Passes
    <2>1. /\ upload[u] = "unused" /\ upload' = [upload EXCEPT ![u] = "open"]
          /\ UNCHANGED <<client, parts, files, object, job, sweep, crashes>>
      BY <1>2 DEF CreateMultipartUpload
    <2>2. SweepSound'
      BY <1>1, <2>1 DEF SweepSound, TypeOK
    <2>3. QED
      BY <1>1, <2>1, <2>2 DEF Passes, TypeOK, client
  <1>3. ASSUME NEW u \in Uploads, UploadAges(u)
        PROVE  SweepSound' /\ Passes
    <2>1. /\ upload[u] = "open" /\ upload' = [upload EXCEPT ![u] = "old"]
          /\ UNCHANGED <<parts, files, object, job, sweep, counters>>
      BY <1>3 DEF UploadAges
    <2>2. SweepSound'
      BY <1>1, <2>1 DEF SweepSound, TypeOK
    <2>3. QED
      BY <1>1, <2>1, <2>2 DEF Passes, TypeOK, client, counters
  <1>4. ASSUME SweepSelect
        PROVE  SweepSound' /\ Passes
    <2>1. /\ sweep' = [todo |-> {u \in Uploads : upload[u] = "old"}, row |-> {}]
          /\ UNCHANGED <<upload, parts, files, object, job, counters>>
      BY <1>4 DEF SweepSelect, NoSweep
    <2>2. SweepSound'
      BY <2>1 DEF SweepSound
    <2>3. QED
      BY <1>1, <2>1, <2>2 DEF Passes, TypeOK, client, counters
  <1>5. ASSUME NEW u \in Uploads, SweepFiles(u)
        PROVE  SweepSound' /\ Passes
    <2>1. /\ sweep.row = {} /\ u \in sweep.todo
          /\ files' = [files EXCEPT ![u] = [n \in Parts |-> NoFile]]
          /\ sweep' = [todo |-> sweep.todo \ {u}, row |-> {u}]
          /\ UNCHANGED <<upload, parts, object, job, counters>>
      BY <1>5 DEF SweepFiles
    <2>2. SweepSound'
      BY <1>1, <2>1 DEF SweepSound
    <2>3. upload[u] # "open"
      BY <1>1, <2>1 DEF SweepSound
    <2>4. \A x \in Uploads, n \in Parts :
             files'[x][n] = files[x][n] \/ (files'[x][n] = NoFile /\ upload[x] # "open")
      BY <1>1, <2>1, <2>3 DEF TypeOK
    <2>5. QED
      BY <1>1, <2>1, <2>2, <2>4 DEF Passes, TypeOK, client, counters
  <1>6. ASSUME NEW u \in Uploads, SweepRow(u)
        PROVE  SweepSound' /\ Passes
    <2>1. /\ u \in sweep.row
          /\ upload' = [upload EXCEPT ![u] = IF Live(u) THEN "swept" ELSE @]
          /\ parts' = [parts EXCEPT ![u] = [n \in Parts |-> None]]
          /\ sweep' = [sweep EXCEPT !.row = {}]
          /\ UNCHANGED <<files, object, job, counters>>
      BY <1>6 DEF SweepRow
    <2>2. upload[u] \notin {"unused", "open"}
      BY <1>1, <2>1 DEF SweepSound
    <2>3. \A x \in Uploads : \/ upload'[x] = upload[x]
                             \/ x = u /\ Live(u) /\ upload'[x] = "swept"
      BY <1>1, <2>1 DEF TypeOK
    <2>4. sweep'.todo = sweep.todo /\ sweep'.row = {} /\ sweep.todo \subseteq Uploads
      BY <1>1, <2>1 DEF TypeOK
    <2>5. SweepSound'
      BY <1>1, <2>3, <2>4 DEF SweepSound
    <2>6. \A x \in Uploads, n \in Parts : parts'[x][n] \in {parts[x][n], None}
      BY <1>1, <2>1 DEF TypeOK
    <2>7. QED
      BY <2>1, <2>2, <2>3, <2>5, <2>6 DEF Passes, Live, client, counters
  <1>7. QED
    BY <1>1, <1>2, <1>3, <1>4, <1>5, <1>6, PassesPreserves DEF Sweep

(* A crash ends every request and the sweep, and leaves files and rows.    *)
LEMMA MultipartCrash ==
  ASSUME MultipartInv, Crash
  PROVE  MultipartInv'
  <1>1. TypeOK /\ TypeOK'
    BY SurroundingsType DEF MultipartInv
  <1>2. /\ \A w \in Workers : job'[w] = Idle
        /\ polite' = polite /\ upload' = upload /\ parts' = parts
        /\ sweep'.todo = {} /\ sweep'.row = {}
    BY DEF Crash, client, NoSweep
  <1>3. Busy' = {} /\ \A u : On(u)' = {}
    BY <1>2 DEF Busy, On
  <1>4. \A w \in Workers : PartSound(w)' /\ CompleteSound(w)' /\ Pc(w)' = "idle"
    BY <1>2, IdleJobSound
  <1>5. UnusedSound' /\ SweepSound'
    BY <1>2, <1>3 DEF MultipartInv, UnusedSound, SweepSound
  <1>6. crashes' # 0
    <2>1. crashes \in Nat
      BY <1>1 DEF TypeOK
    <2>2. crashes' = crashes + 1
      BY DEF Crash
    <2>3. QED
      BY <2>1, <2>2
  <1>7. ASSUME polite
        PROVE  PoliteSound'
    <2>1. SoloParts' /\ ClosersAlone' /\ GoneSound'
      BY <1>3, <1>4, <1>6 DEF SoloParts, ClosersAlone, GoneSound, IsPart, PartPcs
    <2>2. ASSUME NEW u \in Uploads, NEW n \in Parts
          PROVE  FileSound(u, n)'
      <3>1. FileSound(u, n)
        BY <1>7 DEF MultipartInv, PoliteSound, FilesSound
      <3>2. files'[u][n] = [files[u][n] EXCEPT !.writers = {}, !.mixed = FALSE]
        BY DEF Crash
      <3>3. /\ files'[u][n].data = files[u][n].data /\ files'[u][n].writers = {}
            /\ ~files'[u][n].mixed
        BY <1>1, <3>2 DEF TypeOK, File
      <3>4. QED
        BY <1>2, <3>1, <3>3 DEF FileSound, Holds
    <2>3. QED
      BY <1>4, <2>1, <2>2 DEF PoliteSound, FilesSound
  <1>8. QED
    BY <1>1, <1>2, <1>5, <1>7 DEF MultipartInv

----------------------------------------------------------------------------
(* What polite clients are promised.                                       *)

LEMMA MultipartInvariant == Spec => []MultipartInv
  <1>1. Init => MultipartInv
    <2> SUFFICES ASSUME Init
                 PROVE  MultipartInv
      OBVIOUS
    <2>1. TypeOK
      <3>1. row \in Assembly /\ blob \in Assembly
        BY EmptyAssembly DEF Init
      <3>2. files \in [Uploads -> [Parts -> File]]
        BY DEF Init, NoFile, File
      <3>3. QED
        BY <3>1, <3>2 DEF Init, TypeOK, Status, Idle, NoSweep
    <2>2. Busy = {} /\ \A w \in Workers : Pc(w) = "idle" /\ ~IsPart(w)
      BY DEF Init, Busy, IsPart, PartPcs, Pc, Idle
    <2>3. SweepSound /\ UnusedSound
      BY <2>2 DEF Init, SweepSound, NoSweep, UnusedSound, On
    <2>4. SoloParts /\ ClosersAlone
      BY <2>2 DEF SoloParts, ClosersAlone
    <2>5. FilesSound /\ GoneSound
      BY <2>2 DEF Init, FilesSound, FileSound, NoFile, GoneSound
    <2>6. \A w \in Workers : PartSound(w) /\ CompleteSound(w)
      BY <2>2 DEF PartSound, CompleteSound, CompletePcs
    <2>7. QED
      BY <2>1, <2>3, <2>4, <2>5, <2>6 DEF MultipartInv, PoliteSound
  <1>2. MultipartInv /\ [Next]_vars => MultipartInv'
    <2>1. ASSUME MultipartInv, UNCHANGED vars
          PROVE  MultipartInv'
      <3>1. TypeOK'
        BY <2>1 DEF vars, MultipartInv, TypeOK
      <3>2. SweepSound'
        BY <2>1 DEF vars, MultipartInv, SweepSound
      <3>3. Passes
        BY <2>1 DEF vars, Passes
      <3>4. QED
        BY <2>1, <3>1, <3>2, <3>3, PassesPreserves
    <2>2. QED
      BY <2>1, MultipartBegin, MultipartStep, MultipartSurroundings, MultipartCrash DEF Next
  <1>3. QED
    BY <1>1, <1>2, PTL DEF Spec

(* A polite client's acknowledged part stays on disk, whole, until its     *)
(* upload is completed, aborted or a day old, whatever crashes and sweeps  *)
(* come in between (UploadPart, the sweep and assembleUpload together).    *)
THEOREM AcknowledgedPartsStay == Spec => []AcknowledgedPartKept
  <1>1. MultipartInv => AcknowledgedPartKept
    BY DEF MultipartInv, PoliteSound, FilesSound, FileSound, Holds, AcknowledgedPartKept
  <1>2. QED
    BY <1>1, MultipartInvariant, PTL

(* Without a crash, a Complete or an Abort of a polite client leaves no    *)
(* part file of its upload behind (deleteUploadParts after the row).       *)
THEOREM EndedUploadsLeaveNothing == Spec => []NoOrphanParts
  <1>1. MultipartInv => NoOrphanParts
    BY DEF MultipartInv, PoliteSound, GoneSound, NoOrphanParts
  <1>2. QED
    BY <1>1, MultipartInvariant, PTL

(* What a polite client's Complete publishes is what its list named, part  *)
(* for part, even if the sweep takes the upload away in the meantime.      *)
THEOREM PublishesWhatWasListed == Spec => PublishedAsListed
  <1>1. ASSUME MultipartInv, NEW w \in Workers, polite, CompletePublish(w)
        PROVE  row' = job[w].list
    <2>1. Pc(w) = "publish" /\ row' = job[w].got
      BY <1>1 DEF CompletePublish
    <2>2. TypeOK /\ CompleteSound(w) /\ Pc(w) \in CompletePcs
      BY <1>1, <2>1 DEF MultipartInv, PoliteSound, CompletePcs
    <2>3. job[w].got \in Assembly /\ job[w].list \in Assembly
      BY <2>2, CompleteJobs, ListsAreAssemblies
    <2>4. /\ DOMAIN job[w].got = DOMAIN job[w].list
          /\ \A n \in DOMAIN job[w].got : job[w].got[n] = job[w].list[n]
      BY <2>1, <2>2 DEF CompleteSound
    <2>5. /\ job[w].got = [n \in DOMAIN job[w].got |-> job[w].got[n]]
          /\ job[w].list = [n \in DOMAIN job[w].list |-> job[w].list[n]]
      BY <2>3, AssemblyShape
    <2>6. QED
      BY <2>1, <2>4, <2>5
  <1>2. MultipartInv /\ [Next]_vars =>
          [\A w \in Workers : polite /\ CompletePublish(w) => row' = job[w].list]_vars
    BY <1>1
  <1>3. QED
    BY <1>2, MultipartInvariant, PTL DEF Spec, PublishedAsListed

----------------------------------------------------------------------------
(* The quota.  The parts of an upload are tested at one moment and         *)
(* recorded at another; Counting says how far they can go together.        *)

LEMMA Longest ==
  MaxLen \in Nat /\ \A c \in Contents : Size[c] \in 0 .. MaxLen
<1>1. PICK c \in Contents : \A d \in Contents : Size[d] <= Size[c]
  BY LongestAssumption
<1>2. \E n \in {Size[d] : d \in Contents} : \A d \in Contents : Size[d] <= n
  BY <1>1
<1>3. MaxLen \in {Size[d] : d \in Contents} /\ \A d \in Contents : Size[d] <= MaxLen
  BY <1>2 DEF MaxLen
<1>4. MaxLen \in Nat
  BY <1>3, SizeAssumption
<1> QED
  BY <1>3, <1>4, SizeAssumption

LEMMA LenType == ASSUME NEW c PROVE Len(c) \in 0 .. MaxLen
  BY Longest DEF Len

Lengths(f) == [n \in DOMAIN f |-> Len(f[n])]

LEMMA UsedIsTotal ==
  ASSUME NEW S, IsFiniteSet(S), NEW f, DOMAIN f = S
  PROVE  /\ Lengths(f) \in [S -> 0 .. MaxLen]
         /\ Used(f) = Total(Lengths(f)) /\ Used(f) \in Nat
<1> DEFINE F(h) == [T \in SUBSET S |->
                      IF T = {} THEN 0
                      ELSE LET x == CHOOSE x \in T : TRUE IN Len(f[x]) + h[T \ {x}]]
           h0 == CHOOSE h : h = F(h)
           g == Lengths(f)
           c == [T \in SUBSET S |-> Cardinality(Cells(g, T))]
<1>1. Used(f) = h0[S]
  BY DEF Used, MapThenSumSet, MapThenFoldSet
<1>2. /\ \A T \in SUBSET S : T # {} => (CHOOSE x \in T : TRUE) \in S
      /\ \A x \in S : g[x] = Len(f[x])
  BY DEF Lengths
<1>3. g \in [S -> 0 .. MaxLen]
  BY LenType DEF Lengths
<1>4. c = F(c)
  <2>1. Sums(c, g, S)
    <3> HIDE DEF g
    <3> QED
      BY <1>3, Longest, CellsSum
  <2> SUFFICES ASSUME NEW T \in SUBSET S PROVE c[T] = F(c)[T]
    OBVIOUS
  <2> HIDE DEF c, g
  <2> QED
    BY <1>2, <2>1 DEF Sums
<1>5. h0 = F(h0)
  BY <1>4
<1>6. Sums(h0, g, S)
  <2> HIDE DEF h0, g
  <2> SUFFICES ASSUME NEW T \in SUBSET S
               PROVE  h0[T] = IF T = {} THEN 0
                              ELSE LET x == CHOOSE x \in T : TRUE IN g[x] + h0[T \ {x}]
    BY DEF Sums
  <2>1. h0[T] = F(h0)[T]
    BY <1>5, Zenon
  <2> QED
    BY <1>2, <2>1
<1> HIDE DEF h0, g
<1>7. Used(f) = Total(g)
  BY <1>1, <1>3, <1>6, Longest, SumIsTotal
<1>8. Total(g) \in Nat
  BY <1>3, Longest, CellsFinite DEF Total
<1> QED
  BY <1>3, <1>7, <1>8 DEF g

(* A request as a writer of a part of u.                                   *)
SlotOf(r, u) ==
  IF r.pc \in {"quota", "stream", "verify", "record"} /\ r.u = u
  THEN [stage |-> IF r.pc = "quota" THEN "looked" ELSE "admitted",
        key |-> r.n, len |-> Len(r.content), seen |-> Len(r.seen)]
  ELSE Out
Slots(u) == [w \in Workers |-> SlotOf(job[w], u)]
Held(u) == Lengths(parts[u])
NoParts == [n \in Parts |-> None]

(* What no outcome of the parts admitted so far exceeds; an upload without *)
(* a row has no parts.                                                     *)
RoomInv(u) ==
  IF Live(u) THEN /\ Capped(Held(u), Slots(u), Parts, MaxLen, Workers, Quota)
                  /\ OneNewest(Held(u), Slots(u), Workers, Quota)
  ELSE parts[u] = NoParts
PartsInv == declares /\ Quota > 0 => \A u \in Uploads : RoomInv(u)

LEMMA SlotType ==
  ASSUME NEW r \in Job, NEW u
  PROVE  SlotOf(r, u) \in Writers(Parts, MaxLen)
<1>1. CASE r.pc \in {"quota", "stream", "verify", "record"}
  <2>1. r \in PartJob
    BY <1>1 DEF Job, Idle, CompleteJob, CloseJob
  <2>2. r.n \in Parts /\ Len(r.content) \in 0 .. MaxLen /\ Len(r.seen) \in 0 .. MaxLen
    BY <2>1, LenType DEF PartJob
  <2> QED
    BY <1>1, <2>2 DEF SlotOf, Writers
<1> QED
  BY <1>1 DEF SlotOf, Writers

(* How a step treats the room of a live upload: requests end, or record a  *)
(* part and end; one looks at a part row; one passes its quota test.       *)
Departs(u) ==
  /\ \A y \in Workers : Slots(u)'[y] = Slots(u)[y] \/ Slots(u)'[y] = Out
  /\ \A n \in Parts : Held(u)'[n] <= Held(u)[n] \/ Writes(Slots(u), Workers, Held(u)', n)
  /\ Held(u)' = Held(u) \/ \E y \in Workers : Slots(u)'[y] = Out
Looks(w, u) ==
  /\ Held(u)' = Held(u) /\ \A y \in Workers \ {w} : Slots(u)'[y] = Slots(u)[y]
  /\ Slots(u)'[w].stage = "looked" /\ Slots(u)'[w].seen = Held(u)[Slots(u)'[w].key]
Enters(w, u) ==
  /\ Held(u)' = Held(u) /\ \A y \in Workers \ {w} : Slots(u)'[y] = Slots(u)[y]
  /\ Slots(u)[w].stage = "looked"
  /\ Slots(u)'[w] = [Slots(u)[w] EXCEPT !.stage = "admitted"]
  /\ Total(Held(u)) - Slots(u)[w].seen + Slots(u)[w].len <= Quota

LEMMA RoomMove ==
  ASSUME TypeOK, TypeOK', NEW u \in Uploads, RoomInv(u), Live(u), Live(u)',
         Departs(u) \/ \E w \in Workers : Looks(w, u) \/ Enters(w, u)
  PROVE  RoomInv(u)'
<1> DEFINE g == Held(u)
           h == Held(u)'
           v == Slots(u)
           z == Slots(u)'
<1>1. g \in [Parts -> 0 .. MaxLen] /\ h \in [Parts -> 0 .. MaxLen]
  BY PartsAssumption, UsedIsTotal DEF TypeOK, Held
<1>2. v \in [Workers -> Writers(Parts, MaxLen)] /\ z \in [Workers -> Writers(Parts, MaxLen)]
  BY SlotType DEF TypeOK, Slots, Job
<1>3. MaxLen \in Nat /\ Quota \in Nat /\ IsFiniteSet(Parts) /\ IsFiniteSet(Workers)
  BY Longest, BoundsAssumption, FiniteAssumption, PartsAssumption
<1>4. Capped(g, v, Parts, MaxLen, Workers, Quota) /\ OneNewest(g, v, Workers, Quota)
  BY DEF RoomInv
<1> DEFINE Goal == Capped(h, z, Parts, MaxLen, Workers, Quota) /\ OneNewest(h, z, Workers, Quota)
<1>5. ASSUME Departs(u)
      PROVE  Goal
  <2>1. /\ \A y \in Workers : z[y] = v[y] \/ z[y] = Out
        /\ \A n \in Parts : h[n] <= g[n] \/ Writes(v, Workers, h, n)
        /\ h = g \/ \E y \in Workers : z[y] = Out
    BY <1>5 DEF Departs
  <2> HIDE DEF g, h, v, z
  <2>2. Capped(h, z, Parts, MaxLen, Workers, Quota)
    BY <1>1, <1>2, <1>3, <1>4, <2>1, Leaving
  <2>3. OneNewest(h, z, Workers, Quota)
    BY <1>4, <2>1 DEF OneNewest, Out
  <2> QED
    BY <2>2, <2>3
<1>6. ASSUME NEW w \in Workers, Looks(w, u)
      PROVE  Goal
  <2>1. /\ h = g /\ \A y \in Workers \ {w} : z[y] = v[y]
        /\ z[w].stage = "looked" /\ z[w].seen = g[z[w].key]
    BY <1>6 DEF Looks
  <2> HIDE DEF g, h, v, z
  <2> QED
    BY <1>1, <1>2, <1>3, <1>4, <2>1, Looking
<1>7. ASSUME NEW w \in Workers, Enters(w, u)
      PROVE  Goal
  <2>1. /\ h = g /\ \A y \in Workers \ {w} : z[y] = v[y]
        /\ v[w].stage = "looked" /\ z[w] = [v[w] EXCEPT !.stage = "admitted"]
        /\ Total(g) - v[w].seen + v[w].len <= Quota
    BY <1>7 DEF Enters
  <2> HIDE DEF g, h, v, z
  <2> QED
    BY <1>1, <1>2, <1>3, <1>4, <2>1, Admission
<1>8. Goal
  <2> HIDE DEF Goal
  <2> QED
    BY <1>5, <1>6, <1>7
<1> QED
  BY <1>8 DEF RoomInv
(* A step that leaves the parts of u, and whose writers stay or leave.     *)
LEMMA RoomKept ==
  ASSUME TypeOK, TypeOK', NEW u \in Uploads, RoomInv(u),
         parts'[u] = parts[u], Live(u)' <=> Live(u),
         \A w \in Workers : SlotOf(job'[w], u) \in {SlotOf(job[w], u), Out}
  PROVE  RoomInv(u)'
<1>1. CASE ~Live(u)
  BY <1>1 DEF RoomInv
<1>2. CASE Live(u)
  <2>1. Held(u) \in [Parts -> 0 .. MaxLen] /\ Held(u)' = Held(u)
    BY PartsAssumption, UsedIsTotal DEF TypeOK, Held
  <2>2. \A n \in Parts : Held(u)'[n] <= Held(u)[n]
    BY <2>1, Longest
  <2>3. \A y \in Workers : Slots(u)'[y] = Slots(u)[y] \/ Slots(u)'[y] = Out
    BY DEF Slots
  <2>4. Departs(u)
    BY <2>1, <2>2, <2>3 DEF Departs
  <2> QED
    BY <1>2, <2>4, RoomMove
<1> QED
  BY <1>1, <1>2

(* One request ends, or goes on as the writer it was.                      *)
LEMMA RoomKeptBy ==
  ASSUME TypeOK, TypeOK', NEW u \in Uploads, RoomInv(u), UNCHANGED <<parts, upload>>,
         NEW w \in Workers, \A v \in Workers \ {w} : job'[v] = job[v],
         SlotOf(job'[w], u) \in {SlotOf(job[w], u), Out}
  PROVE  RoomInv(u)'
  BY RoomKept DEF Live

LEMMA NoSlot ==
  ASSUME NEW r, NEW u, r.pc \notin {"quota", "stream", "verify", "record"}
  PROVE  SlotOf(r, u) = Out
  BY DEF SlotOf

LEMMA RoomLook ==
  ASSUME TypeOK, TypeOK', NEW u \in Uploads, RoomInv(u), NEW w \in Workers, PartLook(w)
  PROVE  RoomInv(u)'
<1>1. job[w] \in PartJob /\ job[w].u \in Uploads /\ job[w].n \in Parts
  BY PartJobs DEF PartLook, IsPart, PartPcs
<1> DEFINE r == [job[w] EXCEPT !.pc = "quota", !.seen = parts[job[w].u][job[w].n]]
<1>2. job'[w] = r /\ \A v \in Workers \ {w} : job'[v] = job[v]
  BY DEF PartLook, TypeOK
<1>3. /\ r.pc = "quota" /\ r.u = job[w].u /\ r.n = job[w].n
      /\ r.seen = parts[job[w].u][job[w].n]
  BY <1>1 DEF PartJob
<1>4. UNCHANGED <<parts, upload>>
  BY DEF PartLook
<1> HIDE DEF r
<1>5. CASE job[w].u # u \/ ~Live(u)
  <2>1. CASE job[w].u # u
    <3>1. SlotOf(r, u) = Out
      BY <1>3, <2>1 DEF SlotOf
    <3> QED
      BY <1>2, <1>4, <3>1, RoomKeptBy
  <2>2. CASE ~Live(u)
    BY <1>4, <2>2 DEF RoomInv, Live
  <2> QED
    BY <1>5, <2>1, <2>2
<1>6. CASE job[w].u = u /\ Live(u)
  <2>1. /\ SlotOf(r, u).stage = "looked" /\ SlotOf(r, u).key = job[w].n
        /\ SlotOf(r, u).seen = Len(parts[u][job[w].n])
    BY <1>3, <1>6 DEF SlotOf
  <2>2. Slots(u)'[w] = SlotOf(r, u) /\ \A y \in Workers \ {w} : Slots(u)'[y] = Slots(u)[y]
    BY <1>2 DEF Slots
  <2>3. Held(u)' = Held(u) /\ Held(u)[job[w].n] = Len(parts[u][job[w].n])
    BY <1>1, <1>4 DEF Held, Lengths, TypeOK
  <2>4. Looks(w, u)
    BY <2>1, <2>2, <2>3 DEF Looks
  <2>5. Live(u)'
    BY <1>4, <1>6 DEF Live
  <2> QED
    BY <1>6, <2>4, <2>5, RoomMove
<1> QED
  BY <1>5, <1>6

LEMMA RoomEnter ==
  ASSUME TypeOK, TypeOK', declares, Quota > 0,
         NEW u \in Uploads, RoomInv(u), NEW w \in Workers, PartQuota(w)
  PROVE  RoomInv(u)'
<1>1. /\ job[w] \in PartJob /\ job[w].u \in Uploads /\ job[w].n \in Parts
      /\ job[w].content \in Contents /\ Pc(w) = "quota" /\ Pc(w) \in PartPcs
  BY PartJobs DEF PartQuota, IsPart, PartPcs
<1>2. UNCHANGED <<parts, upload>>
  BY DEF PartQuota
<1> DEFINE added == Used(parts[job[w].u]) - Len(job[w].seen) + Length(job[w])
           full == added > 0 /\ WouldExceedQuota(added, 0)
<1>3. full => Finish(w)
  BY DEF PartQuota
<1>4. ~full => Goto(w, "stream")
  BY DEF PartQuota
<1>5. CASE full
  <2>1. job'[w] = Idle /\ \A v \in Workers \ {w} : job'[v] = job[v]
    BY <1>3, <1>5, FinishJob
  <2>2. SlotOf(Idle, u) = Out
    BY DEF SlotOf, Idle
  <2> QED
    BY <1>2, <2>1, <2>2, RoomKeptBy
<1>6. CASE ~full
  <2>1. /\ job'[w] = [job[w] EXCEPT !.pc = "stream"]
        /\ \A v \in Workers \ {w} : job'[v] = job[v]
    BY <1>1, <1>4, <1>6, GotoJob DEF PartPcs
  <2> DEFINE r == [job[w] EXCEPT !.pc = "stream"]
  <2>2. /\ r.pc = "stream" /\ r.u = job[w].u /\ r.n = job[w].n
        /\ r.content = job[w].content /\ r.seen = job[w].seen
    BY <1>1 DEF PartJob
  <2>3. job'[w] = r
    BY <2>1
  <2> HIDE DEF r
  <2>4. CASE job[w].u # u
    <3>1. SlotOf(r, u) = Out
      BY <2>2, <2>4 DEF SlotOf
    <3> QED
      BY <1>2, <2>1, <2>3, <3>1, RoomKeptBy
  <2>5. CASE ~Live(u)
    BY <1>2, <2>5 DEF RoomInv, Live
  <2>6. CASE job[w].u = u /\ Live(u)
    <3>1. Total(Held(u)) - Len(job[w].seen) + Len(job[w].content) <= Quota
      <4>1. Used(parts[u]) = Total(Held(u)) /\ Used(parts[u]) \in Nat
        BY PartsAssumption, UsedIsTotal DEF TypeOK, Held
      <4>2. Used(row) \in Nat
        <5>1. row \in Assembly
          BY DEF TypeOK
        <5>2. PICK S \in SUBSET Parts : DOMAIN row = S
          BY <5>1 DEF Assembly
        <5>3. IsFiniteSet(S)
          BY <5>2, PartsAssumption, FS_Subset
        <5> QED
          BY <5>2, <5>3, UsedIsTotal
      <4>3. Length(job[w]) = Len(job[w].content)
        BY <1>1 DEF Length, Len
      <4>4. Len(job[w].seen) \in Nat /\ Len(job[w].content) \in Nat /\ Quota \in Nat
        BY LenType, Longest, BoundsAssumption
      <4>5. ~(added > 0) \/ ~(Used(row) - 0 + added > Quota)
        BY <1>6 DEF WouldExceedQuota
      <4>6. added = Used(parts[u]) - Len(job[w].seen) + Len(job[w].content)
        BY <2>6, <4>3
      <4> HIDE DEF added
      <4> QED
        BY <4>1, <4>2, <4>4, <4>5, <4>6
    <3>2. /\ SlotOf(job[w], u).stage = "looked"
          /\ SlotOf(job[w], u).len = Len(job[w].content)
          /\ SlotOf(job[w], u).seen = Len(job[w].seen)
          /\ SlotOf(r, u) = [SlotOf(job[w], u) EXCEPT !.stage = "admitted"]
      BY <1>1, <2>2, <2>6 DEF SlotOf, Pc
    <3>3. /\ Slots(u)[w] = SlotOf(job[w], u) /\ Slots(u)'[w] = SlotOf(r, u)
          /\ \A y \in Workers \ {w} : Slots(u)'[y] = Slots(u)[y]
      BY <2>1, <2>3 DEF Slots
    <3>4. Held(u)' = Held(u)
      BY <1>2 DEF Held
    <3>5. Enters(w, u)
      BY <3>1, <3>2, <3>3, <3>4 DEF Enters
    <3>6. Live(u)'
      BY <1>2, <2>6 DEF Live
    <3> QED
      BY <2>6, <3>5, <3>6, RoomMove
  <2> QED
    BY <2>4, <2>5, <2>6
<1> QED
  BY <1>5, <1>6

LEMMA RoomRecord ==
  ASSUME TypeOK, TypeOK', NEW u \in Uploads, RoomInv(u), NEW w \in Workers, PartRecord(w)
  PROVE  RoomInv(u)'
<1>1. /\ job[w] \in PartJob /\ job[w].u \in Uploads /\ job[w].n \in Parts
      /\ job[w].content \in Contents /\ job[w].pc = "record"
  BY PartJobs DEF PartRecord, IsPart, PartPcs, Pc
<1>2. /\ job'[w] = Idle /\ \A v \in Workers \ {w} : job'[v] = job[v]
      /\ upload' = upload
  BY FinishJob DEF PartRecord
<1>3. SlotOf(Idle, u) = Out
  BY DEF SlotOf, Idle
<1>4. CASE job[w].u # u \/ ~Live(u)
  <2>1. parts'[u] = parts[u]
    BY <1>1, <1>4 DEF PartRecord, TypeOK
  <2> QED
    BY <1>2, <1>3, <2>1, RoomKept DEF Live
<1>5. CASE job[w].u = u /\ Live(u)
  <2>1. parts' = [parts EXCEPT ![u][job[w].n] = job[w].content]
    BY <1>5 DEF PartRecord
  <2>2. \A n \in Parts : parts'[u][n] = IF n = job[w].n THEN job[w].content ELSE parts[u][n]
    BY <1>1, <2>1 DEF TypeOK
  <2>3. /\ Held(u) \in [Parts -> 0 .. MaxLen]
        /\ \A n \in Parts : Held(u)'[n] = IF n = job[w].n THEN Len(job[w].content) ELSE Held(u)[n]
    <3>1. DOMAIN parts[u] = Parts /\ DOMAIN parts'[u] = Parts
      BY DEF TypeOK
    <3>2. Held(u) \in [Parts -> 0 .. MaxLen]
      BY <3>1, PartsAssumption, UsedIsTotal DEF Held
    <3> QED
      BY <2>2, <3>1, <3>2 DEF Held, Lengths
  <2>4. /\ Slots(u)[w].stage = "admitted" /\ Slots(u)[w].key = job[w].n
        /\ Slots(u)[w].len = Len(job[w].content)
    BY <1>1, <1>5 DEF Slots, SlotOf
  <2>5. Slots(u)'[w] = Out /\ \A y \in Workers \ {w} : Slots(u)'[y] = Slots(u)[y]
    BY <1>2, <1>3 DEF Slots
  <2>6. ASSUME NEW n \in Parts
        PROVE  Held(u)'[n] <= Held(u)[n] \/ Writes(Slots(u), Workers, Held(u)', n)
    <3>1. CASE n = job[w].n
      <4>1. Held(u)'[n] <= Slots(u)[w].len
        BY <2>3, <2>4, <3>1, LenType, Longest
      <4> QED
        BY <2>4, <3>1, <4>1 DEF Writes
    <3>2. CASE n # job[w].n
      <4>1. Held(u)'[n] = Held(u)[n] /\ Held(u)[n] \in 0 .. MaxLen
        BY <2>3, <3>2
      <4> QED
        BY <4>1, Longest
    <3> QED
      BY <3>1, <3>2
  <2>7. Departs(u)
    BY <2>5, <2>6 DEF Departs
  <2>8. Live(u)'
    BY <1>2, <1>5 DEF Live
  <2> QED
    BY <1>5, <2>7, <2>8, RoomMove
<1> QED
  BY <1>4, <1>5
LEMMA RoomPart ==
  ASSUME TypeOK, TypeOK', declares, Quota > 0,
         NEW u \in Uploads, RoomInv(u), NEW w \in Workers, PartStep(w)
  PROVE  RoomInv(u)'
<1>1. SlotOf(Idle, u) = Out
  BY DEF SlotOf, Idle
<1>2. ASSUME Finish(w), UNCHANGED <<parts, upload>>
      PROVE  RoomInv(u)'
  BY <1>1, <1>2, FinishJob, RoomKeptBy
<1>3. ASSUME NEW label \in {"verify", "record", "reject"}, Goto(w, label),
             Pc(w) \in {"stream", "verify"}, UNCHANGED <<parts, upload>>
      PROVE  RoomInv(u)'
  <2>1. job[w] \in PartJob
    BY <1>3, PartJobs DEF IsPart, PartPcs
  <2>2. /\ job'[w] = [job[w] EXCEPT !.pc = label]
        /\ \A v \in Workers \ {w} : job'[v] = job[v]
    BY <1>3, GotoJob DEF PartPcs
  <2> DEFINE r == [job[w] EXCEPT !.pc = label]
  <2>3. /\ r.pc = label /\ r.u = job[w].u /\ r.n = job[w].n
        /\ r.content = job[w].content /\ r.seen = job[w].seen
    BY <2>1 DEF PartJob
  <2> HIDE DEF r
  <2>4. SlotOf(r, u) \in {SlotOf(job[w], u), Out}
    BY <1>3, <2>3 DEF SlotOf, Pc
  <2> QED
    BY <1>3, <2>2, <2>4, RoomKeptBy DEF r
<1>4. CASE PartStored(w)
  <2>1. \E label \in {"verify", "record", "reject"} : Goto(w, label)
    BY <1>4 DEF PartStored
  <2> QED
    BY <1>3, <1>4, <2>1 DEF PartStored
<1>5. CASE PartVerify(w)
  <2>1. \E label \in {"verify", "record", "reject"} : Goto(w, label)
    BY <1>5 DEF PartVerify
  <2> QED
    BY <1>3, <1>5, <2>1 DEF PartVerify
<1>6. CASE PartBodyFails(w) \/ PartReject(w)
  BY <1>2, <1>6 DEF PartBodyFails, PartReject
<1> QED
  BY <1>4, <1>5, <1>6, RoomLook, RoomEnter, RoomRecord DEF PartStep

LEMMA RoomForget ==
  ASSUME TypeOK, TypeOK', NEW u \in Uploads, RoomInv(u), NEW w \in Workers, Forget(w)
  PROVE  RoomInv(u)'
<1>1. Pc(w) \in {"forget", "delete"} /\ job[w].u \in Uploads
  BY JobShape DEF Forget, CompletePcs
<1>2. /\ SlotOf(job'[w], u) = Out /\ \A v \in Workers \ {w} : job'[v] = job[v]
      /\ Live(job[w].u) \/ UNCHANGED <<upload, parts>>
  <2>1. CASE Live(job[w].u)
    <3> DEFINE r == [pc |-> "rmdir", u |-> job[w].u]
    <3>1. job'[w] = r /\ \A v \in Workers \ {w} : job'[v] = job[v]
      BY <2>1 DEF Forget, TypeOK
    <3>2. SlotOf(r, u) = Out
      BY NoSlot
    <3> QED
      BY <2>1, <3>1, <3>2
  <2>2. CASE ~Live(job[w].u)
    BY <2>2, FinishJob, NoSlot DEF Forget, Idle
  <2> QED
    BY <2>1, <2>2
<1>3. CASE ~Live(job[w].u)
  BY <1>2, <1>3, RoomKeptBy
<1>4. CASE Live(job[w].u) /\ job[w].u # u
  <2>1. parts'[u] = parts[u] /\ upload'[u] = upload[u]
    BY <1>1, <1>4 DEF Forget, TypeOK
  <2> QED
    BY <1>2, <2>1, RoomKept DEF Live
<1>5. CASE Live(job[w].u) /\ job[w].u = u
  <2>1. parts'[u] = NoParts /\ upload'[u] = "gone"
    BY <1>5 DEF Forget, TypeOK, NoParts
  <2> QED
    BY <2>1 DEF RoomInv, Live, NoParts
<1> QED
  BY <1>3, <1>4, <1>5

LEMMA RoomStep ==
  ASSUME TypeOK, TypeOK', declares, Quota > 0,
         NEW u \in Uploads, RoomInv(u), NEW w \in Workers, Begin(w) \/ Step(w)
  PROVE  RoomInv(u)'
<1>1. ASSUME \A v \in Workers \ {w} : job'[v] = job[v], UNCHANGED <<parts, upload>>,
             job'[w].pc \notin {"quota", "stream", "verify", "record"}
      PROVE  RoomInv(u)'
  BY <1>1, NoSlot, RoomKeptBy
<1>2. CASE Begin(w)
  <2>1. PICK x \in Uploads : Starts(w, x)
    BY <1>2, BeginStarts
  <2> QED
    BY <1>1, <2>1 DEF Starts, Pc
<1>3. CASE CheckStep(w) \/ BuildStep(w)
  <2>1. CompleteEffect(w)
    BY <1>3, CompleteEffects
  <2>2. job'[w].pc \in CompletePcs \cup {"idle"}
    BY <2>1 DEF CompleteEffect, Pc, Idle
  <2> QED
    BY <1>1, <2>1, <2>2 DEF CompleteEffect, CompletePcs
<1>4. CASE DeleteUploadParts(w)
  BY <1>1, <1>4, FinishJob DEF DeleteUploadParts, Idle
<1>5. CASE PartStep(w)
  BY <1>5, RoomPart
<1>6. CASE Forget(w)
  BY <1>6, RoomForget
<1> QED
  BY <1>2, <1>3, <1>4, <1>5, <1>6, StepCases

LEMMA RoomSurroundings ==
  ASSUME TypeOK, TypeOK', UnusedSound, NEW u \in Uploads, RoomInv(u),
         \/ Sweep \/ Crash
         \/ \E x \in Uploads : CreateMultipartUpload(x) \/ UploadAges(x)
  PROVE  RoomInv(u)'
<1>1. ASSUME UNCHANGED job, parts'[u] = parts[u], Live(u)' <=> Live(u)
      PROVE  RoomInv(u)'
  BY <1>1, RoomKept
<1>2. ASSUME NEW x \in Uploads, CreateMultipartUpload(x)
      PROVE  RoomInv(u)'
  <2>1. CASE x # u
    BY <1>1, <1>2, <2>1 DEF CreateMultipartUpload, TypeOK, Live
  <2>2. CASE x = u
    <3>1. /\ upload[u] = "unused" /\ upload'[u] = "open" /\ parts' = parts /\ job' = job
      BY <1>2, <2>2 DEF CreateMultipartUpload, TypeOK
    <3>2. \A n \in Parts : Held(u)'[n] = 0
      <4>1. \A n \in Parts : parts'[u][n] = None
        BY <3>1 DEF UnusedSound
      <4>2. DOMAIN parts'[u] = Parts
        BY DEF TypeOK
      <4> QED
        BY <4>1, <4>2, MarkerAssumption DEF Held, Lengths, Len
    <3>3. \A w \in Workers : Slots(u)'[w] = Out
      <4> SUFFICES ASSUME NEW w \in Workers PROVE SlotOf(job[w], u) = Out
        BY <3>1 DEF Slots
      <4>1. w \notin On(u)
        BY <3>1 DEF UnusedSound
      <4>2. job[w] = Idle \/ job[w].u # u
        BY <4>1 DEF On, Busy
      <4> QED
        BY <4>2 DEF SlotOf, Idle
    <3>4. /\ Capped(Held(u)', Slots(u)', Parts, MaxLen, Workers, Quota)
          /\ OneNewest(Held(u)', Slots(u)', Workers, Quota)
      <4> DEFINE h == Held(u)'
                 z == Slots(u)'
      <4>1. (\A n \in Parts : h[n] = 0) /\ \A w \in Workers : z[w] = Out
        BY <3>2, <3>3
      <4> HIDE DEF h, z
      <4>2. Capped(h, z, Parts, MaxLen, Workers, Quota) /\ OneNewest(h, z, Workers, Quota)
        BY <4>1, FiniteAssumption, Longest, BoundsAssumption, AllOut
      <4> QED
        BY <4>2 DEF h, z
    <3> QED
      BY <3>1, <3>4 DEF RoomInv, Live
  <2> QED
    BY <2>1, <2>2
<1>3. ASSUME NEW x \in Uploads, UploadAges(x)
      PROVE  RoomInv(u)'
  BY <1>1, <1>3 DEF UploadAges, TypeOK, Live
<1>4. CASE SweepSelect
  BY <1>1, <1>4 DEF SweepSelect, Live
<1>5. ASSUME NEW x \in Uploads, SweepFiles(x)
      PROVE  RoomInv(u)'
  BY <1>1, <1>5 DEF SweepFiles, Live
<1>6. ASSUME NEW x \in Uploads, SweepRow(x)
      PROVE  RoomInv(u)'
  <2>1. CASE x # u
    BY <1>1, <1>6, <2>1 DEF SweepRow, TypeOK, Live
  <2>2. CASE x = u
    <3>1. parts'[u] = NoParts /\ ~Live(u)'
      BY <1>6, <2>2 DEF SweepRow, TypeOK, Live, NoParts
    <3> QED
      BY <3>1 DEF RoomInv, NoParts
  <2> QED
    BY <2>1, <2>2
<1>7. CASE Crash
  <2>1. \A w \in Workers : SlotOf(job'[w], u) = Out
    BY <1>7, NoSlot DEF Crash, Idle
  <2> QED
    BY <1>7, <2>1, RoomKept DEF Crash, Live
<1> QED
  BY <1>2, <1>3, <1>4, <1>5, <1>6, <1>7 DEF Sweep

(* With declared lengths and a quota, the recorded parts of an upload      *)
(* exceed it by at most one largest part for every other request in        *)
(* flight, whether clients are polite or not: UploadPart tests the quota   *)
(* before the body and records the part after it, without a lock.          *)
THEOREM PartsOvershootIsBounded == Spec => []PartsOvershootBounded
<1>1. TypeOK /\ Init => PartsInv
  BY DEF Init, PartsInv, RoomInv, Live, NoParts
<1>2. PartsInv /\ MultipartInv /\ TypeOK' /\ [Next]_vars => PartsInv'
  <2> SUFFICES ASSUME PartsInv, TypeOK, UnusedSound, TypeOK', [Next]_vars,
                      declares', Quota > 0, NEW u \in Uploads
               PROVE  RoomInv(u)'
    BY DEF PartsInv, MultipartInv
  <2>1. declares' = declares
    <3>1. ASSUME NEW w \in Workers, Begin(w) PROVE declares' = declares
      <4>1. PICK x \in Uploads : Starts(w, x)
        BY <3>1, BeginStarts
      <4> QED
        BY <4>1 DEF Starts, client
    <3>2. ASSUME NEW w \in Workers, Step(w) PROVE declares' = declares
      BY <3>2, StepMoves DEF Moves, client
    <3> QED
      BY <3>1, <3>2
      DEF Next, vars, CreateMultipartUpload, UploadAges, Sweep, SweepSelect, SweepFiles,
          SweepRow, Crash, counters, client
  <2>2. declares /\ RoomInv(u)
    BY <2>1 DEF PartsInv
  <2>3. CASE UNCHANGED vars
    <3>1. /\ job' = job /\ parts' = parts /\ upload' = upload
      BY <2>3 DEF vars
    <3> QED
      BY <2>2, <3>1, RoomKept DEF Live
  <2>4. CASE Next
    BY <2>2, <2>4, RoomStep, RoomSurroundings DEF Next
  <2> QED
    BY <2>3, <2>4
<1>3. PartsInv /\ TypeOK => PartsOvershootBounded
  <2> SUFFICES ASSUME PartsInv, TypeOK, declares, Quota > 0, NEW u \in Uploads
               PROVE  Used(parts[u]) <= Quota + (Cardinality(Workers) - 1) * MaxLen
    BY DEF PartsOvershootBounded
  <2>1. /\ Held(u) \in [Parts -> 0 .. MaxLen] /\ Used(parts[u]) = Total(Held(u))
    BY PartsAssumption, UsedIsTotal DEF TypeOK, Held
  <2>2. CASE Live(u)
    <3>1. \A n \in Parts : Held(u)[n] <= Held(u)[n]
      BY <2>1, Longest
    <3>2. Capped(Held(u), Slots(u), Parts, MaxLen, Workers, Quota)
      BY <2>2 DEF PartsInv, RoomInv
    <3> QED
      BY <2>1, <3>1, <3>2 DEF Capped
  <2>3. CASE ~Live(u)
    <3>1. parts[u] = NoParts
      BY <2>3 DEF PartsInv, RoomInv
    <3>2. DOMAIN Held(u) = Parts /\ \A n \in Parts : Held(u)[n] = 0
      BY <3>1, MarkerAssumption DEF Held, Lengths, NoParts, Len
    <3> DEFINE g == Held(u)
               v == [w \in Workers |-> Out]
    <3>3. /\ Capped(g, v, Parts, MaxLen, Workers, Quota)
          /\ g \in [Parts -> 0 .. MaxLen] /\ \A n \in Parts : g[n] <= g[n]
      <4>1. (\A n \in Parts : g[n] = 0) /\ \A w \in Workers : v[w] = Out
        BY <3>2
      <4>2. g \in [Parts -> 0 .. MaxLen]
        BY <2>1
      <4> HIDE DEF g, v
      <4> QED
        BY <4>1, <4>2, FiniteAssumption, Longest, BoundsAssumption, AllOut
    <3> QED
      BY <2>1, <3>3 DEF Capped
  <2> QED
    BY <2>2, <2>3
<1>4. MultipartInv => TypeOK
  BY DEF MultipartInv
<1> QED
  BY <1>1, <1>2, <1>3, <1>4, MultipartInvariant, PTL DEF Spec

=============================================================================
