-------------------------- MODULE ProvisionProofs --------------------------
(***************************************************************************)
(* Proofs about Provision, for any customers, domains, instances, ports    *)
(* and requests in flight, and any failures: type correctness, and what    *)
(* the requests leave behind of rows, containers, routes and limits.       *)
(***************************************************************************)
EXTENDS Provision, FiniteSetTheorems, NaturalsInduction, WellFoundedInduction, TLAPS

Ops == {"provision", "suspend", "resume", "delete"}
Routes == [d : Domains, port : Ports]
AccountPcs == {"signup", "autoverify", "verify", "has", "dup", "mine", "capacity", "port"}
NewPcs == {"run", "health", "hostname", "update", "list", "rollback", "droprow"}
OldPcs == {"stop", "start", "health", "remove", "erase", "unregister", "update", "list"}
LoadPcs == {"reload", "rollback", "droprow"}
WorkPcs == NewPcs \cup OldPcs \cup LoadPcs \cup {"write"}

AccountJob == [pc : AccountPcs, c : Customers, d : Domains]
CreateJob == [pc : {"create"}, c : Customers, d : Domains, port : Ports]
NewJob == [pc : NewPcs, i : Ids, port : Ports, op : {"provision"}]
OldJob == [pc : OldPcs, i : Ids, op : Ops \ {"provision"}, port : Ports, cf : BOOLEAN]
MapJob == [pc : {"write"}, i : Ids, op : Ops, snap : SUBSET Routes, late : BOOLEAN]
LoadJob == [pc : LoadPcs, i : Ids, op : Ops]
Job == {Idle} \cup AccountJob \cup CreateJob \cup NewJob \cup OldJob \cup MapJob \cup LoadJob

Works(p) == proc[p].pc \in WorkPcs
Free(i) == \A p \in Procs : Works(p) => proc[p].i # i

TypeInv ==
  /\ TypeOK /\ proc \in [Procs -> Job] /\ IsFiniteSet(Rows)
  /\ \A p \in Procs : Works(p) => proc[p].i \in spent
  /\ \A p \in Procs : proc[p].pc \in {"autoverify", "verify"} => account[proc[p].c] \in Account

(* Requests for one instance that do not cross.                            *)
Solo ==
  /\ \A p, q \in Procs : Works(p) /\ Works(q) /\ proc[p].i = proc[q].i => p = q
  /\ \A p \in Procs : Works(p) => proc[p].i \in Rows

(* What an instance's status says, and what the requests on it have done   *)
(* of their work so far.                                                   *)
Proper(i) ==
  /\ inst[i].status # "pending"
  /\ inst[i].status = "active" => container[i] = "running"
  /\ inst[i].status = "suspended" => container[i] # "running"
  /\ inst[i].status = "deleted" => container[i] = "none" /\ i \notin volume \cup hostname
Named(i) == i \in hostname => inst[i].cf
StatusAt(p, i) ==
  /\ proc[p].pc = "stop" => proc[p].op = "suspend"
  /\ proc[p].pc = "start" => proc[p].op = "resume"
  /\ proc[p].pc \in {"remove", "erase", "unregister"} => proc[p].op = "delete"
  /\ proc[p].pc \in {"list", "write", "reload", "stop", "start", "remove"} =>
       Proper(i) /\ Named(i)
  /\ proc[p].pc \in {"hostname", "update"} /\ proc[p].op = "provision" =>
       container[i] = "running"
  /\ proc[p].pc = "update" /\ proc[p].op = "suspend" => container[i] # "running" /\ Named(i)
  /\ proc[p].pc = "health" /\ proc[p].op = "resume" =>
       Named(i) /\ (container[i] = "running" \/ Proper(i))
  /\ proc[p].pc = "update" /\ proc[p].op = "resume" => container[i] = "running" /\ Named(i)
  /\ proc[p].pc \in {"remove", "erase", "unregister"} => (i \in hostname => proc[p].cf)
  /\ proc[p].pc \in {"erase", "unregister"} => container[i] = "none"
  /\ proc[p].pc = "unregister" => i \notin volume
  /\ proc[p].pc = "update" /\ proc[p].op = "delete" =>
       container[i] = "none" /\ i \notin volume \cup hostname
StatusSound ==
  /\ \A p \in Procs : Works(p) => StatusAt(p, proc[p].i)
  /\ \A i \in Rows : Free(i) => Proper(i) /\ Named(i)

(* A provisioning that can still be rolled back has no hostname yet.       *)
Early(p) == proc[p].pc \in {"run", "rollback", "droprow"} \/
            (proc[p].pc = "health" /\ proc[p].op = "provision")
FailedSound ==
  /\ \A p \in Procs : Early(p) \/ proc[p].pc = "hostname" => proc[p].i \notin hostname
  /\ \A p \in Procs : proc[p].pc = "droprow" => container[proc[p].i] = "none"
  /\ \A i \in Ids \ Rows : container[i] = "none" /\ i \notin hostname

(* Somebody will still read the active instances, or has and will write    *)
(* them down; who read something else was overtaken or will be followed.   *)
Fresh ==
  \/ \E p \in Procs : proc[p].pc = "list"
  \/ \E p \in Procs : proc[p].pc = "write" /\ proc[p].snap = ActiveRoutes
RoutesSound ==
  /\ \A p \in Procs : Early(p) => inst[proc[p].i].status = "pending"
  /\ loaded = mapFile \/ \E p \in Procs : proc[p].pc = "reload"
  /\ mapFile = ActiveRoutes \/ Fresh
  /\ \A p \in Procs : proc[p].pc = "write" /\ ~proc[p].late =>
       proc[p].snap = ActiveRoutes \/ Fresh

(* Whoever is past the check of the limit found room.                      *)
LimitSound ==
  /\ \A c \in Customers : Cardinality(Live(c)) <= MaxPerCustomer
  /\ \A p \in Procs : proc[p].pc \in {"capacity", "port", "create"} =>
       Cardinality(Live(proc[p].c)) < MaxPerCustomer

(* The inductive invariant.                                                *)
ProvisionInv ==
  /\ TypeInv
  /\ Without({"crossed"}) => Solo
  /\ Without({"crossed", "revived", "rm", "cf", "slow", "crash"}) => StatusSound
  /\ Without({"crossed", "rm", "reload"}) => FailedSound
  /\ Without({"crossed", "overtaken", "reload", "crash"}) => RoutesSound
  /\ Without({"revived", "raced"}) => LimitSound
----------------------------------------------------------------------------
(* The shapes of the requests.                                             *)

LEMMA JobShape ==
  ASSUME NEW j \in Job
  PROVE  /\ j.pc \in AccountPcs => j \in AccountJob
         /\ j.pc = "create" => j \in CreateJob
         /\ j.pc \in {"run", "hostname"} => j \in NewJob
         /\ j.pc \in {"stop", "start", "remove", "erase", "unregister"} => j \in OldJob
         /\ j.pc \in {"health", "update", "list"} => j \in NewJob \cup OldJob
         /\ j.pc \in {"rollback", "droprow"} => j \in NewJob \cup LoadJob
         /\ j.pc = "write" => j \in MapJob
         /\ j.pc = "reload" => j \in LoadJob
         /\ j.pc \in WorkPcs => j.i \in Ids /\ j.op \in Ops
         /\ "i" \in DOMAIN j <=> j.pc \in WorkPcs
         /\ j.pc = "idle" <=> j = Idle
         /\ j.pc \in {"idle", "create"} \cup AccountPcs \cup WorkPcs
  <1>1. CASE j = Idle
    BY <1>1 DEF Idle, AccountPcs, WorkPcs, NewPcs, OldPcs, LoadPcs
  <1>2. CASE j \in AccountJob
    BY <1>2 DEF AccountJob, Idle, AccountPcs, WorkPcs, NewPcs, OldPcs, LoadPcs
  <1>3. CASE j \in CreateJob
    BY <1>3 DEF CreateJob, Idle, AccountPcs, WorkPcs, NewPcs, OldPcs, LoadPcs
  <1>4. CASE j \in NewJob
    BY <1>4 DEF NewJob, Idle, Ops, AccountPcs, WorkPcs, NewPcs, OldPcs, LoadPcs
  <1>5. CASE j \in OldJob
    BY <1>5 DEF OldJob, Idle, Ops, AccountPcs, WorkPcs, NewPcs, OldPcs, LoadPcs
  <1>6. CASE j \in MapJob
    BY <1>6 DEF MapJob, Idle, Ops, AccountPcs, WorkPcs, NewPcs, OldPcs, LoadPcs
  <1>7. CASE j \in LoadJob
    BY <1>7 DEF LoadJob, Idle, Ops, AccountPcs, WorkPcs, NewPcs, OldPcs, LoadPcs
  <1> QED  BY <1>1, <1>2, <1>3, <1>4, <1>5, <1>6, <1>7 DEF Job

(* What a request keeps when it goes on to another await, and when it ends. *)
Others(p) == \A q \in Procs \ {p} : proc'[q] = proc[q]
Moves(p, l) ==
  /\ proc' \in [Procs -> Job] /\ Others(p)
  /\ proc'[p].pc = l
  /\ Works(p) => proc'[p].i = proc[p].i /\ proc'[p].op = proc[p].op
  /\ proc[p] \in OldJob => proc'[p].cf = proc[p].cf
  /\ proc[p] \in AccountJob => proc'[p].c = proc[p].c
Ends(p) == proc' \in [Procs -> Job] /\ Others(p) /\ proc'[p] = Idle

LEMMA Going ==
  ASSUME proc \in [Procs -> Job], NEW p \in Procs, NEW l, Goto(p, l),
         \/ proc[p] \in AccountJob /\ l \in AccountPcs
         \/ proc[p] \in NewJob /\ l \in NewPcs
         \/ proc[p] \in OldJob /\ l \in OldPcs
         \/ proc[p] \in LoadJob /\ l \in LoadPcs
  PROVE  Moves(p, l)
  <1> DEFINE k == [proc[p] EXCEPT !.pc = l]
  <1>1. proc' = [proc EXCEPT ![p] = k]
    BY DEF Goto
  <1>2. proc[p].pc \in WorkPcs => proc[p] \notin AccountJob
    BY DEF AccountJob, AccountPcs, WorkPcs, NewPcs, OldPcs, LoadPcs
  <1>3. /\ k \in Job /\ k.pc = l
        /\ proc[p].pc \in WorkPcs => k.i = proc[p].i /\ k.op = proc[p].op
        /\ proc[p] \in OldJob => k.cf = proc[p].cf
        /\ proc[p] \in AccountJob => k.c = proc[p].c
    <2>1. CASE proc[p] \in AccountJob /\ l \in AccountPcs
      <3>1. k \in AccountJob /\ k.pc = l /\ k.c = proc[p].c /\ proc[p] \notin OldJob
        BY <2>1 DEF AccountJob, OldJob, AccountPcs, OldPcs
      <3> QED  BY <2>1, <3>1, <1>2 DEF Job
    <2>2. CASE proc[p] \in NewJob /\ l \in NewPcs
      <3>1. /\ k \in NewJob /\ k.pc = l /\ k.i = proc[p].i /\ k.op = proc[p].op
            /\ proc[p] \notin OldJob \cup AccountJob
        BY <2>2 DEF NewJob, OldJob, AccountJob, NewPcs, AccountPcs, Ops
      <3> QED  BY <3>1 DEF Job
    <2>3. CASE proc[p] \in OldJob /\ l \in OldPcs
      <3>1. /\ k \in OldJob /\ k.pc = l /\ k.i = proc[p].i /\ k.op = proc[p].op
            /\ k.cf = proc[p].cf /\ proc[p] \notin AccountJob
        BY <2>3 DEF OldJob, AccountJob, OldPcs, AccountPcs
      <3> QED  BY <3>1 DEF Job
    <2>4. CASE proc[p] \in LoadJob /\ l \in LoadPcs
      <3>1. /\ k \in LoadJob /\ k.pc = l /\ k.i = proc[p].i /\ k.op = proc[p].op
            /\ proc[p] \notin OldJob \cup AccountJob
        BY <2>4 DEF LoadJob, OldJob, AccountJob, LoadPcs, OldPcs, AccountPcs
      <3> QED  BY <3>1 DEF Job
    <2> QED  BY <2>1, <2>2, <2>3, <2>4
  <1> HIDE DEF k
  <1>4. proc'[p] = k /\ Others(p) /\ proc' \in [Procs -> Job]
    BY <1>1, <1>3 DEF Others
  <1> QED  BY <1>3, <1>4 DEF Moves, Works

LEMMA Ending ==
  ASSUME proc \in [Procs -> Job], NEW p \in Procs, Finish(p)
  PROVE  Ends(p)
  BY DEF Finish, Ends, Others, Job

LEMMA Restarting ==
  ASSUME proc \in [Procs -> Job], NEW p \in Procs, NEW k \in Job,
         proc' = [proc EXCEPT ![p] = k]
  PROVE  proc' \in [Procs -> Job] /\ Others(p) /\ proc'[p] = k
  BY DEF Others
----------------------------------------------------------------------------
(* What a step of a request that works on an instance leaves alone: the    *)
(* other requests, except that a write of the map makes waiting ones late, *)
(* and the other instances.                                                *)
Kept(p) ==
  \A q \in Procs \ {p} :
    \/ proc'[q] = proc[q]
    \/ /\ proc[q].pc = "write" /\ proc'[q].pc = "write"
       /\ proc'[q].i = proc[q].i /\ proc'[q].op = proc[q].op /\ proc'[q].snap = proc[q].snap
Elsewhere(i) ==
  \A j \in Ids \ {i} :
    /\ inst'[j] = inst[j] /\ container'[j] = container[j]
    /\ j \in volume' <=> j \in volume
    /\ j \in hostname' <=> j \in hostname
Touches(p) ==
  /\ Works(p) /\ proc[p].i \in spent /\ proc[p].i \in Ids
  /\ proc' \in [Procs -> Job] /\ Kept(p)
  /\ proc'[p] = Idle \/ (proc'[p].pc \in WorkPcs /\ proc'[p].i = proc[p].i)
  /\ Elsewhere(proc[p].i)
  /\ spent' = spent /\ mishaps \subseteq mishaps'

(* A request that is signing up, verifying or checking limits.             *)
Talks(p) ==
  /\ ~Works(p) /\ proc' \in [Procs -> Job] /\ Others(p) /\ proc'[p].pc \notin WorkPcs
  /\ UNCHANGED <<inst, spent, container, volume, hostname, mapFile, loaded, mishaps>>

LEMMA Noting ==
  ASSUME NEW kind \in Faults \cup Crossings, mishaps \subseteq Faults \cup Crossings, NEW condition,
         Note(kind, condition) \/ Fault(kind) \/ UNCHANGED mishaps
  PROVE  mishaps \subseteq mishaps' /\ mishaps' \subseteq Faults \cup Crossings
  BY DEF Note, Fault

LEMMA RowShape ==
  ASSUME TypeInv, NEW i \in Ids
  PROVE  /\ i \in Rows <=> inst[i].status # "none"
         /\ i \in Rows <=> inst[i] \in Row
         /\ i \notin Rows <=> inst[i] = NoRow
  <1>1. inst[i] \in Row \cup {NoRow}
    BY DEF TypeInv, TypeOK
  <1>2. NoRow.status = "none" /\ \A r \in Row : r.status # "none" /\ r # NoRow
    BY DEF NoRow, Row
  <1> QED  BY <1>1, <1>2 DEF Rows

LEMMA RoutesShape ==
  ASSUME TypeInv
  PROVE  ActiveRoutes \subseteq Routes
  <1>1. \A i \in With({"active"}) : i \in Ids /\ inst[i] \in Row
    BY RowShape DEF With, Rows
  <1> QED  BY <1>1 DEF ActiveRoutes, Route, Routes, Row

LEMMA JobAt ==
  ASSUME TypeInv, NEW p \in Procs
  PROVE  /\ proc[p] \in Job
         /\ Works(p) => proc[p].i \in Ids /\ proc[p].i \in spent /\ proc[p].op \in Ops
  BY JobShape DEF TypeInv, Works

(* The types of the state after a step of a working request.               *)
LEMMA TouchesTyped ==
  ASSUME TypeInv, NEW p \in Procs, Touches(p), Rows' \subseteq Rows,
         account' = account,
         inst' \in [Ids -> Row \cup {NoRow}],
         container' \in [Ids -> {"none", "running", "stopped"}],
         volume' \subseteq spent, hostname' \subseteq spent,
         mapFile' \subseteq Routes, loaded' \subseteq Routes,
         mishaps' \subseteq Faults \cup Crossings
  PROVE  TypeInv'
  <1>1. IsFiniteSet(Rows)'
    BY FS_Subset DEF TypeInv
  <1>2. \A q \in Procs : Works(q)' => proc'[q].i \in spent'
    <2>1. \A q \in Procs : proc'[q].pc \in WorkPcs => proc[q].pc \in WorkPcs /\ proc'[q].i = proc[q].i
      BY DEF Touches, Works, Kept, Idle, WorkPcs, NewPcs, OldPcs, LoadPcs
    <2> QED  BY <2>1 DEF Touches, TypeInv, Works
  <1>3. \A q \in Procs : "i" \in DOMAIN proc'[q] => proc'[q].i \in spent'
    <2>1. \A q \in Procs : "i" \in DOMAIN proc'[q] <=> proc'[q].pc \in WorkPcs
      BY JobShape DEF Touches
    <2> QED  BY <1>2, <2>1 DEF Works
  <1>4. TypeOK'
    BY <1>3 DEF TypeInv, TypeOK, Touches, Routes
  <1>5. \A q \in Procs : proc'[q].pc \in {"autoverify", "verify"} => proc'[q] = proc[q]
    BY DEF Touches, Kept, Idle, WorkPcs, NewPcs, OldPcs, LoadPcs
  <1> QED  BY <1>1, <1>2, <1>4, <1>5 DEF TypeInv, Touches
LEMMA MovingTouches ==
  ASSUME TypeInv, NEW p \in Procs, Works(p),
         Ends(p) \/ \E l \in WorkPcs : Moves(p, l),
         Elsewhere(proc[p].i), spent' = spent, mishaps \subseteq mishaps'
  PROVE  Touches(p)
  BY JobAt DEF Touches, Ends, Moves, Kept, Others

(* The steps of the requests on an instance; what each leaves them at.     *)

LEMMA RunContainerTypes ==
  ASSUME TypeInv, NEW p \in Procs, RunContainer(p)
  PROVE  /\ Touches(p) /\ TypeInv'
         /\ Moves(p, "health") \/ Moves(p, "rollback")
  <1>1. proc[p].pc = "run" /\ proc[p] \in NewJob /\ Works(p) /\ proc[p].i \in Ids
        /\ proc[p].i \in spent /\ proc \in [Procs -> Job]
    <2>1. proc[p].pc = "run" /\ Works(p)
      BY DEF RunContainer, NewPcs, OldPcs, LoadPcs, WorkPcs, Works
    <2> QED  BY <2>1, JobShape, JobAt DEF TypeInv, NewPcs, OldPcs, LoadPcs, WorkPcs
  <1>2. Moves(p, "health") \/ Moves(p, "rollback")
    <2>1. Goto(p, "health") \/ Goto(p, "rollback")
      BY DEF RunContainer
    <2> QED  BY <1>1, <2>1, Going, Ending DEF NewPcs, OldPcs, LoadPcs
  <1>3. mishaps \subseteq mishaps' /\ mishaps' \subseteq Faults \cup Crossings
    BY DEF RunContainer, TypeInv, TypeOK
  <1>4. Elsewhere(proc[p].i) /\ spent' = spent /\ account' = account /\ inst' = inst
    BY <1>1 DEF RunContainer, Elsewhere, docker, nginx, TypeInv, TypeOK
  <1>5. Touches(p)
    BY <1>1, <1>2, <1>3, <1>4, MovingTouches DEF NewPcs, OldPcs, LoadPcs, WorkPcs
  <1>6. /\ container' \in [Ids -> {"none", "running", "stopped"}]
        /\ volume' \subseteq spent /\ hostname' \subseteq spent
        /\ mapFile' \subseteq Routes /\ loaded' \subseteq Routes
    BY <1>1 DEF RunContainer, docker, nginx, TypeInv, TypeOK, Routes
  <1>7. Rows' \subseteq Rows /\ inst' \in [Ids -> Row \cup {NoRow}]
    BY <1>4 DEF Rows, TypeInv, TypeOK
  <1> QED  BY <1>2, <1>3, <1>4, <1>5, <1>6, <1>7, TouchesTyped

LEMMA SetUpTenantTypes ==
  ASSUME TypeInv, NEW p \in Procs, SetUpTenant(p)
  PROVE  /\ Touches(p) /\ TypeInv'
         /\ Moves(p, "hostname") \/ Moves(p, "rollback")
  <1>1. proc[p].pc = "health" /\ proc[p] \in NewJob /\ Works(p) /\ proc[p].i \in Ids
        /\ proc[p].i \in spent /\ proc \in [Procs -> Job]
    <2>1. proc[p].pc = "health" /\ Works(p) /\ proc[p] \in NewJob \cup OldJob
      BY JobShape, JobAt DEF SetUpTenant, NewPcs, OldPcs, LoadPcs, WorkPcs, Works
    <2>2. proc[p] \in NewJob
      BY <2>1 DEF SetUpTenant, NewJob, OldJob, Ops
    <2> QED  BY <2>1, <2>2, JobAt DEF TypeInv
  <1>2. Moves(p, "hostname") \/ Moves(p, "rollback")
    <2>1. Goto(p, "hostname") \/ Goto(p, "rollback")
      BY DEF SetUpTenant
    <2> QED  BY <1>1, <2>1, Going, Ending DEF NewPcs, OldPcs, LoadPcs
  <1>3. mishaps \subseteq mishaps' /\ mishaps' \subseteq Faults \cup Crossings
    BY DEF SetUpTenant, TypeInv, TypeOK
  <1>4. Elsewhere(proc[p].i) /\ spent' = spent /\ account' = account /\ inst' = inst
    BY <1>1 DEF SetUpTenant, Elsewhere, docker, nginx, TypeInv, TypeOK
  <1>5. Touches(p)
    BY <1>1, <1>2, <1>3, <1>4, MovingTouches DEF NewPcs, OldPcs, LoadPcs, WorkPcs
  <1>6. /\ container' \in [Ids -> {"none", "running", "stopped"}]
        /\ volume' \subseteq spent /\ hostname' \subseteq spent
        /\ mapFile' \subseteq Routes /\ loaded' \subseteq Routes
    BY <1>1 DEF SetUpTenant, docker, nginx, TypeInv, TypeOK, Routes
  <1>7. Rows' \subseteq Rows /\ inst' \in [Ids -> Row \cup {NoRow}]
    BY <1>4 DEF Rows, TypeInv, TypeOK
  <1> QED  BY <1>2, <1>3, <1>4, <1>5, <1>6, <1>7, TouchesTyped

LEMMA CreateHostnameTypes ==
  ASSUME TypeInv, NEW p \in Procs, CreateHostname(p)
  PROVE  /\ Touches(p) /\ TypeInv'
         /\ Moves(p, "update")
  <1>1. proc[p].pc = "hostname" /\ proc[p] \in NewJob /\ Works(p) /\ proc[p].i \in Ids
        /\ proc[p].i \in spent /\ proc \in [Procs -> Job]
    <2>1. proc[p].pc = "hostname" /\ Works(p)
      BY DEF CreateHostname, NewPcs, OldPcs, LoadPcs, WorkPcs, Works
    <2> QED  BY <2>1, JobShape, JobAt DEF TypeInv, NewPcs, OldPcs, LoadPcs, WorkPcs
  <1>2. Moves(p, "update")
    <2>1. Goto(p, "update")
      BY DEF CreateHostname
    <2> QED  BY <1>1, <2>1, Going, Ending DEF NewPcs, OldPcs, LoadPcs
  <1>3. mishaps \subseteq mishaps' /\ mishaps' \subseteq Faults \cup Crossings
    BY DEF CreateHostname, TypeInv, TypeOK
  <1>4. Elsewhere(proc[p].i) /\ spent' = spent /\ account' = account /\ inst' = inst
    BY <1>1 DEF CreateHostname, Elsewhere, docker, nginx, TypeInv, TypeOK
  <1>5. Touches(p)
    BY <1>1, <1>2, <1>3, <1>4, MovingTouches DEF NewPcs, OldPcs, LoadPcs, WorkPcs
  <1>6. /\ container' \in [Ids -> {"none", "running", "stopped"}]
        /\ volume' \subseteq spent /\ hostname' \subseteq spent
        /\ mapFile' \subseteq Routes /\ loaded' \subseteq Routes
    BY <1>1 DEF CreateHostname, docker, nginx, TypeInv, TypeOK, Routes
  <1>7. Rows' \subseteq Rows /\ inst' \in [Ids -> Row \cup {NoRow}]
    BY <1>4 DEF Rows, TypeInv, TypeOK
  <1> QED  BY <1>2, <1>3, <1>4, <1>5, <1>6, <1>7, TouchesTyped

LEMMA RollbackContainerTypes ==
  ASSUME TypeInv, NEW p \in Procs, RollbackContainer(p)
  PROVE  /\ Touches(p) /\ TypeInv'
         /\ Moves(p, "droprow")
  <1>1. proc[p].pc = "rollback" /\ proc[p] \in NewJob \cup LoadJob /\ Works(p) /\ proc[p].i \in Ids
        /\ proc[p].i \in spent /\ proc \in [Procs -> Job]
    <2>1. proc[p].pc = "rollback" /\ Works(p)
      BY DEF RollbackContainer, NewPcs, OldPcs, LoadPcs, WorkPcs, Works
    <2> QED  BY <2>1, JobShape, JobAt DEF TypeInv, NewPcs, OldPcs, LoadPcs, WorkPcs
  <1>2. Moves(p, "droprow")
    <2>1. Goto(p, "droprow")
      BY DEF RollbackContainer
    <2> QED  BY <1>1, <2>1, Going, Ending DEF NewPcs, OldPcs, LoadPcs
  <1>3. mishaps \subseteq mishaps' /\ mishaps' \subseteq Faults \cup Crossings
    <2>1. Fault("rm") \/ UNCHANGED mishaps
      BY DEF RollbackContainer
    <2> QED  BY <2>1, Noting DEF TypeInv, TypeOK, Faults
  <1>4. Elsewhere(proc[p].i) /\ spent' = spent /\ account' = account /\ inst' = inst
    BY <1>1 DEF RollbackContainer, Elsewhere, docker, nginx, TypeInv, TypeOK
  <1>5. Touches(p)
    BY <1>1, <1>2, <1>3, <1>4, MovingTouches DEF NewPcs, OldPcs, LoadPcs, WorkPcs
  <1>6. /\ container' \in [Ids -> {"none", "running", "stopped"}]
        /\ volume' \subseteq spent /\ hostname' \subseteq spent
        /\ mapFile' \subseteq Routes /\ loaded' \subseteq Routes
    BY <1>1 DEF RollbackContainer, docker, nginx, TypeInv, TypeOK, Routes
  <1>7. Rows' \subseteq Rows /\ inst' \in [Ids -> Row \cup {NoRow}]
    BY <1>4 DEF Rows, TypeInv, TypeOK
  <1> QED  BY <1>2, <1>3, <1>4, <1>5, <1>6, <1>7, TouchesTyped

LEMMA StopContainerTypes ==
  ASSUME TypeInv, NEW p \in Procs, StopContainer(p)
  PROVE  /\ Touches(p) /\ TypeInv'
         /\ Moves(p, "update")
  <1>1. proc[p].pc = "stop" /\ proc[p] \in OldJob /\ Works(p) /\ proc[p].i \in Ids
        /\ proc[p].i \in spent /\ proc \in [Procs -> Job]
    <2>1. proc[p].pc = "stop" /\ Works(p)
      BY DEF StopContainer, NewPcs, OldPcs, LoadPcs, WorkPcs, Works
    <2> QED  BY <2>1, JobShape, JobAt DEF TypeInv, NewPcs, OldPcs, LoadPcs, WorkPcs
  <1>2. Moves(p, "update")
    <2>1. Goto(p, "update")
      BY DEF StopContainer
    <2> QED  BY <1>1, <2>1, Going, Ending DEF NewPcs, OldPcs, LoadPcs
  <1>3. mishaps \subseteq mishaps' /\ mishaps' \subseteq Faults \cup Crossings
    <2>1. Fault("rm") \/ UNCHANGED mishaps
      BY DEF StopContainer
    <2> QED  BY <2>1, Noting DEF TypeInv, TypeOK, Faults
  <1>4. Elsewhere(proc[p].i) /\ spent' = spent /\ account' = account /\ inst' = inst
    BY <1>1 DEF StopContainer, Elsewhere, docker, nginx, TypeInv, TypeOK
  <1>5. Touches(p)
    BY <1>1, <1>2, <1>3, <1>4, MovingTouches DEF NewPcs, OldPcs, LoadPcs, WorkPcs
  <1>6. /\ container' \in [Ids -> {"none", "running", "stopped"}]
        /\ volume' \subseteq spent /\ hostname' \subseteq spent
        /\ mapFile' \subseteq Routes /\ loaded' \subseteq Routes
    BY <1>1 DEF StopContainer, docker, nginx, TypeInv, TypeOK, Routes
  <1>7. Rows' \subseteq Rows /\ inst' \in [Ids -> Row \cup {NoRow}]
    BY <1>4 DEF Rows, TypeInv, TypeOK
  <1> QED  BY <1>2, <1>3, <1>4, <1>5, <1>6, <1>7, TouchesTyped

LEMMA StartContainerTypes ==
  ASSUME TypeInv, NEW p \in Procs, StartContainer(p)
  PROVE  /\ Touches(p) /\ TypeInv'
         /\ Moves(p, "health")
  <1>1. proc[p].pc = "start" /\ proc[p] \in OldJob /\ Works(p) /\ proc[p].i \in Ids
        /\ proc[p].i \in spent /\ proc \in [Procs -> Job]
    <2>1. proc[p].pc = "start" /\ Works(p)
      BY DEF StartContainer, NewPcs, OldPcs, LoadPcs, WorkPcs, Works
    <2> QED  BY <2>1, JobShape, JobAt DEF TypeInv, NewPcs, OldPcs, LoadPcs, WorkPcs
  <1>2. Moves(p, "health")
    <2>1. Goto(p, "health")
      BY DEF StartContainer
    <2> QED  BY <1>1, <2>1, Going, Ending DEF NewPcs, OldPcs, LoadPcs
  <1>3. mishaps \subseteq mishaps' /\ mishaps' \subseteq Faults \cup Crossings
    BY DEF StartContainer, TypeInv, TypeOK
  <1>4. Elsewhere(proc[p].i) /\ spent' = spent /\ account' = account /\ inst' = inst
    BY <1>1 DEF StartContainer, Elsewhere, docker, nginx, TypeInv, TypeOK
  <1>5. Touches(p)
    BY <1>1, <1>2, <1>3, <1>4, MovingTouches DEF NewPcs, OldPcs, LoadPcs, WorkPcs
  <1>6. /\ container' \in [Ids -> {"none", "running", "stopped"}]
        /\ volume' \subseteq spent /\ hostname' \subseteq spent
        /\ mapFile' \subseteq Routes /\ loaded' \subseteq Routes
    BY <1>1 DEF StartContainer, docker, nginx, TypeInv, TypeOK, Routes
  <1>7. Rows' \subseteq Rows /\ inst' \in [Ids -> Row \cup {NoRow}]
    BY <1>4 DEF Rows, TypeInv, TypeOK
  <1> QED  BY <1>2, <1>3, <1>4, <1>5, <1>6, <1>7, TouchesTyped

LEMMA AwaitHealthTypes ==
  ASSUME TypeInv, NEW p \in Procs, AwaitHealth(p)
  PROVE  /\ Touches(p) /\ TypeInv'
         /\ Ends(p) \/ Moves(p, "update")
  <1>1. proc[p].pc = "health" /\ proc[p] \in OldJob /\ Works(p) /\ proc[p].i \in Ids
        /\ proc[p].i \in spent /\ proc \in [Procs -> Job]
    <2>1. proc[p].pc = "health" /\ Works(p) /\ proc[p] \in NewJob \cup OldJob
      BY JobShape, JobAt DEF AwaitHealth, NewPcs, OldPcs, LoadPcs, WorkPcs, Works
    <2>2. proc[p] \in OldJob
      BY <2>1 DEF AwaitHealth, NewJob, OldJob, Ops
    <2> QED  BY <2>1, <2>2, JobAt DEF TypeInv
  <1>2. Ends(p) \/ Moves(p, "update")
    <2>1. Finish(p) \/ Goto(p, "update")
      BY DEF AwaitHealth
    <2> QED  BY <1>1, <2>1, Going, Ending DEF NewPcs, OldPcs, LoadPcs
  <1>3. mishaps \subseteq mishaps' /\ mishaps' \subseteq Faults \cup Crossings
    <2>1. Fault("slow") \/ UNCHANGED mishaps
      BY DEF AwaitHealth
    <2> QED  BY <2>1, Noting DEF TypeInv, TypeOK, Faults
  <1>4. Elsewhere(proc[p].i) /\ spent' = spent /\ account' = account /\ inst' = inst
    BY <1>1 DEF AwaitHealth, Elsewhere, docker, nginx, TypeInv, TypeOK
  <1>5. Touches(p)
    BY <1>1, <1>2, <1>3, <1>4, MovingTouches DEF NewPcs, OldPcs, LoadPcs, WorkPcs
  <1>6. /\ container' \in [Ids -> {"none", "running", "stopped"}]
        /\ volume' \subseteq spent /\ hostname' \subseteq spent
        /\ mapFile' \subseteq Routes /\ loaded' \subseteq Routes
    BY <1>1 DEF AwaitHealth, docker, nginx, TypeInv, TypeOK, Routes
  <1>7. Rows' \subseteq Rows /\ inst' \in [Ids -> Row \cup {NoRow}]
    BY <1>4 DEF Rows, TypeInv, TypeOK
  <1> QED  BY <1>2, <1>3, <1>4, <1>5, <1>6, <1>7, TouchesTyped

LEMMA RemoveContainerTypes ==
  ASSUME TypeInv, NEW p \in Procs, RemoveContainer(p)
  PROVE  /\ Touches(p) /\ TypeInv'
         /\ Moves(p, "erase")
  <1>1. proc[p].pc = "remove" /\ proc[p] \in OldJob /\ Works(p) /\ proc[p].i \in Ids
        /\ proc[p].i \in spent /\ proc \in [Procs -> Job]
    <2>1. proc[p].pc = "remove" /\ Works(p)
      BY DEF RemoveContainer, NewPcs, OldPcs, LoadPcs, WorkPcs, Works
    <2> QED  BY <2>1, JobShape, JobAt DEF TypeInv, NewPcs, OldPcs, LoadPcs, WorkPcs
  <1>2. Moves(p, "erase")
    <2>1. Goto(p, "erase")
      BY DEF RemoveContainer
    <2> QED  BY <1>1, <2>1, Going, Ending DEF NewPcs, OldPcs, LoadPcs
  <1>3. mishaps \subseteq mishaps' /\ mishaps' \subseteq Faults \cup Crossings
    <2>1. Fault("rm") \/ UNCHANGED mishaps
      BY DEF RemoveContainer
    <2> QED  BY <2>1, Noting DEF TypeInv, TypeOK, Faults
  <1>4. Elsewhere(proc[p].i) /\ spent' = spent /\ account' = account /\ inst' = inst
    BY <1>1 DEF RemoveContainer, Elsewhere, docker, nginx, TypeInv, TypeOK
  <1>5. Touches(p)
    BY <1>1, <1>2, <1>3, <1>4, MovingTouches DEF NewPcs, OldPcs, LoadPcs, WorkPcs
  <1>6. /\ container' \in [Ids -> {"none", "running", "stopped"}]
        /\ volume' \subseteq spent /\ hostname' \subseteq spent
        /\ mapFile' \subseteq Routes /\ loaded' \subseteq Routes
    BY <1>1 DEF RemoveContainer, docker, nginx, TypeInv, TypeOK, Routes
  <1>7. Rows' \subseteq Rows /\ inst' \in [Ids -> Row \cup {NoRow}]
    BY <1>4 DEF Rows, TypeInv, TypeOK
  <1> QED  BY <1>2, <1>3, <1>4, <1>5, <1>6, <1>7, TouchesTyped

LEMMA EraseVolumeTypes ==
  ASSUME TypeInv, NEW p \in Procs, EraseVolume(p)
  PROVE  /\ Touches(p) /\ TypeInv'
         /\ Moves(p, "unregister")
  <1>1. proc[p].pc = "erase" /\ proc[p] \in OldJob /\ Works(p) /\ proc[p].i \in Ids
        /\ proc[p].i \in spent /\ proc \in [Procs -> Job]
    <2>1. proc[p].pc = "erase" /\ Works(p)
      BY DEF EraseVolume, NewPcs, OldPcs, LoadPcs, WorkPcs, Works
    <2> QED  BY <2>1, JobShape, JobAt DEF TypeInv, NewPcs, OldPcs, LoadPcs, WorkPcs
  <1>2. Moves(p, "unregister")
    <2>1. Goto(p, "unregister")
      BY DEF EraseVolume
    <2> QED  BY <1>1, <2>1, Going, Ending DEF NewPcs, OldPcs, LoadPcs
  <1>3. mishaps \subseteq mishaps' /\ mishaps' \subseteq Faults \cup Crossings
    <2>1. Fault("rm") \/ UNCHANGED mishaps
      BY DEF EraseVolume
    <2> QED  BY <2>1, Noting DEF TypeInv, TypeOK, Faults
  <1>4. Elsewhere(proc[p].i) /\ spent' = spent /\ account' = account /\ inst' = inst
    BY <1>1 DEF EraseVolume, Elsewhere, docker, nginx, TypeInv, TypeOK
  <1>5. Touches(p)
    BY <1>1, <1>2, <1>3, <1>4, MovingTouches DEF NewPcs, OldPcs, LoadPcs, WorkPcs
  <1>6. /\ container' \in [Ids -> {"none", "running", "stopped"}]
        /\ volume' \subseteq spent /\ hostname' \subseteq spent
        /\ mapFile' \subseteq Routes /\ loaded' \subseteq Routes
    BY <1>1 DEF EraseVolume, docker, nginx, TypeInv, TypeOK, Routes
  <1>7. Rows' \subseteq Rows /\ inst' \in [Ids -> Row \cup {NoRow}]
    BY <1>4 DEF Rows, TypeInv, TypeOK
  <1> QED  BY <1>2, <1>3, <1>4, <1>5, <1>6, <1>7, TouchesTyped

LEMMA DeleteHostnameTypes ==
  ASSUME TypeInv, NEW p \in Procs, DeleteHostname(p)
  PROVE  /\ Touches(p) /\ TypeInv'
         /\ Moves(p, "update")
  <1>1. proc[p].pc = "unregister" /\ proc[p] \in OldJob /\ Works(p) /\ proc[p].i \in Ids
        /\ proc[p].i \in spent /\ proc \in [Procs -> Job]
    <2>1. proc[p].pc = "unregister" /\ Works(p)
      BY DEF DeleteHostname, NewPcs, OldPcs, LoadPcs, WorkPcs, Works
    <2> QED  BY <2>1, JobShape, JobAt DEF TypeInv, NewPcs, OldPcs, LoadPcs, WorkPcs
  <1>2. Moves(p, "update")
    <2>1. Goto(p, "update")
      BY DEF DeleteHostname
    <2> QED  BY <1>1, <2>1, Going, Ending DEF NewPcs, OldPcs, LoadPcs
  <1>3. mishaps \subseteq mishaps' /\ mishaps' \subseteq Faults \cup Crossings
    <2>1. Fault("cf") \/ UNCHANGED mishaps
      BY DEF DeleteHostname
    <2> QED  BY <2>1, Noting DEF TypeInv, TypeOK, Faults
  <1>4. Elsewhere(proc[p].i) /\ spent' = spent /\ account' = account /\ inst' = inst
    BY <1>1 DEF DeleteHostname, Elsewhere, docker, nginx, TypeInv, TypeOK
  <1>5. Touches(p)
    BY <1>1, <1>2, <1>3, <1>4, MovingTouches DEF NewPcs, OldPcs, LoadPcs, WorkPcs
  <1>6. /\ container' \in [Ids -> {"none", "running", "stopped"}]
        /\ volume' \subseteq spent /\ hostname' \subseteq spent
        /\ mapFile' \subseteq Routes /\ loaded' \subseteq Routes
    BY <1>1 DEF DeleteHostname, docker, nginx, TypeInv, TypeOK, Routes
  <1>7. Rows' \subseteq Rows /\ inst' \in [Ids -> Row \cup {NoRow}]
    BY <1>4 DEF Rows, TypeInv, TypeOK
  <1> QED  BY <1>2, <1>3, <1>4, <1>5, <1>6, <1>7, TouchesTyped

LEMMA ReloadNginxTypes ==
  ASSUME TypeInv, NEW p \in Procs, ReloadNginx(p)
  PROVE  /\ Touches(p) /\ TypeInv'
         /\ Ends(p) \/ Moves(p, "rollback")
  <1>1. proc[p].pc = "reload" /\ proc[p] \in LoadJob /\ Works(p) /\ proc[p].i \in Ids
        /\ proc[p].i \in spent /\ proc \in [Procs -> Job]
    <2>1. proc[p].pc = "reload" /\ Works(p)
      BY DEF ReloadNginx, NewPcs, OldPcs, LoadPcs, WorkPcs, Works
    <2> QED  BY <2>1, JobShape, JobAt DEF TypeInv, NewPcs, OldPcs, LoadPcs, WorkPcs
  <1>2. Ends(p) \/ Moves(p, "rollback")
    <2>1. Finish(p) \/ Goto(p, "rollback")
      BY DEF ReloadNginx
    <2> QED  BY <1>1, <2>1, Going, Ending DEF NewPcs, OldPcs, LoadPcs
  <1>3. mishaps \subseteq mishaps' /\ mishaps' \subseteq Faults \cup Crossings
    <2>1. Fault("reload") \/ UNCHANGED mishaps
      BY DEF ReloadNginx
    <2> QED  BY <2>1, Noting DEF TypeInv, TypeOK, Faults
  <1>4. Elsewhere(proc[p].i) /\ spent' = spent /\ account' = account /\ inst' = inst
    BY <1>1 DEF ReloadNginx, Elsewhere, docker, nginx, TypeInv, TypeOK
  <1>5. Touches(p)
    BY <1>1, <1>2, <1>3, <1>4, MovingTouches DEF NewPcs, OldPcs, LoadPcs, WorkPcs
  <1>6. /\ container' \in [Ids -> {"none", "running", "stopped"}]
        /\ volume' \subseteq spent /\ hostname' \subseteq spent
        /\ mapFile' \subseteq Routes /\ loaded' \subseteq Routes
    BY <1>1 DEF ReloadNginx, docker, nginx, TypeInv, TypeOK, Routes
  <1>7. Rows' \subseteq Rows /\ inst' \in [Ids -> Row \cup {NoRow}]
    BY <1>4 DEF Rows, TypeInv, TypeOK
  <1> QED  BY <1>2, <1>3, <1>4, <1>5, <1>6, <1>7, TouchesTyped

LEMMA RollbackRowTypes ==
  ASSUME TypeInv, NEW p \in Procs, RollbackRow(p)
  PROVE  Touches(p) /\ TypeInv' /\ Ends(p)
  <1>1. proc[p].pc = "droprow" /\ Works(p) /\ proc[p].i \in Ids
    <2>1. proc[p].pc = "droprow" /\ Works(p)
      BY DEF RollbackRow, LoadPcs, WorkPcs, Works
    <2> QED  BY <2>1, JobAt
  <1>2. Ends(p)
    BY Ending DEF RollbackRow, TypeInv
  <1>3. Elsewhere(proc[p].i) /\ spent' = spent /\ account' = account /\ mishaps' = mishaps
    BY <1>1 DEF RollbackRow, Elsewhere, docker, nginx, TypeInv, TypeOK
  <1>4. Touches(p)
    BY <1>1, <1>2, <1>3, MovingTouches
  <1>5. Rows' \subseteq Rows /\ inst' \in [Ids -> Row \cup {NoRow}]
    BY <1>1 DEF RollbackRow, Rows, TypeInv, TypeOK
  <1>6. UNCHANGED <<container, volume, hostname, mapFile, loaded>>
    BY DEF RollbackRow, docker, nginx
  <1> QED  BY <1>2, <1>3, <1>4, <1>5, <1>6, TouchesTyped DEF TypeInv, TypeOK, Routes

LEMMA UpdateStatusTypes ==
  ASSUME TypeInv, NEW p \in Procs, UpdateStatus(p)
  PROVE  /\ Touches(p) /\ TypeInv' /\ Rows' = Rows
         /\ proc[p].i \in Rows =>
              /\ Moves(p, "list")
              /\ inst'[proc[p].i].status = StatusAfter[proc[p].op]
              /\ inst'[proc[p].i].c = inst[proc[p].i].c
              /\ proc[p].op = "provision" => (proc[p].i \in hostname => inst'[proc[p].i].cf)
              /\ proc[p].op # "provision" => inst'[proc[p].i].cf = inst[proc[p].i].cf
         /\ proc[p].i \notin Rows =>
              inst' = inst /\ (Ends(p) \/ Moves(p, "rollback"))
  <1> DEFINE i == proc[p].i
             op == proc[p].op
             st == StatusAfter[op]
             cf == IF op = "provision" THEN i \in hostname ELSE inst[i].cf
             row == [inst[i] EXCEPT !.status = st, !.cf = cf]
  <1>1. /\ proc[p].pc = "update" /\ proc[p] \in NewJob \cup OldJob /\ Works(p)
        /\ i \in Ids /\ op \in Ops /\ proc \in [Procs -> Job]
    <2>1. proc[p].pc = "update" /\ Works(p)
      BY DEF UpdateStatus, NewPcs, WorkPcs, Works
    <2> QED  BY <2>1, JobShape, JobAt DEF TypeInv
  <1>2. i \in Rows => Moves(p, "list")
    BY <1>1, Going DEF UpdateStatus, NewPcs, OldPcs
  <1>3. i \notin Rows => Ends(p) \/ Moves(p, "rollback")
    <2>1. op = "provision" => proc[p] \in NewJob
      BY <1>1 DEF OldJob
    <2> QED  BY <1>1, <2>1, Going, Ending DEF UpdateStatus, NewPcs
  <1>4. i \in Rows => inst' = [inst EXCEPT ![i] = row]
    BY <1>1 DEF UpdateStatus
  <1>5. i \notin Rows => inst' = inst
    BY DEF UpdateStatus
  <1>6. st \in {"pending", "active", "suspended", "deleted"}
    BY <1>1 DEF StatusAfter, Ops
  <1>7. op = "provision" => (cf \in BOOLEAN /\ (i \in hostname => cf))
    <2>1. op = "provision" => cf = (i \in hostname)
      BY Zenon
    <2>2. ASSUME NEW x, x = (i \in hostname) PROVE x \in BOOLEAN
      BY <2>2
    <2>3. ASSUME NEW x, x = (i \in hostname) PROVE i \in hostname => x
      BY <2>3
    <2> HIDE DEF cf
    <2> QED  BY <2>1, <2>2, <2>3, Zenon
  <1>8. op # "provision" => cf = inst[i].cf
    BY Zenon
  <1>9. op \in Ops /\ i \in Ids
    BY <1>1
  <1> HIDE DEF i, op, st, cf
  <1>10. i \in Rows => /\ row \in Row /\ row.status = st /\ row.c = inst[i].c /\ row.cf = cf
    <2>1. i \in Rows => inst[i] \in Row
      BY <1>9, RowShape
    <2>3. i \in Rows => inst[i].cf \in BOOLEAN
      BY <2>1 DEF Row
    <2>4. i \in Rows => cf \in BOOLEAN
      BY <1>7, <1>8, <2>3
    <2>5. SUFFICES ASSUME i \in Rows
                   PROVE  row \in Row /\ row.status = st /\ row.c = inst[i].c /\ row.cf = cf
      OBVIOUS
    <2>6. inst[i] \in Row /\ cf \in BOOLEAN
      BY <2>1, <2>4, <2>5
    <2>7. row \in Row
      BY <1>6, <2>6 DEF Row, row
    <2>8. row.status = st /\ row.c = inst[i].c
      BY <2>6 DEF Row, row
    <2>9. row.cf = cf
      BY <2>6 DEF Row, row
    <2> QED  BY <2>7, <2>8, <2>9
  <1> HIDE DEF row
  <1>11. inst' \in [Ids -> Row \cup {NoRow}] /\ Rows' = Rows /\ Elsewhere(i)
    <2>1. UNCHANGED <<container, volume, hostname>>
      BY DEF UpdateStatus, docker
    <2>2. NoRow \notin Row
      BY DEF NoRow, Row
    <2>3. \A j \in Ids \ {i} : inst'[j] = inst[j]
      BY <1>9, <1>4, <1>5 DEF TypeInv, TypeOK
    <2>4. inst' \in [Ids -> Row \cup {NoRow}]
      BY <1>9, <1>4, <1>5, <1>10 DEF TypeInv, TypeOK
    <2>5. inst'[i] # NoRow <=> inst[i] # NoRow
      BY <1>9, <1>4, <1>5, <1>10, <2>2 DEF TypeInv, TypeOK, Rows
    <2> QED  BY <1>9, <2>1, <2>3, <2>4, <2>5 DEF Rows, Elsewhere
  <1>12. mishaps \subseteq mishaps' /\ mishaps' \subseteq Faults \cup Crossings
    <2>1. PICK condition : Note("revived", condition)
      BY DEF UpdateStatus
    <2> QED  BY <2>1, Noting DEF TypeInv, TypeOK, Crossings
  <1>13. Touches(p)
    <2>1. spent' = spent
      BY DEF UpdateStatus
    <2>2. Elsewhere(proc[p].i)
      BY <1>11 DEF i
    <2> QED  BY <1>1, <1>2, <1>3, <2>1, <2>2, <1>12, MovingTouches DEF NewPcs, LoadPcs, WorkPcs, i
  <1>14. TypeInv'
    <2>1. account' = account /\ UNCHANGED <<container, volume, hostname, mapFile, loaded>>
      BY DEF UpdateStatus, docker, nginx
    <2>2. Rows' \subseteq Rows
      BY <1>11
    <2> QED  BY <1>11, <1>12, <1>13, <2>1, <2>2, TouchesTyped DEF TypeInv, TypeOK, Routes
  <1>15. i \in Rows => /\ inst'[i].status = st /\ inst'[i].c = inst[i].c
                       /\ op = "provision" => (i \in hostname => inst'[i].cf)
                       /\ op # "provision" => inst'[i].cf = inst[i].cf
    <2>1. i \in Rows => inst'[i] = row
      BY <1>4, <1>9 DEF TypeInv, TypeOK
    <2> QED  BY <1>7, <1>8, <1>10, <2>1
  <1> QED  BY <1>2, <1>3, <1>5, <1>11, <1>13, <1>14, <1>15 DEF i, op, st

LEMMA ListActiveTypes ==
  ASSUME TypeInv, NEW p \in Procs, ListActive(p)
  PROVE  /\ Touches(p) /\ TypeInv' /\ Others(p)
         /\ proc'[p].pc = "write" /\ proc'[p].i = proc[p].i /\ proc'[p].op = proc[p].op
         /\ proc'[p].snap = ActiveRoutes
  <1> DEFINE k == [pc |-> "write", i |-> proc[p].i, op |-> proc[p].op, snap |-> ActiveRoutes,
                   late |-> FALSE]
  <1>1. proc[p].pc = "list" /\ Works(p) /\ proc[p].i \in Ids /\ proc[p].i \in spent /\ proc[p].op \in Ops
    <2>1. proc[p].pc = "list" /\ Works(p)
      BY DEF ListActive, NewPcs, WorkPcs, Works
    <2> QED  BY <2>1, JobAt
  <1>2. k \in Job /\ k.pc = "write" /\ k.i = proc[p].i /\ k.op = proc[p].op /\ k.snap = ActiveRoutes
    BY <1>1, RoutesShape DEF Job, MapJob
  <1>3. proc' = [proc EXCEPT ![p] = k]
    BY DEF ListActive
  <1> HIDE DEF k
  <1>4. proc' \in [Procs -> Job] /\ Others(p) /\ proc'[p] = k
    BY <1>2, <1>3, Restarting DEF TypeInv
  <1>5. UNCHANGED <<account, inst, spent, container, volume, hostname, mapFile, loaded, mishaps>>
    BY DEF ListActive, docker, nginx
  <1>6. Touches(p)
    BY <1>1, <1>2, <1>4, <1>5 DEF Touches, Elsewhere, Kept, Others, WorkPcs
  <1>7. Rows' = Rows
    BY <1>5 DEF Rows
  <1> QED  BY <1>2, <1>4, <1>5, <1>6, <1>7, TouchesTyped DEF TypeInv, TypeOK, Routes

LEMMA WriteMapTypes ==
  ASSUME TypeInv, NEW p \in Procs, WriteMap(p)
  PROVE  /\ Touches(p) /\ TypeInv'
         /\ proc'[p].pc = "reload" /\ proc'[p].i = proc[p].i /\ proc'[p].op = proc[p].op
         /\ \A q \in Procs \ {p} : proc[q].pc = "write" => proc'[q].late
  <1> DEFINE k == [pc |-> "reload", i |-> proc[p].i, op |-> proc[p].op]
  <1>1. /\ proc[p].pc = "write" /\ proc[p] \in MapJob /\ Works(p)
        /\ proc[p].i \in Ids /\ proc[p].i \in spent /\ proc[p].op \in Ops
    <2>1. proc[p].pc = "write" /\ Works(p)
      BY DEF WriteMap, WorkPcs, Works
    <2> QED  BY <2>1, JobAt, JobShape
  <1>2. k \in Job /\ k.pc = "reload" /\ k.i = proc[p].i /\ k.op = proc[p].op
    BY <1>1 DEF Job, LoadJob, LoadPcs
  <1>3. \A q \in Procs \ {p} :
          /\ proc[q].pc # "write" => proc'[q] = proc[q]
          /\ proc[q].pc = "write" => proc'[q] = [proc[q] EXCEPT !.late = TRUE]
    BY DEF WriteMap
  <1>4. proc'[p] = k /\ DOMAIN proc' = Procs /\ proc' = [q \in Procs |-> proc'[q]]
    BY DEF WriteMap
  <1> HIDE DEF k
  <1>5. \A m \in MapJob :
          LET n == [m EXCEPT !.late = TRUE] IN
            /\ n \in MapJob /\ n.pc = m.pc /\ n.i = m.i /\ n.op = m.op /\ n.snap = m.snap
            /\ n.late
    BY DEF MapJob
  <1>6. \A q \in Procs \ {p} : proc[q].pc = "write" =>
          /\ proc'[q] \in Job /\ proc'[q].pc = "write" /\ proc'[q].i = proc[q].i
          /\ proc'[q].op = proc[q].op /\ proc'[q].snap = proc[q].snap /\ proc'[q].late
    <2> TAKE q \in Procs \ {p}
    <2> HAVE proc[q].pc = "write"
    <2>1. proc[q] \in MapJob
      BY JobAt, JobShape
    <2> QED  BY <1>3, <1>5, <2>1 DEF Job
  <1>7. proc' \in [Procs -> Job]
    BY <1>2, <1>3, <1>4, <1>6 DEF TypeInv
  <1>8. UNCHANGED <<account, inst, spent, container, volume, hostname, loaded>>
    BY DEF WriteMap, docker
  <1>9. mishaps \subseteq mishaps' /\ mishaps' \subseteq Faults \cup Crossings
    <2>1. PICK condition : Note("overtaken", condition)
      BY DEF WriteMap
    <2> QED  BY <2>1, Noting DEF TypeInv, TypeOK, Crossings
  <1>10. Touches(p)
    BY <1>1, <1>2, <1>3, <1>4, <1>6, <1>7, <1>8, <1>9
    DEF Touches, Elsewhere, Kept, WorkPcs, LoadPcs
  <1>11. Rows' = Rows /\ mapFile' \subseteq Routes
    BY <1>1, <1>8 DEF Rows, WriteMap, MapJob
  <1>12. TypeInv'
    BY <1>8, <1>9, <1>10, <1>11, TouchesTyped DEF TypeInv, TypeOK, Routes
  <1> QED  BY <1>2, <1>4, <1>6, <1>10, <1>12
----------------------------------------------------------------------------
(* The steps of the requests that have no instance yet.                    *)

LEMMA TalksTyped ==
  ASSUME TypeInv, NEW p \in Procs, Talks(p),
         account' \in [Customers -> Account \cup {NoAccount}],
         \A c \in Customers : account[c] \in Account => account'[c] \in Account,
         proc'[p].pc \in {"autoverify", "verify"} => account'[proc'[p].c] \in Account
  PROVE  TypeInv'
  <1>1. Rows' = Rows
    BY DEF Rows, Talks
  <1>2. \A q \in Procs : proc'[q].pc \in WorkPcs => proc'[q] = proc[q]
    BY DEF Talks, Others
  <1>3. \A q \in Procs : "i" \in DOMAIN proc'[q] <=> proc'[q].pc \in WorkPcs
    BY JobShape DEF Talks
  <1>4. \A q \in Procs : proc'[q].pc \in WorkPcs => proc'[q].i \in spent
    BY <1>2 DEF TypeInv, Works
  <1>5. TypeOK'
    BY <1>1, <1>3, <1>4 DEF TypeInv, TypeOK, Talks
  <1>6. \A q \in Procs : proc'[q].pc \in {"autoverify", "verify"} => account'[proc'[q].c] \in Account
    <2> TAKE q \in Procs
    <2>1. CASE q = p
      BY <2>1
    <2>2. CASE q # p
      <3>1. proc'[q] = proc[q]
        BY <2>2 DEF Talks, Others
      <3>2. proc[q].pc \in {"autoverify", "verify"} => proc[q].c \in Customers
        BY JobShape, JobAt DEF AccountJob, AccountPcs
      <3> QED  BY <3>1, <3>2 DEF TypeInv
    <2> QED  BY <2>1, <2>2
  <1> QED  BY <1>1, <1>4, <1>5, <1>6 DEF TypeInv, Talks, Works

(* Who is past the check of the limit was there before, or passes it now.  *)
Past == {"capacity", "port", "create"}
Room(p) ==
  proc'[p].pc \in Past =>
    \/ proc[p].pc \in Past /\ proc'[p].c = proc[p].c
    \/ Cardinality(Live(proc'[p].c)) < MaxPerCustomer

LEMMA PortsLeft ==
  ASSUME FreePorts # {}
  PROVE  Min(FreePorts) \in Ports
  <1>1. FreePorts \subseteq Nat /\ FreePorts \subseteq Ports
    BY ProvisionAssumption DEF FreePorts
  <1> DEFINE less == {ss \in Nat \X Nat : ss[1] < ss[2]}
  <1>2. less = OpToRel(<, Nat)
    BY Zenon DEF OpToRel
  <1>3. IsWellFoundedOn(less, Nat)
    BY <1>2, NatLessThanWellFounded, Zenon
  <1>4. \A x, y \in Nat : <<y, x>> \in less <=> y < x
    OBVIOUS
  <1> HIDE DEF less
  <1>5. \E x \in FreePorts : \A y \in FreePorts : <<y, x>> \notin less
    BY <1>1, <1>3, WFMin
  <1>6. \E x \in FreePorts : \A y \in FreePorts : x =< y
    <2>1. PICK x \in FreePorts : \A y \in FreePorts : <<y, x>> \notin less
      BY <1>5
    <2>2. ASSUME NEW y \in FreePorts PROVE x =< y
      <3>1. x \in Nat /\ y \in Nat /\ <<y, x>> \notin less
        BY <1>1, <2>1, <2>2
      <3>2. ~(y < x)
        BY <1>4, <3>1, Zenon
      <3> QED  BY <3>1, <3>2
    <2> QED  BY <2>2
  <1> HIDE DEF FreePorts
  <1> QED  BY <1>1, <1>6 DEF Min

LEMMA SignupBeginTypes ==
  ASSUME TypeInv, NEW p \in Procs, NEW c \in Customers, NEW d \in Domains, SignupBegin(p, c, d)
  PROVE  Talks(p) /\ TypeInv' /\ Room(p)
  <1> DEFINE k == [pc |-> "signup", c |-> c, d |-> d]
  <1>2. k \in AccountJob /\ k.pc = "signup" /\ k.c = c
    BY DEF AccountJob, AccountPcs
  <1>3. proc[p] = Idle /\ proc' = [proc EXCEPT ![p] = k]
    BY DEF SignupBegin
  <1> HIDE DEF k
  <1>4. proc' \in [Procs -> Job] /\ Others(p) /\ proc'[p] = k
    BY <1>2, <1>3, Restarting DEF TypeInv, Job
  <1>5. Talks(p)
    BY <1>2, <1>3, <1>4 DEF SignupBegin, Talks, Works, Idle, WorkPcs, NewPcs, OldPcs, LoadPcs, docker, nginx
  <1>6. account' = account
    BY DEF SignupBegin
  <1>7. TypeInv'
    BY <1>2, <1>4, <1>5, <1>6, TalksTyped DEF TypeInv, TypeOK
  <1> QED  BY <1>2, <1>4, <1>5, <1>7 DEF Room, Past

LEMMA VerifyBeginTypes ==
  ASSUME TypeInv, NEW p \in Procs, NEW c \in Customers, VerifyBegin(p, c)
  PROVE  Talks(p) /\ TypeInv' /\ Room(p)
  <1> DEFINE k == [pc |-> "verify", c |-> c, d |-> account[c].domain]
  <1>1. account[c] \in Account
    BY DEF VerifyBegin, TypeInv, TypeOK, NoAccount
  <1>2. k \in AccountJob /\ k.pc = "verify" /\ k.c = c
    BY <1>1 DEF AccountJob, AccountPcs, Account
  <1>3. proc[p] = Idle /\ proc' = [proc EXCEPT ![p] = k]
    BY DEF VerifyBegin
  <1> HIDE DEF k
  <1>4. proc' \in [Procs -> Job] /\ Others(p) /\ proc'[p] = k
    BY <1>2, <1>3, Restarting DEF TypeInv, Job
  <1>5. Talks(p)
    BY <1>2, <1>3, <1>4 DEF VerifyBegin, Talks, Works, Idle, WorkPcs, NewPcs, OldPcs, LoadPcs, docker, nginx
  <1>6. account' = account
    BY DEF VerifyBegin
  <1>7. TypeInv'
    BY <1>1, <1>2, <1>4, <1>5, <1>6, TalksTyped DEF TypeInv, TypeOK
  <1> QED  BY <1>2, <1>4, <1>5, <1>7 DEF Room, Past

LEMMA ProvisionBeginTypes ==
  ASSUME TypeInv, NEW p \in Procs, NEW c \in Customers, NEW d \in Domains, ProvisionBegin(p, c, d)
  PROVE  Talks(p) /\ TypeInv' /\ Room(p)
  <1> DEFINE k == [pc |-> "dup", c |-> c, d |-> d]
  <1>2. k \in AccountJob /\ k.pc = "dup" /\ k.c = c
    BY DEF AccountJob, AccountPcs
  <1>3. proc[p] = Idle /\ proc' = [proc EXCEPT ![p] = k]
    BY DEF ProvisionBegin
  <1> HIDE DEF k
  <1>4. proc' \in [Procs -> Job] /\ Others(p) /\ proc'[p] = k
    BY <1>2, <1>3, Restarting DEF TypeInv, Job
  <1>5. Talks(p)
    BY <1>2, <1>3, <1>4 DEF ProvisionBegin, Talks, Works, Idle, WorkPcs, NewPcs, OldPcs, LoadPcs, docker, nginx
  <1>6. account' = account
    BY DEF ProvisionBegin
  <1>7. TypeInv'
    BY <1>2, <1>4, <1>5, <1>6, TalksTyped DEF TypeInv, TypeOK
  <1> QED  BY <1>2, <1>4, <1>5, <1>7 DEF Room, Past

LEMMA SignupCreateTypes ==
  ASSUME TypeInv, NEW p \in Procs, SignupCreate(p)
  PROVE  Talks(p) /\ TypeInv' /\ Room(p)
  <1>1. proc[p].pc = "signup" /\ proc[p] \in AccountJob /\ ~Works(p) /\ proc[p].c \in Customers
    <2>1. proc[p].pc = "signup" /\ ~Works(p)
      BY DEF SignupCreate, Works, WorkPcs, NewPcs, OldPcs, LoadPcs
    <2>2. proc[p] \in AccountJob
      BY <2>1, JobAt, JobShape DEF AccountPcs
    <2> QED  BY <2>1, <2>2 DEF AccountJob
  <1>2. Ends(p) \/ Moves(p, "autoverify")
    <2>1. Finish(p) \/ Goto(p, "autoverify")
      BY DEF SignupCreate
    <2> QED  BY <1>1, <2>1, Going, Ending DEF TypeInv, AccountPcs
  <1>3. Talks(p)
    BY <1>1, <1>2 DEF SignupCreate, Talks, Moves, Ends, Idle, WorkPcs, NewPcs, OldPcs, LoadPcs, docker, nginx
  <1>5. /\ account' \in [Customers -> Account \cup {NoAccount}]
        /\ \A c \in Customers : account[c] \in Account => account'[c] \in Account
        /\ account'[proc[p].c] \in Account \/ Ends(p)
    <2> DEFINE new == [verified |-> FALSE, token |-> TRUE, domain |-> proc[p].d]
    <2>1. new \in Account /\ NoAccount \notin Account
      BY <1>1 DEF Account, AccountJob, NoAccount
    <2>2. \/ account' = account /\ Finish(p)
          \/ account' = [account EXCEPT ![proc[p].c] = new] /\ account[proc[p].c] = NoAccount
      BY DEF SignupCreate
    <2> HIDE DEF new
    <2>3. Finish(p) => Ends(p)
      BY Ending DEF TypeInv
    <2> QED  BY <1>1, <2>1, <2>2, <2>3 DEF TypeInv, TypeOK
  <1>6. proc'[p].pc \in {"autoverify", "verify"} => account'[proc'[p].c] \in Account
    BY <1>1, <1>2, <1>5 DEF Moves, Ends, Idle
  <1>7. TypeInv'
    BY <1>3, <1>5, <1>6, TalksTyped
  <1>8. Room(p)
    BY <1>1, <1>2 DEF Moves, Ends, Idle, Room, Past
  <1> QED  BY <1>3, <1>7, <1>8

LEMMA SignupAutoVerifyTypes ==
  ASSUME TypeInv, NEW p \in Procs, SignupAutoVerify(p)
  PROVE  Talks(p) /\ TypeInv' /\ Room(p)
  <1>1. proc[p].pc = "autoverify" /\ proc[p] \in AccountJob /\ ~Works(p) /\ proc[p].c \in Customers
    <2>1. proc[p].pc = "autoverify" /\ ~Works(p)
      BY DEF SignupAutoVerify, Works, WorkPcs, NewPcs, OldPcs, LoadPcs
    <2>2. proc[p] \in AccountJob
      BY <2>1, JobAt, JobShape DEF AccountPcs
    <2> QED  BY <2>1, <2>2 DEF AccountJob
  <1>2. Ends(p)
    <2>1. Finish(p)
      BY DEF SignupAutoVerify
    <2> QED  BY <1>1, <2>1, Going, Ending DEF TypeInv, AccountPcs
  <1>3. Talks(p)
    BY <1>1, <1>2 DEF SignupAutoVerify, Talks, Moves, Ends, Idle, WorkPcs, NewPcs, OldPcs, LoadPcs, docker, nginx
  <1>4. account[proc[p].c] \in Account
    BY <1>1 DEF TypeInv
  <1>5. /\ account' \in [Customers -> Account \cup {NoAccount}]
        /\ \A c \in Customers : account[c] \in Account => account'[c] \in Account
        /\ account'[proc[p].c] \in Account
    <2>1. \A a \in Account : [a EXCEPT !.verified = TRUE] \in Account
      BY DEF Account
    <2>2. account' = [account EXCEPT ![proc[p].c] = [account[proc[p].c] EXCEPT !.verified = TRUE]]
      BY <1>1 DEF SignupAutoVerify, TypeInv, TypeOK
    <2> QED  BY <1>1, <1>4, <2>1, <2>2 DEF TypeInv, TypeOK
  <1>6. proc'[p].pc \in {"autoverify", "verify"} => account'[proc'[p].c] \in Account
    BY <1>1, <1>2, <1>5 DEF Moves, Ends, Idle
  <1>7. TypeInv'
    BY <1>3, <1>5, <1>6, TalksTyped
  <1>8. Room(p)
    BY <1>1, <1>2 DEF Moves, Ends, Idle, Room, Past
  <1> QED  BY <1>3, <1>7, <1>8

LEMMA VerifyUpdateTypes ==
  ASSUME TypeInv, NEW p \in Procs, VerifyUpdate(p)
  PROVE  Talks(p) /\ TypeInv' /\ Room(p)
  <1>1. proc[p].pc = "verify" /\ proc[p] \in AccountJob /\ ~Works(p) /\ proc[p].c \in Customers
    <2>1. proc[p].pc = "verify" /\ ~Works(p)
      BY DEF VerifyUpdate, Works, WorkPcs, NewPcs, OldPcs, LoadPcs
    <2>2. proc[p] \in AccountJob
      BY <2>1, JobAt, JobShape DEF AccountPcs
    <2> QED  BY <2>1, <2>2 DEF AccountJob
  <1>2. Moves(p, "has")
    <2>1. Goto(p, "has")
      BY DEF VerifyUpdate
    <2> QED  BY <1>1, <2>1, Going, Ending DEF TypeInv, AccountPcs
  <1>3. Talks(p)
    BY <1>1, <1>2 DEF VerifyUpdate, Talks, Moves, Ends, Idle, WorkPcs, NewPcs, OldPcs, LoadPcs, docker, nginx
  <1>4. account[proc[p].c] \in Account
    BY <1>1 DEF TypeInv
  <1>5. /\ account' \in [Customers -> Account \cup {NoAccount}]
        /\ \A c \in Customers : account[c] \in Account => account'[c] \in Account
        /\ account'[proc[p].c] \in Account
    <2>1. \A a \in Account : [[a EXCEPT !.verified = TRUE] EXCEPT !.token = FALSE] \in Account
      BY DEF Account
    <2>2. account' = [account EXCEPT ![proc[p].c] = [[account[proc[p].c] EXCEPT !.verified = TRUE] EXCEPT !.token = FALSE]]
      BY <1>1 DEF VerifyUpdate, TypeInv, TypeOK
    <2> QED  BY <1>1, <1>4, <2>1, <2>2 DEF TypeInv, TypeOK
  <1>6. proc'[p].pc \in {"autoverify", "verify"} => account'[proc'[p].c] \in Account
    BY <1>1, <1>2, <1>5 DEF Moves, Ends, Idle
  <1>7. TypeInv'
    BY <1>3, <1>5, <1>6, TalksTyped
  <1>8. Room(p)
    BY <1>1, <1>2 DEF Moves, Ends, Idle, Room, Past
  <1> QED  BY <1>3, <1>7, <1>8

LEMMA VerifyHasInstanceTypes ==
  ASSUME TypeInv, NEW p \in Procs, VerifyHasInstance(p)
  PROVE  Talks(p) /\ TypeInv' /\ Room(p)
  <1>1. proc[p].pc = "has" /\ proc[p] \in AccountJob /\ ~Works(p) /\ proc[p].c \in Customers
    <2>1. proc[p].pc = "has" /\ ~Works(p)
      BY DEF VerifyHasInstance, Works, WorkPcs, NewPcs, OldPcs, LoadPcs
    <2>2. proc[p] \in AccountJob
      BY <2>1, JobAt, JobShape DEF AccountPcs
    <2> QED  BY <2>1, <2>2 DEF AccountJob
  <1>2. Ends(p) \/ Moves(p, "dup")
    <2>1. Finish(p) \/ Goto(p, "dup")
      BY DEF VerifyHasInstance
    <2> QED  BY <1>1, <2>1, Going, Ending DEF TypeInv, AccountPcs
  <1>3. Talks(p)
    BY <1>1, <1>2 DEF VerifyHasInstance, Talks, Moves, Ends, Idle, WorkPcs, NewPcs, OldPcs, LoadPcs, docker, nginx
  <1>5. account' = account /\ proc'[p].pc \notin {"autoverify", "verify"}
    BY <1>2 DEF VerifyHasInstance, Moves, Ends, Idle
  <1>7. TypeInv'
    BY <1>3, <1>5, TalksTyped DEF TypeInv, TypeOK
  <1>8. Room(p)
    BY <1>1, <1>2 DEF Moves, Ends, Idle, Room, Past
  <1> QED  BY <1>3, <1>7, <1>8

LEMMA CheckDuplicateTypes ==
  ASSUME TypeInv, NEW p \in Procs, CheckDuplicate(p)
  PROVE  Talks(p) /\ TypeInv' /\ Room(p)
  <1>1. proc[p].pc = "dup" /\ proc[p] \in AccountJob /\ ~Works(p) /\ proc[p].c \in Customers
    <2>1. proc[p].pc = "dup" /\ ~Works(p)
      BY DEF CheckDuplicate, Works, WorkPcs, NewPcs, OldPcs, LoadPcs
    <2>2. proc[p] \in AccountJob
      BY <2>1, JobAt, JobShape DEF AccountPcs
    <2> QED  BY <2>1, <2>2 DEF AccountJob
  <1>2. Ends(p) \/ Moves(p, "mine")
    <2>1. Finish(p) \/ Goto(p, "mine")
      BY DEF CheckDuplicate
    <2> QED  BY <1>1, <2>1, Going, Ending DEF TypeInv, AccountPcs
  <1>3. Talks(p)
    BY <1>1, <1>2 DEF CheckDuplicate, Talks, Moves, Ends, Idle, WorkPcs, NewPcs, OldPcs, LoadPcs, docker, nginx
  <1>5. account' = account /\ proc'[p].pc \notin {"autoverify", "verify"}
    BY <1>2 DEF CheckDuplicate, Moves, Ends, Idle
  <1>7. TypeInv'
    BY <1>3, <1>5, TalksTyped DEF TypeInv, TypeOK
  <1>8. Room(p)
    BY <1>1, <1>2 DEF Moves, Ends, Idle, Room, Past
  <1> QED  BY <1>3, <1>7, <1>8

LEMMA CheckPerCustomerTypes ==
  ASSUME TypeInv, NEW p \in Procs, CheckPerCustomer(p)
  PROVE  Talks(p) /\ TypeInv' /\ Room(p)
  <1>1. proc[p].pc = "mine" /\ proc[p] \in AccountJob /\ ~Works(p) /\ proc[p].c \in Customers
    <2>1. proc[p].pc = "mine" /\ ~Works(p)
      BY DEF CheckPerCustomer, Works, WorkPcs, NewPcs, OldPcs, LoadPcs
    <2>2. proc[p] \in AccountJob
      BY <2>1, JobAt, JobShape DEF AccountPcs
    <2> QED  BY <2>1, <2>2 DEF AccountJob
  <1>2. Ends(p) \/ Moves(p, "capacity")
    <2>1. Finish(p) \/ Goto(p, "capacity")
      BY DEF CheckPerCustomer
    <2> QED  BY <1>1, <2>1, Going, Ending DEF TypeInv, AccountPcs
  <1>3. Talks(p)
    BY <1>1, <1>2 DEF CheckPerCustomer, Talks, Moves, Ends, Idle, WorkPcs, NewPcs, OldPcs, LoadPcs, docker, nginx
  <1>5. account' = account /\ proc'[p].pc \notin {"autoverify", "verify"}
    BY <1>2 DEF CheckPerCustomer, Moves, Ends, Idle
  <1>7. TypeInv'
    BY <1>3, <1>5, TalksTyped DEF TypeInv, TypeOK
  <1>8. Room(p)
    <2>1. CASE Cardinality(Live(proc[p].c)) >= MaxPerCustomer
      <3>1. Ends(p)
        BY <2>1, Ending DEF CheckPerCustomer, TypeInv
      <3> QED  BY <3>1 DEF Ends, Idle, Room, Past
    <2>2. CASE ~(Cardinality(Live(proc[p].c)) >= MaxPerCustomer)
      <3>1. Moves(p, "capacity")
        BY <1>1, <2>2, Going DEF CheckPerCustomer, TypeInv, AccountPcs
      <3>2. Cardinality(Live(proc[p].c)) \in Nat
        BY FS_Subset, FS_CardinalityType DEF Live, With, TypeInv
      <3>3. Cardinality(Live(proc[p].c)) < MaxPerCustomer
        BY <2>2, <3>2, ProvisionAssumption
      <3> QED  BY <1>1, <3>1, <3>3 DEF Moves, Room
    <2> QED  BY <2>1, <2>2
  <1> QED  BY <1>3, <1>7, <1>8

LEMMA CheckCapacityTypes ==
  ASSUME TypeInv, NEW p \in Procs, CheckCapacity(p)
  PROVE  Talks(p) /\ TypeInv' /\ Room(p)
  <1>1. proc[p].pc = "capacity" /\ proc[p] \in AccountJob /\ ~Works(p) /\ proc[p].c \in Customers
    <2>1. proc[p].pc = "capacity" /\ ~Works(p)
      BY DEF CheckCapacity, Works, WorkPcs, NewPcs, OldPcs, LoadPcs
    <2>2. proc[p] \in AccountJob
      BY <2>1, JobAt, JobShape DEF AccountPcs
    <2> QED  BY <2>1, <2>2 DEF AccountJob
  <1>2. Ends(p) \/ Moves(p, "port")
    <2>1. Finish(p) \/ Goto(p, "port")
      BY DEF CheckCapacity
    <2> QED  BY <1>1, <2>1, Going, Ending DEF TypeInv, AccountPcs
  <1>3. Talks(p)
    BY <1>1, <1>2 DEF CheckCapacity, Talks, Moves, Ends, Idle, WorkPcs, NewPcs, OldPcs, LoadPcs, docker, nginx
  <1>5. account' = account /\ proc'[p].pc \notin {"autoverify", "verify"}
    BY <1>2 DEF CheckCapacity, Moves, Ends, Idle
  <1>7. TypeInv'
    BY <1>3, <1>5, TalksTyped DEF TypeInv, TypeOK
  <1>8. Room(p)
    BY <1>1, <1>2 DEF Moves, Ends, Idle, Room, Past
  <1> QED  BY <1>3, <1>7, <1>8

LEMMA NextFreePortTypes ==
  ASSUME TypeInv, NEW p \in Procs, NextFreePort(p)
  PROVE  Talks(p) /\ TypeInv' /\ Room(p)
  <1> DEFINE k == [pc |-> "create", c |-> proc[p].c, d |-> proc[p].d, port |-> Min(FreePorts)]
  <1>1. proc[p].pc = "port" /\ proc[p] \in AccountJob /\ ~Works(p)
    <2>1. proc[p].pc = "port" /\ ~Works(p)
      BY DEF NextFreePort, Works, WorkPcs, NewPcs, OldPcs, LoadPcs
    <2> QED  BY <2>1, JobAt, JobShape DEF AccountPcs
  <1>2. FreePorts # {} => k \in CreateJob /\ k.pc = "create" /\ k.c = proc[p].c
    BY <1>1, PortsLeft DEF AccountJob, CreateJob
  <1>3. Finish(p) \/ (FreePorts # {} /\ proc' = [proc EXCEPT ![p] = k])
    BY DEF NextFreePort
  <1> HIDE DEF k
  <1>4. Ends(p) \/ (/\ proc' \in [Procs -> Job] /\ Others(p)
                    /\ proc'[p].pc = "create" /\ proc'[p].c = proc[p].c)
    <2>1. CASE Finish(p)
      BY <2>1, Ending DEF TypeInv
    <2>2. CASE FreePorts # {} /\ proc' = [proc EXCEPT ![p] = k]
      BY <1>2, <2>2, Restarting DEF TypeInv, Job
    <2> QED  BY <1>3, <2>1, <2>2
  <1>5. Talks(p)
    BY <1>1, <1>4 DEF NextFreePort, Talks, Ends, Idle, WorkPcs, NewPcs, OldPcs, LoadPcs, docker, nginx
  <1>6. account' = account /\ proc'[p].pc \notin {"autoverify", "verify"}
    BY <1>4 DEF NextFreePort, Ends, Idle
  <1>7. TypeInv'
    BY <1>5, <1>6, TalksTyped DEF TypeInv, TypeOK
  <1> QED  BY <1>1, <1>4, <1>5, <1>7 DEF Room, Past, Ends, Idle
----------------------------------------------------------------------------
(* The steps that give a request an instance, and the crash.               *)

LEMMA FreeWorking ==
  ASSUME TypeInv, NEW i \in Ids
  PROVE  Working(i) = {} <=> Free(i)
  <1>1. \A p \in Procs : "i" \in DOMAIN proc[p] <=> Works(p)
    BY JobAt, JobShape DEF Works
  <1> QED  BY <1>1 DEF Working, Free

Creates(p, i) ==
  /\ i \in Ids \ spent /\ i \notin Rows /\ spent' = spent \cup {i}
  /\ proc[p].pc = "create" /\ ~Works(p) /\ proc[p].c \in Customers
  /\ proc' \in [Procs -> Job] /\ Others(p)
  /\ proc'[p].pc = "run" /\ proc'[p].i = i /\ proc'[p].op = "provision"
  /\ inst' \in [Ids -> Row \cup {NoRow}] /\ \A j \in Ids \ {i} : inst'[j] = inst[j]
  /\ inst'[i].status = "pending" /\ inst'[i].c = proc[p].c
  /\ Rows' = Rows \cup {i}
  /\ UNCHANGED <<account, container, volume, hostname, mapFile, loaded>>
  /\ mishaps \subseteq mishaps'
  /\ \/ "raced" \in mishaps'
     \/ \A r \in Procs \ {p} : proc[r].pc \in Past => proc[r].c # proc[p].c

LEMMA CreateRowTypes ==
  ASSUME TypeInv, NEW p \in Procs, CreateRow(p)
  PROVE  TypeInv' /\ ((Talks(p) /\ Room(p)) \/ \E i \in Ids : Creates(p, i))
  <1>1. proc[p].pc = "create" /\ proc[p] \in CreateJob /\ ~Works(p)
    <2>1. proc[p].pc = "create" /\ ~Works(p)
      BY DEF CreateRow, Works, WorkPcs, NewPcs, OldPcs, LoadPcs
    <2> QED  BY <2>1, JobAt, JobShape
  <1>2. CASE Finish(p) /\ UNCHANGED <<inst, spent, mishaps>>
    <2>1. Ends(p)
      BY <1>2, Ending DEF TypeInv
    <2>2. Talks(p) /\ account' = account
      BY <1>1, <1>2, <2>1
      DEF CreateRow, Talks, Ends, Idle, WorkPcs, NewPcs, OldPcs, LoadPcs, docker, nginx
    <2>3. TypeInv'
      BY <2>1, <2>2, TalksTyped DEF Ends, Idle, TypeInv, TypeOK
    <2> QED  BY <2>1, <2>2, <2>3 DEF Room, Past, Ends, Idle
  <1>3. ASSUME NEW i \in Ids \ spent,
               spent' = spent \cup {i},
               inst' = [inst EXCEPT ![i] = [status |-> "pending", c |-> proc[p].c,
                          d |-> proc[p].d, port |-> proc[p].port, cf |-> FALSE]],
               proc' = [proc EXCEPT ![p] = [pc |-> "run", i |-> i, port |-> proc[p].port,
                          op |-> "provision"]],
               Note("raced", \E r \in Procs \ {p} : proc[r].pc \in Past /\ proc[r].c = proc[p].c)
        PROVE  TypeInv' /\ Creates(p, i)
    <2> DEFINE k == [pc |-> "run", i |-> i, port |-> proc[p].port, op |-> "provision"]
               row == [status |-> "pending", c |-> proc[p].c, d |-> proc[p].d,
                       port |-> proc[p].port, cf |-> FALSE]
    <2>1. k \in Job /\ k.pc = "run" /\ k.i = i /\ k.op = "provision"
      <3>1. k \in NewJob
        BY <1>1 DEF CreateJob, NewJob, NewPcs
      <3> QED  BY <3>1 DEF Job
    <2>2. row \in Row /\ row.status = "pending" /\ row.c = proc[p].c /\ row # NoRow
      BY <1>1 DEF CreateJob, Row, NoRow
    <2>3. inst' = [inst EXCEPT ![i] = row] /\ proc' = [proc EXCEPT ![p] = k]
      BY <1>3
    <2> HIDE DEF k, row
    <2>4. proc' \in [Procs -> Job] /\ Others(p) /\ proc'[p] = k
      BY <2>1, <2>3, Restarting DEF TypeInv
    <2>5. /\ inst' \in [Ids -> Row \cup {NoRow}] /\ inst'[i] = row
          /\ \A j \in Ids \ {i} : inst'[j] = inst[j]
      BY <2>2, <2>3 DEF TypeInv, TypeOK
    <2>6. i \notin Rows /\ Rows' = Rows \cup {i}
      <3>1. i \notin Rows /\ i \in Ids
        BY <1>3 DEF TypeInv, TypeOK
      <3>2. \A j \in Ids : inst'[j] # NoRow <=> j = i \/ inst[j] # NoRow
        BY <2>2, <2>5
      <3> QED  BY <3>1, <3>2 DEF Rows
    <2>7. UNCHANGED <<account, container, volume, hostname, mapFile, loaded>>
      BY DEF CreateRow, docker, nginx
    <2>8. mishaps \subseteq mishaps' /\ mishaps' \subseteq Faults \cup Crossings
      BY <1>3, Noting DEF TypeInv, TypeOK, Crossings
    <2>9. \/ "raced" \in mishaps'
          \/ \A r \in Procs \ {p} : proc[r].pc \in Past => proc[r].c # proc[p].c
      BY <1>3 DEF Note, Fault
    <2>10. Creates(p, i)
      BY <1>1, <1>3, <2>1, <2>2, <2>4, <2>5, <2>6, <2>7, <2>8, <2>9 DEF Creates, CreateJob
    <2>11. IsFiniteSet(Rows)'
      BY <2>6, FS_AddElement DEF TypeInv
    <2>12. \A q \in Procs : proc'[q].pc \in WorkPcs => proc'[q].i \in spent'
      BY <1>3, <2>1, <2>4 DEF TypeInv, Others, Works
    <2>13. \A q \in Procs : "i" \in DOMAIN proc'[q] <=> proc'[q].pc \in WorkPcs
      BY <2>4, JobShape
    <2>14. TypeOK'
      BY <1>3, <2>5, <2>6, <2>7, <2>8, <2>12, <2>13 DEF TypeInv, TypeOK
    <2>15. \A q \in Procs : proc'[q].pc \in {"autoverify", "verify"} => proc'[q] = proc[q]
      BY <2>1, <2>4 DEF Others
    <2> QED  BY <2>4, <2>7, <2>10, <2>11, <2>12, <2>14, <2>15 DEF TypeInv, Works
  <1> QED  BY <1>2, <1>3 DEF CreateRow, Past

Begins(p, i) ==
  /\ proc[p] = Idle /\ ~Works(p) /\ i \in Rows /\ i \in Ids
  /\ proc' \in [Procs -> Job] /\ Others(p)
  /\ proc'[p].pc \in {"stop", "start", "remove"} /\ proc'[p].i = i
  /\ proc'[p].cf = inst[i].cf
  /\ \/ proc'[p].pc = "stop" /\ proc'[p].op = "suspend"
     \/ proc'[p].pc = "start" /\ proc'[p].op = "resume"
     \/ proc'[p].pc = "remove" /\ proc'[p].op = "delete"
  /\ UNCHANGED <<account, inst, spent, container, volume, hostname, mapFile, loaded>>
  /\ mishaps \subseteq mishaps' /\ ("crossed" \in mishaps' \/ Free(i))

LEMMA LifecycleBeginTypes ==
  ASSUME TypeInv, NEW p \in Procs, NEW i \in Ids, NEW op \in DOMAIN FirstStep,
         LifecycleBegin(p, i, op)
  PROVE  TypeInv' /\ Begins(p, i)
  <1> DEFINE k == [pc |-> FirstStep[op], i |-> i, op |-> op, port |-> inst[i].port,
                   cf |-> inst[i].cf]
  <1>1. i \in Rows /\ inst[i] \in Row /\ i \in spent
    BY RowShape DEF LifecycleBegin, TypeInv, TypeOK
  <1>2. op \in Ops \ {"provision"} /\ FirstStep[op] \in {"stop", "start", "remove"}
        /\ \/ FirstStep[op] = "stop" /\ op = "suspend"
           \/ FirstStep[op] = "start" /\ op = "resume"
           \/ FirstStep[op] = "remove" /\ op = "delete"
    BY DEF FirstStep, Ops
  <1>3. k \in Job /\ k.pc = FirstStep[op] /\ k.i = i /\ k.op = op /\ k.cf = inst[i].cf
    <2>1. k \in OldJob
      BY <1>1, <1>2 DEF OldJob, OldPcs, Row
    <2> QED  BY <2>1 DEF Job
  <1>4. proc[p] = Idle /\ proc' = [proc EXCEPT ![p] = k]
    BY DEF LifecycleBegin
  <1> HIDE DEF k
  <1>5. proc' \in [Procs -> Job] /\ Others(p) /\ proc'[p] = k
    BY <1>3, <1>4, Restarting DEF TypeInv
  <1>6. UNCHANGED <<account, inst, spent, container, volume, hostname, mapFile, loaded>>
    BY DEF LifecycleBegin, docker, nginx
  <1>7. Note("crossed", Working(i) # {})
    BY DEF LifecycleBegin
  <1>8. mishaps \subseteq mishaps' /\ mishaps' \subseteq Faults \cup Crossings
    BY <1>7, Noting DEF TypeInv, TypeOK, Crossings
  <1>9. Begins(p, i)
    <2>1. "crossed" \in mishaps' \/ Free(i)
      BY <1>7, FreeWorking DEF Note, Fault
    <2> QED  BY <1>1, <1>2, <1>3, <1>4, <1>5, <1>6, <1>8, <2>1
             DEF Begins, Works, Idle, WorkPcs, NewPcs, OldPcs, LoadPcs
  <1>10. Rows' = Rows
    BY <1>6 DEF Rows
  <1>11. \A q \in Procs : proc'[q].pc \in WorkPcs => proc'[q].i \in spent'
    BY <1>1, <1>3, <1>5, <1>6 DEF TypeInv, Others, Works
  <1>12. \A q \in Procs : "i" \in DOMAIN proc'[q] <=> proc'[q].pc \in WorkPcs
    BY <1>5, JobShape
  <1>13. TypeOK'
    BY <1>6, <1>8, <1>10, <1>11, <1>12 DEF TypeInv, TypeOK
  <1>14. \A q \in Procs : proc'[q].pc \in {"autoverify", "verify"} => proc'[q] = proc[q]
    BY <1>2, <1>3, <1>5 DEF Others
  <1> QED  BY <1>5, <1>6, <1>9, <1>10, <1>11, <1>13, <1>14 DEF TypeInv, Works

LEMMA CrashTypes ==
  ASSUME TypeInv, Crash
  PROVE  /\ TypeInv' /\ \A p \in Procs : proc'[p] = Idle
         /\ UNCHANGED <<inst, container, volume, hostname, mapFile, loaded>>
         /\ mishaps' = mishaps \cup {"crash"}
  <1>1. proc' \in [Procs -> Job] /\ \A p \in Procs : proc'[p] = Idle
    BY DEF Crash, Job
  <1>2. UNCHANGED <<account, inst, spent, container, volume, hostname, mapFile, loaded>>
    BY DEF Crash, docker, nginx
  <1>3. mishaps' = mishaps \cup {"crash"} /\ mishaps' \subseteq Faults \cup Crossings
    BY DEF Crash, Fault, TypeInv, TypeOK, Faults
  <1>4. Rows' = Rows
    BY <1>2 DEF Rows
  <1>5. TypeOK'
    BY <1>1, <1>2, <1>3, <1>4 DEF TypeInv, TypeOK, Idle
  <1> QED  BY <1>1, <1>2, <1>3, <1>4, <1>5
           DEF TypeInv, Works, Idle, WorkPcs, NewPcs, OldPcs, LoadPcs

(* The steps in which a request works on its instance.                     *)
Worker(p) ==
  \/ RunContainer(p) \/ SetUpTenant(p) \/ CreateHostname(p)
  \/ RollbackContainer(p) \/ RollbackRow(p)
  \/ StopContainer(p) \/ StartContainer(p) \/ AwaitHealth(p)
  \/ RemoveContainer(p) \/ EraseVolume(p) \/ DeleteHostname(p)
  \/ UpdateStatus(p) \/ ListActive(p) \/ WriteMap(p) \/ ReloadNginx(p)

LEMMA WorkerTypes ==
  ASSUME TypeInv, NEW p \in Procs, Worker(p)
  PROVE  TypeInv' /\ Touches(p)
  BY RunContainerTypes, SetUpTenantTypes, CreateHostnameTypes, RollbackContainerTypes,
     RollbackRowTypes, StopContainerTypes, StartContainerTypes, AwaitHealthTypes,
     RemoveContainerTypes, EraseVolumeTypes, DeleteHostnameTypes, UpdateStatusTypes,
     ListActiveTypes, WriteMapTypes, ReloadNginxTypes DEF Worker

(* A step is one of these, and the types hold after it.                    *)
LEMMA StepKinds ==
  ASSUME TypeInv, [Next]_vars
  PROVE  /\ TypeInv'
         /\ \/ UNCHANGED vars
            \/ Crash
            \/ \E p \in Procs :
                 \/ Talks(p) /\ Room(p)
                 \/ \E i \in Ids : Creates(p, i) \/ Begins(p, i)
                 \/ Worker(p)
  <1>1. CASE UNCHANGED vars
    <2>1. UNCHANGED <<account, inst, spent, container, volume, hostname, mapFile, loaded, proc,
                      mishaps>>
      BY <1>1 DEF vars
    <2>2. Rows' = Rows
      BY <2>1 DEF Rows
    <2>3. TypeOK'
      BY <2>1, <2>2 DEF TypeInv, TypeOK
    <2> QED  BY <1>1, <2>1, <2>2, <2>3 DEF TypeInv, Works
  <1>2. CASE Crash
    BY <1>2, CrashTypes
  <1>3. ASSUME NEW p \in Procs, Begin(p)
        PROVE  TypeInv' /\ ((Talks(p) /\ Room(p)) \/ \E i \in Ids : Begins(p, i))
    BY <1>3, SignupBeginTypes, VerifyBeginTypes, ProvisionBeginTypes, LifecycleBeginTypes
    DEF Begin
  <1>4. ASSUME NEW p \in Procs, Step(p)
        PROVE  TypeInv' /\ ((Talks(p) /\ Room(p)) \/ (\E i \in Ids : Creates(p, i)) \/ Worker(p))
    BY <1>4, SignupCreateTypes, SignupAutoVerifyTypes, VerifyUpdateTypes, VerifyHasInstanceTypes,
       CheckDuplicateTypes, CheckPerCustomerTypes, CheckCapacityTypes, NextFreePortTypes,
       CreateRowTypes, WorkerTypes DEF Step, Worker
  <1> QED  BY <1>1, <1>2, <1>3, <1>4 DEF Next
----------------------------------------------------------------------------
(* Requests for one instance that do not cross are alone on it, and its    *)
(* row is there.                                                           *)

LEMMA Remembered ==
  ASSUME TypeInv, [Next]_vars
  PROVE  mishaps \subseteq mishaps'
  BY StepKinds, CrashTypes, WorkerTypes DEF Talks, Creates, Begins, Touches, vars

LEMMA WithoutBefore ==
  ASSUME TypeInv, [Next]_vars, NEW kinds, Without(kinds)'
  PROVE  Without(kinds)
  BY Remembered DEF Without

LEMMA WorkerRows ==
  ASSUME TypeInv, NEW p \in Procs, Worker(p)
  PROVE  Rows' = Rows \/ (RollbackRow(p) /\ proc'[p] = Idle /\ Rows' = Rows \ {proc[p].i})
  <1>1. CASE RollbackRow(p)
    <2>1. proc'[p] = Idle /\ proc[p].i \in Ids
      BY <1>1, RollbackRowTypes DEF Ends, Touches
    <2>2. \A j \in Ids : inst'[j] # NoRow <=> inst[j] # NoRow /\ j # proc[p].i
      BY <1>1, <2>1 DEF RollbackRow, TypeInv, TypeOK
    <2> QED  BY <1>1, <2>1, <2>2 DEF Rows
  <1>2. CASE UpdateStatus(p)
    BY <1>2, UpdateStatusTypes
  <1>3. CASE ~RollbackRow(p) /\ ~UpdateStatus(p)
    <2>1. inst' = inst
      BY <1>3 DEF Worker, RunContainer, SetUpTenant, CreateHostname, RollbackContainer,
         StopContainer, StartContainer, AwaitHealth, RemoveContainer, EraseVolume,
         DeleteHostname, ListActive, WriteMap, ReloadNginx
    <2> QED  BY <2>1 DEF Rows
  <1> QED  BY <1>1, <1>2, <1>3

LEMMA SoloKept ==
  ASSUME TypeInv, Solo, [Next]_vars, Without({"crossed"})'
  PROVE  Solo'
  <1>1. CASE UNCHANGED vars
    BY <1>1 DEF vars, Solo, Works, Rows
  <1>2. CASE Crash
    BY <1>2, CrashTypes DEF Solo, Works, Idle, WorkPcs, NewPcs, OldPcs, LoadPcs
  <1>3. ASSUME NEW p \in Procs, Talks(p) PROVE Solo'
    <2>1. \A q \in Procs : proc'[q].pc \in WorkPcs => q # p /\ proc'[q] = proc[q]
      BY <1>3 DEF Talks, Others
    <2>2. Rows' = Rows
      BY <1>3 DEF Talks, Rows
    <2> QED  BY <2>1, <2>2 DEF Solo, Works
  <1>4. ASSUME NEW p \in Procs, NEW i \in Ids, Creates(p, i) PROVE Solo'
    <2>1. \A q \in Procs \ {p} : proc'[q] = proc[q] /\ (proc'[q].pc \in WorkPcs => proc[q].i # i)
      BY <1>4 DEF Creates, Others, TypeInv, Works
    <2> QED  BY <1>4, <2>1 DEF Creates, Solo, Works
  <1>5. ASSUME NEW p \in Procs, NEW i \in Ids, Begins(p, i) PROVE Solo'
    <2>1. Free(i)
      BY <1>5 DEF Begins, Without
    <2>2. \A q \in Procs \ {p} : proc'[q] = proc[q] /\ (proc'[q].pc \in WorkPcs => proc[q].i # i)
      BY <1>5, <2>1 DEF Begins, Others, Free, Works
    <2>3. Rows' = Rows
      BY <1>5 DEF Begins, Rows
    <2> QED  BY <1>5, <2>2, <2>3 DEF Begins, Solo, Works
  <1>6. ASSUME NEW p \in Procs, Worker(p) PROVE Solo'
    <2>1. Touches(p)
      BY <1>6, WorkerTypes
    <2>2. \A q \in Procs : proc'[q].pc \in WorkPcs => proc[q].pc \in WorkPcs /\ proc'[q].i = proc[q].i
      BY <2>1 DEF Touches, Works, Kept, Idle, WorkPcs, NewPcs, OldPcs, LoadPcs
    <2>3. CASE Rows' = Rows
      BY <2>2, <2>3 DEF Solo, Works
    <2>4. CASE proc'[p] = Idle /\ Rows' = Rows \ {proc[p].i}
      <3>1. proc'[p].pc \notin WorkPcs
        BY <2>4 DEF Idle, WorkPcs, NewPcs, OldPcs, LoadPcs
      <3> QED  BY <2>1, <2>2, <2>4, <3>1 DEF Solo, Works, Touches
    <2> QED  BY <1>6, <2>3, <2>4, WorkerRows
  <1> QED  BY <1>1, <1>2, <1>3, <1>4, <1>5, <1>6, StepKinds
----------------------------------------------------------------------------
(* An instance's status, and the requests on it.                           *)

StatusKinds == {"crossed", "revived", "rm", "cf", "slow", "crash"}

(* Requests on other instances see and disturb nothing of this one.        *)
LEMMA StatusFrame ==
  ASSUME TypeInv, TypeInv', Solo, StatusSound,
         NEW p \in Procs, Touches(p), NEW j \in Ids, j = proc[p].i,
         proc'[p].pc \in WorkPcs => StatusAt(p, j)',
         proc'[p] = Idle /\ j \in Rows' => Proper(j)' /\ Named(j)'
  PROVE  StatusSound'
  <1>1. \A i \in Ids \ {j} : /\ i \in Rows' <=> i \in Rows
                             /\ Proper(i) => Proper(i)'
                             /\ Named(i) => Named(i)'
    BY DEF Touches, Elsewhere, Rows, Proper, Named
  <1>2. ASSUME NEW q \in Procs, Works(q)' PROVE \A i \in Ids : i = proc'[q].i => StatusAt(q, i)'
    <2>1. CASE q = p
      <3>1. proc'[p].pc \in WorkPcs /\ proc'[p].i = j
        BY <1>2, <2>1 DEF Touches, Works, Idle, WorkPcs, NewPcs, OldPcs, LoadPcs
      <3> QED  BY <2>1, <3>1
    <2>2. CASE q # p
      <3>1. Works(q) /\ proc'[q].i = proc[q].i
        BY <1>2, <2>2 DEF Touches, Kept, Works
      <3>2. proc[q].i # j /\ proc[q].i \in Ids
        BY <2>2, <3>1, JobAt DEF Solo, Touches
      <3>3. PICK i \in Ids : i = proc[q].i /\ i # j
        BY <3>2
      <3>4. StatusAt(q, i)
        BY <3>1, <3>3 DEF StatusSound
      <3>5. /\ container'[i] = container[i] /\ (i \in volume' <=> i \in volume)
            /\ (i \in hostname' <=> i \in hostname)
        BY <3>3 DEF Touches, Elsewhere
      <3>6. CASE proc'[q] = proc[q]
        <4>1. StatusAt(q, i)'
          BY <1>1, <3>3, <3>4, <3>5, <3>6 DEF StatusAt
        <4> QED  BY <3>1, <3>3, <4>1
      <3>7. CASE proc[q].pc = "write" /\ proc'[q].pc = "write"
        <4>1. StatusAt(q, i)'
          BY <1>1, <3>3, <3>4, <3>7 DEF StatusAt
        <4> QED  BY <3>1, <3>3, <4>1
      <3> QED  BY <2>2, <3>6, <3>7 DEF Touches, Kept
    <2> QED  BY <2>1, <2>2
  <1>3. ASSUME NEW i \in Ids, i \in Rows', Free(i)' PROVE Proper(i)' /\ Named(i)'
    <2>1. CASE i = j
      BY <1>3, <2>1 DEF Free, Works, Touches
    <2>2. CASE i # j
      <3>1. Free(i)
        <4> SUFFICES ASSUME NEW q \in Procs, Works(q) PROVE proc[q].i # i
          BY DEF Free
        <4>1. CASE q = p
          BY <2>2, <4>1
        <4>2. CASE q # p
          BY <1>3, <4>2 DEF Free, Works, Touches, Kept
        <4> QED  BY <4>1, <4>2
      <3> QED  BY <1>1, <1>3, <2>2, <3>1 DEF StatusSound
    <2> QED  BY <2>1, <2>2
  <1>4. \A q \in Procs : Works(q)' => proc'[q].i \in Ids
    BY JobAt, JobShape DEF TypeInv, Works
  <1> QED  BY <1>2, <1>3, <1>4 DEF StatusSound, Rows

(* What a working request finds, if the requests on it do not cross.       *)
LEMMA StatusFound ==
  ASSUME TypeInv, Solo, StatusSound, NEW p \in Procs, Works(p)
  PROVE  \E j \in Ids : j = proc[p].i /\ j \in Rows /\ StatusAt(p, j)
  BY JobAt DEF Solo, StatusSound

LEMMA WorkerStatus ==
  ASSUME TypeInv, Solo, StatusSound, Without(StatusKinds)', NEW p \in Procs, Worker(p)
  PROVE  StatusSound'
  <1>1. TypeInv' /\ Touches(p)
    BY WorkerTypes
  <1>2. PICK j \in Ids : j = proc[p].i /\ j \in Rows /\ StatusAt(p, j)
    BY <1>1, StatusFound DEF Touches
  <1>3. SUFFICES ASSUME TRUE
                 PROVE  /\ proc'[p].pc \in WorkPcs => StatusAt(p, j)'
                        /\ proc'[p] = Idle /\ j \in Rows' => Proper(j)' /\ Named(j)'
    BY <1>1, <1>2, StatusFrame
  <1>4. \A l : /\ Moves(p, l) => /\ proc'[p].pc = l /\ proc'[p].op = proc[p].op
                                 /\ proc'[p] # Idle \/ l = "idle"
                                 /\ proc[p] \in OldJob => proc'[p].cf = proc[p].cf
               /\ Ends(p) => proc'[p] = Idle /\ proc'[p].pc \notin WorkPcs
    BY <1>1 DEF Moves, Ends, Touches, Idle, WorkPcs, NewPcs, OldPcs, LoadPcs
  <1>5. j \in Rows /\ j \in spent /\ inst[j] \in Row /\ container \in [Ids -> {"none", "running", "stopped"}]
    BY <1>2, RowShape DEF TypeInv, TypeOK
  <1>6. CASE RunContainer(p)
    <2>1. /\ proc'[p].pc \in {"health", "rollback"} /\ proc'[p].op = "provision"
          /\ proc'[p] # Idle
      <3>1. proc[p].op = "provision"
        BY <1>6, JobAt, JobShape DEF RunContainer, NewJob
      <3> QED  BY <1>4, <1>6, <3>1, RunContainerTypes
    <2> QED  BY <2>1 DEF StatusAt
  <1>7. CASE SetUpTenant(p)
    <2>1. \/ proc'[p].pc = "hostname" /\ container'[j] = "running"
          \/ proc'[p].pc = "rollback"
      <3>1. proc[p] \in NewJob
        BY <1>7, JobAt, JobShape DEF SetUpTenant, OldJob
      <3>2. /\ Goto(p, "hostname") => Moves(p, "hostname")
            /\ Goto(p, "rollback") => Moves(p, "rollback")
        BY <3>1, Going DEF TypeInv, NewPcs
      <3> QED  BY <1>2, <1>4, <1>7, <3>2 DEF SetUpTenant, docker
    <2>2. proc'[p] # Idle
      BY <2>1 DEF Idle
    <2> QED  BY <2>1, <2>2 DEF StatusAt
  <1>8. CASE CreateHostname(p)
    <2>1. proc'[p].pc = "update" /\ proc'[p].op = "provision" /\ proc[p].op = "provision"
      <3>1. proc[p].op = "provision"
        BY <1>8, JobAt, JobShape DEF CreateHostname, NewJob
      <3> QED  BY <1>4, <1>8, <3>1, CreateHostnameTypes
    <2>2. container'[j] = "running"
      BY <1>2, <1>8, <2>1 DEF StatusAt, CreateHostname, docker
    <2> QED  BY <2>1, <2>2 DEF StatusAt, Idle
  <1>9. CASE RollbackContainer(p)
    <2>1. proc'[p].pc = "droprow"
      BY <1>4, <1>9, RollbackContainerTypes
    <2> QED  BY <2>1 DEF StatusAt, Idle
  <1>10. CASE RollbackRow(p)
    <2>1. proc'[p] = Idle /\ proc'[p].pc \notin WorkPcs
      BY <1>4, <1>10, RollbackRowTypes
    <2>2. j \notin Rows'
      BY <1>2, <1>10 DEF RollbackRow, Rows, TypeInv, TypeOK
    <2> QED  BY <2>1, <2>2
  <1>11. CASE StopContainer(p)
    <2>1. proc'[p].pc = "update" /\ proc'[p].op = "suspend"
      BY <1>2, <1>4, <1>11, StopContainerTypes DEF StatusAt, StopContainer
    <2>2. container'[j] # "running"
      BY <1>2, <1>5, <1>11 DEF StopContainer, Fault, Without, StatusKinds
    <2>3. Named(j)'
      BY <1>2, <1>11 DEF StatusAt, StopContainer, Named
    <2> QED  BY <2>1, <2>2, <2>3 DEF StatusAt, Idle
  <1>12. CASE StartContainer(p)
    <2>1. proc'[p].pc = "health" /\ proc'[p].op = "resume"
      BY <1>2, <1>4, <1>12, StartContainerTypes DEF StatusAt, StartContainer
    <2>2. container'[j] = container[j] \/ container'[j] = "running"
      BY <1>2, <1>5, <1>12 DEF StartContainer
    <2>3. Named(j)' /\ (container'[j] = container[j] => Proper(j)')
      BY <1>2, <1>12 DEF StatusAt, StartContainer, Named, Proper
    <2> QED  BY <2>1, <2>2, <2>3 DEF StatusAt, Idle
  <1>13. CASE AwaitHealth(p)
    <2>1. /\ \/ Moves(p, "update") /\ container[j] = "running"
             \/ Ends(p) /\ container[j] # "running"
          /\ proc[p].op = "resume"
      <3>1. TypeInv /\ proc[p] \in OldJob
        BY <1>13, JobAt, JobShape DEF AwaitHealth, NewJob
      <3> QED  BY <1>2, <1>13, <3>1, Going, Ending
               DEF AwaitHealth, Fault, Without, StatusKinds, OldPcs, TypeInv
    <2>2. Named(j)' /\ (container[j] = "running" \/ Proper(j)') /\ container' = container
      BY <1>2, <1>13, <2>1 DEF AwaitHealth, docker, StatusAt, Named, Proper
    <2> QED  BY <1>4, <2>1, <2>2 DEF StatusAt, Idle
  <1>14. CASE RemoveContainer(p)
    <2>1. proc'[p].pc = "erase" /\ proc'[p].op = "delete" /\ proc'[p].cf = proc[p].cf
      BY <1>2, <1>4, <1>14, RemoveContainerTypes, JobAt, JobShape DEF StatusAt, RemoveContainer
    <2>2. container'[j] = "none" /\ hostname' = hostname
      BY <1>2, <1>5, <1>14 DEF RemoveContainer, Fault, Without, StatusKinds
    <2>3. j \in hostname => proc[p].cf
      BY <1>2, <1>14 DEF RemoveContainer, StatusAt
    <2> QED  BY <2>1, <2>2, <2>3 DEF StatusAt, Idle
  <1>15. CASE EraseVolume(p)
    <2>1. proc'[p].pc = "unregister" /\ proc'[p].op = "delete" /\ proc'[p].cf = proc[p].cf
      BY <1>2, <1>4, <1>15, EraseVolumeTypes, JobAt, JobShape DEF StatusAt, EraseVolume
    <2>2. container'[j] = "none" /\ hostname' = hostname /\ j \notin volume'
      BY <1>2, <1>5, <1>15 DEF EraseVolume, Fault, Without, StatusKinds, StatusAt
    <2>3. j \in hostname => proc[p].cf
      BY <1>2, <1>15 DEF EraseVolume, StatusAt
    <2> QED  BY <2>1, <2>2, <2>3 DEF StatusAt, Idle
  <1>16. CASE DeleteHostname(p)
    <2>1. proc'[p].pc = "update" /\ proc'[p].op = "delete"
      BY <1>2, <1>4, <1>16, DeleteHostnameTypes DEF StatusAt, DeleteHostname
    <2>2. container'[j] = "none" /\ j \notin volume'
      BY <1>2, <1>16 DEF DeleteHostname, docker, StatusAt
    <2>3. j \notin hostname'
      BY <1>2, <1>16 DEF DeleteHostname, StatusAt, Fault, Without, StatusKinds
    <2> QED  BY <2>1, <2>2, <2>3 DEF StatusAt, Idle
  <1>17. CASE UpdateStatus(p)
    <2>1. /\ proc'[p].pc = "list" /\ proc[p].pc = "update" /\ proc[p].op \in Ops
          /\ inst'[j].status = StatusAfter[proc[p].op]
          /\ proc[p].op = "provision" => (j \in hostname => inst'[j].cf)
          /\ proc[p].op # "provision" => inst'[j].cf = inst[j].cf
      BY <1>1, <1>2, <1>4, <1>17, UpdateStatusTypes, JobAt DEF UpdateStatus, Touches
    <2>2. container' = container /\ volume' = volume /\ hostname' = hostname
      BY <1>17 DEF UpdateStatus, docker
    <2>3. Proper(j)' /\ Named(j)'
      <3>1. CASE proc[p].op = "provision"
        <4>1. inst'[j].status = "active" /\ container'[j] = "running"
          BY <1>2, <2>1, <2>2, <3>1 DEF StatusAt, StatusAfter
        <4> QED  BY <2>1, <2>2, <3>1, <4>1 DEF Proper, Named
      <3>2. CASE proc[p].op = "resume"
        <4>1. inst'[j].status = "active" /\ container'[j] = "running" /\ Named(j)
          BY <1>2, <2>1, <2>2, <3>2 DEF StatusAt, StatusAfter
        <4> QED  BY <2>1, <2>2, <3>2, <4>1 DEF Proper, Named
      <3>3. CASE proc[p].op = "suspend"
        <4>1. inst'[j].status = "suspended" /\ container'[j] # "running" /\ Named(j)
          BY <1>2, <2>1, <2>2, <3>3 DEF StatusAt, StatusAfter
        <4> QED  BY <2>1, <2>2, <3>3, <4>1 DEF Proper, Named
      <3>4. CASE proc[p].op = "delete"
        <4>1. /\ inst'[j].status = "deleted" /\ container'[j] = "none"
              /\ j \notin volume' \cup hostname'
          BY <1>2, <2>1, <2>2, <3>4 DEF StatusAt, StatusAfter
        <4> QED  BY <2>1, <2>2, <3>4, <4>1 DEF Proper, Named
      <3> QED  BY <2>1, <3>1, <3>2, <3>3, <3>4 DEF Ops
    <2> QED  BY <2>1, <2>3 DEF StatusAt, Idle
  <1>18. CASE ListActive(p)
    <2>1. proc'[p].pc = "write" /\ UNCHANGED <<inst, container, volume, hostname>>
      BY <1>18, ListActiveTypes DEF ListActive, docker
    <2>2. Proper(j)' /\ Named(j)'
      BY <1>2, <1>18, <2>1 DEF ListActive, StatusAt, Proper, Named
    <2> QED  BY <2>1, <2>2 DEF StatusAt, Idle
  <1>19. CASE WriteMap(p)
    <2>1. proc'[p].pc = "reload" /\ UNCHANGED <<inst, container, volume, hostname>>
      BY <1>19, WriteMapTypes DEF WriteMap, docker
    <2>2. Proper(j)' /\ Named(j)'
      BY <1>2, <1>19, <2>1 DEF WriteMap, StatusAt, Proper, Named
    <2> QED  BY <2>1, <2>2 DEF StatusAt, Idle
  <1>20. CASE ReloadNginx(p)
    <2>1. proc'[p] = Idle \/ proc'[p].pc = "rollback"
      BY <1>4, <1>20, ReloadNginxTypes
    <2>2. UNCHANGED <<inst, container, volume, hostname>>
      BY <1>20 DEF ReloadNginx, docker
    <2>3. Proper(j)' /\ Named(j)'
      BY <1>2, <1>20, <2>2 DEF ReloadNginx, StatusAt, Proper, Named
    <2> QED  BY <2>1, <2>3 DEF StatusAt, Idle, WorkPcs, NewPcs, OldPcs, LoadPcs
  <1> QED  BY <1>6, <1>7, <1>8, <1>9, <1>10, <1>11, <1>12, <1>13, <1>14, <1>15, <1>16, <1>17,
              <1>18, <1>19, <1>20 DEF Worker

LEMMA StatusKept ==
  ASSUME TypeInv, Solo, StatusSound, [Next]_vars, Without(StatusKinds)'
  PROVE  StatusSound'
  <1>1. CASE UNCHANGED vars
    BY <1>1 DEF vars, StatusSound, StatusAt, Proper, Named, Free, Works, Rows
  <1>2. CASE Crash
    BY <1>2, CrashTypes DEF Without, StatusKinds
  <1>3. ASSUME NEW p \in Procs, ~Works(p), Others(p), NEW j \in Ids,
               UNCHANGED <<container, volume, hostname>>,
               \A i \in Ids \ {j} : inst'[i] = inst[i],
               \A q \in Procs \ {p} : Works(q) => proc[q].i # j,
               \A i \in Ids : Free(i)' => Free(i) /\ i # j,
               proc'[p].pc \in WorkPcs => proc'[p].i = j /\ StatusAt(p, j)'
        PROVE  StatusSound'
    <2>1. \A i \in Ids \ {j} : /\ i \in Rows' <=> i \in Rows
                               /\ Proper(i) => Proper(i)'
                               /\ Named(i) => Named(i)'
      BY <1>3 DEF Rows, Proper, Named
    <2>2. ASSUME NEW q \in Procs, NEW i \in Ids, Works(q)', i = proc'[q].i PROVE StatusAt(q, i)'
      <3>1. CASE q = p
        BY <1>3, <2>2, <3>1 DEF Works
      <3>2. CASE q # p
        <4>1. proc'[q] = proc[q] /\ Works(q) /\ i # j /\ i = proc[q].i
          BY <1>3, <2>2, <3>2 DEF Works, Others
        <4>2. StatusAt(q, i)
          BY <4>1 DEF StatusSound
        <4> QED  BY <1>3, <2>1, <4>1, <4>2 DEF StatusAt
      <3> QED  BY <3>1, <3>2
    <2>3. \A i \in Ids : i \in Rows' /\ Free(i)' => Proper(i)' /\ Named(i)'
      BY <1>3, <2>1 DEF StatusSound
    <2>4. \A q \in Procs : Works(q)' => proc'[q].i \in Ids
      BY StepKinds, JobShape DEF TypeInv, Works
    <2> QED  BY <2>2, <2>3, <2>4 DEF StatusSound, Rows
  <1>4. ASSUME NEW p \in Procs, Talks(p) PROVE StatusSound'
    <2>1. /\ ~Works(p) /\ Others(p) /\ proc'[p].pc \notin WorkPcs
          /\ UNCHANGED <<inst, container, volume, hostname>>
      BY <1>4 DEF Talks
    <2>2. /\ \A q \in Procs : Works(q)' <=> Works(q)
          /\ \A q \in Procs : Works(q) => proc'[q] = proc[q]
      BY <2>1 DEF Works, Others
    <2>3. \A i : Free(i)' => Free(i)
      BY <2>2 DEF Free
    <2>4. \A i \in Ids : /\ Proper(i) => Proper(i)'
                         /\ Named(i) => Named(i)'
      BY <2>1 DEF Proper, Named
    <2>5. ASSUME NEW q \in Procs, NEW i \in Ids, Works(q)', i = proc'[q].i PROVE StatusAt(q, i)'
      <3>1. StatusAt(q, i) /\ proc'[q] = proc[q]
        BY <2>2, <2>5 DEF StatusSound
      <3> QED  BY <2>1, <2>4, <3>1 DEF StatusAt
    <2>6. \A q \in Procs : Works(q)' => proc'[q].i \in Ids
      BY StepKinds, JobShape DEF TypeInv, Works
    <2>7. Rows' = Rows /\ Rows \subseteq Ids
      BY <2>1 DEF Rows
    <2> QED  BY <2>3, <2>4, <2>5, <2>6, <2>7 DEF StatusSound
  <1>5. ASSUME NEW p \in Procs, NEW i \in Ids, Creates(p, i) PROVE StatusSound'
    <2>1. \A q \in Procs \ {p} : Works(q) => proc[q].i # i
      BY <1>5 DEF Creates, TypeInv
    <2>2. \A k \in Ids : Free(k)' => Free(k) /\ k # i
      BY <1>5, <2>1 DEF Creates, Free, Works, Others, WorkPcs, NewPcs
    <2>3. proc'[p].i = i /\ StatusAt(p, i)'
      BY <1>5 DEF Creates, StatusAt
    <2> QED  BY <1>3, <1>5, <2>1, <2>2, <2>3 DEF Creates
  <1>6. ASSUME NEW p \in Procs, NEW i \in Ids, Begins(p, i) PROVE StatusSound'
    <2>1. Free(i) /\ i \in Rows
      BY <1>6 DEF Begins, Without, StatusKinds
    <2>2. \A k \in Ids : Free(k)' => Free(k) /\ k # i
      BY <1>6 DEF Begins, Free, Works, Others, WorkPcs, OldPcs
    <2>3. Proper(i) /\ Named(i)
      BY <2>1 DEF StatusSound
    <2>4. Proper(i)' /\ Named(i)' /\ (i \in hostname' => proc'[p].cf)
      BY <1>6, <2>3 DEF Begins, Proper, Named
    <2>5. proc'[p].i = i /\ StatusAt(p, i)'
      BY <1>6, <2>4 DEF Begins, StatusAt
    <2> QED  BY <1>3, <1>6, <2>1, <2>2, <2>5 DEF Begins, Free
  <1> QED  BY <1>1, <1>2, <1>4, <1>5, <1>6, StepKinds, WorkerStatus
----------------------------------------------------------------------------
(* What a failed provisioning leaves.                                      *)

FailedKinds == {"crossed", "rm", "reload"}

(* The pc's at which a request can still be rolled back.                   *)
LEMMA EarlyShape ==
  ASSUME TypeInv, NEW p \in Procs
  PROVE  /\ Early(p) \/ proc[p].pc = "hostname" => Works(p)
         /\ proc[p].pc = "droprow" => Early(p)
         /\ proc[p] \in OldJob => ~Early(p) /\ proc[p].op # "provision"
  BY DEF Early, Works, WorkPcs, NewPcs, LoadPcs, OldJob, OldPcs, Ops

LEMMA FailedFrame ==
  ASSUME TypeInv, Solo, FailedSound,
         NEW p \in Procs, Touches(p), NEW j \in Ids, j = proc[p].i,
         Early(p)' \/ proc'[p].pc = "hostname" => j \notin hostname',
         proc'[p].pc = "droprow" => container'[j] = "none",
         j \notin Rows' => container'[j] = "none" /\ j \notin hostname'
  PROVE  FailedSound'
  <1>1. \A i \in Ids \ {j} : /\ i \in Rows' <=> i \in Rows
                             /\ container'[i] = container[i]
                             /\ i \in hostname' <=> i \in hostname
    BY DEF Touches, Elsewhere, Rows
  <1>2. \A q \in Procs \ {p} :
          \/ proc'[q] = proc[q] /\ (Works(q) => proc[q].i \in Ids \ {j})
          \/ ~Early(q)' /\ proc'[q].pc \notin {"hostname", "droprow"}
    BY JobAt DEF Touches, Kept, Solo, Early
  <1>3. proc'[p] = Idle \/ proc'[p].i = j
    BY DEF Touches
  <1>4. Early(p)' \/ proc'[p].pc \in {"hostname", "droprow"} => proc'[p] # Idle
    BY DEF Early, Idle
  <1>5. \A q \in Procs : Early(q)' \/ proc'[q].pc = "hostname" => proc'[q].i \notin hostname'
    <2> TAKE q \in Procs
    <2>1. CASE q = p
      BY <1>3, <1>4, <2>1
    <2>2. CASE q # p /\ proc'[q] = proc[q] /\ (Works(q) => proc[q].i \in Ids \ {j})
      <3>1. Early(q)' => Early(q)
        BY <2>2 DEF Early
      <3> QED  BY <1>1, <2>2, <3>1, EarlyShape DEF FailedSound
    <2> QED  BY <1>2, <2>1, <2>2
  <1>6. \A q \in Procs : proc'[q].pc = "droprow" => container'[proc'[q].i] = "none"
    <2> TAKE q \in Procs
    <2>1. CASE q = p
      BY <1>3, <1>4, <2>1
    <2>2. CASE q # p /\ proc'[q] = proc[q] /\ (Works(q) => proc[q].i \in Ids \ {j})
      BY <1>1, <2>2, EarlyShape DEF FailedSound
    <2> QED  BY <1>2, <2>1, <2>2
  <1>7. \A i \in Ids \ Rows' : container'[i] = "none" /\ i \notin hostname'
    BY <1>1 DEF FailedSound
  <1> QED  BY <1>5, <1>6, <1>7 DEF FailedSound

LEMMA WorkerFailed ==
  ASSUME TypeInv, Solo, FailedSound, Without(FailedKinds)', NEW p \in Procs, Worker(p)
  PROVE  FailedSound'
  <1>1. TypeInv' /\ Touches(p)
    BY WorkerTypes
  <1>2. PICK j \in Ids : j = proc[p].i /\ j \in Rows
    BY <1>1, JobAt DEF Touches, Solo
  <1>3. SUFFICES ASSUME TRUE
                 PROVE  /\ Early(p)' \/ proc'[p].pc = "hostname" => j \notin hostname'
                        /\ proc'[p].pc = "droprow" => container'[j] = "none"
                        /\ j \notin Rows' => container'[j] = "none" /\ j \notin hostname'
    BY <1>1, <1>2, FailedFrame
  <1>4. Early(p) \/ proc[p].pc = "hostname" => j \notin hostname
    BY <1>2 DEF FailedSound
  <1>5. proc[p].pc = "droprow" => container[j] = "none" /\ j \notin hostname
    BY <1>2, EarlyShape DEF FailedSound
  <1>6. ~RollbackRow(p) => j \in Rows'
    BY <1>2, WorkerRows
  <1>7. ASSUME proc'[p].pc \notin {"run", "rollback", "droprow", "hostname"},
               proc'[p].pc = "health" => proc'[p].op # "provision", ~RollbackRow(p)
        PROVE  /\ Early(p)' \/ proc'[p].pc = "hostname" => j \notin hostname'
               /\ proc'[p].pc = "droprow" => container'[j] = "none"
               /\ j \notin Rows' => container'[j] = "none" /\ j \notin hostname'
    BY <1>6, <1>7 DEF Early
  <1>8. Idle.pc = "idle"
    BY DEF Idle
  <1>9. CASE RunContainer(p) \/ SetUpTenant(p)
    <2>1. Early(p) /\ hostname' = hostname
      BY <1>9 DEF Early, RunContainer, SetUpTenant
    <2>2. proc'[p].pc # "droprow" /\ ~RollbackRow(p)
      BY <1>9, RunContainerTypes, SetUpTenantTypes DEF Moves, RunContainer, SetUpTenant, RollbackRow
    <2> QED  BY <1>4, <1>6, <2>1, <2>2
  <1>10. CASE RollbackContainer(p)
    <2>1. Early(p) /\ hostname' = hostname /\ ~RollbackRow(p)
      BY <1>10 DEF Early, RollbackContainer, RollbackRow
    <2>2. container'[j] = "none"
      BY <1>2, <1>10 DEF RollbackContainer, Fault, Without, FailedKinds, TypeInv, TypeOK
    <2> QED  BY <1>4, <1>6, <2>1, <2>2
  <1>11. CASE RollbackRow(p)
    <2>1. container' = container /\ hostname' = hostname /\ proc[p].pc = "droprow"
      BY <1>11 DEF RollbackRow, docker
    <2> QED  BY <1>5, <2>1
  <1>12. CASE StartContainer(p)
    <2>1. proc'[p].pc = "health" /\ proc'[p].op # "provision" /\ ~RollbackRow(p)
      <3>1. proc[p] \in OldJob
        BY <1>12, JobAt, JobShape DEF StartContainer
      <3> QED  BY <1>1, <1>12, <3>1, EarlyShape, StartContainerTypes
               DEF Moves, Touches, StartContainer, RollbackRow
    <2> QED  BY <1>7, <2>1
  <1>13. CASE UpdateStatus(p)
    <2>1. proc'[p].pc = "list" /\ ~RollbackRow(p)
      BY <1>2, <1>13, UpdateStatusTypes DEF Moves, UpdateStatus, RollbackRow
    <2> QED  BY <1>7, <2>1
  <1>14. CASE ReloadNginx(p)
    <2>1. proc'[p].pc = "idle" /\ ~RollbackRow(p)
      <3>1. Finish(p)
        BY <1>14 DEF ReloadNginx, Fault, Without, FailedKinds
      <3> QED  BY <1>8, <1>14, <3>1, Ending DEF Ends, TypeInv, ReloadNginx, RollbackRow
    <2> QED  BY <1>7, <2>1
  <1>15. CASE \/ CreateHostname(p) \/ StopContainer(p) \/ AwaitHealth(p)
          \/ RemoveContainer(p) \/ EraseVolume(p) \/ DeleteHostname(p)
          \/ ListActive(p) \/ WriteMap(p)
    <2>1. proc'[p].pc \in {"update", "idle", "erase", "unregister", "write", "reload"}
      BY <1>8, <1>15, CreateHostnameTypes, StopContainerTypes, AwaitHealthTypes,
         RemoveContainerTypes, EraseVolumeTypes, DeleteHostnameTypes, ListActiveTypes,
         WriteMapTypes DEF Moves, Ends
    <2>2. ~RollbackRow(p)
      BY <1>15 DEF CreateHostname, StopContainer, AwaitHealth, RemoveContainer, EraseVolume,
         DeleteHostname, ListActive, WriteMap, RollbackRow
    <2> QED  BY <1>7, <2>1, <2>2
  <1> QED  BY <1>9, <1>10, <1>11, <1>12, <1>13, <1>14, <1>15 DEF Worker

LEMMA FailedKept ==
  ASSUME TypeInv, Solo, FailedSound, [Next]_vars, Without(FailedKinds)'
  PROVE  FailedSound'
  <1>1. CASE UNCHANGED vars
    BY <1>1 DEF vars, FailedSound, Early, Rows
  <1>2. CASE Crash
    BY <1>2, CrashTypes DEF FailedSound, Early, Rows, Idle
  <1>3. ASSUME UNCHANGED <<container, hostname>>, Rows \subseteq Rows',
               \A q \in Procs :
                 \/ proc'[q] = proc[q]
                 \/ ~Early(q)' /\ proc'[q].pc \notin {"hostname", "droprow"}
                 \/ proc'[q].pc = "run" /\ proc'[q].i \in Ids \ Rows
        PROVE  FailedSound'
    <2>1. \A q \in Procs : proc'[q] = proc[q] => (Early(q)' <=> Early(q))
      BY DEF Early
    <2> QED  BY <1>3, <2>1 DEF FailedSound
  <1>4. ASSUME NEW p \in Procs, Talks(p) PROVE FailedSound'
    <2>1. ~Early(p)' /\ proc'[p].pc \notin {"hostname", "droprow"}
      BY <1>4 DEF Talks, Early, WorkPcs, NewPcs, LoadPcs
    <2> QED  BY <1>3, <1>4, <2>1 DEF Talks, Others, Rows
  <1>5. ASSUME NEW p \in Procs, NEW i \in Ids, Creates(p, i) PROVE FailedSound'
    BY <1>3, <1>5 DEF Creates, Others
  <1>6. ASSUME NEW p \in Procs, NEW i \in Ids, Begins(p, i) PROVE FailedSound'
    <2>1. ~Early(p)' /\ proc'[p].pc \notin {"hostname", "droprow"}
      BY <1>6 DEF Begins, Early
    <2> QED  BY <1>3, <1>6, <2>1 DEF Begins, Others, Rows
  <1> QED  BY <1>1, <1>2, <1>4, <1>5, <1>6, StepKinds, WorkerFailed

----------------------------------------------------------------------------
(* The routes.                                                             *)

RoutesKinds == {"crossed", "overtaken", "reload", "crash"}
Routing == {"list", "write", "reload"}

(* A step that neither routes nor changes what is to be routed.            *)
LEMMA QuietRoutes ==
  ASSUME RoutesSound, UNCHANGED <<mapFile, loaded>>, ActiveRoutes' = ActiveRoutes,
         \A q \in Procs : proc[q].pc \in Routing \/ proc'[q].pc \in Routing => proc'[q] = proc[q],
         \A q \in Procs : Early(q)' => inst'[proc'[q].i].status = "pending"
  PROVE  RoutesSound'
  <1>1. Fresh => Fresh'
    BY DEF Fresh, Routing
  <1>2. \A q \in Procs : proc[q].pc = "reload" => proc'[q].pc = "reload"
    BY DEF Routing
  <1>3. \A q \in Procs : proc'[q].pc = "write" => proc'[q] = proc[q]
    BY DEF Routing
  <1> QED  BY <1>1, <1>2, <1>3 DEF RoutesSound

LEMMA EarlyFrame ==
  ASSUME TypeInv, Solo, RoutesSound, NEW p \in Procs, Touches(p),
         Early(p)' => inst'[proc'[p].i].status = "pending"
  PROVE  \A q \in Procs : Early(q)' => inst'[proc'[q].i].status = "pending"
  <1> TAKE q \in Procs
  <1>1. CASE q # p /\ proc'[q] = proc[q] /\ Early(q)
    <2>1. Works(q) /\ proc[q].i \in Ids /\ proc[q].i # proc[p].i
      BY <1>1, EarlyShape, JobAt DEF Touches, Solo
    <2> QED  BY <1>1, <2>1 DEF Touches, Elsewhere, RoutesSound
  <1>2. CASE q # p /\ (proc'[q] # proc[q] \/ ~Early(q))
    BY <1>2 DEF Touches, Kept, Early
  <1> QED  BY <1>1, <1>2

(* Only a change of an active row changes the routes.                      *)
LEMMA SameRoutes ==
  ASSUME NEW j, \A i \in Ids \ {j} : inst'[i] = inst[i],
         j \in Rows => inst[j].status # "active", j \in Rows' => inst'[j].status # "active"
  PROVE  ActiveRoutes' = ActiveRoutes
  <1>1. With({"active"})' = With({"active"}) /\ With({"active"}) \subseteq Ids \ {j}
    BY DEF With, Rows
  <1> QED  BY <1>1 DEF ActiveRoutes, Route

LEMMA WorkerRoutes ==
  ASSUME TypeInv, Solo, RoutesSound, Without(RoutesKinds)', NEW p \in Procs, Worker(p)
  PROVE  RoutesSound'
  <1>1. TypeInv' /\ Touches(p)
    BY WorkerTypes
  <1>2. PICK j \in Ids : j = proc[p].i /\ j \in Rows
    BY <1>1, JobAt DEF Touches, Solo
  <1>3. Idle.pc = "idle"
    BY DEF Idle
  <1>4. \A q \in Procs \ {p} : \/ proc'[q] = proc[q]
                               \/ proc[q].pc = "write" /\ proc'[q].pc = "write"
    BY <1>1 DEF Touches, Kept
  <1>5. CASE \/ RunContainer(p) \/ SetUpTenant(p) \/ CreateHostname(p) \/ RollbackContainer(p)
             \/ StopContainer(p) \/ StartContainer(p) \/ AwaitHealth(p)
             \/ RemoveContainer(p) \/ EraseVolume(p) \/ DeleteHostname(p)
    <2>1. UNCHANGED <<inst, mapFile, loaded>> /\ \A q \in Procs \ {p} : proc'[q] = proc[q]
      BY <1>5, RunContainerTypes, SetUpTenantTypes, CreateHostnameTypes, RollbackContainerTypes,
         StopContainerTypes, StartContainerTypes, AwaitHealthTypes, RemoveContainerTypes,
         EraseVolumeTypes, DeleteHostnameTypes
      DEF RunContainer, SetUpTenant, CreateHostname, RollbackContainer, StopContainer,
         StartContainer, AwaitHealth, RemoveContainer, EraseVolume, DeleteHostname, nginx,
         Moves, Ends, Others
    <2>2. proc[p].pc \notin Routing /\ proc'[p].pc \notin Routing
      BY <1>3, <1>5, RunContainerTypes, SetUpTenantTypes, CreateHostnameTypes,
         RollbackContainerTypes, StopContainerTypes, StartContainerTypes, AwaitHealthTypes,
         RemoveContainerTypes, EraseVolumeTypes, DeleteHostnameTypes
      DEF RunContainer, SetUpTenant, CreateHostname, RollbackContainer, StopContainer,
         StartContainer, AwaitHealth, RemoveContainer, EraseVolume, DeleteHostname, Routing,
         Moves, Ends
    <2>3. Early(p)' => Early(p) /\ proc'[p].i = j
      <3>1. CASE RunContainer(p) \/ SetUpTenant(p) \/ RollbackContainer(p)
        BY <1>1, <1>2, <1>3, <3>1, RunContainerTypes, SetUpTenantTypes, RollbackContainerTypes
        DEF RunContainer, SetUpTenant, RollbackContainer, Early, Moves, Touches
      <3>2. CASE StartContainer(p)
        <4>1. proc[p] \in OldJob
          BY <3>2, JobAt, JobShape DEF StartContainer
        <4> QED  BY <1>1, <3>2, <4>1, EarlyShape, StartContainerTypes DEF Moves, Touches, Early
      <3>3. CASE \/ CreateHostname(p) \/ StopContainer(p) \/ AwaitHealth(p)
                 \/ RemoveContainer(p) \/ EraseVolume(p) \/ DeleteHostname(p)
        BY <1>3, <3>3, CreateHostnameTypes, StopContainerTypes, AwaitHealthTypes,
           RemoveContainerTypes, EraseVolumeTypes, DeleteHostnameTypes DEF Moves, Ends, Early
      <3> QED  BY <1>5, <3>1, <3>2, <3>3
    <2>4. Early(p)' => inst'[proc'[p].i].status = "pending"
      BY <1>2, <2>1, <2>3 DEF RoutesSound
    <2>5. ActiveRoutes' = ActiveRoutes
      BY <2>1 DEF ActiveRoutes, With, Route, Rows
    <2>6. \A q \in Procs : proc[q].pc \in Routing \/ proc'[q].pc \in Routing => proc'[q] = proc[q]
      BY <2>1, <2>2
    <2>7. \A q \in Procs : Early(q)' => inst'[proc'[q].i].status = "pending"
      BY <1>1, <2>4, EarlyFrame
    <2> QED  BY <2>1, <2>5, <2>6, <2>7, QuietRoutes
  <1>6. CASE RollbackRow(p)
    <2>1. /\ UNCHANGED <<mapFile, loaded>> /\ Others(p) /\ proc'[p].pc = "idle"
          /\ \A i \in Ids \ {j} : inst'[i] = inst[i]
          /\ proc[p].pc = "droprow"
      BY <1>1, <1>2, <1>3, <1>6, RollbackRowTypes DEF RollbackRow, nginx, Ends, Touches, Elsewhere
    <2>2. inst[j].status = "pending" /\ j \notin Rows'
      BY <1>2, <1>6, <2>1, WorkerRows DEF RoutesSound, Early, RollbackRow, Rows, TypeInv, TypeOK
    <2>3. ActiveRoutes' = ActiveRoutes
      BY <2>1, <2>2, SameRoutes
    <2>4. \A q \in Procs : proc[q].pc \in Routing \/ proc'[q].pc \in Routing => proc'[q] = proc[q]
      BY <2>1 DEF Others, Routing
    <2>5. \A q \in Procs : Early(q)' => inst'[proc'[q].i].status = "pending"
      BY <1>1, <2>1, EarlyFrame DEF Early
    <2> QED  BY <2>1, <2>3, <2>4, <2>5, QuietRoutes
  <1>7. CASE UpdateStatus(p)
    <2>1. proc'[p].pc = "list" /\ proc[p].pc = "update" /\ Others(p)
          /\ UNCHANGED <<mapFile, loaded>>
      BY <1>2, <1>7, UpdateStatusTypes DEF Moves, UpdateStatus, nginx
    <2>2. \A q \in Procs : Early(q)' => inst'[proc'[q].i].status = "pending"
      BY <1>1, <2>1, EarlyFrame DEF Early
    <2>3. Fresh'
      BY <2>1 DEF Fresh
    <2>4. \A q \in Procs : proc[q].pc = "reload" => proc'[q].pc = "reload"
      BY <2>1 DEF Others
    <2> QED  BY <2>1, <2>2, <2>3, <2>4 DEF RoutesSound
  <1>8. CASE ListActive(p)
    <2>1. /\ proc'[p].pc = "write" /\ proc[p].pc = "list" /\ Others(p)
          /\ UNCHANGED <<inst, mapFile, loaded>> /\ proc'[p].snap = ActiveRoutes
      BY <1>8, ListActiveTypes DEF ListActive, nginx
    <2>2. ActiveRoutes' = ActiveRoutes
      BY <2>1 DEF ActiveRoutes, With, Route, Rows
    <2>3. Fresh'
      BY <2>1, <2>2 DEF Fresh
    <2>4. \A q \in Procs : proc[q].pc = "reload" => proc'[q].pc = "reload"
      BY <2>1 DEF Others
    <2>5. \A q \in Procs : Early(q)' => inst'[proc'[q].i].status = "pending"
      BY <1>1, <2>1, EarlyFrame DEF Early
    <2> QED  BY <2>1, <2>3, <2>4, <2>5 DEF RoutesSound
  <1>9. CASE WriteMap(p)
    <2>1. /\ proc'[p].pc = "reload" /\ proc[p].pc = "write" /\ UNCHANGED <<inst, loaded>>
          /\ mapFile' = proc[p].snap
          /\ \A q \in Procs \ {p} : proc[q].pc = "write" => proc'[q].late
          /\ ~proc[p].late \/ proc[p].snap = ActiveRoutes
      BY <1>9, WriteMapTypes DEF WriteMap, Note, Fault, Without, RoutesKinds
    <2>2. ActiveRoutes' = ActiveRoutes
      BY <2>1 DEF ActiveRoutes, With, Route, Rows
    <2>3. mapFile' = ActiveRoutes' \/ Fresh'
      <3>1. CASE proc[p].snap = ActiveRoutes
        BY <2>1, <2>2, <3>1
      <3>2. CASE proc[p].snap # ActiveRoutes
        <4>1. Fresh
          BY <2>1, <3>2 DEF RoutesSound
        <4>2. CASE \E q \in Procs : proc[q].pc = "list"
          <5>1. PICK q \in Procs : proc[q].pc = "list"
            BY <4>2
          <5>2. proc'[q].pc = "list"
            BY <1>4, <2>1, <5>1
          <5> QED  BY <5>2 DEF Fresh
        <4>3. CASE \E q \in Procs : proc[q].pc = "write" /\ proc[q].snap = ActiveRoutes
          <5>1. PICK q \in Procs : proc[q].pc = "write" /\ proc[q].snap = ActiveRoutes
            BY <4>3
          <5>2. proc'[q].pc = "write" /\ proc'[q].snap = ActiveRoutes'
            BY <1>1, <2>2, <3>2, <5>1 DEF Touches, Kept
          <5> QED  BY <5>2 DEF Fresh
        <4> QED  BY <4>1, <4>2, <4>3 DEF Fresh
      <3> QED  BY <3>1, <3>2
    <2>4. \A q \in Procs : proc'[q].pc = "write" => proc'[q].late
      BY <1>4, <2>1
    <2>5. \A q \in Procs : Early(q)' => inst'[proc'[q].i].status = "pending"
      BY <1>1, <2>1, EarlyFrame DEF Early
    <2> QED  BY <2>1, <2>3, <2>4, <2>5 DEF RoutesSound
  <1>10. CASE ReloadNginx(p)
    <2>1. loaded' = mapFile /\ mapFile' = mapFile /\ Finish(p) /\ inst' = inst /\ proc[p].pc = "reload"
      BY <1>10 DEF ReloadNginx, Fault, Without, RoutesKinds
    <2>2. Others(p) /\ proc'[p].pc = "idle"
      BY <1>3, <2>1, Ending DEF Ends, TypeInv
    <2>3. ActiveRoutes' = ActiveRoutes
      BY <2>1 DEF ActiveRoutes, With, Route, Rows
    <2>4. Fresh => Fresh'
      BY <2>1, <2>2, <2>3 DEF Fresh, Others
    <2>5. \A q \in Procs : proc'[q].pc = "write" => proc'[q] = proc[q]
      BY <2>2 DEF Others
    <2>6. \A q \in Procs : Early(q)' => inst'[proc'[q].i].status = "pending"
      BY <1>1, <2>2, EarlyFrame DEF Early
    <2> QED  BY <2>1, <2>3, <2>4, <2>5, <2>6 DEF RoutesSound
  <1> QED  BY <1>5, <1>6, <1>7, <1>8, <1>9, <1>10 DEF Worker

LEMMA RoutesKept ==
  ASSUME TypeInv, Solo, RoutesSound, [Next]_vars, Without(RoutesKinds)'
  PROVE  RoutesSound'
  <1>1. CASE UNCHANGED vars
    BY <1>1 DEF vars, RoutesSound, Fresh, ActiveRoutes, With, Route, Rows, Early
  <1>2. CASE Crash
    BY <1>2, CrashTypes DEF Without, RoutesKinds
  <1>3. ASSUME NEW p \in Procs, Others(p), UNCHANGED <<mapFile, loaded>>,
               ActiveRoutes' = ActiveRoutes, ~Works(p), proc'[p].pc \notin Routing,
               \A q \in Procs \ {p} : Works(q) => inst'[proc[q].i] = inst[proc[q].i],
               Early(p)' => inst'[proc'[p].i].status = "pending"
        PROVE  RoutesSound'
    <2>1. \A q \in Procs : proc[q].pc \in Routing \/ proc'[q].pc \in Routing => proc'[q] = proc[q]
      BY <1>3 DEF Others, Works, Routing, WorkPcs, NewPcs, LoadPcs
    <2>2. ASSUME NEW q \in Procs, Early(q)' PROVE inst'[proc'[q].i].status = "pending"
      <3>1. CASE q = p
        BY <1>3, <2>2, <3>1
      <3>2. CASE q # p
        <4>1. proc'[q] = proc[q] /\ Early(q)
          BY <1>3, <2>2, <3>2 DEF Others, Early
        <4> QED  BY <1>3, <3>2, <4>1, EarlyShape DEF RoutesSound
      <3> QED  BY <3>1, <3>2
    <2> QED  BY <1>3, <2>1, <2>2, QuietRoutes
  <1>4. ASSUME NEW p \in Procs, Talks(p) PROVE RoutesSound'
    <2>1. ~Early(p)' /\ proc'[p].pc \notin Routing
      BY <1>4 DEF Talks, Early, Routing, WorkPcs, NewPcs, LoadPcs
    <2>2. ActiveRoutes' = ActiveRoutes
      BY <1>4 DEF Talks, ActiveRoutes, With, Route, Rows
    <2> QED  BY <1>3, <1>4, <2>1, <2>2 DEF Talks
  <1>5. ASSUME NEW p \in Procs, NEW i \in Ids, Creates(p, i) PROVE RoutesSound'
    <2>1. ActiveRoutes' = ActiveRoutes
      BY <1>5, SameRoutes DEF Creates
    <2>2. \A q \in Procs : Works(q) => proc[q].i \in Ids \ {i}
      BY <1>5, JobAt DEF Creates
    <2>3. \A q \in Procs : Works(q) => inst'[proc[q].i] = inst[proc[q].i]
      BY <1>5, <2>2 DEF Creates
    <2> QED  BY <1>3, <1>5, <2>1, <2>3 DEF Creates, Routing
  <1>6. ASSUME NEW p \in Procs, NEW i \in Ids, Begins(p, i) PROVE RoutesSound'
    <2>1. ~Early(p)' /\ proc'[p].pc \notin Routing
      BY <1>6 DEF Begins, Early, Routing
    <2>2. ActiveRoutes' = ActiveRoutes
      BY <1>6 DEF Begins, ActiveRoutes, With, Route, Rows
    <2> QED  BY <1>3, <1>6, <2>1, <2>2 DEF Begins
  <1> QED  BY <1>1, <1>2, <1>4, <1>5, <1>6, StepKinds, WorkerRoutes

----------------------------------------------------------------------------
(* The limit.                                                              *)

LimitKinds == {"revived", "raced"}

LEMMA LiveFinite ==
  ASSUME TypeInv, NEW c
  PROVE  IsFiniteSet(Live(c)) /\ Cardinality(Live(c)) \in Nat
  <1>1. Live(c) \subseteq Rows
    BY DEF Live, With
  <1> QED  BY <1>1, FS_Subset, FS_CardinalityType DEF TypeInv

LEMMA PastShape ==
  ASSUME TypeInv, NEW p \in Procs, proc[p].pc \in Past
  PROVE  proc[p].c \in Customers /\ ~Works(p)
  <1>1. proc[p] \in AccountJob \cup CreateJob
    BY JobAt, JobShape DEF Past, AccountPcs
  <1> QED  BY <1>1 DEF AccountJob, CreateJob, Past, Works, WorkPcs, NewPcs, OldPcs, LoadPcs

(* A step that adds nothing to a customer's instances.                     *)
LEMMA FewerLive ==
  ASSUME TypeInv, TypeInv', LimitSound, \A c \in Customers : Live(c)' \subseteq Live(c),
         \A q \in Procs : proc'[q].pc \in Past =>
           \/ proc[q].pc \in Past /\ proc'[q].c = proc[q].c
           \/ proc'[q].c \in Customers /\ Cardinality(Live(proc'[q].c)) < MaxPerCustomer
  PROVE  LimitSound'
  <1>1. ASSUME NEW c \in Customers
        PROVE  \A n \in Nat : /\ Cardinality(Live(c)) <= n => Cardinality(Live(c)') <= n
                              /\ Cardinality(Live(c)) < n => Cardinality(Live(c)') < n
    <2>1. Cardinality(Live(c)') <= Cardinality(Live(c)) /\ IsFiniteSet(Live(c)')
      BY LiveFinite, FS_Subset
    <2>2. Cardinality(Live(c)') \in Nat /\ Cardinality(Live(c)) \in Nat
      BY <2>1, LiveFinite, FS_CardinalityType
    <2> QED  BY <2>1, <2>2
  <1>2. MaxPerCustomer \in Nat
    BY ProvisionAssumption
  <1>3. \A c \in Customers : Cardinality(Live(c)') <= MaxPerCustomer
    BY <1>1, <1>2 DEF LimitSound
  <1>4. ASSUME NEW q \in Procs, proc'[q].pc \in Past
        PROVE  \A c : c = proc'[q].c => Cardinality(Live(c)') < MaxPerCustomer
    <2>1. proc'[q].c \in Customers /\ Cardinality(Live(proc'[q].c)) < MaxPerCustomer
      BY <1>4, PastShape DEF LimitSound, Past
    <2> QED  BY <1>1, <1>2, <2>1
  <1>5. \A q \in Procs : proc'[q].pc \in Past => Cardinality(Live(proc[q].c)') < MaxPerCustomer
    BY <1>4
  <1> QED  BY <1>3, <1>5 DEF LimitSound, Past
LEMMA LimitKept ==
  ASSUME TypeInv, LimitSound, [Next]_vars, Without(LimitKinds)'
  PROVE  LimitSound'
  <1>1. TypeInv'
    BY StepKinds
  <1>2. ASSUME inst' = inst PROVE \A c : Live(c)' = Live(c)
    BY <1>2 DEF Live, With, Rows
  <1>3. ASSUME NEW p \in Procs, Worker(p) PROVE LimitSound'
    <2>1. Touches(p)
      BY <1>3, WorkerTypes
    <2>2. \A q \in Procs : proc'[q].pc \in Past => proc'[q] = proc[q]
      BY <2>1 DEF Touches, Kept, Past, Idle, WorkPcs, NewPcs, OldPcs, LoadPcs
    <2>3. \A c \in Customers : Live(c)' \subseteq Live(c)
      <3>1. PICK j \in Ids : j = proc[p].i
        BY <2>1 DEF Touches
      <3>2. \A i \in Ids \ {j} : inst'[i] = inst[i]
        BY <2>1, <3>1 DEF Touches, Elsewhere
      <3>3. ASSUME j \in Rows', ~(inst'[j] = inst[j])
            PROVE  /\ j \in Rows /\ inst'[j].c = inst[j].c
                   /\ \/ inst[j].status \in {"pending", "active", "suspended"}
                      \/ inst'[j].status = "deleted"
        <4>1. UpdateStatus(p)
          <5>1. CASE RollbackRow(p)
            BY <3>1, <3>3, <5>1 DEF RollbackRow, Rows, TypeInv, TypeOK
          <5>2. CASE ~RollbackRow(p) /\ ~UpdateStatus(p)
            BY <1>3, <3>3, <5>2 DEF Worker, RunContainer, SetUpTenant, CreateHostname,
               RollbackContainer, StopContainer, StartContainer, AwaitHealth, RemoveContainer,
               EraseVolume, DeleteHostname, ListActive, WriteMap, ReloadNginx
          <5> QED  BY <5>1, <5>2
        <4>2. j \in Rows /\ inst'[j].c = inst[j].c /\ inst'[j].status = StatusAfter[proc[p].op]
          BY <3>1, <3>3, <4>1, UpdateStatusTypes
        <4>3. inst[j].status # "deleted" \/ proc[p].op = "delete"
          BY <3>1, <4>1 DEF UpdateStatus, Note, Fault, Without, LimitKinds
        <4>4. inst[j] \in Row
          BY <3>1, <4>2, RowShape
        <4> QED  BY <4>2, <4>3, <4>4 DEF StatusAfter, Row
      <3>4. \A i \in Rows' \ {j} : i \in Rows /\ inst'[i] = inst[i]
        BY <3>2 DEF Rows
      <3>5. ASSUME NEW c \in Customers, NEW i \in Live(c)' PROVE i \in Live(c)
        <4>1. i \in Rows' /\ inst'[i].c = c /\ inst'[i].status \in {"pending", "active", "suspended"}
          BY <3>5 DEF Live, With
        <4>2. CASE i # j
          BY <3>4, <4>1, <4>2 DEF Live, With
        <4>3. CASE i = j /\ inst'[j] = inst[j]
          <5>1. j \in Rows
            BY <4>1, <4>3 DEF Rows
          <5> QED  BY <4>1, <4>3, <5>1 DEF Live, With
        <4>4. CASE i = j /\ ~(inst'[j] = inst[j])
          BY <3>3, <4>1, <4>4 DEF Live, With
        <4> QED  BY <4>2, <4>3, <4>4
      <3> QED  BY <3>5
    <2> QED  BY <1>1, <2>2, <2>3, FewerLive
  <1>4. ASSUME NEW p \in Procs, NEW i \in Ids, Creates(p, i) PROVE LimitSound'
    <2>1. /\ proc[p].c \in Customers /\ Cardinality(Live(proc[p].c)) < MaxPerCustomer
          /\ \A r \in Procs \ {p} : proc[r].pc \in Past => proc[r].c # proc[p].c
      BY <1>4 DEF Creates, Without, LimitKinds, LimitSound, Past
    <2>2. PICK k \in Customers : k = proc[p].c
      BY <2>1
    <2>3. ASSUME NEW c, NEW j
          PROVE  j \in Live(c)' <=> j \in Live(c) \/ (j = i /\ k = c)
      <3>1. CASE j = i
        <4>1. j \in Rows' /\ j \notin Rows /\ inst'[j].status = "pending" /\ inst'[j].c = k
          BY <1>4, <2>2, <3>1 DEF Creates
        <4> QED  BY <3>1, <4>1 DEF Live, With
      <3>2. CASE j # i
        <4>1. (j \in Rows' <=> j \in Rows) /\ (j \in Rows => inst'[j] = inst[j])
          BY <1>4, <3>2 DEF Creates, Rows
        <4> QED  BY <3>2, <4>1 DEF Live, With
      <3> QED  BY <3>1, <3>2
    <2>4. \A c \in Customers \ {k} : Live(c)' = Live(c)
      BY <2>3
    <2>5. Live(k)' = Live(k) \cup {i} /\ i \notin Live(k)
      <3>1. i \notin Live(k)
        BY <1>4 DEF Creates, Live, With
      <3> QED  BY <2>3, <3>1
    <2>6. Cardinality(Live(k)') <= MaxPerCustomer
      <3>1. Cardinality(Live(k)') = Cardinality(Live(k)) + 1
        BY <2>5, LiveFinite, FS_AddElement
      <3> QED  BY <2>1, <2>2, <3>1, LiveFinite, ProvisionAssumption
    <2>7. ASSUME NEW q \in Procs, proc'[q].pc \in Past
          PROVE  \A c : c = proc'[q].c => Cardinality(Live(c)') < MaxPerCustomer
      <3>1. q # p /\ proc'[q] = proc[q] /\ proc[q].pc \in Past
        BY <1>4, <2>7 DEF Creates, Others, Past
      <3>2. proc[q].c \in Customers \ {k}
        BY <2>1, <2>2, <3>1, PastShape
      <3> QED  BY <2>4, <3>1, <3>2 DEF LimitSound, Past
    <2>8. \A q \in Procs : proc'[q].pc \in Past => Cardinality(Live(proc[q].c)') < MaxPerCustomer
      BY <2>7
    <2>9. \A c \in Customers : Cardinality(Live(c)') <= MaxPerCustomer
      BY <2>4, <2>6 DEF LimitSound
    <2> QED  BY <2>8, <2>9 DEF LimitSound, Past
  <1>5. ASSUME NEW p \in Procs, Talks(p), Room(p) PROVE LimitSound'
    <2>1. \A c : Live(c)' = Live(c)
      BY <1>2, <1>5 DEF Talks
    <2>2. proc'[p].pc \in Past => proc'[p].c \in Customers
      BY <1>1, PastShape, JobShape DEF TypeInv, AccountJob, CreateJob, Past, AccountPcs
    <2>3. \A q \in Procs \ {p} : proc'[q] = proc[q]
      BY <1>5 DEF Talks, Others
    <2> QED  BY <1>1, <1>5, <2>1, <2>2, <2>3, FewerLive DEF Room
  <1>6. ASSUME NEW p \in Procs, NEW i \in Ids, Begins(p, i) PROVE LimitSound'
    <2>1. \A c : Live(c)' = Live(c)
      BY <1>2, <1>6 DEF Begins
    <2>2. \A q \in Procs : proc'[q].pc \in Past => proc'[q] = proc[q]
      BY <1>6 DEF Begins, Others, Past
    <2> QED  BY <1>1, <2>1, <2>2, FewerLive
  <1>7. CASE Crash
    <2>1. \A c : Live(c)' = Live(c)
      BY <1>2, <1>7, CrashTypes
    <2>2. \A q \in Procs : proc'[q].pc \notin Past
      BY <1>7, CrashTypes DEF Idle, Past
    <2> QED  BY <1>1, <2>1, <2>2, FewerLive
  <1>8. CASE UNCHANGED vars
    BY <1>8 DEF vars, LimitSound, Live, With, Rows
  <1> QED  BY <1>3, <1>4, <1>5, <1>6, <1>7, <1>8, StepKinds

----------------------------------------------------------------------------
(* The inductive invariant holds in every state.                           *)

LEMMA ProvisionInit ==
  ASSUME Init
  PROVE  ProvisionInv
  <1>1. /\ \A p \in Procs : proc[p] = Idle /\ proc[p].pc = "idle"
        /\ proc \in [Procs -> Job]
    BY DEF Init, Idle, Job
  <1>2. Rows = {} /\ \A i \in Ids : inst[i] = NoRow
    BY DEF Init, Rows
  <1>3. TypeOK
    BY <1>1, <1>2 DEF Init, TypeOK, Idle
  <1>4. TypeInv
    BY <1>1, <1>2, <1>3, FS_EmptySet DEF TypeInv, Works, WorkPcs, NewPcs, OldPcs, LoadPcs
  <1>5. Solo /\ StatusSound
    BY <1>1, <1>2 DEF Solo, StatusSound, Works, WorkPcs, NewPcs, OldPcs, LoadPcs
  <1>6. FailedSound
    BY <1>1, <1>2 DEF FailedSound, Early, Init
  <1>7. RoutesSound
    <2>1. ActiveRoutes = {}
      BY <1>2 DEF ActiveRoutes, With
    <2> QED  BY <1>1, <2>1 DEF RoutesSound, Early, Init
  <1>8. LimitSound
    <2>1. \A c : Live(c) = {}
      BY <1>2 DEF Live, With
    <2> QED  BY <1>1, <2>1, FS_EmptySet, ProvisionAssumption DEF LimitSound
  <1> QED  BY <1>4, <1>5, <1>6, <1>7, <1>8 DEF ProvisionInv

LEMMA ProvisionNext ==
  ASSUME ProvisionInv, [Next]_vars
  PROVE  ProvisionInv'
  <1>1. TypeInv /\ TypeInv'
    BY StepKinds DEF ProvisionInv
  <1>2. ASSUME Without({"crossed"})' PROVE Solo /\ Solo'
    <2>1. Solo
      BY <1>1, <1>2, WithoutBefore DEF ProvisionInv
    <2> QED  BY <1>1, <1>2, <2>1, SoloKept
  <1>3. ASSUME Without(StatusKinds)' PROVE StatusSound'
    <2>1. Without({"crossed"})'
      BY <1>3 DEF Without, StatusKinds
    <2>2. StatusSound
      BY <1>1, <1>3, WithoutBefore DEF ProvisionInv, StatusKinds
    <2> QED  BY <1>1, <1>2, <1>3, <2>1, <2>2, StatusKept
  <1>4. ASSUME Without(FailedKinds)' PROVE FailedSound'
    <2>1. Without({"crossed"})'
      BY <1>4 DEF Without, FailedKinds
    <2>2. FailedSound
      BY <1>1, <1>4, WithoutBefore DEF ProvisionInv, FailedKinds
    <2> QED  BY <1>1, <1>2, <1>4, <2>1, <2>2, FailedKept
  <1>5. ASSUME Without(RoutesKinds)' PROVE RoutesSound'
    <2>1. Without({"crossed"})'
      BY <1>5 DEF Without, RoutesKinds
    <2>2. RoutesSound
      BY <1>1, <1>5, WithoutBefore DEF ProvisionInv, RoutesKinds
    <2> QED  BY <1>1, <1>2, <1>5, <2>1, <2>2, RoutesKept
  <1>6. ASSUME Without(LimitKinds)' PROVE LimitSound'
    <2>1. LimitSound
      BY <1>1, <1>6, WithoutBefore DEF ProvisionInv, LimitKinds
    <2> QED  BY <1>1, <1>6, <2>1, LimitKept
  <1> QED  BY <1>1, <1>2, <1>3, <1>4, <1>5, <1>6
           DEF ProvisionInv, StatusKinds, FailedKinds, RoutesKinds, LimitKinds

LEMMA ProvisionAlways == Spec => []ProvisionInv
  <1>1. Init => ProvisionInv
    BY ProvisionInit
  <1>2. ProvisionInv /\ [Next]_vars => ProvisionInv'
    BY ProvisionNext
  <1> QED  BY <1>1, <1>2, PTL DEF Spec

(* The rows, containers, routes and requests keep the shapes the code gives *)
(* them, and no row gets a status the schema does not name.                *)
THEOREM ProvisionTypeCorrect == Spec => []TypeOK
  <1>1. ProvisionInv => TypeOK
    BY DEF ProvisionInv, TypeInv
  <1> QED  BY <1>1, ProvisionAlways, PTL

(* An instance no request works on is as its status says, whatever else    *)
(* the other instances' requests do and fail at, if its own did not cross  *)
(* and what they asked for was done.                                       *)
THEOREM StatusIsTrue == Spec => []StatusMatchesContainer
  <1>1. ASSUME ProvisionInv PROVE StatusMatchesContainer
    <2>1. TypeInv
      BY <1>1 DEF ProvisionInv
    <2>2. ASSUME Without(StatusKinds), NEW i \in Unattended \cap Rows PROVE Proper(i)
      <3>1. i \in Rows /\ i \in Ids /\ Working(i) = {}
        BY <2>2 DEF Unattended, Rows
      <3>2. Free(i)
        BY <2>1, <3>1, FreeWorking
      <3> QED  BY <1>1, <2>2, <3>1, <3>2 DEF ProvisionInv, StatusSound, StatusKinds
    <2> QED  BY <2>2 DEF StatusMatchesContainer, StatusKinds, Proper
  <1> QED  BY <1>1, ProvisionAlways, PTL

(* However requests for different instances interleave, nginx ends up with *)
(* the routes of the active instances.                                     *)
THEOREM RoutesFollow == Spec => []RoutesCatchUp
  <1>1. ProvisionInv => RoutesCatchUp
    BY DEF ProvisionInv, RoutesCatchUp, RoutesSound, Fresh
  <1> QED  BY <1>1, ProvisionAlways, PTL

(* A provisioning that fails at any of its steps leaves neither container  *)
(* nor hostname.                                                           *)
THEOREM FailuresCleanUp == Spec => []FailedLeavesNothing
  <1>1. ASSUME ProvisionInv PROVE FailedLeavesNothing
    <2>1. Unattended \subseteq Ids
      BY <1>1 DEF ProvisionInv, TypeInv, TypeOK, Unattended
    <2>2. Without({"crossed", "overtaken", "rm", "reload"}) => FailedSound
      BY <1>1 DEF ProvisionInv, Without
    <2> QED  BY <2>1, <2>2 DEF FailedLeavesNothing, FailedSound
  <1> QED  BY <1>1, ProvisionAlways, PTL

(* The limit on a customer's instances holds for any number of requests,   *)
(* unless two of one customer were past the check together or a deleted    *)
(* instance was resumed.                                                   *)
THEOREM LimitIsKept == Spec => []LimitHolds
  <1>1. ProvisionInv => LimitHolds
    BY DEF ProvisionInv, LimitHolds, LimitSound
  <1> QED  BY <1>1, ProvisionAlways, PTL

=============================================================================
