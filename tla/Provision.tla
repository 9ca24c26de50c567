----------------------------- MODULE Provision -----------------------------
(***************************************************************************)
(* The control plane's accounts and tenant instances: signup, verification *)
(* and the requests that provision, suspend, resume and delete a tenant.   *)
(*                                                                         *)
(* A request is a sequence of awaits on the database, Docker, Cloudflare   *)
(* and nginx, and requests interleave at every one of them, on the same    *)
(* instance too: nothing locks a row.  Every one of those calls may fail;  *)
(* `mishaps` remembers the failures and the crossings the properties       *)
(* speak of, and MaxMishaps bounds how many kinds of them a behaviour has. *)
(* An instance id is a cuid, so it is used once.                           *)
(***************************************************************************)
EXTENDS Integers, FiniteSets, FiniteSetsExt

CONSTANTS
  Customers, Domains, Ids, Procs,
  Ports,            \* TENANT_PORT_MIN .. TENANT_PORT_MAX
  MaxPerCustomer,   \* MAX_INSTANCES_PER_CUSTOMER
  MaxActive,        \* MAX_ACTIVE_INSTANCES
  Smtp,             \* isSmtpConfigured
  MaxMishaps        \* bound on the kinds of failure and crossing in a behaviour

ASSUME ProvisionAssumption ==
  /\ Ports \subseteq Nat /\ IsFiniteSet(Ports) /\ IsFiniteSet(Procs)
  /\ MaxPerCustomer \in Nat \ {0} /\ MaxActive \in Nat \ {0}
  /\ Smtp \in BOOLEAN /\ MaxMishaps \in Nat

VARIABLES
  account,    \* account[c]: the customer row, or NoAccount
  inst,       \* inst[i]: the instance row, or NoRow
  spent,      \* ids given to rows so far
  container,  \* container[i]: "none", "running" or "stopped"
  volume,     \* instances whose data directory exists
  hostname,   \* instances with a Cloudflare custom hostname
  mapFile,    \* the routes in the nginx map file
  loaded,     \* the routes nginx has loaded
  proc,       \* proc[p]: the request p works on
  mishaps     \* history: the failures and crossings so far

vars == <<account, inst, spent, container, volume, hostname, mapFile, loaded,
          proc, mishaps>>
docker == <<container, volume>>
nginx == <<mapFile, loaded>>

----------------------------------------------------------------------------

NoAccount == [verified |-> FALSE, token |-> FALSE]
Account == [verified : BOOLEAN, token : BOOLEAN, domain : Domains]

NoRow == [status |-> "none"]
Row == [status : {"pending", "active", "suspended", "deleted"},
        c : Customers, d : Domains, port : Ports, cf : BOOLEAN]
Rows == {i \in Ids : inst[i] # NoRow}
With(statuses) == {i \in Rows : inst[i].status \in statuses}

Route(i) == [d |-> inst[i].d, port |-> inst[i].port]
ActiveRoutes == {Route(i) : i \in With({"active"})}

Idle == [pc |-> "idle"]
Working(i) == {p \in Procs : "i" \in DOMAIN proc[p] /\ proc[p].i = i}

Faults == {"rm", "cf", "reload", "slow", "crash"}
Crossings == {"crossed", "revived", "overtaken", "raced"}
Fault(kind) ==
  /\ mishaps' = mishaps \cup {kind}
  /\ Cardinality(mishaps') <= MaxMishaps
Note(kind, condition) == IF condition THEN Fault(kind) ELSE UNCHANGED mishaps

Goto(p, pc) == proc' = [proc EXCEPT ![p].pc = pc]
Finish(p) == proc' = [proc EXCEPT ![p] = Idle]

----------------------------------------------------------------------------
(* Accounts.                                                               *)

(* POST /api/auth/signup: the e-mail is looked up, the password hashed and *)
(* the row created; its e-mail is unique, so a second signup that passed   *)
(* the look-up fails there.  Without SMTP the row is marked verified by a  *)
(* second write and keeps its token.                                       *)
SignupBegin(p, c, d) ==
  /\ proc[p] = Idle /\ account[c] = NoAccount
  /\ proc' = [proc EXCEPT ![p] = [pc |-> "signup", c |-> c, d |-> d]]
  /\ UNCHANGED <<account, inst, spent, docker, hostname, nginx, mishaps>>

SignupCreate(p) ==
  /\ proc[p].pc = "signup"
  /\ IF account[proc[p].c] # NoAccount THEN UNCHANGED account /\ Finish(p)
     ELSE /\ account' = [account EXCEPT ![proc[p].c] =
                [verified |-> FALSE, token |-> TRUE, domain |-> proc[p].d]]
          /\ IF Smtp THEN Finish(p) ELSE Goto(p, "autoverify")
  /\ UNCHANGED <<inst, spent, docker, hostname, nginx, mishaps>>

SignupAutoVerify(p) ==
  /\ proc[p].pc = "autoverify"
  /\ account' = [account EXCEPT ![proc[p].c].verified = TRUE]
  /\ Finish(p)
  /\ UNCHANGED <<inst, spent, docker, hostname, nginx, mishaps>>

(* GET /api/auth/verify: the token is looked up, then cleared by id, and   *)
(* the requested domain provisioned unless the customer has an instance.   *)
VerifyBegin(p, c) ==
  /\ proc[p] = Idle /\ account[c].token
  /\ proc' = [proc EXCEPT ![p] = [pc |-> "verify", c |-> c, d |-> account[c].domain]]
  /\ UNCHANGED <<account, inst, spent, docker, hostname, nginx, mishaps>>

VerifyUpdate(p) ==
  /\ proc[p].pc = "verify"
  /\ account' = [account EXCEPT ![proc[p].c].verified = TRUE, ![proc[p].c].token = FALSE]
  /\ Goto(p, "has")
  /\ UNCHANGED <<inst, spent, docker, hostname, nginx, mishaps>>

Live(c) == {i \in With({"pending", "active", "suspended"}) : inst[i].c = c}

VerifyHasInstance(p) ==
  /\ proc[p].pc = "has"
  /\ IF Live(proc[p].c) = {} THEN Goto(p, "dup") ELSE Finish(p)
  /\ UNCHANGED <<account, inst, spent, docker, hostname, nginx, mishaps>>

----------------------------------------------------------------------------
(* provisionInstance.                                                      *)

(* POST /api/instances, by a customer who could log in.                    *)
ProvisionBegin(p, c, d) ==
  /\ proc[p] = Idle /\ account[c].verified
  /\ proc' = [proc EXCEPT ![p] = [pc |-> "dup", c |-> c, d |-> d]]
  /\ UNCHANGED <<account, inst, spent, docker, hostname, nginx, mishaps>>

CheckDuplicate(p) ==
  /\ proc[p].pc = "dup"
  /\ IF \E i \in Rows \ With({"deleted"}) : inst[i].d = proc[p].d
     THEN Finish(p) ELSE Goto(p, "mine")
  /\ UNCHANGED <<account, inst, spent, docker, hostname, nginx, mishaps>>

(* Mutant: suspended instances are not counted.                            *)
CheckPerCustomerActive(p) ==
  /\ proc[p].pc = "mine"
  /\ IF Cardinality(Live(proc[p].c) \cap With({"pending", "active"})) >= MaxPerCustomer
     THEN Finish(p) ELSE Goto(p, "capacity")
  /\ UNCHANGED <<account, inst, spent, docker, hostname, nginx, mishaps>>

CheckPerCustomer(p) ==
  /\ proc[p].pc = "mine"
  /\ IF Cardinality(Live(proc[p].c)) >= MaxPerCustomer
     THEN Finish(p) ELSE Goto(p, "capacity")
  /\ UNCHANGED <<account, inst, spent, docker, hostname, nginx, mishaps>>

(* The image may be missing; then the request ends like any other refusal. *)
CheckCapacity(p) ==
  /\ proc[p].pc = "capacity"
  /\ \/ Finish(p)
     \/ Cardinality(With({"pending", "active"})) < MaxActive /\ Goto(p, "port")
  /\ UNCHANGED <<account, inst, spent, docker, hostname, nginx, mishaps>>

FreePorts == Ports \ {inst[i].port : i \in Rows}

NextFreePort(p) ==
  /\ proc[p].pc = "port"
  /\ IF FreePorts = {} THEN Finish(p)
     ELSE proc' = [proc EXCEPT ![p] =
            [pc |-> "create", c |-> proc[p].c, d |-> proc[p].d, port |-> Min(FreePorts)]]
  /\ UNCHANGED <<account, inst, spent, docker, hostname, nginx, mishaps>>

(* The row's domain and port are unique, among deleted rows too; a clash   *)
(* fails before there is anything to roll back.                            *)
CreateRow(p) ==
  /\ proc[p].pc = "create"
  /\ LET q == proc[p] IN
       \/ /\ \E i \in Rows : inst[i].d = q.d \/ inst[i].port = q.port
          /\ Finish(p) /\ UNCHANGED <<inst, spent, mishaps>>
       \/ /\ \A i \in Rows : inst[i].d # q.d /\ inst[i].port # q.port
          /\ \E i \in Ids \ spent :
               /\ spent' = spent \cup {i}
               /\ inst' = [inst EXCEPT ![i] = [status |-> "pending", c |-> q.c,
                             d |-> q.d, port |-> q.port, cf |-> FALSE]]
               /\ proc' = [proc EXCEPT ![p] = [pc |-> "run", i |-> i, port |-> q.port,
                             op |-> "provision"]]
          /\ Note("raced", \E r \in Procs \ {p} :
               proc[r].pc \in {"capacity", "port", "create"} /\ proc[r].c = q.c)
  /\ UNCHANGED <<account, docker, hostname, nginx>>

(* docker run binds the port, so it fails where another container has it.  *)
(* Until the row is active every failure leads to the rollback.            *)
PortHolders(port) ==
  {i \in Ids : container[i] = "running" /\ i \in Rows /\ inst[i].port = port}

RunContainer(p) ==
  /\ proc[p].pc = "run"
  /\ volume' = volume \cup {proc[p].i}
  /\ \/ /\ PortHolders(proc[p].port) \ {proc[p].i} = {}
        /\ container' = [container EXCEPT ![proc[p].i] = "running"]
        /\ Goto(p, "health")
     \/ /\ \E left \in {"none", "stopped"} :
             container' = [container EXCEPT ![proc[p].i] = left]
        /\ Goto(p, "rollback")
  /\ UNCHANGED <<account, inst, spent, hostname, nginx, mishaps>>

(* waitForHealth and the three calls to the tenant's own API.              *)
SetUpTenant(p) ==
  /\ proc[p].pc = "health" /\ proc[p].op = "provision"
  /\ \/ container[proc[p].i] = "running" /\ Goto(p, "hostname")
     \/ Goto(p, "rollback")
  /\ UNCHANGED <<account, inst, spent, docker, hostname, nginx, mishaps>>

(* A refused custom hostname is logged and provisioning goes on.           *)
CreateHostname(p) ==
  /\ proc[p].pc = "hostname"
  /\ hostname' \in {hostname, hostname \cup {proc[p].i}}
  /\ Goto(p, "update")
  /\ UNCHANGED <<account, inst, spent, docker, nginx, mishaps>>

(* Mutant: the rollback removes only the row.                              *)
RollbackForgets(p) ==
  /\ proc[p].pc = "rollback"
  /\ Goto(p, "droprow")
  /\ UNCHANGED <<account, inst, spent, docker, hostname, nginx, mishaps>>

RollbackContainer(p) ==
  /\ proc[p].pc = "rollback"
  /\ \/ container' = [container EXCEPT ![proc[p].i] = "none"] /\ UNCHANGED mishaps
     \/ container[proc[p].i] # "none" /\ Fault("rm") /\ UNCHANGED container
  /\ Goto(p, "droprow")
  /\ UNCHANGED <<account, inst, spent, volume, hostname, nginx>>

RollbackRow(p) ==
  /\ proc[p].pc = "droprow"
  /\ inst' = [inst EXCEPT ![proc[p].i] = NoRow]
  /\ Finish(p)
  /\ UNCHANGED <<account, spent, docker, hostname, nginx, mishaps>>

----------------------------------------------------------------------------
(* PATCH and DELETE /api/instances/:id.  Only the row's existence and its  *)
(* owner are checked, never its status.                                    *)

FirstStep == [suspend |-> "stop", resume |-> "start", delete |-> "remove"]
(* Mutant: a fifth status; the column takes any string.                    *)
StatusAfterStopped ==
  [provision |-> "active", resume |-> "active", suspend |-> "stopped",
   delete |-> "deleted"]
StatusAfter ==
  [provision |-> "active", resume |-> "active", suspend |-> "suspended",
   delete |-> "deleted"]

LifecycleBegin(p, i, op) ==
  /\ proc[p] = Idle /\ i \in Rows
  /\ proc' = [proc EXCEPT ![p] = [pc |-> FirstStep[op], i |-> i, op |-> op,
                                  port |-> inst[i].port, cf |-> inst[i].cf]]
  /\ Note("crossed", Working(i) # {})
  /\ UNCHANGED <<account, inst, spent, docker, hostname, nginx>>

StopContainer(p) ==
  /\ proc[p].pc = "stop"
  /\ LET i == proc[p].i IN
       \/ /\ container' = [container EXCEPT ![i] = IF @ = "running" THEN "stopped" ELSE @]
          /\ UNCHANGED mishaps
       \/ container[i] = "running" /\ Fault("rm") /\ UNCHANGED container
  /\ Goto(p, "update")
  /\ UNCHANGED <<account, inst, spent, volume, hostname, nginx>>

StartContainer(p) ==
  /\ proc[p].pc = "start"
  /\ container' \in {container,
       [container EXCEPT ![proc[p].i] = IF @ = "none" THEN "none" ELSE "running"]}
  /\ Goto(p, "health")
  /\ UNCHANGED <<account, inst, spent, volume, hostname, nginx, mishaps>>

(* A tenant that answers too late leaves the row as it was.                *)
AwaitHealth(p) ==
  /\ proc[p].pc = "health" /\ proc[p].op = "resume"
  /\ \/ container[proc[p].i] = "running" /\ Goto(p, "update") /\ UNCHANGED mishaps
     \/ container[proc[p].i] = "running" /\ Fault("slow") /\ Finish(p)
     \/ container[proc[p].i] # "running" /\ Finish(p) /\ UNCHANGED mishaps
  /\ UNCHANGED <<account, inst, spent, docker, hostname, nginx>>

(* Mutant: deletion stops the container and forgets to remove it.          *)
RemoveContainerStops(p) ==
  /\ proc[p].pc = "remove"
  /\ container' = [container EXCEPT ![proc[p].i] = IF @ = "running" THEN "stopped" ELSE @]
  /\ Goto(p, "erase")
  /\ UNCHANGED <<account, inst, spent, volume, hostname, nginx, mishaps>>

RemoveContainer(p) ==
  /\ proc[p].pc = "remove"
  /\ \/ container' = [container EXCEPT ![proc[p].i] = "none"] /\ UNCHANGED mishaps
     \/ container[proc[p].i] # "none" /\ Fault("rm") /\ UNCHANGED container
  /\ Goto(p, "erase")
  /\ UNCHANGED <<account, inst, spent, volume, hostname, nginx>>

EraseVolume(p) ==
  /\ proc[p].pc = "erase"
  /\ \/ volume' = volume \ {proc[p].i} /\ UNCHANGED mishaps
     \/ proc[p].i \in volume /\ Fault("rm") /\ UNCHANGED volume
  /\ Goto(p, "unregister")
  /\ UNCHANGED <<account, inst, spent, container, hostname, nginx>>

(* The hostname the row had when the request began.                        *)
DeleteHostname(p) ==
  /\ proc[p].pc = "unregister"
  /\ IF ~proc[p].cf THEN UNCHANGED <<hostname, mishaps>>
     ELSE \/ hostname' = hostname \ {proc[p].i} /\ UNCHANGED mishaps
          \/ Fault("cf") /\ UNCHANGED hostname
  /\ Goto(p, "update")
  /\ UNCHANGED <<account, inst, spent, docker, nginx>>

(* The row's new status; an update of a row that is gone throws.           *)
UpdateStatus(p) ==
  /\ proc[p].pc = "update"
  /\ LET i == proc[p].i
         op == proc[p].op IN
       /\ inst' = IF i \notin Rows THEN inst
                  ELSE [inst EXCEPT ![i].status = StatusAfter[op],
                                    ![i].cf = IF op = "provision" THEN i \in hostname ELSE @]
       /\ IF i \in Rows THEN Goto(p, "list")
          ELSE IF op = "provision" THEN Goto(p, "rollback") ELSE Finish(p)
       /\ Note("revived", inst[i].status = "deleted" /\ op # "delete")
  /\ UNCHANGED <<account, spent, docker, hostname, nginx>>

----------------------------------------------------------------------------
(* nginx.ts: the map is written from the rows read before, then loaded.    *)

ListActive(p) ==
  /\ proc[p].pc = "list"
  /\ proc' = [proc EXCEPT ![p] = [pc |-> "write", i |-> @.i, op |-> @.op, snap |-> ActiveRoutes,
                                  late |-> FALSE]]
  /\ UNCHANGED <<account, inst, spent, docker, hostname, nginx, mishaps>>

(* A write is late if another one came between it and its reading.         *)
WriteMap(p) ==
  /\ proc[p].pc = "write"
  /\ mapFile' = proc[p].snap
  /\ Note("overtaken", proc[p].late /\ proc[p].snap # ActiveRoutes)
  /\ proc' = [q \in Procs |->
       IF q = p THEN [pc |-> "reload", i |-> proc[p].i, op |-> proc[p].op]
       ELSE IF proc[q].pc = "write" THEN [proc[q] EXCEPT !.late = TRUE] ELSE proc[q]]
  /\ UNCHANGED <<account, inst, spent, docker, hostname, loaded>>

(* Mutant: a failed nginx -t is ignored.                                   *)
ReloadIgnored(p) ==
  /\ proc[p].pc = "reload"
  /\ loaded' \in {loaded, mapFile}
  /\ Finish(p)
  /\ UNCHANGED <<account, inst, spent, docker, hostname, mapFile, mishaps>>

ReloadNginx(p) ==
  /\ proc[p].pc = "reload"
  /\ \/ loaded' = mapFile /\ Finish(p) /\ UNCHANGED mishaps
     \/ /\ Fault("reload") /\ UNCHANGED loaded
        /\ IF proc[p].op = "provision" THEN Goto(p, "rollback") ELSE Finish(p)
  /\ UNCHANGED <<account, inst, spent, docker, hostname, mapFile>>

(* The platform's process dies; Docker, nginx and the database go on.      *)
Crash ==
  /\ \E p \in Procs : proc[p] # Idle
  /\ Fault("crash")
  /\ proc' = [p \in Procs |-> Idle]
  /\ UNCHANGED <<account, inst, spent, docker, hostname, nginx>>

----------------------------------------------------------------------------

Init ==
  /\ account = [c \in Customers |-> NoAccount]
  /\ inst = [i \in Ids |-> NoRow]
  /\ spent = {}
  /\ container = [i \in Ids |-> "none"]
  /\ volume = {} /\ hostname = {}
  /\ mapFile = {} /\ loaded = {}
  /\ proc = [p \in Procs |-> Idle]
  /\ mishaps = {}

Begin(p) ==
  \/ \E c \in Customers :
       \/ VerifyBegin(p, c)
       \/ \E d \in Domains : SignupBegin(p, c, d) \/ ProvisionBegin(p, c, d)
  \/ \E i \in Ids, op \in DOMAIN FirstStep : LifecycleBegin(p, i, op)

Step(p) ==
  \/ SignupCreate(p) \/ SignupAutoVerify(p) \/ VerifyUpdate(p) \/ VerifyHasInstance(p)
  \/ CheckDuplicate(p) \/ CheckPerCustomer(p) \/ CheckCapacity(p) \/ NextFreePort(p)
  \/ CreateRow(p) \/ RunContainer(p) \/ SetUpTenant(p) \/ CreateHostname(p)
  \/ RollbackContainer(p) \/ RollbackRow(p)
  \/ StopContainer(p) \/ StartContainer(p) \/ AwaitHealth(p)
  \/ RemoveContainer(p) \/ EraseVolume(p) \/ DeleteHostname(p)
  \/ UpdateStatus(p) \/ ListActive(p) \/ WriteMap(p) \/ ReloadNginx(p)

Next == Crash \/ \E p \in Procs : Begin(p) \/ Step(p)

Spec == Init /\ [][Next]_vars

----------------------------------------------------------------------------
(* Properties.                                                             *)

Without(kinds) == mishaps \cap kinds = {}
Unattended == {i \in spent : Working(i) = {}}

(* Rows, containers, routes and requests have the shapes the code gives    *)
(* them, and a row's status is one of the four the schema names.           *)
TypeOK ==
  /\ account \in [Customers -> Account \cup {NoAccount}]
  /\ inst \in [Ids -> Row \cup {NoRow}]
  /\ spent \subseteq Ids /\ Rows \subseteq spent
  /\ container \in [Ids -> {"none", "running", "stopped"}]
  /\ volume \subseteq spent /\ hostname \subseteq spent
  /\ mapFile \subseteq [d : Domains, port : Ports]
  /\ loaded \subseteq [d : Domains, port : Ports]
  /\ \A p \in Procs : "i" \in DOMAIN proc[p] => proc[p].i \in spent
  /\ mishaps \subseteq Faults \cup Crossings

(* While no request works on it, an active instance's container runs, a    *)
(* suspended one's does not and a deleted one has neither container, data  *)
(* nor hostname, provided its requests did not cross, Docker and           *)
(* Cloudflare did what they were asked and no request was cut short.       *)
StatusMatchesContainer ==
  Without({"crossed", "revived", "rm", "cf", "slow", "crash"}) =>
    \A i \in Unattended \cap Rows :
      /\ inst[i].status # "pending"
      /\ inst[i].status = "active" => container[i] = "running"
      /\ inst[i].status = "suspended" => container[i] # "running"
      /\ inst[i].status = "deleted" =>
           container[i] = "none" /\ i \notin volume \cup hostname

(* nginx routes exactly to the active instances, unless some request still *)
(* has to write the map or load it: requests for different instances do    *)
(* not undo each other's routes, if no write of the map overtakes another. *)
RoutesCatchUp ==
  Without({"crossed", "overtaken", "reload", "crash"}) =>
    \/ loaded = ActiveRoutes
    \/ \E p \in Procs : proc[p].pc \in {"list", "write", "reload"}

(* A provisioning that failed leaves no container, hostname or route, if   *)
(* Docker removed what it was told to and it was not nginx that failed.    *)
FailedLeavesNothing ==
  Without({"crossed", "overtaken", "rm", "reload"}) =>
    \A i \in Unattended \ Rows : container[i] = "none" /\ i \notin hostname

(* A customer never has more than MAX_INSTANCES_PER_CUSTOMER instances,    *)
(* suspended ones included, unless two of his requests were past the check *)
(* at the same time or a deleted instance was brought back.                *)
LimitHolds ==
  Without({"revived", "raced"}) =>
    \A c \in Customers : Cardinality(Live(c)) <= MaxPerCustomer

=============================================================================
