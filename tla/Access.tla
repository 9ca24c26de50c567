------------------------------- MODULE Access -------------------------------
(***************************************************************************)
(* Who may do what: access keys, public buckets, custom domains and the    *)
(* presigned URLs of the dashboard, while administrators change them       *)
(* between the awaits of a request.                                        *)
(*                                                                         *)
(* An instant is a fraction of a second.  A signature is the knowledge of  *)
(* which key signed what, so comparing digests is comparing those.         *)
(***************************************************************************)
EXTENDS Integers, FiniteSets, Sequences

CONSTANTS
  Buckets, Hosts, Reqs,
  FirstBuckets, FirstKeys, FirstDomains,    \* what has been set up already
  SubdomainOf,     \* the bucket a host names as a subdomain of BASE_DOMAIN, or None
  Permissions,     \* the permissions keys are created with
  Lifetimes,       \* the expiresInSeconds asked for, in instants; 0 if none is
  DefaultLife,     \* one hour
  MaxLife,         \* seven days
  Second,          \* instants in a second
  Skew,            \* REQUEST_SKEW_MS
  Ops,             \* the operations clients ask for
  Clocks,          \* how far clients' clocks are off
  Credentials,     \* the kinds of credentials they present
  MaxTime, MaxChanges,    \* bounds
  None

ASSUME AccessAssumption ==
  /\ FirstBuckets \in [Buckets -> {"none", "private", "public"}]
  /\ FirstKeys \in Seq([permission : Permissions, filter : Buckets \cup {None}, live : BOOLEAN])
  /\ FirstDomains \in Seq([host : Hosts, bucket : Buckets, live : BOOLEAN])
  /\ \A d, e \in 1 .. Len(FirstDomains) :
       FirstDomains[d].live /\ FirstDomains[e].live /\ FirstDomains[d].host = FirstDomains[e].host
         => d = e
  /\ SubdomainOf \in [Hosts -> Buckets \cup {None}]
  /\ Permissions \subseteq {"FULL", "READ_ONLY", "WRITE_ONLY"}
  /\ Ops \subseteq {"get", "list", "put", "delete", "public", "buckets"}
  /\ Lifetimes \subseteq Nat /\ {DefaultLife, MaxLife, Second} \subseteq Nat \ {0}
  /\ Skew \in Nat /\ Clocks \subseteq Int /\ {MaxTime, MaxChanges} \subseteq Nat

VARIABLES
  buckets,   \* of each name: "none", "private" or "public"
  stored,    \* the buckets that hold the object everyone asks for
  keys,      \* the access keys in the order of their creation, deleted ones too
  domains,   \* the custom domains, likewise
  urls,      \* the presigned URLs handed out
  admin,     \* the administrator's request between its checks and its write, or None
  req,       \* the requests of clients
  seen,      \* history: of each request, every right that held while it ran
  now, changes

vars == <<buckets, stored, keys, domains, urls, admin, req, seen, now, changes>>
tables == <<buckets, stored, keys, domains, urls>>

LiveKeys == {k \in 1 .. Len(keys) : keys[k].live}
LiveDomains == {d \in 1 .. Len(domains) : domains[d].live}

KeyOf(credential) ==
  IF credential.kind = "url" THEN credential.url.key ELSE credential.key

Existing == {b \in Buckets : buckets[b] # "none"}

(* What the tables allow at this instant.                                  *)
Rights ==
  {<<"public", b>> : b \in {c \in Buckets : buckets[c] = "public"}}
    \cup {<<"key", k>> : k \in LiveKeys}
    \cup {<<"host", domains[d].host, domains[d].bucket>> : d \in LiveDomains}

(* Those that a request may go by.                                         *)
About(r, rights) ==
  CASE req[r].stage = "idle" -> {}
    [] req[r].stage # "idle" /\ req[r].op = "public" ->
         {x \in rights : x[1] = "public" \/ (x[1] = "host" /\ x[2] = req[r].host)}
    [] OTHER ->
         {x \in rights : \/ x[1] = "public" /\ x[2] = req[r].bucket
                         \/ /\ x[1] = "key" /\ req[r].credential.kind # "none"
                            /\ x[2] = KeyOf(req[r].credential)}

(* Every step adds to what the running requests have seen.                 *)
Watch ==
  seen' = [r \in Reqs |-> IF req'[r].stage = "idle" THEN {}
                          ELSE seen[r] \cup About(r, Rights)']

----------------------------------------------------------------------------
(* The administrator.                                                      *)

Change ==
  /\ changes < MaxChanges
  /\ changes' = changes + 1
  /\ UNCHANGED <<req, now>>

CreateBucket(b) ==
  /\ Change /\ buckets[b] = "none"
  /\ \E access \in {"private", "public"} : buckets' = [buckets EXCEPT ![b] = access]
  /\ UNCHANGED <<stored, keys, domains, urls, admin>>

UpdateBucket(b) ==
  /\ Change /\ buckets[b] # "none"
  /\ \E access \in {"private", "public"} \ {buckets[b]} :
       buckets' = [buckets EXCEPT ![b] = access]
  /\ UNCHANGED <<stored, keys, domains, urls, admin>>

(* Keys and domains refer to a bucket by name only: they stay.             *)
DeleteBucket(b) ==
  /\ Change /\ buckets[b] # "none"
  /\ buckets' = [buckets EXCEPT ![b] = "none"]
  /\ stored' = stored \ {b}
  /\ UNCHANGED <<keys, domains, urls, admin>>

(* Creating a key, and creating or moving a domain, test the bucket first  *)
(* and write later.                                                        *)
Asks(op) == Change /\ admin = None /\ admin' = op /\ UNCHANGED tables

AskKey ==
  \E filter \in Existing \cup {None}, permission \in Permissions :
    Asks([op |-> "key",
          row |-> [permission |-> permission, filter |-> filter, live |-> TRUE]])

AskDomain ==
  \E h \in Hosts, b \in Existing :
    Asks([op |-> "domain", row |-> [host |-> h, bucket |-> b, live |-> TRUE]])

Taken(h, except) == \E d \in LiveDomains \ {except} : domains[d].host = h

AskMove ==
  \E d \in LiveDomains, h \in Hosts, b \in Existing :
    /\ ~Taken(h, d)
    /\ Asks([op |-> "move", id |-> d, row |-> [host |-> h, bucket |-> b, live |-> TRUE]])

Writes(op) ==
  /\ admin # None /\ admin.op = op /\ admin' = None
  /\ UNCHANGED <<buckets, stored, urls, req, now, changes>>

WriteKey == Writes("key") /\ keys' = Append(keys, admin.row) /\ UNCHANGED domains

(* A host is unique in its table, so a second row for it is refused.       *)
WriteDomain ==
  /\ Writes("domain") /\ UNCHANGED keys
  /\ domains' = IF Taken(admin.row.host, 0) THEN domains ELSE Append(domains, admin.row)

WriteMove ==
  /\ Writes("move") /\ UNCHANGED keys
  /\ domains' = IF Taken(admin.row.host, admin.id) \/ admin.id \notin LiveDomains
                THEN domains ELSE [domains EXCEPT ![admin.id] = admin.row]

DeleteKey(k) ==
  /\ Change /\ keys' = [keys EXCEPT ![k].live = FALSE]
  /\ UNCHANGED <<buckets, stored, domains, urls, admin>>

DeleteDomain(d) ==
  /\ Change /\ domains' = [domains EXCEPT ![d].live = FALSE]
  /\ UNCHANGED <<buckets, stored, keys, urls, admin>>

Newest(ks) == CHOOSE k \in ks : \A j \in ks : j <= k
Smaller(m, n) == IF m <= n THEN m ELSE n

(* A URL is dated in whole seconds, and its life is read with parseInt.    *)
WholeSeconds(t) == (t \div Second) * Second
Expiry(url) == WholeSeconds(url.minted) + WholeSeconds(url.life)

(* A key that reaches the bucket is preferred; its permission is not       *)
(* looked at.                                                              *)
Presign(b) ==
  /\ Change /\ LiveKeys # {}
  /\ LET suited == {k \in LiveKeys : keys[k].filter \in {None, b}} IN
     \E lifetime \in Lifetimes :
       urls' = urls \cup
         {[key |-> Newest(IF suited # {} THEN suited ELSE LiveKeys), bucket |-> b,
           minted |-> now,
           life |-> Smaller(MaxLife, IF lifetime = 0 THEN DefaultLife ELSE lifetime)]}
  /\ UNCHANGED <<buckets, stored, keys, domains, admin>>

----------------------------------------------------------------------------
(* A client's request, one a slot.                                         *)

Idle == [stage |-> "idle"]
NoCredential == [kind |-> "none"]

(* What clients present: nothing, a URL from the dashboard, a header they  *)
(* sign with their own clock, or a key's id and secret.                    *)
Presented ==
  {c \in {NoCredential}
         \cup [kind : {"url"}, url : urls]
         \cup [kind : {"header"}, key : 1 .. Len(keys), date : {now + c : c \in Clocks}]
         \cup [kind : {"secret"}, key : 1 .. Len(keys)] : c.kind \in Credentials}

ReadOps == {"get", "list"}
Need(op) == CASE op \in ReadOps -> "read" [] op = "put" -> "write" [] op = "delete" -> "full"

At(r, stage) == req[r].stage = stage
Goes(r, newReq) == req' = [req EXCEPT ![r] = newReq]
Answers(r, outcome) == Goes(r, [req[r] EXCEPT !.stage = "answered", !.outcome = outcome])
Quiet == UNCHANGED <<admin, now, changes>>

Ask(r) ==
  /\ At(r, "idle")
  /\ \E op \in Ops \ {"public", "buckets"}, b \in Buckets, c \in Presented :
       Goes(r, [stage |-> "bucket", op |-> op, bucket |-> b, credential |-> c,
                row |-> None, at |-> now, shown |-> {}, outcome |-> "none"])
  /\ UNCHANGED <<tables, admin, now, changes>>

(* ListBuckets names no bucket and is authenticated at once.               *)
AskBuckets(r) ==
  /\ "buckets" \in Ops /\ At(r, "idle")
  /\ \E c \in Presented :
       Goes(r, [stage |-> "key", op |-> "buckets", bucket |-> None, credential |-> c,
                row |-> None, at |-> now, shown |-> {}, outcome |-> "none"])
  /\ UNCHANGED <<tables, admin, now, changes>>

(* A browser asks a custom domain or a subdomain for the object.           *)
AskHost(r) ==
  /\ "public" \in Ops /\ At(r, "idle")
  /\ \E h \in Hosts :
       Goes(r, [stage |-> "host", op |-> "public", host |-> h, bucket |-> None,
                credential |-> NoCredential, row |-> None, at |-> now, shown |-> {},
                outcome |-> "none"])
  /\ UNCHANGED <<tables, admin, now, changes>>

ResolveHost(r) ==
  /\ At(r, "host")
  /\ LET h == req[r].host
         b == IF Taken(h, 0)
              THEN domains[CHOOSE d \in LiveDomains : domains[d].host = h].bucket
              ELSE SubdomainOf[h]
     IN IF b = None THEN Answers(r, "dashboard")
        ELSE Goes(r, [req[r] EXCEPT !.stage = "bucket", !.bucket = b])
  /\ UNCHANGED tables /\ Quiet

ReadBucket(r) ==
  /\ At(r, "bucket")
  /\ LET access == buckets[req[r].bucket]
         op == req[r].op
     IN CASE op = "public" /\ access # "public" -> Answers(r, "denied")
          [] op # "public" /\ access = "none" -> Answers(r, "missing")
          [] access = "public" /\ op \in ReadOps \cup {"public"} ->
               Goes(r, [req[r] EXCEPT !.stage = "act"])
          [] OTHER -> Goes(r, [req[r] EXCEPT !.stage = "key"])
  /\ UNCHANGED tables /\ Quiet

LookUpKey(r) ==
  /\ At(r, "key")
  /\ LET c == req[r].credential IN
       IF c.kind = "none" \/ (c.kind # "none" /\ KeyOf(c) \notin LiveKeys)
       THEN Answers(r, "denied")
       ELSE Goes(r, [req[r] EXCEPT !.stage = "verify", !.row = keys[KeyOf(c)]])
  /\ UNCHANGED tables /\ Quiet

(* Mutant: the bucket filter is not looked at.                             *)
PermissionDeniedAnywhere(row, b, need) ==
  \/ need = "read" /\ row.permission = "WRITE_ONLY"
  \/ need = "write" /\ row.permission = "READ_ONLY"
  \/ need = "full" /\ row.permission # "FULL"

PermissionDenied(row, b, need) ==
  \/ row.filter \notin {None, b}
  \/ need = "read" /\ row.permission = "WRITE_ONLY"
  \/ need = "write" /\ row.permission = "READ_ONLY"
  \/ need = "full" /\ row.permission # "FULL"

(* A presigned URL is for the GET of its object, and expires by the clock  *)
(* after the key was read.                                                 *)
UrlHolds(r, url) ==
  /\ WholeSeconds(url.minted) - now <= Skew /\ now <= Expiry(url)
  /\ req[r].op = "get" /\ req[r].bucket = url.bucket

(* A signed header must be recent.                                         *)
HeaderHolds(date) == now - date \in -Skew .. Skew

Authentic(r) ==
  LET c == req[r].credential IN
    CASE c.kind = "url" -> UrlHolds(r, c.url)
      [] c.kind = "header" -> HeaderHolds(c.date)
      [] c.kind = "secret" -> TRUE

Verify(r) ==
  /\ At(r, "verify")
  /\ Goes(r, [req[r] EXCEPT
       !.at = now,
       !.stage = IF /\ Authentic(r)
                    /\ \/ req[r].op = "buckets"
                       \/ ~PermissionDenied(req[r].row, req[r].bucket, Need(req[r].op))
                 THEN "act" ELSE "answered",
       !.outcome = "denied"])
  /\ UNCHANGED tables /\ Quiet

(* What the request came for, on the tables as they are by then.           *)
Act(r) ==
  /\ At(r, "act") /\ req[r].op # "buckets"
  /\ LET b == req[r].bucket
         exists == b \in Existing
     IN CASE req[r].op \in {"get", "public"} ->
               /\ Answers(r, IF b \in stored THEN "served" ELSE "missing")
               /\ UNCHANGED stored
          [] req[r].op = "list" -> Answers(r, "served") /\ UNCHANGED stored
          [] req[r].op = "put" ->
               /\ Answers(r, IF exists THEN "served" ELSE "failed")
               /\ stored' = IF exists THEN stored \cup {b} ELSE stored
          [] req[r].op = "delete" -> Answers(r, "served") /\ stored' = stored \ {b}
  /\ UNCHANGED <<buckets, keys, domains, urls>> /\ Quiet

ListBuckets(r) ==
  /\ At(r, "act") /\ req[r].op = "buckets"
  /\ LET shown == {b \in Existing : req[r].row.filter \in {None, b}} IN
       Goes(r, [req[r] EXCEPT !.stage = "answered", !.outcome = "served", !.shown = shown])
  /\ UNCHANGED tables /\ Quiet

Tick == now < MaxTime /\ now' = now + 1 /\ UNCHANGED <<tables, admin, req, changes>>

----------------------------------------------------------------------------

Init ==
  /\ buckets = FirstBuckets /\ stored = Existing
  /\ keys = FirstKeys /\ domains = FirstDomains /\ urls = {} /\ admin = None
  /\ req = [r \in Reqs |-> Idle] /\ seen = [r \in Reqs |-> {}]
  /\ now = 0 /\ changes = 0

Administer ==
  \/ \E b \in Buckets : CreateBucket(b) \/ UpdateBucket(b) \/ DeleteBucket(b) \/ Presign(b)
  \/ AskKey \/ AskDomain \/ AskMove
  \/ WriteKey \/ WriteDomain \/ WriteMove
  \/ \E k \in LiveKeys : DeleteKey(k)
  \/ \E d \in LiveDomains : DeleteDomain(d)

Serve ==
  \E r \in Reqs :
    \/ Ask(r) \/ AskBuckets(r) \/ AskHost(r) \/ ResolveHost(r) \/ ReadBucket(r)
    \/ LookUpKey(r) \/ Verify(r) \/ Act(r) \/ ListBuckets(r)

Next == (Administer \/ Serve \/ Tick) /\ Watch

Spec == Init /\ [][Next]_vars

----------------------------------------------------------------------------
(* Properties.                                                             *)

(* The variables have the shapes the code gives them, and every host       *)
(* resolves to at most one bucket.                                         *)
TypeOK ==
  /\ buckets \in [Buckets -> {"none", "private", "public"}]
  /\ stored \subseteq Existing
  /\ \A k \in 1 .. Len(keys) : keys[k].filter \in Buckets \cup {None}
  /\ \A d, e \in LiveDomains : domains[d].host = domains[e].host => d = e
  /\ \A url \in urls : url.key \in 1 .. Len(keys) /\ url.life \in 1 .. MaxLife
  /\ \A r \in Reqs : req[r].stage \in {"idle", "host", "bucket", "key", "verify", "act",
                                       "answered"}

Answered(r, outcome) == At(r, "answered") /\ req[r].outcome = outcome

(* The operations a permission is for.                                     *)
Granted == [FULL |-> {"get", "list", "put", "delete"}, READ_ONLY |-> {"get", "list"},
            WRITE_ONLY |-> {"put"}]

(* The key the request's credential names lived while the request ran and  *)
(* reaches what was done.                                                  *)
ByKey(r) ==
  LET k == KeyOf(req[r].credential) IN
    /\ req[r].credential.kind # "none"
    /\ <<"key", k>> \in seen[r]
    /\ IF req[r].op = "buckets"
       THEN keys[k].filter # None => req[r].shown \subseteq {keys[k].filter}
       ELSE /\ keys[k].filter \in {None, req[r].bucket}
            /\ req[r].op \in Granted[keys[k].permission]

(* Whatever a request was given - an object, a listing, a write, a         *)
(* deletion - was allowed at some moment while the request ran: the bucket *)
(* was public and, for a host, the host's; or the key was still there, and *)
(* reached the bucket and the operation.                                   *)
ServedWasAllowed ==
  \A r \in Reqs : Answered(r, "served") =>
    CASE req[r].op = "public" ->
           /\ <<"public", req[r].bucket>> \in seen[r]
           /\ \/ <<"host", req[r].host, req[r].bucket>> \in seen[r]
              \/ SubdomainOf[req[r].host] = req[r].bucket
      [] req[r].op \in ReadOps -> <<"public", req[r].bucket>> \in seen[r] \/ ByKey(r)
      [] OTHER -> ByKey(r)

(* A presigned URL works for its object and nothing else, at least until   *)
(* its date and its life, both cut to whole seconds, are over, and never   *)
(* after its life or seven days, unless its key is deleted or does not     *)
(* reach the bucket.                                                       *)
UrlsHonoured ==
  \A r \in Reqs : At(r, "answered") /\ req[r].credential.kind = "url" =>
    LET url == req[r].credential.url
        age == req[r].at - url.minted
    IN /\ /\ Answered(r, "denied") /\ req[r].op = "get" /\ req[r].bucket = url.bucket
          /\ url.key \in LiveKeys
          /\ keys[url.key].filter \in {None, url.bucket}
          /\ "get" \in Granted[keys[url.key].permission]
          => age > url.life - 2 * (Second - 1)
       /\ /\ Answered(r, "served") /\ <<"public", req[r].bucket>> \notin seen[r]
          => /\ age <= url.life /\ age <= MaxLife
             /\ req[r].op = "get" /\ req[r].bucket = url.bucket

(* Both, for requests whose credentials are changed while they run.        *)
AccessHolds == ServedWasAllowed /\ UrlsHonoured
=============================================================================
