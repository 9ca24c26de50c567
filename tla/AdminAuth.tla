----------------------------- MODULE AdminAuth -----------------------------
(***************************************************************************)
(* The administrator's login, its lockout and the dashboard sessions.      *)
(*                                                                         *)
(* The lockout counters live in memory and a login checks, compares and    *)
(* counts without an await, so a login is one step; a session is a row of  *)
(* the database, and a request that renews it reads the row and writes it  *)
(* back in two steps.  Every instant is kept relative to now: `left` is    *)
(* the time until an instant, `age` the time since one, and Tick moves     *)
(* them all; ages stop one past the limit they are compared with, so the   *)
(* clock itself needs no bound.                                            *)
(***************************************************************************)
EXTENDS Integers, FiniteSets

CONSTANTS
  Ips,             \* client addresses
  Tokens,          \* session tokens; a token is random and used once
  Workers,         \* slots for requests that wait for the database
  FailThreshold, GlobalThreshold,  \* LOGIN_FAIL_THRESHOLD, LOGIN_GLOBAL_THRESHOLD
  IpCooldown, GlobalCooldown,      \* LOGIN_IP_COOLDOWN_SEC, LOGIN_GLOBAL_COOLDOWN_SEC
  FailWindow, MaxCooldown,         \* FAIL_WINDOW_MS, MAX_GLOBAL_COOLDOWN_SEC
  Ttl, MaxAge,     \* ADMIN_SESSION_TTL_HOURS, ADMIN_SESSION_MAX_HOURS
  Bounds           \* pairs of a bound on sessions and one on failures (see Init)

ASSUME LockoutAssumption ==
  /\ FailThreshold \in Nat \ {0} /\ GlobalThreshold \in Nat \ {0}
  /\ IpCooldown \in Nat /\ FailWindow \in Nat /\ MaxCooldown \in Nat
  /\ GlobalCooldown \in 0 .. MaxCooldown
ASSUME SessionAssumption == Ttl \in Nat /\ MaxAge \in Nat
ASSUME BoundsAssumption ==
  Bounds \subseteq [tokens : SUBSET Tokens, failures : Nat, counted : BOOLEAN]

VARIABLES
  perIp,     \* perIp[ip]: the address's counter
  global,    \* the counter over all addresses
  cooldown,  \* globalCooldownSec: the next global cooldown
  blame,     \* history: whose failures the global counter counts
  session,   \* session[t]: the session row, or Unused or Deleted
  since,     \* since[t]: time since the last request t was accepted for
  job,       \* job[w]: the request in slot w
  bound,     \* the bounds of this behaviour, chosen once
  failures   \* failures so far, where they are counted

vars == <<perIp, global, cooldown, blame, session, since, job, bound, failures>>
lockout == <<perIp, global, cooldown, blame, failures>>

----------------------------------------------------------------------------
(* Counters and rows.                                                      *)

Never == -1   \* the age of something that has not happened
Counter(max) == [fails : Nat, age : Never .. FailWindow + 1, left : 0 .. max]
EmptyCounter == [fails |-> 0, age |-> Never, left |-> 0]

Unused == [age |-> Never, left |-> 0]
Deleted == [age |-> MaxAge + 1, left |-> -1]
Row == [age : 0 .. MaxAge, left : -1 .. MaxAge]
Exists(t) == session[t] \notin {Unused, Deleted}

Idle == [pc |-> "idle"]
CreateJob == [pc : {"create"}, t : Tokens, left : -1 .. MaxAge]
RenewJob == [pc : {"renew"}, t : Tokens, left : -1 .. MaxAge]

Lesser(m, n) == IF m <= n THEN m ELSE n
Finish(w) == job' = [job EXCEPT ![w] = Idle]

(* sessionExpiry, as time from now, for a session of that age.             *)
SessionExpiry(age) == Lesser(Ttl, MaxAge - age)

----------------------------------------------------------------------------
(* lockout.ts                                                              *)

Freshen(c) == IF c.age > FailWindow THEN EmptyCounter ELSE c

Locked(c) == Freshen(c).left > 0
IsLockedOut(ip) == Locked(perIp[ip]) \/ Locked(global)

(* One more failure on counter c; at the threshold it locks until `until`. *)
Count(c, threshold, until) ==
  LET first == IF c.fails = 0 THEN 0 ELSE c.age IN
    IF c.fails + 1 >= threshold
    THEN [fails |-> 0, age |-> first, left |-> until]
    ELSE [fails |-> c.fails + 1, age |-> first, left |-> c.left]

(* Mutant: reaching the threshold does not lock the address.               *)
CountIpOpen(ip) ==
  perIp' = [perIp EXCEPT ![ip] = Count(Freshen(@), FailThreshold, 0)]

CountIp(ip) ==
  perIp' = [perIp EXCEPT ![ip] = Count(Freshen(@), FailThreshold, IpCooldown)]

(* Mutant: the cooldown doubles without a cap.                             *)
CountGlobalUncapped(ip) ==
  LET c == Freshen(global) IN
    /\ global' = Count(c, GlobalThreshold, c.left + cooldown)
    /\ cooldown' = IF c.fails + 1 >= GlobalThreshold THEN 2 * cooldown ELSE cooldown
    /\ blame' = {ip} \cup IF c.fails = 0 THEN {} ELSE blame

CountGlobal(ip) ==
  LET c == Freshen(global) IN
    /\ global' = Count(c, GlobalThreshold, c.left + Lesser(cooldown, MaxCooldown))
    /\ cooldown' = IF c.fails + 1 >= GlobalThreshold
                   THEN Lesser(2 * cooldown, MaxCooldown) ELSE cooldown
    /\ blame' = {ip} \cup IF c.fails = 0 THEN {} ELSE blame

ResetLockout(ip) ==
  /\ perIp' = [perIp EXCEPT ![ip] = EmptyCounter]
  /\ global' = EmptyCounter
  /\ cooldown' = GlobalCooldown
  /\ blame' = {}

MayFail ==
  /\ bound.counted => failures < bound.failures
  /\ failures' = IF bound.counted THEN failures + 1 ELSE failures

----------------------------------------------------------------------------
(* POST /api/admin/login.  A locked address or a global lock answers 429   *)
(* and changes nothing.                                                    *)

(* Mutant: a refused login counts as one more failure.                     *)
LoginFailsLocked(ip) ==
  /\ MayFail
  /\ CountIp(ip) /\ CountGlobal(ip)
  /\ UNCHANGED <<session, since, job, bound>>

LoginFails(ip) ==
  /\ ~IsLockedOut(ip) /\ MayFail
  /\ CountIp(ip) /\ CountGlobal(ip)
  /\ UNCHANGED <<session, since, job, bound>>

(* The lockout is reset, then the session row is written; the database may *)
(* refuse it.  A login without a token stands for one whose row is never   *)
(* written.                                                                *)
LoginSucceeds(w, ip) ==
  /\ ~IsLockedOut(ip) /\ job[w] = Idle
  /\ ResetLockout(ip)
  /\ \/ UNCHANGED job
     \/ \E t \in bound.tokens :
          /\ session[t] = Unused /\ \A v \in Workers : job[v] # Idle => job[v].t # t
          /\ job' = [job EXCEPT ![w] = [pc |-> "create", t |-> t,
                                        left |-> SessionExpiry(0)]]
  /\ UNCHANGED <<session, since, bound, failures>>

CreateSession(w) ==
  /\ job[w].pc = "create"
  /\ session' = [session EXCEPT ![job[w].t] = [age |-> 0, left |-> job[w].left]]
  /\ since' = [since EXCEPT ![job[w].t] = 0]
  /\ Finish(w)
  /\ UNCHANGED <<lockout, bound>>

(* POST /api/admin/logout.                                                 *)
DestroySession(t) ==
  /\ Exists(t)
  /\ session' = [session EXCEPT ![t] = Deleted]
  /\ UNCHANGED <<lockout, since, job, bound>>

----------------------------------------------------------------------------
(* The guard of every other admin request: a live session is accepted and  *)
(* renewed; otherwise the x-admin-secret header decides.                   *)

(* Mutant: renewal forgets the ceiling.                                    *)
GuardAcceptsSliding(w, t) ==
  /\ job[w] = Idle /\ Exists(t) /\ session[t].left > 0
  /\ since' = [since EXCEPT ![t] = 0]
  /\ job' = IF session[t].left = Ttl THEN job
            ELSE [job EXCEPT ![w] = [pc |-> "renew", t |-> t, left |-> Ttl]]
  /\ UNCHANGED <<lockout, session, bound>>

GuardAccepts(w, t) ==
  /\ job[w] = Idle /\ Exists(t) /\ session[t].left > 0
  /\ since' = [since EXCEPT ![t] = 0]
  /\ LET next == SessionExpiry(session[t].age) IN
       job' = IF next = session[t].left THEN job
              ELSE [job EXCEPT ![w] = [pc |-> "renew", t |-> t, left |-> next]]
  /\ UNCHANGED <<lockout, session, bound>>

(* Mutant: the row is written back whether or not it still exists.         *)
RenewUpserts(w) ==
  /\ job[w].pc = "renew"
  /\ session' = [session EXCEPT ![job[w].t] =
                   [age |-> Lesser(@.age, MaxAge), left |-> job[w].left]]
  /\ Finish(w)
  /\ UNCHANGED <<lockout, since, bound>>

(* The update is by id: it fails if the row is gone.                       *)
RenewSession(w) ==
  /\ job[w].pc = "renew"
  /\ LET t == job[w].t IN
       session' = IF Exists(t) THEN [session EXCEPT ![t].left = job[w].left] ELSE session
  /\ Finish(w)
  /\ UNCHANGED <<lockout, since, bound>>

(* A wrong header counts for its address only, and locked or not.          *)
HeaderFails(ip) ==
  /\ MayFail
  /\ CountIp(ip)
  /\ UNCHANGED <<global, cooldown, blame, session, since, job, bound>>

----------------------------------------------------------------------------
(* Time and the hourly sweep.                                              *)

SweepExpiredSessions ==
  /\ \E t \in Tokens : Exists(t) /\ session[t].left < 0
  /\ session' = [t \in Tokens |->
                   IF Exists(t) /\ session[t].left < 0 THEN Deleted ELSE session[t]]
  /\ UNCHANGED <<lockout, since, job, bound>>

Later(c) ==
  [c EXCEPT !.age = IF @ = Never THEN Never ELSE Lesser(@ + 1, FailWindow + 1),
            !.left = IF @ = 0 THEN 0 ELSE @ - 1]
Sooner(left) == IF left < 0 THEN left ELSE left - 1

Tick ==
  /\ perIp' = [ip \in Ips |-> Later(perIp[ip])]
  /\ global' = Later(global)
  /\ session' = [t \in Tokens |->
       IF Exists(t) THEN [age |-> Lesser(session[t].age + 1, MaxAge),
                          left |-> Sooner(session[t].left)]
       ELSE session[t]]
  /\ since' = [t \in Tokens |-> Lesser(since[t] + 1, Ttl + 1)]
  /\ job' = [w \in Workers |->
       IF job[w] = Idle THEN Idle ELSE [job[w] EXCEPT !.left = Sooner(@)]]
  /\ UNCHANGED <<cooldown, blame, bound, failures>>

----------------------------------------------------------------------------

Init ==
  /\ perIp = [ip \in Ips |-> EmptyCounter]
  /\ global = EmptyCounter
  /\ cooldown = GlobalCooldown
  /\ blame = {}
  /\ session = [t \in Tokens |-> Unused]
  /\ since = [t \in Tokens |-> 0]
  /\ job = [w \in Workers |-> Idle]
  /\ bound \in Bounds
  /\ failures = 0

Next ==
  \/ \E ip \in Ips : LoginFails(ip) \/ HeaderFails(ip)
  \/ \E w \in Workers :
       \/ \E ip \in Ips : LoginSucceeds(w, ip)
       \/ \E t \in Tokens : GuardAccepts(w, t)
       \/ CreateSession(w) \/ RenewSession(w)
  \/ \E t \in Tokens : DestroySession(t)
  \/ SweepExpiredSessions
  \/ Tick

Spec == Init /\ [][Next]_vars

(* Time passes and the sweep's timer keeps firing.                         *)
FairSpec == Spec /\ WF_vars(Tick) /\ WF_vars(SweepExpiredSessions)

----------------------------------------------------------------------------
(* Properties.                                                             *)

(* Every variable holds the kind of value the code keeps there; the global *)
(* lock in particular never lasts longer than MAX_GLOBAL_COOLDOWN_SEC.     *)
TypeOK ==
  /\ perIp \in [Ips -> Counter(IpCooldown)]
  /\ global \in Counter(MaxCooldown)
  /\ cooldown \in 0 .. MaxCooldown
  /\ blame \subseteq Ips
  /\ session \in [Tokens -> Row \cup {Unused, Deleted}]
  /\ since \in [Tokens -> 0 .. Ttl + 1]
  /\ job \in [Workers -> {Idle} \cup CreateJob \cup RenewJob]
  /\ bound \in Bounds
  /\ failures \in Nat

(* No session outlives its creation by more than the absolute maximum,     *)
(* however often it is renewed and however late a renewal is written.      *)
SessionCeiling ==
  \A t \in Tokens : Exists(t) /\ session[t].left >= 0 =>
    session[t].age + session[t].left <= MaxAge

(* A session nobody uses dies a TTL after the last request it was accepted *)
(* for, even if renewals are written late or in the wrong order.           *)
IdleSessionDies ==
  \A t \in Tokens : Exists(t) /\ session[t].left >= 0 =>
    since[t] + session[t].left <= Ttl

(* So no session lives too long, by either measure.                        *)
SessionsExpire == SessionCeiling /\ IdleSessionDies

(* A logged-out or swept session never comes back, whichever renewal of it *)
(* is still on its way.                                                    *)
DeletedStaysDeleted ==
  [][\A t \in Tokens : session[t] = Deleted => session'[t] = Deleted]_vars

(* A single address cannot trip the global lockout: with a threshold of at *)
(* least three times the per-address one and a per-address cooldown longer *)
(* than half the window (by default it is half of it, to the millisecond), *)
(* it is locked itself before.                                             *)
GlobalNeedsTwoSources == Locked(global) => Cardinality(blame) > 1

(* Every session ends, even one that a dashboard keeps renewing.           *)
SessionsEnd == \A t \in Tokens : Exists(t) ~> ~Exists(t)

(* An address is not refused for ever, whatever other addresses do, unless *)
(* a wrong header keeps coming from it.                                    *)
LockoutEnds ==
  \A ip \in Ips : []<><<HeaderFails(ip)>>_vars \/ []<>~IsLockedOut(ip)

(* Neither a session nor an address's lock lasts for ever.                 *)
SessionsAndLocksEnd == SessionsEnd /\ LockoutEnds

=============================================================================
