-------------------------- MODULE AdminAuthProofs --------------------------
(***************************************************************************)
(* What holds of the administrator's login and sessions for any number of  *)
(* addresses, tokens and concurrent requests and any thresholds, cooldowns *)
(* and lifetimes: the types, the two limits on a session's life, that a    *)
(* deleted session stays deleted, and what it takes to trip the global     *)
(* lock.                                                                   *)
(***************************************************************************)
EXTENDS AdminAuth, FiniteSetTheorems, TLAPS

----------------------------------------------------------------------------
(* Counters and instants.                                                  *)

LEMMA FreshenType ==
  ASSUME NEW max \in Nat, NEW c \in Counter(max)
  PROVE  Freshen(c) \in Counter(max)
BY LockoutAssumption DEF Freshen, Counter, EmptyCounter, Never

LEMMA CountType ==
  ASSUME NEW max \in Nat, NEW c \in Counter(max), NEW threshold \in Nat,
         NEW until \in 0 .. max
  PROVE  Count(c, threshold, until) \in Counter(max)
BY LockoutAssumption DEF Count, Counter, Never

LEMMA LaterType ==
  ASSUME NEW max \in Nat, NEW c \in Counter(max)
  PROVE  Later(c) \in Counter(max)
<1>1. c.age \in -1 .. FailWindow + 1 /\ c.left \in 0 .. max
  BY DEF Counter, Never
<1>2. Lesser(c.age + 1, FailWindow + 1) \in Never .. FailWindow + 1
  BY <1>1, LockoutAssumption DEF Never, Lesser
<1>3. (IF c.age = Never THEN Never ELSE Lesser(c.age + 1, FailWindow + 1))
        \in Never .. FailWindow + 1
  BY <1>2, LockoutAssumption DEF Never
<1>4. (IF c.left = 0 THEN 0 ELSE c.left - 1) \in 0 .. max
  BY <1>1
<1> QED
  BY <1>3, <1>4 DEF Later, Counter

(* A session's new expiry respects both limits.                            *)
LEMMA ExpiryBounds ==
  ASSUME NEW age \in 0 .. MaxAge
  PROVE  /\ SessionExpiry(age) \in 0 .. MaxAge
         /\ SessionExpiry(age) <= Ttl
         /\ age + SessionExpiry(age) <= MaxAge
BY SessionAssumption DEF SessionExpiry, Lesser

(* A row that exists is a row.                                             *)
LEMMA ExistsRow ==
  ASSUME TypeOK, NEW t \in Tokens
  PROVE  Exists(t) <=> session[t] \in Row
BY SessionAssumption DEF TypeOK, Exists, Row, Unused, Deleted, Never

(* A busy slot holds a token and an expiry.                                *)
LEMMA JobShape ==
  ASSUME TypeOK, NEW w \in Workers
  PROVE  /\ job[w] = Idle => job[w].pc = "idle"
         /\ job[w] # Idle => /\ job[w].pc \in {"create", "renew"}
                             /\ job[w].t \in Tokens
                             /\ job[w].left \in -1 .. MaxAge
BY DEF TypeOK, Idle, CreateJob, RenewJob

----------------------------------------------------------------------------
(* Types.                                                                  *)

LEMMA CountIpType ==
  ASSUME TypeOK, NEW ip \in Ips, CountIp(ip)
  PROVE  perIp' \in [Ips -> Counter(IpCooldown)]
<1>1. perIp[ip] \in Counter(IpCooldown)
  BY DEF TypeOK
<1>2. Count(Freshen(perIp[ip]), FailThreshold, IpCooldown) \in Counter(IpCooldown)
  BY <1>1, FreshenType, CountType, LockoutAssumption
<1> QED
  BY <1>2 DEF TypeOK, CountIp

(* The login is refused while the global lock holds, so a new lock starts  *)
(* from now and not from the end of the old one.                           *)
LEMMA CountGlobalType ==
  ASSUME TypeOK, NEW ip \in Ips, ~Locked(global), CountGlobal(ip)
  PROVE  /\ global' \in Counter(MaxCooldown)
         /\ cooldown' \in 0 .. MaxCooldown
         /\ blame' \subseteq Ips
<1> DEFINE c == Freshen(global)
<1>1. c \in Counter(MaxCooldown)
  BY FreshenType, LockoutAssumption DEF TypeOK
<1>2. c.left = 0
  BY <1>1 DEF Locked, Counter
<1>3. Lesser(cooldown, MaxCooldown) \in 0 .. MaxCooldown
  BY LockoutAssumption DEF TypeOK, Lesser
<1>4. c.left + Lesser(cooldown, MaxCooldown) \in 0 .. MaxCooldown
  BY <1>2, <1>3
<1>5. global' \in Counter(MaxCooldown)
  BY <1>1, <1>4, CountType, LockoutAssumption DEF CountGlobal
<1>6. cooldown' \in 0 .. MaxCooldown
  BY LockoutAssumption DEF TypeOK, CountGlobal, Lesser
<1>7. blame' \subseteq Ips
  BY DEF TypeOK, CountGlobal
<1> QED
  BY <1>5, <1>6, <1>7

LEMMA ResetType ==
  ASSUME TypeOK, NEW ip \in Ips, ResetLockout(ip)
  PROVE  /\ perIp' \in [Ips -> Counter(IpCooldown)]
         /\ global' \in Counter(MaxCooldown)
         /\ cooldown' \in 0 .. MaxCooldown
         /\ blame' \subseteq Ips
<1>1. EmptyCounter \in Counter(IpCooldown) /\ EmptyCounter \in Counter(MaxCooldown)
  BY LockoutAssumption DEF EmptyCounter, Counter, Never
<1> QED
  BY <1>1, LockoutAssumption DEF TypeOK, ResetLockout

LEMMA InitTypes == Init => TypeOK
<1> SUFFICES ASSUME Init PROVE TypeOK
  OBVIOUS
<1>1. EmptyCounter \in Counter(IpCooldown) /\ EmptyCounter \in Counter(MaxCooldown)
  BY LockoutAssumption DEF EmptyCounter, Counter, Never
<1> QED
  BY <1>1, LockoutAssumption, SessionAssumption DEF Init, TypeOK

(* A login attempt, from the form or the header, keeps the types.          *)
LEMMA AttemptTypes ==
  ASSUME TypeOK, NEW ip \in Ips, LoginFails(ip) \/ HeaderFails(ip)
  PROVE  TypeOK'
<1>1. failures' \in Nat
  BY DEF TypeOK, LoginFails, HeaderFails, MayFail
<1>2. perIp' \in [Ips -> Counter(IpCooldown)]
  BY CountIpType DEF LoginFails, HeaderFails
<1>3. CASE LoginFails(ip)
  <2>1. ~Locked(global) /\ CountGlobal(ip)
    BY <1>3 DEF LoginFails, IsLockedOut
  <2> QED
    BY <1>1, <1>2, <1>3, <2>1, CountGlobalType DEF LoginFails, TypeOK
<1>4. CASE HeaderFails(ip)
  BY <1>1, <1>2, <1>4 DEF HeaderFails, TypeOK
<1> QED
  BY <1>3, <1>4

LEMMA LoginTypes ==
  ASSUME TypeOK, NEW w \in Workers, NEW ip \in Ips, LoginSucceeds(w, ip)
  PROVE  TypeOK'
<1>1. job' \in [Workers -> {Idle} \cup CreateJob \cup RenewJob]
  <2>1. CASE UNCHANGED job
    BY <2>1 DEF TypeOK
  <2>2. CASE job' # job
    <3>1. PICK t \in bound.tokens :
            job' = [job EXCEPT ![w] = [pc |-> "create", t |-> t, left |-> SessionExpiry(0)]]
      BY <2>2 DEF LoginSucceeds
    <3>2. t \in Tokens
      BY <3>1, BoundsAssumption DEF TypeOK
    <3>3. SessionExpiry(0) \in -1 .. MaxAge
      BY ExpiryBounds, SessionAssumption
    <3> QED
      BY <3>1, <3>2, <3>3 DEF TypeOK, CreateJob
  <2> QED
    BY <2>1, <2>2
<1>2. ResetLockout(ip)
  BY DEF LoginSucceeds
<1> QED
  BY <1>1, <1>2, ResetType DEF LoginSucceeds, TypeOK

LEMMA GuardTypes ==
  ASSUME TypeOK, NEW w \in Workers, NEW t \in Tokens, GuardAccepts(w, t)
  PROVE  TypeOK'
<1>1. session[t] \in Row
  BY ExistsRow DEF GuardAccepts
<1>2. SessionExpiry(session[t].age) \in -1 .. MaxAge
  BY <1>1, ExpiryBounds DEF Row
<1>3. [pc |-> "renew", t |-> t, left |-> SessionExpiry(session[t].age)] \in RenewJob
  BY <1>2 DEF RenewJob
<1>4. job' \in [Workers -> {Idle} \cup CreateJob \cup RenewJob]
  BY <1>3 DEF TypeOK, GuardAccepts
<1>5. since' \in [Tokens -> 0 .. Ttl + 1]
  BY SessionAssumption DEF TypeOK, GuardAccepts
<1> QED
  BY <1>4, <1>5 DEF TypeOK, GuardAccepts, lockout

LEMMA WriteTypes ==
  ASSUME TypeOK, NEW w \in Workers, CreateSession(w) \/ RenewSession(w)
  PROVE  TypeOK'
<1>1. job[w] # Idle
  BY JobShape DEF CreateSession, RenewSession
<1>2. job[w].t \in Tokens /\ job[w].left \in -1 .. MaxAge
  BY <1>1, JobShape
<1>3. job' \in [Workers -> {Idle} \cup CreateJob \cup RenewJob]
  BY DEF TypeOK, CreateSession, RenewSession, Finish
<1>4. CASE CreateSession(w)
  <2>1. [age |-> 0, left |-> job[w].left] \in Row
    BY <1>2, SessionAssumption DEF Row
  <2> QED
    BY <1>2, <1>3, <1>4, <2>1, SessionAssumption DEF TypeOK, CreateSession, lockout
<1>5. CASE RenewSession(w)
  <2>1. session' \in [Tokens -> Row \cup {Unused, Deleted}]
    <3>1. CASE Exists(job[w].t)
      <4>1. session[job[w].t] \in Row
        BY <1>2, <3>1, ExistsRow
      <4>2. [session[job[w].t] EXCEPT !.left = job[w].left] \in Row
        BY <1>2, <4>1 DEF Row
      <4> QED
        BY <1>5, <3>1, <4>2 DEF TypeOK, RenewSession
    <3>2. CASE ~Exists(job[w].t)
      BY <1>5, <3>2 DEF TypeOK, RenewSession
    <3> QED
      BY <3>1, <3>2
  <2> QED
    BY <1>3, <1>5, <2>1 DEF TypeOK, RenewSession, lockout
<1> QED
  BY <1>4, <1>5

LEMMA EndTypes ==
  ASSUME TypeOK, SweepExpiredSessions \/ \E t \in Tokens : DestroySession(t)
  PROVE  TypeOK'
<1>1. session' \in [Tokens -> Row \cup {Unused, Deleted}]
  BY DEF TypeOK, SweepExpiredSessions, DestroySession
<1> QED
  BY <1>1 DEF TypeOK, SweepExpiredSessions, DestroySession, lockout

LEMMA SoonerType ==
  ASSUME NEW left \in -1 .. MaxAge
  PROVE  /\ Sooner(left) \in -1 .. MaxAge
         /\ Sooner(left) >= 0 => left = Sooner(left) + 1
BY SessionAssumption DEF Sooner

LEMMA TickTypes == ASSUME TypeOK, Tick PROVE TypeOK'
<1>1. perIp' \in [Ips -> Counter(IpCooldown)] /\ global' \in Counter(MaxCooldown)
  BY LaterType, LockoutAssumption DEF TypeOK, Tick
<1>2. session' \in [Tokens -> Row \cup {Unused, Deleted}]
  <2> SUFFICES ASSUME NEW t \in Tokens, Exists(t)
               PROVE  [age |-> Lesser(session[t].age + 1, MaxAge),
                       left |-> Sooner(session[t].left)] \in Row
    BY DEF TypeOK, Tick
  <2>1. session[t].age \in 0 .. MaxAge /\ session[t].left \in -1 .. MaxAge
    BY ExistsRow DEF Row
  <2> QED
    BY <2>1, SoonerType, SessionAssumption DEF Row, Lesser
<1>3. since' \in [Tokens -> 0 .. Ttl + 1]
  BY SessionAssumption DEF TypeOK, Tick, Lesser
<1>4. job' \in [Workers -> {Idle} \cup CreateJob \cup RenewJob]
  <2> SUFFICES ASSUME NEW w \in Workers, job[w] # Idle
               PROVE  [job[w] EXCEPT !.left = Sooner(job[w].left)] \in CreateJob \cup RenewJob
    BY DEF TypeOK, Tick
  <2>1. Sooner(job[w].left) \in -1 .. MaxAge
    BY JobShape, SoonerType
  <2>2. job[w] \in CreateJob \cup RenewJob
    BY DEF TypeOK
  <2> QED
    BY <2>1, <2>2 DEF CreateJob, RenewJob
<1> QED
  BY <1>1, <1>2, <1>3, <1>4 DEF TypeOK, Tick

LEMMA StepTypes == TypeOK /\ [Next]_vars => TypeOK'
<1> SUFFICES ASSUME TypeOK, [Next]_vars PROVE TypeOK'
  OBVIOUS
<1>1. CASE UNCHANGED vars
  BY <1>1 DEF TypeOK, vars
<1>2. CASE Next
  BY <1>2, AttemptTypes, LoginTypes, GuardTypes, WriteTypes, EndTypes, TickTypes DEF Next
<1> QED
  BY <1>1, <1>2

(* Every variable keeps its type; with it, the global lock never lasts     *)
(* longer than MAX_GLOBAL_COOLDOWN_SEC (lockout.ts), whatever the          *)
(* thresholds are.                                                         *)
THEOREM TypeCorrect == Spec => []TypeOK
BY InitTypes, StepTypes, PTL DEF Spec

----------------------------------------------------------------------------
(* Lifetimes.  A row is written from what a request computed some awaits   *)
(* earlier, so SessionsExpire is inductive only with what those requests   *)
(* carry: an expiry that, as time passes, still respects both limits.      *)

Renewals ==
  \A w \in Workers : job[w].pc = "renew" =>
    /\ session[job[w].t] # Unused
    /\ job[w].left >= 0 => since[job[w].t] + job[w].left <= Ttl
    /\ Exists(job[w].t) /\ job[w].left >= 0 =>
         session[job[w].t].age + job[w].left <= MaxAge

(* A token is new and known to nobody until its row is written.            *)
Creations ==
  \A w \in Workers : job[w].pc = "create" =>
    /\ session[job[w].t] = Unused
    /\ job[w].left <= Ttl
    /\ \A v \in Workers \ {w} : job[v] # Idle => job[v].t # job[w].t

LifeInv == TypeOK /\ SessionCeiling /\ IdleSessionDies /\ Renewals /\ Creations

LEMMA Markers == /\ Unused \notin Row /\ Deleted \notin Row /\ Unused # Deleted
                 /\ \A w \in Workers : job[w].pc # "idle" => job[w] # Idle
BY SessionAssumption DEF Unused, Deleted, Row, Never, Idle

LEMMA InitLife == Init => LifeInv
BY InitTypes DEF Init, LifeInv, SessionCeiling, IdleSessionDies, Renewals, Creations,
  Exists, Idle

(* Steps that leave sessions and requests alone.                           *)
LEMMA ElsewhereLife ==
  ASSUME LifeInv, TypeOK', UNCHANGED <<session, since, job>>
  PROVE  LifeInv'
BY DEF LifeInv, SessionCeiling, IdleSessionDies, Renewals, Creations, Exists

(* A login takes a token nobody has.                                       *)
LEMMA LoginLife ==
  ASSUME LifeInv, TypeOK', NEW w \in Workers, NEW ip \in Ips, LoginSucceeds(w, ip)
  PROVE  LifeInv'
<1>1. CASE UNCHANGED job
  BY <1>1, ElsewhereLife DEF LoginSucceeds
<1>2. CASE job' # job
  <2>1. PICK t \in bound.tokens :
          /\ session[t] = Unused /\ \A v \in Workers : job[v] # Idle => job[v].t # t
          /\ job' = [job EXCEPT ![w] = [pc |-> "create", t |-> t,
                                        left |-> SessionExpiry(0)]]
    BY <1>2 DEF LoginSucceeds
  <2>2. t \in Tokens
    BY <2>1, BoundsAssumption DEF LifeInv, TypeOK
  <2>3. SessionExpiry(0) <= Ttl
    BY ExpiryBounds, SessionAssumption
  <2>4. job'[w] = [pc |-> "create", t |-> t, left |-> SessionExpiry(0)]
    BY <2>1 DEF LifeInv, TypeOK
  <2>5. \A v \in Workers \ {w} : job'[v] = job[v]
    BY <2>1 DEF LifeInv, TypeOK
  <2>6. Renewals'
    BY <2>4, <2>5 DEF LifeInv, Renewals, LoginSucceeds, Exists
  <2>7. Creations'
    <3> SUFFICES ASSUME NEW u \in Workers, job'[u].pc = "create"
                 PROVE  /\ session'[job'[u].t] = Unused
                        /\ job'[u].left <= Ttl
                        /\ \A v \in Workers \ {u} : job'[v] # Idle => job'[v].t # job'[u].t
      BY DEF Creations
    <3>1. CASE u = w
      BY <2>1, <2>3, <2>4, <2>5, <3>1 DEF LoginSucceeds
    <3>2. CASE u # w
      <4>1. job[u] # Idle
        BY <2>5, <3>2, Markers
      <4>2. job[u].t # t
        BY <2>1, <4>1
      <4> QED
        BY <2>4, <2>5, <3>2, <4>2 DEF LifeInv, Creations, LoginSucceeds
    <3> QED
      BY <3>1, <3>2
  <2> QED
    BY <2>6, <2>7 DEF LifeInv, SessionCeiling, IdleSessionDies, Exists, LoginSucceeds
<1> QED
  BY <1>1, <1>2

(* A request computes its expiry from the row it was accepted for.         *)
LEMMA GuardLife ==
  ASSUME LifeInv, TypeOK', NEW w \in Workers, NEW t \in Tokens, GuardAccepts(w, t)
  PROVE  LifeInv'
<1> DEFINE next == SessionExpiry(session[t].age)
<1>1. session[t] \in Row
  BY ExistsRow DEF LifeInv, GuardAccepts
<1>2. next \in 0 .. MaxAge /\ next <= Ttl /\ session[t].age + next <= MaxAge
  BY <1>1, ExpiryBounds DEF Row
<1>3. since' = [since EXCEPT ![t] = 0] /\ UNCHANGED session
  BY DEF GuardAccepts
<1>4. \A s \in Tokens : since'[s] <= since[s] /\ since'[s] \in Nat /\ since[s] \in Nat
  BY <1>3, SessionAssumption DEF LifeInv, TypeOK
<1>5. SessionCeiling'
  BY <1>3 DEF LifeInv, SessionCeiling, Exists
<1>6. IdleSessionDies'
  <2> SUFFICES ASSUME NEW s \in Tokens, Exists(s), session[s].left >= 0
               PROVE  since'[s] + session[s].left <= Ttl
    BY <1>3 DEF IdleSessionDies, Exists
  <2>1. session[s].left \in -1 .. MaxAge
    BY ExistsRow DEF LifeInv, Row
  <2>2. since[s] + session[s].left <= Ttl
    BY DEF LifeInv, IdleSessionDies
  <2> QED
    BY <1>4, <2>1, <2>2, SessionAssumption
<1>7. \A v \in Workers : \/ job'[v] = job[v]
                         \/ v = w /\ job'[v] = [pc |-> "renew", t |-> t, left |-> next]
  <2>1. \/ job' = job
        \/ job' = [job EXCEPT ![w] = [pc |-> "renew", t |-> t, left |-> next]]
    BY DEF GuardAccepts
  <2> QED
    BY <2>1 DEF LifeInv, TypeOK
<1>8. session[t] # Unused
  BY <1>1, Markers
<1>9. Renewals'
  <2> SUFFICES ASSUME NEW v \in Workers, job'[v].pc = "renew"
               PROVE  /\ session[job'[v].t] # Unused
                      /\ job'[v].left >= 0 => since'[job'[v].t] + job'[v].left <= Ttl
                      /\ Exists(job'[v].t) /\ job'[v].left >= 0 =>
                           session[job'[v].t].age + job'[v].left <= MaxAge
    BY <1>3 DEF Renewals, Exists
  <2>1. CASE job'[v] = job[v]
    <3>1. job[v].t \in Tokens /\ job[v].left \in -1 .. MaxAge
      BY <2>1, JobShape, Markers DEF LifeInv
    <3>2. job[v].left >= 0 => since[job[v].t] + job[v].left <= Ttl
      BY <2>1 DEF LifeInv, Renewals
    <3>3. job[v].left >= 0 => since'[job[v].t] + job[v].left <= Ttl
      BY <1>4, <3>1, <3>2, SessionAssumption
    <3> QED
      BY <2>1, <3>3 DEF LifeInv, Renewals
  <2>2. CASE job'[v] = [pc |-> "renew", t |-> t, left |-> next]
    <3>1. since'[t] = 0
      BY <1>3 DEF LifeInv, TypeOK
    <3> QED
      BY <1>2, <1>8, <2>2, <3>1
  <2> QED
    BY <1>7, <2>1, <2>2
<1>10. Creations'
  <2> SUFFICES ASSUME NEW u \in Workers, job'[u].pc = "create"
               PROVE  /\ session[job'[u].t] = Unused
                      /\ job'[u].left <= Ttl
                      /\ \A v \in Workers \ {u} : job'[v] # Idle => job'[v].t # job'[u].t
    BY <1>3 DEF Creations
  <2>1. job'[u] = job[u]
    BY <1>7
  <2>2. session[job[u].t] = Unused /\ job[u].left <= Ttl
    BY <2>1 DEF LifeInv, Creations
  <2>3. ASSUME NEW v \in Workers \ {u}, job'[v] # Idle PROVE job'[v].t # job'[u].t
    BY <1>7, <1>8, <2>1, <2>2, <2>3 DEF LifeInv, Creations
  <2> QED
    BY <2>1, <2>2, <2>3
<1> QED
  BY <1>5, <1>6, <1>9, <1>10 DEF LifeInv

LEMMA CreateLife ==
  ASSUME LifeInv, TypeOK', NEW w \in Workers, CreateSession(w)
  PROVE  LifeInv'
<1> DEFINE t == job[w].t
<1>1. job[w] # Idle
  BY Markers DEF CreateSession
<1>2. t \in Tokens /\ job[w].left \in -1 .. MaxAge /\ job[w].left <= Ttl
  BY <1>1, JobShape DEF LifeInv, Creations, CreateSession
<1>3. session' = [session EXCEPT ![t] = [age |-> 0, left |-> job[w].left]]
  BY DEF CreateSession
<1>4. since' = [since EXCEPT ![t] = 0]
  BY DEF CreateSession
<1>5. job' = [job EXCEPT ![w] = Idle]
  BY DEF CreateSession, Finish
<1>6. \A v \in Workers : job'[v] # Idle => v # w /\ job'[v] = job[v] /\ job[v].t # t
  BY <1>5 DEF LifeInv, TypeOK, Creations, CreateSession
<1>7. \A s \in Tokens \ {t} : session'[s] = session[s] /\ since'[s] = since[s]
  BY <1>3, <1>4 DEF LifeInv, TypeOK
<1>8. session'[t].age = 0 /\ session'[t].left = job[w].left /\ since'[t] = 0
  BY <1>2, <1>3, <1>4 DEF LifeInv, TypeOK
<1>9. SessionCeiling' /\ IdleSessionDies'
  BY <1>2, <1>7, <1>8, SessionAssumption DEF LifeInv, SessionCeiling, IdleSessionDies, Exists
<1>10. \A v \in Workers : job'[v].pc # "idle" =>
          /\ job'[v] = job[v] /\ job[v] # Idle /\ job[v].t \in Tokens \ {t}
  <2> SUFFICES ASSUME NEW v \in Workers, job'[v].pc # "idle"
               PROVE  job'[v] = job[v] /\ job[v] # Idle /\ job[v].t \in Tokens \ {t}
    OBVIOUS
  <2>1. job'[v] # Idle
    BY DEF Idle
  <2> QED
    BY <1>6, <2>1, JobShape DEF LifeInv
<1>11. Renewals'
  BY <1>7, <1>10 DEF LifeInv, Renewals, Exists
<1>12. Creations'
  BY <1>6, <1>7, <1>10 DEF LifeInv, Creations
<1> QED
  BY <1>9, <1>11, <1>12 DEF LifeInv

LEMMA RenewLife ==
  ASSUME LifeInv, TypeOK', NEW w \in Workers, RenewSession(w)
  PROVE  LifeInv'
<1> DEFINE t == job[w].t
<1>1. job[w] # Idle
  BY Markers DEF RenewSession
<1>2. t \in Tokens /\ job[w].left \in -1 .. MaxAge
  BY <1>1, JobShape DEF LifeInv
<1>3. UNCHANGED since /\ job' = [job EXCEPT ![w] = Idle]
  BY DEF RenewSession, Finish
<1>4. \A s \in Tokens :
        /\ Exists(s)' <=> Exists(s)
        /\ session'[s] = Unused <=> session[s] = Unused
        /\ Exists(s) => session'[s].age = session[s].age
        /\ s # t => session'[s] = session[s]
        /\ s = t /\ Exists(s) => session'[s].left = job[w].left
  <2>1. CASE Exists(t)
    <3>1. session[t] \in Row
      BY <1>2, <2>1, ExistsRow DEF LifeInv
    <3>2. session' = [session EXCEPT ![t].left = job[w].left]
      BY <2>1 DEF RenewSession
    <3>3. session'[t] \in Row /\ session'[t].age = session[t].age
            /\ session'[t].left = job[w].left
      BY <1>2, <3>1, <3>2 DEF LifeInv, TypeOK, Row
    <3> QED
      BY <1>2, <3>1, <3>2, <3>3, Markers DEF LifeInv, TypeOK, Exists
  <2>2. CASE ~Exists(t)
    BY <2>2 DEF RenewSession, Exists
  <2> QED
    BY <2>1, <2>2
<1>5. Exists(t) /\ job[w].left >= 0 =>
        since[t] + job[w].left <= Ttl /\ session[t].age + job[w].left <= MaxAge
  BY DEF LifeInv, Renewals, RenewSession
<1>6. SessionCeiling' /\ IdleSessionDies'
  BY <1>3, <1>4, <1>5 DEF LifeInv, SessionCeiling, IdleSessionDies
<1>7. \A v \in Workers : job'[v] # Idle => v # w /\ job'[v] = job[v]
  BY <1>3 DEF LifeInv, TypeOK
<1>8. \A v \in Workers : job'[v].pc # "idle" =>
         job'[v] = job[v] /\ job[v] # Idle /\ job[v].t \in Tokens
  <2> SUFFICES ASSUME NEW v \in Workers, job'[v].pc # "idle"
               PROVE  job'[v] = job[v] /\ job[v] # Idle /\ job[v].t \in Tokens
    OBVIOUS
  <2>1. job'[v] # Idle
    BY DEF Idle
  <2> QED
    BY <1>7, <2>1, JobShape DEF LifeInv
<1>9. Renewals'
  BY <1>3, <1>4, <1>8 DEF LifeInv, Renewals
<1>10. Creations'
  BY <1>4, <1>7, <1>8 DEF LifeInv, Creations
<1> QED
  BY <1>6, <1>9, <1>10 DEF LifeInv

LEMMA EndLife ==
  ASSUME LifeInv, TypeOK', SweepExpiredSessions \/ \E t \in Tokens : DestroySession(t)
  PROVE  LifeInv'
<1>1. \A s \in Tokens : \/ session'[s] = session[s]
                        \/ Exists(s) /\ session'[s] = Deleted
  <2>1. CASE SweepExpiredSessions
    BY <2>1 DEF SweepExpiredSessions
  <2>2. ASSUME NEW t \in Tokens, DestroySession(t)
        PROVE  \A s \in Tokens : \/ session'[s] = session[s]
                                 \/ Exists(s) /\ session'[s] = Deleted
    BY <2>2 DEF LifeInv, TypeOK, DestroySession
  <2> QED
    BY <2>1, <2>2
<1>2. \A s \in Tokens :
        /\ Exists(s)' => session'[s] = session[s] /\ Exists(s)
        /\ session'[s] = Unused <=> session[s] = Unused
  BY <1>1, Markers DEF Exists
<1>3. UNCHANGED <<since, job>>
  BY DEF SweepExpiredSessions, DestroySession
<1>4. \A v \in Workers : job[v].pc # "idle" => job[v].t \in Tokens
  BY Markers, JobShape DEF LifeInv
<1> QED
  BY <1>2, <1>3, <1>4 DEF LifeInv, SessionCeiling, IdleSessionDies, Renewals, Creations

(* Time moves every expiry and every age by one.                           *)
LEMMA TickLife == ASSUME LifeInv, TypeOK', Tick PROVE LifeInv'
<1>1. \A t \in Tokens :
        /\ Exists(t) => /\ session'[t].age = Lesser(session[t].age + 1, MaxAge)
                        /\ session'[t].left = Sooner(session[t].left)
                        /\ session'[t] \in Row /\ session[t] \in Row
        /\ ~Exists(t) => session'[t] = session[t]
        /\ since'[t] = Lesser(since[t] + 1, Ttl + 1) /\ since[t] \in Nat
  <2> SUFFICES ASSUME NEW t \in Tokens
               PROVE  /\ Exists(t) => /\ session'[t].age = Lesser(session[t].age + 1, MaxAge)
                                      /\ session'[t].left = Sooner(session[t].left)
                                      /\ session'[t] \in Row /\ session[t] \in Row
                      /\ ~Exists(t) => session'[t] = session[t]
                      /\ since'[t] = Lesser(since[t] + 1, Ttl + 1) /\ since[t] \in Nat
    OBVIOUS
  <2>1. Exists(t) => /\ session[t] \in Row
                     /\ session'[t] = [age |-> Lesser(session[t].age + 1, MaxAge),
                                       left |-> Sooner(session[t].left)]
    BY ExistsRow DEF LifeInv, Tick
  <2>2. Exists(t) => session'[t] \in Row
    <3> SUFFICES ASSUME Exists(t) PROVE session'[t] \in Row
      OBVIOUS
    <3>1. session[t].age \in 0 .. MaxAge /\ session[t].left \in -1 .. MaxAge
      BY <2>1 DEF Row
    <3> QED
      BY <2>1, <3>1, SoonerType, SessionAssumption DEF Row, Lesser
  <2>3. since'[t] = Lesser(since[t] + 1, Ttl + 1) /\ since[t] \in Nat
    BY SessionAssumption DEF LifeInv, TypeOK, Tick
  <2>4. ~Exists(t) => session'[t] = session[t]
    BY DEF Tick
  <2> QED
    BY <2>1, <2>2, <2>3, <2>4
<1>2. \A t \in Tokens : /\ Exists(t)' <=> Exists(t)
                        /\ session'[t] = Unused <=> session[t] = Unused
  BY <1>1, Markers DEF Exists
<1>3. \A w \in Workers :
        /\ job[w] = Idle => job'[w] = Idle
        /\ job[w] # Idle => /\ job'[w].pc = job[w].pc /\ job'[w].t = job[w].t
                            /\ job'[w].left = Sooner(job[w].left)
                            /\ job[w].t \in Tokens /\ job[w].left \in -1 .. MaxAge
  <2> SUFFICES ASSUME NEW w \in Workers, job[w] # Idle
               PROVE  /\ job'[w].pc = job[w].pc /\ job'[w].t = job[w].t
                      /\ job'[w].left = Sooner(job[w].left)
                      /\ job[w].t \in Tokens /\ job[w].left \in -1 .. MaxAge
    BY DEF Tick
  <2>1. job'[w] = [job[w] EXCEPT !.left = Sooner(job[w].left)]
    BY DEF Tick
  <2>2. job[w] \in CreateJob \cup RenewJob
    BY DEF LifeInv, TypeOK
  <2> QED
    BY <2>1, <2>2 DEF CreateJob, RenewJob
<1>4. SessionCeiling'
  <2> SUFFICES ASSUME NEW t \in Tokens, Exists(t), session'[t].left >= 0
               PROVE  session'[t].age + session'[t].left <= MaxAge
    BY <1>2 DEF SessionCeiling
  <2>1. session[t].age \in 0 .. MaxAge /\ session[t].left \in -1 .. MaxAge
    BY <1>1 DEF Row
  <2>2. session[t].left = session'[t].left + 1
    BY <1>1, <2>1, SoonerType
  <2>3. session[t].age + session[t].left <= MaxAge
    BY <2>1, <2>2, <1>1 DEF LifeInv, SessionCeiling, Row
  <2>4. session'[t].left \in Int
    BY <1>1 DEF Row
  <2> QED
    BY <1>1, <2>1, <2>2, <2>3, <2>4, SessionAssumption DEF Lesser
<1>5. IdleSessionDies'
  <2> SUFFICES ASSUME NEW t \in Tokens, Exists(t), session'[t].left >= 0
               PROVE  since'[t] + session'[t].left <= Ttl
    BY <1>2 DEF IdleSessionDies
  <2>1. session[t].left \in -1 .. MaxAge
    BY <1>1 DEF Row
  <2>2. session[t].left = session'[t].left + 1 /\ session'[t].left \in Int
    BY <1>1, <2>1, SoonerType DEF Row
  <2>3. since[t] + session[t].left <= Ttl
    BY <2>1, <2>2 DEF LifeInv, IdleSessionDies
  <2> QED
    BY <1>1, <2>1, <2>2, <2>3, SessionAssumption DEF Lesser
<1>6. Renewals'
  <2> SUFFICES ASSUME NEW w \in Workers, job'[w].pc = "renew"
               PROVE  /\ session'[job'[w].t] # Unused
                      /\ job'[w].left >= 0 => since'[job'[w].t] + job'[w].left <= Ttl
                      /\ session'[job'[w].t] \notin {Unused, Deleted} /\ job'[w].left >= 0 =>
                           session'[job'[w].t].age + job'[w].left <= MaxAge
    BY DEF Renewals, Exists
  <2> DEFINE t == job[w].t
  <2>1. job[w] # Idle /\ job[w].pc = "renew" /\ job'[w].t = t /\ t \in Tokens
          /\ job[w].left \in -1 .. MaxAge /\ job'[w].left = Sooner(job[w].left)
    BY <1>3 DEF Idle
  <2>2. session'[t] # Unused
    BY <1>2, <2>1 DEF LifeInv, Renewals
  <2>3. ASSUME job'[w].left >= 0
        PROVE  /\ job[w].left = job'[w].left + 1 /\ job'[w].left \in Int
               /\ since[t] + job[w].left <= Ttl
               /\ Exists(t) => session[t].age + job[w].left <= MaxAge
    <3>1. job[w].left = job'[w].left + 1 /\ job'[w].left \in Int
      BY <2>1, <2>3, SoonerType
    <3>2. job[w].left >= 0
      BY <2>3, <3>1
    <3> QED
      BY <2>1, <3>1, <3>2 DEF LifeInv, Renewals
  <2>4. job'[w].left >= 0 => since'[t] + job'[w].left <= Ttl
    BY <1>1, <2>1, <2>3, SessionAssumption DEF Lesser
  <2>5. ASSUME Exists(t), job'[w].left >= 0
        PROVE  session'[t].age + job'[w].left <= MaxAge
    <3>1. session[t].age \in 0 .. MaxAge
      BY <1>1, <2>1, <2>5 DEF Row
    <3> QED
      BY <1>1, <2>1, <2>3, <2>5, <3>1, SessionAssumption DEF Lesser
  <2>6. session'[t] \notin {Unused, Deleted} => Exists(t)
    BY <1>2, <2>1 DEF Exists
  <2> QED
    BY <2>1, <2>2, <2>4, <2>5, <2>6
<1>7. Creations'
  <2> SUFFICES ASSUME NEW w \in Workers, job'[w].pc = "create"
               PROVE  /\ session'[job'[w].t] = Unused
                      /\ job'[w].left <= Ttl
                      /\ \A v \in Workers \ {w} : job'[v] # Idle => job'[v].t # job'[w].t
    BY DEF Creations
  <2>1. job[w] # Idle /\ job[w].pc = "create" /\ job'[w].t = job[w].t /\ job[w].t \in Tokens
    BY <1>3 DEF Idle
  <2>2. session[job[w].t] = Unused /\ job[w].left <= Ttl
    BY <2>1 DEF LifeInv, Creations
  <2>3. job'[w].left <= Ttl
    BY <1>3, <2>1, <2>2, SessionAssumption DEF Sooner
  <2>4. \A v \in Workers \ {w} : job'[v] # Idle => job'[v].t # job'[w].t
    BY <1>3, <2>1 DEF LifeInv, Creations
  <2> QED
    BY <1>2, <2>1, <2>2, <2>3, <2>4
<1> QED
  BY <1>4, <1>5, <1>6, <1>7 DEF LifeInv

LEMMA StepLife == LifeInv /\ [Next]_vars => LifeInv'
<1> SUFFICES ASSUME LifeInv, [Next]_vars PROVE LifeInv'
  OBVIOUS
<1>1. TypeOK'
  BY StepTypes DEF LifeInv
<1>2. CASE UNCHANGED vars
  BY <1>1, <1>2, ElsewhereLife DEF vars
<1>3. ASSUME NEW ip \in Ips, LoginFails(ip) \/ HeaderFails(ip) PROVE LifeInv'
  BY <1>1, <1>3, ElsewhereLife DEF LoginFails, HeaderFails
<1> QED
  BY <1>1, <1>2, <1>3, LoginLife, GuardLife, CreateLife, RenewLife, EndLife, TickLife
  DEF Next

(* No session outlives ADMIN_SESSION_MAX_HOURS from its creation, nor      *)
(* ADMIN_SESSION_TTL_HOURS from the last request it was accepted for, even *)
(* if renewals of session.ts are written late and in any order.            *)
THEOREM SessionLifetimes == Spec => []SessionsExpire
<1>1. LifeInv => SessionsExpire
  BY DEF LifeInv, SessionsExpire
<1> QED
  BY <1>1, InitLife, StepLife, PTL DEF Spec

LEMMA StepDeleted ==
  LifeInv /\ [Next]_vars => \A t \in Tokens : session[t] = Deleted => session'[t] = Deleted
<1> SUFFICES ASSUME LifeInv, [Next]_vars, NEW t \in Tokens, session[t] = Deleted
             PROVE  session'[t] = Deleted
  OBVIOUS
<1>1. ~Exists(t) /\ session[t] # Unused
  BY Markers DEF Exists
<1>2. CASE UNCHANGED session
  BY <1>2
<1>3. ASSUME NEW w \in Workers, CreateSession(w) PROVE session'[t] = Deleted
  <2>1. session[job[w].t] = Unused
    BY <1>3 DEF LifeInv, Creations, CreateSession
  <2> QED
    BY <1>1, <1>3, <2>1 DEF CreateSession, LifeInv, TypeOK
<1>4. ASSUME NEW w \in Workers, RenewSession(w) PROVE session'[t] = Deleted
  BY <1>1, <1>4 DEF RenewSession, LifeInv, TypeOK
<1>5. CASE SweepExpiredSessions \/ \E s \in Tokens : DestroySession(s)
  BY <1>1, <1>5 DEF SweepExpiredSessions, DestroySession, LifeInv, TypeOK
<1>6. CASE Tick
  BY <1>1, <1>6 DEF Tick
<1> QED
  BY <1>2, <1>3, <1>4, <1>5, <1>6 DEF Next, vars, LoginFails, HeaderFails, LoginSucceeds,
    GuardAccepts

(* A session that was logged out or swept never comes back, whichever      *)
(* renewal of it is still on its way to the database.                      *)
THEOREM NoSessionRevived == Spec => DeletedStaysDeleted
<1>1. LifeInv /\ [Next]_vars =>
        [\A t \in Tokens : session[t] = Deleted => session'[t] = Deleted]_vars
  BY StepDeleted
<1> QED
  BY <1>1, InitLife, StepLife, PTL DEF Spec, DeletedStaysDeleted
----------------------------------------------------------------------------
(* The global lock.  While all the failures it counts are one address's,   *)
(* that address is locked too often to reach the threshold: every lock     *)
(* takes FailThreshold failures, one after another at least IpCooldown     *)
(* apart, and only the first can use failures from before the window.      *)

(* x, y and z are the address's counter, g failures are counted globally   *)
(* since a.  Either the address's count began before the window, or has    *)
(* ended, or k of its locks lie in the window.                             *)
Single(x, y, z, g, a, n) ==
  \/ x > 0 /\ y > a /\ g < x
  \/ x = 0 /\ g < FailThreshold
  \/ \E k \in 0 .. n :
       /\ y <= a /\ a + z >= k * IpCooldown
       /\ g < (k + 1) * FailThreshold + x
       /\ a < k * IpCooldown => g < (k + 1) * FailThreshold

LEMMA Times ==
  ASSUME NEW k \in Nat, NEW n \in Nat, NEW c \in Nat
  PROVE  /\ k * c \in Nat /\ n * c \in Nat /\ (k + 1) * c = k * c + c
         /\ k <= n => k * c <= n * c
<1>1. k * c \in Nat /\ n * c \in Nat /\ (k + 1) * c = k * c + c
  OBVIOUS
<1>2. ASSUME k <= n PROVE k * c <= n * c
  <2>1. n - k \in Nat /\ (n - k) * c \in Nat
    BY <1>2
  <2>2. n * c = k * c + (n - k) * c
    OBVIOUS
  <2> QED
    BY <1>1, <2>1, <2>2
<1> QED
  BY <1>1, <1>2

(* The thresholds under which one address cannot trip the global lock.     *)
Enough(n) ==
  n \in Nat /\ n * IpCooldown > FailWindow /\ (n + 1) * FailThreshold <= GlobalThreshold

LEMMA RoundsLeft ==
  ASSUME NEW n \in Nat, n * IpCooldown > FailWindow, NEW k \in 0 .. n, NEW a \in 0 .. FailWindow,
         a >= k * IpCooldown
  PROVE  k + 1 \in 0 .. n /\ (k + 2) * FailThreshold <= (n + 1) * FailThreshold
<1>1. k < n
  <2>1. CASE n <= k
    <3>1. n * IpCooldown <= k * IpCooldown
      BY <2>1, Times, LockoutAssumption
    <3> QED
      BY <3>1, LockoutAssumption
  <2> QED
    BY <2>1
<1>2. (k + 2) * FailThreshold <= (n + 1) * FailThreshold
  <2>1. k + 2 \in Nat /\ n + 1 \in Nat /\ k + 2 <= n + 1 /\ FailThreshold \in Nat
    BY <1>1, LockoutAssumption
  <2> QED
    BY <2>1, Times
<1> QED
  BY <1>1, <1>2

(* A failed login of the address, which is not locked.                     *)
LEMMA SingleLogin ==
  ASSUME NEW n \in Nat, n * IpCooldown > FailWindow,
         NEW x \in 0 .. FailThreshold - 1, NEW y \in -1 .. FailWindow,
         NEW g \in Nat, NEW a \in 0 .. FailWindow, Single(x, y, 0, g, a, n)
  PROVE  /\ g + 1 < (n + 1) * FailThreshold
         /\ \A first : first = (IF x = 0 THEN 0 ELSE y) =>
              /\ x + 1 < FailThreshold => Single(x + 1, first, 0, g + 1, a, n)
              /\ x + 1 >= FailThreshold => Single(0, first, IpCooldown, g + 1, a, n)
<1>1. n >= 1 /\ FailThreshold \in Nat \ {0} /\ IpCooldown \in Nat
  BY LockoutAssumption
<1>2. (n + 1) * FailThreshold = n * FailThreshold + FailThreshold /\ n * FailThreshold >= FailThreshold
  <2>1. 1 * FailThreshold <= n * FailThreshold
    BY <1>1, Times
  <2> QED
    BY <1>1, <2>1, Times
<1>3. CASE x > 0 /\ y > a /\ g < x
  BY <1>1, <1>2, <1>3 DEF Single
<1>4. CASE x = 0 /\ g < FailThreshold
  <2>1. g + 1 < (n + 1) * FailThreshold
    BY <1>1, <1>2, <1>4
  <2>2. /\ 0 \in 0 .. n /\ 1 \in 0 .. n
        /\ 0 * IpCooldown = 0 /\ 1 * IpCooldown = IpCooldown
        /\ (0 + 1) * FailThreshold = FailThreshold
    BY <1>1
  <2>3. x + 1 < FailThreshold => Single(x + 1, 0, 0, g + 1, a, n)
    <3> SUFFICES /\ 0 <= a /\ a + 0 >= 0 * IpCooldown
                 /\ g + 1 < (0 + 1) * FailThreshold + (x + 1)
                 /\ a < 0 * IpCooldown => g + 1 < (0 + 1) * FailThreshold
      BY <2>2 DEF Single
    <3> QED
      BY <1>1, <1>4, <2>2
  <2>4. x + 1 >= FailThreshold => Single(0, 0, IpCooldown, g + 1, a, n)
    <3>1. (1 + 1) * FailThreshold = FailThreshold + FailThreshold
      BY <1>1
    <3> SUFFICES /\ 0 <= a /\ a + IpCooldown >= 1 * IpCooldown
                 /\ g + 1 < (1 + 1) * FailThreshold + 0
                 /\ a < 1 * IpCooldown => g + 1 < (1 + 1) * FailThreshold
      BY <2>2 DEF Single
    <3> QED
      BY <1>1, <1>4, <2>2, <3>1
  <2> QED
    BY <1>4, <2>1, <2>3, <2>4
<1>5. ASSUME NEW k \in 0 .. n, y <= a, a + 0 >= k * IpCooldown,
             g < (k + 1) * FailThreshold + x
      PROVE  /\ g + 1 < (n + 1) * FailThreshold
             /\ \A first : first = (IF x = 0 THEN 0 ELSE y) =>
                  /\ x + 1 < FailThreshold => Single(x + 1, first, 0, g + 1, a, n)
                  /\ x + 1 >= FailThreshold => Single(0, first, IpCooldown, g + 1, a, n)
  <2>1. /\ k * IpCooldown \in Nat /\ (k + 1) * IpCooldown = k * IpCooldown + IpCooldown
        /\ (k + 1) * FailThreshold \in Nat
        /\ (k + 2) * FailThreshold = (k + 1) * FailThreshold + FailThreshold
    <3>1. k \in Nat /\ k + 1 \in Nat /\ (k + 1) + 1 = k + 2
      OBVIOUS
    <3> QED
      BY <1>1, <3>1, Times
  <2>2. a >= k * IpCooldown
    BY <1>5, <2>1
  <2>3. k + 1 \in 0 .. n /\ (k + 2) * FailThreshold <= (n + 1) * FailThreshold
    BY <2>2, RoundsLeft
  <2>4. (n + 1) * FailThreshold \in Nat
    BY <1>1, <1>2, Times
  <2>5. g + 1 < (n + 1) * FailThreshold
    BY <1>1, <1>5, <2>1, <2>3, <2>4
  <2> SUFFICES ASSUME NEW first, first = (IF x = 0 THEN 0 ELSE y)
               PROVE  /\ x + 1 < FailThreshold => Single(x + 1, first, 0, g + 1, a, n)
                      /\ x + 1 >= FailThreshold => Single(0, first, IpCooldown, g + 1, a, n)
    BY <2>5
  <2>6. first <= a
    BY <1>5
  <2>7. ASSUME x + 1 < FailThreshold PROVE Single(x + 1, first, 0, g + 1, a, n)
    <3>1. /\ first <= a /\ a + 0 >= k * IpCooldown
          /\ g + 1 < (k + 1) * FailThreshold + (x + 1)
          /\ a < k * IpCooldown => g + 1 < (k + 1) * FailThreshold
      BY <1>5, <2>1, <2>2, <2>6
    <3> QED
      BY <3>1 DEF Single
  <2>8. ASSUME x + 1 >= FailThreshold PROVE Single(0, first, IpCooldown, g + 1, a, n)
    <3>1. ((k + 1) + 1) * FailThreshold = (k + 1) * FailThreshold + FailThreshold
      BY <1>1, Times
    <3>2. /\ first <= a /\ a + IpCooldown >= (k + 1) * IpCooldown
          /\ g + 1 < ((k + 1) + 1) * FailThreshold + 0
          /\ a < (k + 1) * IpCooldown => g + 1 < ((k + 1) + 1) * FailThreshold
      BY <1>1, <1>5, <2>1, <2>2, <2>6, <3>1
    <3> QED
      BY <2>3, <3>2 DEF Single
  <2> QED
    BY <2>7, <2>8
<1> QED
  BY <1>3, <1>4, <1>5 DEF Single

(* A wrong header of the address, which may be locked.                     *)
LEMMA SingleHeader ==
  ASSUME NEW n \in Nat, n * IpCooldown > FailWindow,
         NEW x \in 0 .. FailThreshold - 1, NEW y \in -1 .. FailWindow,
         NEW z \in 0 .. IpCooldown,
         NEW g \in Nat, NEW a \in 0 .. FailWindow, Single(x, y, z, g, a, n)
  PROVE  \A first : first = (IF x = 0 THEN 0 ELSE y) =>
           /\ x + 1 < FailThreshold => Single(x + 1, first, z, g, a, n)
           /\ x + 1 >= FailThreshold => Single(0, first, IpCooldown, g, a, n)
<1> SUFFICES ASSUME NEW first, first = (IF x = 0 THEN 0 ELSE y)
             PROVE  /\ x + 1 < FailThreshold => Single(x + 1, first, z, g, a, n)
                    /\ x + 1 >= FailThreshold => Single(0, first, IpCooldown, g, a, n)
  OBVIOUS
<1>1. n >= 1 /\ FailThreshold \in Nat \ {0} /\ IpCooldown \in Nat
  BY LockoutAssumption
<1>2. CASE x > 0 /\ y > a /\ g < x
  BY <1>1, <1>2 DEF Single
<1>3. CASE x = 0 /\ g < FailThreshold
  <2>1. Single(0, first, IpCooldown, g, a, n)
    BY <1>3 DEF Single
  <2>2. ASSUME x + 1 < FailThreshold PROVE Single(x + 1, first, z, g, a, n)
    <3>1. 0 \in 0 .. n /\ 0 * IpCooldown = 0 /\ (0 + 1) * FailThreshold = FailThreshold
      BY <1>1
    <3>2. /\ first <= a /\ a + z >= 0 * IpCooldown
          /\ g < (0 + 1) * FailThreshold + (x + 1)
          /\ a < 0 * IpCooldown => g < (0 + 1) * FailThreshold
      BY <1>1, <1>3, <3>1
    <3> QED
      BY <3>1, <3>2 DEF Single
  <2> QED
    BY <2>1, <2>2
<1>4. ASSUME NEW k \in 0 .. n, y <= a, a + z >= k * IpCooldown,
             g < (k + 1) * FailThreshold + x,
             a < k * IpCooldown => g < (k + 1) * FailThreshold
      PROVE  /\ x + 1 < FailThreshold => Single(x + 1, first, z, g, a, n)
             /\ x + 1 >= FailThreshold => Single(0, first, IpCooldown, g, a, n)
  <2>1. /\ k * IpCooldown \in Nat /\ (k + 1) * IpCooldown = k * IpCooldown + IpCooldown
        /\ (k + 1) * FailThreshold \in Nat
        /\ ((k + 1) + 1) * FailThreshold = (k + 1) * FailThreshold + FailThreshold
    <3>1. k \in Nat /\ k + 1 \in Nat
      OBVIOUS
    <3> QED
      BY <1>1, <3>1, Times
  <2>2. first <= a
    BY <1>4
  <2>3. ASSUME x + 1 < FailThreshold PROVE Single(x + 1, first, z, g, a, n)
    <3>1. /\ first <= a /\ a + z >= k * IpCooldown
          /\ g < (k + 1) * FailThreshold + (x + 1)
          /\ a < k * IpCooldown => g < (k + 1) * FailThreshold
      BY <1>4, <2>1, <2>2
    <3> QED
      BY <3>1 DEF Single
  <2>4. ASSUME x + 1 >= FailThreshold PROVE Single(0, first, IpCooldown, g, a, n)
    <3>1. CASE a >= k * IpCooldown
      <4>1. k + 1 \in 0 .. n
        BY <3>1, RoundsLeft
      <4>2. /\ first <= a /\ a + IpCooldown >= (k + 1) * IpCooldown
            /\ g < ((k + 1) + 1) * FailThreshold + 0
            /\ a < (k + 1) * IpCooldown => g < ((k + 1) + 1) * FailThreshold
        BY <1>1, <1>4, <2>1, <2>2, <3>1
      <4> QED
        BY <4>1, <4>2 DEF Single
    <3>2. CASE a < k * IpCooldown
      <4>1. /\ first <= a /\ a + IpCooldown >= k * IpCooldown
            /\ g < (k + 1) * FailThreshold + 0
            /\ a < k * IpCooldown => g < (k + 1) * FailThreshold
        BY <1>1, <1>4, <2>1, <2>2, <3>2
      <4> QED
        BY <4>1 DEF Single
    <3> QED
      BY <2>1, <3>1, <3>2
  <2> QED
    BY <2>3, <2>4
<1> QED
  BY <1>2, <1>3, <1>4 DEF Single

(* The first failure of a window.                                          *)
LEMMA SingleBegins ==
  ASSUME NEW n \in Nat, n * IpCooldown > FailWindow,
         NEW x \in 0 .. FailThreshold - 1, NEW y \in -1 .. FailWindow
  PROVE  \A first : first = (IF x = 0 THEN 0 ELSE y) /\ first >= 0 =>
           /\ x + 1 < FailThreshold => Single(x + 1, first, 0, 1, 0, n)
           /\ x + 1 >= FailThreshold => Single(0, first, IpCooldown, 1, 0, n)
<1> SUFFICES ASSUME NEW first, first = (IF x = 0 THEN 0 ELSE y), first >= 0
             PROVE  /\ x + 1 < FailThreshold => Single(x + 1, first, 0, 1, 0, n)
                    /\ x + 1 >= FailThreshold => Single(0, first, IpCooldown, 1, 0, n)
  OBVIOUS
<1>1. /\ n >= 1 /\ FailThreshold \in Nat \ {0} /\ IpCooldown \in Nat
      /\ 0 \in 0 .. n /\ 1 \in 0 .. n
      /\ 0 * IpCooldown = 0 /\ 1 * IpCooldown = IpCooldown
      /\ (0 + 1) * FailThreshold = FailThreshold
      /\ (1 + 1) * FailThreshold = FailThreshold + FailThreshold
  BY LockoutAssumption
<1>2. ASSUME x + 1 < FailThreshold PROVE Single(x + 1, first, 0, 1, 0, n)
  <2>1. CASE first = 0
    <3>1. /\ first <= 0 /\ 0 + 0 >= 0 * IpCooldown
          /\ 1 < (0 + 1) * FailThreshold + (x + 1)
          /\ 0 < 0 * IpCooldown => 1 < (0 + 1) * FailThreshold
      BY <1>1, <2>1
    <3> QED
      BY <1>1, <3>1 DEF Single
  <2>2. CASE first > 0
    BY <2>2 DEF Single
  <2> QED
    BY <2>1, <2>2
<1>3. ASSUME x + 1 >= FailThreshold PROVE Single(0, first, IpCooldown, 1, 0, n)
  <2>1. CASE FailThreshold > 1
    BY <1>1, <2>1 DEF Single
  <2>2. CASE FailThreshold = 1
    <3>1. /\ first <= 0 /\ 0 + IpCooldown >= 1 * IpCooldown
          /\ 1 < (1 + 1) * FailThreshold + 0
          /\ 0 < 1 * IpCooldown => 1 < (1 + 1) * FailThreshold
      BY <1>1, <2>2
    <3> QED
      BY <1>1, <3>1 DEF Single
  <2> QED
    BY <1>1, <2>1, <2>2
<1> QED
  BY <1>2, <1>3

(* A counter whose window is over counts as an empty one.                  *)
LEMMA SingleFreshen ==
  ASSUME NEW n \in Nat, NEW x \in 0 .. FailThreshold - 1, NEW y \in -1 .. FailWindow + 1, NEW z \in Nat,
         NEW g \in Nat, NEW a \in 0 .. FailWindow, Single(x, y, z, g, a, n), y > FailWindow
  PROVE  Single(0, -1, 0, g, a, n)
<1>1. g < FailThreshold
  BY LockoutAssumption DEF Single
<1> QED
  BY <1>1 DEF Single

(* Time passes.                                                            *)
LEMMA SingleTick ==
  ASSUME NEW n \in Nat, NEW x \in 0 .. FailThreshold - 1, NEW y \in -1 .. FailWindow + 1,
         NEW z \in 0 .. IpCooldown, NEW g \in Nat, NEW a \in 0 .. FailWindow - 1,
         Single(x, y, z, g, a, n),
         NEW ny, ny = (IF y = -1 THEN -1 ELSE IF y = FailWindow + 1 THEN y ELSE y + 1),
         NEW nz, nz = (IF z = 0 THEN 0 ELSE z - 1)
  PROVE  Single(x, ny, nz, g, a + 1, n)
<1>1. CASE x > 0 /\ y > a /\ g < x
  BY <1>1, LockoutAssumption DEF Single
<1>2. CASE x = 0 /\ g < FailThreshold
  BY <1>2 DEF Single
<1>3. ASSUME NEW k \in 0 .. n, y <= a, a + z >= k * IpCooldown,
             g < (k + 1) * FailThreshold + x,
             a < k * IpCooldown => g < (k + 1) * FailThreshold
      PROVE  Single(x, ny, nz, g, a + 1, n)
  <2>1. k * IpCooldown \in Nat /\ (k + 1) * FailThreshold \in Nat
    <3>1. k \in Nat /\ k + 1 \in Nat
      OBVIOUS
    <3> QED
      BY <3>1, Times, LockoutAssumption
  <2>2. /\ ny <= a + 1 /\ (a + 1) + nz >= k * IpCooldown
        /\ a + 1 < k * IpCooldown => g < (k + 1) * FailThreshold
    BY <1>3, <2>1, LockoutAssumption
  <2> QED
    BY <1>3, <2>2 DEF Single
<1> QED
  BY <1>1, <1>2, <1>3 DEF Single
Alone(ip, n) ==
  Single(perIp[ip].fails, perIp[ip].age, perIp[ip].left, global.fails, global.age, n)

Sources(n) ==
  /\ IsFiniteSet(blame)
  /\ \A ip \in Ips : /\ perIp[ip].fails < FailThreshold
                     /\ perIp[ip].fails > 0 => perIp[ip].age >= 0
  /\ global.fails > 0 => global.age >= 0 /\ blame # {}
  /\ GlobalNeedsTwoSources
  /\ \A ip \in Ips :
       global.fails > 0 /\ global.age <= FailWindow /\ blame = {ip} => Alone(ip, n)

SourcesInv(n) == TypeOK /\ Sources(n)

LEMMA TwoSources ==
  ASSUME NEW S, IsFiniteSet(S), NEW x \in S, NEW y \in S, x # y
  PROVE  Cardinality(S) > 1
<1>1. IsFiniteSet({x}) /\ Cardinality({x}) = 1
  BY FS_Singleton
<1>2. IsFiniteSet({x, y}) /\ Cardinality({x, y}) = 2
  <2>1. {x} \cup {y} = {x, y} /\ y \notin {x}
    OBVIOUS
  <2> QED
    BY <1>1, <2>1, FS_AddElement
<1>3. {x, y} \in SUBSET S
  OBVIOUS
<1>4. Cardinality({x, y}) <= Cardinality(S) /\ Cardinality(S) \in Nat
  BY <1>3, FS_Subset, FS_CardinalityType
<1> QED
  BY <1>2, <1>4

(* The values of an address's counter.                                     *)
LEMMA Counters ==
  ASSUME TypeOK, NEW n, Sources(n), NEW ip \in Ips
  PROVE  /\ perIp[ip].fails \in 0 .. FailThreshold - 1
         /\ perIp[ip].age \in -1 .. FailWindow + 1 /\ perIp[ip].left \in 0 .. IpCooldown
         /\ perIp[ip].fails > 0 => perIp[ip].age >= 0
<1>1. perIp[ip] \in Counter(IpCooldown)
  BY DEF TypeOK
<1> QED
  BY <1>1, LockoutAssumption DEF Counter, Never, Sources

LEMMA GlobalCounter ==
  ASSUME TypeOK
  PROVE  /\ global.fails \in Nat /\ global.age \in -1 .. FailWindow + 1
         /\ global.left \in 0 .. MaxCooldown
BY DEF TypeOK, Counter, Never

(* What one more failure makes of an address's counter: a stale one counts *)
(* as x = 0 failures without a lock.                                       *)
LEMMA Counted ==
  ASSUME TypeOK, NEW n \in Nat, Sources(n), NEW ip \in Ips, CountIp(ip)
  PROVE  \E x \in 0 .. FailThreshold - 1, y \in -1 .. FailWindow, z \in 0 .. IpCooldown :
           /\ x > 0 => y >= 0
           /\ ~Locked(perIp[ip]) => z = 0
           /\ \A g \in Nat, a \in 0 .. FailWindow :
                Single(perIp[ip].fails, perIp[ip].age, perIp[ip].left, g, a, n) =>
                  Single(x, y, z, g, a, n)
           /\ perIp'[ip].age = (IF x = 0 THEN 0 ELSE y)
           /\ x + 1 < FailThreshold => perIp'[ip].fails = x + 1 /\ perIp'[ip].left = z
           /\ x + 1 >= FailThreshold => perIp'[ip].fails = 0 /\ perIp'[ip].left = IpCooldown
<1> DEFINE c == perIp[ip]
           f == Freshen(c)
<1>1. /\ c.fails \in 0 .. FailThreshold - 1 /\ c.age \in -1 .. FailWindow + 1
      /\ c.left \in 0 .. IpCooldown
      /\ c.fails > 0 => c.age >= 0
  BY Counters
<1>2. perIp'[ip] = Count(f, FailThreshold, IpCooldown)
  BY DEF CountIp, TypeOK
<1>3. /\ c.age > FailWindow => f = EmptyCounter
      /\ c.age <= FailWindow => f = c
  BY <1>1, LockoutAssumption DEF Freshen
<1>4. ~Locked(c) => f.left = 0
  <2>1. f.left \in Nat
    <3>1. EmptyCounter.left = 0
      BY DEF EmptyCounter
    <3>2. f = EmptyCounter \/ f = c
      BY DEF Freshen
    <3> QED
      BY <1>1, <3>1, <3>2, LockoutAssumption
  <2> QED
    BY <2>1 DEF Locked
<1>5. /\ f.fails \in 0 .. FailThreshold - 1 /\ f.age \in -1 .. FailWindow
      /\ f.left \in 0 .. IpCooldown
      /\ f.fails > 0 => f.age >= 0
  BY <1>1, <1>3, LockoutAssumption DEF EmptyCounter, Never
<1>6. \A g \in Nat, a \in 0 .. FailWindow :
        Single(c.fails, c.age, c.left, g, a, n) => Single(f.fails, f.age, f.left, g, a, n)
  <2> SUFFICES ASSUME NEW g \in Nat, NEW a \in 0 .. FailWindow,
                      Single(c.fails, c.age, c.left, g, a, n)
               PROVE  Single(f.fails, f.age, f.left, g, a, n)
    OBVIOUS
  <2>1. CASE c.age > FailWindow
    <3>1. Single(0, -1, 0, g, a, n)
      <4>1. c.age = FailWindow + 1
        BY <1>1, <2>1, LockoutAssumption
      <4> QED
        BY <1>1, <2>1, <4>1, SingleFreshen, LockoutAssumption
    <3>2. f.fails = 0 /\ f.age = -1 /\ f.left = 0
      BY <1>3, <2>1 DEF EmptyCounter, Never
    <3> QED
      BY <3>1, <3>2
  <2>2. CASE c.age <= FailWindow
    BY <1>3, <2>2
  <2> QED
    BY <1>1, <2>1, <2>2, LockoutAssumption
<1> HIDE DEF f
<1>7. /\ perIp'[ip].age = (IF f.fails = 0 THEN 0 ELSE f.age)
      /\ f.fails + 1 < FailThreshold => perIp'[ip].fails = f.fails + 1 /\ perIp'[ip].left = f.left
      /\ f.fails + 1 >= FailThreshold => perIp'[ip].fails = 0 /\ perIp'[ip].left = IpCooldown
  BY <1>2, <1>5, LockoutAssumption DEF Count
<1>8. \A g \in Nat, a \in 0 .. FailWindow :
        Single(perIp[ip].fails, perIp[ip].age, perIp[ip].left, g, a, n) =>
          Single(f.fails, f.age, f.left, g, a, n)
  BY <1>6
<1>9. ~Locked(perIp[ip]) => f.left = 0
  BY <1>4
<1> HIDE DEF c
<1> QED
  BY <1>5, <1>7, <1>8, <1>9

(* The same for the global counter, which is not locked.                   *)
LEMMA CountedGlobally ==
  ASSUME TypeOK, NEW n, Enough(n), Sources(n), NEW ip \in Ips, CountGlobal(ip), ~Locked(global)
  PROVE  \/ /\ global'.fails = 1 /\ global'.age = 0 /\ global'.left = 0 /\ blame' = {ip}
         \/ /\ global.fails > 0 /\ global.age \in 0 .. FailWindow
            /\ blame # {} /\ blame' = blame \cup {ip}
            /\ \/ /\ global.fails + 1 < GlobalThreshold
                  /\ global'.fails = global.fails + 1 /\ global'.age = global.age
                  /\ global'.left = 0
               \/ global.fails + 1 >= GlobalThreshold /\ global'.fails = 0
<1> DEFINE c == Freshen(global)
<1>1. /\ global.fails \in Nat /\ global.age \in -1 .. FailWindow + 1
      /\ global.left \in 0 .. MaxCooldown
  BY GlobalCounter
<1>2. GlobalThreshold > 1 /\ GlobalThreshold \in Nat
  <2>1. n >= 1 /\ n \in Nat /\ FailThreshold \in Nat \ {0} /\ IpCooldown \in Nat
    <3>1. n = 0 => n * IpCooldown = 0
      BY LockoutAssumption
    <3> QED
      BY <3>1, LockoutAssumption DEF Enough
  <2>2. 2 * FailThreshold <= (n + 1) * FailThreshold
    <3>1. n + 1 \in Nat /\ 2 <= n + 1
      BY <2>1
    <3> QED
      BY <2>1, <3>1, Times
  <2>3. (n + 1) * FailThreshold \in Nat
    BY <2>1, Times
  <2> QED
    BY <2>1, <2>2, <2>3, LockoutAssumption DEF Enough
<1>3. /\ global.age > FailWindow => c = EmptyCounter
      /\ global.age <= FailWindow => c = global
  BY <1>1, LockoutAssumption DEF Freshen
<1>4. c.left = 0 /\ c.fails \in Nat
  <2>1. c.left \in Nat /\ c.fails \in Nat
    BY <1>1, <1>3, LockoutAssumption DEF EmptyCounter
  <2> QED
    BY <2>1 DEF Locked
<1>5. PICK until : global' = Count(c, GlobalThreshold, until)
  BY DEF CountGlobal
<1>6. blame' = {ip} \cup IF c.fails = 0 THEN {} ELSE blame
  BY DEF CountGlobal
<1>7. CASE c.fails = 0
  <2>1. c.fails + 1 < GlobalThreshold
    BY <1>2, <1>7
  <2>2. global' = [fails |-> 1, age |-> 0, left |-> 0]
    BY <1>2, <1>4, <1>5, <1>7, <2>1 DEF Count
  <2> QED
    BY <1>6, <1>7, <2>2
<1>8. CASE c.fails # 0
  <2>1. global.age <= FailWindow /\ c = global
    <3>1. c # EmptyCounter
      BY <1>8 DEF EmptyCounter
    <3> QED
      BY <1>1, <1>3, <3>1, LockoutAssumption
  <2>2. global.fails > 0 /\ global.age \in 0 .. FailWindow /\ blame # {}
    BY <1>1, <1>8, <2>1, LockoutAssumption DEF Sources
  <2>3. blame' = blame \cup {ip}
    BY <1>6, <1>8
  <2>4. CASE global.fails + 1 < GlobalThreshold
    <3>1. global' = [fails |-> global.fails + 1, age |-> global.age, left |-> global.left]
      BY <1>1, <1>2, <1>5, <2>1, <2>2, <2>4 DEF Count
    <3> QED
      BY <1>4, <2>1, <2>2, <2>3, <2>4, <3>1
  <2>5. CASE global.fails + 1 >= GlobalThreshold
    <3>1. global'.fails = 0
      BY <1>5, <2>1, <2>5 DEF Count
    <3> QED
      BY <2>2, <2>3, <2>5, <3>1
  <2> QED
    BY <1>1, <1>2, <2>4, <2>5
<1> QED
  BY <1>7, <1>8

(* The other parts of the invariant about one address's counter.           *)
LEMMA CountedParts ==
  ASSUME TypeOK, TypeOK', NEW n \in Nat, Sources(n), NEW ip \in Ips, CountIp(ip)
  PROVE  /\ \A q \in Ips : /\ perIp'[q].fails < FailThreshold
                           /\ perIp'[q].fails > 0 => perIp'[q].age >= 0
         /\ \A q \in Ips \ {ip} : perIp'[q] = perIp[q]
<1>1. \A q \in Ips \ {ip} : perIp'[q] = perIp[q]
  BY DEF CountIp, TypeOK
<1>2. perIp'[ip].fails < FailThreshold /\ (perIp'[ip].fails > 0 => perIp'[ip].age >= 0)
  BY Counted, LockoutAssumption
<1> QED
  BY <1>1, <1>2 DEF Sources

LEMMA LoginSources ==
  ASSUME NEW n, Enough(n), SourcesInv(n), TypeOK', NEW ip \in Ips, LoginFails(ip)
  PROVE  Sources(n)'
<1>1. /\ TypeOK /\ Sources(n) /\ n \in Nat /\ n * IpCooldown > FailWindow
      /\ CountIp(ip) /\ CountGlobal(ip) /\ ~Locked(global) /\ ~Locked(perIp[ip])
  BY DEF SourcesInv, Enough, LoginFails, IsLockedOut
<1>2. PICK x \in 0 .. FailThreshold - 1, y \in -1 .. FailWindow :
        /\ x > 0 => y >= 0
        /\ \A g \in Nat, a \in 0 .. FailWindow :
             Single(perIp[ip].fails, perIp[ip].age, perIp[ip].left, g, a, n) =>
               Single(x, y, 0, g, a, n)
        /\ perIp'[ip].age = (IF x = 0 THEN 0 ELSE y)
        /\ x + 1 < FailThreshold => perIp'[ip].fails = x + 1 /\ perIp'[ip].left = 0
        /\ x + 1 >= FailThreshold => perIp'[ip].fails = 0 /\ perIp'[ip].left = IpCooldown
  BY <1>1, Counted
<1>3. /\ \A q \in Ips : /\ perIp'[q].fails < FailThreshold
                        /\ perIp'[q].fails > 0 => perIp'[q].age >= 0
      /\ \A q \in Ips \ {ip} : perIp'[q] = perIp[q]
  BY <1>1, CountedParts
<1>4. IsFiniteSet(blame)'
  <2>1. IsFiniteSet(blame) /\ IsFiniteSet({})
    BY <1>1, FS_EmptySet DEF Sources
  <2>2. blame' = blame \cup {ip} \/ blame' = {} \cup {ip}
    BY <1>1 DEF CountGlobal
  <2> QED
    BY <2>1, <2>2, FS_AddElement
<1>5. /\ x + 1 < FailThreshold \/ x + 1 >= FailThreshold
      /\ perIp'[ip].age \in 0 .. FailWindow
  BY <1>2, LockoutAssumption
<1>6. CASE global'.fails = 1 /\ global'.age = 0 /\ global'.left = 0 /\ blame' = {ip}
  <2>1. ~Locked(global')
    BY <1>6, LockoutAssumption DEF Locked, Freshen
  <2>2. Single(perIp'[ip].fails, perIp'[ip].age, perIp'[ip].left, 1, 0, n)
    BY <1>1, <1>2, <1>5, SingleBegins
  <2>3. Alone(ip, n)'
    BY <1>6, <2>2 DEF Alone
  <2>4. \A q \in Ips : blame' = {q} => q = ip
    BY <1>6
  <2>5. GlobalNeedsTwoSources'
    BY <2>1 DEF GlobalNeedsTwoSources
  <2> QED
    BY <1>3, <1>4, <1>6, <2>3, <2>4, <2>5 DEF Sources
<1>7. CASE /\ global.fails > 0 /\ global.age \in 0 .. FailWindow
           /\ blame # {} /\ blame' = blame \cup {ip}
           /\ \/ /\ global.fails + 1 < GlobalThreshold
                 /\ global'.fails = global.fails + 1 /\ global'.age = global.age
                 /\ global'.left = 0
              \/ global.fails + 1 >= GlobalThreshold /\ global'.fails = 0
  <2>1. ASSUME blame = {ip}
        PROVE  /\ global.fails + 1 < GlobalThreshold
               /\ Single(perIp'[ip].fails, perIp'[ip].age, perIp'[ip].left, global.fails + 1,
                         global.age, n)
    <3>1. Single(x, y, 0, global.fails, global.age, n) /\ global.fails \in Nat
      BY <1>1, <1>2, <1>7, <2>1, GlobalCounter DEF Sources, Alone
    <3>2. /\ global.fails + 1 < (n + 1) * FailThreshold
          /\ x + 1 < FailThreshold =>
               Single(x + 1, perIp'[ip].age, 0, global.fails + 1, global.age, n)
          /\ x + 1 >= FailThreshold =>
               Single(0, perIp'[ip].age, IpCooldown, global.fails + 1, global.age, n)
      BY <1>1, <1>2, <1>7, <3>1, SingleLogin
    <3>3. (n + 1) * FailThreshold \in Nat /\ (n + 1) * FailThreshold <= GlobalThreshold
      BY <1>1, Times, LockoutAssumption DEF Enough
    <3>4. global.fails + 1 < GlobalThreshold
      BY <3>1, <3>2, <3>3, LockoutAssumption
    <3> QED
      BY <1>2, <1>5, <3>2, <3>4
  <2>2. CASE /\ global.fails + 1 < GlobalThreshold
             /\ global'.fails = global.fails + 1 /\ global'.age = global.age
             /\ global'.left = 0
    <3>1. ~Locked(global')
      BY <1>7, <2>2, LockoutAssumption DEF Locked, Freshen
    <3>2. ASSUME NEW q \in Ips, blame' = {q} PROVE Alone(q, n)'
      <4>1. q = ip /\ blame = {ip}
        BY <1>7, <3>2
      <4> QED
        BY <2>1, <2>2, <4>1 DEF Alone
    <3>3. global'.age >= 0 /\ blame' # {}
      BY <1>7, <2>2
    <3>4. GlobalNeedsTwoSources'
      BY <3>1 DEF GlobalNeedsTwoSources
    <3> QED
      BY <1>3, <1>4, <3>2, <3>3, <3>4 DEF Sources
  <2>3. CASE global.fails + 1 >= GlobalThreshold /\ global'.fails = 0
    <3>1. blame # {ip}
      BY <1>1, <2>1, <2>3, GlobalCounter, LockoutAssumption
    <3>2. PICK q \in blame : q # ip
      BY <1>7, <3>1
    <3>3. Cardinality(blame') > 1
      BY <1>4, <1>7, <3>2, TwoSources
    <3> QED
      BY <1>3, <1>4, <2>3, <3>3 DEF Sources, GlobalNeedsTwoSources
  <2> QED
    BY <1>7, <2>2, <2>3
<1> QED
  BY <1>1, <1>6, <1>7, CountedGlobally

LEMMA HeaderSources ==
  ASSUME NEW n, Enough(n), SourcesInv(n), TypeOK', NEW ip \in Ips, HeaderFails(ip)
  PROVE  Sources(n)'
<1>1. /\ TypeOK /\ Sources(n) /\ n \in Nat /\ n * IpCooldown > FailWindow
      /\ CountIp(ip) /\ UNCHANGED <<global, blame>>
  BY DEF SourcesInv, Enough, HeaderFails
<1>2. PICK x \in 0 .. FailThreshold - 1, y \in -1 .. FailWindow, z \in 0 .. IpCooldown :
        /\ \A g \in Nat, a \in 0 .. FailWindow :
             Single(perIp[ip].fails, perIp[ip].age, perIp[ip].left, g, a, n) =>
               Single(x, y, z, g, a, n)
        /\ perIp'[ip].age = (IF x = 0 THEN 0 ELSE y)
        /\ x + 1 < FailThreshold => perIp'[ip].fails = x + 1 /\ perIp'[ip].left = z
        /\ x + 1 >= FailThreshold => perIp'[ip].fails = 0 /\ perIp'[ip].left = IpCooldown
  BY <1>1, Counted
<1>3. /\ \A q \in Ips : /\ perIp'[q].fails < FailThreshold
                        /\ perIp'[q].fails > 0 => perIp'[q].age >= 0
      /\ \A q \in Ips \ {ip} : perIp'[q] = perIp[q]
  BY <1>1, CountedParts
<1>4. ASSUME NEW q \in Ips, global.fails > 0, global.age <= FailWindow, blame = {q}
      PROVE  Alone(q, n)'
  <2>1. global.fails \in Nat /\ global.age \in 0 .. FailWindow
    BY <1>1, <1>4, GlobalCounter DEF Sources
  <2>2. CASE q = ip
    <3>1. Single(x, y, z, global.fails, global.age, n)
      BY <1>1, <1>2, <1>4, <2>1, <2>2 DEF Sources, Alone
    <3>2. /\ x + 1 < FailThreshold =>
               Single(x + 1, perIp'[ip].age, z, global.fails, global.age, n)
          /\ x + 1 >= FailThreshold =>
               Single(0, perIp'[ip].age, IpCooldown, global.fails, global.age, n)
      BY <1>1, <1>2, <2>1, <3>1, SingleHeader
    <3>3. x + 1 < FailThreshold \/ x + 1 >= FailThreshold
      BY LockoutAssumption
    <3> QED
      BY <1>1, <1>2, <2>2, <3>2, <3>3 DEF Alone
  <2>3. CASE q # ip
    BY <1>1, <1>3, <1>4, <2>3 DEF Sources, Alone
  <2> QED
    BY <2>2, <2>3
<1> QED
  BY <1>1, <1>3, <1>4 DEF Sources, GlobalNeedsTwoSources, Locked

LEMMA ResetSources ==
  ASSUME NEW n, SourcesInv(n), NEW ip \in Ips, ResetLockout(ip)
  PROVE  Sources(n)'
<1>1. global' = EmptyCounter /\ blame' = {}
  BY DEF ResetLockout
<1>2. ~Locked(global') /\ global'.fails = 0
  BY <1>1 DEF Locked, Freshen, EmptyCounter
<1>3. \A q \in Ips : perIp'[q] = perIp[q] \/ perIp'[q] = EmptyCounter
  BY DEF ResetLockout, SourcesInv, TypeOK
<1>4. \A q \in Ips : /\ perIp'[q].fails < FailThreshold
                     /\ perIp'[q].fails > 0 => perIp'[q].age >= 0
  BY <1>3, LockoutAssumption DEF SourcesInv, Sources, EmptyCounter
<1> QED
  BY <1>1, <1>2, <1>4, FS_EmptySet DEF Sources, GlobalNeedsTwoSources

LEMMA TickSources ==
  ASSUME NEW n \in Nat, SourcesInv(n), Tick
  PROVE  Sources(n)'
<1>1. TypeOK /\ Sources(n) /\ blame' = blame
  BY DEF SourcesInv, Tick
<1>2. \A max \in Nat : \A c \in Counter(max) :
        /\ Later(c).fails = c.fails
        /\ Later(c).age = (IF c.age = -1 THEN -1
                           ELSE IF c.age = FailWindow + 1 THEN c.age ELSE c.age + 1)
        /\ Later(c).left = (IF c.left = 0 THEN 0 ELSE c.left - 1)
  <2> SUFFICES ASSUME NEW max \in Nat, NEW c \in Counter(max)
               PROVE  /\ Later(c).fails = c.fails
                      /\ Later(c).age = (IF c.age = -1 THEN -1
                                         ELSE IF c.age = FailWindow + 1 THEN c.age ELSE c.age + 1)
                      /\ Later(c).left = (IF c.left = 0 THEN 0 ELSE c.left - 1)
    OBVIOUS
  <2>1. c.age \in -1 .. FailWindow + 1 /\ c.left \in 0 .. max
    BY DEF Counter, Never
  <2>2. (IF c.age = Never THEN Never ELSE Lesser(c.age + 1, FailWindow + 1)) =
          (IF c.age = -1 THEN -1 ELSE IF c.age = FailWindow + 1 THEN c.age ELSE c.age + 1)
    BY <2>1, LockoutAssumption DEF Never, Lesser
  <2> QED
    BY <2>1, <2>2 DEF Later, Counter
<1>3. \A q \in Ips :
        /\ perIp'[q].fails = perIp[q].fails
        /\ perIp'[q].age = (IF perIp[q].age = -1 THEN -1
                            ELSE IF perIp[q].age = FailWindow + 1 THEN perIp[q].age
                            ELSE perIp[q].age + 1)
        /\ perIp'[q].left = (IF perIp[q].left = 0 THEN 0 ELSE perIp[q].left - 1)
  BY <1>1, <1>2, LockoutAssumption DEF Tick, TypeOK
<1>4. /\ global'.fails = global.fails
      /\ global'.age = (IF global.age = -1 THEN -1
                        ELSE IF global.age = FailWindow + 1 THEN global.age ELSE global.age + 1)
      /\ global'.left = (IF global.left = 0 THEN 0 ELSE global.left - 1)
  BY <1>1, <1>2, LockoutAssumption DEF Tick, TypeOK
<1>5. /\ global.fails \in Nat /\ global.age \in -1 .. FailWindow + 1
      /\ global.left \in 0 .. MaxCooldown
  BY <1>1, GlobalCounter
<1>6. Locked(global') => Locked(global)
  BY <1>4, <1>5, LockoutAssumption DEF Locked, Freshen, EmptyCounter
<1>7. \A q \in Ips : /\ perIp'[q].fails < FailThreshold
                     /\ perIp'[q].fails > 0 => perIp'[q].age >= 0
  BY <1>1, <1>3, Counters, LockoutAssumption
<1>8. global'.fails > 0 => global'.age >= 0 /\ blame' # {}
  BY <1>1, <1>4, <1>5, LockoutAssumption DEF Sources
<1>9. ASSUME NEW q \in Ips, global'.fails > 0, global'.age <= FailWindow, blame' = {q}
      PROVE  Alone(q, n)'
  <2>1. global.fails > 0 /\ global.age \in 0 .. FailWindow - 1 /\ global'.age = global.age + 1
    BY <1>1, <1>4, <1>5, <1>9, LockoutAssumption DEF Sources
  <2>2. Alone(q, n)
    BY <1>1, <1>9, <2>1, LockoutAssumption DEF Sources
  <2>3. Single(perIp[q].fails, perIp'[q].age, perIp'[q].left, global.fails, global.age + 1, n)
    BY <1>1, <1>3, <1>5, <2>1, <2>2, Counters, SingleTick DEF Alone
  <2> QED
    BY <1>3, <1>4, <2>1, <2>3 DEF Alone
<1> QED
  BY <1>1, <1>6, <1>7, <1>8, <1>9 DEF Sources, GlobalNeedsTwoSources

LEMMA StepSources ==
  ASSUME NEW n, Enough(n), SourcesInv(n), [Next]_vars
  PROVE  SourcesInv(n)'
<1>1. TypeOK'
  BY StepTypes DEF SourcesInv
<1>2. CASE UNCHANGED <<perIp, global, blame>>
  BY <1>1, <1>2 DEF SourcesInv, Sources, GlobalNeedsTwoSources, Locked, Alone
<1>3. ASSUME NEW ip \in Ips, LoginFails(ip) \/ HeaderFails(ip) PROVE SourcesInv(n)'
  BY <1>1, <1>3, LoginSources, HeaderSources DEF SourcesInv
<1>4. ASSUME NEW w \in Workers, NEW ip \in Ips, LoginSucceeds(w, ip) PROVE SourcesInv(n)'
  BY <1>1, <1>4, ResetSources DEF SourcesInv, LoginSucceeds
<1>5. CASE Tick
  BY <1>1, <1>5, TickSources DEF SourcesInv, Enough
<1>6. CASE \/ \E w \in Workers : CreateSession(w) \/ RenewSession(w) \/ \E t \in Tokens : GuardAccepts(w, t)
           \/ \E t \in Tokens : DestroySession(t)
           \/ SweepExpiredSessions
           \/ UNCHANGED vars
  <2>1. UNCHANGED <<perIp, global, blame>>
    BY <1>6 DEF CreateSession, RenewSession, GuardAccepts, DestroySession, SweepExpiredSessions,
      lockout, vars
  <2> QED
    BY <1>2, <2>1
<1> QED
  BY <1>3, <1>4, <1>5, <1>6 DEF Next

LEMMA InitSources ==
  ASSUME NEW n, Init
  PROVE  SourcesInv(n)
<1>1. TypeOK
  BY InitTypes
<1>2. global = EmptyCounter /\ blame = {} /\ \A q \in Ips : perIp[q] = EmptyCounter
  BY DEF Init
<1>3. ~Locked(global) /\ global.fails = 0
  BY <1>2 DEF Locked, Freshen, EmptyCounter
<1>4. \A q \in Ips : perIp[q].fails = 0
  BY <1>2 DEF EmptyCounter
<1> QED
  BY <1>1, <1>2, <1>3, <1>4, FS_EmptySet, LockoutAssumption
  DEF SourcesInv, Sources, GlobalNeedsTwoSources

(* A single address does not trip the global lockout of lockout.ts, however *)
(* it mixes the form and the header and times them, as long as n of its    *)
(* cooldowns outlast the window and the global threshold is n + 1 times    *)
(* its own.  With n = 2 that is GlobalThreshold >= 3 * FailThreshold, as   *)
(* by default, and a cooldown of more than half the window.                *)
THEOREM OneAddressIsNotEnough ==
  ASSUME NEW n \in Nat, n * IpCooldown > FailWindow,
         (n + 1) * FailThreshold <= GlobalThreshold
  PROVE  Spec => []GlobalNeedsTwoSources
<1>1. Enough(n)
  BY DEF Enough
<1>2. Init => SourcesInv(n)
  BY InitSources
<1>3. SourcesInv(n) /\ [Next]_vars => SourcesInv(n)'
  BY <1>1, StepSources
<1>4. SourcesInv(n) => GlobalNeedsTwoSources
  BY DEF SourcesInv, Sources
<1> QED
  BY <1>2, <1>3, <1>4, PTL DEF Spec

=============================================================================
