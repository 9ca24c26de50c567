--------------------------- MODULE ServicesProofs ---------------------------
(***************************************************************************)
(* Proofs about the services that MCServices runs side by side, for any    *)
(* values of their constants: what requests are given (Access), what the   *)
(* streams pass on and send (Streams) and what is billed (Metering).       *)
(***************************************************************************)
EXTENDS MCServices, NaturalsInduction, WellFoundedInduction, SequenceTheorems, FiniteSetTheorems,
  TLAPS

(* The least element of a set of naturals.                                 *)
LEMMA Least ==
  ASSUME NEW S, S \subseteq Nat, S # {}
  PROVE  \E x \in S : \A y \in S : x <= y
<1> DEFINE less == {ss \in Nat \X Nat : ss[1] < ss[2]}
<1>1. less = OpToRel(<, Nat)
  BY Zenon DEF OpToRel
<1>2. IsWellFoundedOn(less, Nat)
  BY <1>1, NatLessThanWellFounded, Zenon
<1>3. \A x, y \in Nat : <<y, x>> \in less <=> y < x
  OBVIOUS
<1> HIDE DEF less
<1>4. PICK x \in S : \A y \in S : <<y, x>> \notin less
  BY <1>2, WFMin
<1>5. \A y \in S : x <= y
  <2> SUFFICES ASSUME NEW y \in S PROVE x <= y
    OBVIOUS
  <2>1. x \in Nat /\ y \in Nat /\ <<y, x>> \notin less
    BY <1>4
  <2>2. ~(y < x)
    BY <1>3, <2>1, Zenon
  <2> QED
    BY <2>1, <2>2
<1> QED
  BY <1>5
----------------------------------------------------------------------------
(* Metering.                                                               *)

Times == 0 .. MaxClock
Polls ==
  {Metering!Idle} \cup [pc : {"sum"}, since : Times]
    \cup [pc : {"count"}, since : Times, summed : Times, bytes : SUBSET Gets]
    \cup [pc : {"record"}, since : Times, summed : Times, counted : Times,
          bytes : SUBSET Gets, requests : SUBSET Gets]

MeterTypes == Metering!TypeOK /\ clock > 0 /\ poll \in [Pollers -> Polls]

(* Rows keep their time; they are kept while they may still be asked for.  *)
LogSound == \A g \in Gets :
  /\ log[g].at <= clock
  /\ log[g].kept => log[g].at > 0
  /\ log[g].at > 0 /\ clock <= log[g].at + Retention => log[g].kept

(* S is what a query at that time finds after `since`: only such rows, and *)
(* all of those logged before the query and still kept.                    *)
Finds(S, since, at) == \A g \in Gets :
  /\ g \in S => since < log[g].at /\ log[g].at <= at
  /\ since < log[g].at /\ log[g].at < at /\ at <= log[g].at + Retention => g \in S

SnapshotSound(s) ==
  /\ s.since <= s.summed /\ s.summed <= s.counted /\ s.counted <= s.at /\ s.at <= clock
  /\ Finds(s.bytes, s.since, s.summed) /\ Finds(s.requests, s.since, s.counted)

PollSound(p) ==
  /\ poll[p].pc # "idle" =>
       /\ poll[p].since <= clock
       /\ poll[p].since = 0 \/ \E s \in snapshots : s.at = poll[p].since
  /\ poll[p].pc \in {"count", "record"} =>
       /\ poll[p].since <= poll[p].summed /\ poll[p].summed <= clock
       /\ Finds(poll[p].bytes, poll[p].since, poll[p].summed)
  /\ poll[p].pc = "record" =>
       /\ poll[p].summed <= poll[p].counted /\ poll[p].counted <= clock
       /\ Finds(poll[p].requests, poll[p].since, poll[p].counted)

(* Polls that do not overlap follow one another.                           *)
InTurn ==
  /\ \A p, q \in Pollers : poll[p].pc # "idle" /\ poll[q].pc # "idle" => p = q
  /\ \A p \in Pollers : poll[p].pc # "idle" => \A s \in snapshots : s.at <= poll[p].since
  /\ \A s, t \in snapshots : s # t => s.at <= t.since \/ t.at <= s.since

MeterInv ==
  /\ MeterTypes /\ LogSound
  /\ \A s \in snapshots : SnapshotSound(s)
  /\ \A p \in Pollers : PollSound(p)
  /\ ~overlapped => InTurn
  /\ Metering!NothingLost

LEMMA MeterInit ==
  ASSUME Metering!Init
  PROVE  MeterInv
<1>1. /\ clock = 1 /\ snapshots = {} /\ polls = 0 /\ overlapped = FALSE
      /\ poll = [p \in Pollers |-> Metering!Idle]
      /\ log = [g \in Gets |-> [at |-> 0, kept |-> FALSE]]
  BY DEF Metering!Init
<1>2. \A p \in Pollers : poll[p].pc = "idle"
  BY <1>1 DEF Metering!Idle
<1>3. \A g \in Gets : log[g].at = 0 /\ log[g].kept = FALSE
  BY <1>1
<1>4. MeterTypes
  <2>1. poll \in [Pollers -> Polls]
    BY <1>1 DEF Polls
  <2>2. log \in [Gets -> Metering!LogRow]
    BY <1>1, ServicesAssumption DEF Metering!LogRow, Metering!Time
  <2>3. clock \in Metering!Time /\ clock > 0 /\ polls \in 0 .. MaxPolls
    BY <1>1, ServicesAssumption DEF Metering!Time
  <2> QED
    BY <1>1, <2>1, <2>2, <2>3 DEF MeterTypes, Metering!TypeOK
<1>5. LogSound /\ Metering!NothingLost
  BY <1>1, <1>3 DEF LogSound, Metering!NothingLost
<1>6. InTurn
  BY <1>1, <1>2 DEF InTurn
<1> QED
  BY <1>1, <1>2, <1>4, <1>5, <1>6 DEF MeterInv, PollSound

(* The newest snapshot.                                                    *)
LEMMA Last ==
  ASSUME MeterTypes, \A s \in snapshots : s.at <= clock
  PROVE  LET t == Metering!LastSnapshot IN
         /\ t \in Times /\ t <= clock
         /\ t = 0 \/ \E s \in snapshots : s.at = t
         /\ \A s \in snapshots : s.at <= t
<1>1. /\ clock \in Times /\ MaxClock \in Nat
      /\ \A s \in snapshots : s.at \in Times
  BY ServicesAssumption
  DEF MeterTypes, Metering!TypeOK, Metering!Time, Metering!Snapshot, Times
<1>2. CASE snapshots = {}
  BY <1>1, <1>2 DEF Metering!LastSnapshot, Times
<1>3. CASE snapshots # {}
  <2> DEFINE S == {MaxClock - s.at : s \in snapshots}
             P(t) == /\ \E s \in snapshots : s.at = t
                     /\ \A s \in snapshots : s.at <= t
  <2>1. S \subseteq Nat /\ S # {}
    BY <1>1, <1>3 DEF Times
  <2>2. PICK x \in S : \A y \in S : x <= y
    BY <2>1, Least
  <2>3. PICK s \in snapshots : x = MaxClock - s.at
    BY <2>2
  <2>4. \A u \in snapshots : u.at <= s.at
    <3> SUFFICES ASSUME NEW u \in snapshots PROVE u.at <= s.at
      OBVIOUS
    <3>1. MaxClock - u.at \in S
      OBVIOUS
    <3>2. MaxClock - s.at <= MaxClock - u.at
      BY <2>2, <2>3, <3>1
    <3> QED
      BY <1>1, <3>2 DEF Times
  <2>5. \E t \in Metering!Time : P(t)
    BY <1>1, <2>4 DEF Times, Metering!Time
  <2>6. Metering!LastSnapshot = CHOOSE t \in Metering!Time : P(t)
    BY <1>3 DEF Metering!LastSnapshot
  <2> HIDE DEF P
  <2>7. P(Metering!LastSnapshot) /\ Metering!LastSnapshot \in Metering!Time
    BY <2>5, <2>6
  <2> QED
    BY <1>1, <2>7 DEF P, Metering!Time, Times
<1> QED
  BY <1>2, <1>3

(* A log row is written once, with the time of that moment; rows before    *)
(* the queries stay what they were.                                        *)
LogGrows ==
  \A g \in Gets : log'[g].at = log[g].at \/ (log[g].at = 0 /\ log'[g].at = clock)

LEMMA FindsStays ==
  ASSUME MeterTypes, LogGrows, NEW S, NEW since \in Times, NEW at \in Times,
         at <= clock, Finds(S, since, at)
  PROVE  Finds(S, since, at)'
<1> SUFFICES ASSUME NEW g \in Gets
             PROVE  /\ g \in S => since < log'[g].at /\ log'[g].at <= at
                    /\ since < log'[g].at /\ log'[g].at < at /\ at <= log'[g].at + Retention
                         => g \in S
  BY DEF Finds
<1>1. log[g].at \in Nat /\ clock \in Nat /\ since \in Nat /\ at \in Nat
  BY ServicesAssumption
  DEF MeterTypes, Metering!TypeOK, Metering!LogRow, Metering!Time, Times
<1>2. /\ g \in S => since < log[g].at /\ log[g].at <= at
      /\ since < log[g].at /\ log[g].at < at /\ at <= log[g].at + Retention => g \in S
  BY DEF Finds
<1>3. log'[g].at = log[g].at \/ (log[g].at = 0 /\ log'[g].at = clock)
  BY DEF LogGrows
<1> QED
  BY <1>1, <1>2, <1>3
LEMMA MeterNumbers ==
  ASSUME MeterTypes
  PROVE  /\ clock \in Nat /\ clock \in Times /\ MaxClock \in Nat /\ Retention \in Nat
         /\ \A g \in Gets : log[g] = [at |-> log[g].at, kept |-> log[g].kept]
                            /\ log[g].at \in Nat /\ log[g].at \in Times
         /\ \A s \in snapshots :
              /\ s \in Metering!Snapshot
              /\ s.since \in Times /\ s.at \in Times /\ s.summed \in Times /\ s.counted \in Times
         /\ \A p \in Pollers :
              /\ poll[p].pc # "idle" => poll[p].since \in Times
              /\ poll[p].pc \in {"count", "record"} => poll[p].summed \in Times
              /\ poll[p].pc = "record" => poll[p].counted \in Times
<1>1. clock \in Nat /\ clock \in Times /\ MaxClock \in Nat /\ Retention \in Nat
  BY ServicesAssumption DEF MeterTypes, Metering!TypeOK, Metering!Time, Times
<1>2. \A g \in Gets : log[g] = [at |-> log[g].at, kept |-> log[g].kept]
                      /\ log[g].at \in Nat /\ log[g].at \in Times
  BY <1>1 DEF MeterTypes, Metering!TypeOK, Metering!LogRow, Metering!Time, Times
<1>3. \A s \in snapshots :
        /\ s \in Metering!Snapshot
        /\ s.since \in Times /\ s.at \in Times /\ s.summed \in Times /\ s.counted \in Times
  BY DEF MeterTypes, Metering!TypeOK, Metering!Snapshot, Metering!Time, Times
<1>4. \A p \in Pollers :
        /\ poll[p].pc # "idle" => poll[p].since \in Times
        /\ poll[p].pc \in {"count", "record"} => poll[p].summed \in Times
        /\ poll[p].pc = "record" => poll[p].counted \in Times
  <2> SUFFICES ASSUME NEW p \in Pollers
               PROVE  /\ poll[p].pc # "idle" => poll[p].since \in Times
                      /\ poll[p].pc \in {"count", "record"} => poll[p].summed \in Times
                      /\ poll[p].pc = "record" => poll[p].counted \in Times
    OBVIOUS
  <2>1. poll[p] \in Polls
    BY DEF MeterTypes
  <2> QED
    BY <2>1 DEF Polls, Metering!Idle
<1> QED
  BY <1>1, <1>2, <1>3, <1>4

(* What a step leaves alone stays sound.                                   *)
LEMMA SnapshotStays ==
  ASSUME MeterTypes, LogGrows, clock <= clock', clock' \in Nat,
         NEW s \in snapshots, SnapshotSound(s)
  PROVE  SnapshotSound(s)'
<1>1. /\ s.since \in Times /\ s.at \in Times /\ s.summed \in Times /\ s.counted \in Times
      /\ clock \in Nat
  BY MeterNumbers
<1>2. /\ s.since <= s.summed /\ s.summed <= s.counted /\ s.counted <= s.at /\ s.at <= clock
      /\ Finds(s.bytes, s.since, s.summed) /\ Finds(s.requests, s.since, s.counted)
  BY DEF SnapshotSound
<1>3. s.at <= clock' /\ s.summed <= clock /\ s.counted <= clock
  BY <1>1, <1>2 DEF Times
<1>4. Finds(s.bytes, s.since, s.summed)' /\ Finds(s.requests, s.since, s.counted)'
  BY <1>1, <1>2, <1>3, FindsStays
<1> QED
  BY <1>2, <1>3, <1>4 DEF SnapshotSound

LEMMA PollStays ==
  ASSUME MeterTypes, LogGrows, clock <= clock', clock' \in Nat, snapshots \subseteq snapshots',
         NEW p \in Pollers, PollSound(p), poll'[p] = poll[p]
  PROVE  PollSound(p)'
<1>1. /\ poll[p].pc # "idle" => poll[p].since \in Times
      /\ poll[p].pc \in {"count", "record"} => poll[p].summed \in Times
      /\ poll[p].pc = "record" => poll[p].counted \in Times
      /\ clock \in Nat
  BY MeterNumbers
<1>2. poll[p].pc # "idle" =>
        /\ poll[p].since <= clock'
        /\ poll[p].since = 0 \/ \E s \in snapshots' : s.at = poll[p].since
  BY <1>1 DEF PollSound, Times
<1>3. poll[p].pc \in {"count", "record"} =>
        /\ poll[p].since <= poll[p].summed /\ poll[p].summed <= clock'
        /\ Finds(poll[p].bytes, poll[p].since, poll[p].summed)'
  <2> SUFFICES ASSUME poll[p].pc \in {"count", "record"}
               PROVE  /\ poll[p].since <= poll[p].summed /\ poll[p].summed <= clock'
                      /\ Finds(poll[p].bytes, poll[p].since, poll[p].summed)'
    OBVIOUS
  <2>1. /\ poll[p].since \in Times /\ poll[p].summed \in Times
        /\ poll[p].since <= poll[p].summed /\ poll[p].summed <= clock
        /\ Finds(poll[p].bytes, poll[p].since, poll[p].summed)
    BY <1>1 DEF PollSound
  <2>2. \A S, a, b : S = poll[p].bytes /\ a = poll[p].since /\ b = poll[p].summed =>
          Finds(S, a, b)'
    BY <2>1, FindsStays
  <2> QED
    BY <1>1, <2>1, <2>2 DEF Times
<1>4. poll[p].pc = "record" =>
        /\ poll[p].summed <= poll[p].counted /\ poll[p].counted <= clock'
        /\ Finds(poll[p].requests, poll[p].since, poll[p].counted)'
  BY <1>1, FindsStays DEF PollSound, Times
<1> QED
  BY <1>2, <1>3, <1>4 DEF PollSound

LEMMA LostStays ==
  ASSUME MeterInv, LogGrows, snapshots' = snapshots
  PROVE  Metering!NothingLost'
<1>1. MeterTypes /\ \A s \in snapshots : SnapshotSound(s)
  BY DEF MeterInv
<1>2. \A s \in snapshots : s.counted <= clock /\ s.summed <= clock
  <2> SUFFICES ASSUME NEW s \in snapshots PROVE s.counted <= clock /\ s.summed <= clock
    OBVIOUS
  <2>1. SnapshotSound(s)
    BY <1>1
  <2> QED
    BY <1>1, <2>1, MeterNumbers DEF SnapshotSound, Times
<1>3. \A g \in Gets : log'[g].at # log[g].at =>
        \A s \in snapshots : ~(s.counted > log'[g].at) /\ ~(s.summed > log'[g].at)
  <2> SUFFICES ASSUME NEW g \in Gets, log'[g].at # log[g].at, NEW s \in snapshots
               PROVE  ~(s.counted > log'[g].at) /\ ~(s.summed > log'[g].at)
    OBVIOUS
  <2>1. log'[g].at = clock
    BY DEF LogGrows
  <2> QED
    BY <1>1, <1>2, <2>1, MeterNumbers DEF Times
<1> SUFFICES ASSUME NEW g \in Gets
             PROVE  LET t == log'[g].at IN
    /\ (t > 0 /\ \E s \in snapshots : s.counted > t /\ s.at <= t + Retention) =>
         \E s \in snapshots : g \in s.requests \/ (s.counted <= t /\ t <= s.at)
    /\ (t > 0 /\ \E s \in snapshots : s.summed > t /\ s.at <= t + Retention) =>
         \E s \in snapshots : g \in s.bytes \/ (s.summed <= t /\ t <= s.at)
  BY DEF Metering!NothingLost
<1>4. CASE log'[g].at = log[g].at
  BY <1>4 DEF MeterInv, Metering!NothingLost
<1>5. CASE log'[g].at # log[g].at
  BY <1>3, <1>5
<1> QED
  BY <1>4, <1>5

(* Steps of the clock and the log.                                         *)
LEMMA MeterLogSteps ==
  ASSUME MeterInv, MeterTypes', LogGrows, LogSound', clock <= clock',
         UNCHANGED <<snapshots, poll, overlapped>>
  PROVE  MeterInv'
<1>1. MeterTypes /\ clock' \in Nat
  BY MeterNumbers DEF MeterInv, MeterTypes, Metering!TypeOK, Metering!Time
<1>2. \A s \in snapshots : SnapshotSound(s)'
  BY <1>1, SnapshotStays DEF MeterInv
<1>3. \A p \in Pollers : PollSound(p)'
  BY <1>1, PollStays DEF MeterInv
<1>4. (~overlapped => InTurn)'
  BY DEF MeterInv, InTurn
<1>5. Metering!NothingLost'
  BY LostStays
<1> QED
  BY <1>2, <1>3, <1>4, <1>5 DEF MeterInv

LEMMA MeterClock ==
  ASSUME MeterInv, Metering!Tick
  PROVE  MeterInv'
<1>1. MeterTypes /\ LogSound /\ clock < MaxClock /\ clock' = clock + 1
      /\ UNCHANGED <<log, snapshots, poll, polls, overlapped>>
  BY DEF MeterInv, Metering!Tick
<1>2. MeterTypes'
  BY <1>1, MeterNumbers DEF MeterTypes, Metering!TypeOK, Metering!Time
<1>3. LogGrows /\ clock <= clock'
  BY <1>1, MeterNumbers DEF LogGrows
<1>4. LogSound'
  <2> SUFFICES ASSUME NEW h \in Gets
               PROVE  /\ log[h].at <= clock + 1
                      /\ log[h].kept => log[h].at > 0
                      /\ log[h].at > 0 /\ clock + 1 <= log[h].at + Retention => log[h].kept
    BY <1>1 DEF LogSound
  <2>1. clock \in Nat /\ Retention \in Nat /\ log[h].at \in Nat
    BY <1>1, MeterNumbers
  <2>2. /\ log[h].at <= clock
        /\ log[h].kept => log[h].at > 0
        /\ log[h].at > 0 /\ clock <= log[h].at + Retention => log[h].kept
    BY <1>1 DEF LogSound
  <2>3. clock + 1 <= log[h].at + Retention => clock <= log[h].at + Retention
    BY <2>1
  <2>4. log[h].at <= clock + 1
    BY <2>1, <2>2
  <2> QED
    BY <2>2, <2>3, <2>4
<1> QED
  BY <1>1, <1>2, <1>3, <1>4, MeterLogSteps

LEMMA MeterLogged ==
  ASSUME MeterInv, NEW g \in Gets, Metering!LogRequest(g)
  PROVE  MeterInv'
<1>1. MeterTypes /\ LogSound /\ log[g].at = 0
      /\ log' = [log EXCEPT ![g] = [at |-> clock, kept |-> TRUE]]
      /\ UNCHANGED <<clock, snapshots, poll, polls, overlapped>>
  BY DEF MeterInv, Metering!LogRequest
<1>2. log \in [Gets -> Metering!LogRow] /\ clock \in Metering!Time /\ clock > 0
  BY <1>1 DEF MeterTypes, Metering!TypeOK
<1>3. [at |-> clock, kept |-> TRUE] \in Metering!LogRow
  BY <1>2 DEF Metering!LogRow
<1>4. log' \in [Gets -> Metering!LogRow]
  BY <1>1, <1>2, <1>3
<1>5. MeterTypes'
  BY <1>1, <1>4 DEF MeterTypes, Metering!TypeOK
<1>6. /\ \A h \in Gets \ {g} : log'[h] = log[h]
      /\ log'[g].at = clock /\ log'[g].kept
  BY <1>1, <1>2
<1>7. LogGrows
  BY <1>1, <1>6 DEF LogGrows
<1>8. LogSound'
  <2> SUFFICES ASSUME NEW h \in Gets
               PROVE  /\ log'[h].at <= clock
                      /\ log'[h].kept => log'[h].at > 0
                      /\ log'[h].at > 0 /\ clock <= log'[h].at + Retention => log'[h].kept
    BY <1>1 DEF LogSound
  <2>1. CASE h = g
    BY <1>1, <1>2, <1>6, <2>1, MeterNumbers
  <2>2. CASE h # g
    BY <1>1, <1>6, <2>2 DEF LogSound
  <2> QED
    BY <2>1, <2>2
<1>9. clock <= clock'
  BY <1>1, MeterNumbers
<1> QED
  BY <1>1, <1>5, <1>7, <1>8, <1>9, MeterLogSteps

LEMMA MeterSwept ==
  ASSUME MeterInv, Metering!SweepRequestLogs
  PROVE  MeterInv'
<1>1. MeterTypes /\ LogSound
      /\ log' = [g \in Gets |-> [log[g] EXCEPT !.kept = @ /\ log[g].at >= clock - Retention]]
      /\ UNCHANGED <<clock, snapshots, poll, polls, overlapped>>
  BY DEF MeterInv, Metering!SweepRequestLogs
<1>2. \A g \in Gets : log[g] \in Metering!LogRow
  BY <1>1 DEF MeterTypes, Metering!TypeOK
<1>3. \A g \in Gets : /\ log'[g] \in Metering!LogRow
                      /\ log'[g].at = log[g].at
                      /\ log'[g].kept <=> log[g].kept /\ log[g].at >= clock - Retention
  <2> SUFFICES ASSUME NEW g \in Gets
               PROVE  /\ log'[g] \in Metering!LogRow
                      /\ log'[g].at = log[g].at
                      /\ log'[g].kept <=> log[g].kept /\ log[g].at >= clock - Retention
    OBVIOUS
  <2>1. log'[g] = [log[g] EXCEPT !.kept = log[g].kept /\ log[g].at >= clock - Retention]
    BY <1>1
  <2>2. log[g] \in Metering!LogRow
    BY <1>2
  <2> DEFINE k == log[g].kept /\ log[g].at >= clock - Retention
  <2>3. k \in BOOLEAN
    OBVIOUS
  <2>4. log'[g] = [log[g] EXCEPT !.kept = k]
    BY <2>1
  <2> HIDE DEF k
  <2>5. log'[g] \in Metering!LogRow /\ log'[g].at = log[g].at /\ log'[g].kept = k
    BY <2>2, <2>3, <2>4 DEF Metering!LogRow
  <2> QED
    BY <2>5 DEF k
<1>4. log' \in [Gets -> Metering!LogRow]
  BY <1>1, <1>3
<1>5. MeterTypes'
  BY <1>1, <1>4 DEF MeterTypes, Metering!TypeOK
<1>6. LogGrows
  BY <1>3 DEF LogGrows
<1>7. LogSound'
  <2> SUFFICES ASSUME NEW h \in Gets
               PROVE  /\ log'[h].at <= clock
                      /\ log'[h].kept => log'[h].at > 0
                      /\ log'[h].at > 0 /\ clock <= log'[h].at + Retention => log'[h].kept
    BY <1>1 DEF LogSound
  <2>1. clock <= log[h].at + Retention <=> log[h].at >= clock - Retention
    <3>1. clock \in Nat /\ Retention \in Nat /\ log[h].at \in Nat
      BY <1>1, MeterNumbers
    <3> QED
      BY <3>1
  <2> QED
    BY <1>1, <1>3, <2>1 DEF LogSound
<1>8. clock <= clock'
  BY <1>1, MeterNumbers
<1> QED
  BY <1>1, <1>5, <1>6, <1>7, <1>8, MeterLogSteps
(* Steps of one poll that record nothing.                                  *)
LEMMA PollStep ==
  ASSUME MeterInv, NEW p \in Pollers, NEW x \in Polls, poll' = [poll EXCEPT ![p] = x],
         UNCHANGED <<clock, log, snapshots>>, polls' \in 0 .. MaxPolls, overlapped' \in BOOLEAN,
         PollSound(p)', ~overlapped' => InTurn'
  PROVE  MeterInv'
<1>1. MeterTypes /\ LogSound
  BY DEF MeterInv
<1>2. MeterTypes'
  BY <1>1 DEF MeterTypes, Metering!TypeOK
<1>3. LogGrows /\ clock <= clock' /\ clock' \in Nat /\ snapshots \subseteq snapshots'
  BY <1>1, MeterNumbers DEF LogGrows
<1>4. \A s \in snapshots : SnapshotSound(s)'
  BY <1>1, <1>3, SnapshotStays DEF MeterInv
<1>5. \A q \in Pollers : PollSound(q)'
  <2> SUFFICES ASSUME NEW q \in Pollers, q # p PROVE PollSound(q)'
    OBVIOUS
  <2>1. poll'[q] = poll[q]
    BY <1>1 DEF MeterTypes
  <2> QED
    BY <1>1, <1>3, <2>1, PollStays DEF MeterInv
<1>6. Metering!NothingLost'
  BY <1>3, LostStays
<1>7. LogSound'
  BY <1>1 DEF LogSound
<1> QED
  BY <1>2, <1>4, <1>5, <1>6, <1>7 DEF MeterInv

(* A poll that was in turn stays in turn, done or not.                     *)
LEMMA TurnStays ==
  ASSUME MeterInv, NEW p \in Pollers, NEW x \in Polls, poll' = [poll EXCEPT ![p] = x],
         poll[p].pc # "idle", x.pc # "idle" => x.since = poll[p].since,
         UNCHANGED <<snapshots, overlapped>>
  PROVE  ~overlapped' => InTurn'
<1> SUFFICES ASSUME ~overlapped PROVE InTurn'
  OBVIOUS
<1>1. InTurn
  BY DEF MeterInv
<1>2. poll'[p] = x /\ \A q \in Pollers \ {p} : poll'[q] = poll[q]
  BY DEF MeterInv, MeterTypes
<1>3. \A q \in Pollers : poll'[q].pc # "idle" =>
        poll[q].pc # "idle" /\ poll'[q].since = poll[q].since
  BY <1>2
<1> QED
  BY <1>1, <1>3 DEF InTurn

LEMMA FindsNow ==
  ASSUME MeterTypes, LogSound, NEW since \in Times
  PROVE  /\ Finds(Metering!LoggedSince(since), since, clock)
         /\ Metering!LoggedSince(since) \in SUBSET Gets
<1> SUFFICES ASSUME NEW g \in Gets
             PROVE  /\ g \in Metering!LoggedSince(since) => since < log[g].at /\ log[g].at <= clock
                    /\ since < log[g].at /\ log[g].at < clock /\ clock <= log[g].at + Retention
                         => g \in Metering!LoggedSince(since)
  BY DEF Finds, Metering!LoggedSince
<1>1. g \in Metering!LoggedSince(since) <=> log[g].kept /\ log[g].at > since
  BY DEF Metering!LoggedSince
<1>2. log[g].at <= clock /\ log[g].at \in Nat /\ since \in Nat /\ clock \in Nat
  <2>1. log[g].at \in Nat /\ clock \in Nat
    BY MeterNumbers
  <2>2. log[g].at <= clock
    BY DEF LogSound
  <2> QED
    BY <2>1, <2>2, ServicesAssumption DEF Times
<1>3. since < log[g].at /\ clock <= log[g].at + Retention => log[g].kept
  <2>1. since < log[g].at => log[g].at > 0
    BY <1>2
  <2> QED
    BY <2>1 DEF LogSound
<1> QED
  BY <1>1, <1>2, <1>3

LEMMA MeterBegins ==
  ASSUME MeterInv, NEW p \in Pollers, Metering!PollBegin(p)
  PROVE  MeterInv'
<1> DEFINE t == Metering!LastSnapshot
           x == [pc |-> "sum", since |-> t]
<1>1. /\ MeterTypes /\ poll[p] = Metering!Idle /\ polls < MaxPolls /\ polls' = polls + 1
      /\ poll' = [poll EXCEPT ![p] = x]
      /\ overlapped' = (overlapped \/ \E q \in Pollers : poll[q] # Metering!Idle)
      /\ UNCHANGED <<clock, log, snapshots>>
  BY DEF MeterInv, Metering!PollBegin
<1>2. \A s \in snapshots : s.at <= clock
  BY DEF MeterInv, SnapshotSound
<1>3. /\ t \in Times /\ t <= clock
      /\ t = 0 \/ \E s \in snapshots : s.at = t
      /\ \A s \in snapshots : s.at <= t
  BY <1>1, <1>2, Last
<1> HIDE DEF t
<1>4. x \in Polls /\ poll'[p] = x
  BY <1>1, <1>3 DEF MeterTypes, Polls
<1>5. PollSound(p)'
  BY <1>1, <1>3, <1>4 DEF PollSound
<1>6. polls' \in 0 .. MaxPolls /\ overlapped' \in BOOLEAN
  <2>1. polls \in 0 .. MaxPolls
    BY <1>1 DEF MeterTypes, Metering!TypeOK
  <2>2. polls' \in 0 .. MaxPolls
    BY <1>1, <2>1, ServicesAssumption
  <2>3. overlapped' \in BOOLEAN
    BY <1>1
  <2> QED
    BY <2>2, <2>3
<1>7. ASSUME ~overlapped' PROVE InTurn'
  <2>1. ~overlapped /\ \A q \in Pollers : poll[q] = Metering!Idle
    BY <1>1, <1>7
  <2>2. \A q \in Pollers : poll'[q].pc # "idle" => q = p
    BY <1>1, <2>1 DEF MeterTypes, Metering!Idle
  <2>3. InTurn
    BY <2>1 DEF MeterInv
  <2> QED
    BY <1>1, <1>3, <1>4, <2>2, <2>3 DEF InTurn
<1> QED
  BY <1>1, <1>4, <1>5, <1>6, <1>7, PollStep

LEMMA MeterSums ==
  ASSUME MeterInv, NEW p \in Pollers, Metering!SumBytes(p)
  PROVE  MeterInv'
<1> DEFINE b == Metering!LoggedSince(poll[p].since)
           x == [pc |-> "count", since |-> poll[p].since, summed |-> clock, bytes |-> b]
<1>1. /\ MeterTypes /\ LogSound /\ poll[p].pc = "sum"
      /\ poll' = [poll EXCEPT ![p] = x]
      /\ UNCHANGED <<clock, log, snapshots, polls, overlapped>>
  BY DEF MeterInv, Metering!SumBytes
<1>2. poll[p].since \in Times /\ clock \in Times /\ clock \in Nat
  BY <1>1, MeterNumbers
<1>3. Finds(b, poll[p].since, clock) /\ b \in SUBSET Gets
  BY <1>1, <1>2, FindsNow
<1> HIDE DEF b
<1>4. x \in Polls /\ poll'[p] = x /\ x.pc = "count"
  BY <1>1, <1>2, <1>3 DEF MeterTypes, Polls
<1>5. PollSound(p)'
  <2>1. poll[p].since <= clock /\ (poll[p].since = 0 \/ \E s \in snapshots : s.at = poll[p].since)
    BY <1>1 DEF MeterInv, PollSound
  <2>2. Finds(poll[p].bytes, poll[p].since, poll[p].summed)'
    BY <1>1, <1>3, <1>4 DEF Finds
  <2> QED
    BY <1>1, <1>2, <1>4, <2>1, <2>2 DEF PollSound
<1>6. polls' \in 0 .. MaxPolls /\ overlapped' \in BOOLEAN
  BY <1>1 DEF MeterTypes, Metering!TypeOK
<1>7. ~overlapped' => InTurn'
  BY <1>1, <1>4, TurnStays
<1> QED
  BY <1>1, <1>4, <1>5, <1>6, <1>7, PollStep

LEMMA MeterCounts ==
  ASSUME MeterInv, NEW p \in Pollers, Metering!CountRequests(p)
  PROVE  MeterInv'
<1> DEFINE c == Metering!LoggedSince(poll[p].since)
           x == [pc |-> "record", since |-> poll[p].since, summed |-> poll[p].summed,
                 bytes |-> poll[p].bytes, counted |-> clock, requests |-> c]
<1>1. /\ MeterTypes /\ LogSound /\ poll[p].pc = "count"
      /\ poll' = [poll EXCEPT ![p] = x]
      /\ UNCHANGED <<clock, log, snapshots, polls, overlapped>>
  BY DEF MeterInv, Metering!CountRequests
<1>2. /\ poll[p].since \in Times /\ poll[p].summed \in Times /\ clock \in Times /\ clock \in Nat
  BY <1>1, MeterNumbers
<1>3. Finds(c, poll[p].since, clock) /\ c \in SUBSET Gets
  BY <1>1, <1>2, FindsNow
<1> HIDE DEF c
<1>4. x \in Polls /\ poll'[p] = x /\ x.pc = "record"
  <2>1. poll[p] \in Polls
    BY <1>1 DEF MeterTypes
  <2>2. poll[p].bytes \in SUBSET Gets
    BY <1>1, <2>1 DEF Polls, Metering!Idle
  <2> QED
    BY <1>1, <1>2, <1>3, <2>2 DEF MeterTypes, Polls
<1>5. PollSound(p)'
  <2>1. /\ poll[p].since <= clock
        /\ poll[p].since = 0 \/ \E s \in snapshots : s.at = poll[p].since
        /\ poll[p].since <= poll[p].summed /\ poll[p].summed <= clock
        /\ Finds(poll[p].bytes, poll[p].since, poll[p].summed)
    BY <1>1 DEF MeterInv, PollSound
  <2>2. /\ Finds(poll[p].bytes, poll[p].since, poll[p].summed)'
        /\ Finds(poll[p].requests, poll[p].since, poll[p].counted)'
    BY <1>1, <1>3, <1>4, <2>1 DEF Finds
  <2> QED
    BY <1>1, <1>2, <1>4, <2>1, <2>2 DEF PollSound
<1>6. polls' \in 0 .. MaxPolls /\ overlapped' \in BOOLEAN
  BY <1>1 DEF MeterTypes, Metering!TypeOK
<1>7. ~overlapped' => InTurn'
  BY <1>1, <1>4, TurnStays
<1> QED
  BY <1>1, <1>4, <1>5, <1>6, <1>7, PollStep

LEMMA MeterFails ==
  ASSUME MeterInv, NEW p \in Pollers, Metering!PollFails(p)
  PROVE  MeterInv'
<1>1. /\ MeterTypes /\ poll[p] # Metering!Idle
      /\ poll' = [poll EXCEPT ![p] = Metering!Idle]
      /\ UNCHANGED <<clock, log, snapshots, polls, overlapped>>
  BY DEF MeterInv, Metering!PollFails
<1>2. /\ Metering!Idle \in Polls /\ Metering!Idle.pc = "idle"
      /\ poll'[p] = Metering!Idle /\ poll[p].pc # "idle"
  <2>1. poll[p] \in Polls
    BY <1>1 DEF MeterTypes
  <2>2. poll[p].pc # "idle"
    BY <1>1, <2>1 DEF Polls
  <2> QED
    BY <1>1, <2>2 DEF MeterTypes, Polls, Metering!Idle
<1>3. PollSound(p)'
  BY <1>2 DEF PollSound
<1>4. polls' \in 0 .. MaxPolls /\ overlapped' \in BOOLEAN
  BY <1>1 DEF MeterTypes, Metering!TypeOK
<1>5. ~overlapped' => InTurn'
  BY <1>1, <1>2, TurnStays
<1> QED
  BY <1>1, <1>2, <1>3, <1>4, <1>5, PollStep
(* A row too old for the poll was counted by the snapshot before it, or    *)
(* was logged between that one's question and its insert.                  *)
LEMMA MeterRecords ==
  ASSUME MeterInv, NEW p \in Pollers, Metering!RecordSnapshot(p)
  PROVE  MeterInv'
<1> DEFINE n == [since |-> poll[p].since, at |-> clock, summed |-> poll[p].summed,
                 counted |-> poll[p].counted, bytes |-> poll[p].bytes,
                 requests |-> poll[p].requests]
<1>1. /\ MeterTypes /\ LogSound /\ poll[p].pc = "record"
      /\ snapshots' = snapshots \cup {n}
      /\ poll' = [poll EXCEPT ![p] = Metering!Idle]
      /\ UNCHANGED <<clock, log, polls, overlapped>>
  BY DEF MeterInv, Metering!RecordSnapshot
<1>2. /\ poll[p].since \in Times /\ poll[p].summed \in Times /\ poll[p].counted \in Times
      /\ poll[p].bytes \in SUBSET Gets /\ poll[p].requests \in SUBSET Gets
      /\ clock \in Times /\ clock \in Nat /\ Retention \in Nat /\ MaxClock \in Nat
  <2>1. poll[p] \in Polls
    BY <1>1 DEF MeterTypes
  <2>2. poll[p].bytes \in SUBSET Gets /\ poll[p].requests \in SUBSET Gets
    BY <1>1, <2>1 DEF Polls, Metering!Idle
  <2> QED
    BY <1>1, <2>2, MeterNumbers
<1>3. /\ poll[p].since <= poll[p].summed /\ poll[p].summed <= poll[p].counted
      /\ poll[p].counted <= clock /\ poll[p].since <= clock
      /\ poll[p].since = 0 \/ \E s \in snapshots : s.at = poll[p].since
      /\ Finds(poll[p].bytes, poll[p].since, poll[p].summed)
      /\ Finds(poll[p].requests, poll[p].since, poll[p].counted)
  BY <1>1 DEF MeterInv, PollSound
<1>4. /\ n.since = poll[p].since /\ n.at = clock /\ n.summed = poll[p].summed
      /\ n.counted = poll[p].counted /\ n.bytes = poll[p].bytes
      /\ n.requests = poll[p].requests /\ n \in Metering!Snapshot
  BY <1>2 DEF Metering!Snapshot, Metering!Time, Times
<1> HIDE DEF n
<1>5. poll'[p].pc = "idle" /\ poll' \in [Pollers -> Polls]
      /\ \A q \in Pollers \ {p} : poll'[q] = poll[q]
  BY <1>1 DEF MeterTypes, Polls, Metering!Idle
<1>6. MeterTypes'
  BY <1>1, <1>3, <1>4, <1>5 DEF MeterTypes, Metering!TypeOK
<1>7. LogGrows /\ clock <= clock' /\ clock' \in Nat /\ snapshots \subseteq snapshots'
  BY <1>1, <1>2 DEF LogGrows
<1>8. \A s \in snapshots' : SnapshotSound(s)'
  <2>1. \A s \in snapshots : SnapshotSound(s)'
    BY <1>1, <1>7, SnapshotStays DEF MeterInv
  <2>2. Finds(n.bytes, n.since, n.summed)
    BY <1>3, <1>4
  <2>3. Finds(n.requests, n.since, n.counted)
    BY <1>3, <1>4
  <2>4. SnapshotSound(n)
    BY <1>2, <1>3, <1>4, <2>2, <2>3 DEF SnapshotSound
  <2>5. \A s : s = n => SnapshotSound(s)'
    <3> SUFFICES ASSUME NEW s, s = n PROVE SnapshotSound(s)'
      OBVIOUS
    <3>1. SnapshotSound(s)
      BY <2>4
    <3> QED
      BY <1>1, <3>1 DEF SnapshotSound, Finds
  <2> QED
    BY <1>1, <2>1, <2>5
<1>9. \A q \in Pollers : PollSound(q)'
  <2>1. PollSound(p)'
    BY <1>5 DEF PollSound
  <2>2. \A q \in Pollers \ {p} : PollSound(q)'
    BY <1>1, <1>5, <1>7, PollStays DEF MeterInv
  <2> QED
    BY <2>1, <2>2
<1>10. ASSUME ~overlapped PROVE InTurn'
  <2>1. InTurn
    BY <1>10 DEF MeterInv
  <2>2. \A q \in Pollers : poll'[q].pc = "idle"
    BY <1>1, <1>5, <2>1 DEF InTurn
  <2>3. \A s \in snapshots : s.at <= n.since
    BY <1>1, <1>4, <2>1 DEF InTurn
  <2>4. \A s, t \in snapshots' : s # t => s.at <= t.since \/ t.at <= s.since
    BY <1>1, <2>1, <2>3 DEF InTurn
  <2> QED
    BY <2>2, <2>4 DEF InTurn
<1>11. ASSUME NEW g \in Gets, log[g].at > 0, NEW u \in snapshots',
              u.counted > log[g].at, u.at <= log[g].at + Retention
       PROVE  \E s \in snapshots' : g \in s.requests \/ (s.counted <= log[g].at /\ log[g].at <= s.at)
  <2> DEFINE t == log[g].at
  <2>1. t \in Nat
    BY <1>1, MeterNumbers
  <2>2. ASSUME NEW v \in snapshots, v.counted > t, v.at <= t + Retention
        PROVE  \E s \in snapshots : g \in s.requests \/ (s.counted <= t /\ t <= s.at)
    BY <1>11, <2>2 DEF MeterInv, Metering!NothingLost
  <2>3. CASE u \in snapshots
    BY <1>1, <1>11, <2>2, <2>3
  <2>4. CASE u = n
    <3>1. t < poll[p].counted /\ clock <= t + Retention /\ poll[p].counted <= t + Retention
      BY <1>2, <1>3, <1>4, <1>11, <2>1, <2>4 DEF Times
    <3>2. CASE poll[p].since < t
      <4>1. g \in n.requests
        BY <1>3, <1>4, <3>1, <3>2 DEF Finds
      <4> QED
        BY <1>1, <4>1
    <3>3. CASE t <= poll[p].since
      <4>1. PICK v \in snapshots : v.at = poll[p].since
        BY <1>2, <1>3, <1>11, <2>1, <3>3 DEF Times
      <4>2. v.at <= t + Retention /\ t <= v.at /\ v.counted \in Nat
        BY <1>1, <1>2, <1>3, <2>1, <3>1, <3>3, <4>1, MeterNumbers DEF Times
      <4>3. v.counted > t \/ v.counted <= t
        BY <2>1, <4>2
      <4> QED
        BY <1>1, <2>2, <4>2, <4>3
    <3> QED
      BY <1>2, <2>1, <3>2, <3>3 DEF Times
  <2> QED
    BY <1>1, <2>3, <2>4
<1>12. ASSUME NEW g \in Gets, log[g].at > 0, NEW u \in snapshots',
              u.summed > log[g].at, u.at <= log[g].at + Retention
       PROVE  \E s \in snapshots' : g \in s.bytes \/ (s.summed <= log[g].at /\ log[g].at <= s.at)
  <2> DEFINE t == log[g].at
  <2>1. t \in Nat
    BY <1>1, MeterNumbers
  <2>2. ASSUME NEW v \in snapshots, v.summed > t, v.at <= t + Retention
        PROVE  \E s \in snapshots : g \in s.bytes \/ (s.summed <= t /\ t <= s.at)
    BY <1>12, <2>2 DEF MeterInv, Metering!NothingLost
  <2>3. CASE u \in snapshots
    BY <1>1, <1>12, <2>2, <2>3
  <2>4. CASE u = n
    <3>1. t < poll[p].summed /\ clock <= t + Retention /\ poll[p].summed <= t + Retention
      BY <1>2, <1>3, <1>4, <1>12, <2>1, <2>4 DEF Times
    <3>2. CASE poll[p].since < t
      <4>1. g \in n.bytes
        BY <1>3, <1>4, <3>1, <3>2 DEF Finds
      <4> QED
        BY <1>1, <4>1
    <3>3. CASE t <= poll[p].since
      <4>1. PICK v \in snapshots : v.at = poll[p].since
        BY <1>2, <1>3, <1>12, <2>1, <3>3 DEF Times
      <4>2. v.at <= t + Retention /\ t <= v.at /\ v.summed \in Nat
        BY <1>1, <1>2, <1>3, <2>1, <3>1, <3>3, <4>1, MeterNumbers DEF Times
      <4>3. v.summed > t \/ v.summed <= t
        BY <2>1, <4>2
      <4> QED
        BY <1>1, <2>2, <4>2, <4>3
    <3> QED
      BY <1>2, <2>1, <3>2, <3>3 DEF Times
  <2> QED
    BY <1>1, <2>3, <2>4
<1>13. Metering!NothingLost'
  BY <1>1, <1>11, <1>12 DEF Metering!NothingLost
<1>14. LogSound' /\ (~overlapped => InTurn)'
  BY <1>1, <1>10 DEF LogSound
<1> QED
  BY <1>6, <1>8, <1>9, <1>13, <1>14 DEF MeterInv

LEMMA MeterNext ==
  ASSUME MeterInv, Metering!Next
  PROVE  MeterInv'
BY MeterClock, MeterSwept, MeterLogged, MeterBegins, MeterSums, MeterCounts, MeterRecords,
   MeterFails DEF Metering!Next

LEMMA MeterUnchanged ==
  ASSUME MeterInv, UNCHANGED meterVars
  PROVE  MeterInv'
BY DEF MeterInv, meterVars, MeterTypes, Metering!TypeOK, LogSound, SnapshotSound, Finds,
  PollSound, InTurn, Metering!NothingLost

(* Polls in turn count a row in one interval only.                         *)
LEMMA MeterTwice ==
  ASSUME MeterInv
  PROVE  Metering!Metered
<1> SUFFICES ASSUME ~overlapped, NEW s \in snapshots, NEW t \in snapshots, s # t
             PROVE  s.requests \cap t.requests = {} /\ s.bytes \cap t.bytes = {}
  BY DEF MeterInv, Metering!Metered, Metering!NothingTwice
<1>1. MeterTypes /\ SnapshotSound(s) /\ SnapshotSound(t)
      /\ (s.at <= t.since \/ t.at <= s.since)
  BY DEF MeterInv, InTurn
<1>2. /\ s.since \in Nat /\ s.at \in Nat /\ s.summed \in Nat /\ s.counted \in Nat
      /\ t.since \in Nat /\ t.at \in Nat /\ t.summed \in Nat /\ t.counted \in Nat
      /\ \A g \in Gets : log[g].at \in Nat
      /\ s.requests \subseteq Gets /\ s.bytes \subseteq Gets
  <2>1. /\ s \in Metering!Snapshot /\ t \in Metering!Snapshot /\ MaxClock \in Nat
        /\ \A g \in Gets : log[g].at \in Nat
    BY <1>1, MeterNumbers
  <2> QED
    BY <2>1 DEF Metering!Snapshot, Metering!Time
<1>3. ASSUME NEW g \in Gets, g \in s.requests, g \in t.requests PROVE FALSE
  <2>1. /\ s.since < log[g].at /\ log[g].at <= s.counted
        /\ t.since < log[g].at /\ log[g].at <= t.counted
        /\ s.counted <= s.at /\ t.counted <= t.at
    BY <1>1, <1>3 DEF SnapshotSound, Finds
  <2> QED
    BY <1>1, <1>2, <2>1
<1>4. ASSUME NEW g \in Gets, g \in s.bytes, g \in t.bytes PROVE FALSE
  <2>1. /\ s.since < log[g].at /\ log[g].at <= s.summed
        /\ t.since < log[g].at /\ log[g].at <= t.summed
        /\ s.summed <= s.counted /\ t.summed <= t.counted
        /\ s.counted <= s.at /\ t.counted <= t.at
    BY <1>1, <1>4 DEF SnapshotSound, Finds
  <2> QED
    BY <1>1, <1>2, <2>1
<1> QED
  BY <1>2, <1>3, <1>4
----------------------------------------------------------------------------
(* Access: types.                                                          *)

KeyRow == [permission : Permissions, filter : Buckets \cup {None}, live : BOOLEAN]
DomainRow == [host : Hosts, bucket : Buckets, live : BOOLEAN]
Url == [key : Nat, bucket : Buckets, minted : Nat, life : 1 .. MaxLife]
Work ==
  [op : {"key"}, row : KeyRow] \cup [op : {"domain"}, row : DomainRow]
    \cup [op : {"move"}, id : Nat, row : DomainRow]
Credential ==
  {NoCredential} \cup [kind : {"url"}, url : Url]
    \cup [kind : {"header"}, key : Nat, date : Int] \cup [kind : {"secret"}, key : Nat]

Stages == {"bucket", "key", "verify", "act", "answered"}
Outcomes == {"none", "dashboard", "denied", "missing", "served", "failed"}
KeyedOps == {"get", "list", "put", "delete", "buckets"}
KeyedReq ==
  [stage : Stages, op : KeyedOps, bucket : Buckets \cup {None}, credential : Credential,
   row : KeyRow \cup {None}, at : Nat, shown : SUBSET Buckets, outcome : Outcomes]
HostReq ==
  [stage : Stages \cup {"host"}, op : {"public"}, host : Hosts, bucket : Buckets \cup {None},
   credential : {NoCredential}, row : {None}, at : Nat, shown : SUBSET Buckets,
   outcome : Outcomes]
Request == {Idle} \cup KeyedReq \cup HostReq

TableTypes ==
  /\ buckets \in [Buckets -> {"none", "private", "public"}]
  /\ stored \subseteq Existing
  /\ keys \in Seq(KeyRow)
  /\ domains \in Seq(DomainRow)
  /\ \A d, e \in LiveDomains : domains[d].host = domains[e].host => d = e
  /\ urls \subseteq Url
  /\ \A url \in urls : url.key \in 1 .. Len(keys) /\ url.minted <= now
  /\ admin \in {None} \cup Work
  /\ now \in Nat

AccessTypes == TableTypes /\ req \in [Reqs -> Request]

(* Keys are only added and deleted, never changed nor revived.             *)
KeysGrow ==
  /\ Len(keys) <= Len(keys')
  /\ \A k \in 1 .. Len(keys) :
       /\ keys'[k].filter = keys[k].filter /\ keys'[k].permission = keys[k].permission
       /\ keys'[k].live => keys[k].live

LEMMA TablesOK ==
  ASSUME AccessTypes
  PROVE  TypeOK
<1>1. \A k \in 1 .. Len(keys) : keys[k].filter \in Buckets \cup {None}
  <2> SUFFICES ASSUME NEW k \in 1 .. Len(keys) PROVE keys[k].filter \in Buckets \cup {None}
    OBVIOUS
  <2>1. keys[k] \in KeyRow
    BY ElementOfSeq DEF AccessTypes, TableTypes
  <2> QED
    BY <2>1 DEF KeyRow
<1>2. \A r \in Reqs : req[r].stage \in {"idle", "host", "bucket", "key", "verify", "act",
                                        "answered"}
  BY DEF AccessTypes, Request, Idle, KeyedReq, HostReq, Stages
<1> QED
  BY <1>1, <1>2 DEF TypeOK, AccessTypes, TableTypes, Url

LEMMA NumbersOK ==
  /\ DefaultLife \in Nat \ {0} /\ MaxLife \in Nat \ {0} /\ Second \in Nat \ {0}
  /\ Skew \in Nat /\ MaxTime \in Nat /\ MaxChanges \in Nat
BY AccessAssumption

LEMMA WholeSecondsBounds ==
  ASSUME NEW t \in Nat
  PROVE  WholeSeconds(t) \in Int /\ WholeSeconds(t) <= t /\ t - Second < WholeSeconds(t)
<1>1. Second \in Nat \ {0}
  BY NumbersOK
<1>2. (t \div Second) * Second <= t /\ t - Second < (t \div Second) * Second
  BY <1>1
<1>3. (t \div Second) * Second \in Int
  BY <1>1
<1> QED
  BY <1>2, <1>3 DEF WholeSeconds

LEMMA AccessInitTypes ==
  ASSUME Init
  PROVE  AccessTypes
<1>1. keys \in Seq(KeyRow) /\ domains \in Seq(DomainRow)
  BY AccessAssumption DEF Init, KeyRow, DomainRow
<1>2. \A d, e \in LiveDomains : domains[d].host = domains[e].host => d = e
  BY AccessAssumption DEF Init, LiveDomains
<1>3. buckets \in [Buckets -> {"none", "private", "public"}] /\ stored \subseteq Existing
  BY AccessAssumption DEF Init
<1>4. req \in [Reqs -> Request]
  BY DEF Init, Request
<1> QED
  BY <1>1, <1>2, <1>3, <1>4 DEF Init, AccessTypes, TableTypes

----------------------------------------------------------------------------
(* The administrator's steps.                                              *)

LEMMA KeysSame ==
  ASSUME AccessTypes, UNCHANGED keys
  PROVE  KeysGrow
<1>1. Len(keys) \in Nat
  BY DEF AccessTypes, TableTypes
<1> QED
  BY <1>1 DEF KeysGrow

LEMMA BucketSteps ==
  ASSUME AccessTypes, NEW b \in Buckets,
         CreateBucket(b) \/ UpdateBucket(b) \/ DeleteBucket(b)
  PROVE  AccessTypes' /\ KeysGrow
<1>1. PICK access \in {"none", "private", "public"} :
        /\ buckets' = [buckets EXCEPT ![b] = access]
        /\ access = "none" => stored' = stored \ {b}
        /\ access # "none" => stored' = stored
        /\ UNCHANGED <<keys, domains, urls, admin, req, now>>
  BY DEF CreateBucket, UpdateBucket, DeleteBucket, Change
<1>2. buckets' \in [Buckets -> {"none", "private", "public"}]
  BY <1>1 DEF AccessTypes, TableTypes
<1>3. stored' \subseteq Existing'
  BY <1>1 DEF AccessTypes, TableTypes, Existing
<1>4. LiveDomains' = LiveDomains
  BY <1>1 DEF LiveDomains
<1> QED
  BY <1>1, <1>2, <1>3, <1>4, KeysSame DEF AccessTypes, TableTypes

LEMMA AskSteps ==
  ASSUME AccessTypes, AskKey \/ AskDomain \/ AskMove
  PROVE  AccessTypes' /\ KeysGrow
<1>1. PICK op \in Work : Asks(op)
  <2>1. CASE AskKey
    BY <2>1 DEF AskKey, Work, KeyRow, Existing
  <2>2. CASE AskDomain
    BY <2>2 DEF AskDomain, Work, DomainRow, Existing
  <2>3. CASE AskMove
    <3>1. PICK d \in LiveDomains, h \in Hosts, b \in Existing :
            Asks([op |-> "move", id |-> d, row |-> [host |-> h, bucket |-> b, live |-> TRUE]])
      BY <2>3 DEF AskMove
    <3>2. d \in Nat /\ b \in Buckets
      BY DEF LiveDomains, Existing
    <3> QED
      BY <3>1, <3>2 DEF Work, DomainRow
  <2> QED
    BY <2>1, <2>2, <2>3
<1>2. admin' = op /\ UNCHANGED <<buckets, stored, keys, domains, urls, req, now>>
  BY <1>1 DEF Asks, Change, tables
<1>3. LiveDomains' = LiveDomains /\ Existing' = Existing
  BY <1>2 DEF LiveDomains, Existing
<1> QED
  BY <1>2, <1>3, KeysSame DEF AccessTypes, TableTypes

LEMMA WriteKeyStep ==
  ASSUME AccessTypes, WriteKey
  PROVE  AccessTypes' /\ KeysGrow
<1>1. /\ admin \in Work /\ admin.op = "key" /\ admin' = None
      /\ keys' = Append(keys, admin.row)
      /\ UNCHANGED <<buckets, stored, domains, urls, req, now>>
  BY DEF WriteKey, Writes, AccessTypes, TableTypes
<1>2. admin.row \in KeyRow /\ keys \in Seq(KeyRow)
  BY <1>1 DEF Work, AccessTypes, TableTypes
<1>3. /\ keys' \in Seq(KeyRow) /\ Len(keys') = Len(keys) + 1 /\ Len(keys) \in Nat
      /\ \A k \in 1 .. Len(keys) : keys'[k] = keys[k]
  BY <1>1, <1>2, AppendProperties
<1>4. KeysGrow
  BY <1>3 DEF KeysGrow
<1>5. \A url \in urls' : url.key \in 1 .. Len(keys')
  BY <1>1, <1>3 DEF AccessTypes, TableTypes
<1>6. LiveDomains' = LiveDomains /\ Existing' = Existing
  BY <1>1 DEF LiveDomains, Existing
<1> QED
  BY <1>1, <1>3, <1>4, <1>5, <1>6 DEF AccessTypes, TableTypes

(* A host's row is unique, whichever domain d's row the new one replaces.  *)
LEMMA DomainTypes ==
  ASSUME AccessTypes, domains' \in Seq(DomainRow),
         \A d, e \in LiveDomains' : domains'[d].host = domains'[e].host => d = e,
         admin' \in {None} \cup Work, UNCHANGED <<buckets, stored, keys, urls, req, now>>
  PROVE  AccessTypes' /\ KeysGrow
<1>1. Existing' = Existing
  BY DEF Existing
<1> QED
  BY <1>1, KeysSame DEF AccessTypes, TableTypes

LEMMA WriteDomainStep ==
  ASSUME AccessTypes, WriteDomain
  PROVE  AccessTypes' /\ KeysGrow
<1>1. /\ admin \in Work /\ admin.op = "domain" /\ admin' = None
      /\ domains' = IF Taken(admin.row.host, 0) THEN domains ELSE Append(domains, admin.row)
      /\ UNCHANGED <<buckets, stored, keys, urls, req, now>>
  BY DEF WriteDomain, Writes, AccessTypes, TableTypes
<1>2. /\ admin.row \in DomainRow /\ domains \in Seq(DomainRow) /\ Len(domains) \in Nat
      /\ \A d, e \in LiveDomains : domains[d].host = domains[e].host => d = e
  BY <1>1 DEF Work, AccessTypes, TableTypes
<1>3. CASE Taken(admin.row.host, 0)
  <2>1. domains' = domains /\ LiveDomains' = LiveDomains
    BY <1>1, <1>3 DEF LiveDomains
  <2>2. \A d, e \in LiveDomains' : domains'[d].host = domains'[e].host => d = e
    BY <1>2, <2>1
  <2> QED
    BY <1>1, <1>2, <2>1, <2>2, DomainTypes
<1>4. CASE ~Taken(admin.row.host, 0)
  <2>1. /\ domains' \in Seq(DomainRow) /\ Len(domains') = Len(domains) + 1
        /\ \A d \in 1 .. Len(domains) : domains'[d] = domains[d]
        /\ domains'[Len(domains) + 1] = admin.row
    BY <1>1, <1>2, <1>4, AppendProperties
  <2>2. \A d \in LiveDomains : domains[d].host # admin.row.host
    BY <1>2, <1>4 DEF Taken, LiveDomains
  <2>3. LiveDomains' \subseteq LiveDomains \cup {Len(domains) + 1}
    BY <1>2, <2>1 DEF LiveDomains
  <2>4. \A d \in LiveDomains : domains'[d] = domains[d]
    BY <2>1 DEF LiveDomains
  <2>5. \A d, e \in LiveDomains' : domains'[d].host = domains'[e].host => d = e
    BY <1>2, <2>1, <2>2, <2>3, <2>4
  <2> QED
    BY <1>1, <2>1, <2>5, DomainTypes
<1> QED
  BY <1>3, <1>4

LEMMA WriteMoveStep ==
  ASSUME AccessTypes, WriteMove
  PROVE  AccessTypes' /\ KeysGrow
<1>1. /\ admin \in Work /\ admin.op = "move" /\ admin' = None
      /\ domains' = IF Taken(admin.row.host, admin.id) \/ admin.id \notin LiveDomains
                    THEN domains ELSE [domains EXCEPT ![admin.id] = admin.row]
      /\ UNCHANGED <<buckets, stored, keys, urls, req, now>>
  BY DEF WriteMove, Writes, AccessTypes, TableTypes
<1>2. /\ admin.row \in DomainRow /\ domains \in Seq(DomainRow) /\ Len(domains) \in Nat
      /\ \A d, e \in LiveDomains : domains[d].host = domains[e].host => d = e
  BY <1>1 DEF Work, AccessTypes, TableTypes
<1>3. CASE Taken(admin.row.host, admin.id) \/ admin.id \notin LiveDomains
  <2>1. domains' = domains /\ LiveDomains' = LiveDomains
    BY <1>1, <1>3 DEF LiveDomains
  <2>2. \A d, e \in LiveDomains' : domains'[d].host = domains'[e].host => d = e
    BY <1>2, <2>1
  <2> QED
    BY <1>1, <1>2, <2>1, <2>2, DomainTypes
<1>4. CASE ~Taken(admin.row.host, admin.id) /\ admin.id \in LiveDomains
  <2>1. admin.id \in 1 .. Len(domains)
    BY <1>4 DEF LiveDomains
  <2>2. /\ domains' \in Seq(DomainRow) /\ Len(domains') = Len(domains)
        /\ \A d \in 1 .. Len(domains) :
             domains'[d] = IF d = admin.id THEN admin.row ELSE domains[d]
    BY <1>1, <1>2, <1>4, <2>1, ExceptSeq
  <2>3. \A d \in LiveDomains : d # admin.id => domains[d].host # admin.row.host
    BY <1>4 DEF Taken
  <2>4. LiveDomains' \subseteq LiveDomains
    BY <1>4, <2>1, <2>2 DEF LiveDomains
  <2>5. \A d \in LiveDomains : domains'[d] = IF d = admin.id THEN admin.row ELSE domains[d]
    BY <2>2 DEF LiveDomains
  <2>6. \A d, e \in LiveDomains' : domains'[d].host = domains'[e].host => d = e
    BY <1>2, <2>3, <2>4, <2>5
  <2> QED
    BY <1>1, <2>2, <2>6, DomainTypes
<1> QED
  BY <1>3, <1>4

LEMMA DeleteKeyStep ==
  ASSUME AccessTypes, NEW k \in LiveKeys, DeleteKey(k)
  PROVE  AccessTypes' /\ KeysGrow
<1>1. /\ keys' = [keys EXCEPT ![k].live = FALSE] /\ keys \in Seq(KeyRow)
      /\ UNCHANGED <<buckets, stored, domains, urls, admin, req, now>>
  BY DEF DeleteKey, Change, AccessTypes, TableTypes
<1>2. k \in 1 .. Len(keys) /\ keys[k] \in KeyRow /\ Len(keys) \in Nat
  BY <1>1 DEF LiveKeys
<1> DEFINE row == [keys[k] EXCEPT !.live = FALSE]
<1>3. /\ row \in KeyRow /\ ~row.live
      /\ row.filter = keys[k].filter /\ row.permission = keys[k].permission
  BY <1>2 DEF KeyRow
<1>4. keys' = [keys EXCEPT ![k] = row]
  BY <1>1
<1> HIDE DEF row
<1>5. /\ keys' \in Seq(KeyRow) /\ Len(keys') = Len(keys)
      /\ \A j \in 1 .. Len(keys) : keys'[j] = IF j = k THEN row ELSE keys[j]
  <2>1. keys \in Seq(KeyRow)
    BY <1>1
  <2> QED
    BY <1>2, <1>3, <1>4, <2>1, ExceptSeq
<1>6. KeysGrow
  BY <1>2, <1>3, <1>5 DEF KeysGrow
<1>7. LiveDomains' = LiveDomains /\ Existing' = Existing
  BY <1>1 DEF LiveDomains, Existing
<1> QED
  BY <1>1, <1>5, <1>6, <1>7 DEF AccessTypes, TableTypes

LEMMA DeleteDomainStep ==
  ASSUME AccessTypes, NEW d \in LiveDomains, DeleteDomain(d)
  PROVE  AccessTypes' /\ KeysGrow
<1>1. /\ domains' = [domains EXCEPT ![d].live = FALSE] /\ domains \in Seq(DomainRow)
      /\ UNCHANGED <<buckets, stored, keys, urls, admin, req, now>>
      /\ admin \in {None} \cup Work
      /\ \A e, f \in LiveDomains : domains[e].host = domains[f].host => e = f
  BY DEF DeleteDomain, Change, AccessTypes, TableTypes
<1>2. d \in 1 .. Len(domains) /\ domains[d] \in DomainRow /\ Len(domains) \in Nat
  BY <1>1 DEF LiveDomains
<1> DEFINE row == [domains[d] EXCEPT !.live = FALSE]
<1>3. row \in DomainRow /\ ~row.live /\ row.host = domains[d].host
  BY <1>2 DEF DomainRow
<1>4. domains' = [domains EXCEPT ![d] = row]
  BY <1>1
<1> HIDE DEF row
<1>5. /\ domains' \in Seq(DomainRow) /\ Len(domains') = Len(domains)
      /\ \A e \in 1 .. Len(domains) : domains'[e] = IF e = d THEN row ELSE domains[e]
  <2>1. domains \in Seq(DomainRow)
    BY <1>1
  <2> QED
    BY <1>2, <1>3, <1>4, <2>1, ExceptSeq
<1>6. LiveDomains' \subseteq LiveDomains
      /\ \A e \in LiveDomains : domains'[e].host = domains[e].host
  BY <1>2, <1>3, <1>5 DEF LiveDomains
<1> QED
  BY <1>1, <1>5, <1>6, DomainTypes
LEMMA NewestOK ==
  ASSUME AccessTypes, NEW ks, ks \subseteq LiveKeys, ks # {}
  PROVE  Newest(ks) \in ks
<1>1. Len(keys) \in Nat /\ ks \subseteq 1 .. Len(keys)
  BY DEF AccessTypes, TableTypes, LiveKeys
<1> DEFINE S == {Len(keys) - k : k \in ks}
<1>2. S \subseteq Nat /\ S # {}
  <2>1. \A k \in ks : Len(keys) - k \in Nat
    BY <1>1
  <2> QED
    BY <2>1
<1>3. PICK x \in S : \A y \in S : x <= y
  BY <1>2, Least
<1>4. PICK k \in ks : x = Len(keys) - k
  BY <1>3
<1>5. \A j \in ks : j <= k
  <2> SUFFICES ASSUME NEW j \in ks PROVE j <= k
    OBVIOUS
  <2>1. Len(keys) - j \in S
    OBVIOUS
  <2>2. Len(keys) - k <= Len(keys) - j
    BY <1>3, <1>4, <2>1
  <2> QED
    BY <1>1, <2>2
<1> QED
  BY <1>5 DEF Newest

LEMMA PresignStep ==
  ASSUME AccessTypes, NEW b \in Buckets, Presign(b)
  PROVE  AccessTypes' /\ KeysGrow
<1> DEFINE suited == {k \in LiveKeys : keys[k].filter \in {None, b}}
           ks == IF suited # {} THEN suited ELSE LiveKeys
<1>1. /\ LiveKeys # {} /\ UNCHANGED <<buckets, stored, keys, domains, admin, req, now>>
      /\ now \in Nat
  BY DEF Presign, Change, AccessTypes, TableTypes
<1>2. PICK lifetime \in Lifetimes :
        urls' = urls \cup
          {[key |-> Newest(ks), bucket |-> b, minted |-> now,
            life |-> Smaller(MaxLife, IF lifetime = 0 THEN DefaultLife ELSE lifetime)]}
  BY DEF Presign
<1>3. Newest(ks) \in LiveKeys
  BY <1>1, NewestOK
<1>4. Smaller(MaxLife, IF lifetime = 0 THEN DefaultLife ELSE lifetime) \in 1 .. MaxLife
  <2>1. lifetime \in Nat
    BY AccessAssumption
  <2> QED
    BY <2>1, NumbersOK DEF Smaller
<1> HIDE DEF ks
<1>5. Newest(ks) \in 1 .. Len(keys) /\ Newest(ks) \in Nat
  BY <1>3 DEF LiveKeys
<1>6. urls' \subseteq Url /\ \A url \in urls' : url.key \in 1 .. Len(keys) /\ url.minted <= now
  BY <1>1, <1>2, <1>4, <1>5 DEF AccessTypes, TableTypes, Url
<1>7. LiveDomains' = LiveDomains /\ Existing' = Existing
  BY <1>1 DEF LiveDomains, Existing
<1> QED
  BY <1>1, <1>6, <1>7, KeysSame DEF AccessTypes, TableTypes

LEMMA AdministerTypes ==
  ASSUME AccessTypes, Administer
  PROVE  AccessTypes' /\ KeysGrow /\ UNCHANGED <<req, now>>
<1>1. AccessTypes' /\ KeysGrow
  BY BucketSteps, AskSteps, WriteKeyStep, WriteDomainStep, WriteMoveStep, DeleteKeyStep,
     DeleteDomainStep, PresignStep DEF Administer
<1>2. UNCHANGED <<req, now>>
  BY DEF Administer, CreateBucket, UpdateBucket, DeleteBucket, Presign, AskKey, AskDomain, AskMove,
    Asks, WriteKey, WriteDomain, WriteMove, Writes, DeleteKey, DeleteDomain, Change
<1> QED
  BY <1>1, <1>2

----------------------------------------------------------------------------
(* Access: what a request in flight has read, it has seen.                 *)

Presents(r) == req[r].credential.kind # "none"
TheKey(r) == KeyOf(req[r].credential)
PublicSeen(r) == <<"public", req[r].bucket>> \in seen[r]
KeySeen(r) == Presents(r) /\ <<"key", TheKey(r)>> \in seen[r]
OfHost(r) ==
  \/ <<"host", req[r].host, req[r].bucket>> \in seen[r]
  \/ SubdomainOf[req[r].host] = req[r].bucket

(* The row it holds is that of its key, but for its being deleted.         *)
Read(r) ==
  /\ KeySeen(r) /\ req[r].row \in KeyRow
  /\ req[r].row.filter = keys[TheKey(r)].filter
  /\ req[r].row.permission = keys[TheKey(r)].permission

Reaches(r) ==
  /\ KeySeen(r)
  /\ keys[TheKey(r)].filter \in {None, req[r].bucket}
  /\ req[r].op \in Granted[keys[TheKey(r)].permission]

UrlInTime(r) ==
  req[r].credential.kind = "url" /\ ~PublicSeen(r) =>
    LET url == req[r].credential.url
        age == req[r].at - url.minted
    IN age <= url.life /\ age <= MaxLife /\ req[r].op = "get" /\ req[r].bucket = url.bucket

Admitted(r) ==
  /\ req[r].op = "public" => PublicSeen(r) /\ OfHost(r)
  /\ req[r].op = "buckets" => Read(r)
  /\ req[r].op \in ReadOps => PublicSeen(r) \/ Reaches(r)
  /\ req[r].op \in {"put", "delete"} => Reaches(r)
  /\ UrlInTime(r)

Given(r) ==
  CASE req[r].op = "public" -> PublicSeen(r) /\ OfHost(r)
    [] req[r].op \in ReadOps -> PublicSeen(r) \/ ByKey(r)
    [] OTHER -> ByKey(r)

RefusedUrl(r) ==
  LET url == req[r].credential.url IN
    /\ req[r].op = "get" /\ req[r].bucket = url.bucket
    /\ url.key \in LiveKeys
    /\ keys[url.key].filter \in {None, url.bucket}
    /\ "get" \in Granted[keys[url.key].permission]
    => req[r].at - url.minted > url.life - 2 * (Second - 1)

Sound(r) == ~At(r, "idle") =>
  /\ Presents(r) => TheKey(r) \in 1 .. Len(keys)
  /\ req[r].credential.kind = "url" => req[r].credential.url.minted <= now
  /\ req[r].op = "public" => ~At(r, "key") /\ ~At(r, "verify")
  /\ req[r].op = "public" /\ At(r, "bucket") => req[r].bucket \in Buckets /\ OfHost(r)
  /\ req[r].op \in KeyedOps \ {"buckets"} => req[r].bucket \in Buckets
  /\ req[r].op = "buckets" => ~At(r, "bucket")
  /\ At(r, "verify") => Read(r)
  /\ At(r, "act") => Admitted(r)
  /\ Answered(r, "served") => Given(r) /\ UrlInTime(r)
  /\ Answered(r, "denied") /\ req[r].credential.kind = "url" => RefusedUrl(r)

AccessInv == AccessTypes /\ \A r \in Reqs : Sound(r)

LEMMA AccessInvHolds ==
  ASSUME AccessInv
  PROVE  AccessHolds
<1>1. ServedWasAllowed
  BY DEF AccessInv, Sound, ServedWasAllowed, Given, OfHost, PublicSeen, Answered, At
<1>2. UrlsHonoured
  BY DEF AccessInv, Sound, UrlsHonoured, UrlInTime, RefusedUrl, PublicSeen, Answered, At
<1> QED
  BY <1>1, <1>2 DEF AccessHolds

(* A request that does not move stays sound, whatever is added to what it  *)
(* has seen.                                                               *)
LEMMA SoundStays ==
  ASSUME AccessTypes, KeysGrow, now <= now', now' \in Nat, NEW r \in Reqs, Sound(r),
         req'[r] = req[r], seen[r] \subseteq seen'[r]
  PROVE  Sound(r)'
<1> SUFFICES ASSUME ~At(r, "idle") PROVE Sound(r)'
  BY DEF Sound, At
<1> USE DEF At, Answered
<1>1. Len(keys) \in Nat /\ now \in Nat /\ Len(keys') \in Nat
  BY DEF AccessTypes, TableTypes, KeysGrow
<1>2. \A k \in 1 .. Len(keys) :
        /\ k \in 1 .. Len(keys') /\ keys'[k].filter = keys[k].filter
        /\ keys'[k].permission = keys[k].permission /\ (keys'[k].live => keys[k].live)
  BY <1>1 DEF KeysGrow
<1>3. /\ TheKey(r)' = TheKey(r) /\ Presents(r)' = Presents(r)
      /\ PublicSeen(r) => PublicSeen(r)'
      /\ KeySeen(r) => KeySeen(r)'
      /\ OfHost(r) => OfHost(r)'
  BY DEF TheKey, KeyOf, Presents, PublicSeen, KeySeen, OfHost
<1>4. Presents(r) => TheKey(r) \in 1 .. Len(keys)
  BY DEF Sound
<1>5. (Read(r) => Read(r)') /\ (Reaches(r) => Reaches(r)')
  BY <1>2, <1>3, <1>4 DEF Read, Reaches, KeySeen
<1>6. UrlInTime(r) => UrlInTime(r)'
  BY <1>3 DEF UrlInTime
<1>7. Given(r) => Given(r)'
  <2>1. ByKey(r) => ByKey(r)'
    BY <1>2, <1>3, <1>4 DEF ByKey, TheKey, Presents
  <2> QED
    BY <1>3, <2>1 DEF Given
<1>8. Admitted(r) => Admitted(r)'
  BY <1>3, <1>5, <1>6 DEF Admitted
<1>9. req[r].credential.kind = "url" /\ RefusedUrl(r) => RefusedUrl(r)'
  <2> SUFFICES ASSUME req[r].credential.kind = "url", RefusedUrl(r) PROVE RefusedUrl(r)'
    OBVIOUS
  <2>1. req[r].credential.url.key \in 1 .. Len(keys)
    BY <1>4 DEF Presents, TheKey, KeyOf
  <2>2. req[r].credential.url.key \in LiveKeys' => req[r].credential.url.key \in LiveKeys
    BY <1>2, <2>1 DEF LiveKeys
  <2> QED
    BY <1>2, <2>1, <2>2 DEF RefusedUrl
<1>10. req[r].credential.kind = "url" => req[r].credential.url.minted <= now'
  <2>1. req[r].credential.kind = "url" => req[r].credential.url \in Url
    BY DEF AccessTypes, Request, Idle, KeyedReq, HostReq, Credential, NoCredential
  <2>2. req[r].credential.kind = "url" => req[r].credential.url.minted <= now
    BY DEF Sound
  <2> QED
    BY <1>1, <2>1, <2>2 DEF Url
<1> QED
  BY <1>2, <1>3, <1>4, <1>5, <1>6, <1>7, <1>8, <1>9, <1>10 DEF Sound
----------------------------------------------------------------------------
(* What a step of request r makes of it: the tables stay, but for the      *)
(* objects stored, and what then holds is seen.                            *)

Moves(r, x) ==
  /\ req' = [req EXCEPT ![r] = x] /\ x \in Request /\ x.stage # "idle"
  /\ stored' \subseteq Existing
  /\ UNCHANGED <<buckets, keys, domains, urls, admin, now>>
  /\ Watch

LEMMA MovesTypes ==
  ASSUME AccessTypes, NEW r \in Reqs, NEW x, Moves(r, x)
  PROVE  /\ AccessTypes' /\ KeysGrow /\ req'[r] = x
         /\ \A q \in Reqs \ {r} : req'[q] = req[q]
         /\ LiveKeys' = LiveKeys /\ LiveDomains' = LiveDomains
<1>1. req' \in [Reqs -> Request] /\ req'[r] = x /\ \A q \in Reqs \ {r} : req'[q] = req[q]
  BY DEF AccessTypes, Moves
<1>2. LiveKeys' = LiveKeys /\ LiveDomains' = LiveDomains /\ Existing' = Existing
  BY DEF Moves, LiveKeys, LiveDomains, Existing
<1>3. KeysGrow
  BY KeysSame DEF Moves
<1> QED
  BY <1>1, <1>2, <1>3 DEF Moves, AccessTypes, TableTypes

LEMMA Seeing ==
  ASSUME Watch, NEW q \in Reqs, req'[q].stage # "idle"
  PROVE  seen'[q] = seen[q] \cup About(q, Rights)'
BY DEF Watch

LEMMA SeesPublic ==
  ASSUME NEW r \in Reqs, NEW x, NEW b \in Buckets, Watch, req'[r] = x, x.stage # "idle",
         x.bucket = b, buckets'[b] = "public"
  PROVE  PublicSeen(r)'
<1>1. <<"public", b>> \in Rights'
  BY DEF Rights
<1>2. <<"public", b>> \in About(r, Rights)'
  BY <1>1 DEF About
<1> QED
  BY <1>2, Seeing DEF PublicSeen

LEMMA SeesKey ==
  ASSUME NEW r \in Reqs, NEW x, Watch, req'[r] = x, x.stage # "idle", x.op # "public",
         x.credential.kind # "none", KeyOf(x.credential) \in LiveKeys'
  PROVE  KeySeen(r)'
<1> DEFINE k == KeyOf(x.credential)
<1>1. <<"key", k>> \in Rights'
  BY DEF Rights
<1>2. TheKey(r)' = k
  BY DEF TheKey, KeyOf
<1>3. KeyOf(req[r].credential)' = k
  BY DEF KeyOf
<1> HIDE DEF k
<1>4. <<"key", k>> \in About(r, Rights)'
  BY <1>1, <1>3 DEF About
<1> QED
  BY <1>2, <1>4, Seeing DEF KeySeen, Presents

LEMMA SeesHost ==
  ASSUME NEW r \in Reqs, NEW x, Watch, req'[r] = x, x.stage # "idle", x.op = "public",
         NEW d \in LiveDomains', domains'[d].host = x.host, domains'[d].bucket = x.bucket
  PROVE  OfHost(r)'
<1>1. <<"host", x.host, x.bucket>> \in Rights'
  BY DEF Rights
<1>2. <<"host", x.host, x.bucket>> \in About(r, Rights)'
  BY <1>1 DEF About
<1> QED
  BY <1>2, Seeing DEF OfHost

(* What r had seen, it has still seen.                                     *)
LEMMA SeenBefore ==
  ASSUME AccessTypes, NEW r \in Reqs, NEW x, Moves(r, x),
         x.op = req[r].op, x.credential = req[r].credential
  PROVE  /\ TheKey(r)' = TheKey(r) /\ Presents(r)' = Presents(r)
         /\ KeySeen(r) => KeySeen(r)'
         /\ x.bucket = req[r].bucket /\ PublicSeen(r) => PublicSeen(r)'
         /\ x.bucket = req[r].bucket /\ x.host = req[r].host /\ OfHost(r) => OfHost(r)'
         /\ x.bucket = req[r].bucket /\ Reaches(r) => Reaches(r)'
         /\ x.bucket = req[r].bucket /\ ByKey(r) /\ x.shown = req[r].shown => ByKey(r)'
<1>1. req'[r] = x /\ UNCHANGED keys /\ seen[r] \subseteq seen'[r]
  BY MovesTypes, Seeing DEF Moves
<1>2. TheKey(r)' = TheKey(r) /\ Presents(r)' = Presents(r)
  BY <1>1 DEF TheKey, KeyOf, Presents
<1>3. KeySeen(r) => KeySeen(r)'
  BY <1>1, <1>2 DEF KeySeen
<1>4. x.bucket = req[r].bucket /\ PublicSeen(r) => PublicSeen(r)'
  BY <1>1 DEF PublicSeen
<1>5. x.bucket = req[r].bucket /\ x.host = req[r].host /\ OfHost(r) => OfHost(r)'
  BY <1>1 DEF OfHost
<1>6. x.bucket = req[r].bucket /\ Reaches(r) => Reaches(r)'
  BY <1>1, <1>2, <1>3 DEF Reaches
<1>7. x.bucket = req[r].bucket /\ ByKey(r) /\ x.shown = req[r].shown => ByKey(r)'
  <2>1. KeyOf(req[r].credential)' = KeyOf(req[r].credential)
    BY <1>1 DEF KeyOf
  <2> QED
    BY <1>1, <2>1 DEF ByKey
<1> QED
  BY <1>2, <1>3, <1>4, <1>5, <1>6, <1>7

(* The rest of the state then follows.                                     *)
LEMMA RequestStep ==
  ASSUME AccessInv, NEW r \in Reqs, NEW x, Moves(r, x), Sound(r)'
  PROVE  AccessInv'
<1>1. /\ AccessTypes /\ AccessTypes' /\ KeysGrow
      /\ \A q \in Reqs \ {r} : req'[q] = req[q]
  BY MovesTypes DEF AccessInv
<1>2. now' = now /\ now \in Nat
  BY <1>1 DEF Moves, AccessTypes, TableTypes
<1>3. ASSUME NEW q \in Reqs \ {r} PROVE Sound(q)'
  <2>1. CASE At(q, "idle")
    BY <1>1, <2>1 DEF Sound, At
  <2>2. CASE ~At(q, "idle")
    <3>1. seen[q] \subseteq seen'[q]
      BY <1>1, <2>2, Seeing DEF At, Moves
    <3> QED
      BY <1>1, <1>2, <3>1, SoundStays DEF AccessInv
  <2> QED
    BY <2>1, <2>2
<1> QED
  BY <1>1, <1>3 DEF AccessInv
LEMMA PresentedOK ==
  ASSUME AccessTypes, NEW c \in Presented
  PROVE  /\ c \in Credential
         /\ c.kind # "none" => KeyOf(c) \in 1 .. Len(keys)
         /\ c.kind = "url" => c.url.minted <= now
<1>1. /\ \A url \in urls : url \in Url /\ url.key \in 1 .. Len(keys) /\ url.minted <= now
      /\ Len(keys) \in Nat /\ now \in Nat
  BY DEF AccessTypes, TableTypes
<1>2. CASE c = NoCredential
  BY <1>2 DEF Credential, NoCredential
<1>3. CASE c \in [kind : {"url"}, url : urls]
  BY <1>1, <1>3 DEF Credential, KeyOf
<1>4. CASE c \in [kind : {"header"}, key : 1 .. Len(keys), date : {now + d : d \in Clocks}]
  <2>1. \A d \in Clocks : now + d \in Int
    BY <1>1, AccessAssumption
  <2> QED
    BY <1>1, <1>4, <2>1 DEF Credential, KeyOf
<1>5. CASE c \in [kind : {"secret"}, key : 1 .. Len(keys)]
  BY <1>1, <1>5 DEF Credential, KeyOf
<1> QED
  BY <1>2, <1>3, <1>4, <1>5 DEF Presented

LEMMA AskSound ==
  ASSUME AccessInv, NEW r \in Reqs, Ask(r) \/ AskBuckets(r), Watch
  PROVE  AccessInv'
<1>1. PICK x \in KeyedReq, c \in Presented :
        /\ req' = [req EXCEPT ![r] = x] /\ x.credential = c
        /\ \/ x.stage = "bucket" /\ x.op # "buckets" /\ x.bucket \in Buckets
           \/ x.stage = "key" /\ x.op = "buckets"
  <2>1. now \in Nat
    BY DEF AccessInv, AccessTypes, TableTypes
  <2>2. CASE Ask(r)
    <3>1. PICK op \in Ops \ {"public", "buckets"}, b \in Buckets, c \in Presented :
            Goes(r, [stage |-> "bucket", op |-> op, bucket |-> b, credential |-> c,
                     row |-> None, at |-> now, shown |-> {}, outcome |-> "none"])
      BY <2>2 DEF Ask
    <3>2. op \in KeyedOps \ {"buckets"} /\ c \in Credential
      BY PresentedOK, AccessAssumption DEF KeyedOps, AccessInv
    <3> DEFINE y == [stage |-> "bucket", op |-> op, bucket |-> b, credential |-> c,
                     row |-> None, at |-> now, shown |-> {}, outcome |-> "none"]
    <3>3. y \in KeyedReq
      BY <2>1, <3>2 DEF KeyedReq, Stages, Outcomes
    <3>4. /\ req' = [req EXCEPT ![r] = y] /\ y.credential = c
          /\ y.stage = "bucket" /\ y.op # "buckets" /\ y.bucket \in Buckets
      BY <3>1, <3>2 DEF Goes
    <3> HIDE DEF y
    <3> QED
      BY <3>3, <3>4
  <2>3. CASE AskBuckets(r)
    <3>1. PICK c \in Presented :
            Goes(r, [stage |-> "key", op |-> "buckets", bucket |-> None, credential |-> c,
                     row |-> None, at |-> now, shown |-> {}, outcome |-> "none"])
      BY <2>3 DEF AskBuckets
    <3>2. c \in Credential
      BY PresentedOK DEF AccessInv
    <3> DEFINE y == [stage |-> "key", op |-> "buckets", bucket |-> None, credential |-> c,
                     row |-> None, at |-> now, shown |-> {}, outcome |-> "none"]
    <3>3. y \in KeyedReq
      BY <2>1, <3>2 DEF KeyedReq, KeyedOps, Stages, Outcomes
    <3>4. /\ req' = [req EXCEPT ![r] = y] /\ y.credential = c
          /\ y.stage = "key" /\ y.op = "buckets"
      BY <3>1 DEF Goes
    <3> HIDE DEF y
    <3> QED
      BY <3>3, <3>4
  <2> QED
    BY <2>2, <2>3
<1>2. UNCHANGED <<tables, admin, now>>
  BY DEF Ask, AskBuckets
<1>3. Moves(r, x)
  BY <1>1, <1>2 DEF Moves, Request, KeyedReq, Stages, tables, AccessInv, AccessTypes, TableTypes
<1>4. /\ AccessTypes /\ req'[r] = x /\ UNCHANGED <<keys, now>> /\ x.op \in KeyedOps
  BY <1>1, <1>3, MovesTypes DEF AccessInv, KeyedReq, Moves
<1>5. /\ c.kind # "none" => KeyOf(c) \in 1 .. Len(keys)
      /\ c.kind = "url" => c.url.minted <= now
  BY <1>4, PresentedOK
<1>6. Sound(r)'
  BY <1>1, <1>4, <1>5 DEF Sound, At, Answered, Presents, TheKey, KeyOf, KeyedOps
<1> QED
  BY <1>3, <1>6, RequestStep

LEMMA AskHostSound ==
  ASSUME AccessInv, NEW r \in Reqs, AskHost(r), Watch
  PROVE  AccessInv'
<1>1. PICK h \in Hosts :
        req' = [req EXCEPT ![r] =
          [stage |-> "host", op |-> "public", host |-> h, bucket |-> None,
           credential |-> NoCredential, row |-> None, at |-> now, shown |-> {},
           outcome |-> "none"]]
  BY DEF AskHost, Goes
<1> DEFINE x == [stage |-> "host", op |-> "public", host |-> h, bucket |-> None,
                 credential |-> NoCredential, row |-> None, at |-> now, shown |-> {},
                 outcome |-> "none"]
<1>2. x \in HostReq
  BY DEF HostReq, Outcomes, AccessInv, AccessTypes, TableTypes
<1>3. Moves(r, x)
  BY <1>1, <1>2 DEF AskHost, Moves, Request, tables, AccessInv, AccessTypes, TableTypes
<1>4. req'[r] = x
  BY <1>3, MovesTypes DEF AccessInv
<1>5. Sound(r)'
  BY <1>4 DEF Sound, At, Answered, Presents, NoCredential, KeyedOps
<1> QED
  BY <1>3, <1>5, RequestStep

(* What is known of a request at one of its stages.                        *)
LEMMA Staged ==
  ASSUME AccessInv, NEW r \in Reqs, ~At(r, "idle")
  PROVE  /\ \/ req[r] \in KeyedReq /\ req[r].op \in KeyedOps /\ ~At(r, "host")
            \/ req[r] \in HostReq /\ req[r].op = "public" /\ req[r].credential = NoCredential
         /\ req[r].at \in Nat
         /\ Presents(r) => TheKey(r) \in 1 .. Len(keys)
         /\ req[r].credential.kind = "url" =>
              req[r].credential.url \in Url /\ req[r].credential.url.minted <= now
<1>1. req[r] \in Request /\ req[r] # Idle
  BY DEF AccessInv, AccessTypes, At, Idle
<1>2. req[r] \in KeyedReq \cup HostReq
  BY <1>1 DEF Request
<1>3. req[r].credential.kind = "url" => req[r].credential.url \in Url
  BY <1>2 DEF KeyedReq, HostReq, Credential, NoCredential
<1>4. /\ Presents(r) => TheKey(r) \in 1 .. Len(keys)
      /\ req[r].credential.kind = "url" => req[r].credential.url.minted <= now
  BY DEF AccessInv, Sound
<1> QED
  BY <1>2, <1>3, <1>4 DEF KeyedReq, HostReq, At, Stages

LEMMA ResolveSound ==
  ASSUME AccessInv, NEW r \in Reqs, ResolveHost(r), Watch
  PROVE  AccessInv'
<1>1. /\ AccessTypes /\ req[r] \in HostReq /\ req[r].op = "public"
      /\ req[r].credential = NoCredential /\ At(r, "host")
      /\ UNCHANGED <<tables, admin, now>> /\ req[r].host \in Hosts
  BY Staged DEF ResolveHost, AccessInv, At, Quiet, HostReq
<1> DEFINE h == req[r].host
           D == {d \in LiveDomains : domains[d].host = h}
           d0 == CHOOSE d \in LiveDomains : domains[d].host = h
           b == IF Taken(h, 0) THEN domains[d0].bucket ELSE SubdomainOf[h]
           x == IF b = None
                THEN [req[r] EXCEPT !.stage = "answered", !.outcome = "dashboard"]
                ELSE [req[r] EXCEPT !.stage = "bucket", !.bucket = b]
<1>2. req' = [req EXCEPT ![r] = x]
  BY DEF ResolveHost, Answers, Goes
<1>3. Taken(h, 0) => d0 \in LiveDomains /\ domains[d0].host = h
  BY DEF Taken
<1>4. Taken(h, 0) => domains[d0].bucket \in Buckets
  <2> SUFFICES ASSUME Taken(h, 0) PROVE domains[d0].bucket \in Buckets
    OBVIOUS
  <2>1. d0 \in 1 .. Len(domains) /\ domains \in Seq(DomainRow)
    BY <1>1, <1>3 DEF LiveDomains, AccessTypes, TableTypes
  <2>2. domains[d0] \in DomainRow
    BY <2>1, ElementOfSeq
  <2> QED
    BY <2>2 DEF DomainRow
<1>5. SubdomainOf[h] \in Buckets \cup {None}
  BY <1>1, AccessAssumption
<1>6. b # None => b \in Buckets
  BY <1>4, <1>5
<1>7. b # None => (Taken(h, 0) /\ domains[d0].bucket = b) \/ SubdomainOf[h] = b
  OBVIOUS
<1> HIDE DEF b, d0
<1>8. /\ x \in HostReq /\ x.op = "public" /\ x.credential = NoCredential /\ x.host = h
      /\ \/ x.stage = "answered" /\ x.outcome = "dashboard"
         \/ x.stage = "bucket" /\ b # None /\ x.bucket = b
  BY <1>1, <1>6 DEF HostReq, Stages, Outcomes
<1> HIDE DEF x
<1>9. Moves(r, x)
  BY <1>1, <1>2, <1>8 DEF Moves, Request, tables, AccessTypes, TableTypes
<1>10. req'[r] = x /\ LiveDomains' = LiveDomains /\ domains' = domains
  BY <1>1, <1>9, MovesTypes DEF Moves
<1>11. x.stage = "bucket" => OfHost(r)'
  <2>1. CASE Taken(h, 0) /\ domains[d0].bucket = b /\ x.stage = "bucket"
    BY <1>3, <1>8, <1>10, <2>1, SeesHost
  <2>2. CASE SubdomainOf[h] = b /\ x.stage = "bucket"
    BY <1>8, <1>10, <2>2 DEF OfHost
  <2> QED
    BY <1>7, <1>8, <2>1, <2>2
<1>12. Sound(r)'
  BY <1>6, <1>8, <1>10, <1>11 DEF Sound, At, Answered, Presents, NoCredential, KeyedOps
<1> QED
  BY <1>9, <1>12, RequestStep
LEMMA BucketSound ==
  ASSUME AccessInv, NEW r \in Reqs, ReadBucket(r), Watch
  PROVE  AccessInv'
<1> DEFINE b == req[r].bucket
           op == req[r].op
<1>1. /\ AccessTypes /\ At(r, "bucket") /\ ~At(r, "idle") /\ UNCHANGED <<tables, admin, now>>
      /\ Sound(r)
  BY DEF ReadBucket, Quiet, AccessInv, At
<1>2. /\ \/ req[r] \in KeyedReq /\ op \in KeyedOps
         \/ req[r] \in HostReq /\ op = "public"
      /\ op # "buckets" /\ b \in Buckets
      /\ op = "public" => OfHost(r)
      /\ op = "public" => req[r].credential = NoCredential
  BY <1>1, Staged DEF Sound, At, KeyedOps
<1>3. PICK x : /\ req' = [req EXCEPT ![r] = x]
               /\ \/ /\ op = "public"
                     /\ x = [req[r] EXCEPT !.stage = "answered", !.outcome = "denied"]
                  \/ /\ op # "public"
                     /\ x = [req[r] EXCEPT !.stage = "answered", !.outcome = "missing"]
                  \/ /\ buckets[b] = "public" /\ op \in ReadOps \cup {"public"}
                     /\ x = [req[r] EXCEPT !.stage = "act"]
                  \/ /\ op # "public"
                     /\ x = [req[r] EXCEPT !.stage = "key"]
  BY <1>1 DEF ReadBucket, Answers, Goes, AccessTypes, TableTypes
<1>4. /\ x \in KeyedReq \cup HostReq
      /\ x.bucket = b /\ x.op = op /\ x.credential = req[r].credential /\ x.at = req[r].at
      /\ op = "public" => x.host = req[r].host
      /\ \/ x.stage = "answered" /\ x.outcome = "denied" /\ op = "public"
         \/ x.stage = "answered" /\ x.outcome = "missing"
         \/ x.stage = "act" /\ buckets[b] = "public" /\ op \in ReadOps \cup {"public"}
         \/ x.stage = "key" /\ op # "public"
  <2>1. CASE req[r] \in KeyedReq
    BY <1>2, <1>3, <2>1 DEF KeyedReq, Stages, Outcomes, KeyedOps
  <2>2. CASE req[r] \in HostReq
    BY <1>2, <1>3, <2>2 DEF HostReq, Stages, Outcomes
  <2> QED
    BY <1>2, <2>1, <2>2
<1>5. Moves(r, x)
  <2>1. x \in Request /\ x.stage # "idle"
    BY <1>4 DEF Request
  <2> QED
    BY <1>1, <1>3, <2>1 DEF Moves, tables, AccessTypes, TableTypes
<1>6. req'[r] = x /\ UNCHANGED <<buckets, keys, now>>
  BY <1>1, <1>5, MovesTypes DEF Moves
<1>7. x.stage = "act" => PublicSeen(r)'
  BY <1>2, <1>4, <1>5, <1>6, SeesPublic DEF Moves
<1>8. op = "public" => OfHost(r)'
  BY <1>1, <1>2, <1>4, <1>5, SeenBefore
<1>9. /\ Presents(r)' => TheKey(r)' \in 1 .. Len(keys)'
      /\ x.credential.kind = "url" => x.credential.url.minted <= now
  BY <1>1, <1>4, <1>5, <1>6, Staged, SeenBefore
<1>10. Admitted(r)' \/ x.stage # "act"
  <2> SUFFICES ASSUME x.stage = "act" PROVE Admitted(r)'
    OBVIOUS
  <2>1. op \in ReadOps \cup {"public"}
    BY <1>4
  <2> QED
    BY <1>4, <1>6, <1>7, <1>8, <2>1 DEF Admitted, UrlInTime, ReadOps
<1>11. Sound(r)'
  BY <1>1, <1>2, <1>4, <1>6, <1>8, <1>9, <1>10
  DEF Sound, At, Answered, Presents, NoCredential, KeyedOps
<1> QED
  BY <1>5, <1>11, RequestStep

LEMMA KeySound ==
  ASSUME AccessInv, NEW r \in Reqs, LookUpKey(r), Watch
  PROVE  AccessInv'
<1> DEFINE c == req[r].credential
           x == IF c.kind = "none" \/ (c.kind # "none" /\ KeyOf(c) \notin LiveKeys)
                THEN [req[r] EXCEPT !.stage = "answered", !.outcome = "denied"]
                ELSE [req[r] EXCEPT !.stage = "verify", !.row = keys[KeyOf(c)]]
<1>1. /\ AccessTypes /\ At(r, "key") /\ ~At(r, "idle") /\ UNCHANGED <<tables, admin, now>>
      /\ Sound(r) /\ req' = [req EXCEPT ![r] = x]
  BY DEF LookUpKey, Quiet, AccessInv, At, Answers, Goes
<1>2. req[r] \in KeyedReq /\ req[r].op \in KeyedOps /\ keys \in Seq(KeyRow)
  BY <1>1, Staged DEF Sound, AccessTypes, TableTypes
<1>3. c.kind # "none" /\ KeyOf(c) \in LiveKeys => keys[KeyOf(c)] \in KeyRow
  BY <1>2, ElementOfSeq DEF LiveKeys
<1>4. /\ x \in KeyedReq /\ x.bucket = req[r].bucket /\ x.op = req[r].op
      /\ x.credential = c /\ x.at = req[r].at
      /\ \/ /\ x.stage = "answered" /\ x.outcome = "denied"
            /\ c.kind = "none" \/ KeyOf(c) \notin LiveKeys
         \/ /\ x.stage = "verify" /\ c.kind # "none" /\ KeyOf(c) \in LiveKeys
            /\ x.row = keys[KeyOf(c)]
  BY <1>2, <1>3 DEF KeyedReq, Stages, Outcomes
<1> HIDE DEF x
<1>5. Moves(r, x)
  <2>1. x \in Request /\ x.stage # "idle"
    BY <1>4 DEF Request
  <2> QED
    BY <1>1, <2>1 DEF Moves, tables, AccessTypes, TableTypes
<1>6. req'[r] = x /\ UNCHANGED <<keys, now>> /\ LiveKeys' = LiveKeys
  BY <1>1, <1>5, MovesTypes DEF Moves
<1>7. x.stage = "verify" => KeySeen(r)'
  BY <1>2, <1>4, <1>5, <1>6, SeesKey DEF Moves, KeyedOps
<1>8. x.stage = "verify" => Read(r)'
  <2>1. TheKey(r)' = KeyOf(c)
    BY <1>4, <1>6 DEF TheKey, KeyOf
  <2> QED
    BY <1>3, <1>4, <1>6, <1>7, <2>1 DEF Read
<1>9. /\ Presents(r)' => TheKey(r)' \in 1 .. Len(keys)'
      /\ x.credential.kind = "url" => x.credential.url.minted <= now
  BY <1>1, <1>4, <1>5, <1>6, Staged, SeenBefore
<1>10. x.stage = "answered" /\ c.kind = "url" => RefusedUrl(r)'
  <2> SUFFICES ASSUME x.stage = "answered", c.kind = "url" PROVE c.url.key \notin LiveKeys
    BY <1>4, <1>6 DEF RefusedUrl
  <2> QED
    BY <1>4 DEF KeyOf
<1>11. req[r].op # "buckets" => req[r].bucket \in Buckets
  BY <1>1, <1>2 DEF Sound
<1>12. Sound(r)'
  BY <1>2, <1>4, <1>6, <1>8, <1>9, <1>10, <1>11
  DEF Sound, At, Answered, Presents, KeyedOps
<1> QED
  BY <1>5, <1>12, RequestStep

(* A URL's dates, cut to whole seconds.                                    *)
LEMMA UrlDates ==
  ASSUME NEW url \in Url, now \in Nat, url.minted <= now
  PROVE  /\ WholeSeconds(url.minted) - now <= Skew
         /\ now <= Expiry(url) => now - url.minted <= url.life /\ now - url.minted <= MaxLife
         /\ ~(now <= Expiry(url)) => now - url.minted > url.life - 2 * (Second - 1)
<1>1. /\ url.minted \in Nat /\ url.life \in Nat /\ url.life <= MaxLife
      /\ Skew \in Nat /\ Second \in Nat /\ MaxLife \in Nat
  BY NumbersOK DEF Url
<1> DEFINE m == WholeSeconds(url.minted)
           l == WholeSeconds(url.life)
<1>2. /\ m \in Int /\ m <= url.minted /\ url.minted - Second < m
      /\ l \in Int /\ l <= url.life /\ url.life - Second < l
  BY <1>1, WholeSecondsBounds
<1>3. Expiry(url) = m + l
  BY DEF Expiry
<1> HIDE DEF m, l
<1>4. m - now <= Skew
  BY <1>1, <1>2
<1>5. now <= m + l => now - url.minted <= url.life /\ now - url.minted <= MaxLife
  BY <1>1, <1>2
<1>6. ~(now <= m + l) => now - url.minted > url.life - 2 * (Second - 1)
  BY <1>1, <1>2
<1> QED
  BY <1>3, <1>4, <1>5, <1>6 DEF m

LEMMA PermissionOK ==
  ASSUME NEW row \in KeyRow, NEW b, NEW op \in {"get", "list", "put", "delete"}
  PROVE  ~PermissionDenied(row, b, Need(op)) <=>
           row.filter \in {None, b} /\ op \in Granted[row.permission]
<1>1. row.permission \in {"FULL", "READ_ONLY", "WRITE_ONLY"}
  BY AccessAssumption DEF KeyRow
<1>2. Need(op) = (IF op \in {"get", "list"} THEN "read" ELSE IF op = "put" THEN "write" ELSE "full")
  BY DEF Need, ReadOps
<1> QED
  BY <1>1, <1>2 DEF PermissionDenied, Granted
LEMMA VerifySound ==
  ASSUME AccessInv, NEW r \in Reqs, Verify(r), Watch
  PROVE  AccessInv'
<1> DEFINE c == req[r].credential
           op == req[r].op
           b == req[r].bucket
           ok == /\ Authentic(r)
                 /\ op = "buckets" \/ ~PermissionDenied(req[r].row, b, Need(op))
           x == [req[r] EXCEPT !.at = now, !.stage = IF ok THEN "act" ELSE "answered",
                               !.outcome = "denied"]
<1>1. /\ AccessTypes /\ At(r, "verify") /\ ~At(r, "idle") /\ UNCHANGED <<tables, admin, now>>
      /\ Sound(r) /\ req' = [req EXCEPT ![r] = x] /\ now \in Nat
  BY DEF Verify, Quiet, AccessInv, At, Goes, AccessTypes, TableTypes
<1>2. req[r] \in KeyedReq /\ op \in KeyedOps /\ Read(r) /\ op # "public"
  BY <1>1, Staged DEF Sound, KeyedOps
<1>3. op # "buckets" => b \in Buckets
  BY <1>1, <1>2 DEF Sound
<1>4. /\ x \in KeyedReq /\ x.bucket = b /\ x.op = op /\ x.credential = c /\ x.at = now
      /\ x.row = req[r].row /\ x.shown = req[r].shown /\ x.outcome = "denied"
      /\ x.stage = IF ok THEN "act" ELSE "answered"
  BY <1>1, <1>2 DEF KeyedReq, Stages, Outcomes
<1> HIDE DEF x, ok
<1>5. Moves(r, x)
  <2>1. x \in Request /\ x.stage # "idle"
    BY <1>4 DEF Request
  <2> QED
    BY <1>1, <2>1 DEF Moves, tables, AccessTypes, TableTypes
<1>6. req'[r] = x /\ UNCHANGED <<keys, now>> /\ LiveKeys' = LiveKeys
  BY <1>1, <1>5, MovesTypes DEF Moves
<1>7. /\ TheKey(r)' = TheKey(r) /\ Presents(r)' = Presents(r) /\ KeySeen(r)'
      /\ Presents(r) /\ TheKey(r) \in 1 .. Len(keys)
      /\ c.kind = "url" => c.url \in Url /\ c.url.minted <= now
  BY <1>1, <1>2, <1>4, <1>5, SeenBefore, Staged DEF Read, KeySeen
<1>8. Read(r)'
  BY <1>2, <1>4, <1>6, <1>7 DEF Read
<1>9. op # "buckets" =>
        (~PermissionDenied(req[r].row, b, Need(op)) <=>
           keys[TheKey(r)].filter \in {None, b} /\ op \in Granted[keys[TheKey(r)].permission])
  BY <1>2, PermissionOK DEF Read, KeyedOps
<1>10. c.kind = "url" => (Authentic(r) <=> UrlHolds(r, c.url))
  BY DEF Authentic
<1>11. ASSUME ok PROVE Admitted(r)'
  <2>1. op # "buckets" => Reaches(r)'
    BY <1>4, <1>6, <1>7, <1>9, <1>11 DEF Reaches, ok
  <2>2. c.kind = "url" => UrlHolds(r, c.url)
    BY <1>10, <1>11 DEF ok
  <2>3. UrlInTime(r)'
    <3> SUFFICES ASSUME c.kind = "url"
                 PROVE  /\ now - c.url.minted <= c.url.life /\ now - c.url.minted <= MaxLife
                        /\ op = "get" /\ b = c.url.bucket
      BY <1>4, <1>6 DEF UrlInTime
    <3> QED
      BY <1>1, <1>7, <2>2, UrlDates DEF UrlHolds
  <2> QED
    BY <1>2, <1>4, <1>6, <1>8, <2>1, <2>3 DEF Admitted, ReadOps, KeyedOps
<1>12. ASSUME ~ok, c.kind = "url" PROVE RefusedUrl(r)'
  <2>1. TheKey(r) = c.url.key
    BY <1>12 DEF TheKey, KeyOf
  <2> SUFFICES ASSUME op = "get", b = c.url.bucket,
                      keys[TheKey(r)].filter \in {None, b},
                      "get" \in Granted[keys[TheKey(r)].permission]
               PROVE  now - c.url.minted > c.url.life - 2 * (Second - 1)
    BY <1>4, <1>6, <2>1 DEF RefusedUrl
  <2>2. ~UrlHolds(r, c.url)
    BY <1>9, <1>10, <1>12 DEF ok
  <2> QED
    BY <1>1, <1>7, <1>12, <2>2, UrlDates DEF UrlHolds
<1>13. Sound(r)'
  BY <1>2, <1>3, <1>4, <1>6, <1>7, <1>11, <1>12
  DEF Sound, At, Answered, Presents, KeyedOps
<1> QED
  BY <1>5, <1>13, RequestStep

LEMMA ActSound ==
  ASSUME AccessInv, NEW r \in Reqs, Act(r), Watch
  PROVE  AccessInv'
<1> DEFINE c == req[r].credential
           op == req[r].op
           b == req[r].bucket
<1>1. /\ AccessTypes /\ At(r, "act") /\ ~At(r, "idle") /\ op # "buckets" /\ Sound(r)
      /\ UNCHANGED <<buckets, keys, domains, urls, admin, now>> /\ stored \subseteq Existing
  BY DEF Act, Quiet, AccessInv, At, AccessTypes, TableTypes
<1>2. /\ \/ req[r] \in KeyedReq /\ op \in KeyedOps
         \/ req[r] \in HostReq /\ op = "public"
      /\ Admitted(r)
  BY <1>1, Staged DEF Sound
<1>3. PICK out \in {"served", "missing", "failed"} :
        req' = [req EXCEPT ![r] = [req[r] EXCEPT !.stage = "answered", !.outcome = out]]
  BY <1>1, <1>2 DEF Act, Answers, Goes, KeyedOps
<1>4. stored' \subseteq Existing
  BY <1>1, <1>2 DEF Act, KeyedOps
<1> DEFINE x == [req[r] EXCEPT !.stage = "answered", !.outcome = out]
<1>5. /\ x \in KeyedReq \cup HostReq
      /\ x.bucket = b /\ x.op = op /\ x.credential = c /\ x.at = req[r].at
      /\ op = "public" => x.host = req[r].host
      /\ x.stage = "answered" /\ x.outcome = out
  <2>1. CASE req[r] \in KeyedReq
    BY <2>1 DEF KeyedReq, KeyedOps, Stages, Outcomes
  <2>2. CASE req[r] \in HostReq /\ op = "public"
    BY <2>2 DEF HostReq, Stages, Outcomes
  <2> QED
    BY <1>2, <2>1, <2>2
<1>6. req' = [req EXCEPT ![r] = x]
  BY <1>3
<1> HIDE DEF x
<1>7. Moves(r, x)
  BY <1>1, <1>4, <1>5, <1>6 DEF Moves, Request
<1>8. req'[r] = x /\ UNCHANGED <<keys, now>>
  BY <1>1, <1>7, MovesTypes
<1>9. /\ TheKey(r)' = TheKey(r) /\ Presents(r)' = Presents(r)
      /\ PublicSeen(r) => PublicSeen(r)'
      /\ op = "public" /\ OfHost(r) => OfHost(r)'
      /\ Reaches(r) => Reaches(r)'
  BY <1>1, <1>5, <1>7, SeenBefore
<1>10. /\ Presents(r) => TheKey(r) \in 1 .. Len(keys)
       /\ c.kind = "url" => c.url.minted <= now
  BY <1>1, Staged
<1>11. Reaches(r)' => ByKey(r)'
  BY <1>1, <1>5, <1>8 DEF Reaches, ByKey, KeySeen, Presents, TheKey, KeyOf
<1>12. Given(r)'
  BY <1>1, <1>2, <1>5, <1>8, <1>9, <1>11 DEF Admitted, Given, KeyedOps, ReadOps
<1>13. UrlInTime(r)'
  BY <1>2, <1>5, <1>8, <1>9 DEF Admitted, UrlInTime
<1>14. op \in KeyedOps \ {"buckets"} => b \in Buckets
  BY <1>1 DEF Sound
<1>15. Sound(r)'
  BY <1>3, <1>5, <1>8, <1>9, <1>10, <1>12, <1>13, <1>14
  DEF Sound, At, Answered, Presents
<1> QED
  BY <1>7, <1>15, RequestStep

LEMMA ListBucketsSound ==
  ASSUME AccessInv, NEW r \in Reqs, ListBuckets(r), Watch
  PROVE  AccessInv'
<1> DEFINE c == req[r].credential
           shown == {b \in Existing : req[r].row.filter \in {None, b}}
           x == [req[r] EXCEPT !.stage = "answered", !.outcome = "served", !.shown = shown]
<1>1. /\ AccessTypes /\ At(r, "act") /\ ~At(r, "idle") /\ req[r].op = "buckets" /\ Sound(r)
      /\ UNCHANGED <<tables, admin, now>> /\ req' = [req EXCEPT ![r] = x]
  BY DEF ListBuckets, Quiet, AccessInv, At, Goes
<1>2. req[r] \in KeyedReq /\ Read(r) /\ UrlInTime(r)
  BY <1>1, Staged DEF Sound, Admitted
<1>3. shown \subseteq Buckets
  BY DEF Existing
<1>4. /\ x \in KeyedReq /\ x.bucket = req[r].bucket /\ x.op = "buckets"
      /\ x.credential = c /\ x.at = req[r].at /\ x.shown = shown
      /\ x.stage = "answered" /\ x.outcome = "served"
  BY <1>1, <1>2, <1>3 DEF KeyedReq, Stages, Outcomes
<1>5. req[r].row.filter # None => shown \subseteq {req[r].row.filter}
  OBVIOUS
<1> HIDE DEF x, shown
<1>6. Moves(r, x)
  <2>1. x \in Request /\ x.stage # "idle"
    BY <1>4 DEF Request
  <2> QED
    BY <1>1, <2>1 DEF Moves, tables, AccessTypes, TableTypes
<1>7. req'[r] = x /\ UNCHANGED <<keys, now>>
  BY <1>1, <1>6, MovesTypes DEF Moves
<1>8. /\ TheKey(r)' = TheKey(r) /\ Presents(r)' = Presents(r) /\ KeySeen(r)' /\ Presents(r)
      /\ PublicSeen(r) => PublicSeen(r)'
      /\ TheKey(r) \in 1 .. Len(keys)
      /\ c.kind = "url" => c.url.minted <= now
  BY <1>1, <1>2, <1>4, <1>6, SeenBefore, Staged DEF Read, KeySeen
<1>9. ByKey(r)'
  BY <1>2, <1>4, <1>5, <1>7, <1>8 DEF ByKey, Read, TheKey, KeySeen, Presents
<1>10. UrlInTime(r)'
  BY <1>1, <1>2, <1>4, <1>7, <1>8 DEF UrlInTime
<1>11. Sound(r)'
  BY <1>4, <1>7, <1>8, <1>9, <1>10
  DEF Sound, At, Answered, Presents, Given, ReadOps
<1> QED
  BY <1>6, <1>11, RequestStep
LEMMA SameCardinality == \A S : Streams!Cardinality(S) = Cardinality(S)
BY DEF Streams!Cardinality, Cardinality
LEMMA Span ==
  ASSUME NEW S, NEW o \in Seq(S), NEW m \in Nat, NEW n \in Nat, m <= n, n <= Len(o)
  PROVE  /\ SubSeq(o, m + 1, n) \in Seq(S) /\ Len(SubSeq(o, m + 1, n)) = n - m
         /\ \A i \in 1 .. n - m : SubSeq(o, m + 1, n)[i] = o[m + i]
<1>1. \A i \in m + 1 .. n : o[i] \in S
  OBVIOUS
<1>2. /\ SubSeq(o, m + 1, n) \in Seq(S)
      /\ Len(SubSeq(o, m + 1, n)) = IF m + 1 <= n THEN n - (m + 1) + 1 ELSE 0
      /\ \A i \in 1 .. n - (m + 1) + 1 : SubSeq(o, m + 1, n)[i] = o[m + 1 + i - 1]
  BY <1>1, SubSeqProperties
<1>3. n - (m + 1) + 1 = n - m /\ \A i \in Int : m + 1 + i - 1 = m + i
  OBVIOUS
<1> QED
  BY <1>2, <1>3
----------------------------------------------------------------------------
(* Flattening a sequence of sequences.                                     *)

(* f flattens ever longer beginnings of ss.                                *)
Flattens(f, ss) ==
  \A i \in 1 .. Len(ss) : f[i] = IF i = 1 THEN ss[i] ELSE f[i - 1] \o ss[i]

LEMMA FlattenerExists ==
  ASSUME NEW S, NEW ss \in Seq(Seq(S))
  PROVE  \E f \in [1 .. Len(ss) -> Seq(S)] : Flattens(f, ss)
<1> DEFINE Fits(f, n) == \A i \in 1 .. n : f[i] = IF i = 1 THEN ss[i] ELSE f[i - 1] \o ss[i]
           Bad == {n \in 0 .. Len(ss) : ~\E f \in [1 .. n -> Seq(S)] : Fits(f, n)}
<1>1. Len(ss) \in Nat /\ \A i \in 1 .. Len(ss) : ss[i] \in Seq(S)
  OBVIOUS
<1> DEFINE Good(n) == \E f \in [1 .. n -> Seq(S)] : Fits(f, n)
<1>a. \A n \in 0 .. Len(ss) : n \notin Bad => Good(n)
  OBVIOUS
<1>2. SUFFICES ASSUME Bad # {} PROVE FALSE
  <2>1. Len(ss) \notin Bad /\ Len(ss) \in 0 .. Len(ss)
    <3> HIDE DEF Bad
    <3> QED
      BY <1>1, <1>2
  <2>2. Good(Len(ss))
    <3> HIDE DEF Bad, Good
    <3> QED
      BY <1>a, <2>1
  <2> QED
    BY <2>2 DEF Flattens
<1>3. PICK n \in Bad : \A m \in Bad : n <= m
  <2>1. Bad \subseteq Nat
    BY <1>1
  <2> HIDE DEF Bad
  <2> QED
    BY <1>2, <2>1, Least
<1>4. n # 0
  <2>1. [i \in 1 .. 0 |-> <<>>] \in [1 .. 0 -> Seq(S)] /\ Fits([i \in 1 .. 0 |-> <<>>], 0)
    OBVIOUS
  <2> QED
    BY <2>1
<1>5. n \in 1 .. Len(ss) /\ n - 1 \in 0 .. Len(ss) /\ n - 1 \notin Bad
  <2>1. n \in 0 .. Len(ss)
    BY <1>3
  <2>2. ~(n <= n - 1)
    BY <2>1
  <2> HIDE DEF Bad
  <2> QED
    BY <1>1, <1>3, <1>4, <2>1, <2>2
<1>6. PICK f \in [1 .. n - 1 -> Seq(S)] : Fits(f, n - 1)
  BY <1>a, <1>5
<1> DEFINE last == IF n = 1 THEN ss[n] ELSE f[n - 1] \o ss[n]
           g == [i \in 1 .. n |-> IF i = n THEN last ELSE f[i]]
<1>7. last \in Seq(S)
  <2>1. CASE n = 1
    BY <1>1, <1>5, <2>1
  <2>2. CASE n # 1
    <3>1. f[n - 1] \in Seq(S) /\ ss[n] \in Seq(S)
      BY <1>1, <1>5, <1>6, <2>2
    <3> QED
      BY <2>2, <3>1
  <2> QED
    BY <2>1, <2>2
<1>8. g \in [1 .. n -> Seq(S)]
  BY <1>5, <1>6, <1>7
<1>9. Fits(g, n)
  <2> SUFFICES ASSUME NEW i \in 1 .. n
               PROVE  g[i] = IF i = 1 THEN ss[i] ELSE g[i - 1] \o ss[i]
    OBVIOUS
  <2>1. CASE i = n
    BY <1>5, <2>1
  <2>2. CASE i # n
    <3>1. i \in 1 .. n - 1 /\ (i # 1 => i - 1 \in 1 .. n - 1 /\ i - 1 # n)
      BY <1>5, <2>2
    <3>2. f[i] = IF i = 1 THEN ss[i] ELSE f[i - 1] \o ss[i]
      BY <1>6, <3>1
    <3>3. g[i] = f[i] /\ (i # 1 => g[i - 1] = f[i - 1])
      BY <1>5, <2>2, <3>1
    <3> HIDE DEF g
    <3> QED
      BY <3>2, <3>3
  <2> QED
    BY <2>1, <2>2
<1> QED
  BY <1>3, <1>8, <1>9

LEMMA FlattenerUnique ==
  ASSUME NEW ss, Len(ss) \in Nat, NEW f, NEW g, Flattens(f, ss), Flattens(g, ss)
  PROVE  \A i \in 1 .. Len(ss) : f[i] = g[i]
<1> DEFINE Bad == {i \in 1 .. Len(ss) : f[i] # g[i]}
<1> SUFFICES ASSUME Bad # {} PROVE FALSE
  OBVIOUS
<1>1. Bad \subseteq Nat
  OBVIOUS
<1>2. PICK n \in Bad : \A m \in Bad : n <= m
  <2> HIDE DEF Bad
  <2> QED
    BY <1>1, Least
<1>3. /\ n \in 1 .. Len(ss)
      /\ f[n] = IF n = 1 THEN ss[n] ELSE f[n - 1] \o ss[n]
      /\ g[n] = IF n = 1 THEN ss[n] ELSE g[n - 1] \o ss[n]
  BY DEF Flattens
<1>4. n # 1 => n - 1 \in 1 .. Len(ss) /\ n - 1 \notin Bad
  BY <1>2, <1>3
<1>5. n # 1 => f[n - 1] = g[n - 1]
  BY <1>4
<1> QED
  BY <1>3, <1>5

LEMMA Flattened ==
  ASSUME NEW S, NEW ss \in Seq(Seq(S)), NEW f, Flattens(f, ss)
  PROVE  Streams!FlattenSeq(ss) = IF ss = <<>> THEN <<>> ELSE f[Len(ss)]
<1> DEFINE F(h) == [i \in 1 .. Len(ss) |-> IF i = 1 THEN ss[i] ELSE h[i - 1] \o ss[i]]
           h0 == CHOOSE h : h = F(h)
<1>1. Streams!FlattenSeq(ss) = IF Len(ss) = 0 THEN ss ELSE h0[Len(ss)]
  BY DEF Streams!FlattenSeq
<1>2. PICK g \in [1 .. Len(ss) -> Seq(S)] : Flattens(g, ss)
  BY FlattenerExists
<1>3. g = F(g)
  BY <1>2 DEF Flattens
<1>4. h0 = F(h0)
  BY <1>3
<1>5. Flattens(h0, ss)
  BY <1>4 DEF Flattens
<1>6. Len(ss) \in Nat /\ (Len(ss) = 0 <=> ss = <<>>)
  OBVIOUS
<1> HIDE DEF h0
<1>7. \A i \in 1 .. Len(ss) : h0[i] = f[i]
  BY <1>5, <1>6, FlattenerUnique
<1>8. ss # <<>> => h0[Len(ss)] = f[Len(ss)]
  BY <1>6, <1>7
<1> QED
  BY <1>1, <1>6, <1>8

LEMMA FlattenAppend ==
  ASSUME NEW S, NEW ss \in Seq(Seq(S)), NEW x \in Seq(S)
  PROVE  /\ Streams!FlattenSeq(ss) \in Seq(S)
         /\ Streams!FlattenSeq(Append(ss, x)) = Streams!FlattenSeq(ss) \o x
<1> DEFINE n == Len(ss)
           tt == Append(ss, x)
<1>1. PICK f \in [1 .. n -> Seq(S)] : Flattens(f, ss)
  BY FlattenerExists
<1>2. n \in Nat /\ tt \in Seq(Seq(S)) /\ Len(tt) = n + 1 /\ tt[n + 1] = x
      /\ \A i \in 1 .. n : tt[i] = ss[i]
  BY AppendProperties
<1> HIDE DEF tt
<1>3. Streams!FlattenSeq(ss) = IF ss = <<>> THEN <<>> ELSE f[n]
  BY <1>1, Flattened
<1>4. ss # <<>> => n \in 1 .. n
  BY <1>2
<1>5. Streams!FlattenSeq(ss) \in Seq(S)
  <2>1. CASE ss = <<>>
    BY <1>3, <2>1
  <2>2. CASE ss # <<>>
    <3>1. f[n] \in Seq(S)
      BY <1>1, <1>4, <2>2
    <3> QED
      BY <1>3, <2>2, <3>1
  <2> QED
    BY <2>1, <2>2
<1> DEFINE g == [i \in 1 .. n + 1 |-> IF i = n + 1 THEN Streams!FlattenSeq(ss) \o x ELSE f[i]]
<1>6. Flattens(g, tt)
  <2> SUFFICES ASSUME NEW i \in 1 .. n + 1
               PROVE  g[i] = IF i = 1 THEN tt[i] ELSE g[i - 1] \o tt[i]
    BY <1>2 DEF Flattens
  <2>1. CASE i = n + 1 /\ n = 0
    <3>1. Streams!FlattenSeq(ss) = <<>>
      BY <1>3, <2>1
    <3> QED
      BY <1>2, <2>1, <3>1
  <2>2. CASE i = n + 1 /\ n # 0
    <3>1. ss # <<>>
      BY <2>2
    <3>2. g[i - 1] = f[n] /\ g[i] = Streams!FlattenSeq(ss) \o x /\ i # 1 /\ tt[i] = x
      BY <1>2, <2>2
    <3>3. Streams!FlattenSeq(ss) = f[n]
      BY <1>3, <3>1
    <3> HIDE DEF g
    <3> QED
      BY <3>2, <3>3
  <2>3. CASE i # n + 1
    <3>1. i \in 1 .. n /\ (i # 1 => i - 1 \in 1 .. n /\ i - 1 # n + 1)
      BY <1>2, <2>3
    <3>2. f[i] = IF i = 1 THEN ss[i] ELSE f[i - 1] \o ss[i]
      BY <1>1, <3>1 DEF Flattens
    <3>3. g[i] = f[i] /\ (i # 1 => g[i - 1] = f[i - 1])
      BY <1>2, <2>3, <3>1
    <3> HIDE DEF g
    <3> QED
      BY <1>2, <3>1, <3>2, <3>3
  <2> QED
    BY <2>1, <2>2, <2>3
<1>7. Streams!FlattenSeq(tt) = g[n + 1]
  <2> HIDE DEF g
  <2>1. tt # <<>>
    BY <1>2
  <2> QED
    BY <1>2, <1>6, <2>1, Flattened
<1> QED
  BY <1>2, <1>5, <1>7 DEF tt
LEMMA ConcatAppend ==
  ASSUME NEW S, NEW s \in Seq(S), NEW t \in Seq(S), NEW e \in S
  PROVE  s \o Append(t, e) = Append(s \o t, e)
<1>1. Append(t, e) = t \o <<e>> /\ <<e>> \in Seq(S) /\ s \o t \in Seq(S)
  BY AppendIsConcat, ConcatProperties
<1>2. Append(s \o t, e) = (s \o t) \o <<e>>
  BY <1>1, AppendIsConcat
<1>3. (s \o t) \o <<e>> = s \o (t \o <<e>>)
  BY <1>1, ConcatAssociative
<1> QED
  BY <1>1, <1>2, <1>3

LEMMA FlattenCons ==
  ASSUME NEW S, NEW x \in Seq(S), NEW ss \in Seq(Seq(S))
  PROVE  Streams!FlattenSeq(<<x>> \o ss) = x \o Streams!FlattenSeq(ss)
<1> DEFINE Bad == {n \in Nat : \E tt \in Seq(Seq(S)) :
                     Len(tt) = n /\ Streams!FlattenSeq(<<x>> \o tt) # x \o Streams!FlattenSeq(tt)}
<1> SUFFICES ASSUME Bad # {} PROVE FALSE
  <2>1. Len(ss) \in Nat
    OBVIOUS
  <2> QED
    BY <2>1
<1>1. PICK n \in Bad : \A m \in Bad : n <= m
  <2>1. Bad \subseteq Nat
    OBVIOUS
  <2> HIDE DEF Bad
  <2> QED
    BY <2>1, Least
<1>2. PICK tt \in Seq(Seq(S)) : Len(tt) = n /\ Streams!FlattenSeq(<<x>> \o tt) # x \o Streams!FlattenSeq(tt)
  BY DEF Bad
<1>a. \A m \in Nat, uu \in Seq(Seq(S)) :
        m \notin Bad /\ Len(uu) = m => Streams!FlattenSeq(<<x>> \o uu) = x \o Streams!FlattenSeq(uu)
  OBVIOUS
<1> HIDE DEF Bad
<1>3. Streams!FlattenSeq(<<>>) = <<>> /\ Streams!FlattenSeq(<<x>>) = x
  <2>1. Streams!FlattenSeq(<<>>) = <<>>
    BY DEF Streams!FlattenSeq
  <2>2. <<x>> = Append(<<>>, x) /\ <<>> \in Seq(Seq(S)) /\ <<>> \o x = x
    OBVIOUS
  <2>3. Streams!FlattenSeq(Append(<<>>, x)) = Streams!FlattenSeq(<<>>) \o x
    BY <2>2, FlattenAppend
  <2> QED
    BY <2>1, <2>2, <2>3
<1>4. CASE tt = <<>>
  <2>1. <<x>> \o tt = <<x>> /\ x \o <<>> = x
    BY <1>4
  <2> QED
    BY <1>2, <1>3, <1>4, <2>1
<1>5. CASE tt # <<>>
  <2>1. n \in Nat /\ n # 0
    BY <1>2, <1>5
  <2>2. PICK uu \in Seq(Seq(S)), y \in Seq(S) : tt = Append(uu, y)
    BY <1>5, SequenceEmptyOrAppend
  <2>3. Len(uu) = n - 1
    BY <1>2, <2>2, AppendProperties
  <2>4. n - 1 \in Nat /\ n - 1 \notin Bad
    <3>1. n - 1 \in Nat /\ ~(n <= n - 1)
      BY <2>1
    <3> QED
      BY <1>1, <3>1
  <2>5. Streams!FlattenSeq(<<x>> \o uu) = x \o Streams!FlattenSeq(uu)
    BY <1>a, <2>2, <2>3, <2>4
  <2>6. <<x>> \o tt = Append(<<x>> \o uu, y) /\ <<x>> \o uu \in Seq(Seq(S))
    <3>1. <<x>> \in Seq(Seq(S))
      OBVIOUS
    <3>2. <<x>> \o uu \in Seq(Seq(S))
      BY <2>2, <3>1, ConcatProperties
    <3>3. <<x>> \o Append(uu, y) = Append(<<x>> \o uu, y)
      BY <2>2, <3>1, ConcatAppend
    <3> QED
      BY <2>2, <3>2, <3>3
  <2>7. /\ Streams!FlattenSeq(<<x>> \o tt) = Streams!FlattenSeq(<<x>> \o uu) \o y
        /\ Streams!FlattenSeq(tt) = Streams!FlattenSeq(uu) \o y /\ Streams!FlattenSeq(uu) \in Seq(S)
    BY <2>2, <2>3, <2>6, FlattenAppend
  <2>8. \A v \in Seq(S) : (x \o v) \o y = x \o (v \o y)
    <3> SUFFICES ASSUME NEW v \in Seq(S) PROVE (x \o v) \o y = x \o (v \o y)
      OBVIOUS
    <3>1. x \in Seq(S) /\ y \in Seq(S) /\ v \in Seq(S)
      BY <2>2
    <3> QED
      BY <3>1, ConcatAssociative
  <2> QED
    BY <1>2, <2>5, <2>7, <2>8
<1> QED
  BY <1>4, <1>5
----------------------------------------------------------------------------
(* Streams: what is left of a framed body.                                 *)

Bytes == STRING \cup {"r", "n", "t", "y", "e"}
Clean == Seq(Bytes \ {"r"})

Framings ==
  {cs \in Seq([data : Seq(Bytes), sig : Clean]) :
     \A n \in 1 .. Len(cs) : Len(cs[n].data) \in 1 .. Len(Digits) - 1}

SizeLine(chunk) == <<Digits[Len(chunk.data) + 1]>> \o chunk.sig

LEMMA BytesKnown ==
  /\ {"r", "n", "t", "y", "e"} \subseteq Bytes
  /\ \A text \in Seq(STRING) : text \in Seq(Bytes)
  /\ Digits \in Seq(Bytes \ {"r"}) /\ Signatures \in Seq(Bytes \ {"r"})
<1>1. {"r", "n", "t", "y", "e"} \subseteq Bytes
  BY DEF Bytes
<1>2. STRING \subseteq Bytes /\ STRING \ {"r"} \subseteq Bytes \ {"r"}
  BY Zenon DEF Bytes
<1>3. ASSUME NEW S, NEW T, S \subseteq T PROVE \A s \in Seq(S) : s \in Seq(T)
  BY <1>3, SeqMonotonic
<1>4. Digits \in Seq(STRING \ {"r"}) /\ Signatures \in Seq(STRING \ {"r"})
  BY ServicesAssumption, Zenon
<1> QED
  BY <1>1, <1>2, <1>3, <1>4, Zenon

LEMMA CleanText == \A line \in Clean : line \in Seq(Bytes) /\ \A i \in 1 .. Len(line) : line[i] # "r"
<1> SUFFICES ASSUME NEW line \in Clean
             PROVE  line \in Seq(Bytes) /\ \A i \in 1 .. Len(line) : line[i] # "r"
  OBVIOUS
<1>1. line \in Seq(Bytes \ {"r"}) /\ Bytes \ {"r"} \subseteq Bytes
  BY DEF Clean
<1>2. line \in Seq(Bytes)
  BY <1>1, SeqMonotonic
<1>3. \A i \in 1 .. Len(line) : line[i] \in Bytes \ {"r"}
  BY <1>1, ElementOfSeq
<1> QED
  BY <1>2, <1>3

LEMMA CrlfText ==
  /\ Streams!CRLF \in Seq(Bytes) /\ Len(Streams!CRLF) = 2
  /\ Streams!CRLF[1] = "r" /\ Streams!CRLF[2] = "n"
<1>1. ASSUME NEW x \in Bytes, NEW y \in Bytes
      PROVE  <<x, y>> \in Seq(Bytes) /\ Len(<<x, y>>) = 2 /\ <<x, y>>[1] = x /\ <<x, y>>[2] = y
  OBVIOUS
<1>2. "r" \in Bytes /\ "n" \in Bytes
  BY BytesKnown
<1>3. Streams!CRLF = <<"r", "n">>
  BY Zenon DEF Streams!CRLF
<1> QED
  BY <1>1, <1>2, <1>3

LEMMA ChunkTypes ==
  ASSUME NEW chunk \in [data : Seq(Bytes), sig : Clean], Len(chunk.data) \in 1 .. Len(Digits) - 1
  PROVE  /\ SizeLine(chunk) \in Clean /\ SizeLine(chunk) \in Seq(Bytes)
         /\ chunk.data \in Seq(Bytes)
         /\ Len(SizeLine(chunk)) = 1 + Len(chunk.sig)
         /\ SizeLine(chunk)[1] = Digits[Len(chunk.data) + 1]
<1> DEFINE d == Digits[Len(chunk.data) + 1]
<1>1. d \in Bytes \ {"r"} /\ chunk.sig \in Seq(Bytes \ {"r"}) /\ chunk.data \in Seq(Bytes)
  <2>1. Digits \in Seq(Bytes \ {"r"}) /\ Len(chunk.data) + 1 \in 1 .. Len(Digits)
    BY ServicesAssumption, BytesKnown
  <2>2. d \in Bytes \ {"r"}
    BY <2>1, ElementOfSeq
  <2> QED
    BY <2>2 DEF Clean
<1> HIDE DEF d
<1>2. <<d>> \in Seq(Bytes \ {"r"}) /\ Len(<<d>>) = 1 /\ <<d>>[1] = d
  BY <1>1
<1>3. /\ <<d>> \o chunk.sig \in Seq(Bytes \ {"r"})
      /\ Len(<<d>> \o chunk.sig) = 1 + Len(chunk.sig) /\ (<<d>> \o chunk.sig)[1] = d
  <2>1. Len(chunk.sig) \in Nat
    BY <1>1
  <2> QED
    BY <1>1, <1>2, <2>1, ConcatProperties
<1>4. SizeLine(chunk) = <<d>> \o chunk.sig
  BY DEF SizeLine, d
<1> QED
  BY <1>1, <1>3, <1>4, CleanText DEF Clean, d

LEMMA Joined ==
  /\ \A x, y \in Seq(Bytes) : x \o y \in Seq(Bytes) /\ Len(x \o y) = Len(x) + Len(y)
  /\ \A x \in Seq(Bytes) : x \o <<>> = x /\ <<>> \o x = x
<1>1. \A x, y \in Seq(Bytes) : x \o y \in Seq(Bytes) /\ Len(x \o y) = Len(x) + Len(y)
  <2> SUFFICES ASSUME NEW x \in Seq(Bytes), NEW y \in Seq(Bytes)
               PROVE  x \o y \in Seq(Bytes) /\ Len(x \o y) = Len(x) + Len(y)
    OBVIOUS
  <2> QED
    BY ConcatProperties
<1>2. \A x \in Seq(Bytes) : x \o <<>> = x /\ <<>> \o x = x
  <2> SUFFICES ASSUME NEW x \in Seq(Bytes) PROVE x \o <<>> = x /\ <<>> \o x = x
    OBVIOUS
  <2> QED
    BY ConcatEmptySeq
<1> QED
  BY <1>1, <1>2

LEMMA Associative ==
  \A x, y, z \in Seq(Bytes) : (x \o y) \o z = x \o (y \o z)
<1> SUFFICES ASSUME NEW x \in Seq(Bytes), NEW y \in Seq(Bytes), NEW z \in Seq(Bytes)
             PROVE  (x \o y) \o z = x \o (y \o z)
  OBVIOUS
<1> QED
  BY ConcatAssociative

LEMMA FramedText ==
  ASSUME NEW chunk \in [data : Seq(Bytes), sig : Clean], Len(chunk.data) \in 1 .. Len(Digits) - 1,
         NEW rest \in Seq(Bytes)
  PROVE  /\ Streams!Framed(chunk) \in Seq(Bytes)
         /\ Streams!Framed(chunk) \o rest =
              SizeLine(chunk) \o (Streams!CRLF \o (chunk.data \o (Streams!CRLF \o rest)))
<1> DEFINE line == SizeLine(chunk)
           c == Streams!CRLF
           d == chunk.data
           framed == Streams!Framed(chunk)
<1>1. framed = ((line \o c) \o d) \o c
  BY DEF Streams!Framed, SizeLine
<1>2. SUFFICES framed \in Seq(Bytes) /\ framed \o rest = line \o (c \o (d \o (c \o rest)))
  OBVIOUS
<1>3. line \in Seq(Bytes) /\ c \in Seq(Bytes) /\ d \in Seq(Bytes)
  BY ChunkTypes, CrlfText
<1> HIDE DEF line, c, d, framed
<1>4. c \o rest \in Seq(Bytes)
  BY <1>3, Joined
<1>5. line \o c \in Seq(Bytes)
  BY <1>3, Joined
<1>6. (line \o c) \o d \in Seq(Bytes)
  BY <1>3, <1>5, Joined
<1>7. ((line \o c) \o d) \o c \in Seq(Bytes)
  BY <1>3, <1>6, Joined
<1>8. (((line \o c) \o d) \o c) \o rest = ((line \o c) \o d) \o (c \o rest)
  BY <1>3, <1>6, Associative
<1>9. ((line \o c) \o d) \o (c \o rest) = (line \o c) \o (d \o (c \o rest))
  BY <1>3, <1>4, <1>5, Associative
<1>10. PICK z \in Seq(Bytes) : z = d \o (c \o rest)
  BY <1>3, <1>4, Joined
<1>11. (line \o c) \o z = line \o (c \o z)
  BY <1>3, Associative
<1>12. framed \o rest = line \o (c \o z)
  BY <1>1, <1>8, <1>9, <1>10, <1>11, Zenon
<1> QED
  BY <1>1, <1>7, <1>10, <1>12, Zenon

LEMMA EndingText ==
  ASSUME NEW trailer \in BOOLEAN
  PROVE  /\ Streams!Ending(trailer) \in Seq(Bytes)
         /\ Streams!Ending(trailer) =
              <<Digits[1]>> \o (Streams!CRLF \o
                (IF trailer THEN <<"t">> \o (Streams!CRLF \o Streams!CRLF) ELSE Streams!CRLF))
<1> DEFINE d == <<Digits[1]>>
           c == Streams!CRLF
           t == <<"t">>
<1>1. d \in Seq(Bytes) /\ c \in Seq(Bytes) /\ t \in Seq(Bytes)
  <2>1. Digits \in Seq(Bytes \ {"r"}) /\ 1 \in 1 .. Len(Digits)
    BY ServicesAssumption, BytesKnown
  <2>2. Digits[1] \in Bytes
    BY <2>1, ElementOfSeq
  <2>3. "t" \in Bytes
    BY BytesKnown
  <2>4. <<Digits[1]>> \in Seq(Bytes) /\ <<"t">> \in Seq(Bytes)
    <3>1. ASSUME NEW x \in Bytes PROVE <<x>> \in Seq(Bytes)
      OBVIOUS
    <3> QED
      BY <2>2, <2>3, <3>1
  <2> QED
    BY <2>4, CrlfText
<1>2. Streams!Ending(trailer) = ((d \o c) \o (IF trailer THEN t \o c ELSE <<>>)) \o c
  BY DEF Streams!Ending
<1> HIDE DEF d, c, t
<1>3. /\ t \o c \in Seq(Bytes) /\ c \o c \in Seq(Bytes) /\ d \o c \in Seq(Bytes)
      /\ (t \o c) \o c = t \o (c \o c)
  BY <1>1, Joined, Associative
<1>4. CASE trailer
  <2>1. Streams!Ending(trailer) = ((d \o c) \o (t \o c)) \o c
    BY <1>2, <1>4
  <2>2. (t \o c) \o c \in Seq(Bytes)
    BY <1>1, <1>3, Joined
  <2>3. ((d \o c) \o (t \o c)) \o c = (d \o c) \o ((t \o c) \o c)
    BY <1>1, <1>3, Associative
  <2>4. (d \o c) \o ((t \o c) \o c) = d \o (c \o ((t \o c) \o c))
    BY <1>1, <2>2, Associative
  <2>5. d \o (c \o ((t \o c) \o c)) \in Seq(Bytes)
    BY <1>1, <2>2, Joined
  <2> QED
    BY <1>3, <1>4, <2>1, <2>3, <2>4, <2>5 DEF d, c, t
<1>5. CASE ~trailer
  <2>1. Streams!Ending(trailer) = ((d \o c) \o <<>>) \o c
    BY <1>2, <1>5
  <2>2. (d \o c) \o <<>> = d \o c /\ (d \o c) \o c = d \o (c \o c)
    BY <1>1, <1>3, Joined, Associative
  <2>3. d \o (c \o c) \in Seq(Bytes)
    BY <1>1, <1>3, Joined
  <2> QED
    BY <1>5, <2>1, <2>2, <2>3 DEF d, c, t
<1> QED
  BY <1>4, <1>5

(* A framed body is its first chunk and the rest, framed.                  *)
LEMMA Unframe ==
  ASSUME NEW cs \in Framings, NEW trailer \in BOOLEAN
  PROVE  /\ Streams!Frame(cs, trailer) \in Seq(Bytes)
         /\ cs = <<>> => Streams!Frame(cs, trailer) = Streams!Ending(trailer)
         /\ cs # <<>> => /\ Tail(cs) \in Framings
                         /\ Streams!Frame(cs, trailer) =
                              Streams!Framed(cs[1]) \o Streams!Frame(Tail(cs), trailer)
<1> DEFINE Pieces(ds) == [n \in 1 .. Len(ds) |-> Streams!Framed(ds[n])]
           end == Streams!Ending(trailer)
<1>1. end \in Seq(Bytes)
  BY EndingText
<1>2. \A ds : Streams!Frame(ds, trailer) = Streams!FlattenSeq(Pieces(ds)) \o end
  BY DEF Streams!Frame
<1>3. ASSUME NEW ds \in Framings
      PROVE  /\ Pieces(ds) \in Seq(Seq(Bytes)) /\ Len(Pieces(ds)) = Len(ds) /\ Len(ds) \in Nat
             /\ \A n \in 1 .. Len(ds) :
                  Pieces(ds)[n] = Streams!Framed(ds[n]) /\ Streams!Framed(ds[n]) \in Seq(Bytes)
  <2>1. /\ Len(ds) \in Nat
        /\ \A n \in 1 .. Len(ds) : /\ ds[n] \in [data : Seq(Bytes), sig : Clean]
                                    /\ Len(ds[n].data) \in 1 .. Len(Digits) - 1
    <3>1. /\ ds \in Seq([data : Seq(Bytes), sig : Clean])
          /\ \A n \in 1 .. Len(ds) : Len(ds[n].data) \in 1 .. Len(Digits) - 1
      BY DEF Framings
    <3>2. Len(ds) \in Nat /\ \A n \in 1 .. Len(ds) : ds[n] \in [data : Seq(Bytes), sig : Clean]
      BY <3>1, ElementOfSeq, LenProperties
    <3> QED
      BY <3>1, <3>2
  <2>2. \A n \in 1 .. Len(ds) : Streams!Framed(ds[n]) \in Seq(Bytes)
    <3> SUFFICES ASSUME NEW n \in 1 .. Len(ds) PROVE Streams!Framed(ds[n]) \in Seq(Bytes)
      OBVIOUS
    <3>1. PICK c \in [data : Seq(Bytes), sig : Clean] : c = ds[n]
      BY <2>1
    <3>2. Len(c.data) \in 1 .. Len(Digits) - 1 /\ <<>> \in Seq(Bytes)
      BY <2>1, <3>1
    <3> QED
      BY <3>1, <3>2, FramedText
  <2>3. Pieces(ds) \in [1 .. Len(ds) -> Seq(Bytes)]
    BY <2>2
  <2> QED
    BY <2>1, <2>2, <2>3
<1> HIDE DEF Pieces, end
<1>4. CASE cs = <<>>
  <2>1. Len(cs) = 0
    BY <1>4
  <2>2. Pieces(cs) = <<>>
    BY <1>3, <2>1
  <2>3. Streams!FlattenSeq(<<>>) = <<>>
    BY DEF Streams!FlattenSeq
  <2>4. Streams!Frame(cs, trailer) = <<>> \o end
    BY <1>2, <2>2, <2>3
  <2> QED
    BY <1>1, <1>4, <2>4, Joined DEF end
<1>5. CASE cs # <<>>
  <2> DEFINE tl == Tail(cs)
  <2>1. /\ tl \in Seq([data : Seq(Bytes), sig : Clean]) /\ Len(tl) = Len(cs) - 1
        /\ Len(cs) \in Nat \ {0}
        /\ \A n \in 1 .. Len(tl) : tl[n] = cs[n + 1]
    <3>1. cs \in Seq([data : Seq(Bytes), sig : Clean])
      BY DEF Framings
    <3> QED
      BY <1>5, <3>1, HeadTailProperties, EmptySeq
  <2> HIDE DEF tl
  <2>2. tl \in Framings
    <3>1. \A n \in 1 .. Len(cs) : Len(cs[n].data) \in 1 .. Len(Digits) - 1
      BY DEF Framings
    <3>2. \A n \in 1 .. Len(tl) : Len(tl[n].data) \in 1 .. Len(Digits) - 1
      <4> SUFFICES ASSUME NEW n \in 1 .. Len(tl) PROVE Len(tl[n].data) \in 1 .. Len(Digits) - 1
        OBVIOUS
      <4>1. n + 1 \in 1 .. Len(cs) /\ tl[n] = cs[n + 1]
        BY <2>1
      <4> QED
        BY <3>1, <4>1
    <3> QED
      BY <2>1, <3>2 DEF Framings
  <2> DEFINE x == Streams!Framed(cs[1])
             p == Pieces(cs)
             q == Pieces(tl)
  <2>3. /\ p \in Seq(Seq(Bytes)) /\ Len(p) = Len(cs)
        /\ \A n \in 1 .. Len(cs) : p[n] = Streams!Framed(cs[n])
        /\ x \in Seq(Bytes)
    <3>1. 1 \in 1 .. Len(cs)
      BY <2>1
    <3> QED
      BY <1>3, <3>1
  <2>4. /\ q \in Seq(Seq(Bytes)) /\ Len(q) = Len(tl)
        /\ \A n \in 1 .. Len(tl) : q[n] = Streams!Framed(tl[n])
    BY <1>3, <2>2
  <2>5. p[1] = x
    BY <2>1, <2>3
  <2>6. \A n \in 1 .. Len(tl) : q[n] = p[n + 1]
    <3> HIDE DEF p, q
    <3> SUFFICES ASSUME NEW n \in 1 .. Len(tl) PROVE q[n] = p[n + 1]
      OBVIOUS
    <3>1. PICK m \in 1 .. Len(cs) : m = n + 1
      BY <2>1
    <3>2. tl[n] = cs[m] /\ p[m] = Streams!Framed(cs[m]) /\ q[n] = Streams!Framed(tl[n])
      BY <2>1, <2>3, <2>4, <3>1
    <3> QED
      BY <3>1, <3>2
  <2> HIDE DEF p, q, x
  <2>7. /\ <<x>> \in Seq(Seq(Bytes)) /\ Len(<<x>>) = 1 /\ <<x>>[1] = x
        /\ <<x>> \o q \in Seq(Seq(Bytes)) /\ Len(<<x>> \o q) = 1 + Len(q)
        /\ \A i \in 1 .. 1 + Len(q) : (<<x>> \o q)[i] = IF i <= 1 THEN <<x>>[i] ELSE q[i - 1]
    <3>1. <<x>> \in Seq(Seq(Bytes)) /\ Len(<<x>>) = 1 /\ <<x>>[1] = x
      BY <2>3
    <3> QED
      BY <2>4, <3>1, ConcatProperties
  <2>8. p = <<x>> \o q
    <3>1. /\ Len(p) = Len(<<x>> \o q) /\ Len(p) = 1 + Len(q) /\ Len(q) \in Nat
          /\ \A i \in 2 .. Len(p) : q[i - 1] = p[i]
      <4>1. Len(p) = 1 + Len(q) /\ Len(q) \in Nat /\ Len(<<x>> \o q) = 1 + Len(q)
        <5>1. Len(p) = Len(cs) /\ Len(q) = Len(tl)
          BY <2>3, <2>4
        <5>2. Len(tl) = Len(cs) - 1 /\ Len(cs) \in Nat /\ Len(tl) \in Nat
          BY <2>1
        <5>3. Len(<<x>> \o q) = 1 + Len(q)
          BY <2>7
        <5> QED
          BY <5>1, <5>2, <5>3
      <4>2. ASSUME NEW i \in 2 .. Len(p) PROVE q[i - 1] = p[i]
        <5>1. PICK j \in 1 .. Len(tl) : j = i - 1
          BY <2>4, <4>1
        <5>2. q[j] = p[j + 1] /\ j + 1 = i
          BY <2>6, <4>1, <5>1
        <5> QED
          BY <5>1, <5>2
      <4> QED
        BY <4>1, <4>2
    <3>2. ASSUME NEW i \in 1 .. Len(p) PROVE p[i] = (<<x>> \o q)[i]
      <4>1. (<<x>> \o q)[i] = IF i <= 1 THEN <<x>>[i] ELSE q[i - 1]
        BY <2>7, <3>1
      <4>2. CASE i = 1
        BY <2>5, <2>7, <4>1, <4>2
      <4>3. CASE i # 1
        BY <3>1, <4>1, <4>3
      <4> QED
        BY <4>2, <4>3
    <3>3. PICK y \in Seq(Seq(Bytes)) : y = <<x>> \o q
      BY <2>7
    <3>4. Len(p) = Len(y) /\ \A i \in 1 .. Len(p) : p[i] = y[i]
      BY <3>1, <3>2, <3>3
    <3> QED
      BY <2>3, <3>3, <3>4, SeqEqual
  <2>9. Streams!FlattenSeq(p) = x \o Streams!FlattenSeq(q)
    BY <2>3, <2>4, <2>8, FlattenCons
  <2>10. Streams!FlattenSeq(q) \in Seq(Bytes) /\ Streams!FlattenSeq(p) \in Seq(Bytes)
    BY <2>3, <2>4, FlattenAppend
  <2>11. (x \o Streams!FlattenSeq(q)) \o end = x \o (Streams!FlattenSeq(q) \o end)
    BY <1>1, <2>3, <2>10, Associative
  <2>12. Streams!Frame(cs, trailer) = x \o Streams!Frame(tl, trailer)
    BY <1>2, <2>9, <2>11 DEF p, q
  <2>13. Streams!Frame(cs, trailer) \in Seq(Bytes)
    <3>1. Streams!FlattenSeq(p) \o end \in Seq(Bytes)
      BY <1>1, <2>10, Joined
    <3> QED
      BY <1>2, <3>1 DEF p
  <2> QED
    BY <1>5, <2>2, <2>12, <2>13 DEF x, tl
<1> QED
  BY <1>1, <1>4, <1>5 DEF end
----------------------------------------------------------------------------
(* Streams: what the decoder reads.                                        *)

Same(b, w, x, y) == b \o w = x \o y
Cut(b, n, w, x, y) ==
  /\ SubSeq(b, 1, n) = x
  /\ SubSeq(b, n + 1, Len(b)) \in Seq(Bytes) /\ SubSeq(b, n + 1, Len(b)) \o w = y

(* Whatever comes first is read first, once all of it is in the buffer.    *)
LEMMA Take ==
  ASSUME NEW b \in Seq(Bytes), NEW w \in Seq(Bytes), NEW x \in Seq(Bytes), NEW y \in Seq(Bytes),
         Same(b, w, x, y), Len(x) <= Len(b)
  PROVE  Cut(b, Len(x), w, x, y)
<1> DEFINE n == Len(x)
           p == SubSeq(b, 1, n)
           q == SubSeq(b, n + 1, Len(b))
<1>0. b \o w = x \o y
  BY DEF Same
<1>1. n \in Nat /\ Len(b) \in Nat /\ Len(b) - n \in Nat /\ n <= Len(b) /\ Len(w) \in Nat
  OBVIOUS
<1>2. Len(b \o w) = Len(b) + Len(w) /\ \A i \in 1 .. Len(b) : (b \o w)[i] = b[i]
  BY <1>1, ConcatProperties
<1>3. Len(x \o y) = n + Len(y) /\ \A i \in 1 .. n : (x \o y)[i] = x[i]
  BY <1>1, ConcatProperties
<1> HIDE DEF n
<1>4. p \in Seq(Bytes) /\ Len(p) = n /\ \A i \in 1 .. n : p[i] = b[i]
  <2>1. /\ 0 \in Nat /\ n \in Nat /\ 0 <= n /\ n <= Len(b) /\ b \in Seq(Bytes)
    BY <1>1
  <2>2. /\ SubSeq(b, 0 + 1, n) \in Seq(Bytes) /\ Len(SubSeq(b, 0 + 1, n)) = n - 0
        /\ \A i \in 1 .. n - 0 : SubSeq(b, 0 + 1, n)[i] = b[0 + i]
    BY <2>1, Span
  <2> QED
    BY <1>1, <2>2
<1>5. p = x
  <2>1. \A i \in 1 .. n : p[i] = x[i]
    BY <1>0, <1>1, <1>2, <1>3, <1>4
  <2> HIDE DEF p
  <2>2. Len(p) = Len(x) /\ \A i \in 1 .. Len(p) : p[i] = x[i]
    BY <1>4, <2>1 DEF n
  <2> QED
    BY <1>4, <2>2, SeqEqual
<1>6. q \in Seq(Bytes) /\ Len(q) = Len(b) - n /\ \A i \in 1 .. Len(b) - n : q[i] = b[n + i]
  <2>1. Len(b) \in Nat /\ n \in Nat /\ n <= Len(b) /\ Len(b) <= Len(b) /\ b \in Seq(Bytes)
    BY <1>1
  <2> QED
    BY <2>1, Span
<1>7. b = p \o q
  <2>1. 1 \in 1 .. Len(b) + 1 /\ n \in 1 - 1 .. Len(b) /\ Len(b) \in n .. Len(b)
    BY <1>1
  <2>2. p \o q = SubSeq(b, 1, Len(b))
    BY <2>1, ConcatAdjacentSubSeq
  <2>3. SubSeq(b, 1, Len(b)) = b
    BY SubSeqFull
  <2> QED
    BY <2>2, <2>3
<1> HIDE DEF p, q
<1>8. (p \o q) \o w = p \o (q \o w)
  BY <1>4, <1>6, Associative
<1>9. q \o w \in Seq(Bytes)
  BY <1>6, Joined
<1>10. x \o (q \o w) = x \o y
  BY <1>0, <1>5, <1>7, <1>8
<1>11. q \o w = y
  <2>1. PICK z \in Seq(Bytes) : z = q \o w
    BY <1>9
  <2>2. \A S : \A s, t, v \in Seq(S) : s \o t = s \o v => t = v
    BY ConcatSimplifications
  <2>3. x \o z = x \o y
    BY <1>10, <2>1
  <2>4. z = y
    BY <2>2, <2>3
  <2> QED
    BY <2>1, <2>4
<1> QED
  BY <1>5, <1>6, <1>11 DEF n, p, q, Cut

(* The first line is the one that was framed first.                        *)
LEMMA LineRead ==
  ASSUME NEW line \in Clean, NEW y \in Seq(Bytes), dec.buf \in Seq(Bytes), wire \in Seq(Bytes),
         dec.buf \o wire = line \o (Streams!CRLF \o y), Streams!HasLine
  PROVE  /\ Streams!LineLength = Len(line) /\ Streams!Line = line
         /\ Streams!Rest(Streams!LineLength + 2) \in Seq(Bytes)
         /\ Streams!Rest(Streams!LineLength + 2) \o wire = y
<1> DEFINE b == dec.buf
           c == Streams!CRLF
           k == Len(line)
           ends == Streams!LineEnds
           z == line \o (c \o y)
<1>1. /\ b \in Seq(Bytes) /\ line \in Seq(Bytes) /\ c \in Seq(Bytes) /\ Len(c) = 2
      /\ c[1] = "r" /\ c[2] = "n" /\ \A i \in 1 .. k : line[i] # "r"
      /\ Len(b) \in Nat /\ k \in Nat /\ Len(y) \in Nat /\ Len(wire) \in Nat
  BY CrlfText, CleanText
<1>0. b \o wire = z
  OBVIOUS
<1>n. Len(b) \in Nat /\ k \in Nat /\ Len(y) \in Nat /\ Len(wire) \in Nat /\ k = Len(line)
  BY <1>1
<1>5. \A i \in Int : i \in ends <=> i \in 1 .. Len(b) - 1 /\ b[i] = "r" /\ b[i + 1] = "n"
  <2> SUFFICES ASSUME NEW i \in 1 .. Len(b) - 1
               PROVE  SubSeq(b, i, i + 1) = c <=> b[i] = "r" /\ b[i + 1] = "n"
    BY DEF Streams!LineEnds
  <2> HIDE DEF b, c
  <2>1. \A j \in i .. i + 1 : b[j] \in Bytes
    BY <1>1
  <2>2. /\ SubSeq(b, i, i + 1) \in Seq(Bytes)
        /\ Len(SubSeq(b, i, i + 1)) = IF i <= i + 1 THEN i + 1 - i + 1 ELSE 0
        /\ \A j \in 1 .. i + 1 - i + 1 : SubSeq(b, i, i + 1)[j] = b[i + j - 1]
    <3>1. i \in Int /\ i + 1 \in Int
      OBVIOUS
    <3> QED
      BY <2>1, <3>1, SubSeqProperties
  <2>3. PICK s \in Seq(Bytes) : s = SubSeq(b, i, i + 1)
    BY <2>2
  <2>4. Len(s) = 2 /\ s[1] = b[i] /\ s[2] = b[i + 1]
    BY <1>1, <2>2, <2>3
  <2>5. s = c <=> s[1] = c[1] /\ s[2] = c[2]
    <3>1. ASSUME s[1] = c[1], s[2] = c[2] PROVE s = c
      <4>1. c \in Seq(Bytes) /\ Len(s) = Len(c) /\ \A j \in 1 .. Len(s) : s[j] = c[j]
        <5>1. \A j \in 1 .. Len(s) : j = 1 \/ j = 2
          BY <2>4
        <5> QED
          BY <1>1, <2>4, <3>1, <5>1
      <4> QED
        BY <4>1, SeqEqual
    <3> QED
      BY <3>1
  <2> QED
    BY <1>1, <2>3, <2>4, <2>5
<1>6. \A i \in ends : i \in 1 .. Len(b) - 1
  BY DEF Streams!LineEnds
<1> HIDE DEF b, c, k, ends
<1>2. /\ c \o y \in Seq(Bytes) /\ Len(c \o y) = 2 + Len(y)
      /\ (c \o y)[1] = "r" /\ (c \o y)[2] = "n"
  <2>1. /\ c \o y \in Seq(Bytes) /\ Len(c \o y) = Len(c) + Len(y)
        /\ \A i \in 1 .. Len(c) + Len(y) : (c \o y)[i] = IF i <= Len(c) THEN c[i] ELSE y[i - Len(c)]
    BY <1>1, ConcatProperties
  <2> QED
    BY <1>1, <2>1
<1>3. /\ z \in Seq(Bytes) /\ Len(z) = k + 2 + Len(y)
      /\ \A i \in 1 .. k : z[i] # "r"
      /\ z[k + 1] = "r" /\ z[k + 2] = "n"
  <2>1. PICK cy \in Seq(Bytes) : cy = c \o y
    BY <1>2
  <2>2. /\ z \in Seq(Bytes) /\ Len(z) = Len(line) + Len(cy)
        /\ \A i \in 1 .. Len(line) + Len(cy) : z[i] = IF i <= Len(line) THEN line[i] ELSE cy[i - Len(line)]
    BY <1>1, <2>1, ConcatProperties
  <2> HIDE DEF z
  <2>3. Len(cy) = 2 + Len(y)
    BY <1>2, <2>1
  <2>4. Len(z) = k + 2 + Len(y)
    BY <1>n, <2>2, <2>3
  <2>5. \A i \in 1 .. k : z[i] = line[i]
    BY <1>n, <2>2, <2>3
  <2>6. z[k + 1] = cy[1] /\ z[k + 2] = cy[2]
    <3>1. k + 1 \in 1 .. k + Len(cy) /\ k + 2 \in 1 .. k + Len(cy) /\ ~(k + 1 <= k) /\ ~(k + 2 <= k)
          /\ k + 1 - k = 1 /\ k + 2 - k = 2
      BY <1>n, <2>3
    <3> QED
      BY <1>n, <2>2, <3>1
  <2> QED
    BY <1>1, <1>2, <2>1, <2>2, <2>4, <2>5, <2>6
<1>4. b \o wire = z /\ \A i \in 1 .. Len(b) : z[i] = b[i]
  <2>1. \A i \in 1 .. Len(b) + Len(wire) : (b \o wire)[i] = IF i <= Len(b) THEN b[i] ELSE wire[i - Len(b)]
    BY <1>1, ConcatProperties
  <2>2. b \o wire = z
    BY <1>0
  <2> HIDE DEF z
  <2>3. \A i \in 1 .. Len(b) : z[i] = b[i]
    BY <1>1, <2>1, <2>2
  <2> QED
    BY <2>2, <2>3
<1> HIDE DEF z
<1>7. \A i \in ends : i >= k + 1
  <2> SUFFICES ASSUME NEW i \in ends PROVE i >= k + 1
    OBVIOUS
  <2>1. i \in 1 .. Len(b) - 1 /\ b[i] = "r"
    BY <1>5, <1>6
  <2>2. z[i] = "r" /\ i \in Int
    <3>1. i \in 1 .. Len(b)
      BY <1>n, <2>1
    <3> QED
      BY <1>4, <2>1, <3>1
  <2>3. i \notin 1 .. k
    BY <1>3, <2>2
  <2> QED
    BY <1>1, <2>1, <2>3
<1>8. k + 1 \in ends /\ k + 2 <= Len(b)
  <2>1. PICK i \in ends : TRUE
    BY DEF Streams!HasLine, ends
  <2>2. k + 2 <= Len(b)
    BY <1>1, <1>6, <1>7, <2>1
  <2>3. b[k + 1] = "r" /\ b[k + 2] = "n" /\ k + 1 \in 1 .. Len(b) - 1
    <3>1. k + 1 \in 1 .. Len(b) /\ k + 2 \in 1 .. Len(b)
      BY <1>1, <2>2
    <3>2. z[k + 1] = b[k + 1] /\ z[k + 2] = b[k + 2]
      BY <1>4, <3>1
    <3> QED
      BY <1>n, <1>3, <2>2, <3>2
  <2>4. PICK j \in Int : j = k + 1
    BY <1>1
  <2>5. j \in 1 .. Len(b) - 1 /\ b[j] = "r" /\ b[j + 1] = "n"
    BY <1>1, <2>3, <2>4
  <2> QED
    BY <1>5, <2>2, <2>4, <2>5
<1>9. Streams!LineLength = k
  <2> DEFINE first == CHOOSE i \in ends : \A j \in ends : i <= j
  <2>1. \E i \in ends : \A j \in ends : i <= j
    <3>1. \A j \in ends : k + 1 <= j
      BY <1>1, <1>6, <1>7
    <3> QED
      BY <1>8, <3>1
  <2>2. first \in ends /\ \A j \in ends : first <= j
    BY <2>1
  <2>3. Streams!LineLength = first - 1
    BY DEF Streams!LineLength, ends
  <2> HIDE DEF first
  <2>4. first \in Int /\ first >= k + 1 /\ first <= k + 1
    BY <1>6, <1>7, <1>8, <2>2
  <2> QED
    BY <1>1, <2>3, <2>4
<1> DEFINE lc == line \o c
<1>10. lc \in Seq(Bytes) /\ Len(lc) = k + 2
  <2>1. lc \in Seq(Bytes) /\ Len(lc) = Len(line) + Len(c)
    BY <1>1, Joined
  <2> HIDE DEF lc
  <2> QED
    BY <1>1, <1>n, <2>1
<1>11. b \o wire = lc \o y
  BY <1>1, <1>4, Associative DEF z
<1> HIDE DEF lc
<1>12. Cut(b, Len(lc), wire, lc, y)
  <2>1. Len(lc) <= Len(b)
    BY <1>8, <1>10
  <2>2. b \in Seq(Bytes) /\ wire \in Seq(Bytes) /\ lc \in Seq(Bytes) /\ Same(b, wire, lc, y)
    BY <1>1, <1>10, <1>11 DEF Same
  <2> QED
    BY <2>1, <2>2, Take
<1>13. SubSeq(b, 1, k) = line
  <2>1. PICK cy \in Seq(Bytes) : cy = c \o y
    BY <1>2
  <2>2. b \in Seq(Bytes) /\ wire \in Seq(Bytes) /\ line \in Seq(Bytes) /\ Same(b, wire, line, cy)
    BY <1>1, <1>4, <2>1 DEF Same, z
  <2>3. Len(line) <= Len(b)
    BY <1>n, <1>8
  <2>4. Cut(b, Len(line), wire, line, cy)
    BY <2>2, <2>3, Take
  <2> QED
    BY <1>n, <2>4 DEF Cut
<1> QED
  BY <1>9, <1>10, <1>12, <1>13 DEF Streams!Line, Streams!Rest, b, k, Cut
----------------------------------------------------------------------------
(* Streams: the GET.                                                       *)

Smallest(a, b) == IF a <= b THEN a ELSE b

LEMMA RangeParsed ==
  ASSUME NEW range \in Streams!Header, NEW size \in Nat, NEW spec,
         spec = Streams!ParseRangeHeader(range, size), spec.kind # "invalid"
  PROVE  /\ spec.kind \in {"full", "partial"}
         /\ spec.start \in 0 .. size /\ spec.end \in -1 .. size - 1 /\ spec.start <= spec.end + 1
         /\ spec.kind = "full" => spec.start = 0 /\ spec.end = size - 1
         /\ spec.kind = "partial" => spec.start <= spec.end
         /\ \A i \in 0 .. size - 1 :
              i \in spec.start .. spec.end <=>
                CASE range.from = Streams!Absent /\ range.to = Streams!Absent -> TRUE
                  [] range.from = Streams!Absent /\ range.to # Streams!Absent ->
                       i >= size - range.to
                  [] range.from # Streams!Absent ->
                       range.from <= i /\ (range.to = Streams!Absent \/ i <= range.to)
<1> DEFINE from == range.from
           to == range.to
<1>1. from \in Nat \cup {-1} /\ to \in Nat \cup {-1}
  BY ServicesAssumption DEF Streams!Header, Streams!Absent
<1>2. CASE from = -1 /\ to = -1
  <2>1. spec = [kind |-> "full", start |-> 0, end |-> size - 1]
    BY <1>2 DEF Streams!ParseRangeHeader, Streams!Absent
  <2>2. spec.kind = "full" /\ spec.start = 0 /\ spec.end = size - 1
    BY <2>1
  <2> QED
    BY <1>2, <2>2 DEF Streams!Absent
<1>3. CASE from = -1 /\ to # -1
  <2>1. to # 0 /\ size # 0
    BY <1>3 DEF Streams!ParseRangeHeader, Streams!Absent
  <2>2. spec = [kind |-> "partial", start |-> size - Streams!Smaller(to, size), end |-> size - 1]
    BY <1>3, <2>1 DEF Streams!ParseRangeHeader, Streams!Absent
  <2>3. /\ spec.kind = "partial" /\ spec.end = size - 1
        /\ spec.start = IF to <= size THEN size - to ELSE 0
    BY <1>1, <1>3, <2>2 DEF Streams!Smaller
  <2>4. /\ spec.start \in 0 .. size - 1
        /\ \A i \in 0 .. size - 1 : i >= spec.start <=> i >= size - to
    BY <1>1, <1>3, <2>1, <2>3
  <2> QED
    BY <1>3, <2>1, <2>3, <2>4 DEF Streams!Absent
<1>4. CASE from # -1
  <2> DEFINE end == IF to = -1 THEN size - 1 ELSE Streams!Smaller(to, size - 1)
  <2>1. spec = IF from >= size \/ from > end
               THEN [kind |-> "invalid", start |-> 0, end |-> 0]
               ELSE [kind |-> "partial", start |-> from, end |-> end]
    BY <1>4 DEF Streams!ParseRangeHeader, Streams!Absent
  <2>2. /\ end \in Int /\ end <= size - 1
        /\ \A i \in 0 .. size - 1 : i <= end <=> (to = -1 \/ i <= to)
    BY <1>1 DEF Streams!Smaller
  <2> HIDE DEF end
  <2>3. /\ from < size /\ from <= end
        /\ spec.kind = "partial" /\ spec.start = from /\ spec.end = end
    BY <1>1, <1>4, <2>1, <2>2
  <2>4. /\ spec.start \in 0 .. size /\ spec.end \in -1 .. size - 1 /\ spec.start <= spec.end
    BY <1>1, <1>4, <2>2, <2>3
  <2>5. \A i \in 0 .. size - 1 :
          i \in spec.start .. spec.end <=> from <= i /\ (to = -1 \/ i <= to)
    BY <1>1, <1>4, <2>2, <2>3
  <2> QED
    BY <1>4, <2>3, <2>4, <2>5 DEF Streams!Absent
<1> QED
  BY <1>1, <1>2, <1>3, <1>4

(* What is known of the answer to a GET of the object o.                   *)
Replies ==
  [status : {200, 206}, range : Streams!Header, start : Nat, end : Int, length : Int,
   sliced : BOOLEAN, pos : Nat, sent : Seq(Bytes), open : BOOLEAN]

Spans(o) ==
  /\ reply.end <= Len(o) - 1 /\ reply.start <= reply.end + 1 /\ reply.start <= Len(o)
  /\ reply.length = reply.end - reply.start + 1
  /\ Streams!Asked(reply.range) = reply.start .. reply.end

Sends(o) ==
  IF reply.sliced
  THEN /\ reply.start <= reply.end /\ reply.pos <= Len(o)
       /\ reply.open <=> reply.pos <= reply.end
       /\ reply.sent = SubSeq(o, reply.start + 1, Smallest(reply.pos, reply.end + 1))
  ELSE /\ reply.start <= reply.pos /\ reply.pos <= reply.end + 1
       /\ reply.sent = SubSeq(o, reply.start + 1, reply.pos)
       /\ ~reply.open => reply.pos = reply.end + 1

ReplySound ==
  /\ reply = Streams!NoReply \/ outcome = "stored"
  /\ reply.status \in {200, 206} =>
       reply \in Replies /\ Spans(Streams!Object) /\ Sends(Streams!Object)
  /\ reply.status \in {0, 200, 206, 416, 500}

LEMMA RangeIsServed ==
  ASSUME ReplySound, Streams!Object \in Seq(Bytes)
  PROVE  Streams!RangeServed
<1> DEFINE o == Streams!Object
           asked == Streams!Asked(reply.range)
           first == CHOOSE i \in asked : \A j \in asked : i <= j
           bytes == [n \in 1 .. Cardinality(asked) |-> o[first + n]]
           s == reply.start
           e == reply.end
<1> SUFFICES ASSUME reply.status \in {200, 206}
             PROVE  /\ reply.length = Cardinality(asked)
                    /\ Streams!IsPrefix(reply.sent, bytes)
                    /\ ~reply.open => reply.sent = bytes
  BY SameCardinality DEF Streams!RangeServed
<1>1. /\ reply \in Replies /\ Spans(o) /\ Sends(o) /\ o \in Seq(Bytes) /\ Len(o) \in Nat
      /\ s \in Nat /\ e \in Int /\ reply.pos \in Nat /\ asked = s .. e
  BY DEF ReplySound, Replies, Spans
<1>2. s <= e + 1 /\ e <= Len(o) - 1 /\ reply.length = e - s + 1
  BY <1>1 DEF Spans
<1> HIDE DEF s, e
<1>3. Cardinality(asked) = e - s + 1
  <2>1. Cardinality(s .. e) = IF s > e THEN 0 ELSE e - s + 1
    BY <1>1, FS_Interval
  <2>2. Cardinality(s .. e) = e - s + 1
    BY <1>1, <1>2, <2>1
  <2> QED
    BY <1>1, <2>2
<1>4. asked # {} => first = s
  <2> SUFFICES ASSUME asked # {} PROVE first = s
    OBVIOUS
  <2>1. s \in asked /\ \A j \in asked : s <= j
    BY <1>1
  <2>2. \A i \in asked : (\A j \in asked : i <= j) => i = s
    BY <1>1, <2>1
  <2> HIDE DEF asked
  <2> QED
    BY <2>1, <2>2
<1> HIDE DEF o, first, asked
<1>a. ASSUME NEW n \in Nat, s <= n, n <= e + 1
      PROVE  /\ SubSeq(o, s + 1, n) \in Seq(Bytes) /\ Len(SubSeq(o, s + 1, n)) = n - s
             /\ \A i \in 1 .. n - s : SubSeq(o, s + 1, n)[i] = o[s + i]
  <2>1. o \in Seq(Bytes) /\ s \in Nat /\ n <= Len(o)
    BY <1>1, <1>2, <1>a
  <2> QED
    BY <1>a, <2>1, Span
<1>c. PICK z \in Nat : z = e + 1
  BY <1>1, <1>2
<1>b. /\ SubSeq(o, s + 1, z) \in Seq(Bytes) /\ Len(SubSeq(o, s + 1, z)) = z - s
      /\ \A i \in 1 .. z - s : SubSeq(o, s + 1, z)[i] = o[s + i]
  <2>1. s <= z /\ z <= e + 1
    BY <1>1, <1>2, <1>c
  <2> QED
    BY <1>a, <2>1
<1>5. bytes = SubSeq(o, s + 1, z)
  <2>1. CASE e = s - 1
    <3>1. bytes = <<>>
      BY <1>1, <1>3, <2>1
    <3>2. z < s + 1 /\ s + 1 \in Int /\ z \in Int
      BY <1>1, <1>c, <2>1
    <3> QED
      BY <3>1, <3>2, SubSeqEmpty
  <2>2. CASE s <= e
    <3>1. first = s
      <4>1. s \in s .. e
        BY <1>1, <2>2
      <4> QED
        BY <1>1, <1>4, <4>1
    <3>2. bytes = [n \in 1 .. z - s |-> o[s + n]]
      BY <1>1, <1>3, <1>c, <3>1
    <3> HIDE DEF bytes
    <3>3. /\ SubSeq(o, s + 1, z) \in Seq(Bytes) /\ Len(SubSeq(o, s + 1, z)) = z - s
          /\ \A i \in 1 .. z - s : SubSeq(o, s + 1, z)[i] = o[s + i]
      BY <1>b
    <3> DEFINE x == SubSeq(o, s + 1, z)
    <3>4. x \in [1 .. z - s -> Bytes]
      <4>1. x \in Seq(Bytes) /\ Len(x) = z - s
        BY <3>3
      <4> HIDE DEF x
      <4> QED
        BY <4>1
    <3>5. x = [n \in 1 .. z - s |-> x[n]]
      BY <3>4
    <3>6. \A n \in 1 .. z - s : x[n] = o[s + n]
      BY <3>3
    <3> HIDE DEF x
    <3>7. x = [n \in 1 .. z - s |-> o[s + n]]
      BY <3>5, <3>6
    <3> QED
      BY <3>2, <3>7 DEF x
  <2> QED
    BY <1>1, <1>2, <2>1, <2>2
<1> HIDE DEF bytes
<1>6. \E p \in s .. e + 1 : /\ reply.sent = SubSeq(o, s + 1, p)
                            /\ ~reply.open => p = e + 1
  <2>1. CASE ~reply.sliced
    BY <1>1, <1>2, <2>1 DEF Sends, s, e
  <2>2. CASE reply.sliced
    <3>1. /\ s <= e /\ reply.pos <= Len(o) /\ (reply.open <=> reply.pos <= e)
          /\ reply.sent = SubSeq(o, s + 1, Smallest(reply.pos, e + 1))
      BY <1>1, <2>2 DEF Sends, s, e
    <3>2. CASE reply.pos < s
      <4>1. reply.sent = SubSeq(o, s + 1, reply.pos) /\ reply.open
        BY <1>1, <3>1, <3>2 DEF Smallest
      <4>2. SubSeq(o, s + 1, reply.pos) = <<>> /\ SubSeq(o, s + 1, s) = <<>>
        BY <1>1, <3>2, SubSeqEmpty
      <4>3. s \in s .. e + 1
        BY <1>1, <1>2
      <4>4. reply.sent = SubSeq(o, s + 1, s)
        BY <4>1, <4>2
      <4> QED
        BY <4>1, <4>3, <4>4
    <3>3. CASE reply.pos >= s
      <4> DEFINE q == Smallest(reply.pos, e + 1)
      <4>1. q \in s .. e + 1 /\ (~reply.open => q = e + 1)
        BY <1>1, <3>1, <3>3 DEF Smallest
      <4> QED
        BY <3>1, <4>1
    <3>4. reply.pos < s \/ reply.pos >= s
      BY <1>1
    <3> QED
      BY <3>2, <3>3, <3>4
  <2> QED
    BY <2>1, <2>2
<1>7. PICK p \in s .. e + 1 : /\ reply.sent = SubSeq(o, s + 1, p)
                              /\ ~reply.open => p = e + 1
  BY <1>6
<1>8. Streams!IsPrefix(reply.sent, bytes)
  <2>1. /\ SubSeq(o, s + 1, p) \in Seq(Bytes) /\ Len(SubSeq(o, s + 1, p)) = p - s
        /\ \A i \in 1 .. p - s : SubSeq(o, s + 1, p)[i] = o[s + i]
    BY <1>1, <1>a
  <2>2. /\ SubSeq(o, s + 1, z) \in Seq(Bytes) /\ Len(SubSeq(o, s + 1, z)) = z - s
        /\ \A i \in 1 .. z - s : SubSeq(o, s + 1, z)[i] = o[s + i]
    BY <1>b
  <2> DEFINE x == SubSeq(o, s + 1, p)
             y == SubSeq(o, s + 1, z)
  <2>3. /\ x \in Seq(Bytes) /\ y \in Seq(Bytes) /\ Len(x) <= Len(y) /\ Len(x) \in Nat
        /\ \A i \in 1 .. Len(x) : x[i] = y[i]
    <3>1. p - s \in Nat /\ p - s <= z - s
      BY <1>1, <1>c
    <3> QED
      BY <2>1, <2>2, <3>1
  <2> HIDE DEF x, y
  <2>4. SubSeq(x, 1, Len(x)) = SubSeq(y, 1, Len(x))
    BY <2>3
  <2> QED
    BY <1>5, <1>7, <2>3, <2>4 DEF Streams!IsPrefix, x, y
<1> QED
  BY <1>1, <1>2, <1>3, <1>5, <1>7, <1>8, <1>c DEF s, e
----------------------------------------------------------------------------
(* Streams: the inductive invariant.                                       *)

Uploads == [body : Seq(Seq(Bytes)), signed : BOOLEAN, trailer : BOOLEAN, damaged : BOOLEAN]

Decoders ==
  [buf : Seq(Bytes), state : {"size", "data", "crlf", "trailer", "done"}, size : 0 .. MaxChunk,
   sig : Seq(Bytes), data : Seq(Bytes), out : Seq(Seq(Bytes)), checksum : BOOLEAN]

Bounded(d) == Len(d.data) <= MaxChunk /\ \A n \in 1 .. Len(d.out) : Len(d.out[n]) \in 1 .. MaxChunk

StreamTypes ==
  /\ upload \in Uploads /\ wire \in Seq(Bytes)
  /\ dec \in Decoders /\ Bounded(dec)
  /\ outcome \in {"none", "decoded", "stored", "rejected", "lost"}

Trailers ==
  IF upload.trailer /\ ~dec.checksum THEN <<"t">> \o (Streams!CRLF \o Streams!CRLF) ELSE Streams!CRLF

(* The bytes to come, in the buffer and on the wire, are what was framed,  *)
(* of which the chunks rest are left.                                      *)
ToCome(rest) ==
  /\ dec.state = "size" =>
       dec.buf \o wire = Streams!Frame(rest, upload.trailer)
  /\ dec.state = "data" =>
       /\ rest # <<>> /\ dec.size = Len(rest[1].data)
       /\ dec.buf \o wire = rest[1].data \o (Streams!CRLF \o Streams!Frame(Tail(rest), upload.trailer))
  /\ dec.state = "crlf" =>
       /\ rest # <<>> /\ dec.data = rest[1].data
       /\ dec.buf \o wire = Streams!CRLF \o Streams!Frame(Tail(rest), upload.trailer)
  /\ dec.state = "trailer" =>
       rest = <<>> /\ dec.buf \o wire = Trailers
  /\ dec.state = "done" =>
       rest = <<>> /\ (dec.checksum <=> upload.trailer)
  /\ dec.checksum => upload.trailer
  /\ dec.checksum => dec.state \in {"trailer", "done"}

(* The chunks passed on are the client's, if they are signed or arrive as  *)
(* they were sent; and then those left are the client's too.               *)
Begun ==
  /\ Len(dec.out) <= Len(upload.body)
  /\ \A n \in 1 .. Len(dec.out) : dec.out[n] = upload.body[n]

Passed(rest) ==
  /\ upload.signed => Begun
  /\ ~upload.damaged =>
       /\ Begun /\ Len(upload.body) = Len(dec.out) + Len(rest)
       /\ \A n \in 1 .. Len(rest) : rest[n].data = upload.body[Len(dec.out) + n]

Coming == \E rest \in Framings : ToCome(rest) /\ Passed(rest)

Concluded ==
  /\ outcome \in {"decoded", "stored"} => dec.state = "done"
  /\ outcome = "stored" /\ dec.checksum =>
       Streams!FlattenSeq(dec.out) = Streams!FlattenSeq(upload.body)

StreamInv == StreamTypes /\ Coming /\ Concluded /\ ReplySound

LEMMA Prefix ==
  ASSUME NEW S, NEW s \in Seq(S), NEW t \in Seq(S), Len(s) <= Len(t),
         \A n \in 1 .. Len(s) : s[n] = t[n]
  PROVE  Streams!IsPrefix(s, t)
<1>1. SubSeq(s, 1, Len(s)) = SubSeq(t, 1, Len(s))
  OBVIOUS
<1> QED
  BY <1>1 DEF Streams!IsPrefix

(* What the checks ask of the streams follows.                             *)
LEMMA StreamInvHolds ==
  ASSUME StreamInv
  PROVE  Streams!TypeOK /\ Streams!OnlySentPayload /\ Streams!RangeServed
<1>1. /\ dec \in Decoders /\ upload \in Uploads /\ Bounded(dec)
      /\ dec.out \in Seq(Seq(Bytes)) /\ upload.body \in Seq(Seq(Bytes))
  BY DEF StreamInv, StreamTypes, Decoders, Uploads
<1>2. Streams!TypeOK
  BY DEF StreamInv, StreamTypes, Streams!TypeOK, ReplySound, Bounded, Decoders
<1>3. PICK rest \in Framings : ToCome(rest) /\ Passed(rest)
  BY DEF StreamInv, Coming
<1>4. ASSUME upload.signed \/ ~upload.damaged PROVE Streams!IsPrefix(dec.out, upload.body)
  <2>1. Len(dec.out) <= Len(upload.body) /\ \A n \in 1 .. Len(dec.out) : dec.out[n] = upload.body[n]
    BY <1>3, <1>4 DEF Passed, Begun
  <2> QED
    BY <1>1, <2>1, Prefix
<1>5. ASSUME outcome = "stored", upload.trailer \/ ~upload.damaged
      PROVE  Streams!FlattenSeq(dec.out) = Streams!FlattenSeq(upload.body)
  <2>1. dec.state = "done"
    BY <1>5 DEF StreamInv, Concluded
  <2>2. rest = <<>> /\ (dec.checksum <=> upload.trailer)
    BY <1>3, <2>1 DEF ToCome
  <2>3. CASE upload.trailer
    BY <1>5, <2>2, <2>3 DEF StreamInv, Concluded
  <2>4. CASE ~upload.damaged
    <3>1. Begun /\ Len(upload.body) = Len(dec.out) + Len(rest) /\ Len(rest) = 0
      BY <1>3, <2>2, <2>4 DEF Passed
    <3>2. Len(dec.out) = Len(upload.body) /\ \A n \in 1 .. Len(dec.out) : dec.out[n] = upload.body[n]
      BY <1>1, <3>1 DEF Begun
    <3>3. dec.out = upload.body
      BY <1>1, <3>2, SeqEqual
    <3> QED
      BY <3>3
  <2> QED
    BY <1>5, <2>3, <2>4
<1>6. Streams!OnlySentPayload
  BY <1>4, <1>5 DEF Streams!OnlySentPayload
<1>7. Streams!Object \in Seq(Bytes)
  <2>1. dec.out \in Seq(Seq(Bytes)) /\ <<>> \in Seq(Bytes)
    BY <1>1
  <2>2. Streams!FlattenSeq(dec.out) \in Seq(Bytes)
    BY <2>1, FlattenAppend
  <2> QED
    BY <2>2 DEF Streams!Object
<1> QED
  BY <1>2, <1>6, <1>7, RangeIsServed DEF StreamInv

(* While the decoder runs nothing is answered.                             *)
LEMMA Running ==
  ASSUME StreamInv, outcome = "none", UNCHANGED reply, StreamTypes', Coming',
         outcome' \in {"none", "rejected", "lost"}
  PROVE  StreamInv'
<1>1. reply = Streams!NoReply /\ reply' = Streams!NoReply
  BY DEF StreamInv, ReplySound
<1>2. reply'.status = 0
  BY <1>1 DEF Streams!NoReply
<1>3. ReplySound'
  BY <1>1, <1>2 DEF ReplySound
<1>4. Concluded'
  BY DEF Concluded
<1> QED
  BY <1>3, <1>4 DEF StreamInv

LEMMA NothingDecoded ==
  ASSUME StreamInv, UNCHANGED <<upload, wire, dec>>
  PROVE  Coming' /\ (outcome' \in {"none", "decoded", "stored", "rejected", "lost"} => StreamTypes')
<1>1. Coming'
  BY DEF StreamInv, Coming, ToCome, Passed, Begun, Trailers
<1> QED
  BY <1>1 DEF StreamInv, StreamTypes, Bounded

LEMMA RejectSound ==
  ASSUME StreamInv, outcome = "none", Streams!Reject
  PROVE  StreamInv'
BY NothingDecoded, Running DEF Streams!Reject
----------------------------------------------------------------------------
(* Streams: the first state.                                               *)

Chunks == [data : Seq(Bytes), sig : Clean]
Fits(chunk) == chunk \in Chunks /\ Len(chunk.data) \in 1 .. Len(Digits) - 1

LEMMA FramingsAre ==
  ASSUME NEW cs, NEW n \in Nat, cs \in [1 .. n -> Chunks], \A i \in 1 .. n : Fits(cs[i])
  PROVE  cs \in Framings /\ Len(cs) = n
<1>1. cs \in Seq(Chunks) /\ Len(cs) = n
  OBVIOUS
<1> QED
  BY <1>1 DEF Framings, Chunks, Fits

LEMMA InFramings ==
  ASSUME NEW cs \in Framings
  PROVE  /\ cs \in Seq(Chunks) /\ Len(cs) \in Nat /\ cs \in [1 .. Len(cs) -> Chunks]
         /\ \A i \in 1 .. Len(cs) : Fits(cs[i])
<1>1. cs \in Seq(Chunks) /\ \A i \in 1 .. Len(cs) : Len(cs[i].data) \in 1 .. Len(Digits) - 1
  BY DEF Framings, Chunks
<1>2. Len(cs) \in Nat /\ cs \in [1 .. Len(cs) -> Chunks]
  BY <1>1, LenProperties
<1> QED
  BY <1>1, <1>2 DEF Fits

LEMMA SignedChunk ==
  ASSUME NEW n \in 1 .. Len(Signatures), NEW data \in Seq(Bytes), NEW signed \in BOOLEAN,
         Len(data) \in 1 .. Len(Digits) - 1
  PROVE  Fits(Streams!Chunk(n, data, signed)) /\ Streams!Chunk(n, data, signed).data = data
<1> DEFINE c == Streams!Chunk(n, data, signed)
           sig == IF signed THEN <<Signatures[n]>> ELSE <<>>
<1>1. Signatures[n] \in Bytes \ {"r"}
  BY BytesKnown, ElementOfSeq
<1>2. <<Signatures[n]>> \in Seq(Bytes \ {"r"}) /\ <<>> \in Seq(Bytes \ {"r"})
  <2>1. ASSUME NEW S, NEW x \in S PROVE <<x>> \in Seq(S) /\ <<>> \in Seq(S)
    OBVIOUS
  <2> QED
    BY <1>1, <2>1
<1>3. sig \in Clean
  BY <1>2 DEF Clean
<1>4. c = [data |-> data, sig |-> sig]
  BY DEF Streams!Chunk
<1> HIDE DEF c, sig
<1> QED
  BY <1>3, <1>4 DEF Fits, Chunks, c

LEMMA ChunkedFramings ==
  ASSUME NEW body \in Bodies, NEW signed \in BOOLEAN
  PROVE  /\ body \in Seq(Seq(Bytes))
         /\ Streams!Chunked(body, signed) \in Framings
         /\ Len(Streams!Chunked(body, signed)) = Len(body) /\ Len(body) <= Len(Signatures)
         /\ \A n \in 1 .. Len(body) : Streams!Chunked(body, signed)[n].data = body[n]
<1> DEFINE cs == Streams!Chunked(body, signed)
<1>1. /\ body \in Seq(Seq(STRING)) /\ Len(body) <= Len(Signatures)
      /\ \A n \in 1 .. Len(body) : Len(body[n]) \in 1 .. Len(Digits) - 1
  BY ServicesAssumption, Zenon
<1>2. Seq(STRING) \subseteq Seq(Bytes)
  BY BytesKnown, Zenon
<1>3. body \in Seq(Seq(Bytes))
  <2>1. ASSUME NEW S, NEW T, S \subseteq T PROVE \A s \in Seq(S) : s \in Seq(T)
    BY <2>1, SeqMonotonic
  <2> QED
    BY <1>1, <1>2, <2>1, Zenon
<1>4. Len(body) \in Nat /\ Len(Signatures) \in Nat
  <2>1. Signatures \in Seq(Bytes \ {"r"})
    BY BytesKnown
  <2> QED
    BY <1>3, <2>1, LenProperties
<1>5. cs = [n \in 1 .. Len(body) |-> Streams!Chunk(n, body[n], signed)]
  BY DEF Streams!Chunked
<1> HIDE DEF cs
<1>6. ASSUME NEW n \in 1 .. Len(body) PROVE Fits(cs[n]) /\ cs[n].data = body[n]
  <2>1. n \in 1 .. Len(Signatures)
    BY <1>1, <1>4
  <2>2. PICK data \in Seq(Bytes) : data = body[n]
    BY <1>3, ElementOfSeq
  <2>3. Len(data) \in 1 .. Len(Digits) - 1
    BY <1>1, <2>2
  <2>4. Fits(Streams!Chunk(n, data, signed)) /\ Streams!Chunk(n, data, signed).data = data
    BY <2>1, <2>3, SignedChunk
  <2> QED
    BY <1>5, <2>2, <2>4
<1>7. cs \in [1 .. Len(body) -> Chunks]
  <2>1. \A n \in 1 .. Len(body) : cs[n] \in Chunks
    BY <1>6 DEF Fits
  <2> QED
    BY <1>5, <2>1
<1>8. cs \in Framings /\ Len(cs) = Len(body)
  BY <1>4, <1>6, <1>7, FramingsAre
<1> QED
  BY <1>1, <1>3, <1>6, <1>8 DEF cs

LEMMA DamagedFramings ==
  ASSUME NEW cs \in Framings, Len(cs) <= Len(Signatures), NEW ds \in Streams!Damaged(cs)
  PROVE  ds \in Framings
<1> DEFINE k == Len(cs)
<1>1. /\ cs \in Seq(Chunks) /\ k \in Nat /\ cs \in [1 .. k -> Chunks]
      /\ \A i \in 1 .. k : Fits(cs[i])
  BY InFramings
<1>2. CASE ds = Streams!Reverse(cs)
  <2>1. ds = [i \in 1 .. k |-> cs[(k - i) + 1]]
    BY <1>2 DEF Streams!Reverse
  <2>2. \A i \in 1 .. k : ds[i] = cs[(k - i) + 1] /\ (k - i) + 1 \in 1 .. k
    BY <1>1, <2>1
  <2> HIDE DEF k
  <2>3. \A i \in 1 .. k : Fits(ds[i])
    BY <1>1, <2>2
  <2>4. ds \in [1 .. k -> Chunks]
    BY <2>1, <2>2, <2>3 DEF Fits
  <2> QED
    BY <1>1, <2>3, <2>4, FramingsAre
<1>3. CASE cs # <<>> /\ ds = Tail(cs)
  <2>1. TRUE \in BOOLEAN
    OBVIOUS
  <2> QED
    BY <1>3, <2>1, Unframe
<1>4. CASE cs # <<>> /\ ds = Streams!Front(cs)
  <2>1. k \in Nat \ {0} /\ k - 1 \in Nat
    BY <1>1, <1>4
  <2>2. ds = SubSeq(cs, 1, k - 1)
    BY <1>4 DEF Streams!Front
  <2>3. \A i \in 1 .. k - 1 : cs[i] \in Chunks
    BY <1>1, <2>1
  <2>4. /\ ds \in Seq(Chunks)
        /\ Len(ds) = k - 1 /\ \A i \in 1 .. k - 1 : ds[i] = cs[i]
    BY <1>1, <2>1, <2>2, <2>3
  <2> HIDE DEF k
  <2>5. ds \in [1 .. k - 1 -> Chunks] /\ \A i \in 1 .. k - 1 : Fits(ds[i])
    BY <1>1, <2>1, <2>4
  <2>6. PICK m \in Nat : m = k - 1
    BY <2>1
  <2> QED
    BY <2>5, <2>6, FramingsAre
<1>5. ASSUME cs # <<>>, NEW c, Fits(c), ds = [cs EXCEPT ![1] = c] PROVE ds \in Framings
  <2>1. 1 \in 1 .. k
    BY <1>1, <1>5
  <2> HIDE DEF k
  <2>2. /\ ds \in [1 .. k -> Chunks]
        /\ \A i \in 1 .. k : ds[i] = IF i = 1 THEN c ELSE cs[i]
    BY <1>1, <1>5, <2>1 DEF Fits
  <2>3. \A i \in 1 .. k : Fits(ds[i])
    BY <1>1, <1>5, <2>2
  <2> QED
    BY <1>1, <2>2, <2>3, FramingsAre
<1>6. cs # <<>> => Fits(cs[1]) /\ 1 \in 1 .. k
  BY <1>1
<1>7. CASE cs # <<>> /\ ds = [cs EXCEPT ![1].data[1] = "y"]
  <2>1. Fits(cs[1])
    BY <1>6, <1>7
  <2> DEFINE data == [cs[1].data EXCEPT ![1] = "y"]
             c == [cs[1] EXCEPT !.data = data]
  <2>2. data \in Seq(Bytes) /\ Len(data) = Len(cs[1].data)
    <3>1. PICK d \in Seq(Bytes) : d = cs[1].data
      BY <2>1 DEF Fits, Chunks
    <3>2. 1 \in 1 .. Len(d) /\ "y" \in Bytes
      BY <2>1, <3>1, BytesKnown DEF Fits
    <3>3. [d EXCEPT ![1] = "y"] \in Seq(Bytes) /\ Len([d EXCEPT ![1] = "y"]) = Len(d)
      BY <3>2, ExceptSeq
    <3> QED
      BY <3>1, <3>3
  <2> HIDE DEF data
  <2>3. Fits(c)
    BY <2>1, <2>2 DEF Fits, Chunks
  <2>4. ds = [cs EXCEPT ![1] = c]
    BY <1>7 DEF data
  <2> HIDE DEF c
  <2> QED
    BY <1>5, <1>7, <2>3, <2>4
<1>8. CASE cs # <<>> /\ ds = [cs EXCEPT ![1].sig = @ \o <<"e", "e", "e">>]
  <2>1. Fits(cs[1])
    BY <1>6, <1>8
  <2> DEFINE sig == cs[1].sig \o <<"e", "e", "e">>
             c == [cs[1] EXCEPT !.sig = sig]
  <2>2. sig \in Clean
    <3>1. cs[1].sig \in Seq(Bytes \ {"r"})
      BY <2>1 DEF Fits, Chunks, Clean
    <3>2. ASSUME NEW S, NEW x \in S PROVE <<x, x, x>> \in Seq(S)
      OBVIOUS
    <3>3. "e" \in Bytes \ {"r"}
      BY BytesKnown
    <3>4. <<"e", "e", "e">> \in Seq(Bytes \ {"r"})
      BY <3>2, <3>3
    <3>5. PICK s \in Seq(Bytes \ {"r"}), t \in Seq(Bytes \ {"r"}) : s = cs[1].sig /\ t = <<"e", "e", "e">>
      BY <3>1, <3>4
    <3>6. s \o t \in Seq(Bytes \ {"r"})
      BY ConcatProperties
    <3> QED
      BY <3>5, <3>6 DEF Clean
  <2> HIDE DEF sig
  <2>3. Fits(c)
    BY <2>1, <2>2 DEF Fits, Chunks
  <2>4. ds = [cs EXCEPT ![1] = c]
    BY <1>8 DEF sig
  <2> HIDE DEF c
  <2> QED
    BY <1>5, <1>8, <2>3, <2>4
<1>9. CASE ds = [n \in 1 .. k |-> Streams!Chunk(n, cs[n].data, cs[n].sig = <<>>)]
  <2>0. Len(Signatures) \in Nat /\ k <= Len(Signatures)
    <3>1. Signatures \in Seq(Bytes \ {"r"})
      BY BytesKnown
    <3> QED
      BY <3>1, LenProperties
  <2> HIDE DEF k
  <2>1. ASSUME NEW n \in 1 .. k PROVE Fits(ds[n])
    <3>1. n \in 1 .. Len(Signatures)
      BY <1>1, <2>0
    <3>2. PICK data \in Seq(Bytes) : data = cs[n].data /\ Len(data) \in 1 .. Len(Digits) - 1
      BY <1>1 DEF Fits, Chunks
    <3>3. PICK signed \in BOOLEAN : signed <=> cs[n].sig = <<>>
      OBVIOUS
    <3>4. Fits(Streams!Chunk(n, data, signed))
      BY <3>1, <3>2, SignedChunk
    <3>5. Streams!Chunk(n, data, signed) = Streams!Chunk(n, cs[n].data, cs[n].sig = <<>>)
      BY <3>2, <3>3 DEF Streams!Chunk
    <3> QED
      BY <1>9, <3>4, <3>5
  <2>2. ds \in [1 .. k -> Chunks]
    <3>1. \A n \in 1 .. k : ds[n] \in Chunks
      BY <2>1 DEF Fits
    <3> QED
      BY <1>9, <3>1
  <2> QED
    BY <1>1, <2>1, <2>2, FramingsAre
<1> QED
  BY <1>2, <1>3, <1>4, <1>7, <1>8, <1>9 DEF Streams!Damaged

LEMMA StreamInit ==
  ASSUME Streams!Init
  PROVE  StreamInv
<1>1. PICK body \in Bodies, signed \in BOOLEAN, trailer \in BOOLEAN :
        \E chunks \in Streams!Damaged(Streams!Chunked(body, signed)) :
          /\ upload = [body |-> body, signed |-> signed, trailer |-> trailer,
                       damaged |-> chunks # Streams!Chunked(body, signed)]
          /\ wire = Streams!Frame(chunks, trailer)
  BY DEF Streams!Init
<1>2. PICK chunks \in Streams!Damaged(Streams!Chunked(body, signed)) :
        /\ upload = [body |-> body, signed |-> signed, trailer |-> trailer,
                     damaged |-> chunks # Streams!Chunked(body, signed)]
        /\ wire = Streams!Frame(chunks, trailer)
  BY <1>1
<1>3. /\ dec = [buf |-> <<>>, state |-> "size", size |-> 0, sig |-> <<>>, data |-> <<>>,
                out |-> <<>>, checksum |-> FALSE]
      /\ outcome = "none" /\ reply = Streams!NoReply
  BY DEF Streams!Init
<1> DEFINE cs == Streams!Chunked(body, signed)
<1>4. /\ body \in Seq(Seq(Bytes)) /\ cs \in Framings /\ Len(cs) = Len(body)
      /\ Len(body) <= Len(Signatures) /\ \A n \in 1 .. Len(body) : cs[n].data = body[n]
  BY ChunkedFramings
<1>5. chunks \in Framings
  <2> HIDE DEF cs
  <2>1. Len(cs) <= Len(Signatures) /\ chunks \in Streams!Damaged(cs) /\ cs \in Framings
    BY <1>4 DEF cs
  <2> QED
    BY <2>1, DamagedFramings
<1>6. /\ upload \in Uploads /\ upload.body = body /\ upload.trailer = trailer
      /\ ~upload.damaged => chunks = cs
  BY <1>2, <1>4 DEF Uploads
<1>7. wire \in Seq(Bytes)
  BY <1>2, <1>5, Unframe
<1>8. dec \in Decoders /\ Bounded(dec)
  <2>1. 0 \in 0 .. MaxChunk
    BY ServicesAssumption
  <2> QED
    BY <1>3, <2>1 DEF Decoders, Bounded
<1>9. StreamTypes
  BY <1>3, <1>6, <1>7, <1>8 DEF StreamTypes
<1>10. ToCome(chunks)
  <2>1. <<>> \o wire = wire
    BY <1>7, Joined
  <2> QED
    BY <1>2, <1>3, <1>6, <2>1 DEF ToCome
<1>11. Passed(chunks)
  <2> HIDE DEF cs
  <2>1. Len(dec.out) = 0 /\ Len(body) \in Nat
    BY <1>3, <1>4
  <2>2. Begun
    BY <1>6, <2>1 DEF Begun
  <2>3. ASSUME ~upload.damaged
        PROVE  /\ Len(upload.body) = Len(dec.out) + Len(chunks)
               /\ \A n \in 1 .. Len(chunks) : chunks[n].data = upload.body[Len(dec.out) + n]
    BY <1>4, <1>6, <2>1, <2>3
  <2> QED
    BY <2>2, <2>3 DEF Passed
<1>12. Concluded /\ ReplySound
  BY <1>3 DEF Concluded, ReplySound, Streams!NoReply
<1> QED
  BY <1>5, <1>9, <1>10, <1>11, <1>12 DEF StreamInv, Coming
----------------------------------------------------------------------------
(* Streams: the decoder's turns.                                           *)

LEMMA SizesRead ==
  ASSUME NEW n \in 0 .. Len(Digits) - 1
  PROVE  Streams!ValueOf(Digits[n + 1]) = n
<1>1. \A m \in 0 .. Len(Digits) - 1 : Digits[m + 1] = Digits[n + 1] => m = n
  <2> SUFFICES ASSUME NEW m \in 0 .. Len(Digits) - 1, Digits[m + 1] = Digits[n + 1] PROVE m = n
    OBVIOUS
  <2>1. Digits \in Seq(Bytes \ {"r"})
    BY BytesKnown
  <2>2. PICK i \in 1 .. Len(Digits) : i = m + 1
    BY <2>1
  <2>3. PICK j \in 1 .. Len(Digits) : j = n + 1
    BY <2>1
  <2>4. i = j
    BY <2>2, <2>3, ServicesAssumption
  <2> QED
    BY <2>2, <2>3, <2>4
<1> DEFINE v == CHOOSE m \in 0 .. Len(Digits) - 1 : Digits[m + 1] = Digits[n + 1]
<1>2. v \in 0 .. Len(Digits) - 1 /\ Digits[v + 1] = Digits[n + 1]
  OBVIOUS
<1>3. v = n
  <2> HIDE DEF v
  <2> QED
    BY <1>1, <1>2
<1> QED
  BY <1>3 DEF Streams!ValueOf

LEMMA StreamNumbers == MaxChunk \in Nat /\ MaxLine \in Nat /\ MaxPiece \in Nat /\ Len(Digits) \in Nat \ {0}
<1>1. Digits \in Seq(Bytes \ {"r"}) /\ Digits # <<>>
  BY BytesKnown, ServicesAssumption
<1> QED
  BY <1>1, ServicesAssumption, EmptySeq

LEMMA ReadSizeSound ==
  ASSUME StreamInv, Streams!ReadSize
  PROVE  StreamInv'
<1>1. /\ outcome = "none" /\ dec.state = "size" /\ Streams!HasLine
      /\ StreamTypes /\ dec \in Decoders /\ upload \in Uploads
      /\ dec.buf \in Seq(Bytes) /\ wire \in Seq(Bytes) /\ upload.trailer \in BOOLEAN
  BY DEF Streams!ReadSize, Streams!Decoding, StreamInv, StreamTypes, Decoders, Uploads
<1>2. CASE ~Streams!GoodSizeLine(Streams!Line)
  BY <1>1, <1>2, RejectSound DEF Streams!ReadSize
<1>3. CASE Streams!GoodSizeLine(Streams!Line)
  <2> DEFINE line == Streams!Line
             size == Streams!ValueOf(line[1])
             buf == Streams!Rest(Streams!LineLength + 2)
  <2>1. /\ dec' = IF size = 0 THEN [dec EXCEPT !.buf = buf, !.state = "trailer"]
                  ELSE [dec EXCEPT !.buf = buf, !.state = "data", !.size = size, !.sig = Tail(line)]
        /\ UNCHANGED <<upload, wire, outcome, reply>>
    BY <1>3 DEF Streams!ReadSize, Streams!Turn
  <2>2. PICK rest \in Framings : ToCome(rest) /\ Passed(rest)
    BY DEF StreamInv, Coming
  <2>3. dec.buf \o wire = Streams!Frame(rest, upload.trailer) /\ dec.checksum = FALSE
    BY <1>1, <2>2 DEF ToCome, Decoders
  <2>4. CASE rest = <<>>
    <3> DEFINE y == IF upload.trailer THEN <<"t">> \o (Streams!CRLF \o Streams!CRLF) ELSE Streams!CRLF
               first == <<Digits[1]>>
    <3>1. dec.buf \o wire = first \o (Streams!CRLF \o y)
      BY <1>1, <2>3, <2>4, Unframe, EndingText
    <3>2. y \in Seq(Bytes) /\ first \in Clean /\ first[1] = Digits[1] /\ Len(first) = 1
      <4>1. Streams!CRLF \in Seq(Bytes) /\ <<"t">> \in Seq(Bytes)
        <5>1. ASSUME NEW x \in Bytes PROVE <<x>> \in Seq(Bytes)
          OBVIOUS
        <5> QED
          BY <5>1, BytesKnown, CrlfText
      <4>2. Streams!CRLF \o Streams!CRLF \in Seq(Bytes)
        BY <4>1, Joined
      <4>3. <<"t">> \o (Streams!CRLF \o Streams!CRLF) \in Seq(Bytes)
        BY <4>1, <4>2, Joined
      <4>4. Digits[1] \in Bytes \ {"r"}
        <5>1. Digits \in Seq(Bytes \ {"r"}) /\ 1 \in 1 .. Len(Digits)
          BY BytesKnown, StreamNumbers
        <5> QED
          BY <5>1, ElementOfSeq
      <4>5. first \in Clean
        <5>1. ASSUME NEW S, NEW x \in S PROVE <<x>> \in Seq(S)
          OBVIOUS
        <5> QED
          BY <4>4, <5>1 DEF Clean
      <4> QED
        BY <4>1, <4>3, <4>5
    <3> HIDE DEF y, first
    <3>3. line = first /\ buf \in Seq(Bytes) /\ buf \o wire = y
      BY <1>1, <3>1, <3>2, LineRead
    <3> HIDE DEF line, buf
    <3>4. size = 0
      <4>1. 0 \in 0 .. Len(Digits) - 1 /\ 0 + 1 = 1
        BY StreamNumbers
      <4> QED
        BY <3>2, <3>3, <4>1, SizesRead
    <3>5. dec' = [dec EXCEPT !.buf = buf, !.state = "trailer"]
      BY <2>1, <3>4
    <3>6. /\ dec' \in Decoders /\ dec'.buf = buf /\ dec'.state = "trailer" /\ dec'.checksum = FALSE
          /\ dec'.data = dec.data /\ dec'.out = dec.out
      BY <1>1, <2>3, <3>3, <3>5 DEF Decoders
    <3>7. StreamTypes'
      BY <1>1, <2>1, <3>6 DEF StreamTypes, Bounded
    <3>8. ToCome(rest)'
      BY <2>1, <2>4, <3>3, <3>6 DEF ToCome, Trailers, y
    <3>9. Passed(rest)'
      BY <2>1, <2>2, <3>6 DEF Passed, Begun
    <3>10. Coming'
      BY <3>8, <3>9 DEF Coming
    <3> QED
      BY <1>1, <2>1, <3>7, <3>10, Running
  <2>5. CASE rest # <<>>
    <3> DEFINE tl == Tail(rest)
               y == rest[1].data \o (Streams!CRLF \o Streams!Frame(tl, upload.trailer))
               first == SizeLine(rest[1])
    <3>1. Fits(rest[1]) /\ tl \in Framings
      <4>1. 1 \in 1 .. Len(rest)
        BY <2>5, InFramings
      <4> QED
        BY <1>1, <2>5, <4>1, InFramings, Unframe
    <3>2. /\ rest[1] \in [data : Seq(Bytes), sig : Clean] /\ rest[1].data \in Seq(Bytes)
          /\ Len(rest[1].data) \in 1 .. Len(Digits) - 1
      BY <3>1 DEF Fits, Chunks
    <3>3. /\ first \in Clean /\ first \in Seq(Bytes) /\ Len(first) = 1 + Len(rest[1].sig)
          /\ first[1] = Digits[Len(rest[1].data) + 1]
      BY <3>2, ChunkTypes
    <3>4. Streams!Frame(tl, upload.trailer) \in Seq(Bytes)
      <4> HIDE DEF tl
      <4> QED
        BY <1>1, <3>1, Unframe
    <3>5. y \in Seq(Bytes)
      <4>1. Streams!CRLF \o Streams!Frame(tl, upload.trailer) \in Seq(Bytes)
        BY <3>4, CrlfText, Joined
      <4> QED
        BY <3>2, <4>1, Joined
    <3>6. dec.buf \o wire = first \o (Streams!CRLF \o y)
      <4>1. Streams!Frame(rest, upload.trailer) =
              Streams!Framed(rest[1]) \o Streams!Frame(tl, upload.trailer)
        BY <1>1, <2>5, Unframe
      <4>2. PICK c \in [data : Seq(Bytes), sig : Clean] : c = rest[1]
        BY <3>2
      <4>3. PICK z \in Seq(Bytes) : z = Streams!Frame(tl, upload.trailer)
        BY <3>4
      <4>4. Streams!Framed(c) \o z = SizeLine(c) \o (Streams!CRLF \o (c.data \o (Streams!CRLF \o z)))
        BY <3>2, <4>2, FramedText
      <4> QED
        BY <2>3, <4>1, <4>2, <4>3, <4>4
    <3> HIDE DEF y, first
    <3>7. line = first /\ buf \in Seq(Bytes) /\ buf \o wire = y
      BY <1>1, <3>3, <3>5, <3>6, LineRead
    <3> HIDE DEF buf
    <3>8. size = Len(rest[1].data)
      <4>1. PICK n \in 0 .. Len(Digits) - 1 : n = Len(rest[1].data)
        BY <3>2
      <4>2. Streams!ValueOf(Digits[n + 1]) = n
        BY SizesRead
      <4> QED
        BY <3>3, <3>7, <4>1, <4>2
    <3>9. size # 0 /\ size \in 0 .. MaxChunk
      <4>1. size \in 1 .. Len(Digits) - 1
        BY <3>2, <3>8
      <4>2. size <= MaxChunk
        BY <1>3, <4>1 DEF Streams!GoodSizeLine
      <4> QED
        BY <4>1, <4>2, StreamNumbers
    <3>10. Tail(line) \in Seq(Bytes)
      <4>1. first # <<>>
        <5>1. Len(rest[1].sig) \in Nat
          BY <3>2, LenProperties DEF Clean
        <5> QED
          BY <3>3, <5>1
      <4> QED
        BY <3>3, <3>7, <4>1, HeadTailProperties
    <3> HIDE DEF line, size
    <3>11. dec' = [dec EXCEPT !.buf = buf, !.state = "data", !.size = size, !.sig = Tail(line)]
      BY <2>1, <3>9 DEF size
    <3>12. /\ dec' \in Decoders /\ dec'.buf = buf /\ dec'.state = "data" /\ dec'.checksum = FALSE
           /\ dec'.size = size /\ dec'.data = dec.data /\ dec'.out = dec.out
      BY <1>1, <2>3, <3>7, <3>9, <3>10, <3>11 DEF Decoders
    <3>13. StreamTypes'
      BY <1>1, <2>1, <3>12 DEF StreamTypes, Bounded
    <3>14. ToCome(rest)'
      BY <2>1, <2>5, <3>7, <3>8, <3>12 DEF ToCome, y
    <3>15. Passed(rest)'
      BY <2>1, <2>2, <3>12 DEF Passed, Begun
    <3>16. Coming'
      BY <3>14, <3>15 DEF Coming
    <3> QED
      BY <1>1, <2>1, <3>13, <3>16, Running
  <2> QED
    BY <2>4, <2>5
<1> QED
  BY <1>2, <1>3
LEMMA ReadDataSound ==
  ASSUME StreamInv, Streams!ReadData
  PROVE  StreamInv'
<1>1. /\ outcome = "none" /\ dec.state = "data" /\ dec.size <= Len(dec.buf)
      /\ StreamTypes /\ dec \in Decoders /\ upload \in Uploads
      /\ dec.buf \in Seq(Bytes) /\ wire \in Seq(Bytes) /\ upload.trailer \in BOOLEAN
      /\ dec' = [dec EXCEPT !.buf = Streams!Rest(dec.size), !.state = "crlf",
                            !.data = SubSeq(dec.buf, 1, dec.size)]
      /\ UNCHANGED <<upload, wire, outcome, reply>>
  BY DEF Streams!ReadData, Streams!Turn, Streams!Decoding, StreamInv, StreamTypes, Decoders, Uploads
<1>2. PICK rest \in Framings : ToCome(rest) /\ Passed(rest)
  BY DEF StreamInv, Coming
<1> DEFINE tl == Tail(rest)
<1>3. rest # <<>> /\ dec.size = Len(rest[1].data)
      /\ dec.buf \o wire = rest[1].data \o (Streams!CRLF \o Streams!Frame(tl, upload.trailer))
      /\ dec.checksum = FALSE
  BY <1>1, <1>2 DEF ToCome, Decoders
<1>4. tl \in Framings /\ Fits(rest[1])
  <2>1. 1 \in 1 .. Len(rest)
    BY <1>3, InFramings
  <2> QED
    BY <1>1, <1>3, <2>1, InFramings, Unframe
<1> HIDE DEF tl
<1>5. PICK x \in Seq(Bytes) : x = rest[1].data
  BY <1>4 DEF Fits, Chunks
<1>6. PICK y \in Seq(Bytes) : y = Streams!CRLF \o Streams!Frame(tl, upload.trailer)
  <2>1. Streams!Frame(tl, upload.trailer) \in Seq(Bytes)
    BY <1>1, <1>4, Unframe
  <2> QED
    BY <2>1, CrlfText, Joined
<1>7. Cut(dec.buf, dec.size, wire, x, y)
  <2>1. PICK b \in Seq(Bytes) : b = dec.buf
    BY <1>1
  <2>2. PICK w \in Seq(Bytes) : w = wire
    BY <1>1
  <2>3. Same(b, w, x, y) /\ Len(x) <= Len(b)
    BY <1>1, <1>3, <1>5, <1>6, <2>1, <2>2 DEF Same
  <2>4. Cut(b, Len(x), w, x, y)
    BY <2>3, Take
  <2> QED
    BY <1>3, <1>5, <2>1, <2>2, <2>4
<1>8. /\ Streams!Rest(dec.size) \in Seq(Bytes) /\ Streams!Rest(dec.size) \o wire = y
      /\ SubSeq(dec.buf, 1, dec.size) = x
  BY <1>7 DEF Cut, Streams!Rest
<1>9. Len(x) <= MaxChunk
  BY <1>1, <1>3, <1>5, StreamNumbers DEF Decoders
<1>10. /\ dec' \in Decoders /\ dec'.state = "crlf" /\ dec'.checksum = FALSE
       /\ dec'.buf = Streams!Rest(dec.size) /\ dec'.data = x /\ dec'.out = dec.out
  BY <1>1, <1>3, <1>8 DEF Decoders
<1>11. StreamTypes'
  BY <1>1, <1>9, <1>10 DEF StreamTypes, Bounded
<1>12. ToCome(rest)'
  BY <1>1, <1>3, <1>5, <1>6, <1>8, <1>10 DEF ToCome, tl
<1>13. Passed(rest)'
  BY <1>1, <1>2, <1>10 DEF Passed, Begun
<1>14. Coming'
  BY <1>12, <1>13 DEF Coming
<1> QED
  BY <1>1, <1>11, <1>14, Running

LEMMA ReadCrlfSound ==
  ASSUME StreamInv, Streams!ReadCrlf
  PROVE  StreamInv'
<1>1. /\ outcome = "none" /\ dec.state = "crlf" /\ 2 <= Len(dec.buf)
      /\ StreamTypes /\ dec \in Decoders /\ upload \in Uploads
      /\ dec.buf \in Seq(Bytes) /\ wire \in Seq(Bytes) /\ upload.trailer \in BOOLEAN
  BY DEF Streams!ReadCrlf, Streams!Decoding, StreamInv, StreamTypes, Decoders, Uploads
<1>2. CASE SubSeq(dec.buf, 1, 2) # Streams!CRLF \/ (upload.signed /\ ~Streams!Verified)
  BY <1>1, <1>2, RejectSound DEF Streams!ReadCrlf
<1>3. CASE ~(SubSeq(dec.buf, 1, 2) # Streams!CRLF \/ (upload.signed /\ ~Streams!Verified))
  <2> DEFINE k == Len(dec.out)
             d == dec.data
  <2>1. /\ dec' = [dec EXCEPT !.buf = Streams!Rest(2), !.state = "size", !.out = Append(@, dec.data)]
        /\ UNCHANGED <<upload, wire, outcome, reply>>
        /\ upload.signed => Streams!Verified
    BY <1>3 DEF Streams!ReadCrlf, Streams!Turn
  <2>2. PICK rest \in Framings : ToCome(rest) /\ Passed(rest)
    BY DEF StreamInv, Coming
  <2> DEFINE tl == Tail(rest)
  <2>3. /\ rest # <<>> /\ d = rest[1].data
        /\ dec.buf \o wire = Streams!CRLF \o Streams!Frame(tl, upload.trailer)
        /\ dec.checksum = FALSE
    BY <1>1, <2>2 DEF ToCome, Decoders
  <2>4. /\ tl \in Framings /\ Fits(rest[1]) /\ Len(rest) \in Nat \ {0} /\ Len(tl) = Len(rest) - 1
        /\ \A n \in 1 .. Len(tl) : tl[n] = rest[n + 1]
    <3>1. 1 \in 1 .. Len(rest) /\ rest \in Seq(Chunks)
      BY <2>3, InFramings
    <3>2. Len(tl) = Len(rest) - 1 /\ \A n \in 1 .. Len(tl) : tl[n] = rest[n + 1]
      BY <2>3, <3>1, HeadTailProperties
    <3>3. tl \in Framings
      BY <1>1, <2>3, Unframe
    <3> QED
      BY <3>1, <3>2, <3>3, InFramings
  <2> HIDE DEF tl
  <2>5. Cut(dec.buf, 2, wire, Streams!CRLF, Streams!Frame(tl, upload.trailer))
    <3>1. PICK b \in Seq(Bytes) : b = dec.buf
      BY <1>1
    <3>2. PICK w \in Seq(Bytes) : w = wire
      BY <1>1
    <3>3. PICK x \in Seq(Bytes) : x = Streams!CRLF /\ Len(x) = 2
      BY CrlfText
    <3>4. PICK y \in Seq(Bytes) : y = Streams!Frame(tl, upload.trailer)
      BY <1>1, <2>4, Unframe
    <3>5. Same(b, w, x, y) /\ Len(x) <= Len(b)
      BY <1>1, <2>3, <3>1, <3>2, <3>3, <3>4 DEF Same
    <3>6. Cut(b, Len(x), w, x, y)
      BY <3>5, Take
    <3> QED
      BY <3>1, <3>2, <3>3, <3>4, <3>6
  <2>6. /\ Streams!Rest(2) \in Seq(Bytes)
        /\ Streams!Rest(2) \o wire = Streams!Frame(tl, upload.trailer)
    BY <2>5 DEF Cut, Streams!Rest
  <2>7. d \in Seq(Bytes) /\ Len(d) \in 1 .. MaxChunk
    <3>1. d \in Seq(Bytes) /\ Len(d) <= MaxChunk
      BY <1>1 DEF StreamTypes, Bounded, Decoders
    <3>2. Len(d) >= 1 /\ Len(d) \in Nat
      BY <2>3, <2>4, <3>1, StreamNumbers DEF Fits
    <3> QED
      BY <3>1, <3>2, StreamNumbers
  <2>8. dec.out \in Seq(Seq(Bytes)) /\ k \in Nat
    BY <1>1 DEF Decoders
  <2> HIDE DEF k, d
  <2>9. /\ dec' \in Decoders /\ dec'.state = "size" /\ dec'.checksum = FALSE
        /\ dec'.buf = Streams!Rest(2) /\ dec'.data = d /\ dec'.out = Append(dec.out, d)
    <3>1. Append(dec.out, d) \in Seq(Seq(Bytes))
      BY <2>7, <2>8, AppendProperties
    <3>2. dec' = [dec EXCEPT !.buf = Streams!Rest(2), !.state = "size", !.out = Append(dec.out, d)]
      BY <2>1 DEF d
    <3> QED
      BY <1>1, <2>3, <2>6, <3>1, <3>2 DEF Decoders, d
  <2>10. /\ Len(dec'.out) = k + 1 /\ dec'.out[k + 1] = d
         /\ \A n \in 1 .. k : dec'.out[n] = dec.out[n]
    BY <2>7, <2>8, <2>9, AppendProperties DEF k
  <2>11. Bounded(dec')
    <3>1. \A n \in 1 .. k + 1 : n = k + 1 \/ n \in 1 .. k
      BY <2>8
    <3>2. \A n \in 1 .. k : Len(dec.out[n]) \in 1 .. MaxChunk
      BY <1>1 DEF StreamTypes, Bounded, k
    <3>3. \A n \in 1 .. k + 1 : Len(dec'.out[n]) \in 1 .. MaxChunk
      BY <2>7, <2>10, <3>1, <3>2
    <3>4. Len(dec'.data) <= MaxChunk
      BY <2>7, <2>9, StreamNumbers
    <3> QED
      BY <2>10, <3>3, <3>4 DEF Bounded
  <2>12. StreamTypes'
    BY <1>1, <2>1, <2>9, <2>11 DEF StreamTypes
  <2>13. ToCome(tl)'
    BY <2>1, <2>6, <2>9 DEF ToCome
  <2>14. ASSUME Begun, k + 1 <= Len(upload.body), d = upload.body[k + 1] PROVE Begun'
    <3>1. \A n \in 1 .. k + 1 : n = k + 1 \/ n \in 1 .. k
      BY <2>8
    <3>2. \A n \in 1 .. k : dec.out[n] = upload.body[n]
      BY <2>14 DEF Begun, k
    <3>3. \A n \in 1 .. k + 1 : dec'.out[n] = upload.body[n]
      BY <2>10, <2>14, <3>1, <3>2
    <3> QED
      BY <2>1, <2>10, <2>14, <3>3 DEF Begun
  <2>15. upload.signed => Begun'
    <3> SUFFICES ASSUME upload.signed PROVE Begun'
      OBVIOUS
    <3>1. Begun /\ k + 1 <= Len(upload.body) /\ d = upload.body[k + 1]
      BY <2>1, <2>2 DEF Passed, Streams!Verified, k, d
    <3> QED
      BY <2>14, <3>1
  <2>16. ~upload.damaged => /\ Begun' /\ Len(upload.body) = Len(dec'.out) + Len(tl)
                            /\ \A n \in 1 .. Len(tl) : tl[n].data = upload.body[Len(dec'.out) + n]
    <3> SUFFICES ASSUME ~upload.damaged
                 PROVE  /\ Begun' /\ Len(upload.body) = Len(dec'.out) + Len(tl)
                        /\ \A n \in 1 .. Len(tl) : tl[n].data = upload.body[Len(dec'.out) + n]
      OBVIOUS
    <3>1. /\ Begun /\ Len(upload.body) = k + Len(rest)
          /\ \A n \in 1 .. Len(rest) : rest[n].data = upload.body[k + n]
      BY <2>2 DEF Passed, k
    <3>2. 1 \in 1 .. Len(rest) /\ k + 1 <= Len(upload.body)
      BY <2>4, <2>8, <3>1
    <3>3. d = upload.body[k + 1]
      BY <2>3, <3>1, <3>2
    <3>4. Len(upload.body) = Len(dec'.out) + Len(tl)
      BY <2>4, <2>8, <2>10, <3>1
    <3>5. ASSUME NEW n \in 1 .. Len(tl) PROVE tl[n].data = upload.body[Len(dec'.out) + n]
      <4>1. PICK m \in 1 .. Len(rest) : m = n + 1
        BY <2>4
      <4>2. tl[n] = rest[m] /\ rest[m].data = upload.body[k + m] /\ k + m = Len(dec'.out) + n
        BY <2>4, <2>8, <2>10, <3>1, <4>1
      <4> QED
        BY <4>2
    <3> QED
      BY <2>14, <3>1, <3>2, <3>3, <3>4, <3>5
  <2>17. Passed(tl)'
    BY <2>1, <2>15, <2>16 DEF Passed
  <2>18. Coming'
    BY <2>4, <2>13, <2>17 DEF Coming
  <2> QED
    BY <1>1, <2>1, <2>12, <2>18, Running
<1> QED
  BY <1>2, <1>3

LEMMA ReadTrailerSound ==
  ASSUME StreamInv, Streams!ReadTrailer
  PROVE  StreamInv'
<1>1. /\ outcome = "none" /\ dec.state = "trailer" /\ Streams!HasLine
      /\ StreamTypes /\ dec \in Decoders /\ upload \in Uploads
      /\ dec.buf \in Seq(Bytes) /\ wire \in Seq(Bytes) /\ upload.trailer \in BOOLEAN
      /\ dec.checksum \in BOOLEAN
  BY DEF Streams!ReadTrailer, Streams!Decoding, StreamInv, StreamTypes, Decoders, Uploads
<1>2. PICK rest \in Framings : ToCome(rest) /\ Passed(rest)
  BY DEF StreamInv, Coming
<1>3. rest = <<>> /\ dec.buf \o wire = Trailers /\ (dec.checksum => upload.trailer)
  BY <1>1, <1>2 DEF ToCome
<1>4. /\ <<>> \in Clean /\ <<>> \in Seq(Bytes) /\ <<"t">> \in Clean /\ <<"t">> \in Seq(Bytes)
      /\ Len(<<"t">>) = 1 /\ <<"t">> # <<>>
  <2>1. "t" \in Bytes \ {"r"} /\ "t" \in Bytes
    BY BytesKnown
  <2>2. ASSUME NEW S, NEW x \in S PROVE <<x>> \in Seq(S) /\ <<>> \in Seq(S) /\ Len(<<x>>) = 1
    OBVIOUS
  <2> QED
    BY <2>1, <2>2 DEF Clean
<1>5. CASE upload.trailer /\ ~dec.checksum
  <2>1. dec.buf \o wire = <<"t">> \o (Streams!CRLF \o Streams!CRLF)
    BY <1>3, <1>5 DEF Trailers
  <2>2. PICK line \in Clean : line = <<"t">>
    BY <1>4
  <2>3. PICK y \in Seq(Bytes) : y = Streams!CRLF
    BY CrlfText
  <2>4. dec.buf \o wire = line \o (Streams!CRLF \o y)
    BY <2>1, <2>2, <2>3
  <2>5. /\ Streams!LineLength = Len(line) /\ Streams!Line = line
        /\ Streams!Rest(Streams!LineLength + 2) \in Seq(Bytes)
        /\ Streams!Rest(Streams!LineLength + 2) \o wire = y
    BY <1>1, <2>4, LineRead
  <2>6. /\ Streams!Line = <<"t">> /\ Streams!Line # <<>> /\ Streams!Rest(3) \in Seq(Bytes)
        /\ Streams!Rest(3) \o wire = Streams!CRLF
    <3>1. Streams!LineLength + 2 = 3
      BY <1>4, <2>2, <2>5
    <3> QED
      BY <1>4, <2>2, <2>3, <2>5, <3>1
  <2>7. dec' = [dec EXCEPT !.buf = Streams!Rest(3), !.checksum = TRUE]
        /\ UNCHANGED <<upload, wire, outcome, reply>>
    BY <2>6 DEF Streams!ReadTrailer, Streams!Turn
  <2>8. /\ dec' \in Decoders /\ dec'.state = "trailer" /\ dec'.checksum = TRUE
        /\ dec'.buf = Streams!Rest(3) /\ dec'.data = dec.data /\ dec'.out = dec.out
    BY <1>1, <2>6, <2>7 DEF Decoders
  <2>9. StreamTypes'
    BY <1>1, <2>7, <2>8 DEF StreamTypes, Bounded
  <2>10. ToCome(rest)'
    BY <1>3, <1>5, <2>6, <2>7, <2>8 DEF ToCome, Trailers
  <2>11. Passed(rest)'
    BY <1>2, <2>7, <2>8 DEF Passed, Begun
  <2>12. Coming'
    BY <2>10, <2>11 DEF Coming
  <2> QED
    BY <1>1, <2>7, <2>9, <2>12, Running
<1>6. CASE ~(upload.trailer /\ ~dec.checksum)
  <2>1. dec.buf \o wire = Streams!CRLF
    BY <1>3, <1>6 DEF Trailers
  <2>2. PICK line \in Clean : line = <<>>
    BY <1>4
  <2>3. PICK y \in Seq(Bytes) : y = <<>>
    BY <1>4
  <2>4. dec.buf \o wire = line \o (Streams!CRLF \o y)
    <3>1. PICK c \in Seq(Bytes) : c = Streams!CRLF
      BY CrlfText
    <3>2. c \o <<>> = c /\ <<>> \o c = c
      BY Joined
    <3> QED
      BY <2>1, <2>2, <2>3, <3>1, <3>2
  <2>5. /\ Streams!LineLength = Len(line) /\ Streams!Line = line
        /\ Streams!Rest(Streams!LineLength + 2) \in Seq(Bytes)
    BY <1>1, <2>4, LineRead
  <2>6. Streams!Line = <<>> /\ Streams!Rest(2) \in Seq(Bytes)
    <3>1. Streams!LineLength + 2 = 2
      BY <2>2, <2>5
    <3> QED
      BY <2>2, <2>5, <3>1
  <2>7. dec' = [dec EXCEPT !.buf = Streams!Rest(2), !.state = "done"]
        /\ UNCHANGED <<upload, wire, outcome, reply>>
    <3>1. Streams!Line # <<"t">>
      BY <1>4, <2>6
    <3> QED
      BY <2>6, <3>1 DEF Streams!ReadTrailer, Streams!Turn
  <2>8. /\ dec' \in Decoders /\ dec'.state = "done" /\ dec'.checksum = dec.checksum
        /\ dec'.data = dec.data /\ dec'.out = dec.out
    BY <1>1, <2>6, <2>7 DEF Decoders
  <2>9. StreamTypes'
    BY <1>1, <2>7, <2>8 DEF StreamTypes, Bounded
  <2>10. ToCome(rest)'
    BY <1>1, <1>3, <1>6, <2>7, <2>8 DEF ToCome
  <2>11. Passed(rest)'
    BY <1>2, <2>7, <2>8 DEF Passed, Begun
  <2>12. Coming'
    BY <2>10, <2>11 DEF Coming
  <2> QED
    BY <1>1, <2>7, <2>9, <2>12, Running
<1> QED
  BY <1>5, <1>6
LEMMA Extend ==
  ASSUME NEW S, NEW o \in Seq(S), NEW a \in Nat, NEW b \in Nat, NEW c \in Nat,
         a <= b, b <= c, c <= Len(o)
  PROVE  SubSeq(o, a + 1, b) \o SubSeq(o, b + 1, c) = SubSeq(o, a + 1, c)
<1>1. PICK m \in 1 .. Len(o) + 1 : m = a + 1
  OBVIOUS
<1>2. b \in m - 1 .. Len(o) /\ c \in b .. Len(o)
  BY <1>1
<1>3. SubSeq(o, m, b) \o SubSeq(o, b + 1, c) = SubSeq(o, m, c)
  BY <1>2, ConcatAdjacentSubSeq
<1> QED
  BY <1>1, <1>3

LEMMA ReceiveSound ==
  ASSUME StreamInv, Streams!Receive
  PROVE  StreamInv'
<1>1. /\ outcome = "none" /\ StreamTypes /\ dec \in Decoders /\ upload \in Uploads
      /\ dec.buf \in Seq(Bytes) /\ wire \in Seq(Bytes) /\ UNCHANGED <<upload, outcome, reply>>
  BY DEF Streams!Receive, StreamInv, StreamTypes, Decoders, Uploads
<1>2. PICK n \in 1 .. MaxPiece :
        /\ n <= Len(wire)
        /\ dec' = [dec EXCEPT !.buf = @ \o SubSeq(wire, 1, n)]
        /\ wire' = SubSeq(wire, n + 1, Len(wire))
  BY DEF Streams!Receive
<1> DEFINE p == SubSeq(wire, 1, n)
           q == SubSeq(wire, n + 1, Len(wire))
<1>3. PICK w \in Seq(Bytes) : w = wire
  BY <1>1
<1>4. p \in Seq(Bytes) /\ q \in Seq(Bytes) /\ p \o q = wire
  <2>1. n \in Nat /\ Len(w) \in Nat /\ n <= Len(w) /\ 0 \in Nat /\ 0 <= n
    BY <1>2, <1>3, StreamNumbers
  <2>2. SubSeq(w, 0 + 1, n) \in Seq(Bytes)
    BY <2>1, Span
  <2>3. SubSeq(w, n + 1, Len(w)) \in Seq(Bytes)
    BY <2>1, Span
  <2>4. SubSeq(w, 0 + 1, n) \o SubSeq(w, n + 1, Len(w)) = SubSeq(w, 0 + 1, Len(w))
    BY <2>1, Extend
  <2>5. SubSeq(w, 1, Len(w)) = w /\ 0 + 1 = 1
    BY SubSeqFull
  <2> QED
    BY <1>3, <2>2, <2>3, <2>4, <2>5
<1> HIDE DEF p, q
<1>5. dec' = [dec EXCEPT !.buf = dec.buf \o p] /\ wire' = q
  BY <1>2 DEF p, q
<1>6. dec.buf \o p \in Seq(Bytes)
  BY <1>1, <1>4, Joined
<1>7. (dec.buf \o p) \o q = dec.buf \o wire
  <2>1. (dec.buf \o p) \o q = dec.buf \o (p \o q)
    BY <1>1, <1>4, Associative
  <2> QED
    BY <1>4, <2>1
<1>8. /\ dec' \in Decoders /\ dec'.buf \o wire' = dec.buf \o wire
      /\ dec'.state = dec.state /\ dec'.size = dec.size /\ dec'.data = dec.data
      /\ dec'.out = dec.out /\ dec'.checksum = dec.checksum
  <2>1. dec'.buf = dec.buf \o p
    BY <1>1, <1>5 DEF Decoders
  <2>2. dec'.buf \o wire' = dec.buf \o wire
    BY <1>5, <1>7, <2>1
  <2> QED
    BY <1>1, <1>5, <1>6, <2>2 DEF Decoders
<1>9. StreamTypes'
  BY <1>1, <1>4, <1>5, <1>8 DEF StreamTypes, Bounded
<1>10. PICK rest \in Framings : ToCome(rest) /\ Passed(rest)
  BY DEF StreamInv, Coming
<1>11. ToCome(rest)' /\ Passed(rest)'
  BY <1>1, <1>8, <1>10 DEF ToCome, Trailers, Passed, Begun
<1>12. Coming'
  BY <1>11 DEF Coming
<1> QED
  BY <1>1, <1>9, <1>12, Running

(* The end of an upload.                                                   *)
LEMMA EndSound ==
  ASSUME StreamInv, Streams!Flush \/ Streams!ConnectionLost \/ Streams!CheckTrailer
  PROVE  StreamInv'
<1>1. UNCHANGED <<upload, wire, dec, reply>> /\ dec \in Decoders
  BY DEF Streams!Flush, Streams!ConnectionLost, Streams!CheckTrailer, StreamInv, StreamTypes
<1>2. outcome' \in {"none", "decoded", "stored", "rejected", "lost"}
  BY DEF Streams!Flush, Streams!ConnectionLost, Streams!CheckTrailer
<1>3. Coming' /\ StreamTypes'
  BY <1>1, <1>2, NothingDecoded
<1>4. Concluded'
  BY <1>1 DEF Streams!Flush, Streams!ConnectionLost, Streams!CheckTrailer, StreamInv, Concluded
<1>5. reply = Streams!NoReply
  BY DEF Streams!Flush, Streams!ConnectionLost, Streams!CheckTrailer, StreamInv, ReplySound
<1>6. ReplySound'
  BY <1>1, <1>5 DEF ReplySound, Streams!NoReply
<1> QED
  BY <1>3, <1>4, <1>6 DEF StreamInv

----------------------------------------------------------------------------
(* Streams: the GET's steps.                                               *)

LEMMA Answering ==
  ASSUME StreamInv, outcome = "stored", UNCHANGED <<upload, wire, dec, outcome>>,
         reply'.status \in {0, 200, 206, 416, 500},
         reply'.status \in {200, 206} =>
           reply' \in Replies /\ Spans(Streams!Object)' /\ Sends(Streams!Object)'
  PROVE  StreamInv'
<1>1. Coming' /\ StreamTypes' /\ Concluded'
  BY NothingDecoded DEF StreamInv, StreamTypes, Concluded
<1>2. ReplySound'
  BY DEF ReplySound
<1> QED
  BY <1>1, <1>2 DEF StreamInv

LEMMA ObjectText == StreamInv => Streams!Object \in Seq(Bytes) /\ Len(Streams!Object) \in Nat
<1> SUFFICES ASSUME StreamInv PROVE Streams!Object \in Seq(Bytes) /\ Len(Streams!Object) \in Nat
  OBVIOUS
<1>1. dec.out \in Seq(Seq(Bytes)) /\ <<>> \in Seq(Bytes)
  BY DEF StreamInv, StreamTypes, Decoders
<1>2. Streams!FlattenSeq(dec.out) \in Seq(Bytes)
  BY <1>1, FlattenAppend
<1> QED
  BY <1>2 DEF Streams!Object

LEMMA GetSound ==
  ASSUME StreamInv, Streams!Get
  PROVE  StreamInv'
<1> DEFINE o == Streams!Object
           size == Len(o)
<1>1. /\ outcome = "stored" /\ UNCHANGED <<upload, wire, dec, outcome>>
      /\ o \in Seq(Bytes) /\ size \in Nat /\ o' = o
  BY ObjectText DEF Streams!Get, Streams!Object
<1>2. PICK range \in Streams!Header, encrypted \in BOOLEAN :
        LET spec == Streams!ParseRangeHeader(range, size) IN
         reply' =
           CASE spec.kind = "invalid" -> [status |-> 416]
             [] spec.kind # "invalid" /\ encrypted /\ Streams!Object = <<>> -> [status |-> 500]
             [] OTHER ->
                  [status |-> IF spec.kind = "full" THEN 200 ELSE 206, range |-> range,
                   start |-> spec.start, end |-> spec.end,
                   length |-> spec.end - spec.start + 1,
                   sliced |-> encrypted /\ spec.kind = "partial",
                   pos |-> IF encrypted THEN 0 ELSE spec.start,
                   sent |-> <<>>, open |-> TRUE]
  BY DEF Streams!Get
<1> DEFINE spec == Streams!ParseRangeHeader(range, size)
           answer ==
                  [status |-> IF spec.kind = "full" THEN 200 ELSE 206, range |-> range,
                   start |-> spec.start, end |-> spec.end,
                   length |-> spec.end - spec.start + 1,
                   sliced |-> encrypted /\ spec.kind = "partial",
                   pos |-> IF encrypted THEN 0 ELSE spec.start,
                   sent |-> <<>>, open |-> TRUE]
<1>3. \/ reply' = [status |-> 416]
      \/ reply' = [status |-> 500]
      \/ spec.kind # "invalid" /\ reply' = answer
  <2> HIDE DEF answer
  <2> QED
    BY <1>2 DEF answer
<1>4. CASE reply' = [status |-> 416] \/ reply' = [status |-> 500]
  <2>1. reply'.status \in {416, 500}
    BY <1>4
  <2> QED
    BY <1>1, <2>1, Answering
<1>5. CASE spec.kind # "invalid" /\ reply' = answer
  <2>1. PICK sp : sp = spec
    OBVIOUS
  <2>2. PICK m \in Nat : m = size
    BY <1>1
  <2>3. sp = Streams!ParseRangeHeader(range, m) /\ sp.kind # "invalid"
    BY <1>5, <2>1, <2>2
  <2>4. /\ sp.kind \in {"full", "partial"}
        /\ sp.start \in 0 .. m /\ sp.end \in -1 .. m - 1 /\ sp.start <= sp.end + 1
        /\ sp.kind = "full" => sp.start = 0 /\ sp.end = m - 1
        /\ sp.kind = "partial" => sp.start <= sp.end
        /\ \A i \in 0 .. m - 1 :
             i \in sp.start .. sp.end <=>
               CASE range.from = Streams!Absent /\ range.to = Streams!Absent -> TRUE
                 [] range.from = Streams!Absent /\ range.to # Streams!Absent ->
                      i >= m - range.to
                 [] range.from # Streams!Absent ->
                      range.from <= i /\ (range.to = Streams!Absent \/ i <= range.to)
    BY <2>3, RangeParsed
  <2>5. /\ reply'.status \in {200, 206} /\ reply'.range = range
        /\ reply'.start = sp.start /\ reply'.end = sp.end
        /\ reply'.length = sp.end - sp.start + 1
        /\ reply'.sliced = (encrypted /\ sp.kind = "partial")
        /\ reply'.pos = IF encrypted THEN 0 ELSE sp.start
        /\ reply'.sent = <<>> /\ reply'.open = TRUE
        /\ reply' = [status |-> reply'.status, range |-> reply'.range, start |-> reply'.start,
                     end |-> reply'.end, length |-> reply'.length, sliced |-> reply'.sliced,
                     pos |-> reply'.pos, sent |-> reply'.sent, open |-> reply'.open]
    <3> HIDE DEF spec
    <3> QED
      BY <1>5, <2>1
  <2>6. reply' \in Replies
    <3>1. reply'.start \in Nat /\ reply'.end \in Int /\ reply'.length \in Int /\ reply'.pos \in Nat
      BY <2>4, <2>5
    <3>2. reply'.sliced \in BOOLEAN /\ reply'.open \in BOOLEAN /\ reply'.sent \in Seq(Bytes)
      <4>1. reply'.sliced = (encrypted /\ sp.kind = "partial")
        BY <2>5
      <4>2. (encrypted /\ sp.kind = "partial") \in BOOLEAN
        BY Zenon
      <4>3. <<>> \in Seq(Bytes)
        OBVIOUS
      <4> QED
        BY <2>5, <4>1, <4>2, <4>3, Zenon
    <3>3. reply'.status \in {200, 206} /\ reply'.range \in Streams!Header
      BY <2>5
    <3>4. reply' = [status |-> reply'.status, range |-> reply'.range, start |-> reply'.start,
                    end |-> reply'.end, length |-> reply'.length, sliced |-> reply'.sliced,
                    pos |-> reply'.pos, sent |-> reply'.sent, open |-> reply'.open]
      BY <2>5
    <3> QED
      BY <3>1, <3>2, <3>3, <3>4 DEF Replies
  <2>7. Streams!Asked(range) = sp.start .. sp.end
    <3>1. \A i : i \in sp.start .. sp.end => i \in 0 .. m - 1
      BY <2>4
    <3> HIDE DEF o
    <3>2. \A i : i \in Streams!Asked(range) <=> i \in sp.start .. sp.end
      BY <2>2, <2>4, <3>1 DEF Streams!Asked, o
    <3> QED
      BY <3>2
  <2>8. Spans(o)'
    <3>1. Streams!Asked(reply.range)' = Streams!Asked(reply'.range)
      BY <1>1 DEF Streams!Asked
    <3>2. Streams!Asked(reply.range)' = sp.start .. sp.end
      BY <2>5, <2>7, <3>1
    <3>3. /\ sp.end <= m - 1 /\ sp.start <= sp.end + 1 /\ sp.start <= m
      BY <2>4
    <3>4. /\ reply'.end = sp.end /\ reply'.start = sp.start
          /\ reply'.length = reply'.end - reply'.start + 1
      BY <2>5
    <3>5. Len(o)' = m
      BY <1>1, <2>2
    <3> HIDE DEF o
    <3> QED
      BY <3>2, <3>3, <3>4, <3>5 DEF Spans
  <2>9. Sends(o)'
    <3>0. o' = o /\ Len(o) = m
      BY <1>1, <2>2
    <3> HIDE DEF o
    <3>a. /\ reply'.start = sp.start /\ reply'.end = sp.end /\ reply'.sent = <<>> /\ reply'.open = TRUE
          /\ sp.start \in Nat /\ sp.end \in Int /\ sp.start <= sp.end + 1 /\ sp.start <= m
      BY <2>4, <2>5
    <3>1. CASE encrypted /\ sp.kind = "partial"
      <4>1. Smallest(0, sp.end + 1) = 0
        BY <2>4, <3>1 DEF Smallest
      <4>2. SubSeq(o, sp.start + 1, 0) = <<>>
        BY <2>4, SubSeqEmpty
      <4>3. reply'.pos = 0 /\ reply'.sliced = TRUE /\ sp.start <= sp.end
        BY <2>4, <2>5, <3>1
      <4>4. reply'.sent = SubSeq(o, reply'.start + 1, Smallest(reply'.pos, reply'.end + 1))
        BY <3>a, <4>1, <4>2, <4>3
      <4>5. reply'.start <= reply'.end /\ reply'.pos <= m /\ (reply'.open <=> reply'.pos <= reply'.end)
        BY <2>2, <3>a, <4>3
      <4> QED
        BY <3>0, <4>3, <4>4, <4>5 DEF Sends
    <3>2. CASE ~(encrypted /\ sp.kind = "partial")
      <4>1. reply'.pos = sp.start
        BY <2>4, <2>5, <3>2
      <4>2. SubSeq(o, sp.start + 1, sp.start) = <<>>
        BY <2>4, SubSeqEmpty
      <4>3. reply'.sent = SubSeq(o, reply'.start + 1, reply'.pos)
        BY <3>a, <4>1, <4>2
      <4>4. reply'.start <= reply'.pos /\ reply'.pos <= reply'.end + 1 /\ reply'.open = TRUE
        BY <3>a, <4>1
      <4>5. reply'.sliced = FALSE
        BY <2>5, <3>2
      <4> QED
        BY <3>0, <4>3, <4>4, <4>5 DEF Sends
    <3> QED
      BY <3>1, <3>2
  <2> QED
    BY <1>1, <2>5, <2>6, <2>8, <2>9, Answering
<1> QED
  BY <1>3, <1>4, <1>5
(* Two parts of a span that touch, however the piece is cut.               *)
LEMMA SpanGrows ==
  ASSUME NEW S, NEW o \in Seq(S), NEW s \in Nat, NEW e \in Int, NEW p \in Nat, NEW n \in Nat \ {0},
         NEW f \in Nat, NEW t \in Nat,
         s <= e, p <= e, e <= Len(o) - 1, p + n <= Len(o), p + n - 1 >= s,
         f = IF p >= s THEN 0 ELSE s - p, t = IF n <= e - p + 1 THEN n ELSE e - p + 1
  PROVE  /\ SubSeq(o, s + 1, Smallest(p, e + 1)) \o SubSeq(SubSeq(o, p + 1, p + n), f + 1, t)
               = SubSeq(o, s + 1, Smallest(p + n, e + 1))
         /\ SubSeq(o, s + 1, Smallest(p + n, e + 1)) \in Seq(S)
         /\ p + t - 1 < e <=> p + n <= e
<1>0. Len(o) \in Nat
  OBVIOUS
<1>1. PICK a \in Nat : a = p + f
  OBVIOUS
<1>2. PICK c \in Nat : c = p + t
  OBVIOUS
<1>3. f + 1 \in 1 .. n /\ t \in 1 .. n
  BY <1>0
<1>4. s <= a /\ a <= c /\ c <= Len(o)
  BY <1>0, <1>1, <1>2
<1>5. c = Smallest(p + n, e + 1) /\ p = Smallest(p, e + 1)
  BY <1>0, <1>2 DEF Smallest
<1>6. SubSeq(SubSeq(o, p + 1, p + n), f + 1, t) = SubSeq(o, a + 1, c)
  <2>1. PICK i \in 1 .. Len(o) : i = p + 1
    BY <1>0
  <2>2. PICK j \in 1 .. Len(o) : j = p + n
    BY <1>0
  <2>0. j - i + 1 = n
    BY <2>1, <2>2
  <2>3. PICK k \in 1 .. j - i + 1 : k = f + 1
    <3>1. f + 1 \in 1 .. j - i + 1
      BY <1>3, <2>0
    <3> QED
      BY <3>1
  <2>4. t \in 1 .. j - i + 1
    BY <1>3, <2>0
  <2>5. SubSeq(SubSeq(o, i, j), k, t) = SubSeq(o, i + k - 1, i + t - 1)
    BY <2>4, SubSeqOfSubSeq
  <2>6. i + k - 1 = a + 1 /\ i + t - 1 = c
    BY <1>1, <1>2, <2>1, <2>3
  <2> QED
    BY <2>1, <2>2, <2>3, <2>5, <2>6
<1>7. SubSeq(o, s + 1, p) = SubSeq(o, s + 1, a)
  <2>1. CASE p >= s
    BY <1>1, <2>1
  <2>2. CASE p < s
    <3>1. a = s
      BY <1>1, <2>2
    <3>2. SubSeq(o, s + 1, p) = <<>>
      <4>1. p < s + 1 /\ p \in Int /\ s + 1 \in Int
        BY <2>2
      <4> QED
        BY <4>1, SubSeqEmpty
    <3>3. SubSeq(o, s + 1, s) = <<>>
      <4>1. s < s + 1 /\ s \in Int /\ s + 1 \in Int
        OBVIOUS
      <4> QED
        BY <4>1, SubSeqEmpty
    <3> QED
      BY <3>1, <3>2, <3>3
  <2> QED
    BY <2>1, <2>2
<1>8. SubSeq(o, s + 1, a) \o SubSeq(o, a + 1, c) = SubSeq(o, s + 1, c)
  BY <1>4, Extend
<1>9. SubSeq(o, s + 1, c) \in Seq(S)
  <2>1. s <= c
    BY <1>4
  <2> QED
    BY <1>4, <2>1, Span
<1>10. p + t - 1 < e <=> p + n <= e
  OBVIOUS
<1> QED
  BY <1>5, <1>6, <1>7, <1>8, <1>9, <1>10

(* The listener takes of a piece what lies in the span.                    *)
LEMMA SliceSound ==
  ASSUME NEW o \in Seq(Bytes), NEW piece, NEW n \in Nat \ {0},
         reply \in Replies, Spans(o), Sends(o), reply.sliced, reply.open,
         reply.pos + n <= Len(o), piece = SubSeq(o, reply.pos + 1, reply.pos + n),
         reply' = Streams!Slice(piece)
  PROVE  /\ reply' \in Replies /\ reply'.status = reply.status /\ reply'.range = reply.range
         /\ reply'.start = reply.start /\ reply'.end = reply.end /\ reply'.length = reply.length
         /\ reply'.sliced /\ reply'.pos = reply.pos + n /\ reply'.pos <= Len(o)
         /\ reply'.open <=> reply'.pos <= reply'.end
         /\ reply'.sent = SubSeq(o, reply'.start + 1, Smallest(reply'.pos, reply'.end + 1))
<1>1. PICK s \in Nat : s = reply.start
  BY DEF Replies
<1>2. PICK e \in Int : e = reply.end
  BY DEF Replies
<1>3. PICK p \in Nat : p = reply.pos
  BY DEF Replies
<1>4. /\ s <= e /\ p <= e /\ e <= Len(o) - 1 /\ p + n <= Len(o) /\ Len(o) \in Nat
      /\ reply.sent = SubSeq(o, s + 1, Smallest(p, e + 1)) /\ piece = SubSeq(o, p + 1, p + n)
  <2>1. s <= e /\ p <= e /\ reply.sent = SubSeq(o, s + 1, Smallest(p, e + 1))
    BY <1>1, <1>2, <1>3 DEF Sends
  <2>2. e <= Len(o) - 1 /\ Len(o) \in Nat
    BY <1>2 DEF Spans
  <2>3. p + n <= Len(o)
    BY <1>3
  <2>4. piece = SubSeq(o, p + 1, p + n)
    BY <1>3
  <2> QED
    BY <2>1, <2>2, <2>3, <2>4
<1>5. piece \in Seq(Bytes) /\ Len(piece) = n
  <2>1. PICK m \in Nat : m = p + n
    OBVIOUS
  <2>2. p <= m /\ m <= Len(o)
    BY <1>4, <2>1
  <2>3. SubSeq(o, p + 1, m) \in Seq(Bytes)
    BY <2>2, Span
  <2>4. Len(SubSeq(o, p + 1, m)) = m - p
    BY <2>2, Span
  <2>5. piece = SubSeq(o, p + 1, m)
    BY <1>4, <2>1
  <2>6. m - p = n
    BY <2>1
  <2> QED
    BY <2>3, <2>4, <2>5, <2>6
<1> DEFINE next == [reply EXCEPT !.pos = @ + Len(piece)]
           from == Streams!Larger(0, s - p)
           to == Streams!Smaller(Len(piece), e - p + 1)
<1>6. /\ next \in Replies /\ next.pos = p + n /\ next.start = s /\ next.end = e
      /\ next.sent = reply.sent /\ next.status = reply.status /\ next.range = reply.range
      /\ next.length = reply.length /\ next.sliced = reply.sliced /\ next.open = reply.open
  <2>1. next = [reply EXCEPT !.pos = p + n]
    BY <1>3, <1>5 DEF Replies
  <2>2. p + n \in Nat
    OBVIOUS
  <2> HIDE DEF next
  <2> QED
    BY <1>1, <1>2, <2>1, <2>2 DEF Replies
<1>7. reply' = IF p + n - 1 < s THEN next
               ELSE [next EXCEPT !.sent = @ \o SubSeq(piece, from + 1, to), !.open = p + to - 1 < e]
  <2>1. ~(p > e)
    BY <1>4
  <2> HIDE DEF next, from, to
  <2> QED
    BY <1>1, <1>2, <1>3, <1>5, <2>1 DEF Streams!Slice, next, from, to
<1>8. CASE p + n - 1 < s
  <2>1. reply' = next
    BY <1>7, <1>8
  <2>2. reply.sent = <<>>
    <3>1. Smallest(p, e + 1) = p /\ p < s + 1
      BY <1>4, <1>8 DEF Smallest
    <3>2. SubSeq(o, s + 1, p) = <<>>
      <4>1. p \in Int /\ s + 1 \in Int
        OBVIOUS
      <4> QED
        BY <3>1, <4>1, SubSeqEmpty
    <3> QED
      BY <1>4, <3>1, <3>2
  <2>3. SubSeq(o, s + 1, Smallest(p + n, e + 1)) = <<>>
    <3>1. PICK m \in Nat : m = p + n
      OBVIOUS
    <3>2. Smallest(m, e + 1) = m /\ m < s + 1
      BY <1>4, <1>8, <3>1 DEF Smallest
    <3>3. SubSeq(o, s + 1, m) = <<>>
      <4>1. m \in Int /\ s + 1 \in Int
        OBVIOUS
      <4> QED
        BY <3>2, <4>1, SubSeqEmpty
    <3> QED
      BY <3>1, <3>2, <3>3
  <2>4. p + n <= e
    BY <1>4, <1>8
  <2> HIDE DEF next
  <2>5. reply'.open <=> reply'.pos <= reply'.end
    BY <1>6, <2>1, <2>4
  <2>6. reply'.sent = SubSeq(o, reply'.start + 1, Smallest(reply'.pos, reply'.end + 1))
    BY <1>6, <2>1, <2>2, <2>3
  <2>7. reply'.pos <= Len(o)
    BY <1>4, <1>6, <2>1
  <2> QED
    BY <1>1, <1>2, <1>3, <1>6, <2>1, <2>5, <2>6, <2>7
<1>9. CASE p + n - 1 >= s
  <2>0. ~(p + n - 1 < s)
    BY <1>9
  <2>1. PICK f \in Nat : f = from /\ f = IF p >= s THEN 0 ELSE s - p
    <3>1. from = IF p >= s THEN 0 ELSE s - p
      BY DEF Streams!Larger
    <3> HIDE DEF from
    <3>2. from \in Nat
      BY <3>1
    <3> QED
      BY <3>1, <3>2
  <2>2. PICK t \in Nat : t = to /\ t = IF n <= e - p + 1 THEN n ELSE e - p + 1
    <3>1. to = IF n <= e - p + 1 THEN n ELSE e - p + 1
      BY <1>5 DEF Streams!Smaller
    <3> HIDE DEF to
    <3>2. to \in Nat
      <4>1. e - p + 1 \in Nat
        BY <1>4
      <4> QED
        BY <3>1, <4>1
    <3> QED
      BY <3>1, <3>2
  <2>3. /\ SubSeq(o, s + 1, Smallest(p, e + 1)) \o SubSeq(SubSeq(o, p + 1, p + n), f + 1, t)
              = SubSeq(o, s + 1, Smallest(p + n, e + 1))
        /\ SubSeq(o, s + 1, Smallest(p + n, e + 1)) \in Seq(Bytes)
        /\ p + t - 1 < e <=> p + n <= e
    BY <1>4, <1>9, <2>1, <2>2, SpanGrows
  <2>4. PICK x \in Seq(Bytes) : x = SubSeq(o, s + 1, Smallest(p + n, e + 1))
    BY <2>3
  <2>5. PICK open \in BOOLEAN : open = (p + t - 1 < e)
    <3>1. ASSUME NEW last \in Int PROVE (last < e) \in BOOLEAN
      OBVIOUS
    <3>2. p + t - 1 \in Int
      OBVIOUS
    <3>3. (p + t - 1 < e) \in BOOLEAN
      BY <3>1, <3>2, Zenon
    <3> QED
      BY <3>3, Zenon
  <2> HIDE DEF next, from, to
  <2>6. reply' = [next EXCEPT !.sent = next.sent \o SubSeq(piece, from + 1, to),
                             !.open = (p + to - 1 < e)]
    BY <1>6, <1>7, <2>0 DEF Replies
  <2>7. next.sent \o SubSeq(piece, from + 1, to) = x
    BY <1>4, <1>6, <2>1, <2>2, <2>3, <2>4
  <2>8. reply' = [next EXCEPT !.sent = x, !.open = open]
    BY <2>2, <2>5, <2>6, <2>7
  <2>9. /\ reply' \in Replies /\ reply'.pos = p + n /\ reply'.start = s /\ reply'.end = e
        /\ reply'.sent = x /\ reply'.open = open
        /\ reply'.status = reply.status /\ reply'.range = reply.range
        /\ reply'.length = reply.length /\ reply'.sliced = reply.sliced
    <3>1. /\ reply' \in Replies /\ reply'.pos = next.pos /\ reply'.start = next.start
          /\ reply'.end = next.end /\ reply'.sent = x /\ reply'.open = open
          /\ reply'.status = next.status /\ reply'.range = next.range
          /\ reply'.length = next.length /\ reply'.sliced = next.sliced
      <4>1. next \in Replies /\ x \in Seq(Bytes) /\ open \in BOOLEAN
        BY <1>6
      <4>2. PICK old \in Replies : old = next
        BY <4>1
      <4>3. PICK new : new = [old EXCEPT !.sent = x, !.open = open]
        OBVIOUS
      <4> HIDE <1>6, <1>7, <2>6, <2>7, <2>3
      <4>4. /\ new.pos = old.pos /\ new.start = old.start
            /\ new.end = old.end /\ new.sent = x /\ new.open = open
            /\ new.status = old.status /\ new.range = old.range
            /\ new.length = old.length /\ new.sliced = old.sliced
        BY <4>3 DEF Replies
      <4>5. new \in Replies
        BY <4>1, <4>3 DEF Replies
      <4> QED
        BY <2>8, <4>2, <4>3, <4>4, <4>5
    <3> QED
      BY <1>6, <3>1
  <2>10. reply'.open <=> reply'.pos <= reply'.end
    BY <2>3, <2>5, <2>9
  <2>11. reply'.sent = SubSeq(o, reply'.start + 1, Smallest(reply'.pos, reply'.end + 1))
    BY <2>4, <2>9
  <2>12. reply'.pos <= Len(o)
    BY <1>4, <2>9
  <2> QED
    BY <1>1, <1>2, <1>3, <2>9, <2>10, <2>11, <2>12
<1> QED
  BY <1>8, <1>9

LEMMA SourceSound ==
  ASSUME StreamInv, Streams!SourceData \/ Streams!SourceEnd
  PROVE  StreamInv'
<1> DEFINE o == Streams!Object
           s == reply.start
           e == reply.end
           p == reply.pos
<1>1. /\ reply.status \in {200, 206} /\ reply.open /\ UNCHANGED <<upload, wire, dec, outcome>>
      /\ o \in Seq(Bytes) /\ Len(o) \in Nat /\ o' = o
  BY ObjectText DEF Streams!SourceData, Streams!SourceEnd, Streams!Streaming, Streams!Object
<1>2. outcome = "stored" /\ reply \in Replies /\ Spans(o) /\ Sends(o)
  BY <1>1 DEF StreamInv, ReplySound, Streams!NoReply
<1>3. /\ s \in Nat /\ e \in Int /\ p \in Nat /\ e <= Len(o) - 1 /\ s <= e + 1
  BY <1>1, <1>2 DEF Replies, Spans
<1>4. ASSUME reply'.status = reply.status, reply'.range = reply.range, reply'.start = s,
             reply'.end = e, reply'.length = reply.length
      PROVE  Spans(o)' /\ reply'.status \in {200, 206}
  <2>1. Streams!Asked(reply.range)' = Streams!Asked(reply.range)
    BY <1>1, <1>4 DEF Streams!Asked
  <2> HIDE DEF o
  <2> QED
    BY <1>1, <1>2, <1>4, <2>1 DEF Spans
<1>5. CASE Streams!SourceData /\ reply.sliced
  <2>1. PICK n \in 1 .. MaxPiece :
          /\ p + n - 1 <= Len(o) - 1
          /\ reply' = Streams!Slice(SubSeq(o, p + 1, p + n))
    BY <1>5 DEF Streams!SourceData, Streams!LastByte
  <2>2. n \in Nat \ {0} /\ reply.pos + n <= Len(o)
    BY <1>1, <1>3, <2>1, StreamNumbers
  <2>3. PICK oo \in Seq(Bytes) : oo = o
    BY <1>1
  <2>4. PICK piece : piece = SubSeq(oo, reply.pos + 1, reply.pos + n)
    OBVIOUS
  <2>5. /\ reply' = Streams!Slice(piece) /\ Spans(oo) /\ Sends(oo) /\ reply.pos + n <= Len(oo)
    BY <1>2, <2>1, <2>2, <2>3, <2>4
  <2>6. /\ reply' \in Replies /\ reply'.status = reply.status /\ reply'.range = reply.range
        /\ reply'.start = reply.start /\ reply'.end = reply.end /\ reply'.length = reply.length
        /\ reply'.sliced /\ reply'.pos = reply.pos + n /\ reply'.pos <= Len(oo)
        /\ reply'.open <=> reply'.pos <= reply'.end
        /\ reply'.sent = SubSeq(oo, reply'.start + 1, Smallest(reply'.pos, reply'.end + 1))
    BY <1>1, <1>2, <1>5, <2>2, <2>4, <2>5, SliceSound
  <2>7. Spans(o)' /\ reply'.status \in {200, 206}
    BY <1>4, <2>6
  <2>8. Sends(o)'
    <3>1. s <= e
      BY <1>2, <1>5 DEF Sends
    <3> HIDE DEF o
    <3> QED
      BY <1>1, <2>3, <2>6, <3>1 DEF Sends
  <2> QED
    BY <1>1, <1>2, <2>6, <2>7, <2>8, Answering
<1>6. CASE ~reply.sliced
  <2>0. s <= p /\ p <= e + 1 /\ reply.sent = SubSeq(o, s + 1, p) /\ reply.sliced = FALSE
    BY <1>2, <1>6 DEF Sends, Replies
  <2>1. CASE Streams!SourceData
    <3>1. PICK n \in 1 .. MaxPiece :
            /\ p + n - 1 <= e
            /\ reply' = [reply EXCEPT !.pos = @ + n, !.sent = @ \o SubSeq(o, p + 1, p + n)]
      BY <1>6, <2>1 DEF Streams!SourceData, Streams!LastByte
    <3>2. PICK c \in Nat : c = p + n
      BY <1>3, <3>1, StreamNumbers
    <3>3. s \in Nat /\ p \in Nat /\ s <= p /\ p <= c /\ c <= e + 1 /\ c <= Len(o)
      <4>1. n \in Nat /\ p + n - 1 <= e /\ s <= p
        BY <2>0, <3>1, StreamNumbers
      <4>2. s \in Nat /\ p \in Nat /\ e \in Int /\ e <= Len(o) - 1 /\ Len(o) \in Nat
        BY <1>1, <1>3
      <4> HIDE DEF s, p, e, o
      <4> QED
        BY <3>2, <4>1, <4>2
    <3> HIDE DEF s, p, e, o
    <3>4. SubSeq(o, s + 1, p) \o SubSeq(o, p + 1, c) = SubSeq(o, s + 1, c)
      BY <1>1, <3>3, Extend
    <3>5. SubSeq(o, s + 1, c) \in Seq(Bytes)
      <4>1. s <= c
        BY <3>3
      <4> QED
        BY <1>1, <3>3, <4>1, Span
    <3>6. reply' = [reply EXCEPT !.pos = c, !.sent = SubSeq(o, s + 1, c)]
      BY <1>2, <2>0, <3>1, <3>2, <3>4 DEF Replies, p
    <3>7. /\ reply' \in Replies /\ reply'.status = reply.status /\ reply'.range = reply.range
          /\ reply'.start = s /\ reply'.end = e /\ reply'.length = reply.length
          /\ reply'.sliced = FALSE /\ reply'.pos = c /\ reply'.sent = SubSeq(o, s + 1, c)
          /\ reply'.open = reply.open
      BY <1>2, <2>0, <3>5, <3>6 DEF Replies, s, e
    <3>8. Spans(o)' /\ reply'.status \in {200, 206}
      BY <1>4, <3>7
    <3>9. Sends(o)'
      <4>1. s <= c /\ c <= e + 1
        BY <3>3
      <4> QED
        BY <1>1, <3>7, <4>1 DEF Sends
    <3> QED
      BY <1>1, <1>2, <3>7, <3>8, <3>9, Answering DEF o
  <2>2. CASE Streams!SourceEnd
    <3>1. reply' = [reply EXCEPT !.open = FALSE] /\ p > e
      BY <1>6, <2>2 DEF Streams!SourceEnd, Streams!LastByte
    <3>2. p = e + 1
      BY <1>3, <2>0, <3>1
    <3>3. /\ reply' \in Replies /\ reply'.status = reply.status /\ reply'.range = reply.range
          /\ reply'.start = s /\ reply'.end = e /\ reply'.length = reply.length
          /\ reply'.sliced = FALSE /\ reply'.pos = p /\ reply'.sent = reply.sent
          /\ reply'.open = FALSE
      BY <1>2, <2>0, <3>1 DEF Replies
    <3>4. Spans(o)' /\ reply'.status \in {200, 206}
      BY <1>4, <3>3
    <3>5. Sends(o)'
      <4> HIDE DEF o, s, p, e
      <4> QED
        BY <1>1, <2>0, <3>2, <3>3 DEF Sends
    <3> QED
      BY <1>1, <1>2, <3>3, <3>4, <3>5, Answering
  <2> QED
    BY <2>1, <2>2
<1>7. CASE Streams!SourceEnd /\ reply.sliced
  <2>1. p > Len(o) - 1 /\ p <= e
    BY <1>1, <1>2, <1>7 DEF Streams!SourceEnd, Streams!LastByte, Sends
  <2> QED
    BY <1>1, <1>3, <2>1
<1> QED
  BY <1>5, <1>6, <1>7

LEMMA StreamNext ==
  ASSUME StreamInv, Streams!Next
  PROVE  StreamInv'
<1>1. CASE Streams!LineTooLong
  <2>1. outcome = "none" /\ Streams!Reject
    BY <1>1 DEF Streams!LineTooLong, Streams!Decoding
  <2> QED
    BY <2>1, RejectSound
<1> QED
  BY <1>1, ReadSizeSound, ReadDataSound, ReadCrlfSound, ReadTrailerSound, ReceiveSound, EndSound,
     GetSound, SourceSound DEF Streams!Next

LEMMA StreamUnchanged ==
  ASSUME StreamInv, UNCHANGED streamVars
  PROVE  StreamInv'
<1>1. Coming' /\ StreamTypes' /\ Concluded'
  BY NothingDecoded DEF StreamInv, StreamTypes, Concluded, streamVars
<1>2. ReplySound'
  BY DEF streamVars, StreamInv, ReplySound, Spans, Sends, Streams!Object, Streams!Asked
<1> QED
  BY <1>1, <1>2 DEF StreamInv
(* Requests that stay where they are.                                      *)
LEMMA OthersSound ==
  ASSUME AccessInv, AccessTypes', KeysGrow, now <= now', UNCHANGED req, Watch
  PROVE  AccessInv'
<1> SUFFICES ASSUME NEW r \in Reqs PROVE Sound(r)'
  BY DEF AccessInv
<1>1. CASE At(r, "idle")
  BY <1>1 DEF Sound, At
<1>2. CASE ~At(r, "idle")
  <2>1. seen[r] \subseteq seen'[r]
    BY <1>2, Seeing DEF At
  <2>2. now' \in Nat
    BY DEF AccessTypes, TableTypes
  <2> QED
    BY <2>1, <2>2, SoundStays DEF AccessInv
<1> QED
  BY <1>1, <1>2

LEMMA AdministerSound ==
  ASSUME AccessInv, Administer, Watch
  PROVE  AccessInv'
<1>1. AccessTypes' /\ KeysGrow /\ UNCHANGED <<req, now>> /\ now \in Nat
  BY AdministerTypes DEF AccessInv, AccessTypes, TableTypes
<1> QED
  BY <1>1, OthersSound

LEMMA TickSound ==
  ASSUME AccessInv, Tick, Watch
  PROVE  AccessInv'
<1>1. /\ AccessTypes /\ now \in Nat /\ now' = now + 1
      /\ UNCHANGED <<buckets, stored, keys, domains, urls, admin, req>>
  BY DEF AccessInv, AccessTypes, TableTypes, Tick, tables
<1>2. LiveDomains' = LiveDomains /\ Existing' = Existing
  BY <1>1 DEF LiveDomains, Existing
<1>3. \A url \in urls : url.minted <= now'
  <2> SUFFICES ASSUME NEW url \in urls PROVE url.minted <= now'
    OBVIOUS
  <2>1. url \in Url /\ url.minted <= now
    BY <1>1 DEF AccessTypes, TableTypes
  <2> QED
    BY <1>1, <2>1 DEF Url
<1>4. AccessTypes'
  BY <1>1, <1>2, <1>3 DEF AccessTypes, TableTypes
<1> QED
  BY <1>1, <1>4, KeysSame, OthersSound

LEMMA AccessInit ==
  ASSUME Init
  PROVE  AccessInv
<1>1. \A r \in Reqs : At(r, "idle")
  BY DEF Init, At, Idle
<1> QED
  BY <1>1, AccessInitTypes DEF AccessInv, Sound

LEMMA AccessNext ==
  ASSUME AccessInv, Next
  PROVE  AccessInv'
<1>1. CASE Administer
  BY <1>1, AdministerSound DEF Next
<1>2. CASE Tick
  BY <1>2, TickSound DEF Next
<1>3. CASE Serve
  <2>1. PICK r \in Reqs :
          \/ Ask(r) \/ AskBuckets(r) \/ AskHost(r) \/ ResolveHost(r) \/ ReadBucket(r)
          \/ LookUpKey(r) \/ Verify(r) \/ Act(r) \/ ListBuckets(r)
    BY <1>3 DEF Serve
  <2>2. Watch
    BY DEF Next
  <2>3. CASE Ask(r) \/ AskBuckets(r)
    BY <2>2, <2>3, AskSound
  <2>4. CASE AskHost(r)
    BY <2>2, <2>4, AskHostSound
  <2>5. CASE ResolveHost(r)
    BY <2>2, <2>5, ResolveSound
  <2>6. CASE ReadBucket(r)
    BY <2>2, <2>6, BucketSound
  <2>7. CASE LookUpKey(r)
    BY <2>2, <2>7, KeySound
  <2>8. CASE Verify(r)
    BY <2>2, <2>8, VerifySound
  <2>9. CASE Act(r)
    BY <2>2, <2>9, ActSound
  <2>10. CASE ListBuckets(r)
    BY <2>2, <2>10, ListBucketsSound
  <2> QED
    BY <2>1, <2>3, <2>4, <2>5, <2>6, <2>7, <2>8, <2>9, <2>10
<1> QED
  BY <1>1, <1>2, <1>3 DEF Next

LEMMA AccessUnchanged ==
  ASSUME AccessInv, UNCHANGED vars
  PROVE  AccessInv'
<1>1. UNCHANGED <<buckets, stored, keys, domains, urls, admin, req, seen, now>>
  BY DEF vars
<1>2. /\ LiveKeys' = LiveKeys /\ LiveDomains' = LiveDomains /\ Existing' = Existing
  BY <1>1 DEF LiveKeys, LiveDomains, Existing
<1>3. AccessTypes'
  BY <1>1, <1>2 DEF AccessInv, AccessTypes, TableTypes
<1>4. KeysGrow /\ now <= now' /\ now' \in Nat
  BY <1>1, KeysSame DEF AccessInv, AccessTypes, TableTypes
<1>5. ASSUME NEW r \in Reqs PROVE Sound(r)'
  BY <1>1, <1>4, SoundStays DEF AccessInv
<1> QED
  BY <1>3, <1>5 DEF AccessInv

----------------------------------------------------------------------------
(* The services together.                                                  *)

ServicesInv ==
  /\ part \in {"access", "streams", "metering"}
  /\ part = "access" => AccessInv
  /\ part = "streams" => StreamInv
  /\ part = "metering" => MeterInv

LEMMA ServicesInvariant == ServicesSpec => []ServicesInv
<1>1. ServicesInit => ServicesInv
  BY AccessInit, StreamInit, MeterInit DEF ServicesInit, ServicesInv
<1>2. ASSUME ServicesInv, [ServicesNext]_<<part, vars, streamVars, meterVars>>
      PROVE  ServicesInv'
  <2>1. UNCHANGED part
    BY <1>2 DEF ServicesNext
  <2>2. part = "access" => AccessInv'
    BY <1>2, AccessNext, AccessUnchanged DEF ServicesNext, ServicesInv
  <2>3. part = "streams" => StreamInv'
    BY <1>2, StreamNext, StreamUnchanged DEF ServicesNext, ServicesInv
  <2>4. part = "metering" => MeterInv'
    BY <1>2, MeterNext, MeterUnchanged DEF ServicesNext, ServicesInv
  <2> QED
    BY <1>2, <2>1, <2>2, <2>3, <2>4 DEF ServicesInv
<1> QED
  BY <1>1, <1>2, PTL DEF ServicesSpec

(* The tables, the decoder and the reply, and the metering keep the shapes *)
(* their code gives them: a host has one live domain, objects lie in       *)
(* buckets that exist, no chunk passed on is empty or over the limit       *)
(* (api/admin.ts, s3.ts, aws-chunked.ts, usage.ts).                        *)
THEOREM ServicesTypeCorrect == ServicesSpec => []ServicesTypeOK
<1>1. ServicesInv => ServicesTypeOK
  <2>1. AccessInv => TypeOK
    BY TablesOK DEF AccessInv
  <2>2. StreamInv => Streams!TypeOK
    BY StreamInvHolds
  <2>3. MeterInv => Metering!TypeOK
    BY DEF MeterInv, MeterTypes
  <2> QED
    BY <2>1, <2>2, <2>3 DEF ServicesInv, ServicesTypeOK
<1> QED
  BY <1>1, ServicesInvariant, PTL

(* Every object served, listing shown, write and deletion was allowed at a *)
(* moment of its request, whatever administrators change meanwhile; and a  *)
(* presigned URL is good for its object until its date and life, cut to    *)
(* whole seconds, are over, and no longer (s3auth.ts, s3.ts, public.ts).   *)
THEOREM GivenWhatWasAllowed == ServicesSpec => []RequestsAllowed
<1>1. ServicesInv => RequestsAllowed
  BY AccessInvHolds DEF ServicesInv, RequestsAllowed
<1> QED
  BY <1>1, ServicesInvariant, PTL

(* However the framed body is cut up on its way, the decoder passes on     *)
(* nothing but the client's chunks, in order, if they are signed or arrive *)
(* as they were sent, and only a complete body is stored (aws-chunked.ts). *)
THEOREM OnlyTheClientsChunks == ServicesSpec => []OnlySentPayload
<1>1. ServicesInv => OnlySentPayload
  BY StreamInvHolds DEF ServicesInv, OnlySentPayload
<1> QED
  BY <1>1, ServicesInvariant, PTL

(* A GET sends the bytes its Range header asks for, in order and each      *)
(* once, as many as it announced, however the file's bytes arrive          *)
(* (range.ts parseRangeHeader, storage/crypto.ts sliceStream).             *)
THEOREM RangeServedWhole == ServicesSpec => []RangeServed
<1>1. ServicesInv => RangeServed
  BY StreamInvHolds DEF ServicesInv, RangeServed
<1> QED
  BY <1>1, ServicesInvariant, PTL

(* A GET of a container's log is billed at most once by polls that do not  *)
(* overlap, and a poll that fails loses none but those of the moment       *)
(* between its question and its snapshot (usage.ts).                       *)
THEOREM BilledOnce == ServicesSpec => []Metered
<1>1. ServicesInv => Metered
  BY MeterTwice DEF ServicesInv, Metered
<1> QED
  BY <1>1, ServicesInvariant, PTL

(* Access by itself, without the services around it.                       *)
THEOREM AccessSound == Spec => []AccessHolds
<1>1. Init => AccessInv
  BY AccessInit
<1>2. AccessInv /\ [Next]_vars => AccessInv'
  BY AccessNext, AccessUnchanged
<1>3. AccessInv => AccessHolds
  BY AccessInvHolds
<1> QED
  BY <1>1, <1>2, <1>3, PTL DEF Spec

=============================================================================
