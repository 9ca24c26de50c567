------------------------------ MODULE Metering ------------------------------
(***************************************************************************)
(* Usage metering: the tenant logs the GETs it serves, and the platform's  *)
(* hourly loop and POST /api/meter poll it for what was logged since the   *)
(* last snapshot.  A poll's three queries and its insert are separate      *)
(* awaits, it may fail at any of them, and two polls may overlap.  The     *)
(* clock counts the milliseconds in which something happens.               *)
(***************************************************************************)
EXTENDS Integers, FiniteSets

CONSTANTS
  Gets,         \* GETs that clients make
  Pollers,      \* slots for polls in flight
  Retention,    \* LOG_RETENTION_DAYS
  MaxTime,      \* bound on the clock
  MaxPolls      \* bound on the polls

VARIABLES
  now,
  log,         \* log[g]: [at, kept] of g's RequestLog row, at = 0 before g
  snapshots,   \* UsageSnapshot rows, with what they count and when it was asked
  poll,        \* poll[p]: the poll in slot p
  polls,
  overlapped   \* history: a poll began while another was under way

vars == <<now, log, snapshots, poll, polls, overlapped>>

----------------------------------------------------------------------------

Time == 0 .. MaxTime
LogRow == [at : Time, kept : BOOLEAN]
Snapshot == [since : Time, at : Time, summed : Time, counted : Time,
             bytes : SUBSET Gets, requests : SUBSET Gets]

Idle == [pc |-> "idle"]

Tick == now < MaxTime /\ now' = now + 1 /\ UNCHANGED <<log, snapshots, poll, polls, overlapped>>

(* GetObject inserts a row with the length it announced.                   *)
LogRequest(g) ==
  /\ log[g].at = 0
  /\ log' = [log EXCEPT ![g] = [at |-> now, kept |-> TRUE]]
  /\ UNCHANGED <<now, snapshots, poll, polls, overlapped>>

SweepRequestLogs ==
  /\ log' = [g \in Gets |-> [log[g] EXCEPT !.kept = @ /\ log[g].at >= now - Retention]]
  /\ log' # log
  /\ UNCHANGED <<now, snapshots, poll, polls, overlapped>>

(* Mutant: rows of the very millisecond of the last snapshot as well.      *)
LoggedFrom(since) == {g \in Gets : log[g].kept /\ log[g].at >= since}

(* createdAt > since; without a snapshot since is 0, and no row's at is.   *)
LoggedSince(since) == {g \in Gets : log[g].kept /\ log[g].at > since}

LastSnapshot ==
  IF snapshots = {} THEN 0
  ELSE CHOOSE t \in Time : /\ \E s \in snapshots : s.at = t
                           /\ \A s \in snapshots : s.at <= t

PollBegin(p) ==
  /\ poll[p] = Idle /\ polls < MaxPolls
  /\ poll' = [poll EXCEPT ![p] = [pc |-> "sum", since |-> LastSnapshot]]
  /\ polls' = polls + 1
  /\ overlapped' = (overlapped \/ \E q \in Pollers : poll[q] # Idle)
  /\ UNCHANGED <<now, log, snapshots>>

(* GET /api/admin/usage sums the bytes and then counts the requests.       *)
SumBytes(p) ==
  /\ poll[p].pc = "sum"
  /\ poll' = [poll EXCEPT ![p] = [pc |-> "count", since |-> @.since, summed |-> now,
                                  bytes |-> LoggedSince(@.since)]]
  /\ UNCHANGED <<now, log, snapshots, polls, overlapped>>

CountRequests(p) ==
  /\ poll[p].pc = "count"
  /\ poll' = [poll EXCEPT ![p] = [pc |-> "record", since |-> @.since, summed |-> @.summed,
                                  bytes |-> @.bytes, counted |-> now,
                                  requests |-> LoggedSince(@.since)]]
  /\ UNCHANGED <<now, log, snapshots, polls, overlapped>>

(* The row's time is that of its insert, not that of the answer.           *)
RecordSnapshot(p) ==
  /\ poll[p].pc = "record"
  /\ snapshots' = snapshots \cup
       {[since |-> poll[p].since, at |-> now, summed |-> poll[p].summed,
         counted |-> poll[p].counted, bytes |-> poll[p].bytes,
         requests |-> poll[p].requests]}
  /\ poll' = [poll EXCEPT ![p] = Idle]
  /\ UNCHANGED <<now, log, polls, overlapped>>

(* No tenant, no answer within 30 s, an error answered, a failed insert.   *)
PollFails(p) ==
  /\ poll[p] # Idle
  /\ poll' = [poll EXCEPT ![p] = Idle]
  /\ UNCHANGED <<now, log, snapshots, polls, overlapped>>

----------------------------------------------------------------------------

Init ==
  /\ now = 1
  /\ log = [g \in Gets |-> [at |-> 0, kept |-> FALSE]]
  /\ snapshots = {}
  /\ poll = [p \in Pollers |-> Idle]
  /\ polls = 0 /\ overlapped = FALSE

Next ==
  \/ Tick \/ SweepRequestLogs
  \/ \E g \in Gets : LogRequest(g)
  \/ \E p \in Pollers :
       PollBegin(p) \/ SumBytes(p) \/ CountRequests(p) \/ RecordSnapshot(p) \/ PollFails(p)

Spec == Init /\ [][Next]_vars

----------------------------------------------------------------------------
(* Properties.                                                             *)

(* Rows and snapshots have the shapes of their tables.                     *)
TypeOK ==
  /\ now \in Time /\ polls \in 0 .. MaxPolls /\ overlapped \in BOOLEAN
  /\ log \in [Gets -> LogRow]
  /\ \A s \in snapshots : s \in Snapshot /\ s.summed <= s.counted /\ s.counted <= s.at

(* Nothing is counted by two snapshots unless two polls overlapped.        *)
NothingTwice ==
  ~overlapped => \A s, t \in snapshots : s # t =>
    s.requests \cap t.requests = {} /\ s.bytes \cap t.bytes = {}

(* A GET that some poll asked about in time, before its row was swept, is  *)
(* counted by a snapshot, unless it was logged between a poll's question   *)
(* and its snapshot's insert.  So failed polls lose nothing.               *)
NothingLost ==
  \A g \in Gets : LET t == log[g].at IN
    /\ (t > 0 /\ \E s \in snapshots : s.counted > t /\ s.at <= t + Retention) =>
         \E s \in snapshots : g \in s.requests \/ (s.counted <= t /\ t <= s.at)
    /\ (t > 0 /\ \E s \in snapshots : s.summed > t /\ s.at <= t + Retention) =>
         \E s \in snapshots : g \in s.bytes \/ (s.summed <= t /\ t <= s.at)

(* The bill counts everything once.                                        *)
Metered == NothingTwice /\ NothingLost

=============================================================================
