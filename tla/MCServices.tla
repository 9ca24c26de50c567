----------------------------- MODULE MCServices -----------------------------
(***************************************************************************)
(* Small instances of the services around the store that share no state    *)
(* with one another: the access rules, the streams and the metering.  A    *)
(* behaviour is one of the part it begins with; the variables of the       *)
(* others stay None.                                                       *)
(***************************************************************************)
EXTENDS Access, TLC

CONSTANTS
  private, public, asset, site,
  Digits, Signatures, Bodies, Ranges, MaxLine, MaxChunk, MaxPiece,    \* of Streams
  Gets, Pollers, Retention, MaxClock, MaxPolls    \* of Metering

ASSUME ServicesAssumption ==
  /\ Digits \in Seq(STRING \ {"r"}) /\ Digits # <<>> /\ Signatures \in Seq(STRING \ {"r"})
  /\ \A m, n \in 1 .. Len(Digits) : Digits[m] = Digits[n] => m = n
  /\ \A body \in Bodies :
       /\ body \in Seq(Seq(STRING)) /\ Len(body) <= Len(Signatures)
       /\ \A n \in 1 .. Len(body) : Len(body[n]) \in 1 .. Len(Digits) - 1
  /\ Ranges \subseteq Nat /\ {MaxLine, MaxChunk, MaxPiece} \subseteq Nat
  /\ Retention \in Nat /\ MaxClock \in Nat \ {0} /\ MaxPolls \in Nat

VARIABLES part
VARIABLES upload, wire, dec, outcome, reply
VARIABLES clock, log, snapshots, poll, polls, overlapped

streamVars == <<upload, wire, dec, outcome, reply>>
meterVars == <<clock, log, snapshots, poll, polls, overlapped>>

Streams == INSTANCE Streams
Metering == INSTANCE Metering WITH now <- clock, MaxTime <- MaxClock

MCBuckets == [b \in Buckets |-> IF b = private THEN "private" ELSE "public"]
MCKeys == <<[permission |-> "FULL", filter |-> None, live |-> TRUE]>>
MCDomains == <<[host |-> asset, bucket |-> private, live |-> TRUE]>>
MCSubdomainOf == [h \in Hosts |-> IF h = site THEN public ELSE None]
MCClocks == {-1}
MCDigits == <<"0", "1", "2", "3">>
MCSignatures == <<"A", "B">>
MCBodies ==
  {<<>>, <<<<"x">>>>, <<<<"r", "n">>>>, <<<<"x", "r">>, <<"n">>>>, <<<<"1">>, <<"r", "n">>>>,
   <<<<"x", "r", "n">>>>}

Symmetry == Permutations(Gets) \cup Permutations(Pollers)

NoAccess ==
  /\ buckets = None /\ stored = None /\ keys = None /\ domains = None /\ urls = None
  /\ admin = None /\ req = None /\ seen = None /\ now = None /\ changes = None
NoStreams == upload = None /\ wire = None /\ dec = None /\ outcome = None /\ reply = None
NoMetering ==
  /\ clock = None /\ log = None /\ snapshots = None /\ poll = None /\ polls = None
  /\ overlapped = None

ServicesInit ==
  \/ part = "access" /\ Init /\ NoStreams /\ NoMetering
  \/ part = "streams" /\ Streams!Init /\ NoAccess /\ NoMetering
  \/ part = "metering" /\ Metering!Init /\ NoAccess /\ NoStreams

ServicesNext ==
  \/ part = "access" /\ Next /\ UNCHANGED <<part, streamVars, meterVars>>
  \/ part = "streams" /\ Streams!Next /\ UNCHANGED <<part, vars, meterVars>>
  \/ part = "metering" /\ Metering!Next /\ UNCHANGED <<part, vars, streamVars>>

ServicesSpec == ServicesInit /\ [][ServicesNext]_<<part, vars, streamVars, meterVars>>

----------------------------------------------------------------------------
(* Each property is one of its part; see the module that defines it.       *)

(* The variables of the part have the shapes its code gives them.          *)
ServicesTypeOK ==
  CASE part = "access" -> TypeOK
    [] part = "streams" -> Streams!TypeOK
    [] part = "metering" -> Metering!TypeOK

(* Requests get what the tables allowed while they ran, and presigned URLs *)
(* work for as long as they say.                                           *)
RequestsAllowed == part = "access" => AccessHolds

(* However an upload's framing is cut up, only the client's chunks are     *)
(* passed on, and only a complete body is stored.                          *)
OnlySentPayload == part = "streams" => Streams!OnlySentPayload

(* A GET sends exactly the bytes of its range, as many as it announced.    *)
RangeServed == part = "streams" => Streams!RangeServed

(* Polls that do not overlap count no GET twice, and failed ones lose none *)
(* outside the moment between a question and its snapshot.                 *)
Metered == part = "metering" => Metering!Metered
=============================================================================
