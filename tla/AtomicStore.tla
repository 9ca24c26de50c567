---------------------------- MODULE AtomicStore ----------------------------
(***************************************************************************)
(* What a client of one bucket is entitled to expect: a map from keys to   *)
(* payloads in which every write, deletion and read happens at one moment, *)
(* and a read that finds the key returns the payload last written, under   *)
(* that payload's ETag.                                                    *)
(***************************************************************************)
CONSTANTS Keys, Contents, None, NoReply

VARIABLES
  content,  \* content[k]: the payload of k, or None
  reply     \* what the last successful read returned

vars == <<content, reply>>

Init ==
  /\ content = [k \in Keys |-> None]
  /\ reply = NoReply

Write(k, c) ==
  /\ content' = [content EXCEPT ![k] = c]
  /\ UNCHANGED reply

Remove(k) ==
  /\ content[k] # None
  /\ content' = [content EXCEPT ![k] = None]
  /\ UNCHANGED reply

RemoveAll ==
  /\ content' = [k \in Keys |-> None]
  /\ UNCHANGED reply

Read(k) ==
  /\ content[k] # None
  /\ reply' = [etag |-> content[k], body |-> content[k]]
  /\ UNCHANGED content

Next ==
  \/ \E k \in Keys : Remove(k) \/ Read(k)
  \/ \E k \in Keys, c \in Contents : Write(k, c)
  \/ RemoveAll

Spec == Init /\ [][Next]_vars
=============================================================================
