------------------------------ MODULE Archive ------------------------------
(***************************************************************************)
(* What the writer promises its readers: the bucket is an archive of       *)
(* chunks.  A chunk appears in one step, with all its messages, and never  *)
(* disappears.  It never changes either, unless the writer has opened it   *)
(* again: the chunker's guard knows the local files only, and those are    *)
(* removed when their retention runs out.                                  *)
(***************************************************************************)
CONSTANTS
  Chunks,    \* chunk numbers of one stream
  Messages   \* the messages a chunk may hold

VARIABLES
  published,  \* chunk -> its messages, {} while not published
  reopened    \* chunks that the writer has opened again after publishing them

vars == <<published, reopened>>

Init == published = [c \in Chunks |-> {}] /\ reopened = {}

Contents == (SUBSET Messages) \ {{}}

Publish(c, msgs) ==
  /\ published[c] = {}
  /\ published' = [published EXCEPT ![c] = msgs]
  /\ UNCHANGED reopened

\* Readers see nothing of this until the chunk is uploaded again.
Reopen(c) ==
  /\ published[c] # {}
  /\ reopened' = reopened \cup {c}
  /\ UNCHANGED published

Replace(c, msgs) ==
  /\ c \in reopened
  /\ published' = [published EXCEPT ![c] = msgs]
  /\ UNCHANGED reopened

Next ==
  \/ \E c \in Chunks, msgs \in Contents : Publish(c, msgs) \/ Replace(c, msgs)
  \/ \E c \in Chunks : Reopen(c)

Spec == Init /\ [][Next]_vars
=============================================================================
