--------------------------- MODULE DurableStore ---------------------------
(***************************************************************************)
(* What the file backend promises of its writes: each one is applied       *)
(* atomically, one that was reported as failed has no effect, then or      *)
(* later, and a restart keeps everything, or, where the store is fragile,  *)
(* everything or nothing.                                                  *)
(*                                                                         *)
(* The store's content is the set of writes that it holds.                 *)
(***************************************************************************)
CONSTANTS
  Op,           (* Writes.                                                 *)
  Fragile       (* A restart may lose the whole content.                   *)

VARIABLES
  content,      (* The writes that the store holds.                        *)
  outcome       (* What became of each write for its caller.               *)

Outcomes == {"new", "acked", "failed", "lost"}

Init ==
  /\ content = {}
  /\ outcome = [o \in Op |-> "new"]

\* The write takes effect.  Its caller is not told yet.
Commit(o) ==
  /\ outcome[o] = "new" /\ o \notin content
  /\ content' = content \cup {o}
  /\ UNCHANGED outcome

Acknowledge(o) ==
  /\ outcome[o] = "new" /\ o \in content
  /\ outcome' = [outcome EXCEPT ![o] = "acked"]
  /\ UNCHANGED content

Reject(o) ==
  /\ outcome[o] = "new" /\ o \notin content
  /\ outcome' = [outcome EXCEPT ![o] = "failed"]
  /\ UNCHANGED content

\* What a restart finds.
Survives ==
  \/ UNCHANGED content
  \/ Fragile /\ content' = {}

\* The process died before it answered: the write took effect or it did not.
Lose(o) ==
  /\ outcome[o] = "new"
  /\ outcome' = [outcome EXCEPT ![o] = "lost"]
  /\ Survives

Restart == Survives /\ UNCHANGED outcome

Next ==
  \/ \E o \in Op : Commit(o) \/ Acknowledge(o) \/ Reject(o) \/ Lose(o)
  \/ Restart

Spec == Init /\ [][Next]_<<content, outcome>>
============================================================================
