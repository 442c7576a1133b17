------------------------- MODULE PublishedRevisions -------------------------
(***************************************************************************)
(* What an import promises to those who read revisions: a revision that    *)
(* can be seen holds one whole scene, and what it holds does not change    *)
(* while it can be seen.                                                   *)
(***************************************************************************)
CONSTANTS
  Revisions,
  Documents,   \* what may be stored for a revision
  Scenes       \* the sets of documents that are a whole scene

VARIABLES
  content,   \* the documents stored for each revision
  visible    \* the revisions that can be seen

vars == <<content, visible>>

Init ==
  /\ content = [v \in Revisions |-> {}]
  /\ visible = {}

Store(v, d) ==
  /\ v \notin visible
  /\ content' = [content EXCEPT ![v] = @ \cup {d}]
  /\ UNCHANGED visible

Publish(v) ==
  /\ content[v] \in Scenes
  /\ visible' = visible \cup {v}
  /\ UNCHANGED content

\* Until what is derived from the scene has been made again.
Withdraw(v) ==
  /\ visible' = visible \ {v}
  /\ UNCHANGED content

Next ==
  \E v \in Revisions :
    \/ \E d \in Documents : Store(v, d)
    \/ Publish(v)
    \/ Withdraw(v)

Spec == Init /\ [][Next]_vars
=============================================================================
