----------------------------- MODULE SceneStore -----------------------------
(***************************************************************************)
(* What RepoSceneBuilder promises to an importer, without its thread, its  *)
(* queue or its bulk write context: the writes the importer hands over are *)
(* executed on the scene collection in the order they were handed over; a  *)
(* call of finalise, and the destruction of the builder, return only when  *)
(* every one of them has been executed; and when the database fails the    *)
(* builder never returns from either as if it had not.                     *)
(***************************************************************************)
EXTENDS Naturals, Sequences

CONSTANT Ops            \* the writes an importer can hand over

VARIABLES
  accepted,             \* the writes handed over so far, in call order
  stored,               \* the writes executed on the collection so far
  flushes,              \* how many calls of finalise have returned
  phase                 \* "open", "closed" (destroyed) or "failed" (terminate)

vars == <<accepted, stored, flushes, phase>>

IsPrefixOf(s, t) == Len(s) <= Len(t) /\ \A i \in 1..Len(s) : s[i] = t[i]

Init ==
  /\ accepted = <<>>
  /\ stored = <<>>
  /\ flushes = 0
  /\ phase = "open"

Accept ==
  /\ phase = "open"
  /\ \E o \in Ops : accepted' = Append(accepted, o)
  /\ UNCHANGED <<stored, flushes, phase>>

\* The collection only ever grows, along the accepted writes.
Grow ==
  /\ stored' \in Seq(Ops)
  /\ IsPrefixOf(stored, stored')
  /\ IsPrefixOf(stored', accepted)

Store ==
  /\ phase = "open"
  /\ Grow
  /\ UNCHANGED <<accepted, flushes, phase>>

Flush ==
  /\ phase = "open"
  /\ stored = accepted
  /\ flushes' = flushes + 1
  /\ UNCHANGED <<accepted, stored, phase>>

Close ==
  /\ phase = "open"
  /\ stored = accepted
  /\ phase' = "closed"
  /\ UNCHANGED <<accepted, stored, flushes>>

\* The process dies with part of a batch executed.
Fail ==
  /\ phase = "open"
  /\ Grow
  /\ phase' = "failed"
  /\ UNCHANGED <<accepted, flushes>>

Next == Accept \/ Store \/ Flush \/ Close \/ Fail

Spec == Init /\ [][Next]_vars
=============================================================================
