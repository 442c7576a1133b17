-------------------------- MODULE MCRevisionCommit --------------------------
(* Instances of RevisionCommit for TLC: two imports and a run of genStash.  *)
EXTENDS RevisionCommit, TLC

CONSTANTS i1, i2, s, v1, v2

Run(name, rev) == [name |-> name, rev |-> rev]

TwoRevisions ==
  i1 :> Run("import", v1) @@ i2 :> Run("import", v2) @@ s :> Run("tree", Master)
SameRevision ==
  i1 :> Run("import", v1) @@ i2 :> Run("import", v1) @@ s :> Run("repo", Master)

\* One import stores its nodes after the revision document, one before.
SecondStreams == i1 :> FALSE @@ i2 :> TRUE @@ s :> FALSE
=============================================================================
