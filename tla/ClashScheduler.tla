--------------------------- MODULE ClashScheduler ---------------------------
(***************************************************************************)
(* The order in which a clash detection tests the pairs its broadphase has *)
(* found (clashdetection/clash_scheduler.cpp): breadth first through the   *)
(* graph whose nodes are the cached meshes or objects and whose edges are  *)
(* the pairs, so that tests which share a node come together.              *)
(*                                                                         *)
(* The edges a node holds are those of left that touch it: the source      *)
(* removes an edge from both of its nodes, and a node from allNodes with   *)
(* its last edge.                                                          *)
(***************************************************************************)
EXTENDS Integers, Sequences, FiniteSets, SequencesExt

VARIABLES
  left,    \* the edges that are not in the results yet
  ranked,  \* allNodes, by the number of their edges at the start
  next,    \* nodes to visit, first in first out
  results  \* the order of the tests

schedulerVars == <<left, ranked, next, results>>

EdgesOf(n) == {e \in left : n \in {e[1], e[2]}}

\* The orders of a set that std::ranges::sort may leave: equal keys in any order.
SortedBy(S, key) ==
  {s \in SetToSeqs(S) : \A i \in 1..(Len(s) - 1) : key[s[i]] <= key[s[i + 1]]}

\* The constructor: createGraph, sortByEdges.
CreateGraph(pairs) ==
  LET Ends == {e[1] : e \in pairs} \cup {e[2] : e \in pairs}
      Degree == [n \in Ends |-> Cardinality({e \in pairs : n \in {e[1], e[2]}})]
  IN /\ left' = pairs
     /\ ranked' \in SortedBy(Ends, Degree)
     /\ next' = <<>>
     /\ results' = <<>>

\* Variant: a node stays in allNodes when its last edge is gone.
LiveNodesOfAll == DOMAIN ranked

\* Where the nodes that are still in allNodes were at the start.
LiveNodes == {i \in DOMAIN ranked : EdgesOf(ranked[i]) # {}}

PushFront ==
  /\ next = <<>>
  /\ \E i \in LiveNodes : (\A j \in LiveNodes : i <= j) /\ next' = <<ranked[i]>>
  /\ UNCHANGED <<left, ranked, results>>

Other(e, n) == IF e[1] = n THEN e[2] ELSE e[1]

\* The edges of the node go to the results, those first whose other end has
\* fewest edges, and their other ends are visited later.
Visit ==
  /\ next # <<>>
  /\ LET n == Head(next)
         Edges == EdgesOf(n)
         OthersEdges == [e \in Edges |-> Cardinality(EdgesOf(Other(e, n)))]
     IN \E s \in SortedBy(Edges, OthersEdges) :
          /\ results' = results \o s
          /\ next' = Tail(next) \o [i \in DOMAIN s |-> Other(s[i], n)]
          /\ left' = left \ Edges
  /\ UNCHANGED ranked

Scheduled == LiveNodes = {} /\ next = <<>>
=============================================================================
