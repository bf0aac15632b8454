-------------------------- MODULE TopologicalOrder --------------------------
(***************************************************************************)
(* What GraphBuilder promises its only caller, the StackConverter: "The    *)
(* nodes in the graph sorted in topological order" (src/graph.ts).  Nodes  *)
(* are emitted one at a time, a node only when everything it depends on    *)
(* was emitted before it.  The graph of a stack may have a cycle (a        *)
(* resource that references a construct in its own scope): nothing detects *)
(* it, and the promise is then limited to the dependencies that do not     *)
(* lead back to the node.                                                  *)
(***************************************************************************)
EXTENDS ConstructGraph

CONSTANT Graphs   \* the graphs a stack may have

VARIABLES
  graph,   \* the graph that is sorted
  sorted   \* the nodes emitted so far

avars == <<graph, sorted>>

AInit ==
  /\ graph \in Graphs
  /\ sorted = <<>>

Emit(n) ==
  /\ ~ EmptyWrapper(graph, n)
  /\ ~ Occurs(n, sorted)
  /\ \A d \in Dependencies(graph, n) : Occurs(d, sorted) \/ Reaches(graph, d, n)
  /\ sorted' = Append(sorted, n)
  /\ UNCHANGED graph

ANext == \E n \in Node : Emit(n)

ASpec == AInit /\ [][ANext]_avars
=============================================================================
