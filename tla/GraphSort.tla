------------------------------ MODULE GraphSort ------------------------------
(***************************************************************************)
(* The sort at the end of GraphBuilder._build (src/graph.ts): a depth      *)
(* first walk from every entry of constructNodes that emits a node after   *)
(* its targets.  The recursion of the local function sort is an explicit   *)
(* stack of frames, so that a step is one call, one iteration of the loop  *)
(* over outgoingEdges, or one push.                                        *)
(***************************************************************************)
EXTENDS ConstructGraph

CONSTANT Graphs   \* the graphs a stack may have

ASSUME GraphsAssumption == Graphs \subseteq GraphType

VARIABLES
  graph,    \* the graph with all its edges; constant once chosen
  root,     \* constructNodes entries the outer loop has started
  frames,   \* the calls of sort that have not returned, innermost last
  todo,     \* for a node with a frame, the targets its loop has not reached
  visited,  \* the set the calls share
  sorted    \* the result

vars == <<graph, root, frames, todo, visited, sorted>>

Init ==
  /\ graph \in Graphs
  /\ root = 0
  /\ frames = <<>>
  /\ todo = [n \in Node |-> {}]
  /\ visited = {}
  /\ sorted = <<>>

(***************************************************************************)
(* The beginning of sort(n), up to its loop.  A node is visited once; a    *)
(* construct that is ignored gets no frame.  rest is todo as the caller    *)
(* leaves it.                                                              *)
(***************************************************************************)
Call(n, rest) ==
  \/ /\ n \in visited
     /\ todo' = rest
     /\ UNCHANGED <<frames, visited>>
  \/ /\ n \notin visited
     /\ visited' = visited \cup {n}
     /\ Ignored(graph, n)
     /\ todo' = rest
     /\ UNCHANGED frames
  \/ /\ n \notin visited
     /\ visited' = visited \cup {n}
     /\ ~ Ignored(graph, n)
     /\ frames' = Append(frames, n)
     /\ todo' = [rest EXCEPT ![n] = outgoingEdges(graph, n)]

(***************************************************************************)
(* for (const [_, node] of this.constructNodes) sort(node)                 *)
(***************************************************************************)
SortRoot ==
  /\ frames = <<>>
  /\ root < N
  /\ root' = root + 1
  /\ Call(root + 1, todo)
  /\ UNCHANGED <<graph, sorted>>

(***************************************************************************)
(* for (const target of node.outgoingEdges) sort(target).  A JavaScript    *)
(* Set is walked in insertion order: the parent was added first, the       *)
(* references follow in the order the template mentions them, which is any *)
(* order.                                                                  *)
(***************************************************************************)
NextTargets(n) ==
  IF graph.parent[n] \in todo[n] THEN {graph.parent[n]} ELSE todo[n]

SortTargetForever ==   \* a fault: the loop does not advance
  /\ frames # <<>>
  /\ \E t \in NextTargets(frames[Len(frames)]) : Call(t, todo)
  /\ UNCHANGED <<graph, root, sorted>>

SortTarget ==
  /\ frames # <<>>
  /\ LET n == frames[Len(frames)]
     IN  \E t \in NextTargets(n) : Call(t, [todo EXCEPT ![n] = @ \ {t}])
  /\ UNCHANGED <<graph, root, sorted>>

(***************************************************************************)
(* sorted.push(node), and the return from the call.                        *)
(***************************************************************************)
Push ==
  /\ frames # <<>>
  /\ LET n == frames[Len(frames)]
     IN  /\ todo[n] = {}
         /\ sorted' = Append(sorted, n)
         /\ frames' = SubSeq(frames, 1, Len(frames) - 1)
  /\ UNCHANGED <<graph, root, todo, visited>>

Done == root = N /\ frames = <<>>

Terminating == Done /\ UNCHANGED vars

Next == SortRoot \/ SortTarget \/ Push \/ Terminating

Spec == Init /\ [][Next]_vars

(***************************************************************************)
(* _build is synchronous: once started it runs to its end.                 *)
(***************************************************************************)
FairSpec == Spec /\ WF_vars(Next)

-----------------------------------------------------------------------------
TypeOK ==
  /\ graph \in Graphs
  /\ root \in 0..N
  /\ frames \in Seq(Node)
  /\ todo \in [Node -> SUBSET Node]
  /\ visited \in SUBSET Node
  /\ sorted \in Seq(Node)

(***************************************************************************)
(* Every dependency of an emitted node precedes it, or leads back to it.   *)
(* The StackConverter resolves references against what earlier nodes       *)
(* registered, so a dependency that follows is a missing reference.        *)
(***************************************************************************)
DependenciesFirst ==
  \A i \in 1..Len(sorted) : \A d \in Dependencies(graph, sorted[i]) :
    (\E j \in 1..(i - 1) : sorted[j] = d) \/ Reaches(graph, d, sorted[i])

(***************************************************************************)
(* The same, for a graph without cycles: a topological order, as the       *)
(* comment on Graph.nodes says.                                            *)
(***************************************************************************)
TopologicallySorted ==
  Acyclic(graph) =>
    \A i \in 1..Len(sorted) : \A d \in Dependencies(graph, sorted[i]) :
      \E j \in 1..(i - 1) : sorted[j] = d

(***************************************************************************)
(* No node is emitted twice: a second emission would register the Pulumi   *)
(* resource of the node a second time.                                     *)
(***************************************************************************)
EmittedOnce ==
  \A i, j \in 1..Len(sorted) : sorted[i] = sorted[j] => i = j

(***************************************************************************)
(* When the sort ends nothing is lost: exactly the empty wrappers are left *)
(* out, on cyclic graphs too.                                              *)
(***************************************************************************)
AllEmitted ==
  Done => \A n \in Node : Occurs(n, sorted) <=> ~ EmptyWrapper(graph, n)

(***************************************************************************)
(* The calls that have not returned form a dependency path: what makes a   *)
(* target that is visited but not emitted an ancestor of the caller.       *)
(***************************************************************************)
FramesArePath ==
  \A i, j \in 1..Len(frames) : i <= j => Reaches(graph, frames[i], frames[j])

(***************************************************************************)
(* The inductive invariant behind the safety properties.  A visited node   *)
(* is in exactly one place: in a call that has not returned, in the        *)
(* result, or ignored; and a call keeps in todo whatever it has not yet    *)
(* visited, so that nothing is left when it pushes its node.               *)
(***************************************************************************)
RootsVisited == \A n \in 1..root : n \in visited

VisitedPlaced ==
  /\ \A n \in visited : Occurs(n, frames) \/ Occurs(n, sorted) \/ Ignored(graph, n)
  /\ \A n \in Node : Occurs(n, frames) \/ Occurs(n, sorted)
                    => n \in visited /\ ~ Ignored(graph, n)
  /\ \A n \in Node : ~ (Occurs(n, frames) /\ Occurs(n, sorted))

FramesOnce == \A i, j \in 1..Len(frames) : frames[i] = frames[j] => i = j

LoopVisits ==
  \A n \in Node : Occurs(n, frames) =>
    /\ todo[n] \subseteq Dependencies(graph, n)
    /\ Dependencies(graph, n) \ todo[n] \subseteq visited

SortInv ==
  /\ TypeOK
  /\ RootsVisited
  /\ VisitedPlaced
  /\ FramesOnce
  /\ LoopVisits
  /\ FramesArePath
  /\ EmittedOnce
  /\ DependenciesFirst

(***************************************************************************)
(* The sort ends, whatever the graph: visited breaks the cycles.           *)
(***************************************************************************)
SortEnds == <>Done

(***************************************************************************)
(* The walk implements the abstract order: a push emits a node that may    *)
(* be emitted, every other step is invisible.                              *)
(***************************************************************************)
Order == INSTANCE TopologicalOrder

ImplementsOrder == Order!ASpec
=============================================================================
