--------------------------- MODULE ConstructGraph ---------------------------
(***************************************************************************)
(* The dependency graph that GraphBuilder builds for one CDK stack         *)
(* (src/graph.ts).  A node of the graph is a construct of the stack; nodes *)
(* are numbered 1..N in the order in which parseTree inserts them in the   *)
(* map constructNodes, so node 1 is the construct of the Stack itself and  *)
(* a parent has a smaller number than its children.                        *)
(*                                                                         *)
(* A graph is a record                                                     *)
(*   parent   : the construct that is the scope of each node, 0 for none   *)
(*   resource : the nodes that carry a CloudFormation resource             *)
(*   refs     : for each node the resources its template mentions (Ref,    *)
(*              Fn::GetAtt, Fn::Sub, DependsOn)                            *)
(* This module has no state: it holds what the sort, the abstract order    *)
(* and the conversion say about such a graph.                              *)
(***************************************************************************)
EXTENDS Integers, Sequences

CONSTANT N   \* the number of constructs of the stack

ASSUME NAssumption == N \in Nat \ {0}

Node == 1..N

GraphType == [parent   : [Node -> 0..N],
              resource : SUBSET Node,
              refs     : [Node -> SUBSET Node]]

(***************************************************************************)
(* outgoingEdges of a node: its parent, then the resources it references.  *)
(* incomingEdges is the converse.                                          *)
(***************************************************************************)
referenceEdges(g, n) == g.refs[n]   \* a fault: no edge to the parent

outgoingEdges(g, n) == ({g.parent[n]} \ {0}) \cup g.refs[n]

incomingEdges(g, n) == {m \in Node : n \in outgoingEdges(g, m)}

(***************************************************************************)
(* "If this is a non-CFN construct with no incoming edges, ignore it."     *)
(***************************************************************************)
IgnoredWrapper(g, n) == n \notin g.resource   \* a fault: incoming edges do not count

Ignored(g, n) == n \notin g.resource /\ incomingEdges(g, n) = {}

-----------------------------------------------------------------------------
(***************************************************************************)
(* What the properties need: the dependencies of a node as the program     *)
(* must honour them, and reachability along them.  m is reachable from n   *)
(* when every set that holds n and is closed under dependencies holds m.   *)
(***************************************************************************)
Dependencies(g, n) == {d \in Node : d = g.parent[n] \/ d \in g.refs[n]}

Closed(g, C) == \A c \in C : Dependencies(g, c) \subseteq C

Reaches(g, n, m) == \A C \in SUBSET Node : n \in C /\ Closed(g, C) => m \in C

OnCycle(g, n) == \E d \in Dependencies(g, n) : Reaches(g, d, n)

Acyclic(g) == \A n \in Node : ~ OnCycle(g, n)

(***************************************************************************)
(* The wrapper constructs that scope nothing: no Pulumi resource stands    *)
(* for them.                                                               *)
(***************************************************************************)
EmptyWrapper(g, n) ==
  /\ n \notin g.resource
  /\ \A m \in Node : g.parent[m] # n /\ n \notin g.refs[m]

Occurs(n, s) == \E i \in 1..Len(s) : s[i] = n
=============================================================================
