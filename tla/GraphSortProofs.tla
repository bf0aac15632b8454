--------------------------- MODULE GraphSortProofs ---------------------------
(***************************************************************************)
(* Proofs about the sort of GraphBuilder._build, for every number of       *)
(* constructs and every graph, cyclic ones included.                       *)
(***************************************************************************)
EXTENDS GraphSort, TLAPS

(***************************************************************************)
(* The edges the code builds are the dependencies, and the constructs the  *)
(* code ignores are the empty wrappers.                                    *)
(***************************************************************************)
LEMMA EdgesAreDependencies ==
  ASSUME NEW g \in GraphType, NEW n \in Node
  PROVE  outgoingEdges(g, n) = Dependencies(g, n)
BY NAssumption DEF GraphType, outgoingEdges, Dependencies, Node

(***************************************************************************)
(* What the code ignores for having no incoming edges is an empty wrapper. *)
(***************************************************************************)
LEMMA IgnoredIsEmptyWrapper ==
  ASSUME NEW g \in GraphType, NEW n \in Node
  PROVE  Ignored(g, n) <=> EmptyWrapper(g, n)
BY NAssumption
   DEF GraphType, Ignored, incomingEdges, outgoingEdges, EmptyWrapper, Node

(***************************************************************************)
(* A dependency of anything is not ignored: it has an incoming edge.       *)
(***************************************************************************)
LEMMA TargetsNotIgnored ==
  ASSUME NEW g \in GraphType, NEW n \in Node, NEW d \in Dependencies(g, n)
  PROVE  ~ Ignored(g, d)
<1>1. n \in incomingEdges(g, d)
  BY EdgesAreDependencies DEF incomingEdges
<1> QED
  BY <1>1 DEF Ignored

(***************************************************************************)
(* Reachability is reflexive, transitive, and holds along a dependency.    *)
(***************************************************************************)
LEMMA ReachesReflexive ==
  ASSUME NEW g \in GraphType, NEW n \in Node
  PROVE  Reaches(g, n, n)
BY DEF Reaches

(***************************************************************************)
(* What is reached through a dependency of something reached is reached.   *)
(***************************************************************************)
LEMMA ReachesStep ==
  ASSUME NEW g \in GraphType, NEW n \in Node, NEW m \in Node,
         NEW d \in Dependencies(g, m), Reaches(g, n, m)
  PROVE  Reaches(g, n, d)
BY DEF Reaches, Closed

-----------------------------------------------------------------------------
(***************************************************************************)
(* The type invariant holds in every reachable state.                      *)
(***************************************************************************)
LEMMA TypeInit == Init => TypeOK
BY NAssumption DEF Init, TypeOK

(***************************************************************************)
(* What a call of sort leaves of the types.                                *)
(***************************************************************************)
LEMMA CallType ==
  ASSUME TypeOK, NEW n \in Node, NEW rest \in [Node -> SUBSET Node], Call(n, rest)
  PROVE  /\ frames' \in Seq(Node)
         /\ todo' \in [Node -> SUBSET Node]
         /\ visited' \in SUBSET Node
<1>1. outgoingEdges(graph, n) \subseteq Node
  BY GraphsAssumption, EdgesAreDependencies DEF TypeOK, Dependencies
<1>2. [rest EXCEPT ![n] = outgoingEdges(graph, n)] \in [Node -> SUBSET Node]
  BY <1>1
<1>3. Append(frames, n) \in Seq(Node)
  BY DEF TypeOK
<1> QED
  BY <1>2, <1>3 DEF TypeOK, Call

(***************************************************************************)
(* Every step keeps the types.                                             *)
(***************************************************************************)
LEMMA TypeNext == TypeOK /\ [Next]_vars => TypeOK'
<1> SUFFICES ASSUME TypeOK, [Next]_vars PROVE TypeOK'
  OBVIOUS
<1>1. CASE SortRoot
  <2>1. root + 1 \in Node /\ root' = root + 1 /\ UNCHANGED <<graph, sorted>>
    BY <1>1, NAssumption DEF SortRoot, Node, TypeOK
  <2>2. todo \in [Node -> SUBSET Node] /\ Call(root + 1, todo)
    BY <1>1 DEF SortRoot, TypeOK
  <2> QED
    BY <2>1, <2>2, CallType, NAssumption DEF TypeOK, Node
<1>2. CASE SortTarget
  <2> DEFINE n == frames[Len(frames)]
  <2>1. n \in Node
    BY <1>2 DEF SortTarget, TypeOK
  <2>2. PICK t \in NextTargets(n) : Call(t, [todo EXCEPT ![n] = @ \ {t}])
    BY <1>2 DEF SortTarget
  <2>3. t \in Node
    BY <2>1 DEF NextTargets, TypeOK
  <2>4. [todo EXCEPT ![n] = @ \ {t}] \in [Node -> SUBSET Node]
    BY <2>1 DEF TypeOK
  <2> QED
    BY <1>2, <2>2, <2>3, <2>4, CallType DEF SortTarget, TypeOK
<1>3. CASE Push
  BY <1>3 DEF Push, TypeOK
<1>4. CASE Terminating \/ UNCHANGED vars
  BY <1>4 DEF Terminating, vars, TypeOK
<1> QED
  BY <1>1, <1>2, <1>3, <1>4 DEF Next

(***************************************************************************)
(* Type correctness.                                                       *)
(***************************************************************************)
THEOREM TypeCorrect == Spec => []TypeOK
<1> QED
  BY TypeInit, TypeNext, PTL DEF Spec

-----------------------------------------------------------------------------
(***************************************************************************)
(* The elements of a sequence that grows or shrinks at its end.            *)
(***************************************************************************)
LEMMA OccursAppend ==
  ASSUME NEW s \in Seq(Node), NEW n \in Node, NEW m \in Node
  PROVE  Occurs(m, Append(s, n)) <=> Occurs(m, s) \/ m = n
<1>1. /\ Len(Append(s, n)) = Len(s) + 1
      /\ \A i \in 1..Len(s) : Append(s, n)[i] = s[i]
      /\ Append(s, n)[Len(s) + 1] = n
      /\ Len(s) \in Nat
  OBVIOUS
<1> QED
  BY <1>1 DEF Occurs

(***************************************************************************)
(* A prefix has the elements of the sequence.                              *)
(***************************************************************************)
LEMMA PrefixElements ==
  ASSUME NEW s \in Seq(Node), NEW k \in Nat, k <= Len(s)
  PROVE  /\ Len(SubSeq(s, 1, k)) = k
         /\ \A i \in 1..k : SubSeq(s, 1, k)[i] = s[i]
OBVIOUS

(***************************************************************************)
(* So has the sequence without its last element, what is left of the calls *)
(* when the innermost one returns.                                         *)
(***************************************************************************)
LEMMA FrontElements ==
  ASSUME NEW s \in Seq(Node), s # <<>>
  PROVE  /\ Len(SubSeq(s, 1, Len(s) - 1)) = Len(s) - 1
         /\ \A i \in 1..(Len(s) - 1) : SubSeq(s, 1, Len(s) - 1)[i] = s[i]
<1> DEFINE k == Len(s) - 1
<1>1. k \in Nat /\ k <= Len(s)
  OBVIOUS
<1>2. /\ Len(SubSeq(s, 1, k)) = k
      /\ \A i \in 1..k : SubSeq(s, 1, k)[i] = s[i]
  <2> HIDE DEF k
  <2> QED
    BY <1>1, PrefixElements
<1> QED
  BY <1>2

(***************************************************************************)
(* What occurs in a sequence occurs before its end or is its last element. *)
(***************************************************************************)
LEMMA OccursFront ==
  ASSUME NEW s \in Seq(Node), s # <<>>, NEW m \in Node
  PROVE  Occurs(m, s) <=> Occurs(m, SubSeq(s, 1, Len(s) - 1)) \/ m = s[Len(s)]
<1> DEFINE f == SubSeq(s, 1, Len(s) - 1)
<1>1. /\ Len(s) \in Nat \ {0}
      /\ Len(f) = Len(s) - 1
      /\ \A i \in 1..(Len(s) - 1) : f[i] = s[i]
  BY FrontElements
<1> QED
  BY <1>1 DEF Occurs

(***************************************************************************)
(* A call of sort(n), made by the innermost frame or by the outer loop,    *)
(* keeps every part of the invariant it can disturb.                       *)
(***************************************************************************)
LEMMA CallKeeps ==
  ASSUME SortInv, NEW n \in Node, NEW rest \in [Node -> SUBSET Node],
         Call(n, rest), UNCHANGED <<graph, sorted>>,
         \A m \in Node : Occurs(m, frames) =>
           /\ rest[m] \subseteq Dependencies(graph, m)
           /\ Dependencies(graph, m) \ rest[m] \subseteq visited \cup {n},
         frames # <<>> => n \in Dependencies(graph, frames[Len(frames)])
  PROVE  /\ n \in visited' /\ visited \subseteq visited'
         /\ VisitedPlaced' /\ FramesOnce' /\ LoopVisits' /\ FramesArePath'
         /\ EmittedOnce' /\ DependenciesFirst'
<1> USE DEF SortInv, TypeOK
<1>0. graph \in GraphType /\ graph' = graph /\ sorted' = sorted
  BY GraphsAssumption
<1>1. n \in visited' /\ visited \subseteq visited'
  BY DEF Call
<1>2. EmittedOnce' /\ DependenciesFirst'
  BY <1>0 DEF EmittedOnce, DependenciesFirst
<1>3. CASE UNCHANGED frames
  <2>1. todo' = rest
    <3>1. CASE n \in visited \/ Ignored(graph, n)
      BY <3>1 DEF Call
    <3>2. CASE n \notin visited /\ ~ Ignored(graph, n)
      <4>1. frames' = Append(frames, n)
        BY <3>2 DEF Call
      <4> QED
        BY <1>3, <4>1
    <3> QED
      BY <3>1, <3>2
  <2>2. visited' = visited \/ (visited' = visited \cup {n} /\ Ignored(graph, n))
    <3>1. n \notin visited /\ ~ Ignored(graph, n) => FALSE
      <4>1. n \notin visited /\ ~ Ignored(graph, n) => frames' = Append(frames, n)
        BY DEF Call
      <4> QED
        BY <1>3, <4>1
    <3> QED
      BY <3>1 DEF Call
  <2>3. VisitedPlaced'
    BY <1>0, <1>3, <2>2 DEF VisitedPlaced
  <2>4. FramesOnce' /\ FramesArePath'
    BY <1>0, <1>3 DEF FramesOnce, FramesArePath
  <2>5. LoopVisits'
    BY <1>0, <1>1, <1>3, <2>1 DEF LoopVisits
  <2> QED
    BY <1>1, <1>2, <2>3, <2>4, <2>5
<1>4. CASE /\ n \notin visited /\ ~ Ignored(graph, n)
           /\ visited' = visited \cup {n}
           /\ frames' = Append(frames, n)
           /\ todo' = [rest EXCEPT ![n] = outgoingEdges(graph, n)]
  <2>1. ~ Occurs(n, frames) /\ ~ Occurs(n, sorted)
    BY <1>4 DEF VisitedPlaced
  <2>2. \A m \in Node : Occurs(m, frames') <=> Occurs(m, frames) \/ m = n
    BY <1>4, OccursAppend
  <2>3. /\ Len(frames') = Len(frames) + 1
        /\ \A i \in 1..Len(frames) : frames'[i] = frames[i]
        /\ frames'[Len(frames) + 1] = n
        /\ Len(frames) \in Nat
    BY <1>4
  <2>4. VisitedPlaced'
    BY <1>0, <1>4, <2>1, <2>2 DEF VisitedPlaced
  <2>5. FramesOnce'
    BY <2>1, <2>3 DEF FramesOnce, Occurs
  <2>6. FramesArePath'
    <3> SUFFICES ASSUME NEW i \in 1..Len(frames'), NEW j \in 1..Len(frames'), i <= j
                 PROVE  Reaches(graph, frames'[i], frames'[j])
      BY <1>0 DEF FramesArePath
    <3>1. CASE j \in 1..Len(frames)
      BY <2>3, <3>1 DEF FramesArePath
    <3>2. CASE i = Len(frames) + 1
      BY <1>0, <2>3, <3>2, ReachesReflexive
    <3>3. CASE i \in 1..Len(frames) /\ j = Len(frames) + 1
      <4>1. Reaches(graph, frames[i], frames[Len(frames)])
        BY <2>3, <3>3 DEF FramesArePath
      <4>2. n \in Dependencies(graph, frames[Len(frames)])
        BY <3>3
      <4> QED
        BY <1>0, <2>3, <3>3, <4>1, <4>2, ReachesStep
    <3> QED
      BY <2>3, <3>1, <3>2, <3>3
  <2>7. LoopVisits'
    <3> SUFFICES ASSUME NEW m \in Node, Occurs(m, frames) \/ m = n
                 PROVE  /\ todo'[m] \subseteq Dependencies(graph, m)
                        /\ Dependencies(graph, m) \ todo'[m] \subseteq visited'
      BY <1>0, <2>2 DEF LoopVisits
    <3>1. CASE m = n
      BY <1>0, <1>4, <3>1, EdgesAreDependencies
    <3>2. CASE m # n
      BY <1>4, <3>2
    <3> QED
      BY <3>1, <3>2
  <2> QED
    BY <1>1, <1>2, <2>4, <2>5, <2>6, <2>7
<1> QED
  BY <1>3, <1>4 DEF Call

(***************************************************************************)
(* The invariant holds before the outer loop starts.                       *)
(***************************************************************************)
LEMMA SortInvInit == Init => SortInv
<1> SUFFICES ASSUME Init PROVE SortInv
  OBVIOUS
<1>1. TypeOK
  BY TypeInit
<1> QED
  BY <1>1 DEF Init, SortInv, RootsVisited, VisitedPlaced, FramesOnce, LoopVisits,
              FramesArePath, EmittedOnce, DependenciesFirst, Occurs

(***************************************************************************)
(* An iteration of the outer loop keeps the invariant: it is a call of     *)
(* sort without a caller.                                                  *)
(***************************************************************************)
LEMMA SortInvRoot == SortInv /\ SortRoot => SortInv'
<1> SUFFICES ASSUME SortInv, SortRoot PROVE SortInv'
  OBVIOUS
<1>1. TypeOK /\ TypeOK'
  BY TypeNext DEF SortInv, Next
<1>2. root + 1 \in Node /\ root' = root + 1 /\ root \in Nat
  BY <1>1, NAssumption DEF SortRoot, Node, TypeOK
<1>3. frames = <<>> /\ \A m \in Node : ~ Occurs(m, frames)
  BY DEF SortRoot, Occurs
<1>4. Call(root + 1, todo) /\ UNCHANGED <<graph, sorted>> /\ todo \in [Node -> SUBSET Node]
  BY <1>1 DEF SortRoot, TypeOK
<1>5. /\ root + 1 \in visited' /\ visited \subseteq visited'
      /\ VisitedPlaced' /\ FramesOnce' /\ LoopVisits' /\ FramesArePath'
      /\ EmittedOnce' /\ DependenciesFirst'
  BY <1>2, <1>3, <1>4, CallKeeps
<1>6. RootsVisited'
  BY <1>2, <1>5 DEF RootsVisited, SortInv
<1> QED
  BY <1>1, <1>5, <1>6 DEF SortInv

(***************************************************************************)
(* An iteration of the loop over the targets keeps it: a call of sort made *)
(* by the innermost call for one of the dependencies of its node.          *)
(***************************************************************************)
LEMMA SortInvTarget == SortInv /\ SortTarget => SortInv'
<1> SUFFICES ASSUME SortInv, SortTarget PROVE SortInv'
  OBVIOUS
<1> DEFINE n == frames[Len(frames)]
<1>1. TypeOK /\ TypeOK'
  BY TypeNext DEF SortInv, Next
<1>2. n \in Node /\ Occurs(n, frames)
  BY <1>1 DEF SortTarget, TypeOK, Occurs
<1>3. PICK t \in NextTargets(n) : Call(t, [todo EXCEPT ![n] = @ \ {t}])
  BY DEF SortTarget
<1>4. t \in todo[n] /\ t \in Node /\ t \in Dependencies(graph, n)
  BY <1>1, <1>2 DEF NextTargets, TypeOK, SortInv, LoopVisits
<1> DEFINE rest == [todo EXCEPT ![n] = @ \ {t}]
<1>5. rest \in [Node -> SUBSET Node]
  BY <1>1, <1>2 DEF TypeOK
<1>6. ASSUME NEW m \in Node, Occurs(m, frames)
      PROVE  /\ rest[m] \subseteq Dependencies(graph, m)
             /\ Dependencies(graph, m) \ rest[m] \subseteq visited \cup {t}
  <2>1. /\ todo[m] \subseteq Dependencies(graph, m)
        /\ Dependencies(graph, m) \ todo[m] \subseteq visited
    BY <1>6 DEF SortInv, LoopVisits
  <2>2. rest[m] = IF m = n THEN todo[m] \ {t} ELSE todo[m]
    BY <1>1, <1>2 DEF TypeOK
  <2> QED
    BY <2>1, <2>2
<1>7. UNCHANGED <<graph, root, sorted>>
  BY DEF SortTarget
<1>8. /\ visited \subseteq visited'
      /\ VisitedPlaced' /\ FramesOnce' /\ LoopVisits' /\ FramesArePath'
      /\ EmittedOnce' /\ DependenciesFirst'
  <2> HIDE DEF rest
  <2> QED
    BY <1>3, <1>4, <1>5, <1>6, <1>7, CallKeeps DEF rest
<1>9. RootsVisited'
  BY <1>7, <1>8 DEF RootsVisited, SortInv
<1> QED
  BY <1>1, <1>8, <1>9 DEF SortInv

(***************************************************************************)
(* A push keeps it.  All dependencies of the node are visited by then, and *)
(* by VisitedPlaced each is in the result, or in a call around this one,   *)
(* and then leads back to the node (FramesArePath).                        *)
(***************************************************************************)
LEMMA SortInvPush == SortInv /\ Push => SortInv'
<1> SUFFICES ASSUME SortInv, Push PROVE SortInv'
  OBVIOUS
<1> DEFINE n == frames[Len(frames)]
           k == Len(frames) - 1
<1>1. TypeOK /\ TypeOK' /\ graph \in GraphType
  BY TypeNext, GraphsAssumption DEF SortInv, Next, TypeOK
<1>2. /\ frames \in Seq(Node) /\ frames # <<>> /\ n \in Node /\ Occurs(n, frames)
      /\ Len(frames) \in Nat \ {0}
  BY <1>1 DEF Push, TypeOK, Occurs
<1>3. /\ frames' = SubSeq(frames, 1, k) /\ sorted' = Append(sorted, n) /\ todo[n] = {}
      /\ UNCHANGED <<graph, root, todo, visited>>
  BY DEF Push
<1>4. /\ Len(frames') = k /\ k \in Nat
      /\ \A i \in 1..k : frames'[i] = frames[i]
  BY <1>2, <1>3, FrontElements
<1>5. /\ sorted \in Seq(Node) /\ Len(sorted) \in Nat
      /\ Len(sorted') = Len(sorted) + 1
      /\ \A i \in 1..Len(sorted) : sorted'[i] = sorted[i]
      /\ sorted'[Len(sorted) + 1] = n
  BY <1>1, <1>2, <1>3 DEF TypeOK
<1>6. \A m \in Node : Occurs(m, frames) <=> Occurs(m, frames') \/ m = n
  BY <1>2, <1>3, OccursFront
<1>7. \A m \in Node : Occurs(m, sorted') <=> Occurs(m, sorted) \/ m = n
  BY <1>2, <1>3, <1>5, OccursAppend
<1>8. ~ Occurs(n, frames')
  BY <1>2, <1>4 DEF Occurs, SortInv, FramesOnce
<1>9. ~ Occurs(n, sorted)
  BY <1>2 DEF SortInv, VisitedPlaced
<1>10. RootsVisited'
  BY <1>3 DEF SortInv, RootsVisited
<1>11. VisitedPlaced'
  <2>1. visited \subseteq Node
    BY <1>1 DEF TypeOK
  <2> QED
    BY <1>2, <1>3, <1>6, <1>7, <1>8, <1>9, <2>1 DEF SortInv, VisitedPlaced
<1>12. FramesOnce' /\ FramesArePath'
  <2>1. 1..k \subseteq 1..Len(frames)
    BY <1>2
  <2> HIDE DEF k
  <2>2. FramesOnce'
    BY <1>4, <2>1 DEF SortInv, FramesOnce
  <2>3. FramesArePath'
    <3> SUFFICES ASSUME NEW i \in 1..k, NEW j \in 1..k, i <= j
                 PROVE  Reaches(graph, frames[i], frames[j])
      BY <1>3, <1>4 DEF FramesArePath
    <3> QED
      BY <2>1 DEF SortInv, FramesArePath
  <2> QED
    BY <2>2, <2>3
<1>13. LoopVisits'
  BY <1>3, <1>6 DEF SortInv, LoopVisits
<1>14. EmittedOnce'
  BY <1>5, <1>9 DEF SortInv, EmittedOnce, Occurs
<1>15. ASSUME NEW d \in Dependencies(graph, n)
       PROVE  (\E j \in 1..Len(sorted) : sorted[j] = d) \/ Reaches(graph, d, n)
  <2>1. d \in visited /\ d \in Node
    BY <1>2, <1>3 DEF SortInv, LoopVisits, Dependencies
  <2>2. ~ Ignored(graph, d)
    BY <1>1, <1>2, TargetsNotIgnored
  <2>3. CASE Occurs(d, sorted)
    BY <2>3 DEF Occurs
  <2>4. CASE Occurs(d, frames)
    <3>1. PICK i \in 1..Len(frames) : frames[i] = d
      BY <2>4 DEF Occurs
    <3> QED
      BY <1>2, <3>1 DEF SortInv, FramesArePath
  <2> QED
    BY <2>1, <2>2, <2>3, <2>4 DEF SortInv, VisitedPlaced
<1>16. DependenciesFirst'
  <2> SUFFICES ASSUME NEW i \in 1..Len(sorted'), NEW d \in Dependencies(graph, sorted'[i])
               PROVE  (\E j \in 1..(i - 1) : sorted'[j] = d) \/ Reaches(graph, d, sorted'[i])
    BY <1>3 DEF DependenciesFirst
  <2>1. CASE i \in 1..Len(sorted)
    <3>1. sorted'[i] = sorted[i] /\ \A j \in 1..(i - 1) : sorted'[j] = sorted[j]
      BY <1>5, <2>1
    <3>2. (\E j \in 1..(i - 1) : sorted[j] = d) \/ Reaches(graph, d, sorted[i])
      BY <2>1, <3>1 DEF SortInv, DependenciesFirst
    <3> QED
      BY <3>1, <3>2
  <2>2. CASE i = Len(sorted) + 1
    BY <1>5, <1>15, <2>2
  <2> QED
    BY <1>5, <2>1, <2>2
<1> QED
  BY <1>1, <1>10, <1>11, <1>12, <1>13, <1>14, <1>16 DEF SortInv

(***************************************************************************)
(* Every step keeps the invariant.                                         *)
(***************************************************************************)
LEMMA SortInvNext == SortInv /\ [Next]_vars => SortInv'
<1>1. SortInv /\ Terminating => SortInv'
  BY DEF Terminating, vars, SortInv, TypeOK, RootsVisited, VisitedPlaced, FramesOnce,
         LoopVisits, FramesArePath, EmittedOnce, DependenciesFirst
<1>2. SortInv /\ UNCHANGED vars => SortInv'
  BY DEF vars, SortInv, TypeOK, RootsVisited, VisitedPlaced, FramesOnce,
         LoopVisits, FramesArePath, EmittedOnce, DependenciesFirst
<1> QED
  BY <1>1, <1>2, SortInvRoot, SortInvTarget, SortInvPush DEF Next

(***************************************************************************)
(* The invariant the other results follow from.                            *)
(***************************************************************************)
THEOREM SortInvariant == Spec => []SortInv
<1> QED
  BY SortInvInit, SortInvNext, PTL DEF Spec

-----------------------------------------------------------------------------
(***************************************************************************)
(* Dependencies precede their dependents in Graph.nodes, except those that *)
(* lead back to the dependent.                                             *)
(***************************************************************************)
THEOREM DependenciesPrecede == Spec => []DependenciesFirst
<1>1. SortInv => DependenciesFirst
  BY DEF SortInv
<1> QED
  BY <1>1, SortInvariant, PTL

(***************************************************************************)
(* On an acyclic graph the result is a topological order.                  *)
(***************************************************************************)
LEMMA InvTopological == SortInv => TopologicallySorted
<1> SUFFICES ASSUME SortInv, Acyclic(graph), NEW i \in 1..Len(sorted),
                    NEW d \in Dependencies(graph, sorted[i])
             PROVE  \E j \in 1..(i - 1) : sorted[j] = d
  BY DEF TopologicallySorted
<1>1. sorted[i] \in Node
  BY DEF SortInv, TypeOK
<1>2. ~ Reaches(graph, d, sorted[i])
  BY <1>1 DEF Acyclic, OnCycle
<1> QED
  BY <1>2 DEF SortInv, DependenciesFirst

(***************************************************************************)
(* The comment on Graph.nodes: a topological order, at every moment.       *)
(***************************************************************************)
THEOREM SortIsTopological == Spec => []TopologicallySorted
<1> QED
  BY InvTopological, SortInvariant, PTL

(***************************************************************************)
(* No construct is emitted twice.                                          *)
(***************************************************************************)
THEOREM NodesEmittedOnce == Spec => []EmittedOnce
<1>1. SortInv => EmittedOnce
  BY DEF SortInv
<1> QED
  BY <1>1, SortInvariant, PTL

(***************************************************************************)
(* When the sort ends exactly the empty wrappers are missing.              *)
(***************************************************************************)
LEMMA InvNothingLost == SortInv => AllEmitted
<1> SUFFICES ASSUME SortInv, Done, NEW n \in Node
             PROVE  Occurs(n, sorted) <=> ~ EmptyWrapper(graph, n)
  BY DEF AllEmitted
<1>1. graph \in GraphType
  BY GraphsAssumption DEF SortInv, TypeOK
<1>2. n \in visited
  BY DEF SortInv, RootsVisited, Done, Node
<1>3. ~ Occurs(n, frames)
  BY NAssumption DEF Done, Occurs
<1> QED
  BY <1>1, <1>2, <1>3, IgnoredIsEmptyWrapper DEF SortInv, VisitedPlaced

(***************************************************************************)
(* Every resource and every wrapper that scopes one is in the result.      *)
(***************************************************************************)
THEOREM NothingLost == Spec => []AllEmitted
<1> QED
  BY InvNothingLost, SortInvariant, PTL

(***************************************************************************)
(* The walk implements the abstract topological order.                     *)
(***************************************************************************)
THEOREM SortImplementsOrder == Spec => ImplementsOrder
<1>1. Init => Order!AInit
  BY DEF Init, Order!AInit
<1>2. SortInv /\ [Next]_vars => [Order!ANext]_(Order!avars)
  <2> SUFFICES ASSUME SortInv, [Next]_vars
               PROVE  Order!ANext \/ UNCHANGED <<graph, sorted>>
    BY DEF Order!avars
  <2>1. CASE SortRoot \/ SortTarget \/ Terminating \/ UNCHANGED vars
    BY <2>1 DEF SortRoot, SortTarget, Terminating, vars
  <2>2. CASE Push
    <3> DEFINE n == frames[Len(frames)]
    <3>1. SortInv' /\ graph \in GraphType /\ UNCHANGED graph
      BY <2>2, SortInvPush, GraphsAssumption DEF SortInv, TypeOK, Push
    <3>2. /\ n \in Node /\ Occurs(n, frames) /\ sorted' = Append(sorted, n)
          /\ sorted \in Seq(Node)
      BY <2>2 DEF Push, SortInv, TypeOK, Occurs
    <3>3. ~ Occurs(n, sorted) /\ ~ Ignored(graph, n)
      BY <3>2 DEF SortInv, VisitedPlaced
    <3>4. ASSUME NEW d \in Dependencies(graph, n)
          PROVE  Occurs(d, sorted) \/ Reaches(graph, d, n)
      <4>1. /\ sorted'[Len(sorted) + 1] = n /\ Len(sorted') = Len(sorted) + 1
            /\ \A j \in 1..Len(sorted) : sorted'[j] = sorted[j]
            /\ Len(sorted) \in Nat
        BY <3>2
      <4>2. (\E j \in 1..Len(sorted) : sorted'[j] = d) \/ Reaches(graph, d, n)
        BY <3>1, <4>1 DEF SortInv, DependenciesFirst
      <4> QED
        BY <4>1, <4>2 DEF Occurs
    <3>5. ~ EmptyWrapper(graph, n)
      BY <3>1, <3>2, <3>3, IgnoredIsEmptyWrapper
    <3>6. Order!Emit(n)
      BY <3>1, <3>2, <3>3, <3>4, <3>5
         DEF Order!Emit, Order!EmptyWrapper, Order!Occurs, Order!Dependencies, Order!Reaches,
             Order!Closed, Order!Node, EmptyWrapper, Occurs, Dependencies, Reaches, Closed, Node
    <3> QED
      BY <3>2, <3>6 DEF Order!ANext, Order!Node, Node
  <2> QED
    BY <2>1, <2>2 DEF Next
<1> QED
  BY <1>1, <1>2, SortInvariant, PTL DEF Spec, ImplementsOrder, Order!ASpec
=============================================================================
