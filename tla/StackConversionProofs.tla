------------------------- MODULE StackConversionProofs -------------------------
(***************************************************************************)
(* Proofs about StackConversion, for every number of constructs and all    *)
(* templates: what GraphBuilder orders is enough for what the conversion   *)
(* looks up.                                                               *)
(***************************************************************************)
EXTENDS StackConversion, TLAPS

Proved == INSTANCE GraphSortProofs WITH Graphs <- GraphType

(***************************************************************************)
(* The sort that StackConversion runs is the one the proofs are about.     *)
(***************************************************************************)
LEMMA SameEdges ==
  ASSUME NEW g, NEW n
  PROVE  /\ Sort!outgoingEdges(g, n) = Proved!outgoingEdges(g, n)
         /\ Sort!Ignored(g, n) <=> Proved!Ignored(g, n)
BY DEF Sort!outgoingEdges, Proved!outgoingEdges, Sort!Ignored, Proved!Ignored,
       Sort!incomingEdges, Proved!incomingEdges, Sort!Node, Proved!Node

(***************************************************************************)
(* A call of sort is the same record in StackConversion and in GraphSort.  *)
(***************************************************************************)
LEMMA SameCall ==
  ASSUME NEW n, NEW rest
  PROVE  Sort!Call(n, rest) <=> Proved!Call(n, rest)
BY SameEdges, Zenon DEF Sort!Call, Proved!Call

(***************************************************************************)
(* A step of the sort is one of GraphSort.                                 *)
(***************************************************************************)
LEMMA SortStepIsStep == SortStep => Proved!Next
<1> SUFFICES ASSUME SortStep PROVE Proved!Next
  OBVIOUS
<1>1. CASE Sort!SortRoot
  BY <1>1, SameCall, Zenon DEF Sort!SortRoot, Proved!SortRoot, Proved!Next
<1>2. CASE Sort!SortTarget
  BY <1>2, SameCall, Zenon
     DEF Sort!SortTarget, Proved!SortTarget, Sort!NextTargets, Proved!NextTargets, Proved!Next
<1>3. CASE Sort!Push
  BY <1>3, Zenon DEF Sort!Push, Proved!Push, Proved!Next
<1> QED BY <1>1, <1>2, <1>3, Zenon DEF SortStep

(***************************************************************************)
(* So it keeps the invariant proved of GraphSort.                          *)
(***************************************************************************)
LEMMA SortInvKept == Proved!SortInv /\ SortStep => Proved!SortInv'
<1>1. GraphType \subseteq Proved!GraphType
  BY DEF GraphType, Proved!GraphType, Node, Proved!Node
<1> QED BY <1>1, SortStepIsStep, NAssumption, Proved!SortInvNext

(***************************************************************************)
(* The variables of the sort before it starts.                             *)
(***************************************************************************)
NotSorting ==
  root = 0 /\ frames = <<>> /\ todo = [n \in Node |-> {}] /\ visited = {} /\ sorted = <<>>

(***************************************************************************)
(* Before the sort starts, its invariant holds on any graph.               *)
(***************************************************************************)
LEMMA SortInvBefore == graph \in GraphType /\ NotSorting => Proved!SortInv
<1>1. GraphType \subseteq Proved!GraphType
  BY DEF GraphType, Proved!GraphType, Node, Proved!Node
<1>2. graph \in GraphType /\ NotSorting => Proved!Init
  BY DEF NotSorting, Proved!Init, Node, Proved!Node
<1> QED BY <1>1, <1>2, NAssumption, Proved!SortInvInit

(***************************************************************************)
(* The same of the next state: edges may still be added.                   *)
(***************************************************************************)
LEMMA SortInvBeforePrimed == (graph \in GraphType /\ NotSorting => Proved!SortInv)'
BY SortInvBefore, PTL

(***************************************************************************)
(* What the conversion relies on: the nodes are a topological order, with  *)
(* all resources when the sort is done.                                    *)
(***************************************************************************)
LEMMA SortFacts ==
  ASSUME graph \in GraphType, Proved!SortInv
  PROVE  /\ sorted \in Seq(Node)
         /\ Acyclic(graph) =>
              \A i \in 1..Len(sorted) : \A d \in Dependencies(graph, sorted[i]) :
                \E j \in 1..(i - 1) : sorted[j] = d
         /\ Sort!Done => \A n \in graph.resource : \E i \in 1..Len(sorted) : sorted[i] = n
         /\ \A i, j \in 1..Len(sorted) : sorted[i] = sorted[j] => i = j
<1>1. GraphType \subseteq Proved!GraphType
  BY DEF GraphType, Proved!GraphType, Node, Proved!Node
<1>2. sorted \in Seq(Node)
  BY DEF Proved!SortInv, Proved!TypeOK, Node, Proved!Node
<1>3. Acyclic(graph) =>
        \A i \in 1..Len(sorted) : \A d \in Dependencies(graph, sorted[i]) :
          \E j \in 1..(i - 1) : sorted[j] = d
  <2>1. Proved!TopologicallySorted
    BY <1>1, NAssumption, Proved!InvTopological
  <2>2. \A n : Proved!Dependencies(graph, n) = Dependencies(graph, n)
    BY DEF Proved!Dependencies, Dependencies, Proved!Node, Node
  <2>3. \A n, m : Proved!Reaches(graph, n, m) <=> Reaches(graph, n, m)
    BY <2>2 DEF Proved!Reaches, Reaches, Proved!Closed, Closed, Proved!Node, Node
  <2>4. Proved!Acyclic(graph) <=> Acyclic(graph)
    BY <2>2, <2>3 DEF Proved!Acyclic, Acyclic, Proved!OnCycle, OnCycle, Proved!Node, Node
  <2> QED BY <2>1, <2>2, <2>4 DEF Proved!TopologicallySorted
<1>4. Sort!Done => \A n \in graph.resource : \E i \in 1..Len(sorted) : sorted[i] = n
  <2>1. Proved!AllEmitted
    BY <1>1, NAssumption, Proved!InvNothingLost
  <2>2. Sort!Done => Proved!Done
    BY DEF Sort!Done, Proved!Done
  <2>3. graph.resource \subseteq Proved!Node
    BY DEF GraphType, Node, Proved!Node
  <2> QED BY <2>1, <2>2, <2>3 DEF Proved!AllEmitted, Proved!EmptyWrapper, Proved!Occurs
<1>5. \A i, j \in 1..Len(sorted) : sorted[i] = sorted[j] => i = j
  BY DEF Proved!SortInv, Proved!EmittedOnce
<1> QED BY <1>2, <1>3, <1>4, <1>5

-----------------------------------------------------------------------------
(***************************************************************************)
(* The templates the results are about: as CDK synthesizes them.           *)
(***************************************************************************)
Synthesized == \A t \in Templates : WellFormed(t)

(***************************************************************************)
(* E is closed under what the edge pass walks into, save for what is in    *)
(* left, and what it names is in S.                                        *)
(***************************************************************************)
Walked(t, e) == IF e.fn = "GetAtt" THEN t.outputs[e.to] ELSE {}

WalkedBut(t, E, left, S) ==
  /\ E \subseteq Mentioned(t)
  /\ \A e \in E : Walked(t, e) \subseteq E \cup left
  /\ \A e \in E : e.fn # "Param" => Target(t, e) \in S

(***************************************************************************)
(* The inductive invariant.  Edges: an entry the edge pass is done with    *)
(* has edges for its DependsOn and for a closed set of expressions, its    *)
(* own among them.  Registered: what convert has done with is a prefix of  *)
(* the sorted nodes; without cycles, it holds the nested stack that a node *)
(* is in.  Safe: an expression to evaluate is in such a closed set whose   *)
(* targets are registered, and a parameter's value is known from a nested  *)
(* stack that is.                                                          *)
(***************************************************************************)
Types ==
  /\ template \in Templates
  /\ cur \in 0..N
  /\ work \subseteq Mentioned(template)
  /\ graph \in GraphType
  /\ graph.parent = template.parent
  /\ graph.resource = Resources(template)
  /\ pos \in Nat

EdgesOf(t, g, n, left) ==
  /\ t.dependsOn[n] \subseteq g.refs[n]
  /\ \E E \in SUBSET Mentioned(t) :
       t.uses[n] \subseteq E \cup left /\ WalkedBut(t, E, left, g.refs[n])

Edges == \A n \in 1..cur : EdgesOf(template, graph, n, IF n = cur THEN work ELSE {})

Registered ==
  /\ constructs = {sorted[i] : i \in 1..pos}
  /\ resources = (constructs \cap Resources(template)) \ template.stackId
  /\ Acyclic(graph) => \A n \in constructs : template.stackPath[n] \in {0} \cup constructs

Phases ==
  /\ pos <= Len(sorted)
  /\ ~ EdgesDone => NotSorting
  /\ pos > 0 \/ resolving => EdgesDone /\ Sort!Done
  /\ pending # {} => resolving
  /\ resolving => /\ pos < Len(sorted)
                  /\ current \notin template.stackId
                  /\ HasScope
                  /\ template.kind[current] \notin {"nested", "wrapper"}

Safe(t, K, e, stack) ==
  /\ \E E \in SUBSET Mentioned(t) : e \in E /\ WalkedBut(t, E, {}, K)
  /\ e.fn = "Param" => stack \in {0} \cup K

RefusedOnly == error = "VPCCidrBlock" => RefusedBlocks(template) # {}

NothingMissed ==
  Acyclic(graph) /\ NoSubOfOutput(template) /\ template.stackId = {1} =>
    /\ error \notin {"no scope", "missing reference"}
    /\ \A p \in pending : Safe(template, constructs, p[1], p[2])

Inv == Types /\ Proved!SortInv /\ Edges /\ Phases /\ Registered /\ RefusedOnly /\ NothingMissed

(***************************************************************************)
(* What a template of Templates is.                                        *)
(***************************************************************************)
LEMMA TemplateFacts ==
  ASSUME Synthesized, NEW t \in Templates
  PROVE  /\ t \in TemplateType /\ WellFormed(t) /\ 1 \in t.stackId
         /\ Mentioned(t) \subseteq Expr
         /\ Resources(t) \subseteq Node
         /\ 1 \notin Resources(t)
         /\ \A n \in Node : t.uses[n] \subseteq Mentioned(t) /\ t.outputs[n] \subseteq Mentioned(t)
         /\ \A e \in Mentioned(t) : e.fn # "Param" => e.to \in Node /\ t.kind[e.to] # "wrapper"
<1>1. t \in TemplateType /\ WellFormed(t) /\ 1 \in t.stackId
  BY TemplatesAssumption DEF Synthesized, WellFormed
<1>2. \A n \in Node : t.uses[n] \subseteq Expr /\ t.outputs[n] \subseteq Expr
  BY <1>1 DEF TemplateType
<1>3. Mentioned(t) \subseteq Expr
  BY <1>2 DEF Mentioned
<1>4. \A n \in Node : t.uses[n] \subseteq Mentioned(t) /\ t.outputs[n] \subseteq Mentioned(t)
  BY DEF Mentioned
<1>5. 1 \notin Resources(t)
  BY <1>1 DEF WellFormed, Resources
<1>6. ASSUME NEW e \in Mentioned(t), e.fn # "Param"
      PROVE  e.to \in Node /\ t.kind[e.to] # "wrapper"
  <2>1. PICK n \in Node : e \in t.uses[n] \cup t.outputs[n]
    BY DEF Mentioned
  <2>2. e \in Expr /\ e.to \in Node
    BY <1>3, <1>6 DEF Expr
  <2>3. ReferencesIn(t, t.uses[n], t.stackPath[n]) /\ ReferencesIn(t, t.outputs[n], n)
    BY <1>1 DEF WellFormed
  <2> QED BY <1>6, <2>1, <2>2, <2>3 DEF ReferencesIn
<1> QED BY <1>1, <1>3, <1>4, <1>5, <1>6 DEF Resources

(***************************************************************************)
(* What an expression names is a resource.                                 *)
(***************************************************************************)
LEMMA TargetIsResource ==
  ASSUME Synthesized, NEW t \in Templates, NEW e \in Mentioned(t), e.fn # "Param"
  PROVE  Target(t, e) \in Resources(t)
<1>1. e.to \in Resources(t)
  BY TemplateFacts DEF Resources
<1>2. CASE e.fn = "Ipv6CidrBlocks" /\ vpcCidrBlockNodes(t, e.to) # {}
  <2>1. Target(t, e) \in vpcCidrBlockNodes(t, e.to)
    BY <1>2 DEF Target
  <2> QED BY <2>1 DEF vpcCidrBlockNodes, Resources
<1> QED BY <1>1, <1>2 DEF Target

(***************************************************************************)
(* _build starts without edges, with nothing sorted or registered.         *)
(***************************************************************************)
LEMMA InitInv == Synthesized /\ Init => Inv
<1> SUFFICES ASSUME Synthesized, Init PROVE Inv
  OBVIOUS
<1>1. template \in TemplateType /\ Resources(template) \subseteq Node
  BY TemplateFacts DEF Init
<1>2. Types
  BY <1>1, NAssumption DEF Init, Types, GraphType, TemplateType
<1>3. NotSorting
  BY DEF Init, NotSorting
<1>4. Proved!SortInv
  BY <1>2, <1>3, SortInvBefore DEF Types
<1>5. Edges /\ Registered /\ RefusedOnly /\ NothingMissed
  BY DEF Init, Edges, Registered, RefusedOnly, NothingMissed
<1>6. Phases
  BY <1>3, NAssumption DEF Init, Phases
<1> QED BY <1>2, <1>4, <1>5, <1>6 DEF Inv


(***************************************************************************)
(* The edge pass.  Nothing is sorted or converted yet.                     *)
(***************************************************************************)
LEMMA BeforeSort ==
  ASSUME Inv, ~ EdgesDone
  PROVE  NotSorting /\ pos = 0 /\ resolving # TRUE /\ pending = {} /\ constructs = {}
<1>1. NotSorting /\ pos = 0 /\ ~ (resolving = TRUE)
  BY DEF Inv, Phases, NotSorting, Types
<1>2. pending = {}
  BY <1>1 DEF Inv, Phases
<1>3. constructs = {}
  BY <1>1 DEF Inv, Registered
<1> QED BY <1>1, <1>2, <1>3

(***************************************************************************)
(* Nothing of an empty result has been converted.                          *)
(***************************************************************************)
LEMMA NothingYet ==
  ASSUME NEW s, NEW k, s = <<>>, k = 0
  PROVE  k <= Len(s) /\ ~ (k > 0) /\ {s[i] : i \in 1..k} = {}
OBVIOUS

(***************************************************************************)
(* A step of the edge pass keeps all but what the edges and the phase say. *)
(***************************************************************************)
LEMMA EdgeStepInv ==
  ASSUME Inv, ~ EdgesDone, error = "none", Types', Edges',
         UNCHANGED <<template, root, frames, todo, visited, sorted, pos, pending, resolving,
                     constructs, resources, waits, stackResource>>,
         error' \in {"none", "VPCCidrBlock"}, RefusedOnly'
  PROVE  Inv'
<1>1. NotSorting /\ pos = 0 /\ ~ resolving /\ pending = {} /\ constructs = {}
  BY BeforeSort
<1>2. NotSorting' /\ pos' = 0 /\ ~ resolving' /\ pending' = {} /\ constructs' = {}
  BY <1>1 DEF NotSorting
<1>3. Proved!SortInv'
  BY <1>2, SortInvBeforePrimed DEF Types
<1>4. Phases'
  <2>5. sorted' = <<>> /\ pos' = 0
    BY <1>2, Zenon DEF NotSorting
  <2>1. pos' <= Len(sorted') /\ ~ (pos' > 0)
    BY <2>5, NothingYet, Zenon
  <2> QED BY <1>2, <2>1, Zenon DEF Phases
<1>5. Registered'
  <2>1. resources' = {}
    BY <1>1 DEF Inv, Registered
  <2>2. sorted' = <<>> /\ pos' = 0
    BY <1>2, Zenon DEF NotSorting
  <2>3. {sorted'[i] : i \in 1..pos'} = {}
    BY <2>2, NothingYet, Zenon
  <2> QED BY <1>2, <2>1, <2>3 DEF Registered
<1>6. NothingMissed' /\ RefusedOnly'
  BY <1>2 DEF NothingMissed
<1> QED BY <1>3, <1>4, <1>5, <1>6 DEF Inv

(***************************************************************************)
(* The parent, the DependsOn and the expressions of a node                 *)
(* (addEdgesForCfnResource).                                               *)
(***************************************************************************)
LEMMA EdgesOfNodeInv == Synthesized /\ Inv /\ EdgesOfNode => Inv'
<1> SUFFICES ASSUME Synthesized, Inv, EdgesOfNode PROVE Inv'
  OBVIOUS
<1> DEFINE n == cur + 1
<1>1. /\ cur \in 0..N /\ cur < N /\ n \in Node /\ cur' = n /\ n # cur
      /\ ~ EdgesDone /\ error = "none" /\ error' = "none" /\ work = {}
  BY NAssumption DEF EdgesOfNode, Inv, Types, Node, EdgesDone
<1>2. /\ template' = template /\ template \in Templates /\ template \in TemplateType
      /\ work' = template.uses[n] /\ work' \subseteq Mentioned(template)
      /\ template.dependsOn[n] \subseteq Node
  BY <1>1, TemplateFacts DEF EdgesOfNode, Inv, Types, TemplateType
<1>3. /\ graph \in GraphType /\ graph' = [graph EXCEPT !.refs[n] = template.dependsOn[n]]
      /\ graph' \in GraphType /\ graph'.parent = graph.parent /\ graph'.resource = graph.resource
      /\ graph'.refs[n] = template.dependsOn[n]
      /\ \A m \in Node \ {n} : graph'.refs[m] = graph.refs[m]
  BY <1>1, <1>2 DEF EdgesOfNode, Inv, Types, GraphType
<1>4. Types'
  <2>1. graph.parent = template.parent /\ graph.resource = Resources(template) /\ pos \in Nat
    BY DEF Inv, Types
  <2>2. cur' \in 0..N /\ pos' = pos
    BY <1>1, NAssumption DEF EdgesOfNode, convertVars
  <2> QED BY <1>2, <1>3, <2>1, <2>2 DEF Types
<1>5. Edges'
  <2> SUFFICES ASSUME NEW m \in 1..n
               PROVE  EdgesOf(template, graph', m, IF m = n THEN work' ELSE {})
    BY <1>1, <1>2 DEF Edges
  <2>1. CASE m = n
    <3>1. template.uses[n] \subseteq {} \cup work' /\ WalkedBut(template, {}, work', graph'.refs[n])
      BY <1>2 DEF WalkedBut
    <3> QED BY <1>3, <2>1, <3>1 DEF EdgesOf
  <2>2. CASE m # n
    <3>1. m \in 1..cur /\ m \in Node \ {n}
      BY <1>1, <2>2, NAssumption DEF Node
    <3>2. EdgesOf(template, graph, m, {})
      BY <1>1, <3>1 DEF Inv, Edges
    <3> QED BY <1>3, <2>2, <3>1, <3>2 DEF EdgesOf
  <2> QED BY <2>1, <2>2
<1>6. UNCHANGED <<template, root, frames, todo, visited, sorted, pos, pending, resolving,
                  constructs, resources, waits, stackResource>>
  BY DEF EdgesOfNode, convertVars
<1> QED BY <1>1, <1>4, <1>5, <1>6, EdgeStepInv DEF RefusedOnly

(***************************************************************************)
(* One expression (addEdgesForIntrinsic): its edges are those that the     *)
(* conversion needs, what it leads to is still to be walked.               *)
(***************************************************************************)
LEMMA EdgesOfExpressionInv == Synthesized /\ Inv /\ EdgesOfExpression => Inv'
<1> SUFFICES ASSUME Synthesized, Inv, EdgesOfExpression PROVE Inv'
  OBVIOUS
<1>1. ~ EdgesDone /\ error = "none" /\ error' = "none" /\ work # {} /\ cur' = cur /\ cur \in 0..N
  BY DEF EdgesOfExpression, EdgesDone, Inv, Types
<1>2. template' = template /\ template \in Templates /\ template \in TemplateType
  BY TemplateFacts DEF EdgesOfExpression, Inv, Types
<1>3. PICK e \in work : /\ work' = (work \ {e}) \cup WalkedInto(e)
                        /\ graph' = IF e.fn = "Param" THEN graph
                                    ELSE [graph EXCEPT !.refs[cur] = @ \cup {Target(template, e)}]
  BY <1>1 DEF EdgesOfExpression
<1>4. e \in Mentioned(template) /\ work \subseteq Mentioned(template) /\ WalkedInto(e) \subseteq Mentioned(template)
  <2>1. e \in Mentioned(template) /\ work \subseteq Mentioned(template)
    BY DEF Inv, Types
  <2>2. e.fn = "GetAtt" => e.to \in Node
    BY <1>2, <2>1, TemplateFacts
  <2> QED BY <1>2, <2>1, <2>2, TemplateFacts DEF WalkedInto
<1>5. e.fn # "Param" => Target(template, e) \in Node
  BY <1>2, <1>4, TargetIsResource DEF Resources
<1>6. /\ graph \in GraphType /\ graph' \in GraphType
      /\ graph'.parent = graph.parent /\ graph'.resource = graph.resource
      /\ \A m \in Node : graph.refs[m] \subseteq graph'.refs[m]
      /\ cur \in Node /\ e.fn # "Param" => Target(template, e) \in graph'.refs[cur]
  <2>1. graph \in GraphType
    BY DEF Inv, Types
  <2>2. CASE e.fn = "Param"
    BY <1>3, <2>1, <2>2
  <2>3. CASE e.fn # "Param"
    <3>1. graph' = [graph EXCEPT !.refs = [graph.refs EXCEPT ![cur] = @ \cup {Target(template, e)}]]
      BY <1>3, <2>3
    <3>2. [graph.refs EXCEPT ![cur] = @ \cup {Target(template, e)}] \in [Node -> SUBSET Node]
      BY <1>5, <2>1, <2>3 DEF GraphType
    <3> QED BY <2>1, <3>1, <3>2 DEF GraphType
  <2> QED BY <2>2, <2>3
<1>7. Types'
  BY <1>1, <1>2, <1>3, <1>4, <1>6 DEF EdgesOfExpression, convertVars, Inv, Types, Resources, Mentioned
<1>8. Edges'
  <2> SUFFICES ASSUME NEW m \in 1..cur
               PROVE  EdgesOf(template, graph', m, IF m = cur THEN work' ELSE {})
    BY <1>1, <1>2 DEF Edges
  <2> DEFINE left == IF m = cur THEN work ELSE {}
  <2>1. m \in Node /\ graph.refs[m] \subseteq graph'.refs[m]
    BY <1>1, <1>6, NAssumption DEF Node
  <2>2. EdgesOf(template, graph, m, left)
    BY DEF Inv, Edges
  <2>3. PICK E \in SUBSET Mentioned(template) :
          template.uses[m] \subseteq E \cup left /\ WalkedBut(template, E, left, graph.refs[m])
    BY <2>2 DEF EdgesOf
  <2>4. template.dependsOn[m] \subseteq graph'.refs[m]
    BY <2>1, <2>2 DEF EdgesOf
  <2>5. CASE m = cur
    <3> DEFINE F == E \cup {e}
    <3>1. F \in SUBSET Mentioned(template) /\ template.uses[m] \subseteq F \cup work'
      BY <1>3, <1>4, <2>3, <2>5
    <3>2. \A x \in F : Walked(template, x) \subseteq F \cup work'
      BY <1>3, <2>3, <2>5 DEF WalkedBut, WalkedInto, Walked
    <3>3. \A x \in F : x.fn # "Param" => Target(template, x) \in graph'.refs[m]
      BY <1>6, <2>1, <2>3, <2>5 DEF WalkedBut
    <3>4. WalkedBut(template, F, work', graph'.refs[m])
      BY <3>1, <3>2, <3>3 DEF WalkedBut
    <3> QED BY <2>4, <2>5, <3>1, <3>4 DEF EdgesOf
  <2>6. CASE m # cur
    <3>1. WalkedBut(template, E, {}, graph'.refs[m])
      BY <2>1, <2>3, <2>6 DEF WalkedBut
    <3> QED BY <2>3, <2>4, <2>6, <3>1 DEF EdgesOf
  <2> QED BY <2>5, <2>6
<1>9. UNCHANGED <<template, root, frames, todo, visited, sorted, pos, pending, resolving,
                  constructs, resources, waits, stackResource>>
  BY DEF EdgesOfExpression, convertVars
<1> QED BY <1>1, <1>7, <1>8, <1>9, EdgeStepInv DEF RefusedOnly

(***************************************************************************)
(* A VPCCidrBlock that is refused ends _build with an error.               *)
(***************************************************************************)
LEMMA RefuseCidrBlockInv == Synthesized /\ Inv /\ RefuseCidrBlock => Inv'
<1> SUFFICES ASSUME Synthesized, Inv, RefuseCidrBlock PROVE Inv'
  OBVIOUS
<1>1. ~ EdgesDone /\ error = "none" /\ error' = "VPCCidrBlock" /\ RefusedOnly'
  BY NAssumption DEF RefuseCidrBlock, EdgesDone, RefusedOnly
<1>2. UNCHANGED <<template, cur, work, graph, root, frames, todo, visited, sorted, pos, pending,
                  resolving, constructs, resources, waits, stackResource>>
  BY DEF RefuseCidrBlock, buildVars, sortVars, convertVars
<1>3. Types' /\ Edges'
  BY <1>2 DEF Inv, Types, Edges
<1> QED BY <1>1, <1>2, <1>3, EdgeStepInv

-----------------------------------------------------------------------------
(***************************************************************************)
(* The sort.  Nothing is converted yet.                                    *)
(***************************************************************************)
LEMMA SortStepInv == Inv /\ SortStep => Inv'
<1> SUFFICES ASSUME Inv, SortStep PROVE Inv'
  OBVIOUS
<1>1. UNCHANGED <<template, cur, work, graph, pos, pending, resolving, constructs, resources, error>>
  BY DEF SortStep, buildVars, convertVars, Sort!SortRoot, Sort!SortTarget, Sort!Push
<1>2. EdgesDone /\ EdgesDone'
  BY <1>1 DEF SortStep, EdgesDone
<1>3. ~ Sort!Done
  <2>1. Sort!SortRoot => root # N
    BY NAssumption DEF Sort!SortRoot
  <2>2. Sort!SortTarget \/ Sort!Push => frames # <<>>
    BY DEF Sort!SortTarget, Sort!Push
  <2> QED BY <2>1, <2>2 DEF SortStep, Sort!Done
<1>4. ~ (pos > 0) /\ ~ resolving /\ pending = {} /\ pos \in Nat
  BY <1>3, Zenon DEF Inv, Phases, Types
<1>5. pos = 0 /\ constructs = {} /\ resources = {}
  <2>1. pos = 0 /\ {sorted[i] : i \in 1..pos} = {}
    BY <1>4
  <2> QED BY <2>1 DEF Inv, Registered
<1>6. Types' /\ Edges'
  BY <1>1 DEF Inv, Types, Edges
<1>7. Proved!SortInv'
  BY SortInvKept DEF Inv
<1>8. sorted' \in Seq(Node)
  BY <1>7 DEF Proved!SortInv, Proved!TypeOK, Node, Proved!Node
<1>9. Phases'
  <2>1. pos' <= Len(sorted') /\ ~ (pos' > 0)
    BY <1>1, <1>5, <1>8
  <2> QED BY <1>1, <1>2, <1>4, <2>1, Zenon DEF Phases
<1>10. Registered'
  <2>1. pos' = 0 /\ constructs' = {} /\ resources' = {}
    BY <1>1, <1>5
  <2>2. {sorted'[i] : i \in 1..pos'} = {}
    BY <2>1
  <2> QED BY <2>1, <2>2 DEF Registered
<1>11. NothingMissed' /\ RefusedOnly'
  BY <1>1, <1>4 DEF Inv, NothingMissed, RefusedOnly
<1> QED BY <1>6, <1>7, <1>9, <1>10, <1>11 DEF Inv

-----------------------------------------------------------------------------
(***************************************************************************)
(* The conversion.  What convert may rely on when it looks at a node: all  *)
(* edges are there, and, without cycles, what the node depends on and what *)
(* that depends on has been converted.                                     *)
(***************************************************************************)
LEMMA ConvertFacts ==
  ASSUME Synthesized, Inv, Converting
  PROVE  /\ pos \in Nat /\ pos + 1 \in 1..Len(sorted)
         /\ sorted \in Seq(Node) /\ current \in Node /\ constructs \subseteq Node
         /\ \A n \in Node : EdgesOf(template, graph, n, {})
         /\ Acyclic(graph) => Dependencies(graph, current) \subseteq constructs
         /\ Acyclic(graph) => \A m \in constructs : Dependencies(graph, m) \subseteq constructs
<1>1. pos \in Nat /\ graph \in GraphType /\ sorted \in Seq(Node) /\ pos < Len(sorted)
  BY SortFacts DEF Inv, Types, Converting
<1>2. pos + 1 \in 1..Len(sorted) /\ current \in Node
  BY <1>1 DEF current
<1>3. constructs = {sorted[i] : i \in 1..pos}
  BY DEF Inv, Registered
<1>4. constructs \subseteq Node
  BY <1>1, <1>3
<1>5. ASSUME NEW n \in Node PROVE EdgesOf(template, graph, n, {})
  <2>1. cur = N /\ work = {}
    BY DEF Converting, EdgesDone
  <2>2. EdgesOf(template, graph, n, IF n = cur THEN work ELSE {})
    BY <2>1 DEF Inv, Edges, Node
  <2> QED BY <2>1, <2>2
<1>6. ASSUME Acyclic(graph), NEW i \in 1..(pos + 1), NEW d \in Dependencies(graph, sorted[i])
      PROVE  d \in constructs
  <2>1. i \in 1..Len(sorted)
    BY <1>1
  <2>2. PICK j \in 1..(i - 1) : sorted[j] = d
    BY <1>1, <1>6, <2>1, SortFacts DEF Inv
  <2>3. j \in 1..pos
    BY <1>1
  <2> QED BY <1>3, <2>2, <2>3
<1>7. Acyclic(graph) => Dependencies(graph, current) \subseteq constructs
  <2>1. pos + 1 \in 1..(pos + 1)
    BY <1>1
  <2> QED BY <1>6, <2>1 DEF current
<1>8. Acyclic(graph) => \A m \in constructs : Dependencies(graph, m) \subseteq constructs
  <2>1. \A i \in 1..pos : i \in 1..(pos + 1)
    BY <1>1
  <2> QED BY <1>3, <1>6, <2>1
<1> QED BY <1>1, <1>2, <1>4, <1>5, <1>7, <1>8

(***************************************************************************)
(* What an iteration of the loop does not touch.                           *)
(***************************************************************************)
LEMMA ConvertStepInv ==
  ASSUME Inv, UNCHANGED <<template, buildVars, sortVars>>, Phases', Registered', RefusedOnly',
         NothingMissed', pos' \in Nat
  PROVE  Inv'
<1>1. UNCHANGED <<template, cur, work, graph, root, frames, todo, visited, sorted>>
  BY DEF buildVars, sortVars
<1>2. Types' /\ Edges'
  BY <1>1 DEF Inv, Types, Edges
<1>3. Proved!SortInv'
  <2>1. GraphType \subseteq Proved!GraphType
    BY DEF GraphType, Proved!GraphType, Node, Proved!Node
  <2>2. UNCHANGED Proved!vars
    BY <1>1 DEF Proved!vars
  <2> QED BY <2>1, <2>2, NAssumption, Proved!SortInvNext DEF Inv
<1> QED BY <1>2, <1>3 DEF Inv

(***************************************************************************)
(* Without cycles, the stack that the node is in has been converted before *)
(* it.                                                                     *)
(***************************************************************************)
LEMMA StackBefore ==
  ASSUME Synthesized, Inv, Converting, Acyclic(graph)
  PROVE  template.stackPath[current] \in {0} \cup constructs
<1>1. current \in Node /\ Dependencies(graph, current) \subseteq constructs
  BY ConvertFacts
<1>2. template \in TemplateType /\ WellFormed(template)
  BY TemplateFacts DEF Inv, Types
<1>3. template.stackPath[current] = stackPath(template, current)
  BY <1>1, <1>2 DEF WellFormed
<1>4. CASE template.parent[current] = 0
  BY <1>3, <1>4 DEF stackPath
<1>5. CASE template.parent[current] # 0
  <2>1. template.parent[current] \in Node
    BY <1>1, <1>2, <1>5, NAssumption DEF TemplateType, Node
  <2>2. template.parent[current] \in constructs
    BY <1>1, <1>5, <2>1 DEF Dependencies, Inv, Types
  <2>3. template.stackPath[template.parent[current]] \in {0} \cup constructs
    BY <2>2 DEF Inv, Registered
  <2> QED BY <1>3, <2>2, <2>3 DEF stackPath
<1> QED BY <1>4, <1>5

(***************************************************************************)
(* The end of an iteration: the node joins what has been converted.        *)
(***************************************************************************)
LEMMA Advance ==
  ASSUME Synthesized, Inv, Converting, UNCHANGED <<template, buildVars, sortVars>>,
         pos' = pos + 1, constructs' = constructs \cup {current},
         resources' = resources \cup (({current} \cap Resources(template)) \ template.stackId),
         ~ resolving', pending' = {}, error' = "none"
  PROVE  Inv'
<1>1. UNCHANGED <<template, cur, work, graph, root, frames, todo, visited, sorted>>
  BY DEF buildVars, sortVars
<1>2. /\ pos \in Nat /\ pos + 1 \in 1..Len(sorted) /\ current \in Node /\ constructs \subseteq Node
      /\ sorted \in Seq(Node)
  BY ConvertFacts
<1>3. template \in Templates /\ template \in TemplateType /\ WellFormed(template)
  BY TemplateFacts DEF Inv, Types
<1>4. Phases'
  <2>1. pos' <= Len(sorted')
    BY <1>1, <1>2
  <2>2. EdgesDone' /\ Sort!Done'
    BY <1>1 DEF Converting, EdgesDone, Sort!Done
  <2> QED BY <2>1, <2>2, Zenon DEF Phases
<1>5. Registered'
  <2>1. constructs' = {sorted'[i] : i \in 1..pos'}
    <3>1. 1..(pos + 1) = (1..pos) \cup {pos + 1}
      BY <1>2
    <3> QED BY <1>1, <3>1 DEF Inv, Registered, current
  <2>2. resources' = (constructs' \cap Resources(template)) \ template.stackId
    BY DEF Inv, Registered
  <2>3. ASSUME Acyclic(graph), NEW n \in constructs' PROVE template.stackPath[n] \in {0} \cup constructs'
    <3>1. CASE n \in constructs
      BY <2>3, <3>1 DEF Inv, Registered
    <3>2. CASE n = current
      BY <2>3, <3>2, StackBefore
    <3> QED BY <3>1, <3>2
  <2> QED BY <1>1, <2>1, <2>2, <2>3 DEF Registered, Resources
<1>6. NothingMissed' /\ RefusedOnly'
  BY DEF NothingMissed, RefusedOnly
<1>7. pos' \in Nat
  BY <1>2
<1> QED BY <1>4, <1>5, <1>6, <1>7, ConvertStepInv

(***************************************************************************)
(* A step within an iteration.                                             *)
(***************************************************************************)
LEMMA WithinIteration ==
  ASSUME Inv, Converting, UNCHANGED <<template, buildVars, sortVars, pos, constructs, resources>>,
         pending' # {} => resolving',
         resolving' => /\ current \notin template.stackId
                       /\ HasScope
                       /\ template.kind[current] \notin {"nested", "wrapper"},
         error' # "VPCCidrBlock", NothingMissed'
  PROVE  Inv'
<1>1. UNCHANGED <<template, cur, work, graph, root, frames, todo, visited, sorted, pos, constructs, resources>>
  BY DEF buildVars, sortVars
<1>2. pos' <= Len(sorted') /\ pos' < Len(sorted') /\ pos' \in Nat
  BY <1>1 DEF Inv, Types, Phases, Converting
<1>3. EdgesDone' /\ Sort!Done' /\ current' = current /\ (HasScope <=> HasScope')
  BY <1>1 DEF Converting, EdgesDone, Sort!Done, current, HasScope
<1>4. Phases'
  BY <1>1, <1>2, <1>3, Zenon DEF Phases
<1>5. Registered'
  BY <1>1 DEF Inv, Registered
<1> QED BY <1>2, <1>4, <1>5, ConvertStepInv DEF RefusedOnly

(***************************************************************************)
(* The iteration of convert for the stack, or what has its id.             *)
(***************************************************************************)
LEMMA ConvertStackInv == Synthesized /\ Inv /\ ConvertStack => Inv'
<1> SUFFICES ASSUME Synthesized, Inv, ConvertStack PROVE Inv'
  OBVIOUS
<1>1. ({current} \cap Resources(template)) \ template.stackId = {}
  BY DEF ConvertStack
<1>2. ~ resolving /\ pending = {}
  BY Zenon DEF ConvertStack, Inv, Phases
<1> QED BY <1>1, <1>2, Advance DEF ConvertStack, Converting

(***************************************************************************)
(* The iteration of convert for a construct without resource.              *)
(***************************************************************************)
LEMMA ConvertComponentInv == Synthesized /\ Inv /\ ConvertComponent => Inv'
<1> SUFFICES ASSUME Synthesized, Inv, ConvertComponent PROVE Inv'
  OBVIOUS
<1>1. current \in Node
  BY ConvertFacts DEF ConvertComponent
<1>2. ({current} \cap Resources(template)) \ template.stackId
        = IF template.kind[current] = "nested" THEN {current} ELSE {}
  BY <1>1 DEF ConvertComponent, Resources
<1>3. ~ resolving /\ pending = {}
  BY Zenon DEF ConvertComponent, Inv, Phases
<1> QED BY <1>2, <1>3, Advance DEF ConvertComponent, Converting

(***************************************************************************)
(* The scope of a node is a dependency of it.                              *)
(***************************************************************************)
LEMMA NoScopeInv == Synthesized /\ Inv /\ NoScope => Inv'
<1> SUFFICES ASSUME Synthesized, Inv, NoScope PROVE Inv'
  OBVIOUS
<1>1. ~ resolving /\ pending = {}
  BY Zenon DEF NoScope, Inv, Phases
<1>2. UNCHANGED <<template, graph, pos, pending, resolving, constructs, resources>>
  BY DEF NoScope, sortVars, convertVars
<1>3. ~ Acyclic(graph)
  <2> SUFFICES ASSUME Acyclic(graph) PROVE FALSE
    OBVIOUS
  <2>1. template \in TemplateType /\ WellFormed(template) /\ 1 \in template.stackId
    BY TemplateFacts DEF Inv, Types
  <2>2. current \in Node /\ current # 1
    BY <2>1, ConvertFacts DEF NoScope
  <2>3. template.parent[current] \in 0..N /\ template.parent[current] # 0
    BY <2>1, <2>2 DEF WellFormed, TemplateType
  <2>4. template.parent[current] \in Dependencies(graph, current)
    BY <2>3, NAssumption DEF Inv, Types, Dependencies, Node
  <2>5. Dependencies(graph, current) \subseteq constructs
    BY ConvertFacts DEF NoScope
  <2> QED BY <2>4, <2>5 DEF NoScope, HasScope
<1>4. NothingMissed'
  BY <1>2, <1>3 DEF NothingMissed
<1> QED BY <1>1, <1>2, <1>4, WithinIteration DEF NoScope

(***************************************************************************)
(* Without cycles, the expressions of what is converted, and of the node   *)
(* that is next, are in closed sets whose targets have been converted.     *)
(***************************************************************************)
LEMMA UsesCovered ==
  ASSUME Synthesized, Inv, Converting, Acyclic(graph), NEW n \in constructs \cup {current}
  PROVE  /\ template.dependsOn[n] \subseteq constructs
         /\ \E E \in SUBSET Mentioned(template) :
              template.uses[n] \subseteq E /\ WalkedBut(template, E, {}, constructs)
<1>1. n \in Node /\ EdgesOf(template, graph, n, {}) /\ Dependencies(graph, n) \subseteq constructs
  BY ConvertFacts
<1>2. graph.refs[n] \subseteq constructs
  <2>1. graph \in GraphType
    BY DEF Inv, Types
  <2> QED BY <1>1, <2>1 DEF Dependencies, GraphType
<1>3. PICK E \in SUBSET Mentioned(template) :
        template.uses[n] \subseteq E /\ WalkedBut(template, E, {}, graph.refs[n])
  BY <1>1 DEF EdgesOf
<1>4. WalkedBut(template, E, {}, constructs)
  BY <1>2, <1>3 DEF WalkedBut
<1> QED BY <1>1, <1>2, <1>3, <1>4 DEF EdgesOf

(***************************************************************************)
(* The iteration for a resource, up to its first expression: its scope and *)
(* what it depends on are registered.                                      *)
(***************************************************************************)
LEMMA BeginResourceInv == Synthesized /\ Inv /\ BeginResource => Inv'
<1> SUFFICES ASSUME Synthesized, Inv, BeginResource PROVE Inv'
  OBVIOUS
<1>1. /\ UNCHANGED <<template, graph, pos, constructs, resources, error>>
      /\ resolving' = TRUE /\ error = "none"
      /\ pending' = template.uses[current] \X {template.stackPath[current]}
  BY DEF BeginResource, sortVars, Converting
<1>2. NothingMissed'
  <2> SUFFICES ASSUME Acyclic(graph), NEW p \in pending'
               PROVE  Safe(template, constructs, p[1], p[2])
    BY <1>1 DEF NothingMissed
  <2>1. p[1] \in template.uses[current] /\ p[2] = template.stackPath[current]
    BY <1>1
  <2>2. p[2] \in {0} \cup constructs
    BY <2>1, StackBefore DEF BeginResource
  <2>3. PICK E \in SUBSET Mentioned(template) :
          template.uses[current] \subseteq E /\ WalkedBut(template, E, {}, constructs)
    BY UsesCovered DEF BeginResource
  <2> QED BY <2>1, <2>2, <2>3 DEF Safe
<1> QED BY <1>1, <1>2, WithinIteration DEF BeginResource

(***************************************************************************)
(* What is safe resolves, and what it evaluates in turn is safe.           *)
(***************************************************************************)
LEMMA SafeResolves ==
  ASSUME Synthesized, Inv, template.stackId = {1},
         NEW e, NEW stack, Safe(template, constructs, e, stack)
  PROVE  Resolves(e)
<1>1. e \in Mentioned(template) /\ (e.fn # "Param" => Target(template, e) \in constructs)
  BY DEF Safe, WalkedBut
<1>2. e.fn # "Param" => Target(template, e) \in Resources(template) \ {1}
  BY <1>1, TargetIsResource, TemplateFacts DEF Inv, Types
<1> QED BY <1>1, <1>2 DEF Resolves, Inv, Registered

(***************************************************************************)
(* What an expression leads to is as safe to evaluate as the expression.   *)
(***************************************************************************)
LEMMA SafeInside ==
  ASSUME Synthesized, Inv, Converting, Acyclic(graph), NoSubOfOutput(template),
         NEW e, NEW stack, Safe(template, constructs, e, stack), NEW q \in EvaluatedInto(e, stack)
  PROVE  Safe(template, constructs, q[1], q[2])
<1>1. PICK E \in SUBSET Mentioned(template) : e \in E /\ WalkedBut(template, E, {}, constructs)
  BY DEF Safe
<1>2. CASE e.fn = "Param"
  <2>1. stack \in constructs /\ q \in template.uses[stack] \X {template.stackPath[stack]}
    BY <1>2 DEF EvaluatedInto, Safe
  <2>2. q[1] \in template.uses[stack] /\ q[2] \in {0} \cup constructs
    BY <2>1 DEF Inv, Registered
  <2>3. PICK F \in SUBSET Mentioned(template) :
          template.uses[stack] \subseteq F /\ WalkedBut(template, F, {}, constructs)
    BY <2>1, UsesCovered
  <2> QED BY <2>2, <2>3 DEF Safe
<1>3. CASE e.fn # "Param"
  <2>1. /\ e.fn \in {"GetAtt", "Sub"} /\ template.kind[e.to] = "nested"
        /\ q \in template.outputs[e.to] \X {e.to}
    BY <1>3 DEF EvaluatedInto
  <2>2. e.fn = "GetAtt"
    BY <1>1, <2>1 DEF NoSubOfOutput
  <2>3. e.to \in constructs /\ template.outputs[e.to] \subseteq E
    BY <1>1, <2>2 DEF WalkedBut, Walked, Target
  <2> QED BY <1>1, <2>1, <2>3 DEF Safe
<1> QED BY <1>2, <1>3

(***************************************************************************)
(* The evaluation of one expression: what it names is registered, when the *)
(* graph is acyclic and there is no Fn::Sub of an output.                  *)
(***************************************************************************)
LEMMA ResolveInv == Synthesized /\ Inv /\ Resolve => Inv'
<1> SUFFICES ASSUME Synthesized, Inv, Resolve PROVE Inv'
  OBVIOUS
<1>1. /\ UNCHANGED <<template, graph, pos, resolving, constructs, resources>>
      /\ Converting /\ error = "none" /\ pending # {}
  BY DEF Resolve, sortVars, Converting
<1>2. PICK p \in pending :
        IF Resolves(p[1])
        THEN pending' = (pending \ {p}) \cup EvaluatedInto(p[1], p[2]) /\ UNCHANGED error
        ELSE error' = "missing reference" /\ UNCHANGED pending
  BY DEF Resolve
<1>3. NothingMissed'
  <2> SUFFICES ASSUME Acyclic(graph), NoSubOfOutput(template), template.stackId = {1}
               PROVE  /\ error' \notin {"no scope", "missing reference"}
                      /\ \A q \in pending' : Safe(template, constructs, q[1], q[2])
    BY <1>1 DEF NothingMissed
  <2>1. \A q \in pending : Safe(template, constructs, q[1], q[2])
    BY DEF Inv, NothingMissed
  <2>2. Resolves(p[1])
    BY <2>1, SafeResolves
  <2>3. \A q \in EvaluatedInto(p[1], p[2]) : Safe(template, constructs, q[1], q[2])
    BY <1>1, <2>1, SafeInside
  <2> QED BY <1>1, <1>2, <2>1, <2>2, <2>3
<1>4. resolving
  BY <1>1 DEF Inv, Phases
<1> QED BY <1>1, <1>3, <1>4, WithinIteration DEF Resolve, Inv, Phases

(***************************************************************************)
(* What a DependsOn names is a dependency of the node and a resource.      *)
(***************************************************************************)
LEMMA RegisterResourceInv == Synthesized /\ Inv /\ RegisterResource => Inv'
<1> SUFFICES ASSUME Synthesized, Inv, RegisterResource PROVE Inv'
  OBVIOUS
<1>1. /\ Converting /\ current \in Node /\ error = "none" /\ pending = {} /\ resolving' = FALSE
      /\ pending' = {} /\ UNCHANGED <<template, graph>> /\ HasScope
      /\ current \notin template.stackId
      /\ template.kind[current] \notin {"nested", "wrapper"}
  BY ConvertFacts, Zenon DEF RegisterResource, Converting, sortVars, Inv, Phases
<1>2. CASE template.dependsOn[current] \subseteq resources
  <2>1. ({current} \cap Resources(template)) \ template.stackId = {current}
    BY <1>1 DEF Resources
  <2> QED BY <1>1, <1>2, <2>1, Advance DEF RegisterResource
<1>3. CASE ~ (template.dependsOn[current] \subseteq resources)
  <2>1. UNCHANGED <<pos, constructs, resources>>
    BY <1>3 DEF RegisterResource
  <2>2. ~ Acyclic(graph) \/ template.stackId # {1}
    <3> SUFFICES ASSUME Acyclic(graph), template.stackId = {1} PROVE FALSE
      OBVIOUS
    <3>1. template.dependsOn[current] \subseteq constructs
      BY <1>1, UsesCovered
    <3>2. template \in TemplateType /\ WellFormed(template)
      BY TemplateFacts DEF Inv, Types
    <3>3. \A d \in template.dependsOn[current] : d \in Node /\ template.kind[d] # "wrapper"
      BY <1>1, <3>2 DEF WellFormed, TemplateType
    <3>4. template.dependsOn[current] \subseteq resources
      BY <3>1, <3>3, TemplateFacts DEF Inv, Types, Registered, Resources
    <3> QED BY <1>3, <3>4
  <2>3. NothingMissed'
    BY <1>1, <2>2 DEF NothingMissed
  <2> QED BY <1>1, <2>1, <2>3, WithinIteration DEF RegisterResource
<1> QED BY <1>2, <1>3

(***************************************************************************)
(* A step of nobody.                                                       *)
(***************************************************************************)
LEMMA StutterInv == Inv /\ UNCHANGED vars => Inv'
<1> SUFFICES ASSUME Inv, UNCHANGED vars PROVE Inv'
  OBVIOUS
<1>1. /\ UNCHANGED <<template, buildVars, sortVars, convertVars, error>>
      /\ UNCHANGED <<template, cur, work, graph, root, frames, todo, visited, sorted, pos, pending,
                     resolving, constructs, resources, error>>
  BY DEF vars, buildVars, sortVars, convertVars
<1>2. Phases' /\ pos' \in Nat
  BY <1>1 DEF Inv, Types, Phases, EdgesDone, Sort!Done, NotSorting, current, HasScope
<1>3. Registered' /\ NothingMissed' /\ RefusedOnly'
  BY <1>1 DEF Inv, Registered, NothingMissed, RefusedOnly
<1> QED BY <1>1, <1>2, <1>3, ConvertStepInv

(***************************************************************************)
(* Every step of the edge pass, the sort and the loop of convert keeps the *)
(* invariant.                                                              *)
(***************************************************************************)
LEMMA NextInv == Synthesized /\ Inv /\ [Next]_vars => Inv'
BY EdgesOfNodeInv, EdgesOfExpressionInv, RefuseCidrBlockInv, SortStepInv, ConvertStackInv, NoScopeInv,
   ConvertComponentInv, BeginResourceInv, ResolveInv, RegisterResourceInv, StutterInv
   DEF Next, Terminating

(***************************************************************************)
(* The invariant holds throughout the conversion of any template that CDK  *)
(* can synthesize.                                                         *)
(***************************************************************************)
LEMMA ConversionInvariant == ASSUME Synthesized PROVE Spec => []Inv
<1>1. Init => Inv
  BY InitInv
<1>2. Inv /\ [Next]_vars => Inv'
  BY NextInv
<1> QED BY <1>1, <1>2, PTL DEF Spec

(***************************************************************************)
(* The edges that addEdgesForCfnResource finds are enough: when they have  *)
(* no cycle, whatever processIntrinsics looks up, through however many     *)
(* outputs and parameters of nested stacks, whatever a DependsOn names and *)
(* whatever is the scope of a node has been registered before, in every    *)
(* stack of any size.  (Not so for Fn::Sub of an output of a nested stack, *)
(* and not when another construct has the id of the stack.)                *)
(***************************************************************************)
THEOREM OrderedReferencesResolve ==
  ASSUME Synthesized
  PROVE  Spec => [](error \in {"no scope", "missing reference"} =>
                      ~ Acyclic(graph) \/ ~ NoSubOfOutput(template) \/ template.stackId # {1})
<1>1. Inv => (error \in {"no scope", "missing reference"} =>
                ~ Acyclic(graph) \/ ~ NoSubOfOutput(template) \/ template.stackId # {1})
  BY DEF Inv, NothingMissed
<1> QED BY <1>1, ConversionInvariant, PTL

(***************************************************************************)
(* When convert returns, the resources of the templates that are not       *)
(* registered are exactly those whose construct has the id of the stack:   *)
(* the sort loses none and the loop skips no other, in every template, on  *)
(* graphs with cycles too.                                                 *)
(***************************************************************************)
THEOREM ResourcesConverted ==
  ASSUME Synthesized
  PROVE  Spec => []AllResourcesConverted
<1>1. Inv => AllResourcesConverted
  <2> SUFFICES ASSUME Inv, Converted PROVE resources = Resources(template) \ template.stackId
    BY DEF AllResourcesConverted
  <2>1. \A n \in Resources(template) : \E i \in 1..Len(sorted) : sorted[i] = n
    BY SortFacts DEF Inv, Types, Converted
  <2>2. Resources(template) \subseteq constructs
    BY <2>1 DEF Inv, Registered, Converted
  <2> QED BY <2>2 DEF Inv, Registered
<1> QED BY <1>1, ConversionInvariant, PTL

-----------------------------------------------------------------------------
(***************************************************************************)
(* What a resource waits for is what processOptions makes of its DependsOn,*)
(* from its registration on.                                               *)
(***************************************************************************)
WaitsInv ==
  /\ resources \subseteq Node
  /\ waits \in [Node -> SUBSET (Node \X {"main", "other"})]
  /\ \A n \in resources :
       template.kind[n] # "nested" =>
         waits[n] = UNION {OptionsDependsOn(d) : d \in template.dependsOn[n]}

(***************************************************************************)
(* What a resource waits for is settled when it is registered and stays.   *)
(***************************************************************************)
LEMMA WaitsNext == Synthesized /\ Inv /\ WaitsInv /\ [Next]_vars => WaitsInv'
<1> SUFFICES ASSUME Synthesized, Inv, WaitsInv, [Next]_vars PROVE WaitsInv'
  OBVIOUS
<1>1. CASE UNCHANGED <<template, resources, waits>>
  BY <1>1 DEF WaitsInv, OptionsDependsOn
<1>2. CASE ConvertComponent
  <2>1. current \in Node
    BY <1>2, ConvertFacts DEF ConvertComponent
  <2>2. /\ UNCHANGED <<template, waits>>
        /\ resources' \subseteq resources \cup {current}
        /\ resources' # resources => template.kind[current] = "nested"
    BY <1>2 DEF ConvertComponent
  <2> QED BY <2>1, <2>2 DEF WaitsInv, OptionsDependsOn
<1>3. CASE RegisterResource
  <2>1. current \in Node /\ template' = template
    BY <1>3, ConvertFacts DEF RegisterResource
  <2>2. CASE UNCHANGED <<waits, resources>>
    BY <1>1, <2>1, <2>2
  <2>3. CASE template.dependsOn[current] \subseteq resources
    <3> DEFINE on == UNION {OptionsDependsOn(d) : d \in template.dependsOn[current]}
    <3>1. waits' = [waits EXCEPT ![current] = on] /\ resources' = resources \cup {current}
      BY <1>3, <2>3 DEF RegisterResource
    <3>2. on \subseteq Node \X {"main", "other"}
      BY <2>3 DEF WaitsInv, OptionsDependsOn
    <3>3. waits'[current] = on /\ \A n \in Node \ {current} : waits'[n] = waits[n]
      BY <2>1, <3>1 DEF WaitsInv
    <3>4. waits' \in [Node -> SUBSET (Node \X {"main", "other"})]
      BY <2>1, <3>1, <3>2 DEF WaitsInv
    <3> HIDE DEF on
    <3>5. ASSUME NEW n \in resources', template.kind[n] # "nested"
          PROVE  waits'[n] = UNION {OptionsDependsOn(d) : d \in template.dependsOn[n]}
      <4>1. CASE n = current
        BY <3>3, <4>1 DEF on
      <4>2. CASE n # current
        BY <3>1, <3>3, <3>5, <4>2 DEF WaitsInv
      <4> QED BY <4>1, <4>2
    <3> QED BY <2>1, <3>1, <3>4, <3>5 DEF WaitsInv, OptionsDependsOn
  <2> QED BY <1>3, <2>2, <2>3 DEF RegisterResource
<1>4. CASE RefuseCidrBlock \/ EdgesOfNode \/ EdgesOfExpression \/ SortStep \/ ConvertStack \/ NoScope
             \/ BeginResource \/ Resolve \/ Terminating \/ UNCHANGED vars
  BY <1>1, <1>4
     DEF RefuseCidrBlock, EdgesOfNode, EdgesOfExpression, SortStep, ConvertStack, NoScope,
         BeginResource, Resolve, Terminating, vars, convertVars
<1> QED BY <1>2, <1>3, <1>4 DEF Next

(***************************************************************************)
(* DependsOn is honoured across mappings to several Pulumi resources whose *)
(* others need the main one (the attachments of an IAM Policy), for any    *)
(* number of resources.                                                    *)
(***************************************************************************)
THEOREM DependsOnIsHonoured ==
  ASSUME Synthesized, \A t \in Templates : \A n \in Node : t.mapped[n] # "parallel"
  PROVE  Spec => []DependsOnHonoured
<1>1. Init => WaitsInv
  BY DEF Init, WaitsInv
<1>2. Inv /\ WaitsInv /\ [Next]_vars => WaitsInv'
  BY WaitsNext
<1>3. Inv /\ WaitsInv => DependsOnHonoured
  <2> SUFFICES ASSUME Inv, WaitsInv, NEW n \in resources, template.kind[n] # "nested",
                      NEW d \in template.dependsOn[n]
               PROVE  PulumiResources(d) \subseteq WaitedFor(n)
    BY DEF DependsOnHonoured
  <2>1. /\ template \in TemplateType /\ n \in Node /\ d \in Node
        /\ template.mapped[d] \in {"one", "chained"}
    BY TemplateFacts DEF Inv, Types, WaitsInv, TemplateType
  <2>2. OptionsDependsOn(d) \subseteq waits[n]
    BY DEF WaitsInv
  <2>3. CASE template.mapped[d] = "one"
    BY <2>2, <2>3 DEF OptionsDependsOn, PulumiResources, WaitedFor
  <2>4. CASE template.mapped[d] = "chained"
    <3>1. <<d, "other">> \in waits[n]
      BY <2>2, <2>4 DEF OptionsDependsOn
    <3>2. <<d, "main">> \in WaitedFor(n) /\ <<d, "other">> \in WaitedFor(n)
      BY <2>1, <2>4, <3>1 DEF WaitedFor
    <3>3. PulumiResources(d) = {<<d, "main">>, <<d, "other">>}
      BY <2>4 DEF PulumiResources
    <3> QED BY <3>2, <3>3
  <2> QED BY <2>1, <2>3, <2>4
<1> QED BY <1>1, <1>2, <1>3, ConversionInvariant, PTL DEF Spec

-----------------------------------------------------------------------------
(***************************************************************************)
(* The types of what the invariant above leaves open.                      *)
(***************************************************************************)
OtherTypes ==
  /\ pending \subseteq Expr \X (0..N)
  /\ resolving \in BOOLEAN
  /\ stackResource \in 0..N
  /\ error \in {"none", "VPCCidrBlock", "no scope", "missing reference"}

(***************************************************************************)
(* They hold before _build.                                                *)
(***************************************************************************)
LEMMA OtherTypesInit == Init => OtherTypes
<1>1. 0 \in 0..N
  BY NAssumption
<1> QED BY <1>1, Zenon DEF Init, OtherTypes

(***************************************************************************)
(* Every step keeps the types of the variables that Inv does not speak of. *)
(***************************************************************************)
LEMMA OtherTypesNext == Synthesized /\ Inv /\ OtherTypes /\ [Next]_vars => OtherTypes'
<1> SUFFICES ASSUME Synthesized, Inv, OtherTypes, [Next]_vars PROVE OtherTypes'
  OBVIOUS
<1>1. /\ template \in TemplateType
      /\ \A n \in Node : template.uses[n] \subseteq Expr /\ template.outputs[n] \subseteq Expr
      /\ \A n \in Node : template.stackPath[n] \in 0..N
  BY TemplateFacts DEF Inv, Types, TemplateType
<1>2. Converting => current \in Node
  BY ConvertFacts
<1>3. CASE BeginResource
  <2>1. template.uses[current] \X {template.stackPath[current]} \subseteq Expr \X (0..N)
    BY <1>1, <1>2, <1>3 DEF BeginResource
  <2> QED BY <1>3, <2>1 DEF BeginResource, OtherTypes
<1>4. CASE Resolve
  <2>1. PICK p \in pending :
          IF Resolves(p[1])
          THEN pending' = (pending \ {p}) \cup EvaluatedInto(p[1], p[2]) /\ UNCHANGED error
          ELSE error' = "missing reference" /\ UNCHANGED pending
    BY <1>4 DEF Resolve
  <2>2. p[1] \in Expr /\ p[2] \in 0..N
    BY DEF OtherTypes
  <2>3. EvaluatedInto(p[1], p[2]) \subseteq Expr \X (0..N)
    <3>1. CASE p[1].fn = "Param"
      <4>1. p[2] # 0 => p[2] \in Node
        BY <2>2, NAssumption DEF Node
      <4> QED BY <1>1, <3>1, <4>1 DEF EvaluatedInto
    <3>2. CASE p[1].fn # "Param"
      <4>1. p[1].to \in Node /\ p[1].to \in 0..N
        BY <2>2, <3>2, NAssumption DEF Expr, Node
      <4> QED BY <1>1, <3>2, <4>1 DEF EvaluatedInto
    <3> QED BY <3>1, <3>2
  <2>4. pending' \subseteq Expr \X (0..N)
    BY <2>1, <2>3 DEF OtherTypes
  <2>5. error' \in {"none", "VPCCidrBlock", "no scope", "missing reference"}
    BY <2>1 DEF OtherTypes
  <2> QED BY <1>4, <2>4, <2>5 DEF Resolve, OtherTypes
<1>5. CASE ConvertStack
  <2>1. current \in 0..N
    BY <1>2, <1>5, NAssumption DEF ConvertStack, Node
  <2> QED BY <1>5, <2>1 DEF ConvertStack, OtherTypes
<1>6. CASE RefuseCidrBlock \/ EdgesOfNode \/ EdgesOfExpression \/ SortStep \/ NoScope \/ ConvertComponent
             \/ RegisterResource \/ Terminating \/ UNCHANGED vars
  BY <1>6
     DEF RefuseCidrBlock, EdgesOfNode, EdgesOfExpression, SortStep, NoScope, ConvertComponent,
         RegisterResource, Terminating, vars, convertVars, OtherTypes
<1> QED BY <1>3, <1>4, <1>5, <1>6 DEF Next

(***************************************************************************)
(* Type correctness, the sort in it included.                              *)
(***************************************************************************)
THEOREM TypeCorrect ==
  ASSUME Synthesized
  PROVE  Spec => []TypeOK
<1>1. Init => WaitsInv /\ OtherTypes
  <2>1. Init => WaitsInv
    BY DEF Init, WaitsInv
  <2> QED BY <2>1, OtherTypesInit
<1>2. Inv /\ WaitsInv /\ OtherTypes /\ [Next]_vars => WaitsInv' /\ OtherTypes'
  BY WaitsNext, OtherTypesNext
<1>3. Inv /\ WaitsInv /\ OtherTypes => TypeOK
  <2> SUFFICES ASSUME Inv, WaitsInv, OtherTypes PROVE TypeOK
    OBVIOUS
  <2>1. template \in TemplateType /\ Mentioned(template) \subseteq Expr /\ Resources(template) \subseteq Node
    BY TemplateFacts DEF Inv, Types
  <2>2. Sort!TypeOK
    BY DEF Inv, Types, Proved!SortInv, Proved!TypeOK, Sort!TypeOK, Node, Sort!Node, Proved!Node
  <2>3. sorted \in Seq(Node) /\ pos \in 0..Len(sorted)
    BY SortFacts DEF Inv, Types, Phases
  <2>4. constructs \subseteq Node
    <3>1. \A i \in 1..pos : i \in 1..Len(sorted)
      BY <2>3
    <3> QED BY <2>3, <3>1 DEF Inv, Registered
  <2> QED BY <2>1, <2>2, <2>3, <2>4 DEF Inv, Types, Registered, WaitsInv, OtherTypes, TypeOK
<1> QED BY <1>1, <1>2, <1>3, ConversionInvariant, PTL DEF Spec

-----------------------------------------------------------------------------
(***************************************************************************)
(* A stack without circles has an acyclic graph, however many nested       *)
(* stacks its expressions lead into.  Every edge of the graph comes from   *)
(* a dependency within one stack: from a node to a construct that is, or   *)
(* is somewhere inside, what the node needs in its own stack.  So a cycle  *)
(* would be a circle in one of the stacks.                                 *)
(***************************************************************************)

(***************************************************************************)
(* The construct x and the nested stacks it is in.                         *)
(***************************************************************************)
UpClosed(t, S) == \A z \in S : t.stackPath[z] \in S \cup {0}

Chain(t, x) == {y \in Node : \A S \in SUBSET Node : x \in S /\ UpClosed(t, S) => y \in S}

(***************************************************************************)
(* A construct is in a nested stack that has been inserted before it.      *)
(***************************************************************************)
StacksBefore(t) == \A n \in Node : t.stackPath[n] \in 0..N /\ t.stackPath[n] < n

(***************************************************************************)
(* It is so in every template.                                             *)
(***************************************************************************)
LEMMA TemplateStacksBefore ==
  ASSUME Synthesized, NEW t \in Templates
  PROVE  StacksBefore(t)
BY TemplateFacts DEF TemplateType, WellFormed, StacksBefore

(***************************************************************************)
(* Chain is the least set that holds x and is closed.                      *)
(***************************************************************************)
LEMMA ChainLeast ==
  ASSUME NEW t, NEW x \in Node, NEW S \in SUBSET Node, x \in S, UpClosed(t, S)
  PROVE  Chain(t, x) \subseteq S
BY DEF Chain

(***************************************************************************)
(* It holds x and, with a construct, the stack that the construct is in.   *)
(***************************************************************************)
LEMMA ChainClosed ==
  ASSUME NEW t, StacksBefore(t), NEW x \in Node
  PROVE  /\ x \in Chain(t, x)
         /\ Chain(t, x) \subseteq Node
         /\ UpClosed(t, Chain(t, x))
<1>1. x \in Chain(t, x) /\ Chain(t, x) \subseteq Node
  BY DEF Chain
<1>2. ASSUME NEW z \in Chain(t, x), t.stackPath[z] # 0
      PROVE  t.stackPath[z] \in Chain(t, x)
  <2>1. z \in Node /\ t.stackPath[z] \in Node
    BY <1>1, <1>2, NAssumption DEF StacksBefore, Node
  <2>2. ASSUME NEW S \in SUBSET Node, x \in S, UpClosed(t, S)
        PROVE  t.stackPath[z] \in S
    <3>1. z \in S
      BY <2>2, ChainLeast
    <3> QED BY <1>2, <2>2, <3>1 DEF UpClosed
  <2> QED BY <2>1, <2>2 DEF Chain
<1> QED BY <1>1, <1>2 DEF UpClosed

(***************************************************************************)
(* What is above something above x is above x.                             *)
(***************************************************************************)
LEMMA ChainTransitive ==
  ASSUME NEW t, StacksBefore(t), NEW x \in Node, NEW y \in Chain(t, x)
  PROVE  Chain(t, y) \subseteq Chain(t, x)
<1>1. Chain(t, x) \in SUBSET Node /\ UpClosed(t, Chain(t, x)) /\ y \in Node
  BY ChainClosed
<1> QED BY <1>1, ChainLeast

(***************************************************************************)
(* Nothing above x has been inserted after it.                             *)
(***************************************************************************)
LEMMA ChainBefore ==
  ASSUME NEW t, StacksBefore(t), NEW x \in Node, NEW y \in Chain(t, x)
  PROVE  y \in Node /\ y <= x
<1> DEFINE S == {z \in Node : z <= x}
<1>1. x \in S /\ S \in SUBSET Node
  BY DEF Node
<1>2. UpClosed(t, S)
  <2> SUFFICES ASSUME NEW z \in S, t.stackPath[z] # 0 PROVE t.stackPath[z] \in S
    BY DEF UpClosed
  <2> QED BY NAssumption DEF StacksBefore, Node
<1> HIDE DEF S
<1>3. y \in S
  BY <1>1, <1>2, ChainLeast
<1> QED BY <1>3 DEF S

(***************************************************************************)
(* What is above x, and is not x, is above the stack that x is in.         *)
(***************************************************************************)
LEMMA ChainAbove ==
  ASSUME NEW t, StacksBefore(t), NEW x \in Node, NEW y \in Chain(t, x), y # x
  PROVE  t.stackPath[x] \in Node /\ y \in Chain(t, t.stackPath[x])
<1>1. CASE t.stackPath[x] = 0
  <2>1. UpClosed(t, {x})
    BY <1>1 DEF UpClosed
  <2>2. y \in {x}
    BY <2>1, ChainLeast
  <2> QED BY <2>2
<1>2. CASE t.stackPath[x] # 0
  <2> DEFINE s == t.stackPath[x]
             S == {x} \cup Chain(t, s)
  <2>1. s \in Node
    BY <1>2, NAssumption DEF StacksBefore, Node
  <2>2. s \in Chain(t, s) /\ Chain(t, s) \subseteq Node /\ UpClosed(t, Chain(t, s))
    BY <2>1, ChainClosed
  <2>3. x \in S /\ S \in SUBSET Node /\ UpClosed(t, S)
    BY <2>2 DEF UpClosed
  <2> HIDE DEF S
  <2>4. y \in S
    BY <2>3, ChainLeast
  <2> QED BY <2>1, <2>4 DEF S
<1> QED BY <1>1, <1>2

(***************************************************************************)
(* Of two constructs above x one is above the other.                       *)
(***************************************************************************)
LEMMA ChainLinear ==
  ASSUME NEW t, StacksBefore(t), NEW x \in Node, NEW y \in Chain(t, x), NEW z \in Chain(t, x)
  PROVE  z \in Chain(t, y) \/ y \in Chain(t, z)
<1> DEFINE S == {v \in Chain(t, x) : \A w \in Chain(t, x) : w \in Chain(t, v) \/ v \in Chain(t, w)}
<1>1. x \in Chain(t, x) /\ Chain(t, x) \subseteq Node /\ UpClosed(t, Chain(t, x))
  BY ChainClosed
<1>2. x \in S /\ S \in SUBSET Node
  BY <1>1
<1>3. UpClosed(t, S)
  <2> SUFFICES ASSUME NEW v \in S, t.stackPath[v] # 0, NEW w \in Chain(t, x)
               PROVE  /\ t.stackPath[v] \in Chain(t, x)
                      /\ w \in Chain(t, t.stackPath[v]) \/ t.stackPath[v] \in Chain(t, w)
    BY <1>1 DEF UpClosed
  <2>1. v \in Node /\ w \in Node /\ t.stackPath[v] \in Chain(t, x)
    BY <1>1 DEF UpClosed
  <2>2. CASE v \in Chain(t, w)
    <3>1. UpClosed(t, Chain(t, w))
      BY <2>1, ChainClosed
    <3> QED BY <2>1, <2>2, <3>1 DEF UpClosed
  <2>3. CASE w \in Chain(t, v) /\ w # v
    BY <2>1, <2>3, ChainAbove
  <2>4. CASE w = v
    <3>1. v \in Chain(t, v)
      BY <2>1, ChainClosed
    <3> QED BY <2>2, <2>4, <3>1
  <2> QED BY <2>2, <2>3, <2>4
<1> HIDE DEF S
<1>4. y \in S
  BY <1>2, <1>3, ChainLeast
<1> QED BY <1>4 DEF S

(***************************************************************************)
(* A construct is in each stack at most once.                              *)
(***************************************************************************)
LEMMA ChainOncePerStack ==
  ASSUME NEW t, StacksBefore(t), NEW x \in Node, NEW y \in Chain(t, x), NEW z \in Chain(t, x),
         t.stackPath[y] = t.stackPath[z]
  PROVE  y = z
<1>1. y \in Node /\ z \in Node
  BY ChainClosed
<1>2. ASSUME NEW a \in Node, NEW b \in Chain(t, a), a # b, t.stackPath[a] = t.stackPath[b]
      PROVE  FALSE
  <2>1. t.stackPath[a] \in Node /\ b \in Chain(t, t.stackPath[a])
    BY <1>2, ChainAbove
  <2>2. b \in Node /\ b <= t.stackPath[a]
    BY <2>1, ChainBefore
  <2>3. t.stackPath[b] < b
    BY <2>2 DEF StacksBefore
  <2> QED BY <1>2, <2>1, <2>2, <2>3 DEF Node
<1>3. z \in Chain(t, y) \/ y \in Chain(t, z)
  BY ChainLinear
<1> QED BY <1>1, <1>2, <1>3

-----------------------------------------------------------------------------
(***************************************************************************)
(* Where edges come from: d is, or is inside, a dependency of n in the     *)
(* stack that n is in.                                                     *)
(***************************************************************************)
Needs(t, n, d) == \E m \in StackDependencies(t, n) : t.stackPath[m] = t.stackPath[n] /\ m \in Chain(t, d)

Justified ==
  /\ \A n \in Node : \A d \in graph.refs[n] : Needs(template, n, d)
  /\ \A e \in work : e.fn # "Param" => Needs(template, cur, Target(template, e))
  /\ work # {} => cur # 0

(***************************************************************************)
(* The dependencies of a node in its stack are nodes.                      *)
(***************************************************************************)
LEMMA StackDependenciesType ==
  ASSUME Synthesized, NEW t \in Templates, NEW n \in Node
  PROVE  StackDependencies(t, n) \subseteq Node
<1>1. t \in TemplateType /\ WellFormed(t)
  BY TemplateFacts
<1>2. t.dependsOn[n] \subseteq Node /\ t.parent[n] \in 0..N
  BY <1>1 DEF TemplateType
<1>3. ASSUME NEW e \in t.uses[n], e.fn # "Param" PROVE Target(t, e) \in Node
  BY <1>3, TemplateFacts, TargetIsResource
<1> QED BY <1>2, <1>3, NAssumption DEF StackDependencies, Node

(***************************************************************************)
(* An expression names something in the stack that its template is of.     *)
(***************************************************************************)
LEMMA TargetStack ==
  ASSUME Synthesized, NEW t \in Templates, NEW E \in SUBSET Expr, NEW stack,
         ReferencesIn(t, E, stack), NEW e \in E, e.fn # "Param"
  PROVE  t.stackPath[Target(t, e)] = stack
<1>1. t.stackPath[e.to] = stack /\ e.to \in Node
  BY DEF ReferencesIn, Expr
<1>2. CASE e.fn = "Ipv6CidrBlocks" /\ vpcCidrBlockNodes(t, e.to) # {}
  <2> DEFINE c == Target(t, e)
             r == [fn |-> "Ref", to |-> e.to]
  <2>1. c \in vpcCidrBlockNodes(t, e.to)
    BY <1>2 DEF Target
  <2>2. c \in Node /\ r \in t.uses[c]
    BY <2>1, TemplateFacts DEF vpcCidrBlockNodes, WellFormed
  <2>3. ReferencesIn(t, t.uses[c], t.stackPath[c])
    BY <2>2, TemplateFacts DEF WellFormed
  <2>4. r.fn = "Ref" /\ r.to = e.to
    OBVIOUS
  <2>5. t.stackPath[r.to] = t.stackPath[c]
    BY <2>2, <2>3, <2>4 DEF ReferencesIn
  <2> QED BY <1>1, <2>4, <2>5
<1> QED BY <1>1, <1>2 DEF Target

(***************************************************************************)
(* What a node needs is what its stack says it needs.                      *)
(***************************************************************************)
LEMMA OwnDependencies ==
  ASSUME Synthesized, NEW t \in Templates, NEW n \in Node
  PROVE  /\ \A d \in t.dependsOn[n] : Needs(t, n, d)
         /\ \A e \in t.uses[n] : e.fn # "Param" => Needs(t, n, Target(t, e))
         /\ t.parent[n] \notin {0, t.stackPath[n]} => Needs(t, n, t.parent[n])
<1>1. t \in TemplateType /\ WellFormed(t) /\ t.uses[n] \subseteq Expr
  BY TemplateFacts DEF TemplateType
<1>2. StacksBefore(t)
  BY TemplateStacksBefore
<1>3. ASSUME NEW d \in StackDependencies(t, n), t.stackPath[d] = t.stackPath[n]
      PROVE  Needs(t, n, d)
  BY <1>2, <1>3, StackDependenciesType, ChainClosed DEF Needs
<1>4. \A d \in t.dependsOn[n] : Needs(t, n, d)
  BY <1>1, <1>3 DEF WellFormed, StackDependencies
<1>5. ASSUME NEW e \in t.uses[n], e.fn # "Param" PROVE Needs(t, n, Target(t, e))
  <2>1. ReferencesIn(t, t.uses[n], t.stackPath[n])
    BY <1>1 DEF WellFormed
  <2>2. t.stackPath[Target(t, e)] = t.stackPath[n]
    BY <1>1, <1>5, <2>1, TargetStack
  <2> QED BY <1>3, <1>5, <2>2 DEF StackDependencies
<1>6. t.parent[n] \notin {0, t.stackPath[n]} => Needs(t, n, t.parent[n])
  BY <1>1, <1>3 DEF WellFormed, stackPath, StackDependencies
<1> QED BY <1>4, <1>5, <1>6

(***************************************************************************)
(* What an expression leads to is inside what the expression names.        *)
(***************************************************************************)
LEMMA WalkedIsNeeded ==
  ASSUME Synthesized, NEW t \in Templates, NEW n \in Node, NEW e \in Mentioned(t), e.fn = "GetAtt",
         Needs(t, n, Target(t, e)), NEW f \in t.outputs[e.to], f.fn # "Param"
  PROVE  Needs(t, n, Target(t, f))
<1>1. t \in TemplateType /\ WellFormed(t) /\ e.to \in Node /\ Target(t, e) = e.to
  BY TemplateFacts DEF Target
<1>2. ReferencesIn(t, t.outputs[e.to], e.to) /\ t.outputs[e.to] \subseteq Expr
  BY <1>1 DEF WellFormed, TemplateType
<1>3. t.stackPath[Target(t, f)] = e.to
  BY <1>2, TargetStack
<1>4. f \in Mentioned(t)
  BY <1>1, TemplateFacts
<1>5. Target(t, f) \in Node /\ StacksBefore(t)
  BY <1>4, TargetIsResource, TemplateStacksBefore DEF Resources
<1>6. e.to \in Chain(t, Target(t, f))
  <2>1. Target(t, f) \in Chain(t, Target(t, f)) /\ UpClosed(t, Chain(t, Target(t, f)))
    BY <1>5, ChainClosed
  <2> QED BY <1>1, <1>3, <2>1 DEF UpClosed, Node
<1>7. Chain(t, e.to) \subseteq Chain(t, Target(t, f))
  BY <1>5, <1>6, ChainTransitive
<1> QED BY <1>1, <1>7 DEF Needs

(***************************************************************************)
(* GraphBuilder adds no edge but for what a node needs.                    *)
(***************************************************************************)
LEMMA JustifiedNext == Synthesized /\ Inv /\ Justified /\ [Next]_vars => Justified'
<1> SUFFICES ASSUME Synthesized, Inv, Justified, [Next]_vars PROVE Justified'
  OBVIOUS
<1>1. template \in Templates /\ graph \in GraphType
  BY DEF Inv, Types
<1>2. CASE EdgesOfNode
  <2> DEFINE n == cur + 1
  <2>1. n \in Node /\ n # 0 /\ template' = template /\ cur' = n /\ work' = template.uses[n]
    BY <1>2, NAssumption DEF EdgesOfNode, Inv, Types, Node
  <2>2. graph'.refs = [graph.refs EXCEPT ![n] = template.dependsOn[n]]
    BY <1>1, <1>2 DEF EdgesOfNode, GraphType
  <2>3. \A m \in Node : graph'.refs[m] = IF m = n THEN template.dependsOn[n] ELSE graph.refs[m]
    BY <1>1, <2>1, <2>2 DEF GraphType
  <2> HIDE DEF n
  <2> QED BY <1>1, <2>1, <2>3, OwnDependencies DEF Justified, Needs
<1>3. CASE EdgesOfExpression
  <2>1. PICK e \in work : /\ work' = (work \ {e}) \cup WalkedInto(e)
                          /\ graph' = IF e.fn = "Param" THEN graph
                                      ELSE [graph EXCEPT !.refs[cur] = @ \cup {Target(template, e)}]
    BY <1>3 DEF EdgesOfExpression
  <2>2. template' = template /\ cur' = cur /\ e \in Mentioned(template)
    BY <1>3 DEF EdgesOfExpression, Inv, Types
  <2>3. ASSUME NEW m \in Node, NEW d \in graph'.refs[m] PROVE Needs(template, m, d)
    <3>1. d \in graph.refs[m] \/ (e.fn # "Param" /\ m = cur /\ d = Target(template, e))
      BY <1>1, <2>1, <2>3 DEF GraphType
    <3> QED BY <3>1 DEF Justified
  <2>4. ASSUME NEW f \in work', f.fn # "Param" PROVE Needs(template, cur, Target(template, f))
    <3>1. CASE f \in work
      BY <2>4, <3>1 DEF Justified
    <3>2. CASE f \notin work
      <4>1. e.fn = "GetAtt" /\ f \in template.outputs[e.to]
        BY <2>1, <3>2 DEF WalkedInto
      <4>2. cur \in Node
        BY <2>1, NAssumption DEF Justified, Inv, Types, Node
      <4>3. Needs(template, cur, Target(template, e))
        BY <4>1 DEF Justified
      <4> QED BY <1>1, <2>2, <2>4, <4>1, <4>2, <4>3, WalkedIsNeeded
    <3> QED BY <3>1, <3>2
  <2>5. cur # 0
    BY <2>1 DEF Justified
  <2> QED BY <2>2, <2>3, <2>4, <2>5 DEF Justified, Needs
<1>4. CASE UNCHANGED <<template, cur, work, graph>>
  BY <1>4 DEF Justified, Needs
<1>5. CASE RefuseCidrBlock \/ SortStep \/ ConvertStack \/ NoScope \/ ConvertComponent \/ BeginResource
             \/ Resolve \/ RegisterResource \/ Terminating \/ UNCHANGED vars
  BY <1>4, <1>5
     DEF RefuseCidrBlock, SortStep, Sort!SortRoot, Sort!SortTarget, Sort!Push, ConvertStack, NoScope,
         ConvertComponent, BeginResource, Resolve, RegisterResource, Terminating, vars, buildVars, sortVars
<1> QED BY <1>2, <1>3, <1>5 DEF Next

-----------------------------------------------------------------------------
(***************************************************************************)
(* A cycle of the graph would be a circle in a stack: for the node n, the  *)
(* nodes above n and those inside what a node above n needs, by way of any *)
(* number of others, in its own stack, are all that n reaches; and n is    *)
(* not one of them.                                                        *)
(***************************************************************************)
LEMMA NoCirclesNoCycles ==
  ASSUME Synthesized, Types, Justified, WithoutCircles(template)
  PROVE  Acyclic(graph)
<1> DEFINE t == template
           s(x) == t.stackPath[x]
<1>1. t \in Templates /\ graph \in GraphType /\ graph.parent = t.parent /\ StacksBefore(t)
  BY TemplateStacksBefore DEF Types
<1>2. WellFormed(t) /\ t \in TemplateType
  BY <1>1, TemplateFacts
<1> SUFFICES ASSUME NEW n \in Node, NEW first \in Dependencies(graph, n), Reaches(graph, first, n)
             PROVE  FALSE
  BY DEF Acyclic, OnCycle
<1> DEFINE IsNeeded(a, C) == /\ StackDependencies(t, a) \subseteq C
                             /\ \A c \in C : StackDependencies(t, c) \subseteq C
                             /\ a \notin C
           K == [a \in Node |-> CHOOSE C \in SUBSET Node : IsNeeded(a, C)]
           Inside(y) == \E a \in Chain(t, n) : \E c \in K[a] : s(c) = s(a) /\ c \in Chain(t, y)
           C == (Chain(t, n) \ {n}) \cup {y \in Node : Inside(y)}
<1>3. \A a \in Node : K[a] \in SUBSET Node /\ IsNeeded(a, K[a])
  <2>1. \A a \in Node : \E D \in SUBSET Node : IsNeeded(a, D)
    BY DEF WithoutCircles
  <2> QED BY <2>1
<1> HIDE DEF K
<1>4. n \in Chain(t, n) /\ Chain(t, n) \subseteq Node /\ UpClosed(t, Chain(t, n))
  BY <1>1, ChainClosed
<1>5. C \subseteq Node
  BY <1>4
<1>6. n \notin C
  <2> SUFFICES ASSUME NEW a \in Chain(t, n), NEW c \in K[a], s(c) = s(a), c \in Chain(t, n)
               PROVE  FALSE
    OBVIOUS
  <2>1. c = a
    BY <1>1, ChainOncePerStack
  <2> QED BY <1>3, <1>4, <2>1
<1>7. ASSUME NEW y \in C \cup {n}, NEW d \in Dependencies(graph, y)
      PROVE  d \in C
  <2>1. y \in Node /\ d \in Node
    BY <1>5 DEF Dependencies
  <2>2. d = s(y) \/ Needs(t, y, d)
    <3>1. CASE d \in graph.refs[y]
      BY <2>1, <3>1 DEF Justified
    <3>2. CASE d = t.parent[y]
      BY <1>1, <2>1, <3>2, OwnDependencies DEF Node
    <3> QED BY <1>1, <1>7, <3>1, <3>2 DEF Dependencies
  <2>3. CASE y \in Chain(t, n) /\ d = s(y)
    <3>1. d \in Chain(t, n)
      BY <1>4, <2>1, <2>3 DEF UpClosed, Node
    <3>2. d < y /\ y <= n
      BY <1>1, <2>1, <2>3, ChainBefore DEF StacksBefore
    <3> QED BY <2>1, <3>1, <3>2 DEF Node
  <2>4. CASE y \in Chain(t, n) /\ Needs(t, y, d)
    BY <1>3, <2>1, <2>4 DEF Needs
  <2>5. CASE y \notin Chain(t, n)
    <3>1. PICK a \in Chain(t, n) : \E c \in K[a] : s(c) = s(a) /\ c \in Chain(t, y)
      BY <1>4, <2>5
    <3>2. PICK c \in K[a] : s(c) = s(a) /\ c \in Chain(t, y)
      BY <3>1
    <3>3. a \in Node /\ c \in Node
      BY <1>3, <1>4, <3>2
    <3>4. c # y => s(y) \in Node /\ c \in Chain(t, s(y))
      BY <1>1, <2>1, <3>2, ChainAbove
    <3>5. CASE d = s(y) /\ c = y
      <4>1. d \in Chain(t, n)
        BY <1>4, <2>1, <3>2, <3>5 DEF UpClosed, Node
      <4>2. d < a /\ a <= n
        BY <1>1, <3>2, <3>3, <3>5, ChainBefore DEF StacksBefore
      <4> QED BY <2>1, <3>3, <4>1, <4>2 DEF Node
    <3>6. CASE d = s(y) /\ c # y
      BY <2>1, <3>2, <3>4, <3>6
    <3>7. CASE Needs(t, y, d)
      <4>1. PICK m \in StackDependencies(t, y) : s(m) = s(y) /\ m \in Chain(t, d)
        BY <3>7 DEF Needs
      <4>2. CASE c = y
        BY <1>3, <2>1, <3>2, <3>3, <4>1, <4>2
      <4>3. CASE c # y
        <5>1. m \in Node /\ Chain(t, m) \subseteq Chain(t, d)
          BY <1>1, <2>1, <4>1, ChainBefore, ChainTransitive
        <5>2. s(m) \in Chain(t, m)
          BY <1>1, <3>4, <4>1, <4>3, <5>1, ChainClosed DEF UpClosed, Node
        <5>3. Chain(t, s(m)) \subseteq Chain(t, m)
          BY <1>1, <5>1, <5>2, ChainTransitive
        <5> QED BY <2>1, <3>2, <3>4, <4>1, <4>3, <5>1, <5>3
      <4> QED BY <4>2, <4>3
    <3> QED BY <2>2, <3>5, <3>6, <3>7
  <2> QED BY <2>2, <2>3, <2>4, <2>5
<1>8. first \in C /\ Closed(graph, C)
  BY <1>7 DEF Closed
<1> QED BY <1>5, <1>6, <1>8 DEF Reaches

(***************************************************************************)
(* Justified holds of the empty graph.                                     *)
(***************************************************************************)
LEMMA JustifiedInit == Init => Justified
BY DEF Init, Justified

(***************************************************************************)
(* A stack that CloudFormation would deploy is converted without an error, *)
(* unless it reads an output of a nested stack in an Fn::Sub, has a        *)
(* VPCCidrBlock that _build refuses, or has another construct with the id  *)
(* of the stack: addEdgesForCfnResource orders all that processIntrinsics  *)
(* looks up.                                                               *)
(***************************************************************************)
THEOREM NothingIsMissing ==
  ASSUME Synthesized
  PROVE  Spec => []NothingMissing
<1>1. Inv /\ Justified /\ OtherTypes => NothingMissing
  BY NoCirclesNoCycles DEF Inv, Types, NothingMissed, RefusedOnly, OtherTypes, NothingMissing
<1>2. Inv /\ Justified /\ [Next]_vars => Justified'
  BY JustifiedNext
<1>3. Inv /\ OtherTypes /\ [Next]_vars => OtherTypes'
  BY OtherTypesNext
<1> QED BY <1>1, <1>2, <1>3, JustifiedInit, OtherTypesInit, ConversionInvariant, PTL DEF Spec

(***************************************************************************)
(* What a construct needs in its stack are dependencies in the graph.      *)
(***************************************************************************)
LEMMA NeedsAreEdges ==
  ASSUME Synthesized, Inv, Converting
  PROVE  StackDependencies(template, current) \subseteq Dependencies(graph, current)
<1>1. template \in Templates /\ current \in Node /\ EdgesOf(template, graph, current, {})
  BY ConvertFacts DEF Inv, Types
<1>2. StackDependencies(template, current) \subseteq Node
  BY <1>1, StackDependenciesType
<1>3. graph.parent = template.parent
  BY DEF Inv, Types
<1>4. PICK E \in SUBSET Mentioned(template) :
        template.uses[current] \subseteq E /\ WalkedBut(template, E, {}, graph.refs[current])
  BY <1>1 DEF EdgesOf
<1>5. \A e \in template.uses[current] : e.fn # "Param" => Target(template, e) \in graph.refs[current]
  BY <1>4 DEF WalkedBut
<1> QED BY <1>1, <1>2, <1>3, <1>5 DEF EdgesOf, StackDependencies, Dependencies

(***************************************************************************)
(* In such a stack, a construct is registered only after its scope and     *)
(* what its stack says it needs.                                           *)
(***************************************************************************)
THEOREM RegisteredInOrder ==
  ASSUME Synthesized
  PROVE  Spec => RegisteredAfterDependencies
<1> DEFINE InOrder == \A n \in constructs' \ constructs :
                        StackDependencies(template, n) \subseteq constructs \/ ~ WithoutCircles(template)
<1>1. ASSUME Inv, Justified, [Next]_vars PROVE InOrder
  <2>1. CASE constructs' \subseteq constructs
    BY <2>1
  <2>2. CASE Converting /\ constructs' \subseteq constructs \cup {current}
    <3> SUFFICES ASSUME WithoutCircles(template)
                 PROVE  StackDependencies(template, current) \subseteq constructs
      BY <2>2
    <3>1. Acyclic(graph)
      BY <1>1, NoCirclesNoCycles DEF Inv
    <3> QED BY <1>1, <2>2, <3>1, ConvertFacts, NeedsAreEdges
  <2>3. CASE ConvertStack \/ ConvertComponent \/ RegisterResource
    BY <2>1, <2>2, <2>3 DEF ConvertStack, ConvertComponent, RegisterResource
  <2>4. CASE RefuseCidrBlock \/ EdgesOfNode \/ EdgesOfExpression \/ SortStep \/ NoScope \/ BeginResource
               \/ Resolve \/ Terminating \/ UNCHANGED vars
    BY <2>1, <2>4
       DEF RefuseCidrBlock, EdgesOfNode, EdgesOfExpression, SortStep, NoScope, BeginResource, Resolve,
           Terminating, vars, convertVars
  <2> QED BY <1>1, <2>3, <2>4 DEF Next
<1>2. Inv /\ Justified /\ [Next]_vars => Justified'
  BY JustifiedNext
<1>3. Inv /\ Justified /\ [Next]_vars => [InOrder]_vars
  BY <1>1
<1> QED BY <1>2, <1>3, JustifiedInit, ConversionInvariant, PTL DEF Spec, RegisteredAfterDependencies
=============================================================================
