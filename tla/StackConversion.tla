--------------------------- MODULE StackConversion ---------------------------
(***************************************************************************)
(* One StackConverter (src/converters/app-converter.ts) from its           *)
(* constructor to the end of convert: GraphBuilder adds the dependency     *)
(* edges it finds in the templates and sorts the graph (GraphSort); then   *)
(* convert walks the sorted nodes and registers a Pulumi resource for      *)
(* each, resolving every expression of a template against what was         *)
(* registered before.  Whether a reference resolves is decided by code     *)
(* (processIntrinsics) that does not know what the code that ordered the   *)
(* nodes (addEdgesForCfnResource) looked at.                               *)
(***************************************************************************)
EXTENDS StackTemplate, FiniteSets

CONSTANT Templates   \* the templates a stack may have

ASSUME TemplatesAssumption == Templates \subseteq TemplateType

VARIABLES
  template,    \* the StackManifest; constant
  cur,         \* entries of constructNodes the edge pass has started
  work,        \* expressions of entry cur it has not walked yet
  graph, root, frames, todo, visited, sorted,   \* the graph and its sort
  pos,         \* nodes of the sorted graph that convert has finished
  pending,     \* <<expression, stackPath>> pairs of the next node to resolve
  resolving,   \* the next node is a resource whose Properties are being resolved
  constructs,  \* the nodes with an entry in constructs
  resources,   \* the nodes with an entry in resources
  waits,       \* options.dependsOn of each resource
  stackResource,  \* the node _stackResource was created for, 0 for none
  error        \* what was thrown

buildVars == <<cur, work>>
sortVars == <<graph, root, frames, todo, visited, sorted>>
convertVars == <<pos, pending, resolving, constructs, resources, waits, stackResource>>
vars == <<template, buildVars, sortVars, convertVars, error>>

Sort == INSTANCE GraphSort WITH Graphs <- GraphType

Init ==
  /\ template \in Templates
  /\ cur = 0
  /\ work = {}
  /\ graph = [parent |-> template.parent, resource |-> Resources(template),
              refs |-> [n \in Node |-> {}]]
  /\ root = 0
  /\ frames = <<>>
  /\ todo = [n \in Node |-> {}]
  /\ visited = {}
  /\ sorted = <<>>
  /\ pos = 0
  /\ pending = {}
  /\ resolving = FALSE
  /\ constructs = {}
  /\ resources = {}
  /\ waits = [n \in Node |-> {}]
  /\ stackResource = 0
  /\ error = "none"

-----------------------------------------------------------------------------
(***************************************************************************)
(* GraphBuilder._build: the VPCCidrBlocks, once the tree is parsed.        *)
(***************************************************************************)
RefuseCidrBlock ==
  /\ error = "none"
  /\ cur = 0
  /\ RefusedBlocks(template) # {}
  /\ error' = "VPCCidrBlock"
  /\ UNCHANGED <<template, buildVars, sortVars, convertVars>>

(***************************************************************************)
(* The next entry of constructNodes.  Its parent edge is in graph already; *)
(* its Properties are still to be walked, its DependsOn adds edges at once.*)
(***************************************************************************)
EdgesOfProperties ==   \* a fault: no edges for DependsOn
  /\ error = "none"
  /\ RefusedBlocks(template) = {}
  /\ cur < N
  /\ work = {}
  /\ cur' = cur + 1
  /\ work' = template.uses[cur + 1]
  /\ UNCHANGED <<template, graph, root, frames, todo, visited, sorted, convertVars, error>>

EdgesOfNode ==
  /\ error = "none"
  /\ RefusedBlocks(template) = {}
  /\ cur < N
  /\ work = {}
  /\ cur' = cur + 1
  /\ work' = template.uses[cur + 1]
  /\ graph' = [graph EXCEPT !.refs[cur + 1] = template.dependsOn[cur + 1]]
  /\ UNCHANGED <<template, root, frames, todo, visited, sorted, convertVars, error>>

(***************************************************************************)
(* The expressions an expression leads to: the GetAtt of an output of a    *)
(* nested stack adds edges for the value of the output too.  A Fn::Sub     *)
(* does not.                                                               *)
(***************************************************************************)
WalkedIntoNothing(e) == {}   \* a fault: outputs of nested stacks are not walked

WalkedInto(e) == IF e.fn = "GetAtt" THEN template.outputs[e.to] ELSE {}

(***************************************************************************)
(* addEdgesForCfnResource and addEdgesForIntrinsic on one expression.  A   *)
(* parameter is not a node: addEdgeForRef returns.                         *)
(***************************************************************************)
EdgesOfExpression ==
  /\ error = "none"
  /\ work # {}
  /\ LET e == CHOOSE x \in work : TRUE
     IN  /\ work' = (work \ {e}) \cup WalkedInto(e)
         /\ graph' = IF e.fn = "Param" THEN graph
                     ELSE [graph EXCEPT !.refs[cur] = @ \cup {Target(template, e)}]
  /\ UNCHANGED <<template, cur, root, frames, todo, visited, sorted, convertVars, error>>

EdgesDone == cur = N /\ work = {}

SortStep ==
  /\ EdgesDone
  /\ Sort!SortRoot \/ Sort!SortTarget \/ Sort!Push
  /\ UNCHANGED <<template, buildVars, convertVars, error>>

-----------------------------------------------------------------------------
(***************************************************************************)
(* StackConverter.convert: one iteration of the loop over graph.nodes.     *)
(***************************************************************************)
Converting ==
  /\ error = "none"
  /\ EdgesDone /\ Sort!Done
  /\ pos < Len(sorted)

current == sorted[pos + 1]

(***************************************************************************)
(* "n.construct.id === this.stack.id": the construct of the Stack.         *)
(***************************************************************************)
ConvertStack ==
  /\ Converting
  /\ current \in template.stackId
  /\ stackResource' = current
  /\ constructs' = constructs \cup {current}
  /\ pos' = pos + 1
  /\ UNCHANGED <<template, buildVars, sortVars, pending, resolving, resources, waits, error>>

HasScope == template.parent[current] \in constructs

NoScope ==
  /\ Converting
  /\ current \notin template.stackId
  /\ ~ HasScope
  /\ error' = "no scope"
  /\ UNCHANGED <<template, buildVars, sortVars, convertVars>>

(***************************************************************************)
(* Faults: the nested stack is not registered, or not as a construct.      *)
(***************************************************************************)
ConvertUnregistered ==
  /\ Converting
  /\ current \notin template.stackId
  /\ HasScope
  /\ template.kind[current] \in {"nested", "wrapper"}
  /\ constructs' = constructs \cup {current}
  /\ pos' = pos + 1
  /\ UNCHANGED <<template, buildVars, sortVars, pending, resolving, resources, waits,
                 stackResource, error>>

ConvertWithoutConstruct ==
  /\ Converting
  /\ current \notin template.stackId
  /\ HasScope
  /\ template.kind[current] \in {"nested", "wrapper"}
  /\ resources' = resources \cup {current}
  /\ pos' = pos + 1
  /\ UNCHANGED <<template, buildVars, sortVars, pending, resolving, constructs, waits,
                 stackResource, error>>

(***************************************************************************)
(* A NestedStackConstruct stands for a nested stack; its Properties are    *)
(* not resolved here but whenever a parameter is.  A CdkConstruct stands   *)
(* for a wrapper.                                                          *)
(***************************************************************************)
ConvertComponent ==
  /\ Converting
  /\ current \notin template.stackId
  /\ HasScope
  /\ template.kind[current] \in {"nested", "wrapper"}
  /\ constructs' = constructs \cup {current}
  /\ resources' = IF template.kind[current] = "nested" THEN resources \cup {current} ELSE resources
  /\ pos' = pos + 1
  /\ UNCHANGED <<template, buildVars, sortVars, pending, resolving, waits, stackResource, error>>

BeginResource ==
  /\ Converting
  /\ current \notin template.stackId
  /\ HasScope
  /\ template.kind[current] \notin {"nested", "wrapper"}
  /\ ~ resolving
  /\ resolving' = TRUE
  /\ pending' = template.uses[current] \X {template.stackPath[current]}
  /\ UNCHANGED <<template, buildVars, sortVars, pos, constructs, resources, waits,
                 stackResource, error>>

(***************************************************************************)
(* What the evaluation of an expression evaluates in turn, and where: a    *)
(* parameter set by the parent stack is evaluated in the parent stack, the *)
(* output of a nested stack in the nested stack.                           *)
(***************************************************************************)
EvaluatedInside(e, stack) ==   \* a fault: a parameter is evaluated in its own stack
  IF e.fn = "Param"
  THEN IF stack = 0 THEN {} ELSE template.uses[stack] \X {stack}
  ELSE IF e.fn \in {"GetAtt", "Sub"} /\ template.kind[e.to] = "nested"
       THEN template.outputs[e.to] \X {e.to}
       ELSE {}

EvaluatedInto(e, stack) ==
  IF e.fn = "Param"
  THEN IF stack = 0 THEN {} ELSE template.uses[stack] \X {template.stackPath[stack]}
  ELSE IF e.fn \in {"GetAtt", "Sub"} /\ template.kind[e.to] = "nested"
       THEN template.outputs[e.to] \X {e.to}
       ELSE {}

Resolves(e) == e.fn = "Param" \/ Target(template, e) \in resources

(***************************************************************************)
(* processIntrinsics on one expression: lookup and findResourceMapping     *)
(* fail on a resource that is not registered.  (Where parameters and       *)
(* outputs of nested stacks go round, the program runs out of stack and    *)
(* the model out of progress; CloudFormation refuses such a template.)     *)
(***************************************************************************)
Resolve ==
  /\ Converting
  /\ pending # {}
  /\ LET p == CHOOSE x \in pending : TRUE
     IN  IF Resolves(p[1])
         THEN /\ pending' = (pending \ {p}) \cup EvaluatedInto(p[1], p[2])
              /\ UNCHANGED error
         ELSE /\ error' = "missing reference"
              /\ UNCHANGED pending
  /\ UNCHANGED <<template, buildVars, sortVars, pos, resolving, constructs, resources, waits,
                 stackResource>>

(***************************************************************************)
(* processOptions: the Pulumi resources that stand for a DependsOn.        *)
(***************************************************************************)
MainDependsOn(d) == {<<d, "main">>}   \* a fault: the others are not waited for

OptionsDependsOn(d) ==
  IF template.mapped[d] = "one" THEN {<<d, "main">>} ELSE {<<d, "other">>}

(***************************************************************************)
(* The rest of the iteration, once the Properties are resolved:            *)
(* processOptions, mapResource and registerResource.                       *)
(***************************************************************************)
RegisterResource ==
  /\ Converting
  /\ resolving
  /\ pending = {}
  /\ resolving' = FALSE
  /\ IF template.dependsOn[current] \subseteq resources
     THEN /\ waits' = [waits EXCEPT ![current] = UNION {OptionsDependsOn(d) : d \in template.dependsOn[current]}]
          /\ resources' = resources \cup {current}
          /\ constructs' = constructs \cup {current}
          /\ pos' = pos + 1
          /\ UNCHANGED error
     ELSE /\ error' = "missing reference"
          /\ UNCHANGED <<waits, resources, constructs, pos>>
  /\ UNCHANGED <<template, buildVars, sortVars, pending, stackResource>>

Converted == EdgesDone /\ Sort!Done /\ pos = Len(sorted)

Terminating == (Converted \/ error # "none") /\ UNCHANGED vars

Next ==
  \/ RefuseCidrBlock \/ EdgesOfNode \/ EdgesOfExpression
  \/ SortStep
  \/ ConvertStack \/ NoScope \/ ConvertComponent \/ BeginResource \/ Resolve \/ RegisterResource
  \/ Terminating

Spec == Init /\ [][Next]_vars

(***************************************************************************)
(* _build and convert are synchronous: they run until they return or throw.*)
(***************************************************************************)
FairSpec == Spec /\ WF_vars(Next)

-----------------------------------------------------------------------------
TypeOK ==
  /\ template \in TemplateType
  /\ cur \in 0..N
  /\ work \subseteq Expr
  /\ Sort!TypeOK
  /\ pos \in 0..Len(sorted)
  /\ pending \subseteq Expr \X (0..N)
  /\ resolving \in BOOLEAN
  /\ constructs \subseteq Node
  /\ resources \subseteq constructs
  /\ waits \in [Node -> SUBSET (Node \X {"main", "other"})]
  /\ stackResource \in 0..N
  /\ error \in {"none", "VPCCidrBlock", "no scope", "missing reference"}

(***************************************************************************)
(* A stack that CloudFormation would deploy is converted without an error: *)
(* the edges that addEdgesForCfnResource finds are enough for whatever     *)
(* processIntrinsics looks up, through outputs and parameters of nested    *)
(* stacks too, and for every scope.  Three kinds of template are not       *)
(* promised that: one that reads an output of a nested stack in an Fn::Sub *)
(* (it gets an edge to the nested stack, and none to what the output       *)
(* names); one with a VPCCidrBlock that _build refuses; and one where      *)
(* another construct has the id of the stack, and so is taken for it.      *)
(***************************************************************************)
NothingMissing ==
  error # "none" => \/ ~ WithoutCircles(template)
                    \/ ~ NoSubOfOutput(template)
                    \/ RefusedBlocks(template) # {}
                    \/ template.stackId # {1}

(***************************************************************************)
(* The same with no kind of template left out: such stacks are deployed by *)
(* CloudFormation, and "StackConverter converts all of the resources in a  *)
(* CDK stack".  The code does not keep it.                                 *)
(***************************************************************************)
EverythingConverted ==
  error # "none" \/ (Converted /\ resources # Resources(template)) => ~ WithoutCircles(template)

(***************************************************************************)
(* Whatever resolves, through however many nested stacks, was ordered: a   *)
(* construct is registered only after its scope and all that its stack     *)
(* says it needs, a nested stack and its DependsOn included, though        *)
(* convert reads neither the Properties nor the DependsOn of a nested      *)
(* stack.                                                                  *)
(***************************************************************************)
RegisteredAfterDependencies ==
  [][\A n \in constructs' \ constructs :
        StackDependencies(template, n) \subseteq constructs \/ ~ WithoutCircles(template)]_vars

(***************************************************************************)
(* When convert returns, every resource of the templates is registered,    *)
(* whatever the shape of the stack, but for those whose construct has the  *)
(* id of the stack: each of them is taken for the stack, and only they are *)
(* lost.                                                                   *)
(***************************************************************************)
AllResourcesConverted ==
  Converted => resources = Resources(template) \ template.stackId

(***************************************************************************)
(* DependsOn, across a mapping of one CloudFormation resource to several   *)
(* Pulumi resources: a resource waits for each of the Pulumi resources of  *)
(* what it depends on, directly or because one it waits for does.  The     *)
(* attachments of an IAM Policy wait for the Policy.                       *)
(***************************************************************************)
PulumiResources(d) ==
  IF template.mapped[d] = "one" THEN {<<d, "main">>} ELSE {d} \X {"main", "other"}

WaitedFor(n) ==
  waits[n] \cup {<<d, "main">> : d \in {m \in Node : <<m, "other">> \in waits[n]
                                                   /\ template.mapped[m] = "chained"}}

DependsOnHonoured ==
  \A n \in resources :
    template.kind[n] # "nested" =>
      \A d \in template.dependsOn[n] : PulumiResources(d) \subseteq WaitedFor(n)

(***************************************************************************)
(* The constructor and convert return or throw: the walks over the graph   *)
(* end, and evaluation, which follows outputs into nested stacks and       *)
(* parameters out of them, does not go round unless the template does.     *)
(***************************************************************************)
ConversionEnds == WithoutCircles(template) => <>(Converted \/ error # "none")
=============================================================================
