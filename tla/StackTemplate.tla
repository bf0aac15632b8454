---------------------------- MODULE StackTemplate ----------------------------
(***************************************************************************)
(* What StackManifest holds for one CDK stack and its nested stacks: the   *)
(* construct tree and the CloudFormation templates, reduced to what the    *)
(* conversion tells apart.  Constructs are numbered as in ConstructGraph,  *)
(* in the order parseTree inserts them: a construct before its children,   *)
(* nested stacks before the other children.  A template is a record        *)
(*   parent    : the scope of each construct, 0 for the Stack              *)
(*   stackPath : the nested stack the manifest says it is in, 0 for none   *)
(*   kind      : "wrapper", "resource", "nested", "vpc" or "cidr"; only    *)
(*               wrappers carry no CloudFormation resource                 *)
(*   uses      : the expressions in the Properties of each resource; for a *)
(*               nested stack, the value of its parameter (none: the       *)
(*               parameter keeps its SSM default)                          *)
(*   vpcId     : which of them is the VpcId of a VPCCidrBlock              *)
(*   outputs   : the value of the output of each nested stack              *)
(*   dependsOn : the DependsOn of each resource                            *)
(*   mapped    : what the mapping of each resource creates: "one" Pulumi   *)
(*               resource; or a main one and others, that need the main    *)
(*               one ("chained": IAM Policy and its attachments) or do not *)
(*               ("parallel": a QueuePolicy for several queues)            *)
(*   stackId   : the constructs whose id is the id of the stack: the Stack *)
(*               and maybe others                                          *)
(* An expression is a record [fn, to].  "Ref" and "GetAtt" name a resource *)
(* or, for GetAtt, an output of a nested stack; "Sub" is ${to.attribute}   *)
(* in an Fn::Sub; "Ipv6CidrBlocks" is that attribute of a VPC, by GetAtt;  *)
(* "Param" is a Ref to the parameter of the stack the expression is in.    *)
(***************************************************************************)
EXTENDS ConstructGraph

Kind == {"wrapper", "resource", "nested", "vpc", "cidr"}

Expr == [fn : {"Ref", "GetAtt", "Sub", "Ipv6CidrBlocks"}, to : Node]
          \cup {[fn |-> "Param", to |-> 0]}

TemplateType == [parent    : [Node -> 0..N],
                 stackPath : [Node -> 0..N],
                 kind      : [Node -> Kind],
                 uses      : [Node -> SUBSET Expr],
                 vpcId     : [Node -> SUBSET Expr],
                 outputs   : [Node -> SUBSET Expr],
                 dependsOn : [Node -> SUBSET Node],
                 mapped    : [Node -> {"one", "chained", "parallel"}],
                 stackId   : SUBSET Node]

(***************************************************************************)
(* The nodes parseTree gives a resource to, and so adds to cfnElementNodes.*)
(***************************************************************************)
Resources(t) == {n \in Node : t.kind[n] # "wrapper"}

(***************************************************************************)
(* The stackPath of the construct n, given those of its ancestors: the     *)
(* nested stack that is its scope, or the one its scope is in.  (TreeParse *)
(* has how the manifest finds it.)                                         *)
(***************************************************************************)
stackPath(t, n) ==
  LET scope == t.parent[n]
  IN  IF scope = 0 \/ t.kind[scope] = "nested" THEN scope ELSE t.stackPath[scope]

(***************************************************************************)
(* vpcNodes.get(vpc).vpcCidrBlockNode: a VPCCidrBlock whose VpcId is a Ref *)
(* to the VPC.                                                             *)
(***************************************************************************)
vpcCidrBlockNodes(t, v) ==
  {c \in Node : t.kind[c] = "cidr" /\ [fn |-> "Ref", to |-> v] \in t.vpcId[c]}

(***************************************************************************)
(* The VPCCidrBlocks _build refuses: the VpcId is a Ref to what is no VPC  *)
(* of the same stack, such as a parameter; or the VPC has one already      *)
(* ("currently the CDK VPC only supports a single VPCCidrBlock per VPC").  *)
(***************************************************************************)
RefusedBlocks(t) ==
  {c \in Node : t.kind[c] = "cidr" /\
     \E e \in t.vpcId[c] :
       \/ e.fn = "Param"
       \/ e.fn = "Ref" /\ t.kind[e.to] # "vpc"
       \/ e.fn = "Ref" /\ \E b \in vpcCidrBlockNodes(t, e.to) : b < c}

(***************************************************************************)
(* The resource a GetAtt or Ref reads: for the Ipv6CidrBlocks of a VPC     *)
(* with a VPCCidrBlock, that block.                                        *)
(***************************************************************************)
Target(t, e) ==
  IF e.fn = "Ipv6CidrBlocks" /\ vpcCidrBlockNodes(t, e.to) # {}
  THEN CHOOSE c \in vpcCidrBlockNodes(t, e.to) : TRUE
  ELSE e.to

-----------------------------------------------------------------------------
(***************************************************************************)
(* What a construct needs in its own stack: what its Properties and its    *)
(* DependsOn name, a nested stack counting as one resource, and its scope. *)
(* CloudFormation requires the first two to have no circle; the conversion *)
(* requires it of all three.                                               *)
(***************************************************************************)
StackDependencies(t, n) ==
  t.dependsOn[n]
    \cup {Target(t, e) : e \in {u \in t.uses[n] : u.fn # "Param"}}
    \cup ({t.parent[n]} \ {0, t.stackPath[n]})

WithoutCircles(t) ==
  \A n \in Node :
    \E C \in SUBSET Node : /\ StackDependencies(t, n) \subseteq C
                          /\ \A c \in C : StackDependencies(t, c) \subseteq C
                          /\ n \notin C

(***************************************************************************)
(* The expressions of a template; and an output of a nested stack is read  *)
(* in an Fn::Sub nowhere among them.                                       *)
(***************************************************************************)
Mentioned(t) == UNION {t.uses[n] \cup t.outputs[n] : n \in Node}

NoSubOfOutput(t) == \A e \in Mentioned(t) : e.fn = "Sub" => t.kind[e.to] # "nested"

(***************************************************************************)
(* What `cdk synth` may give: node 1 is the Stack; only resources have     *)
(* template entries; a template names its own resources, and of a nested   *)
(* stack only an output it has; only nested stacks have parameters set and *)
(* outputs read, and an output names what is in the nested stack.          *)
(***************************************************************************)
ReferencesIn(t, E, stack) ==
  \A e \in E :
    e.fn # "Param" =>
         /\ t.kind[e.to] # "wrapper"
         /\ t.stackPath[e.to] = stack
         /\ e.fn = "Ipv6CidrBlocks" => t.kind[e.to] = "vpc"
         /\ t.kind[e.to] = "nested" => e.fn # "Ref" /\ t.outputs[e.to] # {}

WellFormed(t) ==
  /\ \A n \in Node : t.parent[n] < n /\ (t.parent[n] = 0 <=> n = 1)
  /\ \A n \in Node : t.stackPath[n] = stackPath(t, n) /\ t.stackPath[n] < n
  /\ t.kind[1] = "wrapper" /\ 1 \in t.stackId
  /\ \A n \in Node :
       /\ ReferencesIn(t, t.uses[n], t.stackPath[n])
       /\ ReferencesIn(t, t.outputs[n], n)
       /\ t.kind[n] = "wrapper" => t.uses[n] = {} /\ t.dependsOn[n] = {}
       /\ t.kind[n] # "nested" => t.outputs[n] = {}
       /\ t.vpcId[n] \subseteq t.uses[n] /\ (t.kind[n] # "cidr" => t.vpcId[n] = {})
       /\ t.kind[n] \in {"nested", "wrapper"} => t.mapped[n] = "one"
       /\ \A d \in t.dependsOn[n] :
            t.kind[d] # "wrapper" /\ d # n /\ t.stackPath[d] = t.stackPath[n]
=============================================================================
