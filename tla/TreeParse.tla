------------------------------- MODULE TreeParse -------------------------------
(***************************************************************************)
(* From the cloud assembly of one CDK stack to the constructs of its       *)
(* graph: AssemblyManifestReader (src/assembly/manifest.ts) reads the      *)
(* templates of the stack and of its nested stacks and assigns each        *)
(* logical id to a stack by its path; GraphBuilder.parseTree               *)
(* (src/graph.ts) walks the construct tree and puts the two halves of a    *)
(* nested stack together.  In the tree a nested stack X is two siblings:   *)
(*   X              : the scope of all that is in the nested stack         *)
(*   X.NestedStack  : the scope of its resource, an                        *)
(*                    AWS::CloudFormation::Stack                           *)
(* Users may name constructs alike: a construct with a plain               *)
(* AWS::CloudFormation::Stack may be called X.NestedStack, alone or beside *)
(* any construct X.                                                        *)
(* A tree is a record; its nodes are numbered in the order of creation:    *)
(*   parent   : the scope of each node, 0 for the Stack, which is node 1   *)
(*   kind     : "wrapper"; "resource"; "nested" for X; "holder" for a node *)
(*              named X.NestedStack; "stack" for the resource in it        *)
(*   twin     : for a holder, the construct X beside it, whatever it is,   *)
(*              or 0 where there is none; 0 for the rest                   *)
(*              (ids are unique in a scope, so a construct is the twin of  *)
(*              one holder; a holder is given one child, its resource, and *)
(*              no holder is named X.NestedStack.NestedStack)              *)
(*   unlisted : the resources without logical id metadata                  *)
(*   missing  : the resources with a construct and no entry in a template, *)
(*              as of a policy that CDK decides not to synthesize; the     *)
(*              resource of a nested stack always has one                  *)
(*   mistyped : the resources whose type has not three parts, or is not    *)
(*              that of their template entry                               *)
(*   extra    : the stacks with a template entry that no construct has     *)
(***************************************************************************)
EXTENDS Integers, Sequences

CONSTANT Trees   \* the trees a stack may have

VARIABLES
  tree,      \* tree.json and the templates; constant
  metadata,  \* the stack each listed resource is in
  frames,    \* the calls of parseTree, and of the body of its loop over
             \* nested stacks, that have not returned
  entered,   \* the entries of constructNodes, in order
  step       \* "manifest", "parse", "check", "mapped", "done", or what was thrown

vars == <<tree, metadata, frames, entered, step>>

Nodes(t) == 1..Len(t.parent)

Kinds == {"wrapper", "resource", "nested", "holder", "stack"}

TreeType(t) ==
  /\ t.parent \in Seq(Nat) /\ t.kind \in Seq(Kinds) /\ t.twin \in Seq(Nat)
  /\ Len(t.parent) > 0 /\ Len(t.kind) = Len(t.parent) /\ Len(t.twin) = Len(t.parent)
  /\ t.parent[1] = 0 /\ t.kind[1] = "wrapper" /\ t.twin[1] = 0
  /\ \A n \in Nodes(t) \ {1} :
       /\ t.parent[n] \in 1..(n - 1) /\ t.twin[n] \in 0..Len(t.parent)
       /\ t.kind[n] = "stack" <=> t.kind[t.parent[n]] = "holder"
       /\ t.kind[t.parent[n]] # "stack"
  /\ \A h \in Nodes(t) : t.twin[h] # 0 =>
       /\ t.kind[h] = "holder" /\ t.kind[t.twin[h]] \in {"wrapper", "resource", "nested"}
       /\ t.parent[t.twin[h]] = t.parent[h]
       /\ \E r \in Nodes(t) : t.parent[r] = h
       /\ \A o \in Nodes(t) \ {h} : t.twin[o] # t.twin[h]
  /\ \A r, o \in Nodes(t) : t.kind[r] = "stack" /\ t.parent[o] = t.parent[r] => o = r
  /\ t.unlisted \subseteq Nodes(t) /\ t.mistyped \subseteq Nodes(t) /\ t.extra \subseteq Nodes(t)
  /\ \A n \in t.missing : /\ n \in Nodes(t) \ {1}
                           /\ t.twin[t.parent[n]] # 0 => t.kind[t.twin[t.parent[n]]] # "nested"

ASSUME TreesAssumption == \A t \in Trees : TreeType(t)

Init ==
  /\ tree \in Trees
  /\ metadata = <<>>
  /\ frames = <<>>
  /\ entered = <<>>
  /\ step = "manifest"

-----------------------------------------------------------------------------
Children(n) == {c \in Nodes(tree) : tree.parent[c] = n}

Resources == {n \in Nodes(tree) : tree.kind[n] \in {"resource", "stack"}}

(***************************************************************************)
(* loadNestedStacks: the stack itself, and through the templates every     *)
(* nested stack, at whatever depth, by the path of its X.  (The Stack of a *)
(* user has no aws:asset:path.)                                            *)
(***************************************************************************)
stacks == {1} \cup {x \in Nodes(tree) : tree.kind[x] = "nested" /\ \E h \in Nodes(tree) : tree.twin[h] = x}

Ancestors ==
  LET up[n \in 0..Len(tree.parent)] == IF n = 0 THEN {} ELSE {tree.parent[n]} \cup up[tree.parent[n]]
  IN  up

(***************************************************************************)
(* The stack paths that, followed by a '/', are a prefix of the path of n. *)
(***************************************************************************)
AnyPrefixes(n) == Ancestors[n] \ {0}   \* a fault: any construct will do

UnslashedPrefixes(n) ==   \* a fault: X is a prefix of X.NestedStack too
  stacks \cap (Ancestors[n] \cup {tree.twin[h] : h \in Ancestors[n] \ {0}})

stackPrefixes(n) == stacks \cap Ancestors[n]

(***************************************************************************)
(* A call in the scope of a construct: the nested stacks and the other     *)
(* children its loops still have to reach.  Each loop takes the children   *)
(* in the order of the tree, the nested stacks before the others.          *)
(***************************************************************************)
Frame(scope, nested, others) == [scope |-> scope, nested |-> nested, others |-> others]

Top == frames[Len(frames)]

First(S) == {n \in S : \A o \in S : n <= o}

NextNested == {r \in Top.nested : \A o \in Top.nested : tree.parent[r] <= tree.parent[o]}

NextChild == IF Top.nested = {} THEN First(Top.others) ELSE {}

Parsing == step = "parse" /\ frames # <<>>

(***************************************************************************)
(* getMetadata: a resource is in the stack with the longest such path.  Of *)
(* two prefixes of one path the longer is the deeper, the later in the     *)
(* order of creation.                                                      *)
(***************************************************************************)
ReadManifest ==
  /\ step = "manifest"
  /\ metadata' = [n \in Resources \ tree.unlisted |->
                    CHOOSE s \in stackPrefixes(n) : \A o \in stackPrefixes(n) : o <= s]
  /\ frames' = <<Frame(0, {}, {1})>>
  /\ step' = "parse"
  /\ UNCHANGED <<tree, entered>>

(***************************************************************************)
(* findNestedStacks: the resources in children named X.NestedStack, and    *)
(* of these the ones that have an X beside them.  Whether X is a nested    *)
(* stack is not asked.                                                     *)
(***************************************************************************)
nestedStackResources(n) ==
  {r \in Nodes(tree) : tree.kind[r] = "stack" /\ tree.parent[tree.parent[r]] = n}

nestedStacks(n) == {r \in nestedStackResources(n) : tree.twin[tree.parent[r]] # 0}

NestedNode(r) == tree.twin[tree.parent[r]]

(***************************************************************************)
(* The other children: neither half of a nested stack.                     *)
(***************************************************************************)
AllChildren(n) == Children(n)   \* a fault: the halves are parsed again

UnnamedChildren(n) ==   \* a fault: whatever is named X.NestedStack is left out
  {c \in Children(n) : tree.kind[c] \notin {"holder", "nested"}}

OtherChildren(n) ==
  Children(n) \ UNION {{NestedNode(r), tree.parent[r]} : r \in nestedStacks(n)}

(***************************************************************************)
(* An entry of constructNodes: the construct, its parent, and the resource *)
(* it has an address for, 0 for none.                                      *)
(***************************************************************************)
Entry(n, parent, r) == [construct |-> n, parent |-> parent, resource |-> r]

(***************************************************************************)
(* What parseTree looks up for n: its own resource, and the resource in    *)
(* each child named X.NestedStack.  resourceAddressForPath throws for one  *)
(* without metadata, resourceWithLogicalId for one without template entry; *)
(* the type of n itself is read (typeFromCfn) and compared.                *)
(***************************************************************************)
LookedUp(n) == ({n} \cap Resources) \cup nestedStackResources(n)

Unaddressed(n) == LookedUp(n) \ DOMAIN metadata

Missing(n) == LookedUp(n) \cap tree.missing

Mistyped(n) == {n} \cap Resources \cap tree.mistyped

Faulty(n) == Unaddressed(n) \cup Missing(n) \cup Mistyped(n)

(***************************************************************************)
(* The first of these, in the order of the tree, is thrown for.            *)
(***************************************************************************)
Thrown(m, n) ==
  IF m \in Unaddressed(n) THEN "no stack address"
  ELSE IF m \in Missing(n) THEN "no resource" ELSE "wrong type"

Refuse ==
  /\ Parsing
  /\ \E n \in NextChild : \E m \in Faulty(n) :
       /\ \A o \in Faulty(n) : tree.parent[m] <= tree.parent[o]
       /\ step' = Thrown(m, n)
  /\ UNCHANGED <<tree, metadata, frames, entered>>

(***************************************************************************)
(* parseTree on the next child n: its own entry, and a call for its nested *)
(* stacks, with all that is in them, and its other children.               *)
(***************************************************************************)
ParseTree ==
  /\ Parsing
  /\ \E n \in NextChild :
       /\ Faulty(n) = {}
       /\ entered' = Append(entered, Entry(n, Top.scope, IF n \in Resources THEN n ELSE 0))
       /\ frames' = Append([frames EXCEPT ![Len(frames)] = Frame(@.scope, {}, @.others \ {n})],
                           Frame(n, nestedStacks(n), OtherChildren(n)))
  /\ UNCHANGED <<tree, metadata, step>>

(***************************************************************************)
(* The body of nestedStacks.forEach: X gets the resource; the children of  *)
(* X are parsed in its scope.                                              *)
(***************************************************************************)
InScopeOfTree(scope, x) == scope   \* a fault: they are parsed in the scope of the parent

InScopeOf(scope, x) == x

NestedStack ==
  /\ Parsing
  /\ \E r \in NextNested :
       LET x == NestedNode(r)
       IN  /\ entered' = Append(entered, Entry(x, Top.scope, r))
           /\ frames' = Append([frames EXCEPT ![Len(frames)] = Frame(@.scope, @.nested \ {r}, @.others)],
                               Frame(InScopeOf(Top.scope, x), {}, Children(x)))
  /\ UNCHANGED <<tree, metadata, step>>

Return ==
  /\ Parsing
  /\ Top.nested = {} /\ Top.others = {}
  /\ frames' = SubSeq(frames, 1, Len(frames) - 1)
  /\ UNCHANGED <<tree, metadata, entered, step>>

Parsed ==
  /\ step = "parse"
  /\ frames = <<>>
  /\ step' = "check"
  /\ UNCHANGED <<tree, metadata, frames, entered>>

(***************************************************************************)
(* The stack that holds n, as CDK assigns it: the innermost scope that is  *)
(* one.                                                                    *)
(***************************************************************************)
StackOf ==
  LET of[n \in Nodes(tree)] == IF tree.parent[n] \in stacks \cup {0} THEN tree.parent[n]
                               ELSE of[tree.parent[n]]
  IN  of

(***************************************************************************)
(* _build refuses a template with a resource that cfnElementNodes lacks.   *)
(***************************************************************************)
cfnElementNodes ==
  {<<metadata[entered[i].resource], entered[i].resource>> :
     i \in {j \in 1..Len(entered) : entered[j].resource # 0}}

unmappedResources ==
  ({<<StackOf[n], n>> : n \in Resources \ tree.missing} \ cfnElementNodes)
    \cup (tree.extra \X {0})

CheckMapped ==
  /\ step = "check"
  /\ step' = IF unmappedResources = {} THEN "mapped" ELSE "unmapped"
  /\ UNCHANGED <<tree, metadata, frames, entered>>

(***************************************************************************)
(* The conversion throws when it comes to a node of nestedStackNodes       *)
(* without a template; the rest of it is StackConversion.                  *)
(***************************************************************************)
nestedStackNodes ==
  {entered[i].construct : i \in {j \in 1..Len(entered) :
                                   entered[j].resource \notin {0, entered[j].construct}}}

FindTemplates ==
  /\ step = "mapped"
  /\ step' = IF nestedStackNodes \subseteq stacks THEN "done" ELSE "no template"
  /\ UNCHANGED <<tree, metadata, frames, entered>>

Refusals == {"no stack address", "no resource", "wrong type"}

Ended == step \in {"done", "unmapped", "no template"} \cup Refusals

Terminating == Ended /\ UNCHANGED vars

Next ==
  \/ ReadManifest \/ Refuse \/ ParseTree \/ NestedStack \/ Return \/ Parsed \/ CheckMapped
  \/ FindTemplates \/ Terminating

Spec == Init /\ [][Next]_vars

-----------------------------------------------------------------------------
FrameType ==
  [scope : Nodes(tree) \cup {0}, nested : SUBSET Resources, others : SUBSET Nodes(tree)]

EntryType ==
  [construct : Nodes(tree), parent : Nodes(tree) \cup {0}, resource : Resources \cup {0}]

TypeOK ==
  /\ TreeType(tree)
  /\ DOMAIN metadata \subseteq Resources
  /\ \A n \in DOMAIN metadata : metadata[n] \in stacks
  /\ frames \in Seq(FrameType)
  /\ entered \in Seq(EntryType)
  /\ step \in {"manifest", "parse", "check", "mapped"} \/ Ended

(***************************************************************************)
(* The path of a resource leads to the stack that holds it, though the     *)
(* paths of nested stacks, of their resources and of constructs that are   *)
(* named alike are prefixes of each other.  A wrong stack is a template    *)
(* without the resource, or with another of the same logical id.           *)
(***************************************************************************)
AddressesRight ==
  \A n \in DOMAIN metadata : metadata[n] = StackOf[n]

(***************************************************************************)
(* No construct is entered twice, and each after its parent: what the      *)
(* conversion builds on (StackTemplate numbers constructs in this order).  *)
(* When the parse is over nothing is left out but the second half of       *)
(* nested stacks.                                                          *)
(***************************************************************************)
EnteredInOrder ==
  /\ \A i, j \in 1..Len(entered) : entered[i].construct = entered[j].construct => i = j
  /\ \A i \in 1..Len(entered) :
       entered[i].parent = 0 \/ \E j \in 1..(i - 1) : entered[j].construct = entered[i].parent
  /\ step = "check" =>
       \A n \in Nodes(tree) :
         \/ \E i \in 1..Len(entered) : entered[i].construct = n
         \/ tree.kind[n] = "holder" /\ tree.twin[n] # 0
         \/ tree.kind[n] = "stack" /\ tree.twin[tree.parent[n]] # 0

(***************************************************************************)
(* A template that CDK synthesizes is not refused for a resource that has  *)
(* no node, or a nested stack that has no template: only an entry of a     *)
(* template that no construct has is.  The exception is Mistaken, a        *)
(* construct X that is no nested stack and is taken for one because a user *)
(* has put X.NestedStack beside it: a resource X then gets no node of its  *)
(* own, and any X is looked for among the templates of nested stacks.      *)
(* (What Refuse throws for is in the tree from the start.)                 *)
(***************************************************************************)
Mistaken(x) == tree.kind[x] # "nested" /\ \E h \in Nodes(tree) : tree.twin[h] = x

EverythingMapped ==
  /\ step = "unmapped" => tree.extra # {} \/ \E n \in Resources : Mistaken(n)
  /\ step = "no template" => \E n \in Nodes(tree) : Mistaken(n)

(***************************************************************************)
(* Without that exception: "just a regular CFN stack that accidentally     *)
(* follows the CDK naming" is handled as a regular resource, also where    *)
(* its X exists.                                                           *)
(***************************************************************************)
NamedByAccident == step \in {"unmapped", "no template"} => tree.extra # {}

(***************************************************************************)
(* The scopes of a resource in the graph lead to the nested stack that its *)
(* address names: the conversion uses either, the address to look a        *)
(* reference up and the scope as the parent of what it registers.  (Not    *)
(* where a nested stack is directly in another, or in what is mistaken for *)
(* one: see NestedStacksFound; nor in what is mistaken for one.)           *)
(***************************************************************************)
DirectlyNested ==
  \E n, h \in Nodes(tree) : tree.kind[n] = "nested" /\ tree.parent[n] = tree.twin[h]

Misread == DirectlyNested \/ \E n \in Nodes(tree) : Mistaken(n)

Constructs == {entered[i].construct : i \in 1..Len(entered)}

EntryOf(n) == entered[CHOOSE i \in 1..Len(entered) : entered[i].construct = n]

ScopesStack(n) == n \in {0, 1} \/ EntryOf(n).resource \notin {0, n}

ScopeOf ==
  LET of[n \in Constructs] == IF ScopesStack(EntryOf(n).parent) THEN EntryOf(n).parent
                              ELSE of[EntryOf(n).parent]
  IN  of

ScopedInStack ==
  ~ Misread =>
    \A i \in 1..Len(entered) :
      entered[i].resource # 0 => ScopeOf[entered[i].construct] = metadata[entered[i].resource]

(***************************************************************************)
(* The inductive invariant behind these.  An entry has the scope that the  *)
(* tree gives it, entered before it, and the resource it stands for.       *)
(***************************************************************************)
EntriesInv ==
  \A i \in 1..Len(entered) :
    LET e == entered[i]
    IN  /\ \A j \in 1..Len(entered) : entered[j].construct = e.construct => j = i
        /\ e.parent = tree.parent[e.construct]
        /\ e.parent = 0 \/ \E j \in 1..(i - 1) : entered[j].construct = e.parent
        /\ \/ e.resource = IF e.construct \in Resources THEN e.construct ELSE 0
           \/ /\ e.resource \in Resources /\ tree.kind[e.resource] = "stack"
              /\ NestedNode(e.resource) = e.construct
        /\ e.resource # 0 => e.resource \in DOMAIN metadata

(***************************************************************************)
(* A call has entered its scope and is the only one in it; what it still   *)
(* has to reach is in that scope, listed once and not entered.             *)
(***************************************************************************)
FramesInv ==
  \A k \in 1..Len(frames) :
    LET f == frames[k]
    IN  /\ \A j \in 1..Len(frames) : frames[j].scope = f.scope => j = k
        /\ f.scope \in Constructs \cup {0}
        /\ \A c \in f.others : c \notin Constructs /\ tree.parent[c] = f.scope
        /\ \A r \in f.nested :
             /\ r \in nestedStacks(f.scope) \cap DOMAIN metadata
             /\ NestedNode(r) \notin Constructs \cup f.others

(***************************************************************************)
(* Nothing is lost on the way: a child of an entered construct is entered, *)
(* or a call has still to reach it, or it is the second half of a nested   *)
(* stack, whose resource has an entry.                                     *)
(***************************************************************************)
Pending(m) ==
  \E k \in 1..Len(frames) :
    m \in frames[k].others \cup UNION {{NestedNode(r), tree.parent[r]} : r \in frames[k].nested}

Given(r) == \E i \in 1..Len(entered) : entered[i].resource = r

Reached(m) ==
  m \in Constructs \/ Pending(m) \/ (tree.twin[m] # 0 /\ \A r \in Children(m) : Given(r))

CompleteInv ==
  /\ step # "manifest" => \A n \in Constructs \cup {0} : \A m \in Children(n) : Reached(m)
  /\ step \notin {"parse"} \cup Refusals => frames = <<>>
  /\ step = "manifest" => entered = <<>>

(***************************************************************************)
(* A nested stack that is in no nested stack directly is entered with its  *)
(* resource.                                                               *)
(***************************************************************************)
ScopesInv ==
  ~ DirectlyNested =>
    /\ \A k \in 1..Len(frames) : frames[k].others \cap stacks \subseteq {1}
    /\ \A i \in 1..Len(entered) :
         entered[i].construct \in stacks \ {1} => entered[i].resource # 0

ParseInv ==
  /\ TypeOK /\ AddressesRight /\ EntriesInv /\ FramesInv /\ CompleteInv /\ ScopesInv
  /\ EverythingMapped

(***************************************************************************)
(* "Map of stack path to GraphNode of nested stacks": every nested stack   *)
(* whose template was loaded has its node.                                 *)
(***************************************************************************)
NestedStacksFound ==
  step = "done" =>
    \A s \in stacks \ {1} : \E i \in 1..Len(entered) :
      entered[i].construct = s /\ entered[i].resource # 0
=============================================================================
