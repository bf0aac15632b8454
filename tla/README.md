# Verification of pulumi-cdk

`pulumi-cdk` lets a Pulumi program contain AWS CDK applications: it runs CDK's
synthesis inside the program and turns the CloudFormation templates into Pulumi
resources. This directory holds TLA+ modules of its core, TLC configurations
that check them on small instances, and TLAPS proofs about the parse of the
construct tree, the graph sort, the conversion of a stack and of an app, the
evaluation of its expressions, the resources of a stack and their names, the
assets and the life of an app. Paths
such as `src/graph.ts` are those of the repository's own `src/` directory
(`src/src/` in `PROJECT.json`). `PROJECT.json` maps every definition that models
code to its source lines.

    tlc -workers 2 -config MCGraphSort.cfg MCGraphSort.tla
    tlc -workers 2 -config MCEvaluation.cfg MCEvaluation.tla
    tlapm StackConversionProofs.tla
    tlapm EvaluationProofs.tla
    tlapm MappingProofs.tla

## 1. Inventory

### How an app runs

1. `new App(id, createFunc)` is a Pulumi component (`src/stack.ts`). Its
   constructor starts the asynchronous `initialize` and returns to the program.
2. `initialize` awaits the environment of the provider, then the toolkit's
   `synth`, which calls back `createAssembly`: a `PulumiSynthesizer` with its
   staging stack, the user's `createFunc`, `app.synth`. If the assembly lacks
   context and lookups are enabled, the toolkit looks it up and calls
   `createAssembly` again.
3. While stacks are created and synthesized, constructs register file and image
   assets with the synthesizer (`src/synthesizer.ts`), which creates Pulumi
   resources (bucket, objects, repositories, images) at once.
4. `new AppConverter(app).convert()` reads the assembly (`src/assembly/`), makes
   one `StackConverter` per stack and converts the stacks recursively,
   dependencies first (`src/converters/app-converter.ts`). This is synchronous.
5. Converting a stack: `GraphBuilder` (`src/graph.ts`) parses the construct
   tree, adds edges for what templates reference, sorts the graph; `convert`
   then registers a Pulumi resource for each node in order and resolves every
   expression (Ref, Fn::GetAtt, Fn::Sub, parameters and outputs of nested
   stacks) against what it registered before (`src/converters/intrinsics.ts`).
6. The assembly is disposed of, the promises behind `asOutput` and the outputs
   of the component settle.

### Components, their state and operations

| component | state | operations | correct when | modules |
|---|---|---|---|---|
| `GraphBuilder` sort | visited, sorted, the recursion | `sort` | dependencies precede dependents, nothing lost or repeated, ends on cycles | `ConstructGraph`, `TopologicalOrder`, `GraphSort` |
| `GraphBuilder.parseTree`, `AssemblyManifestReader` | constructNodes, cfnElementNodes, nestedStackNodes, resource addresses | `getMetadata`, `loadNestedStacks`, `parseTree`, `findNestedStacks`, the check for unmapped resources | each resource is assigned its stack, each construct is entered once, after its parent, in the right scope; what CDK synthesizes is not refused | `TreeParse` |
| `GraphBuilder` edges | outgoing and incoming edges, vpcNodes | `addEdgesForCfnResource`, `addEdgesForIntrinsic` | enough edges for whatever the conversion looks up | `StackTemplate`, `StackConversion` |
| `StackConverter` | constructs, resources, _stackResource | `convert`, `registerResource`, `processOptions`, `processIntrinsics` | everything is registered after what it needs, DependsOn is honoured across mappings | `StackConversion` |
| `AppConverter` | stacks, done | `convert`, `convertStackManifest` | dependencies are converted first and depended on in their latest version; nothing over a failure; ends | `AppConversion` |
| `PulumiSynthesizer` | stagingBucket, stagingRepos, fileDependencies, the seen assets | `reusableBind`, `addFileAsset`, `addDockerImageAsset`, `getStagingBucket`, `synthesize` | staging resources are created once and are ready before what is stored | `Synthesizer` |
| `App`, `Stack` | outputs, converter (a promise), the assembly | constructor, `initialize`, `createAssembly`, `asOutput` | outputs are merged, `asOutput` settles over a finished conversion, nobody waits for ever | `AppLifecycle` |
| intrinsic functions (`app-converter.ts`, `intrinsics.ts`, `sub.ts`) | none of their own; they read `resources`, templates, parameters | `processIntrinsics`, `resolveIntrinsic`, `evaluateRef`, `resolveAtt`, conditions, `mapParameter`, `asOutputValue` | the value is what CloudFormation defines, in any order and at any level, or an error; `asOutput` answers from the right stack | `SubTemplate`, `Intrinsics`, `CloudFormation`, `Evaluation` |
| resource mappings (`aws-`, `cfn-`, `custom-resource-mapping(s).ts`) | none | `mapToAwsResource`, `mapToCfnResource`, `mapToCustomResource`, user mappings | the main resource is found, names do not clash, documents of the user arrive as written | `ResourceMapping`, `Mapping`, `MappedArguments` |
| property names and metadata (`naming.ts`, `pulumi-metadata.ts`, `interop.ts`) | none | `toSdkName`, `getNativeType`, `normalize` | what CloudFormation names is renamed, what the user names is not, at any depth | `PropertyNames`, `PropertyValues`, `Metadata` |
| dynamic references (`dynamic-references.ts`) | none | `parseDynamicValue` and the three kinds | the value of the right secret or parameter, marked as secret | `DynamicReferences` |
| logical ids (`cdk-logical-id.ts`) | none | `makeUniqueId`, `Stack.allocateLogicalId` | stable under refactoring, no two resources with one name | `LogicalIds`, `Mapping` |
| tokens for outputs (`output-map.ts`) | a counter and a map that grows | `registerOutput`, `lookupOutput` | a token finds its output | looked up in `Evaluation`, registration not modelled |
| `zip` of directories | files | | | not modelled |

### What is hard

Nothing here is multi-threaded, but much is order. Two pieces of code that know
nothing of each other must agree (edges and resolution; address and scope).
Recursion and on-demand evaluation cross nested stacks in both directions.
State is shared by copies (`Object.create` in the synthesizer) or reset for
each stack (`done`). Asynchronous initialization races with the constructor
that overwrites the same field. `PROJECT.json` lists each hazard at its line
with the properties that catch it.

## 2. The modules

Conventions: a definition whose comment says *a fault* is never used by a
specification. It is what a plausible bug would make of the definition that
follows it, and `PROJECT.json` (`mutants`) says which property refutes it.
Expressions, names and values are reduced to what the properties tell apart.

**ConstructGraph** (no state). Nodes are numbered in the order of
`constructNodes`; a graph has a parent, a set of references and a resource flag
per node. Reachability is defined by closed sets, not by recursion, so that
proofs can use it.

**TopologicalOrder** is what the sort promises: a node is emitted when each of
its dependencies has been emitted *or leads back to it*. The second half is
there because nothing excludes cycles (a resource that references a construct
in its own scope gives one, and CloudFormation accepts it).

**GraphSort** is the loop at the end of `_build`. The recursive closure `sort`
is an explicit stack `frames`; `todo[n]` is what the loop of the call for `n`
has not reached. `SortRoot` is an iteration of the outer loop, `SortTarget` an
iteration of the inner one, `Push` the push and the return. References are
visited in any order, the parent first. `Order == INSTANCE TopologicalOrder`
states the refinement.

**TreeParse** goes from the assembly to `constructNodes`. `ReadManifest` is the
assignment of logical ids to stacks by the longest prefix of a path,
`ParseTree` a call of `parseTree`, `NestedStack` the body of
`nestedStacks.forEach`, `Return` the end of either, `CheckMapped` the check for
template entries without construct, `FindTemplates` the look-up of the template
of each nested stack when it is converted. `Refuse` is what the look-ups of a
call throw: a resource without metadata, without template entry, or of another
type. `twin` is the construct X beside an X.NestedStack, whatever it is: like
the code, `nestedStacks` does not ask whether X is a nested stack. The recursion is a stack `frames`: a call is
its scope with the nested stacks and the other children its loops have still to
reach, the nested stacks first, each in the order of the tree. Paths are modelled by what decides a prefix: ancestors, and the `/`
that keeps `X` from being a prefix of `X.NestedStack`.

**StackTemplate** (no state) is the input of a conversion, and what
CloudFormation accepts (`WellFormed`, `WithoutCircles`). The stack a node is in
is data (`stackPath`) that `WellFormed` ties to the parents node by node, so
that no recursion is needed to speak of it. **StackConversion** is
the edge pass (`EdgesOfNode`, `EdgesOfExpression`), the sort (an `INSTANCE` of
`GraphSort`), and the loop of `convert`, with one action per kind of node and
one (`Resolve`) per evaluated expression. `pending` holds the expressions still
to evaluate with the stack they are evaluated in: a parameter goes out to the
parent stack, an output goes into the nested stack. An error
thrown on the way is a value of `error`: a scope or a reference that is missing,
a VPCCidrBlock that `_build` refuses (`RefuseCidrBlock`). Errors that depend on
more than the order of constructs are in the modules that have the data: those
of `mapParameter` (`app-converter.ts:281-311`) in `Evaluation` (`MapParameters`),
of an unknown attribute (`:751`) in `Intrinsics` (`attribute`), of a mapping
without main resource (`:235`) in `Mapping`, of a nested stack without template
(`:158`) in `TreeParse` (`FindTemplates`).

**AppConversion** is `AppConverter.convert`. `frames` are the calls of
`convertStackManifest`; `UseDone`, `ConvertDependency` and `UnknownDependency`
are the ways through its loop; `ConvertStack` is the call of
`stackConverter.convert`, `done` and the return. `generation` counts the stack
resources of each stack, because a stack may be converted more than once. The
conversion of one stack, which `StackConversion` models, is atomic here: it is
synchronous.

**Synthesizer** keeps apart what copies share (maps and arrays of the original)
and what each copy has for itself (`stagingBucket`). `registered` is the
sequence of Pulumi resources with names and dependencies, `locations` what
constructs were told of their assets. Refused assets are actions of their own,
since they differ in what has been created before: nothing (`RefuseImage`), the
bucket (`AddFileOfCommand`) or the repository (`AddImageUnsupported`,
`AddImageUnbound`).

**AppLifecycle** has one action per stretch of `initialize` between two awaits,
one for the callback that merges outputs, and `AsOutput`/`Answer` for the
program. Each await may fail.

**SubTemplate** (no state) is `parseSub` and its two regular expressions over
the characters that matter to them. **Intrinsics** (no state) is
`processIntrinsics` and all it calls. A result is a value or an error, at once
or *eventual* (a promise or Output); `apply` is `StackConverter.apply`, whose
callback runs, for an eventual value, when the synchronous conversion is over
and everything is registered. What the code calls recursively,
`IntrinsicContext.evaluate`, is the function `process` of a context: it takes
the resources that are registered and an expression in a stack, and `evaluation`
defines it as a recursive function. Its domain is that of `depth`, a field that
the code does not have: every expression that an evaluation of the template may
come to, with how deep it goes from there.

**Evaluation** registers the resources in every order that the edges of `_build`
allow, evaluating the Properties of each against what is registered at that
moment, then lets the program call `asOutput`. It defines both what the
evaluation of an expression leads to (`Links`: its arguments, the parameters in
the parent stack, the outputs in the nested stack, the conditions) and what the
edge pass walks into (`Walked`) and adds edges for (`Named`), which is less.
`edges` and `Everything` collect along the two. **CloudFormation** is the
reference: a `meaning` for each expression, with no order and no promises, and
the properties that compare the two. It shares the vocabulary of expressions and
values with the code, and what a join and a split of texts give; what a list has
at an index, the subnets of a block and the zones of a region are its own
(`Selected`, `Subnets`, `Zones`). Where the code is known to differ, the properties
except it by name (`Differs`, `Unordered`; section 3.3).

**PropertyNames**, **PropertyValues**, **Metadata**, **DynamicReferences**,
**LogicalIds** and **ResourceMapping** (no state) are the pure functions between
a construct and the arguments of its Pulumi resources. A name is a sequence of
character classes; a text is a sequence of segments; the schema is a constant.
**Mapping** composes them: `AllocateLogicalIds` when CDK synthesizes the stack,
then `ConvertResource` for each construct (`processValues`, `mapResource`, the
choice of the main resource in `registerResource`). Which resources there are
and what they are called does not depend on how values are converted, so the
conversions are constant operators of these modules, `normalized` and
`processed`; the configurations give them the definitions `normalize` of
`Metadata` and `processValues` of `DynamicReferences`. **MappedArguments** states
what is then true of the arguments. `Assumptions` is what `Mapping` needs of its constants: the list that
a policy is made for is a finite sequence with enough numerals for it, numerals
differ, and the ids that the user's `remapCloudControlResource` returns for one
resource are the given id, or that id followed by something set off by a
character that logical ids do not have (`RemappedApart`).

`StackConversion` composes `GraphSort` and `StackTemplate`; `GraphSort`
implements `TopologicalOrder`; `Evaluation` and `Mapping` are two closer looks
at one iteration of the loop of `StackConversion`: the first at the values of
expressions, the second at names and arguments. The `MC*` modules define the
instances for TLC.

## 3. The runs

| run | what it shows | instance |
|---|---|---|
| `sort` | `SortInv` (inductive), topological order, exactly the empty wrappers are left out, end on all graphs, refinement of `TopologicalOrder` | all graphs of 4 nodes that `parseTree` and the edge pass can build, cyclic ones included |
| `parse` | `ParseInv` (inductive); resources get the right stack; constructs are entered once, in order, in the right scope; nothing is refused as unmapped but for an extra template entry, or for an X that is mistaken for a nested stack | all trees of up to 4 constructions (a nested stack, that is three nodes, is one; so is an X.NestedStack of the user, alone or beside a wrapper or resource X), as synthesized or with one fault: a resource without metadata, without template entry or of another type, a template entry without construct |
| `nested_in_nested` | **violated** `NestedStacksFound`: a nested stack directly in a nested stack has no node | 2 constructions |
| `stack` | no reference of an acceptable template is missing, but for named kinds of template (section 3.3); exactly the resources with the id of the stack are lost, every other is registered after what it needs; DependsOn honoured; ends | 5 families of 6 constructs (section 3.1) |
| `app` | `OnceInv` (inductive); dependencies awaited in their latest version; conversions counted; nothing over a failure; ends | every acyclic dependency relation on 4 stacks in every manifest order, with an unknown artifact, a staging stack, a broken stack |
| `app_once` | **violated** `ConvertedOnce`: a stack another depends on is converted twice | 3 stacks |
| `assets` | files and repositories are created once in the app, buckets and what configures them once per copy; what an upload depends on is complete and registered | 2 stacks, 2 hashes, 2 image names that share a repository, any sequence of calls, refused ones included |
| `lifecycle` | outputs merged; answers only over a finished conversion; every request is answered | 2 requests, at most 2 rounds of lookups, each await may fail |
| `evaluation` | `EvaluationInv`; Properties evaluate to what they mean to CloudFormation and are an error where they mean nothing; nothing that has a meaning fails, all three but for named exceptions (section 3.3); the order of registration does not matter; `asOutput` answers from the root stack if that has an answer, else from the stack of the construct | a root and two nested stacks with a resource, a parameter and a condition of every kind, one property of any of about 1100 expressions of depth two; a template whose root has the names of its nested stacks |
| `mapping` | `MappingInv` (inductive), in it that the main resource is the one looked up; names differ; ids ignore `Default`; arguments, documents and references are converted; secrets stay secret | one construct with any of a set of properties, or two constructs with any of a set of paths |
| `secret_arn` | **violated** `CompleteArn`: a secret by ARN with few segments after it is cut short | one construct |
| `map_keys` | **violated** `MapKeysKept`: the keys of a map in a map are renamed | one construct |

More configurations are kept beside the runs, each with an instance that
violates its one property; section 3.3 says why:

| configuration | property | what the code does |
|---|---|---|
| `MCStackConversion_Sub.cfg` | `EverythingConverted` | Fn::Sub of an output of a nested stack: too few edges |
| `MCStackConversion_SameId.cfg` | `EverythingConverted` | a construct with the id of the stack is taken for it |
| `MCStackConversion_Vpc.cfg` | `EverythingConverted` | a VPCCidrBlock of a VPC that is a parameter is refused |
| `MCTreeParse_Named.cfg` | `NamedByAccident` | any X beside a user's X.NestedStack is taken for a nested stack |
| `MCSynthesizer_TwoStacks.cfg` | `OneStagingBucket` | a staging bucket per stack, with one name |
| `MCSynthesizer_Location.cfg` | `LocationHoldsAsset` | a copy names its own bucket for what another copy uploaded |
| `MCSynthesizer_TwoRepos.cfg` | `PolicyPerRepository` | one name for the lifecycle policies of all repositories |
| `MCEvaluation_SameNames.cfg` | `OutputOfNoOtherStack` | the root stack answers for a construct of a nested stack |
| `MCEvaluation_Zones.cfg` | `EvaluatesToItsMeaning` | Fn::GetAZs of a named region takes its first letter |
| `MCEvaluation_Computed.cfg` | `EvaluatesToItsMeaning` | a computed Ref has no edge |

### 3.1 Bounds, and why they are enough

*sort.* Four nodes hold a Stack, a wrapper and two resources, so self
references, cycles of two and three, diamonds, and a target visited from two
callers all occur. The theorems cover all sizes.

*stack.* Six constructs are the least that hold two nested stacks with a
resource each and a user of both. The families are those in which two actors
meet: sibling nested stacks that feed each other's parameters, a nested stack
in a wrapper of a nested stack (an output through two levels), a nested stack
after its user in the tree, resources in the scope of resources, a VPC with its
CIDR block in every order, where the block may be that of a VPC that is a
parameter, or a second one. Expressions by Fn::Sub are among the choices wherever
a resource or an output can be named, and one family has a second construct with
the id of the stack. Each resource, parameter and output has at most one
expression of a given list; at most one DependsOn. Two expressions of one
resource are independent: `work` and `pending` are sets whose elements are
handled one by one.

*parse.* Four constructions give nested stacks up to four deep. At each level an
X.NestedStack may stand alone, beside a nested stack, a wrapper or a resource X,
created before or after it. Names X.NestedStack.NestedStack are left out.

*app.* Four stacks give chains, diamonds and two dependents of one dependency
in every manifest order; the proofs cover all sizes.

*assets.* Two stacks are the least that share what the copies share. Two names
with one repository and two hashes suffice for the same name with two hashes, the
same hash with two names and a repository that exists already; memos only compare
for equality. Stacks are interchangeable, and so are hashes (`SYMMETRY`; the run
checks invariants only).

*lifecycle.* Two rounds of lookups distinguish the first call of
`createAssembly`, a middle one and the last.

*evaluation.* What is interesting in an expression happens between a function
and its argument (an eventual argument, an error, a value at the wrong type), so
depth two with every leaf under every function covers each pair; parameters and
conditions add levels of their own, since they are evaluated in the parent
stack. Two nested stacks are the least in which `asOutput` can find one logical
id twice, and one template has that id, and that of a parameter, in the root too.
Every leaf is under an Fn::Select of index 0 and 1, in a computed Ref and, where it
is a resource or an output, in a hole of an Fn::Sub. Each template has the resources that its expression can reach, so
that all orders of them can be tried.

*mapping.* Five characters hold two acronyms with a character between them and
at the end, which is what `lowerAcronyms` looks at. Three levels of values hold
a map in a map and a list in an object of a list; a schema is looked up one
level at a time. `MaxHumanLen` is 8 instead of 240, so that ids are cut.

Deadlock is checked in every run but `evaluation`, `mapping` and the two
violations of `Mapping`: there a behaviour ends when the last resource is
registered or one is refused. Elsewhere the states in which a module may stop
have an explicit `Terminating` (or `Failed`) step.

### 3.2 Fairness

`_build`, `convert` and `AppConverter.convert` are synchronous JavaScript: once
started they run until they return or throw. `WF_vars(Next)` says that and no
more. In `AppLifecycle` fairness is on `initialize` (the promises of the
provider and of the toolkit settle, either way), on the callback that merges
outputs and on each answer (the runtime runs callbacks of settled promises). No
fairness is assumed of the program: it need never call `asOutput`.

### 3.3 Disagreements found

Four runs refute what a comment or the README of the repository says; `PROJECT.json`
(`findings`) quotes them.

* `nested_in_nested`, `src/graph.ts:276`: a nested stack whose scope is a nested
  stack is not found. With a construct between the two it is found.
* `app_once`, `src/converters/app-converter.ts:61`: `done` is per manifest, so
  stacks with dependents are converted once for each.
* `secret_arn`, `src/converters/dynamic-references.ts:138`: the lazy group for
  the secret id stops too early in an ARN, which itself has colons.
* `map_keys`, `src/pulumi-metadata.ts:308`: the schema is looked up by names, and
  a key of a map is none; what is below it is converted without schema.

The configurations kept beside the runs (section 3) show more of the kind:

* `src/graph.ts:637`: Fn::Sub of an output of a nested stack has an edge to the
  nested stack and not to what the output names.
* `src/graph.ts:551`: a Ref whose argument is not a string is computed by
  `intrinsics.ts:340` (`tests/converters/intrinsics.test.ts:405` has it evaluated)
  and ignored by `addEdgeForRef`: what it names may not be registered yet.
* `src/graph.ts:330-357`: findNestedStacks takes any sibling X of an
  X.NestedStack with a plain `AWS::CloudFormation::Stack` for a nested stack, though
  the comment there has such a stack handled as a regular resource. A resource X is
  left out of the parse and the template refused; a wrapper X has no template.
* `src/graph.ts:433-443`: a VPCCidrBlock whose VpcId is a Ref to a parameter is
  refused, and so is a second block of one VPC (`:447`, which its comment says).
* `src/converters/app-converter.ts:138`: the Stack is recognised by its id only.
* `src/converters/app-converter.ts:446-447`: `asOutput` asks the root stack first,
  for a construct of a nested stack too.
* `src/converters/app-converter.ts:594-598`: Fn::GetAZs takes the first *letter* of a
  named region. `tests/converters/app-converter.test.ts:239` expects the zones of
  us-east-1; it passes because the mock does not look at the region.
* `src/synthesizer.ts:320`, `:451` and `:286`: a second staging bucket of the same
  name with two stacks, of which the locations of shared assets then speak; a second
  lifecycle policy of the same name with two repositories. (The tests pass because
  the mocks accept duplicate names.)

The properties of the runs except these, and the following, by named operators:
`NoSubOfOutput`, `RefusedBlocks` and `stackId` in `StackConversion`, `Mistaken` and
`Misread` in `TreeParse`, `Differs` and `Unordered` in `CloudFormation`, `Seen` in
`Evaluation`, `InList` in `MappedArguments`. On what follows no text of the
repository takes a side.

* Fn::Select out of range gives `undefined` without an error, or a letter of a
  string, where CloudFormation has no answer (`app-converter.ts:574`,
  `SelectsNothing`); Fn::And and Fn::Not are implemented and not dispatched; the
  variables of an Fn::Sub are ignored (`:601`); AWS::NoValue as an argument shifts the
  others, and as a branch of Fn::If leaves an `undefined` in a list.
* Ref of a nested stack is `undefined`; AWS::StackId and AWS::StackName are the
  id of the node; a parameter set to the empty string counts as not set;
  `attributePropertyName` keeps the first segment of a dotted attribute.
* A construct that CDK does not synthesize (a policy without statements) has no
  template entry, and `resourceWithLogicalId` throws for it (`Refuse`).
* `asOutputValue` takes any eventual value for found, even one that ends in an
  error, and skips values that are falsy.
* A dynamic reference that is itself an element of a list is not resolved, since
  only the values of objects are parsed (`app-converter.ts:531`); one inside a
  longer string replaces the whole string.
* A QueuePolicy or TopicPolicy with an eventual or empty list is refused.
* Logical ids of resources whose names are lower-cased (buckets, access points,
  repositories) may meet there; ids in two nested stacks may be equal, and the
  keys of custom resources with them (`custom-resource-mapping.ts:48`).

## 4. The proofs

The theorems hold for every value of the constants. The assumptions are those
declared in the modules: there is at least one construct (`NAssumption`) or stack
(`MAssumption`), the id of what is no stack is not the id of a stack, graphs,
trees and assemblies have their types, the templates of `Evaluation` are ones that
CloudFormation accepts (`TemplatesWellFormed`), and `MappingAssumption` (section
2); nothing is assumed of `normalized` and
`processed` but the lengths of the lists named there.
Hypotheses beyond those are written in the theorems and named below. Neither
the proofs of the sort nor those of an app assume that the graph or the
dependency relation is acyclic.

**The sort.** The promise is not inductive: that dependencies of the next node
are in the result is known only through what the calls have visited.
`SortInv` adds: a visited node is in exactly one place, a call that has not
returned, the result, or ignored (`VisitedPlaced`); a call has visited all
dependencies that are not in its `todo` (`LoopVisits`); no node has two calls
(`FramesOnce`); and the calls form a dependency path (`FramesArePath`). When
`Push` emits `n`, its `todo` is empty, so each dependency `d` is visited; it has
an incoming edge, so it is not ignored; so it is in the result, or in a call
around this one, and then the path leads from `d` to `n`.
`SortInvariant` proves `[]SortInv`; `DependenciesPrecede`,
`SortIsTopological`, `NodesEmittedOnce`, `NothingLost` and
`SortImplementsOrder` follow from it, the last by mapping `Push` to `Emit` and
every other step to a stutter.

**The conversion of an app.** `NothingOverFailure` speaks of all that a stack
needs, at whatever distance, and says nothing about calls in progress. `AppInv`
adds that the dependencies of a call are exactly what it waits for, what its
loop has still to reach, and the stack of the call it has made (`FramesInv`),
and that whatever has a stack resource has a converter, does not throw, and
depends only on what has one (`ConvertedInv`). A return moves a stack from the
third place to the first; when the loop ends only the first is left. The set of
stacks with a stack resource is thus closed under dependencies, and `Needs` is
by definition inside every closed set: `FailuresPropagate`.
`LatestDependencies` proves the action property `DependsOnLatest` from the same
invariant.

How often is a stack converted? `OnceInv` adds to `AppInv` what one iteration
of the outer loop has done: whatever is in `done` is needed by the stack of the
iteration, `done` is closed under dependencies, and the calls in progress are in
it and not yet done (`IterationInv`). So a stack is converted at most once in
an iteration, and in an earlier iteration exactly if its stack needs it:
`generation[s]` is the number of those iterations (`CountInv`, a cardinality that
each conversion raises by one and the reset of `done` leaves alone).
`ConvertedOncePerDependent`: when `convert` returns, it is the number of stacks
that need `s`, itself included.

**The parse** (`TreeParseProofs`). `ParseInv` has one part for what has been
entered (`EntriesInv`: once, with the scope of the tree, after it, with a
resource that has an address), one for the calls (`FramesInv`: what a call has
still to reach is in its scope, listed by one call only and not entered) and one
that ties them together (`CompleteInv`: a child of what is entered is entered, is
in a call that has not returned, or is the second half of a nested stack whose
resource has an entry). When no call is left, `Return` has emptied the second
place, and the constructs entered are closed under children: since a tree is
numbered with parents first, there is no least node outside. That is
`ConstructsInOrder`, and with the addresses `UnmappedAreMistaken`: an entry of a
template has no node only if no construct has it, or if its construct is an X that
was taken for a nested stack and given the resource of X.NestedStack instead of its
own (`Mistaken`). Synthesized templates of trees without such an X are not refused.
`ResourcesInTheirStack` compares two definitions by recursion, the set of
ancestors and the innermost stack: the deepest of the prefixes is the innermost.
`ScopesAgreeWithAddresses` needs that no nested stack is directly in another and
none is mistaken (`Misread`, `ScopesInv`); `nested_in_nested` shows what happens
otherwise.

**The resources of a stack** (`MappingProofs`). `MappingInv` says that the ids
are those of the paths and have been checked before anything is created
(`IdsOfPaths`), and that what is created of each construct is its whole mapping
with the position of the main resource (`CreatedAsMapped`, `TypeOK`). The rest is
about the functions. A logical id is alphanumeric (`IdType`, through
`removeDupes`, the two removals, the concatenation and the cut), and each mapping
gives resources whose names are the id followed by different suffixes that are
empty or begin with `-` (`MappingNamed`, with a lemma for each mapper), or one
resource with the id in lower case, of a type for which there is nothing else. An
id and a suffix can be told apart again (`SuffixesApart`); so `NamesApart`, where
no two ids differ in case only, and `MainResourceFound`: exactly one resource of
a mapping has the logical id, in whatever order they are. `DefaultChangesNoId` is
that removing an element from a sequence into which it was inserted, anywhere,
gives what removing it gave before (`WithoutInserted`), and that `makeUniqueId`
removes `Default` first.

**The conversion of a stack** (`StackConversionProofs`). The edge pass and the
conversion walk the same expressions with different code: the first from a
resource into the outputs of nested stacks, adding edges; the second on demand,
through outputs inwards and parameters outwards, looking up what is registered.
The theorem that they agree is `OrderedReferencesResolve`: if the graph is
acyclic, no Fn::Sub names an output of a nested stack and only the Stack has the
id of the stack, no lookup of a scope or of a reference fails. `Inv` says: when the edge pass is done with an entry,
there is a set of expressions that contains the entry's own, is closed under
what the pass walks into, and whose targets are all edges of the entry
(`Edges`). What `convert` has registered is a prefix of the sorted nodes, which
is a topological order by the invariant of the sort (`Proved!SortInv`, used
through an `INSTANCE` of `GraphSortProofs`, whose theorems are not proved
again), so the targets of that closed set are registered when the entry's turn
comes (`Registered`). And every expression still to evaluate is in such a set
whose targets are registered; a parameter is evaluated in a stack that is
registered, whose own set is closed too (`Safe`). Closed sets take the place of
induction along chains of outputs and parameters. `ResourcesConverted` and
`TypeCorrect` need no acyclicity; the first says, for every template, that what is
registered at the end is everything but the resources whose construct has the id of
the stack (`stackId`): where there are any, they are lost
(`MCStackConversion_SameId.cfg`). `DependsOnIsHonoured` is for templates without
`"parallel"` mappings (resources of a mapping that do not wait for each other, as
of a QueuePolicy for several queues), for which the code does not promise it; it
adds that what a resource waits for is settled at its registration (`WaitsInv`). The
hypothesis `Synthesized` is on all of them: the templates are well formed.

**The order of a stack** (`StackConversionProofs`). CloudFormation orders each stack by
itself, a nested stack being one resource of its parent; `GraphBuilder` orders
everything at once, with edges that lead from a resource straight into nested
stacks. Is a graph acyclic when none of the stacks has a circle? The invariant
`Justified` says that an edge from `n` leads to a construct that is, or is
somewhere inside, something `n` needs in its own stack (`Needs`), also while the
edge pass has expressions left to walk. `NoCirclesNoCycles`: for a node `n`, the
nested stacks `n` is in, together with whatever is inside the needs of `n` and of
those nested stacks, each taken in its own stack, are closed under the edges. `n`
is not among them: it would have to be inside a need of itself or of a nested
stack it is in, and as a construct is in each stack at most once
(`ChainOncePerStack`), that would be a circle in that stack. So
`NothingIsMissing` leaves out four kinds of template and no others: with a circle in a
stack, with an Fn::Sub of an output, with VPCCidrBlocks that `_build` refuses
(`RefusedBlocks`), with a second construct that has the id of the stack. And
`RegisteredInOrder` proves the action property
`RegisteredAfterDependencies`, for which only circles are left out.

**The evaluation of expressions** (`EvaluationProofs`). Is the value of a
property the same in every order of the graph? The edges of a resource are for
what its Properties name, and for what the outputs of nested stacks name that
they name. The evaluation reads more: the parameter of a nested stack is an
expression in the parent stack, the argument of an eventual function is evaluated
when everything is registered, the branch of an Fn::If depends on a condition. So
an evaluation may find less registered than it will look up in the end, and what
it throws or leaves out would be wrong without an error. `OrderIsIrrelevant`
proves that it does not happen. There are four steps.

1. *Agreement.* An expression evaluates to the same result in two contexts that
   know the same of the addresses it looks up (`LookedUp`) and in which the
   expressions it leads to (`Links`) evaluate alike now and, for callbacks,
   eventually. There is a lemma for each function, up to `EvaluationsAgree`.
2. *The function exists.* `evaluation` is defined by recursion through
   `processIntrinsics`; by the first step, its value at an expression depends only
   on values at smaller `depth`, so there is such a function
   (`EvaluationIsDefined`), and `evaluate` is `processIntrinsics`
   (`EvaluateIsProcessIntrinsics`). The same for what `edges` and `Everything`
   collect (`CollectedIsDefined`).
3. *Covered.* An expression is covered when all it names is registered, at
   whatever distance the edges reach. The Properties of a resource are covered when
   its turn comes, because `Dependencies` are registered (`EvaluationInv`). An
   expression that is covered leads to covered ones (`LinksAreCovered`): an
   argument or an output, because the edge pass walks into it; a condition, because
   it names no resource; a parameter, because it was passed in the Properties of
   the nested stack, which is itself registered, since a resource in it is
   (`LookedUpIsCovered`, `PassedIsWalked`).
4. By induction on `depth` a covered expression, all of which is `Seen`, evaluates
   to what it would with everything registered (`CoveredEvaluation`). And once a
   resource is registered, its Properties stay what they were.

`RegisteredWithDependencies` and `OrderIsIrrelevant` share the invariant
`OrderInv`. That a result is a result (`EvaluationHasResult`) is part of it:
`TypeOK` says that what is evaluated has an outcome. The assumption is
`TemplatesWellFormed`: the templates are without circles, among expressions
(`depth` decreases) and among resources; conditions name no resource, as
CloudFormation demands; each nested stack has one resource, and what sets its
parameters is in the Properties of that resource (`Passes`). TLC evaluates it on
every template of the run.

**The assets** (`SynthesizerProofs`). `StoredWhenReady` needs that what an upload
depends on was registered earlier. The invariant: the memos know exactly what is
registered (`MemosKnow`), and every resource finds its dependencies before it in
the sequence (`Good`). `AssetsStoredWhenReady`, `AssetsCreatedOnce` and
`TypeCorrect` hold for any number of stacks, hashes and names:
objects and repositories are created once in the app, the resources of a bucket
once in each copy that has one. `OneStackOneBucket` draws the conclusion that there
is one bucket, where there is one stack; with two it is false
(`MCSynthesizer_TwoStacks.cfg`). The names of lifecycle policies and the locations
of assets are not in the theorems: they are false as one would state them
(`MCSynthesizer_TwoRepos.cfg`, `MCSynthesizer_Location.cfg`).

**The life of an app** (`AppLifecycleProofs`). The invariant says of each stage
of `initialize` what has been settled by then: which outputs have been merged,
whether there is an assembly and a converter, how often `createAssembly` has
run. `MergedOutputs` and `AnswersOverConversion` follow, for any number of
requests and of rounds of lookups, whichever await fails.

**Recursion.** The library's induction theorems have operator parameters and the
module of a proof may not have `RECURSIVE` operators. A recursive *function* on
numbers can be proved about: `LeastNat` (a set of numbers has a least element)
comes from the well-foundedness of the subsets of a finite set, a property of all
values then from the least one that lacks it (`Stepwise`), and that the function
exists at all from the least length for which it does not (`IteratedFunction`,
and `UpwardFunction` in `TreeParseProofs`). That is why `GraphSort` has no
recursion, why `TreeParse` numbers a tree in the order of creation, and why
`LogicalIds` goes along a sequence by its positions.

The same serves for expressions. A recursive function exists, and two of them
agree, where each value depends only on values of smaller `depth`; what a set
collects along `Links` or `Walked` is such a function too, and so is the loop of
`parseSub`. A `RECURSIVE` operator stays where only TLC goes: `meaning` in
`CloudFormation`, and the conversions of values in `Metadata` and
`DynamicReferences`.

**Only model-checked.** Liveness (`SortEnds`, both `ConversionEnds`,
`Answered`): the prover does not treat fairness.

`AgreesWithCloudFormation`, `ResolvesWhatHasAMeaning` and `OutputOfItsStack`
compare the evaluation with `meaning`, a `RECURSIVE` operator. They are also not
true of every template: they say that the values that AWS gives a resource are
the ones that its Pulumi resource has, name by name, which is the table
`returns` of `MCEvaluation` and no assumption about the code.

`ArgumentsConverted`, `ReferencesResolved` and `SecretsStaySecret` of
`MappedArguments` compare what two `RECURSIVE` operators compute on every tree of
values. Unlike the expressions of a template, those values are made in the course
of the conversion, so there is no set of them to give a depth to. The theorems of
`MappingProofs` hold whatever these operators do.

## 5. Not modelled, and why

* The tables: which arguments each of the mapped types takes
  (`aws-resource-mappings.ts`), the tokens of native types, `attributePropertyName`
  for each type. A model of them would be a copy.
* What AWS and the provider answer (zones, SSM parameters, secrets, the account):
  given, as constants. Evaluating a secret in several places is one lookup each.
* The engine: registration is modelled by its order, names and `dependsOn`.
  Deployment order follows from those and is not modelled. Equal names, which it
  refuses, are a property here.
* File input (`manifest.ts`, `zip.ts`), Docker build options, default
  providers, option inheritance, `validateEnv`: they copy and compare values.
* Values that are `null`, and tokens that CDK leaves in logical ids.
* A conversion that goes round between parameters and outputs exhausts the
  JavaScript stack; `StackConversion` does not make progress there. CloudFormation
  refuses such templates and `ConversionEnds` excludes them.
* A synthesizer asked for a bucket during a conversion (custom resources) and a
  second synthesizer after context lookups: `Synthesizer` allows
  `GetStagingBucket` once all stacks that are bound are synthesized, `AppLifecycle` counts the calls of
  `createAssembly`; the two are not composed.

## 6. Plan

Written, in this order of importance: the sort and its proofs; the conversion of
a stack over it; the conversion of an app and its proofs; the synthesizer; the
life of the app; the parse; the evaluation of expressions against CloudFormation;
names, values and references of a mapped resource; the proofs about the
conversion of a stack and its order, the synthesizer and the life of an app; the
proofs about the number of conversions of a stack, the parse, and the names of
the resources of a stack; the proof that the order of registration does not
matter to the values of expressions.

What would come next:

1. Several nested stacks in `Mapping`, for the clashes of names between them.
2. `AppLifecycle` composed with `Synthesizer`: a second `createAssembly` makes a
   second synthesizer with resources of the same names.
3. Two outputs of one id in `AppLifecycle`.
