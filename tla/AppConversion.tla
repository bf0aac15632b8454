---------------------------- MODULE AppConversion ----------------------------
(***************************************************************************)
(* AppConverter.convert (src/converters/app-converter.ts): a StackConverter*)
(* for each stack of the assembly, then for each stack in manifest order a *)
(* recursive conversion, dependencies first.  Stacks are numbered in       *)
(* manifest order; dependencies are ids of artifacts, that may be no stack *)
(* or a stack that has no converter.  One conversion of a stack            *)
(* (StackConverter.convert, see StackConversion) is a step here; it        *)
(* registers a new stack resource, the generation-th of that stack.        *)
(***************************************************************************)
EXTENDS Integers, Sequences, FiniteSets

CONSTANTS
  M,          \* the number of stacks in the manifest
  Other,      \* the id of an artifact that is no stack
  Assemblies  \* the assemblies an app may have

ASSUME MAssumption == M \in Nat \ {0} /\ Other \notin 1..M

Stack == 1..M

(***************************************************************************)
(* dependencies : the artifact ids each stack depends on                   *)
(* staging      : the stacks named like a staging stack of the host, not   *)
(*                converted                                                *)
(* broken       : the stacks whose conversion throws                       *)
(***************************************************************************)
AssemblyType == [dependencies : [Stack -> SUBSET (Stack \cup {Other})],
                 staging : SUBSET Stack, broken : SUBSET Stack]

ASSUME AssembliesAssumption == Assemblies \subseteq AssemblyType

VARIABLES
  assembly,   \* what manifestReader has read; constant
  stacks,     \* the stacks that have a StackConverter
  next,       \* the manifests the second loop has started
  done,       \* the done of the current iteration
  frames,     \* the calls of convertStackManifest that have not returned
  generation, \* how many stack resources were registered for each stack
  conversions,\* every conversion: the stack, and its dependsOn
  error       \* what was thrown

vars == <<assembly, stacks, next, done, frames, generation, conversions, error>>

Init ==
  /\ assembly \in Assemblies
  /\ stacks = {}
  /\ next = 0
  /\ done = {}
  /\ frames = <<>>
  /\ generation = [s \in Stack |-> 0]
  /\ conversions = <<>>
  /\ error = "none"

-----------------------------------------------------------------------------
(***************************************************************************)
(* The first loop: a converter for every stack but the staging stacks.     *)
(***************************************************************************)
Running == error = "none"

CreateConverters ==
  /\ Running
  /\ next = 0
  /\ stacks = {}
  /\ stacks' = Stack \ assembly.staging
  /\ stacks' # {}
  /\ UNCHANGED <<assembly, next, done, frames, generation, conversions, error>>

(***************************************************************************)
(* A call of convertStackManifest: todo is what is left of                 *)
(* artifact.dependencies, waits the converters it has found.               *)
(***************************************************************************)
FrameType == [stack : Stack, todo : SUBSET (Stack \cup {Other}), waits : SUBSET Stack]

Frame(s) == [stack |-> s, todo |-> assembly.dependencies[s], waits |-> {}]

Calling(f, d) == [f EXCEPT !.todo = @ \ {d}]

Waiting(f, d) == [f EXCEPT !.waits = @ \cup {d}]

(***************************************************************************)
(* The second loop: each of its iterations starts with an empty done.      *)
(***************************************************************************)
Unconverted == {s \in stacks : s > next}

NextManifest ==
  /\ Running
  /\ frames = <<>>
  /\ \E s \in Unconverted :
       /\ \A o \in Unconverted : s <= o
       /\ next' = s
       /\ frames' = <<Frame(s)>>
  /\ done' = {}
  /\ UNCHANGED <<assembly, stacks, generation, conversions, error>>

Top == frames[Len(frames)]

(***************************************************************************)
(* One iteration of the loop over the dependencies.  A dependency in done  *)
(* is returned at once; one without a converter is refused.                *)
(***************************************************************************)
UseDoneForever(d) ==   \* a fault: the loop does not advance
  /\ d \in stacks \cap done
  /\ UNCHANGED <<frames, error>>

UseDone(d) ==
  /\ d \in stacks \cap done
  /\ frames' = [frames EXCEPT ![Len(frames)] = Waiting(Calling(@, d), d)]
  /\ UNCHANGED error

ConvertDependency(d) ==
  /\ d \in stacks \ done
  /\ frames' = Append([frames EXCEPT ![Len(frames)] = Calling(@, d)], Frame(d))
  /\ UNCHANGED error

SkipUnknownDependency(d) ==   \* a fault: it is skipped, not refused
  /\ d \notin stacks
  /\ frames' = [frames EXCEPT ![Len(frames)] = Calling(@, d)]
  /\ UNCHANGED error

UnknownDependency(d) ==
  /\ d \notin stacks
  /\ error' = "unknown artifact"
  /\ UNCHANGED frames

VisitDependency ==
  /\ Running
  /\ frames # <<>>
  /\ \E d \in Top.todo : UseDone(d) \/ ConvertDependency(d) \/ UnknownDependency(d)
  /\ UNCHANGED <<assembly, stacks, next, done, generation, conversions>>

(***************************************************************************)
(* stackConverter.convert(dependencies), done, and the return: the caller, *)
(* if there is one, adds the converter to its own dependencies.  The stack *)
(* resource depends on the stack resource that each of the dependencies    *)
(* has now.                                                                *)
(***************************************************************************)
stackDependsOn == {<<d, generation[d]>> : d \in Top.waits}

ReturnNothing(callers, s) == callers   \* a fault: the caller does not wait

Return(callers, s) ==
  IF callers = <<>> THEN <<>>
  ELSE [callers EXCEPT ![Len(callers)] = Waiting(@, s)]

ConvertStackNotDone ==   \* a fault: done is not set
  /\ Running
  /\ frames # <<>>
  /\ Top.todo = {}
  /\ Top.stack \notin assembly.broken
  /\ generation' = [generation EXCEPT ![Top.stack] = @ + 1]
  /\ conversions' = Append(conversions, [stack |-> Top.stack, dependsOn |-> stackDependsOn])
  /\ frames' = Return(SubSeq(frames, 1, Len(frames) - 1), Top.stack)
  /\ UNCHANGED <<assembly, stacks, next, done, error>>

ConvertStack ==
  /\ Running
  /\ frames # <<>>
  /\ Top.todo = {}
  /\ Top.stack \notin assembly.broken
  /\ generation' = [generation EXCEPT ![Top.stack] = @ + 1]
  /\ conversions' = Append(conversions, [stack |-> Top.stack, dependsOn |-> stackDependsOn])
  /\ done' = done \cup {Top.stack}
  /\ frames' = Return(SubSeq(frames, 1, Len(frames) - 1), Top.stack)
  /\ UNCHANGED <<assembly, stacks, next, error>>

ConvertFails ==
  /\ Running
  /\ frames # <<>>
  /\ Top.todo = {}
  /\ Top.stack \in assembly.broken
  /\ error' = "conversion failed"
  /\ UNCHANGED <<assembly, stacks, next, done, frames, generation, conversions>>

Finished == stacks = Stack \ assembly.staging /\ frames = <<>> /\ Unconverted = {}

Terminating == (Finished \/ error # "none") /\ UNCHANGED vars

Next ==
  \/ CreateConverters \/ NextManifest \/ VisitDependency \/ ConvertStack \/ ConvertFails
  \/ Terminating

Spec == Init /\ [][Next]_vars

(***************************************************************************)
(* convert is synchronous: it runs until it returns or throws.             *)
(***************************************************************************)
FairSpec == Spec /\ WF_vars(Next)

-----------------------------------------------------------------------------
(***************************************************************************)
(* The stacks that s depends on, directly or not, s included: what every   *)
(* set that holds s and the dependencies of its members holds.             *)
(***************************************************************************)
Closed(C) == \A s \in C : assembly.dependencies[s] \cap Stack \subseteq C

Needs(s) == {n \in Stack : \A C \in SUBSET Stack : s \in C /\ Closed(C) => n \in C}

TypeOK ==
  /\ assembly \in AssemblyType
  /\ stacks \subseteq Stack
  /\ next \in 0..M
  /\ done \subseteq stacks
  /\ frames \in Seq(FrameType)
  /\ generation \in [Stack -> Nat]
  /\ conversions \in Seq([stack : Stack, dependsOn : SUBSET (Stack \X Nat)])
  /\ error \in {"none", "unknown artifact", "conversion failed"}

(***************************************************************************)
(* A stack resource depends on the latest stack resource of every stack    *)
(* its own depends on, although each of them may have several: convert     *)
(* reads stackResource when the dependencies are there, in whatever        *)
(* iteration and at whatever depth they were converted.                    *)
(***************************************************************************)
DependsOnLatest ==
  [][conversions' # conversions =>
       LET c == conversions'[Len(conversions')]
       IN  c.dependsOn = {<<d, generation[d]>> : d \in assembly.dependencies[c.stack]}
           /\ \A p \in c.dependsOn : p[2] > 0]_vars

(***************************************************************************)
(* In one iteration a stack is converted once, though several stacks need  *)
(* it (done); over all iterations, once for each stack that needs it.      *)
(***************************************************************************)
OncePerDependent ==
  Finished /\ Running =>
    \A s \in stacks : generation[s] = Cardinality({t \in stacks : s \in Needs(t)})

(***************************************************************************)
(* A failure goes through all the calls: no stack that needs a broken      *)
(* stack or an unknown artifact, directly or not, is ever converted.       *)
(***************************************************************************)
NothingOverFailure ==
  \A i \in 1..Len(conversions) :
    \A n \in Needs(conversions[i].stack) :
      n \in stacks \ assembly.broken /\ assembly.dependencies[n] \subseteq stacks

(***************************************************************************)
(* The inductive invariant behind both: what a call of                     *)
(* convertStackManifest depends on is what it waits for, what its loop     *)
(* still has to reach, and the stack that the call it has made is for;     *)
(* and whatever was waited for, is done or was converted has been          *)
(* converted over all of its own dependencies.                             *)
(***************************************************************************)
Called(i) == IF i < Len(frames) THEN {frames[i + 1].stack} ELSE {}

FrameInv(i) ==
  /\ frames[i].stack \in stacks
  /\ frames[i].waits \subseteq stacks
  /\ \A d \in frames[i].waits : generation[d] > 0
  /\ assembly.dependencies[frames[i].stack] = frames[i].waits \cup frames[i].todo \cup Called(i)

FramesInv == \A i \in 1..Len(frames) : FrameInv(i)

ConvertedInv ==
  /\ \A s \in done : generation[s] > 0
  /\ \A i \in 1..Len(conversions) : generation[conversions[i].stack] > 0
  /\ \A s \in Stack : generation[s] > 0 =>
       /\ s \in stacks \ assembly.broken
       /\ assembly.dependencies[s] \subseteq stacks
       /\ \A d \in assembly.dependencies[s] : generation[d] > 0

AppInv == TypeOK /\ FramesInv /\ ConvertedInv

(***************************************************************************)
(* And behind OncePerDependent: done is closed under dependencies and      *)
(* holds only what the manifest of this iteration needs; the calls, of     *)
(* which the first is for that manifest, wait for what is done and are for *)
(* what is not; and a stack was converted in the iterations that needed    *)
(* it, this one included once the stack is done.                           *)
(***************************************************************************)
IterationInv ==
  /\ next = 0 => done = {} /\ frames = <<>>
  /\ next # 0 => next \in stacks /\ (frames = <<>> => next \in done)
  /\ frames # <<>> => frames[1].stack = next
  /\ \A s \in done : s \in Needs(next) /\ assembly.dependencies[s] \subseteq done
  /\ \A i \in 1..Len(frames) :
       frames[i].stack \in Needs(next) \ done /\ frames[i].waits \subseteq done

Iterations(s) ==
  {t \in stacks : t < next /\ s \in Needs(t)} \cup {t \in {next} : s \in done}

CountInv == \A s \in Stack : generation[s] = Cardinality(Iterations(s))

OnceInv == AppInv /\ IterationInv /\ CountInv

(***************************************************************************)
(* An app of several stacks, whatever their dependencies, is converted:    *)
(* convert returns, with every stack done, unless something is broken or   *)
(* depends on an artifact without a converter.                             *)
(***************************************************************************)
Convertible ==
  assembly.broken \subseteq assembly.staging
    /\ \A s \in Stack \ assembly.staging :
         assembly.dependencies[s] \subseteq Stack \ assembly.staging

ConversionEnds ==
  /\ <>(Finished \/ error # "none")
  /\ Convertible => <>(Finished /\ Running /\ \A s \in stacks : generation[s] > 0)

(***************************************************************************)
(* A stack is converted once: what an application of several stacks needs, *)
(* because a second stack resource, and a second resource for everything   *)
(* in the stack, has the name of the first.                                *)
(***************************************************************************)
ConvertedOnce == \A s \in Stack : generation[s] <= 1
=============================================================================
