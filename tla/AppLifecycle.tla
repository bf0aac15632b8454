---------------------------- MODULE AppLifecycle ----------------------------
(***************************************************************************)
(* An App and its Stacks (src/stack.ts).  The constructor of the component *)
(* starts initialize, that runs up to its first await; the constructor     *)
(* then sets outputs to a promise and returns to the program, while        *)
(* initialize goes on when its awaits settle: toolkit.synth calls          *)
(* createAssembly (again, when context was looked up in between), then the *)
(* AppConverter converts the stacks and the assembly is disposed.  The     *)
(* program may call asOutput at any time once createFunc has created a     *)
(* stack, before, during and after the conversion.                         *)
(***************************************************************************)
EXTENDS Integers, FiniteSets

CONSTANTS
  Request,     \* the calls of asOutput the program makes
  MaxLookups,  \* how many rounds of context lookups a synth may need
  Lookups      \* the values of PULUMI_CDK_EXPERIMENTAL_LOOKUPS, in a dry run

ASSUME MaxLookupsAssumption == MaxLookups \in Nat
ASSUME LookupsAssumption == Lookups \subseteq BOOLEAN

VARIABLES
  lookups,     \* lookups are enabled; constant
  missing,     \* rounds of lookups the context still needs
  step,        \* where initialize is
  outputs,     \* what this.outputs holds
  assembly,    \* the assembly on disk
  runs,        \* how often createAssembly has called createFunc
  converter,   \* the promise this.converter
  asked,       \* the requests made
  answers,     \* the requests whose promise has settled
  appOutputs   \* the outputs the engine registers for the component

vars == <<lookups, missing, step, outputs, assembly, runs, converter, asked, answers,
          appOutputs>>

(***************************************************************************)
(* What outputs may hold: the promise of the outputs of the stacks merged  *)
(* with those of createFunc, or the outputs of createFunc alone.           *)
(***************************************************************************)
Outputs == {"promise", "createFunc"}

(***************************************************************************)
(* The constructor, up to its return.                                      *)
(***************************************************************************)
Init ==
  /\ lookups \in Lookups
  /\ missing \in 0..MaxLookups
  /\ step = "environment"
  /\ outputs = "promise"
  /\ assembly = "none"
  /\ runs = 0
  /\ converter = "pending"
  /\ asked = {}
  /\ answers = [r \in {} |-> "none"]
  /\ appOutputs = "pending"

-----------------------------------------------------------------------------
ProgramUnchanged == UNCHANGED <<asked, answers, appOutputs>>

(***************************************************************************)
(* initialize: account and region of the provider; either call may fail.   *)
(***************************************************************************)
Environment ==
  /\ step = "environment"
  /\ \/ step' = "synth" /\ UNCHANGED converter
     \/ step' = "failed" /\ converter' = "rejected"
  /\ UNCHANGED <<lookups, missing, outputs, assembly, runs>>
  /\ ProgramUnchanged

(***************************************************************************)
(* A fault: createFunc's result is not assigned.                           *)
(***************************************************************************)
CreateAssemblyDropsOutputs ==
  /\ step = "synth"
  /\ runs' = runs + 1
  /\ assembly' = "ready"
  /\ step' = "synthesized"
  /\ UNCHANGED <<lookups, missing, outputs, converter>>
  /\ ProgramUnchanged

(***************************************************************************)
(* createAssembly: a new synthesizer and its staging stack, then           *)
(* createFunc, whose result replaces outputs, then app.synth.  createFunc  *)
(* may throw, before outputs is assigned, and app.synth after.             *)
(***************************************************************************)
CreateAssembly ==
  /\ step = "synth"
  /\ runs' = runs + 1
  /\ \/ /\ outputs' = "createFunc"
        /\ assembly' = "ready"
        /\ step' = "synthesized"
        /\ UNCHANGED converter
     \/ /\ outputs' \in {outputs, "createFunc"}
        /\ step' = "failed"
        /\ converter' = "rejected"
        /\ UNCHANGED assembly
  /\ UNCHANGED <<lookups, missing>>
  /\ ProgramUnchanged

(***************************************************************************)
(* A fault: a round of lookups that finds nothing is not the last.         *)
(***************************************************************************)
LookUpContextForever ==
  /\ step = "synthesized"
  /\ missing > 0
  /\ lookups
  /\ runs <= MaxLookups + 1
  /\ step' = "synth"
  /\ UNCHANGED <<lookups, missing, outputs, assembly, runs, converter>>
  /\ ProgramUnchanged

(***************************************************************************)
(* What toolkit.synth does with an assembly that lacks context: it looks   *)
(* the context up and starts over, or fails where lookups are disabled.    *)
(***************************************************************************)
LookUpContext ==
  /\ step = "synthesized"
  /\ missing > 0
  /\ lookups
  /\ missing' = missing - 1
  /\ step' = "synth"
  /\ UNCHANGED <<lookups, outputs, assembly, runs, converter>>
  /\ ProgramUnchanged

LookupsDisabled ==
  /\ step = "synthesized"
  /\ missing > 0
  /\ ~ lookups
  /\ step' = "failed"
  /\ converter' = "rejected"
  /\ UNCHANGED <<lookups, missing, outputs, assembly, runs>>
  /\ ProgramUnchanged

(***************************************************************************)
(* new AppConverter(this) and convert(): synchronous; either may throw.    *)
(***************************************************************************)
Convert ==
  /\ step = "synthesized"
  /\ missing = 0
  /\ \/ step' = "converted"
     \/ step' = "conversion failed"
  /\ UNCHANGED <<lookups, missing, outputs, assembly, runs, converter>>
  /\ ProgramUnchanged

(***************************************************************************)
(* Faults: the promise settles and the assembly stays; the failure of a    *)
(* conversion is swallowed.                                                *)
(***************************************************************************)
DisposeForgotten ==
  /\ step = "converted"
  /\ step' = "done"
  /\ converter' = "resolved"
  /\ UNCHANGED <<lookups, missing, outputs, assembly, runs>>
  /\ ProgramUnchanged

DisposeSwallowsError ==
  /\ step \in {"converted", "conversion failed"}
  /\ assembly' = "disposed"
  /\ step' = "done"
  /\ converter' = IF step = "converted" THEN "resolved" ELSE converter
  /\ UNCHANGED <<lookups, missing, outputs, runs>>
  /\ ProgramUnchanged

(***************************************************************************)
(* finally: the assembly is disposed, then the promise settles.  A dispose *)
(* that throws rejects the promise over a conversion that succeeded.       *)
(***************************************************************************)
Dispose ==
  /\ step \in {"converted", "conversion failed"}
  /\ \/ /\ assembly' = "disposed"
        /\ step' = IF step = "converted" THEN "done" ELSE "failed"
        /\ converter' = IF step = "converted" THEN "resolved" ELSE "rejected"
     \/ /\ step' = "failed"
        /\ converter' = "rejected"
        /\ UNCHANGED assembly
  /\ UNCHANGED <<lookups, missing, outputs, runs>>
  /\ ProgramUnchanged

(***************************************************************************)
(* The promise behind the outputs of the component: when the converter is  *)
(* there, the outputs of the stacks are added to what this.outputs holds   *)
(* then; processIntrinsics may throw on one of them.                       *)
(***************************************************************************)
RegisterOutputs ==
  /\ appOutputs = "pending"
  /\ converter # "pending"
  /\ \/ appOutputs' = "rejected"
     \/ /\ converter = "resolved"
        /\ appOutputs' = IF outputs = "createFunc" THEN "both" ELSE "stacks"
  /\ UNCHANGED <<lookups, missing, step, outputs, assembly, runs, converter,
                 asked, answers>>

-----------------------------------------------------------------------------
(***************************************************************************)
(* The program.  asOutput: a promise that follows the converter, and is    *)
(* rejected too when asOutputValue does not find the value.                *)
(***************************************************************************)
AsOutput(r) ==
  /\ r \notin asked
  /\ runs > 0
  /\ asked' = asked \cup {r}
  /\ UNCHANGED <<lookups, missing, step, outputs, assembly, runs, converter,
                 answers, appOutputs>>

Answer(r) ==
  /\ r \in asked \ DOMAIN answers
  /\ converter # "pending"
  /\ \E a \in {converter, "rejected"} :
       answers' = [q \in DOMAIN answers \cup {r} |-> IF q = r THEN a ELSE answers[q]]
  /\ UNCHANGED <<lookups, missing, step, outputs, assembly, runs, converter,
                 asked, appOutputs>>

(***************************************************************************)
(* initialize has ended, all that waited for it has its answer, and the    *)
(* program asks for no more.                                               *)
(***************************************************************************)
Terminating ==
  /\ step \in {"done", "failed"}
  /\ appOutputs # "pending"
  /\ DOMAIN answers = asked
  /\ UNCHANGED vars

Next ==
  \/ Environment \/ CreateAssembly \/ LookUpContext \/ LookupsDisabled \/ Convert \/ Dispose
  \/ RegisterOutputs
  \/ \E r \in Request : AsOutput(r) \/ Answer(r)
  \/ Terminating

Initialize ==
  Environment \/ CreateAssembly \/ LookUpContext \/ LookupsDisabled \/ Convert \/ Dispose

Spec == Init /\ [][Next]_vars

(***************************************************************************)
(* The calls of the provider and of the toolkit that initialize awaits     *)
(* settle, and the runtime runs the callbacks of settled promises.  The    *)
(* program need not do anything.                                           *)
(***************************************************************************)
FairSpec ==
  /\ Spec
  /\ WF_vars(Initialize)
  /\ WF_vars(RegisterOutputs)
  /\ \A r \in Request : WF_vars(Answer(r))

-----------------------------------------------------------------------------
TypeOK ==
  /\ lookups \in Lookups
  /\ missing \in 0..MaxLookups
  /\ step \in {"environment", "synth", "synthesized", "converted", "conversion failed", "done",
               "failed"}
  /\ outputs \in Outputs
  /\ assembly \in {"none", "ready", "disposed"}
  /\ runs \in 0..(MaxLookups + 1)
  /\ converter \in {"pending", "resolved", "rejected"}
  /\ asked \subseteq Request
  /\ DOMAIN answers \subseteq asked
  /\ appOutputs \in {"pending", "both", "stacks", "rejected"}

(***************************************************************************)
(* The outputs the component registers are those of createFunc and those   *)
(* of the stacks together: the merge reads this.outputs late, when         *)
(* createAssembly has already replaced what the constructor put there.     *)
(***************************************************************************)
OutputsMerged == appOutputs \in {"pending", "both", "rejected"}

(***************************************************************************)
(* What asOutput promises is only ever settled over a finished conversion: *)
(* resolved when all stacks were converted from the assembly of the last   *)
(* synth, with the context complete, and the assembly was disposed of      *)
(* after that.                                                             *)
(***************************************************************************)
AnsweredOverConversion ==
  /\ DOMAIN answers # {} => step \in {"done", "failed"}
  /\ \A r \in DOMAIN answers : answers[r] = "resolved" => step = "done"
  /\ converter = "resolved" => missing = 0 /\ assembly = "disposed"
  /\ step \in {"converted", "conversion failed"} => assembly = "ready"

(***************************************************************************)
(* Every call of asOutput is answered, and the component gets its outputs  *)
(* or an error, whatever fails.                                            *)
(***************************************************************************)
Answered ==
  /\ \A r \in Request : r \in asked ~> r \in DOMAIN answers
  /\ <>(appOutputs # "pending")

=============================================================================
