-------------------------- MODULE AppLifecycleProofs --------------------------
(***************************************************************************)
(* Proofs about AppLifecycle: type correctness, OutputsMerged and          *)
(* AnsweredOverConversion, for any requests and any number of lookups.     *)
(***************************************************************************)
EXTENDS AppLifecycle, TLAPS

(***************************************************************************)
(* The inductive invariant.  Each createAssembly uses up a round: that     *)
(* bounds runs.  The step of initialize says what the promise of the       *)
(* converter, the assembly and outputs are, whatever was looked up or      *)
(* failed before; answers only follow the converter.                       *)
(***************************************************************************)
Budget ==
  /\ runs + missing <= MaxLookups + 1
  /\ step \in {"environment", "synth"} => runs + missing <= MaxLookups

ConverterFollows ==
  /\ converter = "pending" <=> step \notin {"done", "failed"}
  /\ converter = "resolved" <=> step = "done"

AssemblyFollows ==
  /\ step \in {"synthesized", "converted", "conversion failed"} => assembly = "ready"
  /\ step = "done" => assembly = "disposed"
  /\ step \in {"converted", "conversion failed", "done"} => missing = 0

OutputsFollow ==
  step \in {"synthesized", "converted", "conversion failed", "done"} => outputs = "createFunc"

AnswersFollow ==
  \A r \in DOMAIN answers : converter # "pending" /\ (answers[r] = "resolved" => converter = "resolved")

Inv ==
  /\ TypeOK /\ Budget /\ ConverterFollows /\ AssemblyFollows /\ OutputsFollow /\ AnswersFollow
  /\ OutputsMerged

USE DEF Outputs

(***************************************************************************)
(* Before the constructor returns nothing has been asked or converted.     *)
(***************************************************************************)
LEMMA InitInv == Init => Inv
BY MaxLookupsAssumption
   DEF Init, Inv, TypeOK, Budget, ConverterFollows, AssemblyFollows, OutputsFollow, AnswersFollow, OutputsMerged

(***************************************************************************)
(* What initialize does leaves asked, answers and appOutputs alone.        *)
(***************************************************************************)
LEMMA InitializeInv == Inv /\ Initialize => Inv'
<1> SUFFICES ASSUME Inv, Initialize PROVE Inv'
  OBVIOUS
<1> USE MaxLookupsAssumption DEF ProgramUnchanged
<1>1. TypeOK /\ Budget /\ OutputsMerged
  BY DEF Inv
<1>2. /\ missing \in 0..MaxLookups /\ runs \in 0..(MaxLookups + 1)
      /\ runs + missing <= MaxLookups + 1
      /\ step \in {"environment", "synth"} => runs + missing <= MaxLookups
  BY <1>1, Zenon DEF TypeOK, Budget
<1>3. missing \in Nat /\ runs \in Nat
  BY <1>2
<1>4. /\ missing' \in 0..MaxLookups /\ runs' \in 0..(MaxLookups + 1)
      /\ Budget'
  <2> USE DEF Budget
  <2>1. CASE CreateAssembly
    <3>1. step = "synth" /\ runs' = runs + 1 /\ missing' = missing
      BY <2>1 DEF CreateAssembly
    <3>2. step' \notin {"environment", "synth"}
      BY <2>1 DEF CreateAssembly
    <3> QED BY <1>2, <1>3, <3>1, <3>2
  <2>2. CASE LookUpContext
    <3>1. missing > 0 /\ missing' = missing - 1 /\ runs' = runs
      BY <2>2 DEF LookUpContext
    <3> QED BY <1>2, <1>3, <3>1
  <2>3. CASE Environment \/ LookupsDisabled \/ Convert \/ Dispose
    <3>1. missing' = missing /\ runs' = runs
      BY <2>3 DEF Environment, LookupsDisabled, Convert, Dispose
    <3>2. step' \in {"environment", "synth"} => step = "environment"
      BY <2>3 DEF Environment, LookupsDisabled, Convert, Dispose
    <3> QED BY <1>2, <1>3, <3>1, <3>2
  <2> QED BY <2>1, <2>2, <2>3 DEF Initialize
<1>5. TypeOK'
  <2> USE <1>1, <1>4 DEF TypeOK
  <2>1. CASE Environment BY <2>1 DEF Environment
  <2>2. CASE CreateAssembly BY <2>2 DEF CreateAssembly
  <2>3. CASE LookUpContext BY <2>3 DEF LookUpContext
  <2>4. CASE LookupsDisabled BY <2>4 DEF LookupsDisabled
  <2>5. CASE Convert BY <2>5 DEF Convert
  <2>6. CASE Dispose BY <2>6 DEF Dispose
  <2> QED BY <2>1, <2>2, <2>3, <2>4, <2>5, <2>6 DEF Initialize
<1>6. ConverterFollows' /\ AssemblyFollows' /\ OutputsFollow'
  <2> USE DEF Inv, TypeOK, ConverterFollows, AssemblyFollows, OutputsFollow
  <2>1. CASE Environment BY <2>1 DEF Environment
  <2>2. CASE CreateAssembly BY <2>2 DEF CreateAssembly
  <2>3. CASE LookUpContext BY <2>3 DEF LookUpContext
  <2>4. CASE LookupsDisabled BY <2>4 DEF LookupsDisabled
  <2>5. CASE Convert BY <2>5 DEF Convert
  <2>6. CASE Dispose BY <2>6 DEF Dispose
  <2> QED BY <2>1, <2>2, <2>3, <2>4, <2>5, <2>6 DEF Initialize
<1>7. AnswersFollow' /\ OutputsMerged'
  <2>1. DOMAIN answers = {} \/ step \in {"done", "failed"}
    BY DEF Inv, AnswersFollow, ConverterFollows
  <2>2. step \notin {"done", "failed"} /\ UNCHANGED <<answers, appOutputs>>
    BY DEF Initialize, Environment, CreateAssembly, LookUpContext, LookupsDisabled, Convert, Dispose
  <2> QED BY <1>1, <2>1, <2>2 DEF AnswersFollow, OutputsMerged
<1> QED BY <1>4, <1>5, <1>6, <1>7 DEF Inv

(***************************************************************************)
(* What the program does, asOutput and its answers, keeps the invariant.   *)
(***************************************************************************)
LEMMA ProgramInv ==
  Inv /\ (RegisterOutputs \/ \E r \in Request : AsOutput(r) \/ Answer(r)) => Inv'
<1> SUFFICES ASSUME Inv PROVE (RegisterOutputs \/ \E r \in Request : AsOutput(r) \/ Answer(r)) => Inv'
  OBVIOUS
<1> USE DEF Inv, TypeOK, Budget, ConverterFollows, AssemblyFollows, OutputsFollow
<1>1. CASE RegisterOutputs
  BY <1>1 DEF RegisterOutputs, AnswersFollow, OutputsMerged
<1>2. ASSUME NEW r \in Request, AsOutput(r) PROVE Inv'
  BY <1>2 DEF AsOutput, AnswersFollow, OutputsMerged
<1>3. ASSUME NEW r \in Request, Answer(r) PROVE Inv'
  <2>1. PICK a \in {converter, "rejected"} :
          answers' = [q \in DOMAIN answers \cup {r} |-> IF q = r THEN a ELSE answers[q]]
    BY <1>3 DEF Answer
  <2>2. AnswersFollow'
    BY <1>3, <2>1 DEF Answer, AnswersFollow
  <2>3. DOMAIN answers' = DOMAIN answers \cup {r} /\ r \in asked
    BY <1>3, <2>1 DEF Answer
  <2> QED BY <1>3, <2>2, <2>3 DEF Answer, OutputsMerged
<1> QED BY <1>1, <1>2, <1>3

(***************************************************************************)
(* Every step keeps the invariant.                                         *)
(***************************************************************************)
LEMMA NextInv == Inv /\ [Next]_vars => Inv'
<1> SUFFICES ASSUME Inv, [Next]_vars PROVE Inv'
  OBVIOUS
<1>1. CASE UNCHANGED vars
  BY <1>1 DEF vars, Inv, TypeOK, Budget, ConverterFollows, AssemblyFollows, OutputsFollow, AnswersFollow,
              OutputsMerged
<1>2. CASE Next
  BY <1>1, <1>2, InitializeInv, ProgramInv DEF Next, Initialize, Terminating
<1> QED BY <1>1, <1>2

(***************************************************************************)
(* The invariant holds throughout the life of an app.                      *)
(***************************************************************************)
LEMMA LifecycleInvariant == Spec => []Inv
BY InitInv, NextInv, PTL DEF Spec

(***************************************************************************)
(* Type correctness; createAssembly runs once more than there are rounds   *)
(* of lookups, at most.                                                    *)
(***************************************************************************)
THEOREM TypeCorrect == Spec => []TypeOK
<1>1. Inv => TypeOK BY DEF Inv
<1> QED BY <1>1, LifecycleInvariant, PTL

(***************************************************************************)
(* The outputs that are registered are those of createFunc and of the      *)
(* stacks, in whatever order the callbacks run and whatever fails.         *)
(***************************************************************************)
THEOREM MergedOutputs == Spec => []OutputsMerged
<1>1. Inv => OutputsMerged BY DEF Inv
<1> QED BY <1>1, LifecycleInvariant, PTL

(***************************************************************************)
(* A call of asOutput is resolved over a finished conversion only, for any *)
(* requests at any time.                                                   *)
(***************************************************************************)
THEOREM AnswersOverConversion == Spec => []AnsweredOverConversion
<1>1. Inv => AnsweredOverConversion
  BY DEF Inv, ConverterFollows, AssemblyFollows, AnswersFollow, AnsweredOverConversion
<1> QED BY <1>1, LifecycleInvariant, PTL
=============================================================================
