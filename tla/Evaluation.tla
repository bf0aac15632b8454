------------------------------ MODULE Evaluation ------------------------------
(***************************************************************************)
(* The evaluation of expressions in the course of StackConverter.convert   *)
(* (src/converters/app-converter.ts): the parameters first, then the       *)
(* resources one by one, each evaluating its Properties with what is       *)
(* registered by then; after that asOutput answers the program.  The graph *)
(* (GraphSort, StackConversion) leaves open in which of the possible       *)
(* orders: here any of them is taken.                                      *)
(***************************************************************************)
EXTENDS Intrinsics

CONSTANTS
  Templates,   \* the templates of a stack and its nested stacks
  asks         \* of a template: the [stack, expr] the program calls asOutput with, expr as the root resolves it

(***************************************************************************)
(* What an expression, <<stack, expression>>, leads to: its holes, if it is*)
(* an Fn::Sub; what it evaluates of its own; the addresses it looks up; the*)
(* attributes it asks for.                                                 *)
(***************************************************************************)
Holes(e) ==
  LET parts == parseSub(Written(e.args[1].args))
  IN  {parts[i].ref : i \in DOMAIN parts} \ {NoReference}

computed(e) == e.fn = "Ref" /\ e.args[1].fn \notin {"string", "output"}

Arguments(e) ==
  CASE e.fn = "Ref"        -> IF computed(e) THEN {e.args[1]} ELSE {}
    [] e.fn = "Fn::GetAtt" -> {}
    [] e.fn = "Fn::Sub"    -> {e.args[i] : i \in DOMAIN e.args \ {1}}
    [] OTHER               -> {e.args[i] : i \in DOMAIN e.args}

References(t, x) ==
  LET e == x[2]
  IN  CASE computed(e)         -> {a \in DOMAIN t.parameters \cup DOMAIN t.resources : a[1] = x[1]}
        [] e.fn = "Ref" /\ e.args[1].fn = "string" -> {<<x[1], e.args[1].arg>>}
        [] e.fn = "Fn::Sub"    -> {<<x[1], r.id[1]>> : r \in {h \in Holes(e) : h.attr = <<>>}}
        [] OTHER               -> {}

cidrBlockOf(t, a, attr) == IF attr = "Ipv6CidrBlocks" /\ a \in DOMAIN t.cidrBlocks THEN t.cidrBlocks[a] ELSE a

Attributes(t, x) ==
  LET e == x[2]
  IN  CASE e.fn = "Fn::GetAtt" -> {<<cidrBlockOf(t, <<x[1], e.args[1].arg>>, e.args[2].arg), e.args[2].arg>>}
        [] e.fn = "Fn::Sub"    -> {<< <<x[1], r.id[1]>>, r.attr[1]>> : r \in {h \in Holes(e) : h.attr # <<>>}}
        [] OTHER               -> {}

LookedUp(t, x) == References(t, x) \cup {p[1] : p \in Attributes(t, x)}

(***************************************************************************)
(* All that the evaluation of x may evaluate: parameters in the parent     *)
(* stack, outputs in the nested stack, conditions.                         *)
(***************************************************************************)
OutputsOf(t, a, attr) ==
  LET stacks == {t.resources[b].nested : b \in {n \in {a} \cap DOMAIN t.resources : t.resources[n].kind = "nested"}}
  IN  {<<out[1], t.outputs[out]>> : out \in DOMAIN t.outputs \cap {<<stack, attr>> : stack \in stacks}}

Tested(e) ==
  CASE e.fn = "Fn::If" -> {e.args[1].arg}
    [] e.fn = "Fn::Or" -> {e.args[i].arg : i \in {j \in DOMAIN e.args : e.args[j].fn = "Condition"}}
    [] OTHER           -> {}

SetParameters(t) == {a \in DOMAIN t.parameters : isSet(t.parameters[a])}

Links(t, x) ==
  {<<x[1], e>> : e \in Arguments(x[2])}
  \cup {<<t.parentOf[a[1]], t.parameters[a].set>> : a \in References(t, x) \cap SetParameters(t)}
  \cup {<<x[1], t.conditions[k]>> : k \in DOMAIN t.conditions \cap {<<x[1], n>> : n \in Tested(x[2])}}
  \cup UNION {OutputsOf(t, p[1], p[2]) : p \in Attributes(t, x)}

(***************************************************************************)
(* own[x] and what the next of x collect.                                  *)
(***************************************************************************)
Collected(t, own, next) ==
  LET all[x \in DOMAIN t.depth] == own[x] \cup UNION {all[y] : y \in next[x]} IN all

Everything(t) == Collected(t, [x \in DOMAIN t.depth |-> {x}], [x \in DOMAIN t.depth |-> Links(t, x)])

-----------------------------------------------------------------------------
(***************************************************************************)
(* The edges of the graph (addEdgesForCfnResource): the resources that the *)
(* Properties name, also in the outputs of nested stacks they name, but    *)
(* not through parameters and conditions; and the nested stack that a      *)
(* resource is in.  A Ref that is not to a string is ignored.              *)
(***************************************************************************)
Named(t, x) ==
  LET e == x[2]
  IN  DOMAIN t.resources \cap
        (CASE e.fn = "Ref"        -> IF e.args[1].fn = "string" THEN {<<x[1], e.args[1].arg>>} ELSE {}
           [] e.fn = "Fn::GetAtt" -> {cidrBlockOf(t, <<x[1], e.args[1].arg>>, e.args[2].arg)}
           [] e.fn = "Fn::Sub"    -> {<<x[1], r.id[1]>> : r \in Holes(e)}
           [] OTHER               -> {})

Walked(t, x) ==
  LET e == x[2]
  IN  CASE e.fn = "Ref"        -> {}
        [] e.fn = "Fn::GetAtt" -> OutputsOf(t, <<x[1], e.args[1].arg>>, e.args[2].arg)
        [] OTHER               -> {<<x[1], y>> : y \in Arguments(e)}

edges(t) == Collected(t, [x \in DOMAIN t.depth |-> Named(t, x)], [x \in DOMAIN t.depth |-> Walked(t, x)])

PropsOf(t, a) == <<a[1], t.resources[a].props>>

NestedStackOf(t, stack) == {a \in DOMAIN t.resources : t.resources[a].nested = stack}

IgnoringScope(t, a) == edges(t)[PropsOf(t, a)] \ {a}   \* a fault: no edge to the scope

Dependencies(t, a) == (NestedStackOf(t, a[1]) \cup edges(t)[PropsOf(t, a)]) \ {a}

(***************************************************************************)
(* The templates are ones that CloudFormation accepts: without circles, of *)
(* parameters, conditions and outputs (depth) and of resources; conditions *)
(* name no resources.  There is one resource for a nested stack, and what  *)
(* it passes as Parameters is what its parameters are set to.              *)
(***************************************************************************)
Passes(props, id, e) ==
  \E i \in DOMAIN props.args :
    /\ props.fn = "object" /\ props.args[i].fn = "entry" /\ props.args[i].arg = "Parameters"
    /\ \E j \in DOMAIN props.args[i].args[1].args :
         LET parameters == props.args[i].args[1]
         IN  /\ parameters.fn = "object" /\ parameters.args[j].fn = "entry"
             /\ parameters.args[j].arg = id /\ parameters.args[j].args[1] = e

IsExpression(e) ==
  /\ e.args \in Seq(Range(e.args))
  /\ e.fn \in {"entry", "Fn::Base64", "Fn::GetAZs"} => e.args # <<>>

WithoutCircles(t) ==
  /\ \A x \in DOMAIN t.depth : /\ x = <<x[1], x[2]>> /\ IsExpression(x[2]) /\ t.depth[x] \in Nat
                              /\ \A y \in Links(t, x) \cup Walked(t, x) : y \in DOMAIN t.depth /\ t.depth[y] < t.depth[x]
  /\ \A a \in DOMAIN t.resources : /\ PropsOf(t, a) \in DOMAIN t.depth
                                  /\ a \notin edges(t)[PropsOf(t, a)]
                                  /\ t.resources[a].nested # a[1]

ConditionsNameNoResource(t) ==
  \A k \in DOMAIN t.conditions :
    <<k[1], t.conditions[k]>> \in DOMAIN t.depth => edges(t)[<<k[1], t.conditions[k]>>] = {}

NestedStacks(t) ==
  /\ \A a \in DOMAIN t.resources : t.resources[a].kind = "nested" <=> t.resources[a].nested # ""
  /\ \A a, b \in DOMAIN t.resources :
       t.resources[a].nested = t.resources[b].nested => a = b \/ t.resources[a].nested = ""
  /\ \A a \in SetParameters(t) :
       \E n \in NestedStackOf(t, a[1]) :
         n[1] = t.parentOf[a[1]] /\ Passes(t.resources[n].props, a[2], t.parameters[a].set)
  /\ \A a \in DOMAIN t.cidrBlocks : t.cidrBlocks[a] \in NestedStackOf(t, "")

Result(r) == r = [ok |-> r.ok, later |-> r.later, value |-> r.value] /\ {r.ok, r.later} \subseteq BOOLEAN

ResourcesTyped(t) ==
  \A a \in DOMAIN t.resources :
    LET r == t.resources[a]
    IN  /\ Result(r.id)
        /\ \A name \in DOMAIN r.properties : Result(r.properties[name])
        /\ r.attributes # None => \A name \in DOMAIN r.attributes.of : Result(r.attributes.of[name])

WellFormed(t) == WithoutCircles(t) /\ ConditionsNameNoResource(t) /\ NestedStacks(t) /\ ResourcesTyped(t)

ASSUME TemplatesWellFormed == \A t \in Templates : WellFormed(t)

-----------------------------------------------------------------------------
VARIABLES
  template,     \* constant
  registered,   \* StackConverter.resources
  props,        \* what the Properties of each resource were evaluated to
  asked,        \* the ask that asOutputValue answered and the answer
  step          \* "parameters", "resources", "asked", "thrown"

vars == <<template, registered, props, asked, step>>

Init ==
  /\ template \in Templates
  /\ registered = {}
  /\ props = <<>>
  /\ asked = <<>>
  /\ step = "parameters"

Context == ContextOf(template, registered)

Added(f, a, v) == [b \in DOMAIN f \cup {a} |-> IF b = a THEN v ELSE f[b]]

-----------------------------------------------------------------------------
MapParameters ==
  /\ step = "parameters"
  /\ step' = IF \A a \in DOMAIN template.parameters : supportedParameter(template.parameters[a])
             THEN "resources" ELSE "thrown"
  /\ UNCHANGED <<template, registered, props, asked>>

(***************************************************************************)
(* A resource in the loop of convert; a nested stack evaluates nothing: the*)
(* parameters in its Properties are evaluated where they are used.         *)
(***************************************************************************)
RegisterNestedStack(a) ==
  /\ template.resources[a].kind = "nested"
  /\ registered' = registered \cup {a}
  /\ UNCHANGED <<template, props, asked, step>>

RegisterAnyway(a) ==   \* a fault: a resource without properties is registered
  /\ template.resources[a].kind # "nested"
  /\ props' = Added(props, a, processIntrinsics(Context, a[1], template.resources[a].props))
  /\ registered' = registered \cup {a}
  /\ UNCHANGED <<template, asked, step>>

RegisterResource(a) ==
  LET r == processIntrinsics(Context, a[1], template.resources[a].props)
  IN  /\ template.resources[a].kind # "nested"
      /\ props' = Added(props, a, r)
      /\ IF Thrown(r) THEN step' = "thrown" /\ UNCHANGED registered
                      ELSE registered' = registered \cup {a} /\ UNCHANGED step
      /\ UNCHANGED <<template, asked>>

Register ==
  /\ step = "resources"
  /\ \E a \in DOMAIN template.resources \ registered :
       /\ Dependencies(template, a) \subseteq registered
       /\ RegisterNestedStack(a) \/ RegisterResource(a)

(***************************************************************************)
(* Stack.asOutput waits for the conversion.                                *)
(***************************************************************************)
AsOutput ==
  /\ step = "resources" /\ registered = DOMAIN template.resources
  /\ \E ask \in asks[template.name] :
       asked' = [ask |-> ask, answer |-> asOutputValue(Context, ask.expr)]
  /\ step' = "asked"
  /\ UNCHANGED <<template, registered, props>>

Next == MapParameters \/ Register \/ AsOutput

Spec == Init /\ [][Next]_vars

-----------------------------------------------------------------------------
(***************************************************************************)
(* What is registered is a nested stack, or has properties; the conversion *)
(* ends at the first error that is not eventual.                           *)
(***************************************************************************)
TypeOK ==
  /\ step \in {"parameters", "resources", "asked", "thrown"}
  /\ \A a \in DOMAIN props : props[a].ok \in BOOLEAN /\ props[a].later \in BOOLEAN
  /\ registered = {a \in DOMAIN props : ~Thrown(props[a])}
                     \cup {a \in registered : template.resources[a].kind = "nested"}
  /\ \A a \in DOMAIN props : Thrown(props[a]) => step = "thrown"

(***************************************************************************)
(* With it, what makes the order irrelevant: what a registered resource    *)
(* depends on is registered.                                               *)
(***************************************************************************)
EvaluationInv ==
  /\ TypeOK
  /\ registered \cup DOMAIN props \subseteq DOMAIN template.resources
  /\ \A a \in registered : Dependencies(template, a) \subseteq registered

(***************************************************************************)
(* The graph does not see which resource a computed Ref refers to, nor what*)
(* an output of a nested stack that an Fn::Sub names needs.                *)
(***************************************************************************)
Seen(t, x) ==
  /\ ~computed(x[2])
  /\ x[2].fn = "Fn::Sub" => \A p \in Attributes(t, x) : OutputsOf(t, p[1], p[2]) = {}

AllSeen(t, a) == \A x \in Everything(t)[PropsOf(t, a)] : Seen(t, x)

(***************************************************************************)
(* No order of the graph matters: the Properties evaluate to what they     *)
(* would with all resources registered, though the graph has no edges for  *)
(* what a resource needs through the parameters and the conditions of its  *)
(* stack.                                                                  *)
(***************************************************************************)
OrderDoesNotMatter ==
  \A a \in DOMAIN props :
    AllSeen(template, a) =>
      props[a] = processIntrinsics(Eventually(Context), a[1], template.resources[a].props)
=============================================================================
