---------------------------- MODULE CloudFormation ----------------------------
(***************************************************************************)
(* What an expression of a template means, as CloudFormation defines it:   *)
(* the reference that src/converters/intrinsics.ts and                     *)
(* app-converter.ts are held against.  There is no order here: every       *)
(* resource has its values.  resources[a].returns holds them by name,      *)
(* "Ref" for a Ref and an attribute for an Fn::GetAtt.  (CloudFormation    *)
(* also refuses a template for what it never evaluates, such as a Ref to   *)
(* nothing in the other branch of an Fn::If; that is left out.)            *)
(***************************************************************************)
EXTENDS Evaluation

Means(v) == [ok |-> TRUE, value |-> v]
Nothing  == [ok |-> FALSE, value |-> Undefined]   \* AWS or pulumi-cdk has no answer

(***************************************************************************)
(* A function F of defined values.                                         *)
(***************************************************************************)
Of(ms, F(_)) ==
  IF \A i \in DOMAIN ms : ms[i].ok THEN F([i \in DOMAIN ms |-> ms[i].value]) ELSE Nothing

HoleExpr(p) == IF p.args = <<>> THEN Ref(p.arg) ELSE Expr("Fn::GetAtt", "", <<Literal(p.arg), p.args[1]>>)

Variables(params) == IF Len(params) = 2 THEN params[2].args ELSE <<>>

ParameterOf(t, p) ==
  CASE p.type = "AWS::SSM::Parameter::Name"          -> TextOf(p.default)
    [] p.type = "AWS::SSM::Parameter::Value<String>" -> t.external.ssm[p.default]
    [] OTHER                                         -> List(<<t.external.ssm[p.default]>>)

RECURSIVE meaning(_, _, _)

MeaningOfName(t, stack, name) ==
  LET a == <<stack, name>>
  IN  CASE name = "AWS::NoValue"           -> Means(Undefined)
        [] name = "AWS::NotificationARNs"  -> Nothing
        [] name \in {"AWS::StackId", "AWS::StackName"} -> Means(Text(<<stack>>))
        [] name \in PseudoParameters       -> Means(t.external[name])
        [] a \in DOMAIN t.parameters ->
             LET p == t.parameters[a]
             IN  IF p.set = None THEN Means(ParameterOf(t, p)) ELSE meaning(t, t.parentOf[stack], p.set)
        [] a \in DOMAIN t.resources /\ "Ref" \in DOMAIN t.resources[a].returns ->
             Means(t.resources[a].returns["Ref"])
        [] OTHER -> Nothing

MeaningOfAttribute(t, a, attr) ==
  CASE a \notin DOMAIN t.resources -> Nothing
    [] t.resources[a].kind = "nested" ->
         LET out == <<t.resources[a].nested, attr>>
         IN  IF out \in DOMAIN t.outputs THEN meaning(t, out[1], t.outputs[out]) ELSE Nothing
    [] attr \in DOMAIN t.resources[a].returns -> Means(t.resources[a].returns[attr])
    [] OTHER -> Nothing

MeaningOfCondition(t, stack, name) ==
  IF <<stack, name>> \in DOMAIN t.conditions THEN meaning(t, stack, t.conditions[<<stack, name>>]) ELSE Nothing

MeaningOfHole(t, stack, p, bindings) ==
  LET bound == {i \in DOMAIN bindings : bindings[i].arg = p.arg /\ p.args = <<>>}
  IN  CASE p.fn = "string" -> Means(TextOf(p.arg))
        [] p.fn = "escaped" -> Means(Text(<<"$", "{", p.arg, "}">>))
        [] bound # {}      -> meaning(t, stack, bindings[CHOOSE i \in bound : TRUE].args[1])
        [] OTHER           -> meaning(t, stack, HoleExpr(p))

Zones(t, region) ==
  LET name == IF region.text = <<>> THEN t.external["AWS::Region"].text ELSE region.text
  IN  IF name \in t.external.regions
      THEN Means(List(<<Text(name \o <<"a">>), Text(name \o <<"b">>)>>)) ELSE Nothing

(***************************************************************************)
(* The first subnets of a block, as many as the second argument says, each *)
(* with as many bits as the third says.                                    *)
(***************************************************************************)
Subnets(vs) ==
  LET sizes == [one |-> <<"first">>, two |-> <<"first", "second">>]
      which == CASE vs[2] = TextOf("1") -> sizes.one [] vs[2] = TextOf("2") -> sizes.two [] OTHER -> <<>>
  IN  IF Len(vs) = 3 /\ vs[1].type = "string" /\ which # <<>>
      THEN Means(List([i \in DOMAIN which |-> Text(<<"subnet", which[i]>> \o vs[1].text \o vs[3].text)]))
      ELSE Nothing

(***************************************************************************)
(* There must be an item at the index, of a list.                          *)
(***************************************************************************)
Selected(vs) ==
  IF vs[2].type = "list" /\ Position(vs[1]) \in DOMAIN vs[2].items
  THEN Means(vs[2].items[Position(vs[1])]) ELSE Nothing

meaning(t, stack, e) ==
  LET args == [i \in DOMAIN e.args |-> meaning(t, stack, e.args[i])]
      Present(vs) == SelectSeq(vs, LAMBDA v : v # Undefined)
  IN  CASE e.fn = "string"    -> Means(TextOf(e.arg))
        [] e.fn = "boolean"   -> Means(Boolean(e.arg = "true"))
        [] e.fn = "list"      -> Of(args, LAMBDA vs : Means(List(Present(vs))))
        [] e.fn = "entry"     -> Of(args, LAMBDA vs : Means([type |-> "entry", text |-> <<e.arg>>, items |-> vs]))
        [] e.fn = "object"    -> Of(args, LAMBDA vs : Means([type |-> "object", text |-> <<>>, items |-> vs]))
        [] e.fn = "Condition" -> MeaningOfCondition(t, stack, e.arg)
        [] e.fn = "Ref" /\ e.args[1].fn = "output" ->
             IF e.args[1].arg \in DOMAIN t.outputMap THEN Means(t.outputMap[e.args[1].arg]) ELSE Nothing
        [] e.fn = "Ref"           -> Of(args, LAMBDA vs : MeaningOfName(t, stack, Name(vs[1])))
        [] e.fn = "Fn::GetAtt"    -> MeaningOfAttribute(t, <<stack, e.args[1].arg>>, e.args[2].arg)
        [] e.fn = "Fn::Join"      -> Of(args, LAMBDA vs : IF vs[2].type = "list"
                                                          THEN Means(Text(join(vs[1], vs[2].items))) ELSE Nothing)
        [] e.fn = "Fn::Split"     -> Of(args, LAMBDA vs : IF vs[2].type = "string"
                                                          THEN Means(List(split(vs[1], vs[2].text))) ELSE Nothing)
        [] e.fn = "Fn::Select"    -> Of(args, Selected)
        [] e.fn = "Fn::Base64"    -> Of(args, LAMBDA vs : IF vs[1].type = "string"
                                                          THEN Means(Text(<<"base64">> \o vs[1].text)) ELSE Nothing)
        [] e.fn = "Fn::Cidr"      -> Of(args, Subnets)
        [] e.fn = "Fn::GetAZs"    -> Of(args, LAMBDA vs : Zones(t, vs[1]))
        [] e.fn = "Fn::FindInMap" ->
             Of(args, LAMBDA vs : LET key == <<stack, Name(vs[1]), Name(vs[2]), Name(vs[3])>>
                                  IN  IF key \in DOMAIN t.mappings THEN Means(t.mappings[key]) ELSE Nothing)
        [] e.fn = "Fn::Equals"    -> Of(args, LAMBDA vs : Means(Boolean(vs[1] = vs[2])))
        [] e.fn = "Fn::Or" ->
             IF \E i \in DOMAIN args : args[i] = Means(Boolean(TRUE)) /\ \A j \in 1..i : args[j].ok
             THEN Means(Boolean(TRUE)) ELSE Of(args, LAMBDA vs : IF \A i \in DOMAIN vs : vs[i].type = "boolean"
                                       THEN Means(Boolean(FALSE)) ELSE Nothing)
        [] e.fn = "Fn::If"        ->
             Of(<<MeaningOfCondition(t, stack, e.args[1].arg)>>,
                LAMBDA vs : args[IF vs[1] = Boolean(TRUE) THEN 2 ELSE 3])
        [] e.fn = "Fn::Sub"       ->
             LET parts == e.args[1].args
             IN  Of([i \in DOMAIN parts |-> MeaningOfHole(t, stack, parts[i], Variables(e.args))],
                    LAMBDA vs : IF \E i \in DOMAIN vs : vs[i] = Undefined THEN Nothing
                                ELSE Means(Text(join(Text(<<>>), vs))))
        [] OTHER -> Nothing

-----------------------------------------------------------------------------
(***************************************************************************)
(* Where the code is known to differ from CloudFormation: the variables of *)
(* Fn::Sub; the id and the name of the stack; a Ref to a nested stack; an  *)
(* attribute with a dot, of which the first part is taken; the zones of a  *)
(* named region, of whose name the first letter is taken; an Fn::If without*)
(* a value, which leaves undefined; and an Fn::Select of no item, or of no *)
(* list, which is undefined or a letter where CloudFormation has no answer.*)
(***************************************************************************)
SelectsNothing(t, x) ==
  /\ x[2].fn = "Fn::Select"
  /\ ~meaning(t, x[1], x[2]).ok
  /\ \A i \in DOMAIN x[2].args : meaning(t, x[1], x[2].args[i]).ok

Differs(t, x) ==
  LET e == x[2]
  IN  \/ e.fn = "Fn::Sub" /\ Len(e.args) = 2
      \/ \E a \in References(t, x) : a[2] \in {"AWS::StackId", "AWS::StackName"}
      \/ \E a \in References(t, x) \cap DOMAIN t.resources : t.resources[a].kind = "nested"
      \/ \E p \in Attributes(t, x) : p[2] = "Endpoint.Address"
      \/ e.fn = "Fn::GetAZs" /\ e.args[1] # Literal("")
      \/ e.fn = "Fn::If" /\ NoValue \in {e.args[2], e.args[3]}
      \/ SelectsNothing(t, x)

(***************************************************************************)
(* A property that is undefined is not set.                                *)
(***************************************************************************)
Set(v) == [v EXCEPT !.items = SelectSeq(@, LAMBDA x : x.items # <<Undefined>>)]

Alike(stack, e) == \A x \in Everything(template)[<<stack, e>>] : ~Differs(template, x)

(***************************************************************************)
(* What the Properties of a resource evaluate to is what they mean to      *)
(* CloudFormation, in root and nested stacks, at once and eventually; and  *)
(* where CloudFormation has no answer there is an error, not a value; all  *)
(* but for what Differs names.                                             *)
(***************************************************************************)
AgreesWithCloudFormation ==
  \A a \in DOMAIN props :
    LET e == template.resources[a].props
    IN  Alike(a[1], e) /\ props[a].ok =>
          LET m == meaning(template, a[1], e) IN m.ok /\ Set(props[a].value) = Set(m.value)

(***************************************************************************)
(* The graph orders no resource before one that a computed Ref means, nor  *)
(* before what an output of a nested stack that an Fn::Sub names needs.    *)
(***************************************************************************)
Unordered(t, x) ==
  \/ /\ computed(x[2])
     /\ LET m == meaning(t, x[1], x[2].args[1])
        IN  m.ok /\ m.value.type = "string" /\ <<x[1], Name(m.value)>> \in DOMAIN t.resources
  \/ x[2].fn = "Fn::Sub" /\ \E p \in Attributes(t, x) : OutputsOf(t, p[1], p[2]) # {}

(***************************************************************************)
(* Properties that have a meaning are evaluated without an error, whatever *)
(* the order: what a condition rules out is not evaluated, and lookups find*)
(* what is there, but for those that have no edge in the graph (Unordered) *)
(* and may come too early.                                                 *)
(***************************************************************************)
ResolvesWhatHasAMeaning ==
  \A a \in DOMAIN props :
    LET e == template.resources[a].props
    IN  /\ Alike(a[1], e) /\ meaning(template, a[1], e).ok
        /\ \A x \in Everything(template)[<<a[1], e>>] : ~Unordered(template, x)
        => props[a].ok

(***************************************************************************)
(* Both without an exception.  The code does not keep it.                  *)
(***************************************************************************)
EvaluatesToItsMeaning ==
  \A a \in DOMAIN props :
    LET m == meaning(template, a[1], template.resources[a].props)
    IN  props[a].ok = m.ok /\ (m.ok => Set(props[a].value) = Set(m.value))

(***************************************************************************)
(* asOutput is not told the stack of a construct.  When the root stack has *)
(* an answer, such as a resource with the same logical id, that is the     *)
(* answer, for a construct of a nested stack too; else it is the one of    *)
(* the construct's own stack, and never that of another nested stack.      *)
(***************************************************************************)
OutputOfItsStack ==
  step = "asked" /\ asked.answer.ok =>
    LET e     == asked.ask.expr
        stack == IF meaning(template, template.root, e).ok THEN template.root ELSE asked.ask.stack
        m     == meaning(template, stack, e)
    IN  Alike(template.root, e) /\ Alike(stack, e) /\ m.ok => asked.answer.value = m.value

(***************************************************************************)
(* The answer is always that of the construct's own stack.  The code does  *)
(* not keep it.                                                            *)
(***************************************************************************)
OutputOfNoOtherStack ==
  step = "asked" /\ asked.answer.ok =>
    LET m == meaning(template, asked.ask.stack, asked.ask.expr)
    IN  m.ok => asked.answer.value = m.value
=============================================================================
