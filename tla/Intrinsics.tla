------------------------------ MODULE Intrinsics ------------------------------
(***************************************************************************)
(* How StackConverter evaluates CloudFormation expressions                 *)
(* (src/converters/app-converter.ts, src/converters/intrinsics.ts).        *)
(*                                                                         *)
(* An expression is a record [fn, arg, args]:                              *)
(*   "string", "boolean"  a literal, arg                                   *)
(*   "list", "object"     args; those of an object are "entry"s, arg: args *)
(*   "output"             the OutputRepr of the Pulumi Output numbered arg *)
(*   "template"           the template of an Fn::Sub, its args the pieces  *)
(*                        it is written of: "string"s, "hole"s, ${arg} or  *)
(*                        ${arg.attr}, and "escaped" ones, ${!arg}         *)
(*   "Condition", "Ref", "Fn::..."   a function of its args                *)
(* A value is a record [type, text, items]: a text is a sequence of atoms, *)
(* the first letter of a region being an atom of its own.                  *)
(*                                                                         *)
(* A template t is a record; an address is <<stack, logical id>>:          *)
(*   root, parentOf : the root stack; the stack a nested stack is in       *)
(*   search     : nestedStackNodes, the paths of the nested stacks         *)
(*   parameters : address -> [type, default, set]; set is the value that   *)
(*                the parent stack passes, or None                         *)
(*   conditions, outputs : address -> expression                           *)
(*   mappings   : <<stack, map, key, key>> -> value                        *)
(*   resources  : address -> [kind, props, cfRef, id, attributes,          *)
(*                properties, nested], what mapResource returned; results  *)
(*                by name in attributes (None: not overridden) and         *)
(*                properties                                               *)
(*   cidrBlocks : address of a VPC -> that of its VPCCidrBlock             *)
(*   outputMap  : the Outputs registered by asString, asNumber and asList  *)
(*   external   : what AWS answers: pseudo parameters, zones, SSM          *)
(*   depth      : the expressions, <<stack, expression>>, each with how    *)
(*                deep an evaluation of it goes (CloudFormation refuses    *)
(*                templates with circles)                                  *)
(***************************************************************************)
EXTENDS SubTemplate, SequencesExt

None == [fn |-> "none", arg |-> "", args |-> <<>>]

Expr(fn, arg, args) == [fn |-> fn, arg |-> arg, args |-> args]
Literal(s)          == Expr("string", s, <<>>)
Ref(name)           == Expr("Ref", "", <<Literal(name)>>)
NoValue             == Ref("AWS::NoValue")

Text(s)     == [type |-> "string", text |-> s, items |-> <<>>]
TextOf(s)   == Text(IF s = "" THEN <<>> ELSE <<s>>)
Boolean(b)  == [type |-> "boolean", text |-> IF b THEN <<"true">> ELSE <<"false">>, items |-> <<>>]
List(s)     == [type |-> "list", text |-> <<>>, items |-> s]
Undefined   == [type |-> "undefined", text |-> <<>>, items |-> <<>>]

(***************************************************************************)
(* A result is a value at once, an eventual value (a Promise or an Output),*)
(* an error thrown at once, or one that an eventual value ends in.         *)
(***************************************************************************)
Now(v)   == [ok |-> TRUE, later |-> FALSE, value |-> v]
Later(r) == [ok |-> r.ok, later |-> TRUE, value |-> r.value]
fail     == [ok |-> FALSE, later |-> FALSE, value |-> Undefined]

Thrown(r) == ~r.ok /\ ~r.later

(***************************************************************************)
(* What an evaluation can see: the template, the resources registered so   *)
(* far, and the evaluation itself, a function of the resources registered  *)
(* and of an expression in a stack (IntrinsicContext.evaluate).  convert   *)
(* does not wait for anything, so the callback of an eventual value runs   *)
(* when all resources are registered.                                      *)
(***************************************************************************)
Eventually(c) == [c EXCEPT !.registered = DOMAIN c.t.resources]

evaluate(c, stack, e) == c.process[<<c.registered, <<stack, e>>>>]

(***************************************************************************)
(* lift: F on the value, now or when it arrives.                           *)
(***************************************************************************)
apply(c, r, F(_, _)) ==
  IF ~r.ok THEN r ELSE IF r.later THEN Later(F(Eventually(c), r.value)) ELSE F(c, r.value)

(***************************************************************************)
(* A list or an object of results is eventual if a part of it is           *)
(* (containsEventuals); what one of them throws at once is thrown.         *)
(***************************************************************************)
Together(type, rs) ==
  [ok    |-> \A i \in DOMAIN rs : rs[i].ok,
   later |-> (\E i \in DOMAIN rs : rs[i].later) /\ ~(\E i \in DOMAIN rs : Thrown(rs[i])),
   value |-> IF \A i \in DOMAIN rs : rs[i].ok
             THEN [type |-> type, text |-> <<>>, items |-> [i \in DOMAIN rs |-> rs[i].value]]
             ELSE Undefined]

Absent == Now([Undefined EXCEPT !.type = "absent"])   \* filtered out

isNoValue(e) == e = NoValue \/ (e.fn = "entry" /\ e.args[1] = NoValue)

mustBe(type, v) == IF v.type = type THEN Now(v) ELSE fail

(***************************************************************************)
(* Destructuring, which takes a string apart into its characters.          *)
(***************************************************************************)
Items(v) == IF v.type = "string" THEN [i \in DOMAIN v.text |-> Text(<<v.text[i]>>)] ELSE v.items

Item(v, i) == IF i \in DOMAIN Items(v) THEN Items(v)[i] ELSE Undefined

Name(v) == IF v.type = "string" /\ Len(v.text) = 1 THEN v.text[1] ELSE ""

-----------------------------------------------------------------------------
(***************************************************************************)
(* The functions of values.                                                *)
(***************************************************************************)
join(delim, vs) ==   \* undefined joins as the empty string
  IF vs = <<>> THEN <<>>
  ELSE FoldLeft(LAMBDA acc, v : acc \o delim.text \o v.text, Head(vs).text, Tail(vs))

split(delim, text) ==
  LET next(acc, a) == IF <<a>> = delim.text THEN Append(acc, <<>>)
                      ELSE [acc EXCEPT ![Len(acc)] = Append(@, a)]
      pieces       == FoldLeft(next, << <<>> >>, text)
  IN  [i \in DOMAIN pieces |-> Text(pieces[i])]

Position(v) == CASE v = Text(<<"0">>) -> 1 [] v = Text(<<"1">>) -> 2 [] OTHER -> 0

fnJoin(v) == IF Item(v, 2).type = "list" THEN Now(Text(join(Item(v, 1), Item(v, 2).items))) ELSE fail

fnSelect(v) == IF Item(v, 2) = Undefined THEN fail ELSE Now(Item(Item(v, 2), Position(Item(v, 1))))

fnSplit(v) == IF Item(v, 2).type = "string" THEN Now(List(split(Item(v, 1), Item(v, 2).text))) ELSE fail

fnBase64(v) == IF v.type = "string" THEN Now(Text(<<"base64">> \o v.text)) ELSE fail

(***************************************************************************)
(* cidr({ ipBlock, count, cidrBits }): count subnets of the block.  AWS    *)
(* refuses what is no block or no number.                                  *)
(***************************************************************************)
parseInt(v) == CASE v = Text(<<"1">>) -> 1 [] v = Text(<<"2">>) -> 2 [] OTHER -> 0

cidr(ipBlock, count, cidrBits) ==
  IF ipBlock.type = "string" /\ parseInt(count) > 0 /\ cidrBits.type = "string"
  THEN Later(Now(List([i \in 1..parseInt(count) |-> Text(<<"subnet", <<"first", "second">>[i]>> \o ipBlock.text \o cidrBits.text)])))
  ELSE Later(fail)

fnCidr(v) == cidr(Item(v, 1), Item(v, 2), Item(v, 3))

(***************************************************************************)
(* ([region]) => getAzs({ region }): without a region that of the          *)
(* provider; one that AWS does not know ends in an error.                  *)
(***************************************************************************)
getAzs(c, region) ==
  LET name == IF region.text = <<>> THEN c.t.external["AWS::Region"].text ELSE region.text
  IN  IF name \in c.t.external.regions
      THEN Later(Now(List(<<Text(name \o <<"a">>), Text(name \o <<"b">>)>>)))
      ELSE Later(fail)

fnGetAZs(c, v) == getAzs(c, Item(v, 1))

fnFindInMap(c, stack, params, v) ==
  LET key == <<stack, Name(Item(v, 1)), Name(Item(v, 2)), Name(Item(v, 3))>>
  IN  IF Len(params) = 3 /\ key \in DOMAIN c.t.mappings THEN Now(c.t.mappings[key]) ELSE fail

(***************************************************************************)
(* parts.map(v => v.toString()).join(''): there is no undefined.toString.  *)
(***************************************************************************)
Concatenated(parts) ==
  IF \E i \in DOMAIN parts : parts[i] = Undefined THEN fail ELSE Now(Text(join(Text(<<>>), parts)))

-----------------------------------------------------------------------------
(***************************************************************************)
(* evaluateRef.  First the pseudo parameters.                              *)
(***************************************************************************)
PseudoParameters == {"AWS::AccountId", "AWS::NoValue", "AWS::Partition", "AWS::Region", "AWS::URLSuffix",
                     "AWS::NotificationARNs", "AWS::StackId", "AWS::StackName"}

pseudo(c, name) ==
  CASE name = "AWS::NoValue"                         -> Now(Undefined)
    [] name = "AWS::NotificationARNs"                -> fail
    [] name \in {"AWS::StackId", "AWS::StackName"}   -> Now(Text(<<"node id">>))
    [] OTHER                                         -> Later(Now(c.t.external[name]))

(***************************************************************************)
(* A Ref to a resource, by what the mapping created.                       *)
(***************************************************************************)
RefById(c, r) == r.id   \* a fault: the metadata is not asked

refResource(c, r) ==
  LET names  == r.cfRef.properties
      values == Together("list", [i \in DOMAIN names |-> r.properties[names[i]]])
  IN  CASE r.attributes # None /\ "id" \in DOMAIN r.attributes.of              -> r.attributes.of["id"]
        [] r.kind \in {"custom", "classic", "nested"}                          -> r.id
        [] r.kind = "native" /\ r.cfRef.support \in {"none", "notSupportedYet"} -> r.id
        [] r.cfRef.support = "notSupported"                                    -> fail
        [] \E i \in DOMAIN names : names[i] \notin DOMAIN r.properties         -> fail
        [] OTHER -> apply(c, values,
                          LAMBDA d, vs : IF \A i \in DOMAIN vs.items : vs.items[i].type = "string"
                                         THEN Now(Text(join(r.cfRef.delimiter, vs.items))) ELSE fail)

-----------------------------------------------------------------------------
(***************************************************************************)
(* mapParameter.  A parameter of a nested stack that the parent sets (the  *)
(* empty string does not count) is an expression, evaluated on demand in   *)
(* the parent; any other is an SSM parameter with a default, or not        *)
(* supported.                                                              *)
(***************************************************************************)
isSet(p) == p.set \notin {None, Literal("")}

SsmTypes == {"AWS::SSM::Parameter::Name", "AWS::SSM::Parameter::Value<String>",
             "AWS::SSM::Parameter::Value<List<String>>"}

supportedParameter(p) == isSet(p) \/ (p.type \in SsmTypes /\ p.default # "")

parameterValue(c, p) ==
  CASE p.type = "AWS::SSM::Parameter::Value<List<String>>" -> Later(Now(List(<<c.t.external.ssm[p.default]>>)))
    [] p.type = "AWS::SSM::Parameter::Value<String>"       -> Later(Now(c.t.external.ssm[p.default]))
    [] OTHER                                               -> Now(TextOf(p.default))

(***************************************************************************)
(* processIntrinsics and what it calls, for an expression of a stack.      *)
(***************************************************************************)
processList(c, stack, type, es) ==
  LET results == [i \in DOMAIN es |-> IF isNoValue(es[i]) THEN Absent ELSE evaluate(c, stack, es[i])]
  IN  Together(type, SelectSeq(results, LAMBDA r : r # Absent))

evaluateParameter(c, a) ==
  LET p == c.t.parameters[a]
  IN  IF isSet(p) THEN evaluate(c, c.t.parentOf[a[1]], p.set) ELSE parameterValue(c, p)

evaluateRef(c, stack, name) ==
  CASE name \in PseudoParameters                 -> pseudo(c, name)
    [] <<stack, name>> \in DOMAIN c.t.parameters -> evaluateParameter(c, <<stack, name>>)
    [] <<stack, name>> \in c.registered          -> refResource(c, c.t.resources[<<stack, name>>])
    [] OTHER                                     -> fail

ref(c, stack, param) ==
  CASE param.fn = "output" -> IF param.arg \in DOMAIN c.t.outputMap
                              THEN Later(Now(c.t.outputMap[param.arg])) ELSE fail
    [] param.fn = "string" -> evaluateRef(c, stack, param.arg)
    [] OTHER -> apply(c, apply(c, evaluate(c, stack, param), LAMBDA d, v : mustBe("string", v)),
                      LAMBDA d, v : evaluateRef(d, stack, Name(v)))

(***************************************************************************)
(* resolveAtt.  A parameter has no attributes: lookup finds its value, in  *)
(* which there is no resource.                                             *)
(***************************************************************************)
attribute(c, a, attr) ==
  LET r == c.t.resources[a]
  IN  CASE r.kind = "nested" -> IF <<r.nested, attr>> \in DOMAIN c.t.outputs
                                THEN evaluate(c, r.nested, c.t.outputs[<<r.nested, attr>>]) ELSE fail
        [] r.kind = "custom" -> IF attr \in DOMAIN r.properties THEN r.properties[attr] ELSE Later(fail)
        [] r.attributes # None -> IF attr \in DOMAIN r.attributes.of THEN r.attributes.of[attr] ELSE fail
        [] OTHER -> IF c.t.external.attributePropertyName[attr] \in DOMAIN r.properties
                    THEN r.properties[c.t.external.attributePropertyName[attr]] ELSE fail

resolveAtt(c, a, attr) == IF a \in c.registered THEN attribute(c, a, attr) ELSE fail

getAtt(c, stack, id, attr) ==
  IF attr = "Ipv6CidrBlocks" /\ <<stack, id>> \in DOMAIN c.t.cidrBlocks
  THEN Together("list", <<resolveAtt(c, c.t.cidrBlocks[<<stack, id>>], "Ipv6CidrBlock")>>)
  ELSE resolveAtt(c, <<stack, id>>, attr)

(***************************************************************************)
(* The characters of a template.                                           *)
(***************************************************************************)
Written(pieces) ==
  LET chars(p) == CASE p.fn = "string"  -> <<p.arg>>
                    [] p.fn = "escaped" -> <<"$", "{", "!", p.arg, "}">>
                    [] p.args = <<>>    -> <<"$", "{", p.arg, "}">>
                    [] OTHER            -> <<"$", "{", p.arg, ".", p.args[1].arg, "}">>
  IN  SelectSeq(FlattenSeq([i \in DOMAIN pieces |-> chars(pieces[i])]), LAMBDA a : a # "")

(***************************************************************************)
(* Fn::Sub.  Its second parameter is evaluated and ignored.                *)
(***************************************************************************)
substituted(c, stack, r) ==
  IF r = NoReference THEN Now(Text(<<>>))
  ELSE IF r.attr = <<>> THEN evaluateRef(c, stack, r.id[1])
                        ELSE resolveAtt(c, <<stack, r.id[1]>>, r.attr[1])

fnSub(c, stack, template) ==
  LET parts  == parseSub(Written(template))
      joined == [i \in DOMAIN parts |-> <<Now(Text(parts[i].str)), substituted(c, stack, parts[i].ref)>>]
  IN  apply(c, Together("list", FlattenSeq(joined)), LAMBDA d, v : Concatenated(v.items))

(***************************************************************************)
(* Conditions.                                                             *)
(***************************************************************************)
evaluateCondition(c, stack, name) ==
  IF <<stack, name>> \in DOMAIN c.t.conditions
  THEN apply(c, evaluate(c, stack, c.t.conditions[<<stack, name>>]),
             LAMBDA d, v : mustBe("boolean", v))
  ELSE fail

evaluateConditionSubExpression(c, stack, e) ==
  IF e.fn = "Condition" THEN evaluateCondition(c, stack, e.arg)
  ELSE apply(c, evaluate(c, stack, e), LAMBDA d, v : mustBe("boolean", v))

StrictIf(c, stack, params) ==   \* a fault: both values are evaluated
  apply(c, Together("list", <<evaluateCondition(c, stack, params[1].arg),
                              evaluate(c, stack, params[2]),
                              evaluate(c, stack, params[3])>>),
        LAMBDA d, v : Now(IF v.items[1] = Boolean(TRUE) THEN v.items[2] ELSE v.items[3]))

fnIf(c, stack, params) ==
  IF Len(params) # 3 \/ params[1].fn # "string" THEN fail
  ELSE apply(c, evaluateCondition(c, stack, params[1].arg),
             LAMBDA d, v : evaluate(d, stack, params[IF v = Boolean(TRUE) THEN 2 ELSE 3]))

fnOr(c, stack, params) ==
  LET reduced[i \in 0..Len(params)] ==
        IF i = 0 THEN Now(Boolean(FALSE))
        ELSE apply(c, reduced[i - 1], LAMBDA d, v : IF v = Boolean(TRUE) THEN Now(v)
                                                    ELSE evaluateConditionSubExpression(d, stack, params[i]))
  IN  IF Len(params) < 2 THEN fail ELSE reduced[Len(params)]

fnEquals(c, stack, params) ==
  IF Len(params) # 2 THEN fail
  ELSE apply(c, evaluate(c, stack, params[1]),
             LAMBDA d, x : apply(d, evaluate(d, stack, params[2]),
                                 LAMBDA k, y : Now(Boolean(x = y))))

(***************************************************************************)
(* resolveIntrinsic.  The others, Fn::And and Fn::Not too, are unsupported.*)
(***************************************************************************)
resolveIntrinsic(c, stack, fn, params) ==
  LET evaluated == IF fn \in {"Fn::Base64", "Fn::GetAZs"} THEN evaluate(c, stack, params[1])
                   ELSE processList(c, stack, "list", params)
  IN  CASE fn = "Fn::GetAtt"    -> getAtt(c, stack, params[1].arg, params[2].arg)
        [] fn = "Fn::Join"      -> apply(c, evaluated, LAMBDA d, v : fnJoin(v))
        [] fn = "Fn::Select"    -> apply(c, evaluated, LAMBDA d, v : fnSelect(v))
        [] fn = "Fn::Split"     -> apply(c, evaluated, LAMBDA d, v : fnSplit(v))
        [] fn = "Fn::Base64"    -> apply(c, evaluated, LAMBDA d, v : fnBase64(v))
        [] fn = "Fn::Cidr"      -> apply(c, evaluated, LAMBDA d, v : fnCidr(v))
        [] fn = "Fn::GetAZs"    -> apply(c, evaluated, LAMBDA d, v : fnGetAZs(d, v))
        [] fn = "Fn::Sub"       -> apply(c, processList(c, stack, "list", Tail(params)),
                                         LAMBDA d, v : fnSub(d, stack, params[1].args))
        [] fn = "Fn::FindInMap" -> apply(c, evaluated, LAMBDA d, v : fnFindInMap(d, stack, params, v))
        [] fn = "Fn::Equals"    -> fnEquals(c, stack, params)
        [] fn = "Fn::If"        -> fnIf(c, stack, params)
        [] fn = "Fn::Or"        -> fnOr(c, stack, params)
        [] OTHER                -> fail

processIntrinsics(c, stack, e) ==
  CASE e.fn = "string"             -> Now(TextOf(e.arg))
    [] e.fn = "boolean"            -> Now(Boolean(e.arg = "true"))
    [] e.fn \in {"list", "object"} -> processList(c, stack, e.fn, e.args)
    [] e.fn = "entry"              -> LET r == evaluate(c, stack, e.args[1])
                                      IN  [r EXCEPT !.value = [type |-> "entry", text |-> <<e.arg>>, items |-> <<@>>]]
    [] e.fn = "Ref"                -> ref(c, stack, e.args[1])
    [] OTHER                       -> resolveIntrinsic(c, stack, e.fn, e.args)

(***************************************************************************)
(* StackConverter.processIntrinsics as a function of what is registered.   *)
(***************************************************************************)
evaluation(t) ==
  LET process[call \in (SUBSET DOMAIN t.resources) \X DOMAIN t.depth] ==
        processIntrinsics([t |-> t, registered |-> call[1], process |-> process], call[2][1], call[2][2])
  IN  process

ContextOf(t, registered) == [t |-> t, registered |-> registered, process |-> evaluation(t)]

(***************************************************************************)
(* asOutputValue, after the conversion: in the root stack, else in the one *)
(* nested stack that has a value.  Eventual values all count.              *)
(***************************************************************************)
Falsy(r) == ~r.later /\ r.value \in {Undefined, Text(<<>>), Boolean(FALSE)}

FirstFound(c, e) ==   \* a fault: the first nested stack with a value will do
  LET own   == processIntrinsics(c, c.t.root, e)
      found == SelectSeq([i \in DOMAIN c.t.search |-> processIntrinsics(c, c.t.search[i], e)],
                         LAMBDA r : ~Thrown(r) /\ ~Falsy(r))
  IN  CASE ~Thrown(own) -> own [] found # <<>> -> found[1] [] OTHER -> fail

asOutputValue(c, e) ==
  LET own   == processIntrinsics(c, c.t.root, e)
      found == SelectSeq([i \in DOMAIN c.t.search |-> processIntrinsics(c, c.t.search[i], e)],
                         LAMBDA r : ~Thrown(r) /\ ~Falsy(r))
  IN  CASE ~Thrown(own) -> own [] Len(found) = 1 -> found[1] [] OTHER -> fail
=============================================================================
