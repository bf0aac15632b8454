------------------------------- MODULE MCMapping -------------------------------
(***************************************************************************)
(* Stacks for TLC: one construct with each of a set of properties, or two  *)
(* constructs with each of a set of paths.                                 *)
(***************************************************************************)
EXTENDS MappedArguments

FirstNumerals == <<"0", "1", "2", "3">>

x == Leaf(<<"x">>)
One(k, v) == Object(<<Field(k, v)>>)

Construct(path, type, props) == [path |-> path, type |-> type, props |-> props]
StackOf(cs) == [constructs |-> cs, synthesizer |-> "pulumi"]
Alone(type, props) == StackOf(<<Construct(<< <<"Q">> >>, type, props)>>)

(***************************************************************************)
(* A type with a property of every kind, and a type of properties with a   *)
(* map of itself, a list of itself and JSON.                               *)
(***************************************************************************)
String == Property("string", "", <<>>)
Json   == Property("", "Any", <<>>)
Inner  == Property("", "Inner", <<>>)
Plain  == Property("", "Plain", <<>>)
Map(p) == Property("map", "", <<p>>)
Array(p) == Property("array", "", <<p>>)

Types == [Plain |-> <<"a">> :> String @@ <<"b">> :> Array(String),
          Inner |-> <<"a">> :> String @@ <<"b">> :> Json @@ <<"s">> :> Array(Inner) @@ <<"p">> :> Inner
                    @@ <<"q">> :> Map(Plain) @@ <<"r">> :> Map(Inner)]

TopProperties ==
  <<"a">> :> String @@ <<"b">> :> Json @@ <<"ab">> :> Property("object", "", <<>>) @@ <<"p">> :> Inner
  @@ <<"s">> :> Array(Inner) @@ <<"q">> :> Map(Plain) @@ <<"r">> :> Map(Inner) @@ <<"g">> :> Map(Json)
  @@ <<"d">> :> Property("", "Missing", <<>>) @@ <<"u">> :> Array(Map(String)) @@ <<"as">> :> Map(String)

Inputs == "AWS::Any::Native" :> TopProperties @@ "AWS::ApiGateway::Stage" :> TopProperties

Remap == "Remapped::First" :> << <<>>, <<"-", "more">> >> @@ "Remapped::Last" :> << <<"-", "more">>, <<>> >>
         @@ "Remapped::None" :> << <<"-", "more">> >>

SsmTypes == [string |-> "String", list |-> "StringList", secure |-> "SecureString"]

-----------------------------------------------------------------------------
(***************************************************************************)
(* Names of up to five characters, so that there may be two acronyms.      *)
(***************************************************************************)
Names == UNION {[1..n -> {"A", "S", "1", "a", "s"}] : n \in 1..4} \cup [1..5 -> {"A", "S", "a", "s"}]

NamePrograms == {Alone("AWS::Any::Native", One(<<"U", "nknown">>, One(k, x))) : k \in Names}

(***************************************************************************)
(* Values of up to three levels, with names that the schema has, also as   *)
(* the keys of maps, and one that it has not.                              *)
(***************************************************************************)
Keys == {<<"A">>, <<"B">>, <<"P">>, <<"Q">>, <<"S">>, <<"R">>, <<"D">>}

Shapes(v) == {v, List(<<v, x>>), Eventually(v)}

Nested(values) == {One(k, v) : k \in Keys, v \in values}

Level1 == {x} \cup {One(k, x) : k \in {<<"A">>, <<"B">>, <<"D">>}}
Level2 == UNION {Shapes(v) : v \in Nested(Level1)}
Level3 == Level2 \cup Nested(Level2) \cup {List(<<>>)}

TopKeys == Keys \cup {<<"A", "B">>, <<"G">>, <<"U">>, <<"A", "s">>, <<"T">>}

ListsOf(k, v) == IF k \in {<<"S">>, <<"U">>} THEN List(<<v>>) ELSE v

SchemaPrograms ==
  {Alone("AWS::Any::Native", One(k, ListsOf(k, v))) : k \in TopKeys, v \in Level3}
    \cup {Alone(type, One(<<"P">>, v)) : type \in {"AWS::S3::Bucket", "AWS::ApiGateway::Stage"}, v \in Level1}

(***************************************************************************)
(* Values of properties that are no lists where the schema has lists do    *)
(* not occur.                                                              *)
(***************************************************************************)
RECURSIVE Fits(_, _)

Fits(v, p) ==
  CASE v.kind = "eventual" -> Fits(Inside(v), p)
    [] v.kind = "string"   -> TRUE
    [] p.type = "array"    -> v.kind = "list" /\ \A i \in DOMAIN v.items : Fits(v.items[i].value, p.of[1])
    [] p.type = "map"      -> v.kind = "object" /\ \A i \in DOMAIN v.items : Fits(v.items[i].value, p.of[1])
    [] IsJson(p)           -> TRUE
    [] p.type = "string"   -> FALSE
    [] v.kind = "object"   -> \A i \in DOMAIN v.items :
                                Fits(v.items[i].value, PropertyOf(FieldsOf(p), v.items[i].key))
    [] OTHER               -> p = NoSchema /\ \A i \in DOMAIN v.items : Fits(v.items[i].value, p)

Fitting(programs) ==
  {p \in programs : \A i \in DOMAIN p.constructs[1].props.items :
     LET f == p.constructs[1].props.items[i]
     IN  Fits(f.value, PropertyOf(TopProperties, f.key))}

(***************************************************************************)
(* Dynamic references.                                                     *)
(***************************************************************************)
Arn == <<"arn", "aws", "secretsmanager", "region", "account", "secret", "id">>

Secrets(id) == {Leaf(<<"resolve", "secretsmanager">> \o id \o rest) :
                  rest \in {<<>>, <<"SecretString">>, <<"SecretString", "key">>, <<"SecretString", "key", "stage">>,
                            <<"SecretString", "key", "", "version">>, <<"SecretString", "", "stage", "">>,
                            <<"", "", "", "">>}}

Parameter(service, rest) == Leaf(<<"resolve", service>> \o rest)

References ==
  Secrets(<<"name">>) \cup Secrets(Arn)
    \cup {Parameter(service, <<name>> \o v) :
            service \in {"ssm", "ssm-secure"}, name \in DOMAIN SsmTypes, v \in {<<>>, <<"1">>}}

Places(v) == {One(<<"A">>, w) : w \in Shapes(v)} \cup {One(<<"S">>, List(<<One(<<"A">>, w)>>)) : w \in Shapes(v)}
             \cup {One(<<"P">>, One(<<"B">>, v)), One(<<"D">>, Eventually(Eventually(v)))}

ReferencePrograms ==
  {Alone("AWS::Any::Native", p) : p \in UNION {Places(v) : v \in References}}
    \cup {Alone("AWS::SQS::QueuePolicy", Object(<<Field(PolicyDocument, v), Field(Queues, List(<<x>>))>>)) :
            v \in References}

ShortArns == {Alone("AWS::Any::Native", One(<<"A">>, v)) : v \in Secrets(Arn)}

MapPrograms == Fitting({Alone("AWS::Any::Native", One(<<"R">>, v)) : v \in Level3})

-----------------------------------------------------------------------------
(***************************************************************************)
(* Types of every kind.                                                    *)
(***************************************************************************)
y == Leaf(<<"y">>)
Document == One(<<"S", "tatement">>, List(<<One(<<"A", "ction">>, x)>>))
Targets == {List(<<>>), List(<<x>>), List(<<x, y>>), Eventually(List(<<x>>))}

Text(s) == Leaf(s)
Txt == {Text(<<"'", "h", "'">>), Text(<<"'", "h", "'", "'", "i", "'">>), Text(<<"'", "h", "'", "'", "i", "'", "'", "j", "'">>)}

TypePrograms ==
  {Alone(type, Object(<<Field(PolicyDocument, d), Field(k, t)>>)) :
     type \in {"AWS::SQS::QueuePolicy", "AWS::SNS::TopicPolicy", "AWS::IAM::Policy"},
     d \in {Document, Eventually(Document)}, k \in {Queues, Topics, Groups, Roles, Users}, t \in Targets}
  \cup {Alone(p[1], Object(<<Field(p[2], One(<<"R", "oute">>, x)), Field(<<"A">>, x)>>)) :
          p \in {<<"AWS::ApiGatewayV2::Stage", Variables[1]>>}
                 \cup {<<"AWS::ApiGatewayV2::Integration", k>> : k \in Range(Parameters)}}
  \cup {Alone("AWS::Route53::RecordSet", Object(<<Field(RecordType, Leaf(<<t>>)), Field(Records, List(<<r, s>>))>>)) :
          t \in {"TXT", "A"}, r \in Txt, s \in Txt}
  \cup {Alone("AWS::Route53::RecordSet", Object(<<Field(RecordType, Leaf(<<"TXT">>)), Field(Records, Eventually(x))>>))}
  \cup {Alone("AWS::Events::EventBusPolicy", v) :
          v \in {One(Statement, Document), One(Principal, x)} \cup
                 {Object(<<Field(Statement, Document), Field(k, x)>>) : k \in {Principal, Action, Condition}}}
  \cup {Alone(type, One(<<"A">>, x)) : type \in DOMAIN Remap \cup {"AWS::Not::Known"}}
  \cup {[Alone("Custom::Hook", One(<<"A">>, x)) EXCEPT !.synthesizer = s] : s \in {"pulumi", "other"}}

(***************************************************************************)
(* Two constructs, with paths that may give one id.                        *)
(***************************************************************************)
Default  == <<"Default">>
Resource == <<"Resource">>

Components == {<<"Q">>, <<"A", "Q">>, Default, Resource, <<"Q", "-", "policy", "-", "1">>}

Paths == UNION {[1..n -> Components] : n \in 1..2}
         \cup {<<p, Default, q>> : p, q \in {<<"Q">>, <<"A", "Q">>}}

TwoPolicies(p, q) ==
  LET policy == Object(<<Field(PolicyDocument, x), Field(Queues, List(<<x, y>>))>>)
  IN  StackOf(<<Construct(p, "AWS::SQS::QueuePolicy", policy), Construct(q, "AWS::SQS::QueuePolicy", policy)>>)

Visible(path) == \E i \in DOMAIN path : path[i] # Default

PathPrograms ==
  {TwoPolicies(p, q) : p, q \in {path \in Paths : Visible(path)}}
    \cup {StackOf(<<Construct(p, "AWS::S3::Bucket", One(<<"A">>, x)), Construct(q, "AWS::S3::Bucket", One(<<"A">>, x))>>) :
            p, q \in {<< <<"Q">> >>, << <<"q">> >>, << <<"A", "Q">> >>}}

AnyProgram == NamePrograms \cup Fitting(SchemaPrograms) \cup ReferencePrograms \cup TypePrograms \cup PathPrograms
=============================================================================
