----------------------------- MODULE MCEvaluation -----------------------------
(***************************************************************************)
(* Templates for TLC: a root stack and two nested stacks with a resource   *)
(* of every kind, a parameter of every kind, conditions and outputs; and   *)
(* Probe, a resource of the root or of the nested stack "left", whose one  *)
(* property is any of a set of expressions of depth two.  A template keeps *)
(* the resources that the probe may need (of those that a computed Ref may *)
(* mean, the bucket).                                                      *)
(***************************************************************************)
EXTENDS CloudFormation

GetAtt(id, attr)  == Expr("Fn::GetAtt", "", <<Literal(id), Literal(attr)>>)
Fn(name, args)    == Expr(name, "", args)
ListExpr(es)      == Expr("list", "", es)
Hole(id)          == Expr("hole", id, <<>>)
HoleAtt(id, attr) == Expr("hole", id, <<Literal(attr)>>)
Escaped(id)       == Expr("escaped", id, <<>>)
Template(pieces)  == Expr("template", "", pieces)
Props(e)          == Expr("object", "", <<Expr("entry", "Prop", <<e>>)>>)
Prod              == Fn("Fn::Equals", <<Ref("Mode"), Literal("prod")>>)

Eventual(s) == Later(Now(Text(s)))

Resource(kind, id) ==
  [kind |-> kind, props |-> Props(Literal("x")), id |-> Eventual(id), attributes |-> None,
   cfRef |-> [support |-> "none", properties |-> <<>>, delimiter |-> Text(<<"|">>)],
   properties |-> "id" :> Eventual(id), returns |-> "Ref" :> Text(id), nested |-> ""]

WithAttribute(r, attr, name, s) ==
  [r EXCEPT !.properties = @ @@ (name :> Eventual(s)), !.returns = @ @@ (attr :> Text(s))]

Native(support, properties, refs) ==
  [Resource("native", <<"primary id">>) EXCEPT
     !.cfRef.support = support, !.cfRef.properties = properties, !.returns = refs]

Bucket == [WithAttribute(Native("properties", <<"bucketName">>, "Ref" :> Text(<<"bucket">>)),
                         "Arn", "arn", <<"arn", ":", "bucket">>) EXCEPT
             !.properties = @ @@ ("bucketName" :> Eventual(<<"bucket">>))]

Method == [Native("properties", <<"api", "method">>, "Ref" :> Text(<<"api", "|", "method">>)) EXCEPT
             !.properties = @ @@ ("api" :> Eventual(<<"api">>)) @@ ("method" :> Eventual(<<"method">>))]

Cluster == [WithAttribute(Native("notSupportedYet", <<>>, "Ref" :> Text(<<"primary id">>)),
                          "Endpoint.Address", "address", <<"address">>) EXCEPT
              !.properties = @ @@ ("endpoint" :> Later(Now(List(<<Text(<<"address">>)>>))))]

Remapped == [Resource("classic", <<"other id">>) EXCEPT
               !.attributes = [of |-> ("id" :> Now(Text(<<"given">>))) @@ ("Arn" :> Eventual(<<"given arn">>))],
               !.returns = ("Ref" :> Text(<<"given">>)) @@ ("Arn" :> Text(<<"given arn">>))]

Hook == [Resource("custom", <<"physical">>) EXCEPT
           !.properties = "Key" :> Eventual(<<"answer">>),
           !.returns = ("Ref" :> Text(<<"physical">>)) @@ ("Key" :> Text(<<"answer">>))]

PassedAs(entries) == Expr("object", "", <<Expr("entry", "Parameters", <<Expr("object", "", entries)>>)>>)

Nested(path, passed) ==
  [Resource("nested", <<>>) EXCEPT !.nested = path, !.props = PassedAs(passed), !.id = Now(Undefined),
                                   !.returns = "Ref" :> Text(<<path, "arn">>)]

Passed == [Size  |-> Ref("Bucket"), Mode |-> Literal("prod"), Key |-> GetAtt("Hook", "Key")]

AllResources ==
  <<"root", "Bucket">> :> Bucket @@ <<"root", "Method">> :> Method @@ <<"root", "Cluster">> :> Cluster
  @@ <<"root", "Role">> :> Resource("classic", <<"role">>) @@ <<"root", "Fixed">> :> Remapped
  @@ <<"root", "Hook">> :> Hook
  @@ <<"root", "Silent">> :> Native("notSupported", <<>>, <<>>)
  @@ <<"root", "Vpc">> :> [Resource("native", <<"vpc">>) EXCEPT
                             !.returns = @ @@ ("Ipv6CidrBlocks" :> List(<<Text(<<"cidr">>)>>))]
  @@ <<"root", "Block">> :> WithAttribute([Resource("native", <<"block">>) EXCEPT !.props = Props(Ref("Vpc"))],
                                          "Ipv6CidrBlock", "ipv6CidrBlock", <<"cidr">>)
  @@ <<"root", "Left">> :> Nested("left", <<Expr("entry", "Size", <<Passed.Size>>), Expr("entry", "Mode", <<Passed.Mode>>),
                                           Expr("entry", "Key", <<Passed.Key>>)>>)
  @@ <<"root", "Right">> :> Nested("right", <<>>)
  @@ <<"left", "Inner">> :> WithAttribute(Resource("native", <<"left inner">>), "Arn", "arn", <<"left arn">>)
  @@ <<"right", "Inner">> :> WithAttribute(Resource("native", <<"right inner">>), "Name", "name", <<"name">>)
  @@ <<"right", "Alone">> :> Resource("native", <<"alone">>)

Parameter(type, default, set) == [type |-> type, default |-> default, set |-> set]

Base ==
  [name       |-> "base",
   root       |-> "root",
   parentOf   |-> [left |-> "root", right |-> "root", root |-> ""],
   search     |-> <<"left", "right">>,
   parameters |-> <<"root", "Image">> :> Parameter("AWS::SSM::Parameter::Name", "image", None)
                  @@ <<"root", "Mode">> :> Parameter("AWS::SSM::Parameter::Value<String>", "mode", None)
                  @@ <<"root", "Modes">> :> Parameter("AWS::SSM::Parameter::Value<List<String>>", "mode", None)
                  @@ <<"left", "Size">> :> Parameter("String", "", Passed.Size)
                  @@ <<"left", "Mode">> :> Parameter("String", "", Passed.Mode)
                  @@ <<"left", "Key">> :> Parameter("String", "", Passed.Key),
   conditions |-> <<"root", "IsProd">> :> Prod @@ <<"left", "IsProd">> :> Prod
                  @@ <<"root", "Either">> :> Fn("Fn::Or", <<Expr("Condition", "IsProd", <<>>), Prod>>)
                  @@ <<"left", "Either">> :>
                       Fn("Fn::Or", <<Fn("Fn::Equals", <<Ref("Key"), Literal("answer")>>), Ref("Missing")>>)
                  @@ <<"left", "Big">> :> Fn("Fn::Equals", <<Ref("Size"), Literal("bucket")>>),
   outputs    |-> <<"left", "Out">> :> GetAtt("Inner", "Arn")
                  @@ <<"left", "Size">> :> Ref("Size"),
   mappings   |-> <<"root", "Map", "image", "Key">> :> List(<<Text(<<"one", ",", "two">>)>>)
                  @@ <<"root", "Map", "prod", "Key">> :> Text(<<"one", ",", "two">>)
                  @@ <<"left", "Map", "prod", "Key">> :> Text(<<"one", ",", "two">>),
   resources  |-> AllResources,
   cidrBlocks |-> <<"root", "Vpc">> :> <<"root", "Block">>,
   depth      |-> <<>>,
   outputMap  |-> "0" :> Text(<<"output">>),
   external   |-> [ssm |-> [mode |-> Text(<<"prod">>)],
                   regions |-> {<<"e", "ast">>, <<"w", "est">>},
                   attributePropertyName |->
                     [Arn |-> "arn", Name |-> "name", Key |-> "key", Out |-> "out", Size |-> "size",
                      Ipv6CidrBlock |-> "ipv6CidrBlock", Ipv6CidrBlocks |-> "ipv6CidrBlocks"]
                     @@ ("Endpoint.Address" :> "endpoint") @@ ("" :> "")]
                  @@ ("AWS::Region" :> Text(<<"e", "ast">>)) @@ ("AWS::AccountId" :> Text(<<"account">>))
                  @@ ("AWS::Partition" :> Text(<<"aws">>)) @@ ("AWS::URLSuffix" :> Text(<<"suffix">>))]

Leaves ==
  {Ref(n) : n \in PseudoParameters \cup {"Image", "Mode", "Size", "Key", "Missing", "Bucket", "Method",
                                         "Cluster", "Role", "Fixed", "Hook", "Silent", "Vpc", "Left", "Inner"}}
  \cup {GetAtt("Bucket", "Arn"), GetAtt("Bucket", "Name"), GetAtt("Cluster", "Endpoint.Address"),
        GetAtt("Fixed", "Arn"), GetAtt("Hook", "Key"), GetAtt("Hook", "Name"),
        GetAtt("Left", "Out"), GetAtt("Left", "Size"), GetAtt("Left", "Name"), GetAtt("Image", "Arn"),
        GetAtt("Inner", "Arn"), Expr("Ref", "", <<Expr("output", "0", <<>>)>>)}
  \cup {Ref("AWS::NoValue"), Literal("prod"), Literal("Bucket"), Literal("Mode"), Fn("Fn::ImportValue", <<Literal("prod")>>)}

ZonesOf(region) == Fn("Fn::GetAZs", <<region>>)

Lists == {Ref("Modes"), GetAtt("Vpc", "Ipv6CidrBlocks"), ZonesOf(Literal("")), ZonesOf(Ref("AWS::Region"))}

OfList(e) == {e, Fn("Fn::Join", <<Literal(":"), e>>), Fn("Fn::Select", <<Literal("0"), e>>)}

MapKey(e) == Fn("Fn::FindInMap", <<Literal("Map"), e, Literal("Key")>>)

InList(e) == Fn("Fn::Join", <<Literal(":"), ListExpr(<<Literal("a"), e>>)>>)

ComputedRef(e) == Expr("Ref", "", <<Fn("Fn::Select", <<Literal("0"), ListExpr(<<e>>)>>)>>)

Functions(e) ==
  {Fn("Fn::Select", <<Literal("1"), ListExpr(<<Literal("a"), e>>)>>),
   Fn("Fn::Select", <<Literal("0"), e>>),
   Fn("Fn::Select", <<Literal("1"), Fn("Fn::Split", <<Literal(":"), e>>)>>),
   Fn("Fn::Base64", <<e>>),
   Fn("Fn::Cidr", <<e, Literal("2"), Literal("8")>>),
   ComputedRef(e),
   MapKey(e), Fn("Fn::Select", <<Literal("0"), Fn("Fn::Split", <<Literal(","), MapKey(e)>>)>>)}
  \cup {Fn("Fn::If", <<Literal(c), e, x>>) :
          c \in {"IsProd", "Either", "Big", "None"}, x \in {Ref("Missing"), Literal("b"), NoValue}}

SomeHoles == {Hole("Bucket"), Hole("AWS::Region"), Hole("Size"), Hole("Missing"), Hole("AWS::NoValue"),
          HoleAtt("Bucket", "Arn"), HoleAtt("Hook", "Key"), HoleAtt("Bucket", "Name"), HoleAtt("Bucket", ""),
          HoleAtt("Left", "Out")}

Pieces == SomeHoles \cup {Escaped("Bucket"), Literal("a"), Literal("$"), Literal("}"), Literal(".")}

Subs == {Fn("Fn::Sub", <<Template(pieces)>>) :
           pieces \in {<<p>> : p \in SomeHoles} \cup (Pieces \X Pieces)
                       \cup {<<Hole("Bucket"), p, HoleAtt("Hook", "Key")>> : p \in Pieces}}
        \cup {Fn("Fn::Sub", <<Template(<<Hole("x")>>),
                              Expr("object", "", <<Expr("entry", "x", <<Literal("a")>>)>>)>>)}

AsksOf(name) ==
  IF name = "probed" THEN {}
  ELSE {[stack |-> stack, expr |-> e] : stack \in {"left", "right"},
                                        e \in {Ref("Inner"), Ref("Alone"), GetAtt("Inner", "Arn"), Ref("Size"),
                                               GetAtt("Inner", "Name"), Ref("Key"),
                                               Fn("Fn::Join", <<Literal(":"), ListExpr(<<Ref("Inner")>>)>>)}}
       \cup {[stack |-> "root", expr |-> e] : e \in {Ref("Bucket"), GetAtt("Left", "Out"), Ref("AWS::Region")}}

(***************************************************************************)
(* What the evaluation of the template goes through, and how deep.         *)
(***************************************************************************)
RECURSIVE Leads(_, _), Depth(_, _)

Leads(t, x) == {x} \cup UNION {Leads(t, y) : y \in Links(t, x)}

Depth(t, x) == LET links == Links(t, x) IN IF links = {} THEN 0 ELSE 1 + Max({Depth(t, y) : y \in links})

Exploring(t) ==
  LET seeds == {PropsOf(t, a) : a \in DOMAIN t.resources}
               \cup {<<k[1], t.conditions[k]>> : k \in DOMAIN t.conditions}
               \cup {<<stack, ask.expr>> : stack \in DOMAIN t.parentOf, ask \in AsksOf(t.name)}
  IN  [t EXCEPT !.depth = [x \in UNION {Leads(t, y) : y \in seeds} |-> Depth(t, x)]]

MayNeed(t, x) == IF computed(x[2]) THEN {<<x[1], "Bucket">>} ELSE LookedUp(t, x)

Probed(stack, e) ==
  LET t    == [Base EXCEPT !.resources = @ @@ (<<stack, "Probe">> :> [Resource("native", <<"probe">>) EXCEPT
                                                                         !.props = Props(e)])]
      uses == DOMAIN t.resources \cap UNION {MayNeed(t, x) : x \in Leads(t, <<stack, Props(e)>>)}
      kept == uses \cup {<<stack, "Probe">>}
                \cup (IF stack = "left" \/ \E a \in uses : a[1] = "left"
                      THEN {<<"root", "Left">>, <<"root", "Bucket">>, <<"root", "Hook">>} ELSE {})
                \cup {a \in DOMAIN t.cidrBlocks : t.cidrBlocks[a] \in uses}
  IN  [t EXCEPT !.resources  = [a \in kept |-> @[a]], !.name = "probed",
                !.parameters = [a \in {b \in DOMAIN @ : b[1] = "root" \/ <<"root", "Left">> \in kept} |-> @[a]],
                !.cidrBlocks = [a \in {b \in DOMAIN @ : @[b] \in uses} |-> @[a]]]

Exprs == Leaves \cup {InList(e) : e \in Leaves} \cup UNION {Functions(e) : e \in Leaves \ {NoValue}} \cup Subs \cup UNION {OfList(e) : e \in Lists}

(***************************************************************************)
(* The names of what is in the nested stacks are those of a resource and   *)
(* of a parameter of the root stack too.                                   *)
(***************************************************************************)
SameNames ==
  [Base EXCEPT !.name = "same names",
               !.resources  = [a \in {<<"root", n>> : n \in {"Bucket", "Hook", "Left", "Right"}}
                                     \cup {<<"left", "Inner">>, <<"right", "Inner">>} |-> @[a]]
                              @@ (<<"root", "Inner">> :> WithAttribute(Resource("native", <<"root inner">>),
                                                                      "Arn", "arn", <<"root arn">>)),
               !.parameters = @ @@ (<<"root", "Size">> :> Parameter("AWS::SSM::Parameter::Name", "image", None)),
               !.cidrBlocks = <<>>]

AnyTemplate ==
  {Exploring(t) : t \in
  {Probed(stack, e) : stack \in {"root", "left"}, e \in Exprs} \cup {Base, SameNames}
    \cup {[Base EXCEPT !.parameters = @ @@ (<<"root", "Size">> :> Parameter("Number", "3", None))],
          [Base EXCEPT !.parameters = @ @@ (<<"right", "Size">> :> Parameter("String", "", Literal("")))]}}

Asks == [name \in {"base", "probed", "same names"} |-> AsksOf(name)]

(***************************************************************************)
(* Templates where the code gives something else than CloudFormation.      *)
(***************************************************************************)
SameNameTemplates == {Exploring(SameNames)}

ZonesTemplates == {Exploring(Probed("root", ZonesOf(Ref("AWS::Region"))))}

ComputedTemplates == {Exploring(Probed("root", ComputedRef(Literal("Bucket"))))}
=============================================================================
