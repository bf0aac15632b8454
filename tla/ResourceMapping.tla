---------------------------- MODULE ResourceMapping ----------------------------
(***************************************************************************)
(* From one resource of a template to Pulumi resources: mapToAwsResource   *)
(* (src/aws-resource-mappings.ts), mapToCustomResource                     *)
(* (src/custom-resource-mapping.ts), mapToCfnResource                      *)
(* (src/cfn-resource-mappings.ts).                                         *)
(*                                                                         *)
(* A mapping is a sequence of [logicalId, type, name, args, attributes];   *)
(* an error is the empty one, which registerResource refuses too.  A name  *)
(* is a sequence of strings.                                               *)
(***************************************************************************)
EXTENDS PropertyValues, PropertyNames, LogicalIds, TLC

CONSTANTS
  normalized(_, _),           \* the properties converted by the schema of a type: normalize of Metadata
  Numerals,                   \* the texts of 0, 1, 2 and so on
  remapCloudControlResource   \* the user's: of some types, the suffixes of the ids it returns

Distinct(s) == \A i, j \in DOMAIN s : s[i] = s[j] => i = j

IsSequence(s) == Len(s) \in Nat /\ s = [i \in 1..Len(s) |-> s[i]]

NumeralsDiffer == Numerals \in Seq(STRING) /\ Distinct(Numerals)

(***************************************************************************)
(* The user sets the ids off from the one given, and from each other.      *)
(***************************************************************************)
IsSuffixOfId(t) == t \in Seq(STRING) /\ (t = <<>> \/ t[1] = "-")

RemappedApart ==
  \A type \in DOMAIN remapCloudControlResource :
    LET suffixes == remapCloudControlResource[type]
    IN  /\ suffixes \in Seq(Seq(STRING)) /\ Distinct(suffixes)
        /\ \A i \in DOMAIN suffixes : IsSuffixOfId(suffixes[i])

Refused == <<>>

Mapped(id, type, args) ==
  [logicalId |-> id, type |-> type, name |-> id, args |-> args, attributes |-> "none"]

Only(m) == <<m>>

-----------------------------------------------------------------------------
(***************************************************************************)
(* A QueuePolicy or a TopicPolicy is one for each queue or topic, of which *)
(* the first has the logical id.  The list must be known.                  *)
(***************************************************************************)
WithSuffix(id, kind, i) == id \o <<"-", kind, "-", Numerals[i]>>

policies(id, type, document, targets) ==
  LET name(i) == IF i = 1 THEN id ELSE WithSuffix(id, "policy", i)
  IN  IF targets.kind # "list" THEN Refused
      ELSE [i \in DOMAIN targets.items |->
              Mapped(name(i), type, Object(<<Field(<<"policy">>, document),
                                             Field(<<"target">>, targets.items[i].value)>>))]

(***************************************************************************)
(* An IAM Policy and its attachments.                                      *)
(***************************************************************************)
attachments(id, kind, targets) ==
  [i \in DOMAIN targets.items |->
     Mapped(WithSuffix(id, kind, i), kind, Object(<<Field(<<"policy">>, Leaf(id \o <<"arn">>)),
                                                    Field(<<"target">>, targets.items[i].value)>>))]

iamPolicy(id, raw, props) ==
  IF \E k \in {Groups, Roles, Users} : Get(props, toSdkName(k)).kind \notin {"list", "undefined"} THEN Refused
  ELSE Only(Mapped(id, "policy", Object(<<Field(<<"policy">>, Get(raw, PolicyDocument))>>)))
         \o attachments(id, "group", Get(props, toSdkName(Groups)))
         \o attachments(id, "role", Get(props, toSdkName(Roles)))
         \o attachments(id, "user", Get(props, toSdkName(Users)))

(***************************************************************************)
(* TXT records: a text is in quotes, one of more than 255 characters in    *)
(* several, end to end.                                                    *)
(***************************************************************************)
TxtRecords(text) ==
  LET others(i)   == {j \in 1..i : text[j] # "'"} \cup {0}
      quotes(i)   == i - CHOOSE j \in others(i) : \A k \in others(i) : k <= j   \* in a row, up to i
      add(acc, i) == CASE text[i] # "'"       -> [acc EXCEPT ![Len(acc)] = Append(@, text[i])]
                       [] quotes(i) % 2 = 0   -> Append(acc, <<>>)
                       [] OTHER               -> acc
  IN  FoldLeft(add, << <<>> >>, [i \in DOMAIN text |-> i])

recordSet(id, props) ==
  LET records == Get(props, toSdkName(Records))
      texts   == FlattenSeq([i \in DOMAIN records.items |-> TxtRecords(records.items[i].value.text)])
      result(v) == Only(Mapped(id, "record", Object(<<Field(<<"records">>, v)>>)))
  IN  CASE Get(props, toSdkName(RecordType)) # Leaf(<<"TXT">>) -> result(records)
        [] records.kind # "list" \/ \E i \in DOMAIN records.items : records.items[i].value.kind # "string" -> Refused
        [] OTHER -> result(List([i \in DOMAIN texts |-> Leaf(texts[i])]))

eventBusPolicy(id, raw) ==
  IF Has(raw, Statement) /\ \E k \in {Principal, Action, Condition} : Has(raw, k) THEN Refused
  ELSE Only(Mapped(id, "eventBusPolicy", Object(<<Field(<<"policy">>,
         IF Has(raw, Statement) THEN Get(raw, Statement) ELSE Get(raw, Principal))>>)))

(***************************************************************************)
(* What the user names is taken from the raw properties.                   *)
(***************************************************************************)
WithRaw(props, raw, names) ==
  Object(SelectSeq(props.items, LAMBDA f : \A i \in DOMAIN names : f.key # toSdkName(names[i]))
           \o [i \in DOMAIN names |-> Field(toSdkName(names[i]), Get(raw, names[i]))])

mapToAwsResource(id, type, raw) ==
  LET mapped(props) ==
        CASE type = "AWS::ApiGatewayV2::Integration" -> Only(Mapped(id, "integration", WithRaw(props, raw, Parameters)))
          [] type = "AWS::ApiGatewayV2::Stage" -> Only(Mapped(id, "stage", WithRaw(props, raw, Variables)))
          [] type = "AWS::SQS::QueuePolicy" ->
               policies(id, type, Get(raw, PolicyDocument), Get(props, toSdkName(Queues)))
          [] type = "AWS::SNS::TopicPolicy" ->
               policies(id, type, Get(raw, PolicyDocument), Get(props, toSdkName(Topics)))
          [] type = "AWS::IAM::Policy"             -> iamPolicy(id, raw, props)
          [] type = "AWS::Route53::RecordSet"      -> recordSet(id, props)
          [] type = "AWS::Events::EventBusPolicy"  -> eventBusPolicy(id, raw)
  IN  mapped(normalized(raw, ""))

AwsTypes == {"AWS::ApiGatewayV2::Integration", "AWS::ApiGatewayV2::Stage", "AWS::SQS::QueuePolicy",
             "AWS::SNS::TopicPolicy", "AWS::IAM::Policy", "AWS::Route53::RecordSet", "AWS::Events::EventBusPolicy"}

-----------------------------------------------------------------------------
(***************************************************************************)
(* A custom resource needs a PulumiSynthesizer, for the bucket its answer  *)
(* is left in, under a key of its own.                                     *)
(***************************************************************************)
isCustomResource(type) == type \in {"AWS::CloudFormation::CustomResource", "Custom::Hook"}

mapToCustomResource(id, type, raw, synthesizer) ==
  IF synthesizer # "pulumi" THEN Refused
  ELSE Only(Mapped(id, "emulator", Object(<<Field(<<"customResourceProperties">>, raw),
                                            Field(<<"bucketKeyPrefix">>, Leaf(id))>>)))

(***************************************************************************)
(* A resource of the aws-native provider.                                  *)
(***************************************************************************)
LowerCased == {"AWS::S3::Bucket", "AWS::S3::AccessPoint", "AWS::ECR::Repository"}

idAttribute ==
  "AWS::ApiGateway::Model" :> "name" @@ "AWS::ApiGateway::Resource" :> "resourceId"
  @@ "AWS::ApiGateway::Deployment" :> "deploymentId" @@ "AWS::ApiGateway::Stage" :> "stageName"
  @@ "AWS::ApiGatewayV2::Authorizer" :> "authorizerId" @@ "AWS::ApiGateway::Authorizer" :> "authorizerId"

mapToCfnResource(id, type, raw) ==
  LET r == Mapped(id, type, normalized(raw, type))
  IN  IF type \notin LowerCased \cup DOMAIN idAttribute \cup DOMAIN inputs THEN Refused
      ELSE Only([r EXCEPT !.name = IF type \in LowerCased THEN Lowered(id) ELSE @,
                          !.attributes = IF type \in DOMAIN idAttribute THEN idAttribute[type] ELSE @])

-----------------------------------------------------------------------------
(***************************************************************************)
(* mapResource: what the user maps first.                                  *)
(***************************************************************************)
mapResource(id, type, raw, synthesizer) ==
  IF type \in DOMAIN remapCloudControlResource
  THEN LET suffixes == remapCloudControlResource[type]
       IN  [i \in DOMAIN suffixes |-> Mapped(id \o suffixes[i], "remapped", raw)]
  ELSE CASE type \in AwsTypes      -> mapToAwsResource(id, type, raw)
         [] isCustomResource(type) -> mapToCustomResource(id, type, raw, synthesizer)
         [] OTHER                  -> mapToCfnResource(id, type, raw)
=============================================================================
