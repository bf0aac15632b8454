---------------------------- MODULE MappedArguments ----------------------------
(***************************************************************************)
(* The arguments of the resources that Mapping creates: their properties,  *)
(* with the names that Pulumi has for them, with the dynamic references    *)
(* resolved and with the secrets marked.  Here normalized is normalize of  *)
(* Metadata, and processed is processValues of DynamicReferences.          *)
(***************************************************************************)
EXTENDS Mapping, Metadata, DynamicReferences

Given(i) == program.constructs[i]

Native(i) == Given(i).type \notin AwsTypes \cup DOMAIN remapCloudControlResource
               /\ ~isCustomResource(Given(i).type)

InputsOf(type) == IF type \in DOMAIN inputs THEN inputs[type] ELSE <<>>

Props(i) == Known(processValues(Given(i).props))

ConvertedBySchema(i) ==
  EachItem(Props(i), SdkName, LAMBDA k, x : Converted(x, PropertyOf(InputsOf(Given(i).type), k)))

PlainlyTyped(i) ==
  \A j \in DOMAIN Props(i).items :
    PlainMaps(Props(i).items[j].value, PropertyOf(InputsOf(Given(i).type), Props(i).items[j].key))

DocumentNames == {PolicyDocument} \cup Range(Parameters) \cup Range(Variables)

DocumentsUntouched(i) ==
  \A k \in DocumentNames :
    LET arg == IF k = PolicyDocument THEN <<"policy">> ELSE toSdkName(k)
    IN  Given(i).type \in AwsTypes /\ Has(Props(i), k)
          => Get(Known(created[i][registered[i]].args), arg) = Get(Props(i), k)

TxtRecordsWhole(i) ==
  Given(i).type = "AWS::Route53::RecordSet" /\ Get(Props(i), RecordType) = Leaf(<<"TXT">>) =>
    LET in  == Get(Props(i), Records).items
        out == Get(created[i][1].args, <<"records">>).items
        chars(items) == FlattenSeq([j \in DOMAIN items |-> items[j].value.text])
    IN  /\ 2 * Len(out) = Len(SelectSeq(chars(in), LAMBDA c : c = "'"))
        /\ chars(out) = SelectSeq(chars(in), LAMBDA c : c # "'")

(***************************************************************************)
(* The arguments of a native resource are its properties converted by the  *)
(* schema, at any depth, in lists and in eventual values: the names that   *)
(* CloudFormation gives are converted, though the path they are looked up  *)
(* by is converted on the way, and those that the user gives in maps and   *)
(* in JSON are not (but for PlainMaps, where they are).  Where there is no *)
(* schema, a policy document and the maps of an API arrive as they were,   *)
(* and a TXT record is one text between two quotes, without them.          *)
(***************************************************************************)
ArgumentsConverted ==
  \A i \in DOMAIN created :
    /\ Native(i) /\ PlainlyTyped(i) => Known(created[i][1].args) = ConvertedBySchema(i)
    /\ DocumentsUntouched(i)
    /\ TxtRecordsWhole(i)

(***************************************************************************)
(* Without that exception: "Objects with additionalProperties can have     *)
(* arbitrary keys that should not be transformed" (src/pulumi-metadata.ts).*)
(***************************************************************************)
MapKeysKept ==
  \A i \in DOMAIN created : Native(i) => Known(created[i][1].args) = ConvertedBySchema(i)

-----------------------------------------------------------------------------
RECURSIVE Within(_)

Within(v) == {v} \cup UNION {Within(v.items[i].value) : i \in DOMAIN v.items}

(***************************************************************************)
(* The references of a value that the code is known to treat otherwise:    *)
(* one that is an element of a list, and an ARN with fewer than four       *)
(* segments after it.                                                      *)
(***************************************************************************)
ShortArn(text) == LET segs == Segments(text, "secretsmanager")
                  IN  segs # <<>> /\ segs[1] = "arn" /\ Len(segs) < 11

IsReference(v) == v.kind = "string" /\ v.text[1] = "resolve"

InList(v) == \E x \in Within(v) : x.kind = "list" /\ \E i \in DOMAIN x.items : IsReference(x.items[i].value)

(***************************************************************************)
(* A dynamic reference is replaced by the value that AWS has for it, a     *)
(* secret is marked as one, and a SecureString is not given to an ssm      *)
(* reference, nor a String as a secret: at any depth, and when the string  *)
(* is eventual.                                                            *)
(***************************************************************************)
Resolved(i) == Props(i) = Meaning(Given(i).props)

ReferencesResolved ==
  \A i \in DOMAIN created :
    LET props == Known(Given(i).props)
    IN  ~InList(props) /\ (\A x \in Within(props) : ~ShortArn(x.text))
          => Known(created[i][registered[i]].args)
               = Known(mapResource(ids[i], Given(i).type, Meaning(props), program.synthesizer)
                         [registered[i]].args)

(***************************************************************************)
(* No text that AWS keeps as a secret is an argument, or a part of one,    *)
(* that is not marked as a secret.                                         *)
(***************************************************************************)
RECURSIVE InTheOpen(_)

InTheOpen(v) == IF v.kind = "secret" THEN {}
                ELSE {v.text} \cup UNION {InTheOpen(v.items[i].value) : i \in DOMAIN v.items}

KeptSecret(text) ==
  Len(text) > 2 /\ text[1] = "AWS"
    /\ (text[2] = "ssm" => parameterType[text[3]] = "SecureString")

SecretsStaySecret ==
  \A x \in Resources : \A text \in InTheOpen(created[x[1]][x[2]].args) : ~KeptSecret(text)

(***************************************************************************)
(* "To access a secret in a different AWS account, specify the complete    *)
(* ARN of the secret" (src/converters/dynamic-references.ts), whatever     *)
(* follows it.                                                             *)
(***************************************************************************)
CompleteArn ==
  \A i \in DOMAIN created :
    ~InList(Known(Given(i).props)) => Resolved(i)
=============================================================================
