------------------------------- MODULE Metadata -------------------------------
(***************************************************************************)
(* The conversion of the properties of a resource with the metadata of the *)
(* aws-native provider (src/pulumi-metadata.ts, src/interop.ts).           *)
(*                                                                         *)
(* A property is [type, ref, of]: of is the property of the items of an    *)
(* array or of the values of a map, which is an object with                *)
(* additionalProperties, and <<>> otherwise; ref is "Any" for              *)
(* pulumi.json#/Any, the name of a type, or "".                            *)
(***************************************************************************)
EXTENDS PropertyValues, PropertyNames, SequencesExt

CONSTANT types   \* the types by name, their properties by name

Property(type, ref, of) == [type |-> type, ref |-> ref, of |-> of]

NoMeta == [known |-> FALSE, properties |-> <<>>]

RECURSIVE processMetadataProperty(_)

processMetadataProperty(p) ==
  CASE p.type = "map" ->
         LET r == processMetadataProperty(p.of[1])
         IN  [r EXCEPT !.nativeType = IF @ = "JSON" THEN "JSON" ELSE "ADDITIONAL_PROPERTIES"]
    [] p.type = "object" -> [nativeType |-> "JSON", meta |-> NoMeta]
    [] p.type = "array"  -> processMetadataProperty(p.of[1])
    [] p.type = "" /\ p.ref = "Any" -> [nativeType |-> "JSON", meta |-> NoMeta]
    [] p.type = "" /\ p.ref \in DOMAIN types ->
         [nativeType |-> "undefined", meta |-> [known |-> TRUE, properties |-> types[p.ref]]]
    [] OTHER -> [nativeType |-> "NON_JSON", meta |-> NoMeta]

(***************************************************************************)
(* getNativeType, down the path of names; "throws" where the properties of *)
(* what has none are asked for (prop in undefined).                        *)
(***************************************************************************)
WithoutPath(path, properties) ==   \* a fault: as if the last name were a property of the resource
  IF toSdkName(Last(path)) \notin DOMAIN properties THEN "NON_JSON"
  ELSE processMetadataProperty(properties[toSdkName(Last(path))]).nativeType

getNativeType(path, properties) ==
  LET step(s, name) ==
        CASE s.done         -> s
          [] ~s.meta.known  -> [s EXCEPT !.type = "throws", !.done = TRUE]
          [] toSdkName(name) \notin DOMAIN s.meta.properties -> [s EXCEPT !.type = "NON_JSON", !.done = TRUE]
          [] OTHER ->
               LET r == processMetadataProperty(s.meta.properties[toSdkName(name)])
               IN  [type |-> IF r.nativeType = "undefined" THEN "NON_JSON" ELSE r.nativeType,
                    meta |-> r.meta, done |-> r.nativeType = "JSON"]
      start == [type |-> "NON_JSON", meta |-> [known |-> TRUE, properties |-> properties], done |-> FALSE]
  IN  FoldLeft(step, start, path).type

(***************************************************************************)
(* Without a type there is no schema, and where reading the schema fails   *)
(* there is none for anything below.                                       *)
(***************************************************************************)
RECURSIVE normalizeObject(_, _, _)

normalizeObject(path, v, cfnType) ==
  LET native == IF cfnType \in DOMAIN inputs THEN getNativeType(path, inputs[cfnType]) ELSE "throws"
  IN  CASE v.kind # "object"  -> EachItem(v, LAMBDA k : k, LAMBDA k, x : normalizeObject(path, x, cfnType))
        [] native = "JSON"    -> v
        [] native = "ADDITIONAL_PROPERTIES" ->
             EachItem(v, LAMBDA k : k, LAMBDA k, x : normalizeObject(Append(path, k), x, cfnType))
        [] native = "NON_JSON" ->
             EachItem(v, toSdkName, LAMBDA k, x : normalizeObject(Append(path, toSdkName(k)), x, cfnType))
        [] OTHER -> EachItem(v, toSdkName, LAMBDA k, x : normalizeObject(Append(path, k), x, ""))

RECURSIVE normalize(_, _)

normalize(v, cfnType) ==
  IF v.kind = "object" THEN EachItem(v, toSdkName, LAMBDA k, x : normalizeObject(<<k>>, x, cfnType))
  ELSE EachItem(v, LAMBDA k : k, LAMBDA k, x : normalize(x, cfnType))

-----------------------------------------------------------------------------
(***************************************************************************)
(* The reference, down the schema and the value together: JSON stays as it *)
(* is, the keys of a map stay and its values are converted, other names    *)
(* are.                                                                    *)
(***************************************************************************)
NoSchema == Property("", "", <<>>)

PropertyOf(properties, k) == IF SdkName(k) \in DOMAIN properties THEN properties[SdkName(k)] ELSE NoSchema

IsJson(p) == p.type = "object" \/ (p.type = "" /\ p.ref = "Any")

FieldsOf(p) == IF p.type = "" /\ p.ref \in DOMAIN types THEN types[p.ref] ELSE <<>>

RECURSIVE Converted(_, _)

Converted(v, p) ==
  CASE IsJson(p) -> v
    [] v.kind = "object" /\ p.type = "map" ->
         EachItem(v, LAMBDA k : k, LAMBDA k, x : Converted(x, p.of[1]))
    [] v.kind = "object" -> EachItem(v, SdkName, LAMBDA k, x : Converted(x, PropertyOf(FieldsOf(p), k)))
    [] v.kind = "list" /\ p.type = "array" ->
         EachItem(v, LAMBDA k : k, LAMBDA k, x : Converted(x, p.of[1]))
    [] OTHER -> EachItem(v, LAMBDA k : k, LAMBDA k, x : Converted(x, p))

(***************************************************************************)
(* No value of a map has a map or JSON in it, or a key of the map the name *)
(* of a property that its values have.                                     *)
(***************************************************************************)
RECURSIVE PlainMaps(_, _)

PlainMaps(v, p) ==
  LET fields(i) == PropertyOf(FieldsOf(p), v.items[i].key)
      plain(k)  == LET q == p.of[1]
                   IN  /\ SdkName(k) \notin DOMAIN FieldsOf(q)
                       /\ \A f \in DOMAIN FieldsOf(q) : FieldsOf(q)[f].type # "map" /\ ~IsJson(FieldsOf(q)[f])
  IN  CASE v.kind = "object" /\ p.type = "map" -> \A i \in DOMAIN v.items : plain(v.items[i].key)
        [] v.kind = "object" -> \A i \in DOMAIN v.items : PlainMaps(v.items[i].value, fields(i))
        [] v.kind = "list" /\ p.type = "array" -> \A i \in DOMAIN v.items : PlainMaps(v.items[i].value, p.of[1])
        [] OTHER -> \A i \in DOMAIN v.items : PlainMaps(v.items[i].value, p)
=============================================================================
