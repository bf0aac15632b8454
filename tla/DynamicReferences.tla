--------------------------- MODULE DynamicReferences ---------------------------
(***************************************************************************)
(* Dynamic references (src/converters/dynamic-references.ts), strings of   *)
(* the form {{resolve:service:segment:...}}.  The text of one is           *)
(* <<"resolve", service>> and its segments; a number is the version of an  *)
(* SSM parameter.  AWS answers with a text that begins with "AWS".         *)
(***************************************************************************)
EXTENDS PropertyValues

CONSTANT parameterType   \* of the SSM parameters: "String", "StringList", "SecureString"

Segments(text, service) == IF Len(text) > 2 /\ SubSeq(text, 1, 2) = <<"resolve", service>>
                           THEN SubSeq(text, 3, Len(text)) ELSE <<>>

(***************************************************************************)
(* SSM_PLAINTEXT_DYNAMIC_REGEX and SSM_SECURE_DYNAMIC_REGEX: a name and    *)
(* perhaps a version.                                                      *)
(***************************************************************************)
parseSSM(text, service) ==
  LET segs == Segments(text, service)
  IN  IF \/ Len(segs) = 1 /\ segs[1] # ""
         \/ Len(segs) = 2 /\ segs[1] # "" /\ segs[2] \in {"0", "1", "2"}
      THEN segs ELSE <<>>

Decrypted(name) ==   \* a fault: with decryption, and for any type
  Eventually(Leaf(<<"AWS", "ssm">> \o name))

resolveSSMDynamicPlaintextReference(name) ==
  Eventually(IF parameterType[name[1]] \in {"String", "StringList"} THEN Leaf(<<"AWS", "ssm">> \o name) ELSE Error)

resolveSSMDynamicSecureStringReference(name) ==
  Eventually(IF parameterType[name[1]] = "SecureString" THEN Secret(Leaf(<<"AWS", "ssm">> \o name)) ELSE Error)

(***************************************************************************)
(* SECRETS_MANAGER_DYNAMIC_REGEX: the lazy secret id takes no more segments*)
(* than needed for at most four to be left, none of its own empty.         *)
(***************************************************************************)
FirstSegment(segs) ==   \* a fault: an id has no colons
  IF segs # <<>> /\ segs[1] # "" /\ Len(segs) <= 5 THEN 1 ELSE 0

secretIdLength(segs) ==
  LET n == IF Len(segs) > 4 THEN Len(segs) - 4 ELSE 1
  IN  IF segs # <<>> /\ \A i \in 1..n : segs[i] # "" THEN n ELSE 0

parseDynamicSecretReference(text) ==
  LET segs    == Segments(text, "secretsmanager")
      n       == secretIdLength(segs)
      part(i) == IF n + i <= Len(segs) THEN segs[n + i] ELSE ""
  IN  [secretId |-> SubSeq(segs, 1, n), jsonKey |-> part(2), versionStage |-> part(3), versionId |-> part(4)]

SecretText(r) == <<"AWS", "secret">> \o r.secretId \o <<"", r.jsonKey, r.versionStage, r.versionId>>

resolveSecretsManagerDynamicReference(r) == Eventually(Secret(Leaf(SecretText(r))))

parseString(v) ==
  LET secret == parseDynamicSecretReference(v.text)
      plain  == parseSSM(v.text, "ssm")
      secure == parseSSM(v.text, "ssm-secure")
  IN  CASE secret.secretId # <<>> -> resolveSecretsManagerDynamicReference(secret)
        [] plain # <<>>           -> resolveSSMDynamicPlaintextReference(plain)
        [] secure # <<>>          -> resolveSSMDynamicSecureStringReference(secure)
        [] OTHER                  -> v

parseDynamicValue(v) ==
  CASE v.kind = "string" -> parseString(v)
    [] v.kind = "eventual" /\ Inside(v).kind = "string" -> Eventually(parseString(Inside(v)))
    [] OTHER -> v

(***************************************************************************)
(* processIntrinsics parses the values of objects, eventual or not, when   *)
(* what is in them is parsed; those of a list only if they are in objects. *)
(***************************************************************************)
RECURSIVE processValues(_)

processValues(v) ==
  CASE v.kind = "object" -> EachItem(v, LAMBDA k : k, LAMBDA k, x : parseDynamicValue(processValues(x)))
    [] v.kind = "list"   -> EachItem(v, LAMBDA k : k, LAMBDA k, x : processValues(x))
    [] OTHER             -> v

-----------------------------------------------------------------------------
(***************************************************************************)
(* The reference: an ARN has seven segments, a name has one; only a secret *)
(* or a SecureString asked for as such is given, marked as a secret.       *)
(***************************************************************************)
SecretMeaning(segs) ==
  LET n       == IF segs[1] = "arn" THEN 7 ELSE 1
      part(i) == IF n + i <= Len(segs) THEN segs[n + i] ELSE ""
  IN  Secret(Leaf(<<"AWS", "secret">> \o SubSeq(segs, 1, n) \o <<"", part(2), part(3), part(4)>>))

ParameterMeaning(segs, secure) ==
  CASE secure # (parameterType[segs[1]] = "SecureString") -> Error
    [] secure -> Secret(Leaf(<<"AWS", "ssm">> \o segs))
    [] OTHER  -> Leaf(<<"AWS", "ssm">> \o segs)

StringMeaning(text) ==
  CASE Segments(text, "secretsmanager") # <<>> -> SecretMeaning(Segments(text, "secretsmanager"))
    [] Segments(text, "ssm") # <<>>            -> ParameterMeaning(Segments(text, "ssm"), FALSE)
    [] Segments(text, "ssm-secure") # <<>>     -> ParameterMeaning(Segments(text, "ssm-secure"), TRUE)
    [] OTHER                                   -> Leaf(text)

(***************************************************************************)
(* A value without what is eventual about it.                              *)
(***************************************************************************)
RECURSIVE Known(_)

Known(v) == IF v.kind = "eventual" THEN Known(Inside(v))
            ELSE EachItem(v, LAMBDA k : k, LAMBDA k, x : Known(x))

RECURSIVE Meaning(_)

Meaning(v) == CASE v.kind = "eventual" -> Meaning(Inside(v))
                [] v.kind = "string"   -> StringMeaning(v.text)
                [] OTHER               -> EachItem(v, LAMBDA k : k, LAMBDA k, x : Meaning(x))
=============================================================================
