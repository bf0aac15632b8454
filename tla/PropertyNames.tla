---------------------------- MODULE PropertyNames ----------------------------
(***************************************************************************)
(* From the names of CloudFormation to those of Pulumi (src/naming.ts).  A *)
(* name is a sequence of upper case letters, the digit 1, which counts as  *)
(* one, and groups of other characters, of which the letter s is told      *)
(* apart.                                                                  *)
(***************************************************************************)
EXTENDS Integers, Sequences, FiniteSets

CONSTANT inputs   \* of each type of CloudFormation that the metadata has: its properties by name

lowerCaseOf == [A |-> "a", B |-> "b", D |-> "d", G |-> "g", P |-> "p", Q |-> "q", R |-> "r", S |-> "s",
                T |-> "t", U |-> "u", V |-> "v"]

isUpperAcronymChar(c) == c \in DOMAIN lowerCaseOf \cup {"1"}

toLowerCase(c) == IF c \in DOMAIN lowerCaseOf THEN lowerCaseOf[c] ELSE c

Lowered(s) == [i \in DOMAIN s |-> toLowerCase(s[i])]

(***************************************************************************)
(* The first run <<start, end>>, end not included, of at least two upper   *)
(* case characters; at the end of the name one is enough.                  *)
(***************************************************************************)
Bounds(s, i, j) ==
  /\ i < j
  /\ \A k \in i..(j - 1) : isUpperAcronymChar(s[k])
  /\ i = 1 \/ ~isUpperAcronymChar(s[i - 1])
  /\ j = Len(s) + 1 \/ ~isUpperAcronymChar(s[j])

Runs(s) == {r \in (1..Len(s)) \X (2..(Len(s) + 1)) : Bounds(s, r[1], r[2])}

LongRuns(s) == {r \in Runs(s) : r[2] - r[1] >= 2 \/ r[2] = Len(s) + 1}

First(runs) == IF runs = {} THEN <<>> ELSE CHOOSE r \in runs : \A q \in runs : r[1] <= q[1]

findFirstRunOfUppercase(s) == First(LongRuns(s))

startsWithIsolatedLowercaseS(s) == s # <<>> /\ s[1] = "s" /\ (Len(s) = 1 \/ isUpperAcronymChar(s[2]))

(***************************************************************************)
(* The last character of a run begins the next word, unless the run is     *)
(* followed by the end or by the s of a plural.                            *)
(***************************************************************************)
AcronymOf(s, r) ==
  IF r = <<>> \/ r[2] = Len(s) + 1 \/ startsWithIsolatedLowercaseS(SubSeq(s, r[2], Len(s)))
  THEN r ELSE <<r[1], r[2] - 1>>

firstUppercaseAcronym(s) == AcronymOf(s, findFirstRunOfUppercase(s))

(***************************************************************************)
(* The first acronym of what is left of the name from the i-th character   *)
(* on, and so on behind it.                                                *)
(***************************************************************************)
LoweredAcronym(s, r) == SubSeq(s, 1, r[1]) \o Lowered(SubSeq(s, r[1] + 1, r[2] - 1))

lowerAcronyms(s) ==
  LET rest(i) == SubSeq(s, i, Len(s))
      with(lowered, i, r) ==
        IF r = <<>> THEN rest(i) ELSE LoweredAcronym(rest(i), r) \o lowered[i + r[2] - 1]
      lowered[i \in 1..(Len(s) + 1)] == with(lowered, i, firstUppercaseAcronym(rest(i)))
  IN  lowered[1]

toSdkName(s) == IF s = <<>> THEN s ELSE [lowerAcronyms(s) EXCEPT ![1] = toLowerCase(@)]

(***************************************************************************)
(* attributePropertyName: the first segment of an attribute.               *)
(***************************************************************************)
attributePropertyName(segments) == toSdkName(segments[1])

(***************************************************************************)
(* The names of properties.                                                *)
(***************************************************************************)
PolicyDocument == <<"P", "olicy", "D", "ocument">>
Queues         == <<"Q", "ueues">>
Topics         == <<"T", "opics">>
Groups         == <<"G", "roups">>
Roles          == <<"R", "oles">>
Users          == <<"U", "sers">>
Parameters     == << <<"R", "equest", "P", "arameters">>, <<"R", "equest", "T", "emplates">>,
                     <<"R", "esponse", "P", "arameters">> >>
Variables      == << <<"S", "tage", "V", "ariables">> >>
Records        == <<"R", "esource", "R", "ecords">>
RecordType     == <<"T", "ype">>
Statement      == <<"S", "tatement">>
Principal      == <<"P", "rincipal">>
Action         == <<"A", "ction">>
Condition      == <<"C", "ondition">>

-----------------------------------------------------------------------------
(***************************************************************************)
(* The same, character by character: a character stays unless it is in a   *)
(* run, is not its first and is not the first of the next word.            *)
(***************************************************************************)
SdkName(s) ==
  LET upper(k) == k \in DOMAIN s /\ isUpperAcronymChar(s[k])
      plural(k) == k + 1 \in DOMAIN s /\ s[k + 1] = "s" /\ (k + 1 = Len(s) \/ upper(k + 2))
      newWord(k) == k # Len(s) /\ ~upper(k + 1) /\ ~plural(k)
  IN  [k \in DOMAIN s |-> IF k = 1 \/ (upper(k - 1) /\ upper(k) /\ ~newWord(k)) THEN toLowerCase(s[k]) ELSE s[k]]
=============================================================================
