-------------------------------- MODULE Mapping --------------------------------
(***************************************************************************)
(* The resources of one stack from their constructs to the resources that  *)
(* Pulumi is asked for: Stack.allocateLogicalId (src/stack.ts) when CDK    *)
(* synthesizes the stack, then for one after the other the end of          *)
(* processIntrinsics, mapResource and registerResource                     *)
(* (src/converters/app-converter.ts).                                      *)
(***************************************************************************)
EXTENDS ResourceMapping

CONSTANTS
  processed(_),   \* the properties with dynamic references resolved: processValues of DynamicReferences
  Programs        \* [constructs, synthesizer]; a construct is [path, type, props]

(***************************************************************************)
(* The properties that a mapping creates resources for, one for each of    *)
(* the items; there are numerals enough.                                   *)
(***************************************************************************)
Listed(raw) == {Get(normalized(raw, ""), toSdkName(k)).items : k \in {Queues, Topics, Groups, Roles, Users}}

WellFormed(p) ==
  /\ IsSequence(p.constructs)
  /\ \A i \in DOMAIN p.constructs :
       /\ p.constructs[i].path \in Seq(Seq(STRING))
       /\ \A items \in Listed(processed(p.constructs[i].props)) :
            IsSequence(items) /\ Len(items) <= Len(Numerals)

(***************************************************************************)
(* What is assumed of the constants.                                       *)
(***************************************************************************)
Assumptions ==
  MaxHumanLen \in Nat /\ NumeralsDiffer /\ RemappedApart /\ \A p \in Programs : WellFormed(p)

ASSUME MappingAssumption == Assumptions

VARIABLES
  program,      \* constant
  ids,          \* the logical ids
  created,      \* the mapping of each construct so far
  registered,   \* of each construct so far: the position in its mapping of the main resource
  status        \* "synthesizing", "converting", "refused"

vars == <<program, ids, created, registered, status>>

Init ==
  /\ program \in Programs
  /\ ids = <<>>
  /\ created = <<>>
  /\ registered = <<>>
  /\ status = "synthesizing"

constructs == program.constructs

-----------------------------------------------------------------------------
(***************************************************************************)
(* The id of each construct is from its path below the stack.  CDK refuses *)
(* an empty id and one that the template has already.                      *)
(***************************************************************************)
AllocateLogicalIds ==
  /\ status = "synthesizing"
  /\ ids' = [i \in DOMAIN constructs |-> makeUniqueId(constructs[i].path)]
  /\ status' = IF Distinct(ids') /\ \A i \in DOMAIN constructs : ids'[i] # <<>> THEN "converting" ELSE "refused"
  /\ UNCHANGED <<program, created, registered>>

(***************************************************************************)
(* registerResource: the main resource of a mapping.                       *)
(***************************************************************************)
mainResource(mapping, id) ==
  LET own == {i \in DOMAIN mapping : mapping[i].logicalId = id}
  IN  IF own = {} THEN 0 ELSE CHOOSE i \in own : \A j \in own : i <= j

next == Len(created) + 1

ConvertAnyway ==   \* a fault: a mapping without a main resource is registered
  /\ status = "converting"
  /\ next \in DOMAIN constructs
  /\ LET c       == constructs[next]
         mapping == mapResource(ids[next], c.type, processed(c.props), program.synthesizer)
     IN  created' = Append(created, mapping) /\ registered' = Append(registered, mainResource(mapping, ids[next]))
  /\ UNCHANGED <<program, ids, status>>

ConvertResource ==
  /\ status = "converting"
  /\ next \in DOMAIN constructs
  /\ LET c       == constructs[next]
         mapping == mapResource(ids[next], c.type, processed(c.props), program.synthesizer)
         main    == mainResource(mapping, ids[next])
     IN  IF main = 0
         THEN status' = "refused" /\ UNCHANGED <<created, registered>>
         ELSE created' = Append(created, mapping) /\ registered' = Append(registered, main) /\ UNCHANGED status
  /\ UNCHANGED <<program, ids>>

Next == AllocateLogicalIds \/ ConvertResource

Spec == Init /\ [][Next]_vars

-----------------------------------------------------------------------------
(***************************************************************************)
(* What is created is the beginning of what the stack has.  A resource is  *)
(* looked up, by Ref, GetAtt and DependsOn, under the logical id of the    *)
(* template: that is the id of the one registered for it, in whatever      *)
(* order a mapping returns them, and of no other that it created.          *)
(***************************************************************************)
TypeOK ==
  /\ status \in {"synthesizing", "converting", "refused"}
  /\ Len(created) <= Len(constructs)
  /\ DOMAIN registered = DOMAIN created
  /\ \A i \in DOMAIN created : registered[i] \in DOMAIN created[i] /\ ids[i] # <<>>
  /\ \A i \in DOMAIN created : \A j \in DOMAIN created[i] :
       created[i][j].logicalId = ids[i] <=> j = registered[i]

(***************************************************************************)
(* What it follows from: the ids are those of the paths, all at once and   *)
(* checked before anything is created, and what is created of a construct  *)
(* is its mapping, under its id and with its main resource.                *)
(***************************************************************************)
IdsOfPaths ==
  /\ ids \in {<<>>, [i \in DOMAIN constructs |-> makeUniqueId(constructs[i].path)]}
  /\ status = "synthesizing" => created = <<>>
  /\ status = "converting" =>
       DOMAIN ids = DOMAIN constructs /\ Distinct(ids) /\ \A i \in DOMAIN ids : ids[i] # <<>>
  /\ created # <<>> => DOMAIN ids = DOMAIN constructs /\ Distinct(ids)

CreatedAsMapped ==
  \A i \in DOMAIN created :
    created[i] = mapResource(ids[i], constructs[i].type, processed(constructs[i].props), program.synthesizer)

MappingInv ==
  WellFormed(program) /\ IsSequence(created) /\ IsSequence(registered) /\ TypeOK /\ IdsOfPaths /\ CreatedAsMapped

(***************************************************************************)
(* Resources created for different constructs, or several for one, never   *)
(* have one type and one name: the names that mapToAwsResource makes up    *)
(* are not logical ids, and lower case only merges ids that differ in      *)
(* nothing else.                                                           *)
(***************************************************************************)
Resources == UNION {{<<i, j>> : j \in DOMAIN created[i]} : i \in DOMAIN created}

NamesDiffer ==
  Distinct([i \in DOMAIN ids |-> Lowered(ids[i])]) =>
    \A x, y \in Resources :
      LET r == created[x[1]][x[2]]
          q == created[y[1]][y[2]]
      IN  r.type = q.type /\ r.name = q.name => x = y

(***************************************************************************)
(* "This allows refactoring higher level abstractions around constructs    *)
(* without affecting the IDs of already deployed resources" (src/stack.ts):*)
(* no Default in a path changes the id, next to a duplicate neither.       *)
(***************************************************************************)
IdIgnoresDefault ==
  \A i \in DOMAIN ids : \A k \in 1..(Len(constructs[i].path) + 1) :
    makeUniqueId(InsertAt(constructs[i].path, k, HiddenId)) = ids[i]
=============================================================================
