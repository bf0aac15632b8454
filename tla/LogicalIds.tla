------------------------------ MODULE LogicalIds ------------------------------
(***************************************************************************)
(* The logical ids of a Stack (src/cdk-logical-id.ts), which have no hash: *)
(* they are what Pulumi names resources by, so a change of one replaces a  *)
(* resource.  A component of a path is a sequence of characters, of which  *)
(* "-" stands for the non-alphanumeric ones; Default and Resource are the  *)
(* two components with a meaning of their own.                             *)
(***************************************************************************)
EXTENDS Integers, Sequences, SequencesExt

CONSTANT MaxHumanLen   \* MAX_HUMAN_LEN, 240

HiddenFromHumanId == <<"Resource">>   \* one character each: neither ends with another component
HiddenId          == <<"Default">>

(***************************************************************************)
(* The elements of s other than x, in their order.                         *)
(***************************************************************************)
Without(s, x) ==
  LET kept[i \in 0..Len(s)] ==
        IF i = 0 THEN <<>> ELSE IF s[i] = x THEN kept[i - 1] ELSE Append(kept[i - 1], s[i])
  IN  kept[Len(s)]

AllKept(c) == c   \* a fault: nothing is removed

removeNonAlphanumeric(c) == Without(c, "-")

removeDupes(path) ==
  LET add(ret, c) == IF ret # <<>> /\ IsSuffix(c, Last(ret)) THEN ret ELSE Append(ret, c)
      ret[i \in 0..Len(path)] == IF i = 0 THEN <<>> ELSE add(ret[i - 1], path[i])
  IN  ret[Len(path)]

Human(path) ==
  LET visible == Without(path, HiddenFromHumanId)
      text    == FlattenSeq([i \in DOMAIN visible |-> removeNonAlphanumeric(visible[i])])
  IN  SubSeq(text, 1, IF Len(text) < MaxHumanLen THEN Len(text) ELSE MaxHumanLen)

DefaultRemovedLast(components) ==   \* a fault: Default still separates duplicates
  Human(Without(removeDupes(components), HiddenId))

(***************************************************************************)
(* A path with no other component than Default is refused.                 *)
(***************************************************************************)
makeUniqueId(components) == Human(removeDupes(Without(components, HiddenId)))
=============================================================================
