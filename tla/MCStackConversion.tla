-------------------------- MODULE MCStackConversion --------------------------
(***************************************************************************)
(* Stacks for TLC: each shape is a construct tree, and its templates are   *)
(* all the ways to fill it in within the bounds: at most one expression in *)
(* each resource, parameter and output, and at most one DependsOn in all.  *)
(***************************************************************************)
EXTENDS StackConversion

ref(n) == [fn |-> "Ref", to |-> n]
getAtt(n) == [fn |-> "GetAtt", to |-> n]
sub(n) == [fn |-> "Sub", to |-> n]
ipv6(n) == [fn |-> "Ipv6CidrBlocks", to |-> n]
param == [fn |-> "Param", to |-> 0]

(***************************************************************************)
(* The functions on 1..N that choose from options[n] for each n.           *)
(***************************************************************************)
Choices(options) ==
  LET upTo[i \in 0..N] ==
        IF i = 0 THEN {<<>>} ELSE {Append(s, x) : s \in upTo[i - 1], x \in options[i]}
  IN  upTo[N]

None == [n \in 1..N |-> {}]

DependsOnOf(pairs) == {None} \cup {[None EXCEPT ![p[1]] = {p[2]}] : p \in pairs}

One == [n \in 1..N |-> "one"]

Mapped(kind, how) ==
  {[n \in 1..N |-> IF kind[n] = "resource" THEN h ELSE "one"] : h \in how}

AtMostOne(S) == {{}} \cup {{x} : x \in S}

Paths(parent, kind) ==
  LET path[n \in 1..N] == IF parent[n] = 0 \/ kind[parent[n]] = "nested" THEN parent[n]
                          ELSE path[parent[n]]
  IN  path

(***************************************************************************)
(* The templates of a shape: uses and outputs give, for each construct,    *)
(* the expressions to choose from.                                         *)
(***************************************************************************)
TemplatesOf(parent, kind, uses, outputs, pairs, how, ids) ==
  {t \in {[parent |-> parent, kind |-> kind, stackPath |-> Paths(parent, kind), uses |-> u, outputs |-> o,
           vpcId |-> [n \in 1..N |-> IF kind[n] = "cidr" THEN u[n] ELSE {}], dependsOn |-> d, mapped |-> m, stackId |-> ids] :
            u \in Choices([n \in 1..N |-> AtMostOne(uses[n])]),
            o \in Choices([n \in 1..N |-> AtMostOne(outputs[n])]),
            d \in DependsOnOf(pairs),
            m \in Mapped(kind, how)} :
    WellFormed(t)}

(***************************************************************************)
(* Two nested stacks side by side, 2 and 4, and a resource beside them.    *)
(***************************************************************************)
SiblingNestedStacks ==
  TemplatesOf(<<0, 1, 2, 1, 4, 1>>,
              <<"wrapper", "nested", "resource", "nested", "resource", "resource">>,
              <<{}, {ref(6), getAtt(4)}, {param}, {ref(6), getAtt(2)}, {param},
                {getAtt(2), getAtt(4), sub(2)}>>,
              <<{}, {ref(3), sub(3), param}, {}, {ref(5), param}, {}, {}>>,
              {<<2, 4>>, <<4, 6>>, <<6, 2>>}, {"one"}, {1})

(***************************************************************************)
(* A nested stack, 4, in a wrapper of a nested stack, 2.                   *)
(***************************************************************************)
NestedInNested ==
  TemplatesOf(<<0, 1, 2, 3, 4, 1>>,
              <<"wrapper", "nested", "wrapper", "nested", "resource", "resource">>,
              <<{}, {ref(6)}, {}, {param}, {param}, {getAtt(2), sub(2)}>>,
              <<{}, {getAtt(4), sub(4), param}, {}, {ref(5), param}, {}, {}>>,
              {<<2, 6>>, <<6, 2>>}, {"one"}, {1})

(***************************************************************************)
(* A resource, 3, in a wrapper that comes before the one of the nested     *)
(* stack, 5, it uses an output of, by Fn::GetAtt or in an Fn::Sub.         *)
(***************************************************************************)
LaterNestedStack(uses) ==
  TemplatesOf(<<0, 1, 2, 1, 4, 5>>,
              <<"wrapper", "wrapper", "resource", "wrapper", "nested", "resource">>,
              <<{}, {}, uses, {}, {ref(3), sub(3)}, {param}>>,
              <<{}, {}, {}, {}, {ref(6), param}, {}>>,
              {<<3, 5>>, <<5, 3>>}, {"one", "chained"}, {1})

(***************************************************************************)
(* Three resources, one in the scope of another; the last may carry the    *)
(* attachments of a policy, and ids has those with the id of the stack.    *)
(***************************************************************************)
ScopedResources(how, ids) ==
  TemplatesOf(<<0, 1, 2, 1, 1, 5>>,
              <<"wrapper", "resource", "resource", "resource", "wrapper", "resource">>,
              <<{}, {ref(3), ref(4)}, {sub(4), ref(6)}, {ref(2), ref(6)}, {}, {ref(3)}>>,
              <<{}, {}, {}, {}, {}, {}>>,
              {<<2, 4>>, <<3, 6>>, <<6, 2>>}, how, ids)

(***************************************************************************)
(* A VPC, its VPCCidrBlock and a subnet, in every order, and maybe a       *)
(* second VPCCidrBlock; a block may be that of a VPC that is a parameter.  *)
(***************************************************************************)
VpcStack ==
  UNION {LET vpc == CHOOSE v \in 2..4 : k[v - 1] = "vpc"
             of(n) == IF n = 6 THEN "cidr" ELSE IF n \in 2..4 THEN k[n - 1] ELSE "wrapper"
         IN  TemplatesOf(<<0, 1, 1, 1, 1, 5>>, <<"wrapper">> \o k \o <<"wrapper", "cidr">>,
                         [n \in 1..N |-> CASE of(n) = "cidr" -> {ref(vpc), getAtt(vpc), param}
                                          [] of(n) = "resource" -> {ipv6(vpc), sub(vpc)}
                                          [] OTHER -> {}],
                         None, {}, {"one"}, {1}) :
           k \in {q \in [1..3 -> {"vpc", "cidr", "resource"}] :
                    {q[1], q[2], q[3]} = {"vpc", "cidr", "resource"}}}

(***************************************************************************)
(* A resource, or a nested stack, that has the construct id of the stack.  *)
(***************************************************************************)
SameIdStacks ==
  ScopedResources({"one"}, {1, 2}) \cup ScopedResources({"one"}, {1, 4})
    \cup {[t EXCEPT !.stackId = {1, 5}] : t \in LaterNestedStack({getAtt(5)})}

SubStacks == LaterNestedStack({sub(5)})

Stacks ==
  SiblingNestedStacks \cup NestedInNested \cup LaterNestedStack({getAtt(5), sub(5)})
    \cup ScopedResources({"one", "chained"}, {1}) \cup VpcStack \cup SameIdStacks
=============================================================================
