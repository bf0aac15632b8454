--------------------------- MODULE EvaluationProofs ---------------------------
(***************************************************************************)
(* Proofs about Evaluation, for all templates without circles: the edges   *)
(* of the graph are enough for what evaluations look up, also through the  *)
(* parameters, the conditions and the outputs that they lead to.           *)
(***************************************************************************)
EXTENDS Evaluation, FiniteSetTheorems, WellFoundedInduction, TLAPS

(***************************************************************************)
(* A set of naturals has a least element: induction, as a fact that is     *)
(* applied to the set of the counterexamples.                              *)
(***************************************************************************)
LEMMA LeastNat ==
  ASSUME NEW S \in SUBSET Nat, S # {}
  PROVE  \E n \in S : \A m \in S : n <= m
<1> DEFINE T == {1..n : n \in S}
           R == StrictSubsetOrdering(Nat)
<1>1. T \subseteq FiniteSubsetsOf(Nat) /\ T # {}
  <2> SUFFICES ASSUME NEW n \in S PROVE 1..n \in FiniteSubsetsOf(Nat)
    OBVIOUS
  <2>1. 1 \in Int /\ n \in Int
    OBVIOUS
  <2>2. IsFiniteSet(1..n)
    BY <2>1, FS_Interval
  <2>3. 1..n \in SUBSET Nat
    OBVIOUS
  <2> QED
    BY <2>2, <2>3 DEF FiniteSubsetsOf
<1>2. IsWellFoundedOn(R, FiniteSubsetsOf(Nat))
  BY FS_StrictSubsetOrderingWellFounded
<1>3. \E x \in T : \A y \in T : ~ (<<y, x>> \in R)
  <2> HIDE DEF R, T
  <2> QED
    BY <1>1, <1>2, WFMin
<1>4. PICK n \in S : \A m \in S : ~ (<<1..m, 1..n>> \in R)
  BY <1>3
<1>5. ASSUME NEW m \in S, m < n PROVE FALSE
  <2>1. n \in 1..n /\ n \notin 1..m
    BY <1>5
  <2>2. 1..m \subseteq Nat /\ 1..n \subseteq Nat /\ 1..m \subseteq 1..n /\ 1..m # 1..n
    BY <1>5, <2>1
  <2> QED
    BY <1>4, <2>2 DEF StrictSubsetOrdering
<1> QED
  BY <1>5

-----------------------------------------------------------------------------
(***************************************************************************)
(* Two evaluations of x agree: the resources they look up are registered   *)
(* for both or for none, and what x leads to evaluates to the same, now    *)
(* and eventually.                                                         *)
(***************************************************************************)
IsContext(c, t) ==
  /\ c = [t |-> t, registered |-> c.registered, process |-> c.process]
  /\ c.registered \subseteq DOMAIN t.resources

SameOf(c, d, y) ==
  /\ evaluate(c, y[1], y[2]) = evaluate(d, y[1], y[2])
  /\ evaluate(Eventually(c), y[1], y[2]) = evaluate(Eventually(d), y[1], y[2])

Agreement(c, d, t, x) ==
  /\ IsContext(c, t) /\ IsContext(d, t)
  /\ \A y \in Links(t, x) : SameOf(c, d, y)
  /\ \A a \in LookedUp(t, x) : a \in c.registered <=> a \in d.registered

(***************************************************************************)
(* Eventually all resources are registered, and nothing else changes.      *)
(***************************************************************************)
LEMMA EventuallyAll ==
  ASSUME NEW t, NEW c, IsContext(c, t)
  PROVE  /\ IsContext(Eventually(c), t)
         /\ Eventually(Eventually(c)) = Eventually(c)
         /\ Eventually(c).registered = DOMAIN t.resources
         /\ Eventually(c).process = c.process
<1>1. c = [t |-> t, registered |-> c.registered, process |-> c.process]
  BY DEF IsContext
<1>2. Eventually(c) = [t |-> t, registered |-> DOMAIN t.resources, process |-> c.process]
  <2> DEFINE R == c.registered
             P == c.process
  <2>1. c = [t |-> t, registered |-> R, process |-> P]
    BY <1>1
  <2> HIDE DEF R, P
  <2>2. Eventually([t |-> t, registered |-> R, process |-> P])
          = [t |-> t, registered |-> DOMAIN t.resources, process |-> P]
    BY DEF Eventually
  <2> QED BY <2>1, <2>2
<1>3. Eventually([t |-> t, registered |-> DOMAIN t.resources, process |-> c.process])
        = [t |-> t, registered |-> DOMAIN t.resources, process |-> c.process]
  BY DEF Eventually
<1> QED BY <1>2, <1>3 DEF IsContext

(***************************************************************************)
(* Evaluations that agree now agree eventually.                            *)
(***************************************************************************)
LEMMA AgreementEventually ==
  ASSUME NEW t, NEW c, NEW d, NEW x, Agreement(c, d, t, x)
  PROVE  Agreement(Eventually(c), Eventually(d), t, x)
<1>1. IsContext(c, t) /\ IsContext(d, t)
  BY DEF Agreement
<1>2. /\ IsContext(Eventually(c), t) /\ IsContext(Eventually(d), t)
      /\ Eventually(Eventually(c)) = Eventually(c) /\ Eventually(Eventually(d)) = Eventually(d)
      /\ Eventually(c).registered = Eventually(d).registered
  BY <1>1, EventuallyAll
<1>3. ASSUME NEW y \in Links(t, x) PROVE SameOf(Eventually(c), Eventually(d), y)
  BY <1>2, <1>3, Zenon DEF Agreement, SameOf
<1> QED BY <1>2, <1>3, Zenon DEF Agreement

(***************************************************************************)
(* What agrees, by the kind of link: arguments, conditions, parameters and *)
(* outputs.                                                                *)
(***************************************************************************)
LEMMA ArgumentsAgree ==
  ASSUME NEW t, NEW c, NEW d, NEW stack, NEW e, Agreement(c, d, t, <<stack, e>>), NEW y \in Arguments(e)
  PROVE  /\ evaluate(c, stack, y) = evaluate(d, stack, y)
         /\ evaluate(Eventually(c), stack, y) = evaluate(Eventually(d), stack, y)
<1>1. <<stack, y>> \in Links(t, <<stack, e>>)
  BY DEF Links
<1>2. SameOf(c, d, <<stack, y>>)
  BY <1>1, Zenon DEF Agreement
<1> QED BY <1>2 DEF SameOf

LEMMA ConditionsAgree ==
  ASSUME NEW t, NEW c, NEW d, NEW stack, NEW e, Agreement(c, d, t, <<stack, e>>), NEW name \in Tested(e),
         <<stack, name>> \in DOMAIN t.conditions
  PROVE  /\ evaluate(c, stack, t.conditions[<<stack, name>>]) = evaluate(d, stack, t.conditions[<<stack, name>>])
         /\ evaluate(Eventually(c), stack, t.conditions[<<stack, name>>])
              = evaluate(Eventually(d), stack, t.conditions[<<stack, name>>])
<1>1. <<stack, t.conditions[<<stack, name>>]>> \in Links(t, <<stack, e>>)
  BY DEF Links
<1>2. SameOf(c, d, <<stack, t.conditions[<<stack, name>>]>>)
  BY <1>1, Zenon DEF Agreement
<1> QED BY <1>2 DEF SameOf

LEMMA ParametersAgree ==
  ASSUME NEW t, NEW c, NEW d, NEW x, Agreement(c, d, t, x), NEW a \in References(t, x) \cap SetParameters(t)
  PROVE  evaluate(c, t.parentOf[a[1]], t.parameters[a].set) = evaluate(d, t.parentOf[a[1]], t.parameters[a].set)
<1>1. <<t.parentOf[a[1]], t.parameters[a].set>> \in Links(t, x)
  BY DEF Links
<1>2. SameOf(c, d, <<t.parentOf[a[1]], t.parameters[a].set>>)
  BY <1>1, Zenon DEF Agreement
<1> QED BY <1>2 DEF SameOf

LEMMA OutputsAgree ==
  ASSUME NEW t, NEW c, NEW d, NEW x, Agreement(c, d, t, x), NEW p \in Attributes(t, x),
         NEW y \in OutputsOf(t, p[1], p[2])
  PROVE  evaluate(c, y[1], y[2]) = evaluate(d, y[1], y[2])
<1>1. y \in Links(t, x)
  BY DEF Links
<1> QED BY <1>1, Zenon DEF Agreement, SameOf
(***************************************************************************)
(* A Ref to a resource does not depend on what is registered.              *)
(***************************************************************************)
LEMMA RefResourceAgrees ==
  ASSUME NEW c, NEW d, NEW r
  PROVE  refResource(c, r) = refResource(d, r)
BY DEF refResource, apply

(***************************************************************************)
(* A name is looked up to the same: evaluateRef.                           *)
(***************************************************************************)
LEMMA RefAgrees ==
  ASSUME NEW t, NEW c, NEW d, NEW x, Agreement(c, d, t, x), NEW name, <<x[1], name>> \in References(t, x)
  PROVE  evaluateRef(c, x[1], name) = evaluateRef(d, x[1], name)
<1> DEFINE a == <<x[1], name>>
<1>1. c.t = t /\ d.t = t
  BY DEF Agreement, IsContext
<1>2. pseudo(c, name) = pseudo(d, name)
  BY <1>1 DEF pseudo
<1>3. a \in DOMAIN t.parameters => evaluateParameter(c, a) = evaluateParameter(d, a)
  <2> SUFFICES ASSUME a \in DOMAIN t.parameters PROVE evaluateParameter(c, a) = evaluateParameter(d, a)
    OBVIOUS
  <2>1. CASE isSet(t.parameters[a])
    <3>1. a \in References(t, x) \cap SetParameters(t)
      BY <2>1 DEF SetParameters
    <3> HIDE DEF a
    <3> QED BY <1>1, <2>1, <3>1, ParametersAgree DEF evaluateParameter
  <2>2. CASE ~ isSet(t.parameters[a])
    BY <1>1, <2>2 DEF evaluateParameter, parameterValue
  <2> QED BY <2>1, <2>2
<1>4. a \in c.registered <=> a \in d.registered
  BY DEF Agreement, LookedUp
<1>5. refResource(c, t.resources[a]) = refResource(d, t.resources[a])
  BY RefResourceAgrees
<1> QED BY <1>1, <1>2, <1>3, <1>4, <1>5 DEF evaluateRef

Asked(t, x, a, attr) ==
  /\ a \in LookedUp(t, x)
  /\ <<a, attr>> \in Attributes(t, x) \/ a \in NestedStackOf(t, "")

(***************************************************************************)
(* An attribute is looked up to the same: resolveAtt.                      *)
(***************************************************************************)
LEMMA AttAgrees ==
  ASSUME NEW t, NEW c, NEW d, NEW x, Agreement(c, d, t, x), NestedStacks(t), NEW a, NEW attr,
         Asked(t, x, a, attr)
  PROVE  resolveAtt(c, a, attr) = resolveAtt(d, a, attr)
<1>1. c.t = t /\ d.t = t
  BY DEF Agreement, IsContext
<1>2. a \in c.registered <=> a \in d.registered
  BY Zenon DEF Agreement, Asked
<1>3. CASE a \notin c.registered
  BY <1>2, <1>3 DEF resolveAtt
<1>4. CASE a \in NestedStackOf(t, "")
  <2>1. t.resources[a].kind # "nested"
    BY <1>4 DEF NestedStackOf, NestedStacks
  <2>2. attribute(c, a, attr) = attribute(d, a, attr)
    BY <1>1, <2>1 DEF attribute
  <2> QED BY <1>2, <2>2 DEF resolveAtt
<1>5. CASE a \in c.registered /\ <<a, attr>> \in Attributes(t, x)
  <2>0. a \in DOMAIN t.resources
    BY <1>5 DEF Agreement, IsContext
  <2> DEFINE out == <<t.resources[a].nested, attr>>
  <2>1. t.resources[a].kind = "nested" /\ out \in DOMAIN t.outputs
          => evaluate(c, out[1], t.outputs[out]) = evaluate(d, out[1], t.outputs[out])
    <3> SUFFICES ASSUME t.resources[a].kind = "nested", out \in DOMAIN t.outputs
                 PROVE  evaluate(c, out[1], t.outputs[out]) = evaluate(d, out[1], t.outputs[out])
      OBVIOUS
    <3>1. <<out[1], t.outputs[out]>> \in OutputsOf(t, a, attr)
      BY <2>0 DEF OutputsOf
    <3> DEFINE p == <<a, attr>>
               y == <<out[1], t.outputs[out]>>
    <3>2. p \in Attributes(t, x) /\ y \in OutputsOf(t, p[1], p[2])
      BY <1>5, <3>1
    <3>3. y[1] = out[1] /\ y[2] = t.outputs[out]
      OBVIOUS
    <3> HIDE DEF p, y
    <3>4. evaluate(c, y[1], y[2]) = evaluate(d, y[1], y[2])
      BY <3>2, OutputsAgree
    <3> QED BY <3>3, <3>4
  <2>2. attribute(c, a, attr) = attribute(d, a, attr)
    BY <1>1, <2>1 DEF attribute
  <2> QED BY <1>2, <2>2 DEF resolveAtt
<1> QED BY <1>3, <1>4, <1>5 DEF Asked

LEMMA GetAttAgrees ==
  ASSUME NEW t, NEW c, NEW d, NEW stack, NEW e, Agreement(c, d, t, <<stack, e>>), NestedStacks(t), e.fn = "Fn::GetAtt"
  PROVE  getAtt(c, stack, e.args[1].arg, e.args[2].arg) = getAtt(d, stack, e.args[1].arg, e.args[2].arg)
<1> DEFINE own  == <<stack, e.args[1].arg>>
           attr == e.args[2].arg
           a    == cidrBlockOf(t, own, attr)
           x    == <<stack, e>>
<1>1. c.t = t /\ d.t = t
  BY DEF Agreement, IsContext
<1>2. Attributes(t, x) = {<<a, attr>>}
  BY DEF Attributes
<1>3. <<a, attr>>[1] = a
  OBVIOUS
<1>4. a \in LookedUp(t, x) /\ <<a, attr>> \in Attributes(t, x)
  BY <1>2, <1>3 DEF LookedUp
<1> HIDE DEF x
<1> Agreement(c, d, t, x)
  BY DEF x
<1>5. CASE attr = "Ipv6CidrBlocks" /\ own \in DOMAIN t.cidrBlocks
  <2>1. a = t.cidrBlocks[own] /\ a \in NestedStackOf(t, "")
    BY <1>5 DEF cidrBlockOf, NestedStacks
  <2>2. resolveAtt(c, a, "Ipv6CidrBlock") = resolveAtt(d, a, "Ipv6CidrBlock")
    <3> Asked(t, x, a, "Ipv6CidrBlock")
      BY <1>4, <2>1 DEF Asked
    <3> HIDE DEF a
    <3> QED BY AttAgrees
  <2> HIDE DEF a
  <2> QED BY <1>1, <1>5, <2>1, <2>2 DEF getAtt
<1>6. CASE ~ (attr = "Ipv6CidrBlocks" /\ own \in DOMAIN t.cidrBlocks)
  <2>1. a = own
    BY <1>6 DEF cidrBlockOf
  <2>2. resolveAtt(c, a, attr) = resolveAtt(d, a, attr)
    <3> Asked(t, x, a, attr)
      BY <1>4 DEF Asked
    <3> HIDE DEF a, attr
    <3> QED BY AttAgrees
  <2> HIDE DEF a
  <2> QED BY <1>1, <1>6, <2>1, <2>2 DEF getAtt
<1> QED BY <1>5, <1>6

(***************************************************************************)
(* A computed Ref may refer to any name.                                   *)
(***************************************************************************)
LEMMA ComputedRefAgrees ==
  ASSUME NEW t, NEW c, NEW d, NEW stack, NEW e, Agreement(c, d, t, <<stack, e>>), computed(e), NEW name
  PROVE  evaluateRef(c, stack, name) = evaluateRef(d, stack, name)
<1> DEFINE x == <<stack, e>>
           a == <<stack, name>>
<1>1. c.t = t /\ d.t = t /\ c.registered \subseteq DOMAIN t.resources /\ d.registered \subseteq DOMAIN t.resources
  BY DEF Agreement, IsContext
<1>2. CASE a \in DOMAIN t.parameters \cup DOMAIN t.resources
  <2>1. a \in References(t, x)
    <3>1. References(t, x) = {b \in DOMAIN t.parameters \cup DOMAIN t.resources : b[1] = stack}
      BY DEF References, computed
    <3> QED BY <1>2, <3>1
  <2>2. x[1] = stack
    OBVIOUS
  <2> Agreement(c, d, t, x)
    OBVIOUS
  <2> HIDE DEF x
  <2> QED BY <2>1, <2>2, RefAgrees
<1>3. CASE a \notin DOMAIN t.parameters \cup DOMAIN t.resources
  <2>1. pseudo(c, name) = pseudo(d, name)
    BY <1>1 DEF pseudo
  <2>2. a \notin c.registered /\ a \notin d.registered /\ a \notin DOMAIN c.t.parameters /\ a \notin DOMAIN d.t.parameters
    BY <1>1, <1>3
  <2> QED BY <2>1, <2>2 DEF evaluateRef
<1> QED BY <1>2, <1>3

(***************************************************************************)
(* Ref.                                                                    *)
(***************************************************************************)
LEMMA RefExpressionAgrees ==
  ASSUME NEW t, NEW c, NEW d, NEW stack, NEW e, Agreement(c, d, t, <<stack, e>>), e.fn = "Ref"
  PROVE  ref(c, stack, e.args[1]) = ref(d, stack, e.args[1])
<1> DEFINE param == e.args[1]
           k == Eventually(c)
           l == Eventually(d)
<1>1. c.t = t /\ d.t = t
  BY DEF Agreement, IsContext
<1>2. CASE param.fn = "output"
  BY <1>1, <1>2 DEF ref
<1>3. CASE param.fn = "string"
  <2> DEFINE x == <<stack, e>>
  <2>1. <<stack, param.arg>> \in References(t, x)
    BY <1>3 DEF References, computed
  <2>2. x[1] = stack /\ Agreement(c, d, t, x)
    OBVIOUS
  <2>3. evaluateRef(c, stack, param.arg) = evaluateRef(d, stack, param.arg)
    <3> HIDE DEF x, param
    <3> QED BY <2>1, <2>2, RefAgrees
  <2> QED BY <1>3, <2>3 DEF ref
<1>4. CASE param.fn \notin {"output", "string"}
  <2>1. computed(e) /\ param \in Arguments(e)
    BY <1>4 DEF computed, Arguments
  <2>2. evaluate(c, stack, param) = evaluate(d, stack, param)
    BY <2>1, ArgumentsAgree
  <2>3. ASSUME NEW name
        PROVE  /\ evaluateRef(c, stack, name) = evaluateRef(d, stack, name)
               /\ evaluateRef(k, stack, name) = evaluateRef(l, stack, name)
    <3>1. Agreement(k, l, t, <<stack, e>>)
      BY AgreementEventually
    <3> HIDE DEF k, l
    <3> QED BY <2>1, <3>1, ComputedRefAgrees
  <2> DEFINE r(b) == apply(b, evaluate(b, stack, param), LAMBDA m, v : mustBe("string", v))
  <2>4. r(c) = r(d)
    BY <2>2 DEF apply
  <2>5. apply(c, r(c), LAMBDA m, v : evaluateRef(m, stack, Name(v)))
          = apply(d, r(c), LAMBDA m, v : evaluateRef(m, stack, Name(v)))
    <3> DEFINE s == r(c)
               name == Name(s.value)
    <3>1. /\ evaluateRef(c, stack, name) = evaluateRef(d, stack, name)
          /\ evaluateRef(Eventually(c), stack, name) = evaluateRef(Eventually(d), stack, name)
      BY <2>3
    <3> HIDE DEF r
    <3> QED BY <3>1, Zenon DEF apply
  <2> HIDE DEF r
  <2>6. ref(c, stack, param) = apply(c, r(c), LAMBDA m, v : evaluateRef(m, stack, Name(v)))
    BY <1>4 DEF ref, r
  <2>7. ref(d, stack, param) = apply(d, r(d), LAMBDA m, v : evaluateRef(m, stack, Name(v)))
    BY <1>4 DEF ref, r
  <2> QED BY <2>4, <2>5, <2>6, <2>7, Zenon
<1> QED BY <1>2, <1>3, <1>4

(***************************************************************************)
(* Fn::Sub.                                                                *)
(***************************************************************************)
LEMMA SubstitutedAgrees ==
  ASSUME NEW t, NEW c, NEW d, NEW stack, NEW e, Agreement(c, d, t, <<stack, e>>), NestedStacks(t),
         e.fn = "Fn::Sub", NEW r, r # NoReference => r \in Holes(e)
  PROVE  substituted(c, stack, r) = substituted(d, stack, r)
<1> DEFINE x == <<stack, e>>
<1>0. Agreement(c, d, t, x) /\ x[1] = stack
  OBVIOUS
<1>1. CASE r # NoReference /\ r.attr = <<>>
  <2>1. <<stack, r.id[1]>> \in References(t, x)
    BY <1>1 DEF References, computed
  <2>2. evaluateRef(c, stack, r.id[1]) = evaluateRef(d, stack, r.id[1])
    <3> HIDE DEF x
    <3> QED BY <1>0, <2>1, RefAgrees
  <2> QED BY <1>1, <2>2 DEF substituted
<1>2. CASE r # NoReference /\ r.attr # <<>>
  <2> DEFINE a == <<stack, r.id[1]>>
             p == <<a, r.attr[1]>>
  <2>1. p \in Attributes(t, x) /\ p[1] = a
    BY <1>2 DEF Attributes
  <2>2. Asked(t, x, a, r.attr[1])
    <3> HIDE DEF a, x
    <3> QED BY <2>1 DEF Asked, LookedUp
  <2>3. resolveAtt(c, a, r.attr[1]) = resolveAtt(d, a, r.attr[1])
    <3> HIDE DEF a, x
    <3> QED BY <1>0, <2>2, AttAgrees
  <2> QED BY <1>2, <2>3 DEF substituted
<1>3. CASE r = NoReference
  BY <1>3 DEF substituted
<1> QED BY <1>1, <1>2, <1>3

LEMMA SubAgrees ==
  ASSUME NEW t, NEW c, NEW d, NEW stack, NEW e, Agreement(c, d, t, <<stack, e>>), NestedStacks(t),
         e.fn = "Fn::Sub"
  PROVE  fnSub(c, stack, e.args[1].args) = fnSub(d, stack, e.args[1].args)
<1> DEFINE parts == parseSub(Written(e.args[1].args))
           joined(k) == [i \in DOMAIN parts |-> <<Now(Text(parts[i].str)), substituted(k, stack, parts[i].ref)>>]
<1>1. ASSUME NEW i \in DOMAIN parts
      PROVE  substituted(c, stack, parts[i].ref) = substituted(d, stack, parts[i].ref)
  <2>1. parts[i].ref # NoReference => parts[i].ref \in Holes(e)
    BY DEF Holes
  <2> HIDE DEF parts
  <2> QED BY <2>1, SubstitutedAgrees
<1> HIDE DEF parts
<1>2. joined(c) = joined(d)
  BY <1>1
<1> HIDE DEF joined
<1>3. fnSub(c, stack, e.args[1].args) = apply(c, Together("list", FlattenSeq(joined(c))), LAMBDA k, v : Concatenated(v.items))
  BY DEF fnSub, parts, joined
<1>4. fnSub(d, stack, e.args[1].args) = apply(d, Together("list", FlattenSeq(joined(d))), LAMBDA k, v : Concatenated(v.items))
  BY DEF fnSub, parts, joined
<1> QED BY <1>2, <1>3, <1>4 DEF apply

(***************************************************************************)
(* Conditions: evaluateCondition and evaluateConditionSubExpression.       *)
(***************************************************************************)
LEMMA ConditionAgrees ==
  ASSUME NEW t, NEW c, NEW d, NEW stack, NEW e, Agreement(c, d, t, <<stack, e>>), NEW name \in Tested(e)
  PROVE  evaluateCondition(c, stack, name) = evaluateCondition(d, stack, name)
<1>1. c.t = t /\ d.t = t
  BY DEF Agreement, IsContext
<1>2. CASE <<stack, name>> \in DOMAIN t.conditions
  <2> DEFINE tested == t.conditions[<<stack, name>>]
  <2>1. evaluate(c, stack, tested) = evaluate(d, stack, tested)
    BY <1>2, ConditionsAgree
  <2> HIDE DEF tested
  <2>2. /\ evaluateCondition(c, stack, name) = apply(c, evaluate(c, stack, tested), LAMBDA m, v : mustBe("boolean", v))
        /\ evaluateCondition(d, stack, name) = apply(d, evaluate(d, stack, tested), LAMBDA m, v : mustBe("boolean", v))
    BY <1>1, <1>2 DEF evaluateCondition, tested
  <2> QED BY <2>1, <2>2 DEF apply
<1>3. CASE <<stack, name>> \notin DOMAIN t.conditions
  BY <1>1, <1>3 DEF evaluateCondition
<1> QED BY <1>2, <1>3

LEMMA SubExpressionAgrees ==
  ASSUME NEW t, NEW c, NEW d, NEW stack, NEW e, Agreement(c, d, t, <<stack, e>>), e.fn = "Fn::Or",
         NEW i \in DOMAIN e.args
  PROVE  evaluateConditionSubExpression(c, stack, e.args[i]) = evaluateConditionSubExpression(d, stack, e.args[i])
<1> DEFINE y == e.args[i]
<1>1. CASE y.fn = "Condition"
  <2>1. y.arg \in Tested(e)
    BY <1>1 DEF Tested
  <2>2. evaluateCondition(c, stack, y.arg) = evaluateCondition(d, stack, y.arg)
    BY <2>1, ConditionAgrees
  <2> QED BY <1>1, <2>2 DEF evaluateConditionSubExpression
<1>2. CASE y.fn # "Condition"
  <2>1. y \in Arguments(e)
    BY DEF Arguments, computed
  <2>2. evaluate(c, stack, y) = evaluate(d, stack, y)
    BY <2>1, ArgumentsAgree
  <2> HIDE DEF y
  <2>3. /\ evaluateConditionSubExpression(c, stack, y) = apply(c, evaluate(c, stack, y), LAMBDA m, v : mustBe("boolean", v))
        /\ evaluateConditionSubExpression(d, stack, y) = apply(d, evaluate(d, stack, y), LAMBDA m, v : mustBe("boolean", v))
    BY <1>2 DEF evaluateConditionSubExpression
  <2>4. evaluateConditionSubExpression(c, stack, y) = evaluateConditionSubExpression(d, stack, y)
    BY <2>2, <2>3 DEF apply
  <2> QED BY <2>4 DEF y
<1> QED BY <1>1, <1>2

(***************************************************************************)
(* Fn::If, Fn::Or and Fn::Equals evaluate a part after another.            *)
(***************************************************************************)
LEMMA IfAgrees ==
  ASSUME NEW t, NEW c, NEW d, NEW stack, NEW e, Agreement(c, d, t, <<stack, e>>), IsExpression(e), e.fn = "Fn::If"
  PROVE  fnIf(c, stack, e.args) = fnIf(d, stack, e.args)
<1> DEFINE params == e.args
           name == params[1].arg
           branch(v) == params[IF v = Boolean(TRUE) THEN 2 ELSE 3]
<1>1. CASE Len(params) # 3 \/ params[1].fn # "string"
  BY <1>1 DEF fnIf
<1>2. CASE ~ (Len(params) # 3 \/ params[1].fn # "string")
  <2>1. name \in Tested(e)
    BY DEF Tested
  <2>2. evaluateCondition(c, stack, name) = evaluateCondition(d, stack, name)
    BY <2>1, ConditionAgrees
  <2>3. 2 \in DOMAIN params /\ 3 \in DOMAIN params
    BY <1>2 DEF IsExpression
  <2>4. ASSUME NEW v
        PROVE  /\ evaluate(c, stack, branch(v)) = evaluate(d, stack, branch(v))
               /\ evaluate(Eventually(c), stack, branch(v)) = evaluate(Eventually(d), stack, branch(v))
    <3>1. branch(v) \in Arguments(e)
      BY <2>3 DEF Arguments, computed
    <3> HIDE DEF branch
    <3> QED BY <3>1, ArgumentsAgree
  <2>5. apply(c, evaluateCondition(c, stack, name), LAMBDA m, v : evaluate(m, stack, branch(v)))
          = apply(d, evaluateCondition(c, stack, name), LAMBDA m, v : evaluate(m, stack, branch(v)))
    <3> DEFINE r == evaluateCondition(c, stack, name)
               b == branch(r.value)
    <3>1. /\ evaluate(c, stack, b) = evaluate(d, stack, b)
          /\ evaluate(Eventually(c), stack, b) = evaluate(Eventually(d), stack, b)
      BY <2>4
    <3> HIDE DEF branch
    <3> QED BY <3>1, Zenon DEF apply
  <2>6. fnIf(c, stack, params) = apply(c, evaluateCondition(c, stack, name), LAMBDA m, v : evaluate(m, stack, branch(v)))
    BY <1>2, Zenon DEF fnIf
  <2>7. fnIf(d, stack, params) = apply(d, evaluateCondition(d, stack, name), LAMBDA m, v : evaluate(m, stack, branch(v)))
    BY <1>2, Zenon DEF fnIf
  <2> QED BY <2>2, <2>5, <2>6, <2>7, Zenon
<1> QED BY <1>1, <1>2

LEMMA OrAgrees ==
  ASSUME NEW t, NEW c, NEW d, NEW stack, NEW e, Agreement(c, d, t, <<stack, e>>), IsExpression(e), e.fn = "Fn::Or"
  PROVE  fnOr(c, stack, e.args) = fnOr(d, stack, e.args)
<1> DEFINE params == e.args
           next(k, r, i) == apply(k, r, LAMBDA m, v : IF v = Boolean(TRUE) THEN Now(v)
                                                      ELSE evaluateConditionSubExpression(m, stack, params[i]))
           steps(k, f) == [i \in 0..Len(params) |-> IF i = 0 THEN Now(Boolean(FALSE)) ELSE next(k, f[i - 1], i)]
<1>1. ASSUME NEW i \in 0..Len(params), i # 0, NEW r
      PROVE  next(c, r, i) = next(d, r, i)
  <2>1. i \in DOMAIN e.args
    BY <1>1 DEF IsExpression
  <2>2. /\ evaluateConditionSubExpression(c, stack, params[i]) = evaluateConditionSubExpression(d, stack, params[i])
        /\ evaluateConditionSubExpression(Eventually(c), stack, params[i])
             = evaluateConditionSubExpression(Eventually(d), stack, params[i])
    <3>1. Agreement(Eventually(c), Eventually(d), t, <<stack, e>>)
      BY AgreementEventually
    <3> QED BY <2>1, <3>1, SubExpressionAgrees
  <2> HIDE DEF params
  <2> QED BY <2>2, Zenon DEF apply
<1>2. ASSUME NEW f PROVE steps(c, f) = steps(d, f)
  <2> HIDE DEF next, params
  <2> QED BY <1>1
<1>3. (CHOOSE f : f = steps(c, f)) = (CHOOSE f : f = steps(d, f))
  <2> HIDE DEF steps
  <2> QED BY <1>2, Zenon
<1> HIDE DEF params
<1> DEFINE reduced(k) == CHOOSE f : f = steps(k, f)
<1> HIDE DEF steps
<1>4. fnOr(c, stack, params) = IF Len(params) < 2 THEN fail ELSE reduced(c)[Len(params)]
  BY DEF fnOr, steps, reduced
<1>5. fnOr(d, stack, params) = IF Len(params) < 2 THEN fail ELSE reduced(d)[Len(params)]
  BY DEF fnOr, steps, reduced
<1>6. reduced(c) = reduced(d)
  BY <1>3
<1> HIDE DEF reduced
<1>7. fnOr(c, stack, params) = fnOr(d, stack, params)
  BY <1>4, <1>5, <1>6
<1> QED BY <1>7 DEF params

LEMMA EqualsAgrees ==
  ASSUME NEW t, NEW c, NEW d, NEW stack, NEW e, Agreement(c, d, t, <<stack, e>>), IsExpression(e), e.fn = "Fn::Equals"
  PROVE  fnEquals(c, stack, e.args) = fnEquals(d, stack, e.args)
<1> DEFINE first == e.args[1]
           other == e.args[2]
           compared(k, x) == apply(k, evaluate(k, stack, other), LAMBDA m, y : Now(Boolean(x = y)))
<1>1. CASE Len(e.args) # 2
  BY <1>1 DEF fnEquals
<1>2. CASE Len(e.args) = 2
  <2>1. 1 \in DOMAIN e.args /\ 2 \in DOMAIN e.args
    BY <1>2 DEF IsExpression
  <2>2. first \in Arguments(e) /\ other \in Arguments(e)
    BY <2>1 DEF Arguments, computed
  <2> HIDE DEF first, other
  <2>3. /\ evaluate(c, stack, first) = evaluate(d, stack, first)
        /\ evaluate(c, stack, other) = evaluate(d, stack, other)
        /\ evaluate(Eventually(c), stack, other) = evaluate(Eventually(d), stack, other)
    BY <2>2, ArgumentsAgree
  <2>4. ASSUME NEW x
        PROVE  /\ compared(c, x) = compared(d, x)
               /\ compared(Eventually(c), x) = compared(Eventually(d), x)
    BY <2>3, Zenon DEF apply
  <2> HIDE DEF compared
  <2>5. apply(c, evaluate(c, stack, first), LAMBDA m, x : compared(m, x))
          = apply(d, evaluate(c, stack, first), LAMBDA m, x : compared(m, x))
    BY <2>4, Zenon DEF apply
  <2>6. fnEquals(c, stack, e.args) = apply(c, evaluate(c, stack, first), LAMBDA m, x : compared(m, x))
    BY <1>2, Zenon DEF fnEquals, first, other, compared
  <2>7. fnEquals(d, stack, e.args) = apply(d, evaluate(d, stack, first), LAMBDA m, x : compared(m, x))
    BY <1>2, Zenon DEF fnEquals, first, other, compared
  <2> QED BY <2>3, <2>5, <2>6, <2>7, Zenon
<1> QED BY <1>1, <1>2

(***************************************************************************)
(* Lists and objects, and the lists of parameters.                         *)
(***************************************************************************)
LEMMA ListAgrees ==
  ASSUME NEW t, NEW c, NEW d, NEW stack, NEW e, Agreement(c, d, t, <<stack, e>>), NEW type, NEW es,
         \A i \in DOMAIN es : es[i] \in Arguments(e)
  PROVE  processList(c, stack, type, es) = processList(d, stack, type, es)
<1> DEFINE results(k) == [i \in DOMAIN es |-> IF isNoValue(es[i]) THEN Absent ELSE evaluate(k, stack, es[i])]
<1>1. ASSUME NEW i \in DOMAIN es PROVE evaluate(c, stack, es[i]) = evaluate(d, stack, es[i])
  BY ArgumentsAgree
<1>2. results(c) = results(d)
  BY <1>1
<1> HIDE DEF results
<1>3. processList(c, stack, type, es) = Together(type, SelectSeq(results(c), LAMBDA r : r # Absent))
  BY Zenon DEF processList, results
<1>4. processList(d, stack, type, es) = Together(type, SelectSeq(results(d), LAMBDA r : r # Absent))
  BY Zenon DEF processList, results
<1> QED BY <1>2, <1>3, <1>4, Zenon

(***************************************************************************)
(* resolveIntrinsic.                                                       *)
(***************************************************************************)
LEMMA IntrinsicAgrees ==
  ASSUME NEW t, NEW c, NEW d, NEW stack, NEW e, Agreement(c, d, t, <<stack, e>>), NestedStacks(t), IsExpression(e),
         e.fn # "Ref"
  PROVE  resolveIntrinsic(c, stack, e.fn, e.args) = resolveIntrinsic(d, stack, e.fn, e.args)
<1> DEFINE params == e.args
           list(k) == processList(k, stack, "list", params)
<1>1. c.t = t /\ d.t = t /\ Eventually(c).t = t /\ Eventually(d).t = t
  BY EventuallyAll DEF Agreement, IsContext
<1>2. CASE e.fn \in {"Fn::Join", "Fn::Select", "Fn::Split", "Fn::Cidr", "Fn::FindInMap"}
  <2>1. \A i \in DOMAIN params : params[i] \in Arguments(e)
    BY <1>2 DEF Arguments, computed
  <2>2. list(c) = list(d)
    BY <2>1, ListAgrees
  <2> HIDE DEF list, params
  <2>3. CASE e.fn = "Fn::Join"
    BY <2>2, <2>3 DEF resolveIntrinsic, list, params, apply
  <2>4. CASE e.fn = "Fn::Select"
    BY <2>2, <2>4 DEF resolveIntrinsic, list, params, apply
  <2>5. CASE e.fn = "Fn::Split"
    BY <2>2, <2>5 DEF resolveIntrinsic, list, params, apply
  <2>6. CASE e.fn = "Fn::Cidr"
    BY <2>2, <2>6 DEF resolveIntrinsic, list, params, apply
  <2>7. CASE e.fn = "Fn::FindInMap"
    BY <1>1, <2>2, <2>7 DEF resolveIntrinsic, list, params, apply, fnFindInMap
  <2> QED BY <1>2, <2>3, <2>4, <2>5, <2>6, <2>7
<1>3. CASE e.fn \in {"Fn::Base64", "Fn::GetAZs"}
  <2>1. params[1] \in Arguments(e)
    BY <1>3 DEF Arguments, computed, IsExpression
  <2>2. evaluate(c, stack, params[1]) = evaluate(d, stack, params[1])
    BY <2>1, ArgumentsAgree
  <2> HIDE DEF params
  <2>3. CASE e.fn = "Fn::Base64"
    BY <2>2, <2>3 DEF resolveIntrinsic, params, apply
  <2>4. CASE e.fn = "Fn::GetAZs"
    BY <1>1, <2>2, <2>4 DEF resolveIntrinsic, params, apply, fnGetAZs, getAzs
  <2> QED BY <1>3, <2>3, <2>4
<1>4. CASE e.fn = "Fn::Sub"
  <2> DEFINE others == processList(c, stack, "list", Tail(params))
             sub(k) == fnSub(k, stack, params[1].args)
  <2>1. ASSUME NEW i \in DOMAIN Tail(params) PROVE Tail(params)[i] \in Arguments(e)
    <3>1. i + 1 \in DOMAIN params \ {1} /\ Tail(params)[i] = params[i + 1]
      BY DEF IsExpression
    <3> QED BY <1>4, <3>1 DEF Arguments, computed
  <2>2. others = processList(d, stack, "list", Tail(params))
    <3> DEFINE rest == Tail(params)
    <3>1. \A i \in DOMAIN rest : rest[i] \in Arguments(e)
      BY <2>1
    <3> HIDE DEF rest
    <3>2. processList(c, stack, "list", rest) = processList(d, stack, "list", rest)
      BY <3>1, ListAgrees
    <3> QED BY <3>2 DEF rest
  <2>3. sub(c) = sub(d) /\ sub(Eventually(c)) = sub(Eventually(d))
    <3>1. Agreement(Eventually(c), Eventually(d), t, <<stack, e>>)
      BY AgreementEventually
    <3> QED BY <1>4, <3>1, SubAgrees
  <2>4. resolveIntrinsic(c, stack, e.fn, params) = apply(c, processList(c, stack, "list", Tail(params)), LAMBDA m, v : sub(m))
    BY <1>4 DEF resolveIntrinsic
  <2>5. resolveIntrinsic(d, stack, e.fn, params) = apply(d, processList(d, stack, "list", Tail(params)), LAMBDA m, v : sub(m))
    BY <1>4 DEF resolveIntrinsic
  <2> HIDE DEF sub, params
  <2>6. apply(c, others, LAMBDA m, v : sub(m)) = apply(d, others, LAMBDA m, v : sub(m))
    BY <2>3, Zenon DEF apply
  <2>7. resolveIntrinsic(c, stack, e.fn, params) = resolveIntrinsic(d, stack, e.fn, params)
    BY <2>2, <2>4, <2>5, <2>6, Zenon
  <2> QED BY <2>7 DEF params
<1>5. CASE e.fn = "Fn::GetAtt"
  BY <1>5, GetAttAgrees DEF resolveIntrinsic
<1>6. CASE e.fn = "Fn::Equals"
  BY <1>6, EqualsAgrees DEF resolveIntrinsic
<1>7. CASE e.fn = "Fn::If"
  BY <1>7, IfAgrees DEF resolveIntrinsic
<1>8. CASE e.fn = "Fn::Or"
  BY <1>8, OrAgrees DEF resolveIntrinsic
<1>9. CASE e.fn \notin {"Fn::Join", "Fn::Select", "Fn::Split", "Fn::Cidr", "Fn::FindInMap", "Fn::Base64", "Fn::GetAZs",
                        "Fn::Sub", "Fn::GetAtt", "Fn::Equals", "Fn::If", "Fn::Or"}
  BY <1>9 DEF resolveIntrinsic
<1> QED BY <1>2, <1>3, <1>4, <1>5, <1>6, <1>7, <1>8, <1>9

(***************************************************************************)
(* Evaluations that agree on all that an expression leads to agree on the  *)
(* expression.                                                             *)
(***************************************************************************)
LEMMA EvaluationsAgree ==
  ASSUME NEW t, NEW c, NEW d, NEW stack, NEW e, Agreement(c, d, t, <<stack, e>>), NestedStacks(t), IsExpression(e)
  PROVE  processIntrinsics(c, stack, e) = processIntrinsics(d, stack, e)
<1>1. CASE e.fn \in {"string", "boolean"}
  BY <1>1 DEF processIntrinsics
<1>2. CASE e.fn \in {"list", "object"}
  <2>1. \A i \in DOMAIN e.args : e.args[i] \in Arguments(e)
    BY <1>2 DEF Arguments, computed
  <2>2. processList(c, stack, e.fn, e.args) = processList(d, stack, e.fn, e.args)
    BY <2>1, ListAgrees
  <2> QED BY <1>2, <2>2 DEF processIntrinsics
<1>3. CASE e.fn = "entry"
  <2>1. e.args[1] \in Arguments(e)
    BY <1>3 DEF Arguments, computed, IsExpression
  <2>2. evaluate(c, stack, e.args[1]) = evaluate(d, stack, e.args[1])
    BY <2>1, ArgumentsAgree
  <2> QED BY <1>3, <2>2 DEF processIntrinsics
<1>4. CASE e.fn = "Ref"
  BY <1>4, RefExpressionAgrees DEF processIntrinsics
<1>5. CASE e.fn \notin {"string", "boolean", "list", "object", "entry", "Ref"}
  <2>1. resolveIntrinsic(c, stack, e.fn, e.args) = resolveIntrinsic(d, stack, e.fn, e.args)
    BY <1>5, IntrinsicAgrees
  <2> QED BY <1>5, <2>1 DEF processIntrinsics
<1> QED BY <1>1, <1>2, <1>3, <1>4, <1>5

-----------------------------------------------------------------------------
(***************************************************************************)
(* The recursive functions exist: without circles, each value is made of   *)
(* values at smaller depths.  Functions that satisfy the definition up to a*)
(* depth exist and are equal up to it; together they make the function.    *)
(***************************************************************************)
Calls(t) == (SUBSET DOMAIN t.resources) \X DOMAIN t.depth

Body(t, f) ==
  [call \in Calls(t) |->
     processIntrinsics([t |-> t, registered |-> call[1], process |-> f], call[2][1], call[2][2])]

SatisfiedTo(t, n, f) == \A q \in Calls(t) : t.depth[q[2]] < n => f[q] = Body(t, f)[q]

LEMMA CallsOf ==
  ASSUME NEW t, WithoutCircles(t), NEW q \in Calls(t)
  PROVE  /\ q[1] \subseteq DOMAIN t.resources /\ q[2] \in DOMAIN t.depth
         /\ q = <<q[1], q[2]>> /\ q[2] = <<q[2][1], q[2][2]>>
         /\ t.depth[q[2]] \in Nat /\ IsExpression(q[2][2])
         /\ \A y \in Links(t, q[2]) : y \in DOMAIN t.depth /\ y = <<y[1], y[2]>> /\ t.depth[y] < t.depth[q[2]]
<1>1. q[1] \subseteq DOMAIN t.resources /\ q[2] \in DOMAIN t.depth /\ q = <<q[1], q[2]>>
  BY DEF Calls
<1> DEFINE x == q[2]
<1>2. /\ x = <<x[1], x[2]>> /\ t.depth[x] \in Nat /\ IsExpression(x[2])
      /\ \A y \in Links(t, x) : y \in DOMAIN t.depth /\ t.depth[y] < t.depth[x]
  BY <1>1, Zenon DEF WithoutCircles
<1>3. \A y \in DOMAIN t.depth : y = <<y[1], y[2]>>
  BY Zenon DEF WithoutCircles
<1> QED BY <1>1, <1>2, <1>3, Zenon

LEMMA BodyIsLocal ==
  ASSUME NEW t, WithoutCircles(t), NestedStacks(t), NEW f, NEW g, NEW q \in Calls(t),
         \A r \in Calls(t) : t.depth[r[2]] < t.depth[q[2]] => f[r] = g[r]
  PROVE  Body(t, f)[q] = Body(t, g)[q]
<1> DEFINE x == q[2]
           c == [t |-> t, registered |-> q[1], process |-> f]
           d == [t |-> t, registered |-> q[1], process |-> g]
<1>1. /\ q[1] \subseteq DOMAIN t.resources /\ x = <<x[1], x[2]>> /\ IsExpression(x[2])
      /\ \A y \in Links(t, x) : y \in DOMAIN t.depth /\ y = <<y[1], y[2]>> /\ t.depth[y] < t.depth[x]
  BY CallsOf, Zenon
<1>2. /\ c.registered = q[1] /\ d.registered = q[1] /\ c.t = t /\ d.t = t /\ c.process = f /\ d.process = g
      /\ IsContext(c, t) /\ IsContext(d, t)
  BY <1>1 DEF IsContext
<1> HIDE DEF c, d
<1>3. /\ Eventually(c).registered = DOMAIN t.resources /\ Eventually(c).process = f
      /\ Eventually(d).registered = DOMAIN t.resources /\ Eventually(d).process = g
  BY <1>2, EventuallyAll
<1>4. ASSUME NEW y \in Links(t, x) PROVE SameOf(c, d, y)
  <2>1. y \in DOMAIN t.depth /\ y = <<y[1], y[2]>> /\ t.depth[y] < t.depth[x]
    BY <1>1
  <2>2. ASSUME NEW R, R \subseteq DOMAIN t.resources PROVE f[<<R, <<y[1], y[2]>>>>] = g[<<R, <<y[1], y[2]>>>>]
    <3> DEFINE r == <<R, y>>
    <3>1. r \in Calls(t) /\ r[2] = y
      BY <2>1, <2>2 DEF Calls
    <3>2. f[r] = g[r]
      <4> HIDE DEF r
      <4> QED BY <2>1, <3>1
    <3> QED BY <2>1, <3>2
  <2>3. evaluate(c, y[1], y[2]) = evaluate(d, y[1], y[2])
    BY <1>1, <1>2, <2>2, Zenon DEF evaluate
  <2>4. evaluate(Eventually(c), y[1], y[2]) = evaluate(Eventually(d), y[1], y[2])
    <3>1. f[<<DOMAIN t.resources, <<y[1], y[2]>>>>] = g[<<DOMAIN t.resources, <<y[1], y[2]>>>>]
      BY <2>2
    <3> QED BY <1>3, <3>1, Zenon DEF evaluate
  <2> QED BY <2>3, <2>4, Zenon DEF SameOf
<1>5. Agreement(c, d, t, <<x[1], x[2]>>)
  <2>1. Agreement(c, d, t, x)
    BY <1>2, <1>4, Zenon DEF Agreement
  <2> QED BY <1>1, <2>1, Zenon
<1>6. processIntrinsics(c, x[1], x[2]) = processIntrinsics(d, x[1], x[2])
  BY <1>1, <1>5, EvaluationsAgree
<1>7. Body(t, f)[q] = processIntrinsics(c, x[1], x[2])
  BY DEF Body, c
<1>8. Body(t, g)[q] = processIntrinsics(d, x[1], x[2])
  BY DEF Body, d
<1> QED BY <1>6, <1>7, <1>8

LEMMA SatisfiedAlike ==
  ASSUME NEW t, WithoutCircles(t), NestedStacks(t), NEW f, NEW g, NEW n \in Nat, SatisfiedTo(t, n, f), SatisfiedTo(t, n, g),
         NEW q \in Calls(t), t.depth[q[2]] < n
  PROVE  f[q] = g[q]
<1> SUFFICES ASSUME f[q] # g[q] PROVE FALSE
  OBVIOUS
<1> DEFINE S == {m \in 0..(n - 1) : \E r \in Calls(t) : t.depth[r[2]] = m /\ f[r] # g[r]}
<1>1. t.depth[q[2]] \in S
  BY CallsOf
<1>2. PICK m \in S : \A k \in S : m <= k
  <2>1. S \in SUBSET Nat /\ S # {}
    BY <1>1
  <2> HIDE DEF S
  <2> QED BY <2>1, LeastNat
<1>3. PICK r \in Calls(t) : t.depth[r[2]] = m /\ f[r] # g[r]
  BY <1>2
<1>4. m \in 0..(n - 1)
  BY <1>2
<1>5. ASSUME NEW s \in Calls(t), t.depth[s[2]] < t.depth[r[2]] PROVE f[s] = g[s]
  <2>1. t.depth[s[2]] \in Nat
    BY CallsOf
  <2> QED BY <1>2, <1>3, <1>4, <1>5, <2>1
<1>6. Body(t, f)[r] = Body(t, g)[r]
  BY <1>5, BodyIsLocal
<1>7. f[r] = Body(t, f)[r] /\ g[r] = Body(t, g)[r]
  BY <1>3, <1>4 DEF SatisfiedTo
<1> QED BY <1>3, <1>6, <1>7

LEMMA SatisfiableTo ==
  ASSUME NEW t, WithoutCircles(t), NestedStacks(t), NEW n \in Nat
  PROVE  \E f : SatisfiedTo(t, n, f)
<1> SUFFICES ASSUME ~ \E f : SatisfiedTo(t, n, f) PROVE FALSE
  OBVIOUS
<1> DEFINE S == {m \in Nat : ~ \E f : SatisfiedTo(t, m, f)}
<1>1. PICK m \in S : \A k \in S : m <= k
  <2>1. S \in SUBSET Nat /\ S # {}
    OBVIOUS
  <2> HIDE DEF S
  <2> QED BY <2>1, LeastNat
<1>2. m # 0
  <2>1. SatisfiedTo(t, 0, {})
    BY CallsOf DEF SatisfiedTo
  <2> QED BY <1>1, <2>1
<1>3. m - 1 \in Nat /\ m - 1 \notin S
  BY <1>1, <1>2
<1>4. PICK f : SatisfiedTo(t, m - 1, f)
  BY <1>3
<1> DEFINE g == Body(t, f)
<1>5. ASSUME NEW q \in Calls(t), t.depth[q[2]] < m PROVE g[q] = Body(t, g)[q]
  <2>1. ASSUME NEW r \in Calls(t), t.depth[r[2]] < t.depth[q[2]] PROVE f[r] = g[r]
    <3>1. t.depth[r[2]] \in Nat /\ t.depth[q[2]] \in Nat
      BY CallsOf
    <3>2. t.depth[r[2]] < m - 1
      BY <1>1, <1>5, <2>1, <3>1
    <3> QED BY <1>4, <3>2 DEF SatisfiedTo
  <2> HIDE DEF g
  <2>2. Body(t, f)[q] = Body(t, g)[q]
    BY <2>1, BodyIsLocal
  <2> QED BY <2>2 DEF g
<1>6. SatisfiedTo(t, m, g)
  BY <1>5, Zenon DEF SatisfiedTo
<1> QED BY <1>1, <1>6

(***************************************************************************)
(* evaluation satisfies its definition: what evaluate looks up is what     *)
(* processIntrinsics computes.                                             *)
(***************************************************************************)
LEMMA EvaluationIsDefined ==
  ASSUME NEW t, WithoutCircles(t), NestedStacks(t)
  PROVE  evaluation(t) = Body(t, evaluation(t))
<1> DEFINE at(q) == CHOOSE f : SatisfiedTo(t, t.depth[q[2]] + 1, f)
           whole == [q \in Calls(t) |-> at(q)[q]]
<1>1. ASSUME NEW q \in Calls(t) PROVE SatisfiedTo(t, t.depth[q[2]] + 1, at(q))
  <2>1. t.depth[q[2]] + 1 \in Nat
    BY CallsOf
  <2> QED BY <2>1, SatisfiableTo
<1>2. ASSUME NEW q \in Calls(t) PROVE whole[q] = Body(t, whole)[q]
  <2> DEFINE g == at(q)
  <2>1. SatisfiedTo(t, t.depth[q[2]] + 1, g)
    BY <1>1
  <2>2. ASSUME NEW r \in Calls(t), t.depth[r[2]] < t.depth[q[2]] PROVE whole[r] = g[r]
    <3> DEFINE h == at(r)
    <3>1. t.depth[r[2]] \in Nat /\ t.depth[q[2]] \in Nat
      BY CallsOf
    <3>2. SatisfiedTo(t, t.depth[r[2]] + 1, h)
      BY <1>1
    <3>3. SatisfiedTo(t, t.depth[r[2]] + 1, g)
      <4> HIDE DEF g
      <4> QED BY <2>1, <2>2, <3>1, CallsOf DEF SatisfiedTo
    <3>4. whole[r] = h[r]
      OBVIOUS
    <3> HIDE DEF g, h, whole
    <3> QED BY <3>1, <3>2, <3>3, <3>4, SatisfiedAlike
  <2>3. whole[q] = g[q]
    OBVIOUS
  <2> HIDE DEF g, whole
  <2>4. Body(t, whole)[q] = Body(t, g)[q]
    BY <2>2, BodyIsLocal
  <2>5. g[q] = Body(t, g)[q]
    <3>1. t.depth[q[2]] < t.depth[q[2]] + 1
      BY CallsOf
    <3> QED BY <2>1, <3>1 DEF SatisfiedTo
  <2> QED BY <2>3, <2>4, <2>5
<1>3. whole = Body(t, whole)
  <2>1. whole = [q \in Calls(t) |-> whole[q]]
    OBVIOUS
  <2>2. Body(t, whole) = [q \in Calls(t) |-> Body(t, whole)[q]]
    BY DEF Body
  <2> HIDE DEF whole
  <2> QED BY <1>2, <2>1, <2>2
<1> HIDE DEF whole
<1>4. evaluation(t) = CHOOSE f : f = Body(t, f)
  BY DEF evaluation, Body, Calls
<1> QED BY <1>3, <1>4

(***************************************************************************)
(* What has been registered is the set R.                                  *)
(***************************************************************************)
LEMMA ContextOfR ==
  ASSUME NEW t, NEW R, R \subseteq DOMAIN t.resources
  PROVE  /\ IsContext(ContextOf(t, R), t)
         /\ ContextOf(t, R).t = t /\ ContextOf(t, R).registered = R /\ ContextOf(t, R).process = evaluation(t)
         /\ Eventually(ContextOf(t, R)) = ContextOf(t, DOMAIN t.resources)
<1> DEFINE p == evaluation(t)
<1> HIDE DEF p
<1>1. ContextOf(t, R) = [t |-> t, registered |-> R, process |-> p]
  BY DEF ContextOf, p
<1>2. ContextOf(t, DOMAIN t.resources) = [t |-> t, registered |-> DOMAIN t.resources, process |-> p]
  BY DEF ContextOf, p
<1>3. Eventually([t |-> t, registered |-> R, process |-> p]) = [t |-> t, registered |-> DOMAIN t.resources, process |-> p]
  BY DEF Eventually
<1> QED BY <1>1, <1>2, <1>3 DEF IsContext, p

LEMMA EvaluateIsProcessIntrinsics ==
  ASSUME NEW t, WithoutCircles(t), NestedStacks(t), NEW R, R \subseteq DOMAIN t.resources, NEW x \in DOMAIN t.depth
  PROVE  evaluate(ContextOf(t, R), x[1], x[2]) = processIntrinsics(ContextOf(t, R), x[1], x[2])
<1> DEFINE p == evaluation(t)
           q == <<R, x>>
<1>1. q \in Calls(t) /\ q[1] = R /\ q[2] = x
  BY DEF Calls
<1>2. x = <<x[1], x[2]>>
  BY Zenon DEF WithoutCircles
<1>3. p = Body(t, p)
  BY EvaluationIsDefined
<1>4. Body(t, p)[q] = processIntrinsics([t |-> t, registered |-> q[1], process |-> p], q[2][1], q[2][2])
  <2> HIDE DEF p, q
  <2> QED BY <1>1 DEF Body
<1>5. ContextOf(t, R) = [t |-> t, registered |-> R, process |-> p]
  BY DEF ContextOf
<1> HIDE DEF p
<1>6. evaluate(ContextOf(t, R), x[1], x[2]) = p[<<R, <<x[1], x[2]>>>>]
  BY ContextOfR, Zenon DEF evaluate, p
<1>7. p[q] = processIntrinsics([t |-> t, registered |-> R, process |-> p], x[1], x[2])
  <2> HIDE DEF q
  <2>1. p[q] = processIntrinsics([t |-> t, registered |-> q[1], process |-> p], q[2][1], q[2][2])
    BY <1>3, <1>4, Zenon
  <2> QED BY <1>1, <2>1
<1> QED BY <1>2, <1>5, <1>6, <1>7, Zenon

(***************************************************************************)
(* The same for what is collected.                                         *)
(***************************************************************************)
Descends(t, next) ==
  \A x \in DOMAIN t.depth :
    t.depth[x] \in Nat /\ \A y \in next[x] : y \in DOMAIN t.depth /\ t.depth[y] < t.depth[x]

Gathered(t, own, next, f) == [x \in DOMAIN t.depth |-> own[x] \cup UNION {f[y] : y \in next[x]}]

GatheredTo(t, own, next, n, f) ==
  \A x \in DOMAIN t.depth : t.depth[x] < n => f[x] = own[x] \cup UNION {f[y] : y \in next[x]}

LEMMA GatheredAlike ==
  ASSUME NEW t, NEW own, NEW next, Descends(t, next), NEW f, NEW g, NEW n \in Nat,
         GatheredTo(t, own, next, n, f), GatheredTo(t, own, next, n, g), NEW x \in DOMAIN t.depth, t.depth[x] < n
  PROVE  f[x] = g[x]
<1> SUFFICES ASSUME f[x] # g[x] PROVE FALSE
  OBVIOUS
<1> DEFINE S == {m \in 0..(n - 1) : \E y \in DOMAIN t.depth : t.depth[y] = m /\ f[y] # g[y]}
<1>1. t.depth[x] \in S
  BY DEF Descends
<1>2. PICK m \in S : \A k \in S : m <= k
  <2>1. S \in SUBSET Nat /\ S # {}
    BY <1>1
  <2> HIDE DEF S
  <2> QED BY <2>1, LeastNat
<1>3. PICK y \in DOMAIN t.depth : t.depth[y] = m /\ f[y] # g[y]
  BY <1>2
<1>4. m \in 0..(n - 1)
  BY <1>2
<1>5. ASSUME NEW z \in next[y] PROVE f[z] = g[z]
  <2>1. z \in DOMAIN t.depth /\ t.depth[z] < t.depth[y] /\ t.depth[z] \in Nat
    BY DEF Descends
  <2> QED BY <1>2, <1>3, <1>4, <2>1
<1>6. {f[z] : z \in next[y]} = {g[z] : z \in next[y]}
  BY <1>5
<1>7. /\ f[y] = own[y] \cup UNION {f[z] : z \in next[y]}
      /\ g[y] = own[y] \cup UNION {g[z] : z \in next[y]}
  BY <1>3, <1>4 DEF GatheredTo
<1> QED BY <1>3, <1>6, <1>7

LEMMA GatherableTo ==
  ASSUME NEW t, NEW own, NEW next, Descends(t, next), NEW n \in Nat
  PROVE  \E f : GatheredTo(t, own, next, n, f)
<1> SUFFICES ASSUME ~ \E f : GatheredTo(t, own, next, n, f) PROVE FALSE
  OBVIOUS
<1> DEFINE S == {m \in Nat : ~ \E f : GatheredTo(t, own, next, m, f)}
<1>1. PICK m \in S : \A k \in S : m <= k
  <2>1. S \in SUBSET Nat /\ S # {}
    OBVIOUS
  <2> HIDE DEF S
  <2> QED BY <2>1, LeastNat
<1>2. m # 0
  <2>1. GatheredTo(t, own, next, 0, {})
    BY DEF GatheredTo, Descends
  <2> QED BY <1>1, <2>1
<1>3. m - 1 \in Nat /\ m - 1 \notin S
  BY <1>1, <1>2
<1>4. PICK f : GatheredTo(t, own, next, m - 1, f)
  BY <1>3
<1> DEFINE g == Gathered(t, own, next, f)
<1>5. ASSUME NEW x \in DOMAIN t.depth, t.depth[x] < m
      PROVE  g[x] = own[x] \cup UNION {g[y] : y \in next[x]}
  <2>1. ASSUME NEW y \in next[x] PROVE f[y] = g[y]
    <3>1. y \in DOMAIN t.depth /\ t.depth[y] \in Nat /\ t.depth[x] \in Nat /\ t.depth[y] < t.depth[x]
      BY DEF Descends
    <3>2. t.depth[y] < m - 1
      BY <1>1, <1>5, <3>1
    <3>3. f[y] = own[y] \cup UNION {f[z] : z \in next[y]}
      BY <1>4, <3>1, <3>2 DEF GatheredTo
    <3> QED BY <3>1, <3>3 DEF Gathered
  <2>2. g[x] = own[x] \cup UNION {f[y] : y \in next[x]}
    BY DEF Gathered
  <2> HIDE DEF g
  <2>3. {f[y] : y \in next[x]} = {g[y] : y \in next[x]}
    BY <2>1
  <2> QED BY <2>2, <2>3
<1>6. GatheredTo(t, own, next, m, g)
  BY <1>5, Zenon DEF GatheredTo
<1> QED BY <1>1, <1>6

LEMMA CollectedIsDefined ==
  ASSUME NEW t, NEW own, NEW next, Descends(t, next), NEW x \in DOMAIN t.depth
  PROVE  Collected(t, own, next)[x] = own[x] \cup UNION {Collected(t, own, next)[y] : y \in next[x]}
<1> DEFINE at(y) == CHOOSE f : GatheredTo(t, own, next, t.depth[y] + 1, f)
           whole == [y \in DOMAIN t.depth |-> at(y)[y]]
<1>1. ASSUME NEW y \in DOMAIN t.depth PROVE GatheredTo(t, own, next, t.depth[y] + 1, at(y))
  <2>1. t.depth[y] + 1 \in Nat
    BY DEF Descends
  <2> QED BY <2>1, GatherableTo
<1>2. ASSUME NEW y \in DOMAIN t.depth PROVE whole[y] = own[y] \cup UNION {whole[z] : z \in next[y]}
  <2> DEFINE g == at(y)
  <2>1. GatheredTo(t, own, next, t.depth[y] + 1, g)
    BY <1>1
  <2>2. ASSUME NEW z \in next[y] PROVE whole[z] = g[z]
    <3> DEFINE h == at(z)
               n == t.depth[z] + 1
    <3>1. z \in DOMAIN t.depth /\ t.depth[z] \in Nat /\ t.depth[y] \in Nat /\ t.depth[z] < t.depth[y]
      BY DEF Descends
    <3>2. GatheredTo(t, own, next, n, h)
      BY <1>1, <3>1
    <3>3. GatheredTo(t, own, next, n, g)
      <4> HIDE DEF g
      <4> QED BY <2>1, <3>1 DEF GatheredTo, Descends
    <3>4. whole[z] = h[z]
      BY <3>1
    <3>5. n \in Nat /\ t.depth[z] < n
      BY <3>1
    <3> HIDE DEF g, h, whole, n
    <3>6. h[z] = g[z]
      BY <3>1, <3>2, <3>3, <3>5, GatheredAlike
    <3> QED BY <3>4, <3>6
  <2>3. whole[y] = g[y]
    OBVIOUS
  <2> HIDE DEF g, whole
  <2>4. {whole[z] : z \in next[y]} = {g[z] : z \in next[y]}
    BY <2>2
  <2>5. g[y] = own[y] \cup UNION {g[z] : z \in next[y]}
    <3>1. t.depth[y] < t.depth[y] + 1
      BY DEF Descends
    <3> QED BY <2>1, <3>1 DEF GatheredTo
  <2> QED BY <2>3, <2>4, <2>5
<1>3. whole = Gathered(t, own, next, whole)
  <2>1. whole = [y \in DOMAIN t.depth |-> whole[y]]
    OBVIOUS
  <2> HIDE DEF whole
  <2>2. \A y \in DOMAIN t.depth : Gathered(t, own, next, whole)[y] = whole[y]
    BY <1>2 DEF Gathered
  <2>3. Gathered(t, own, next, whole) = [y \in DOMAIN t.depth |-> Gathered(t, own, next, whole)[y]]
    BY DEF Gathered
  <2> HIDE DEF whole
  <2> QED BY <2>1, <2>2, <2>3
<1> HIDE DEF whole
<1>4. Collected(t, own, next) = CHOOSE f : f = Gathered(t, own, next, f)
  BY DEF Collected, Gathered
<1>5. Collected(t, own, next) = Gathered(t, own, next, Collected(t, own, next))
  BY <1>3, <1>4
<1> DEFINE all == Collected(t, own, next)
<1> HIDE DEF all
<1>6. Gathered(t, own, next, all)[x] = own[x] \cup UNION {all[y] : y \in next[x]}
  BY DEF Gathered
<1> QED BY <1>5, <1>6, Zenon DEF all

-----------------------------------------------------------------------------
(***************************************************************************)
(* What an expression has edges to and leads to, by what it is made of.    *)
(***************************************************************************)
LEMMA EdgesOf ==
  ASSUME NEW t, WithoutCircles(t), NEW x \in DOMAIN t.depth
  PROVE  /\ Named(t, x) \subseteq edges(t)[x]
         /\ \A y \in Walked(t, x) : y \in DOMAIN t.depth /\ edges(t)[y] \subseteq edges(t)[x]
<1> DEFINE own  == [z \in DOMAIN t.depth |-> Named(t, z)]
           next == [z \in DOMAIN t.depth |-> Walked(t, z)]
<1>1. own[x] = Named(t, x) /\ next[x] = Walked(t, x)
  OBVIOUS
<1>2. \A y \in Walked(t, x) : y \in DOMAIN t.depth
  BY DEF WithoutCircles
<1>3. Descends(t, next)
  <2>1. \A z \in DOMAIN t.depth : t.depth[z] \in Nat /\ \A y \in Walked(t, z) : y \in DOMAIN t.depth /\ t.depth[y] < t.depth[z]
    BY DEF WithoutCircles
  <2>2. \A z \in DOMAIN t.depth : next[z] = Walked(t, z)
    OBVIOUS
  <2> HIDE DEF next
  <2> QED BY <2>1, <2>2 DEF Descends
<1>4. edges(t) = Collected(t, own, next)
  BY DEF edges
<1> HIDE DEF own, next
<1>5. edges(t)[x] = own[x] \cup UNION {edges(t)[y] : y \in next[x]}
  BY <1>3, <1>4, CollectedIsDefined
<1> QED BY <1>1, <1>2, <1>5

LEMMA EverythingOf ==
  ASSUME NEW t, WithoutCircles(t), NEW x \in DOMAIN t.depth
  PROVE  /\ x \in Everything(t)[x]
         /\ \A y \in Links(t, x) : y \in DOMAIN t.depth /\ Everything(t)[y] \subseteq Everything(t)[x]
<1> DEFINE own  == [z \in DOMAIN t.depth |-> {z}]
           next == [z \in DOMAIN t.depth |-> Links(t, z)]
<1>1. own[x] = {x} /\ next[x] = Links(t, x)
  OBVIOUS
<1>2. \A y \in Links(t, x) : y \in DOMAIN t.depth
  BY DEF WithoutCircles
<1>3. Descends(t, next)
  <2>1. \A z \in DOMAIN t.depth : t.depth[z] \in Nat /\ \A y \in Links(t, z) : y \in DOMAIN t.depth /\ t.depth[y] < t.depth[z]
    BY DEF WithoutCircles
  <2>2. \A z \in DOMAIN t.depth : next[z] = Links(t, z)
    OBVIOUS
  <2> HIDE DEF next
  <2> QED BY <2>1, <2>2 DEF Descends
<1>4. Everything(t) = Collected(t, own, next)
  BY DEF Everything
<1> HIDE DEF own, next
<1>5. Everything(t)[x] = own[x] \cup UNION {Everything(t)[y] : y \in next[x]}
  BY <1>3, <1>4, CollectedIsDefined
<1> QED BY <1>1, <1>2, <1>5

(***************************************************************************)
(* The evaluation of x is covered by the resources R: they include what x  *)
(* has edges to and the nested stack that it is in, and the graph sees all *)
(* that x leads to.                                                        *)
(***************************************************************************)
Closed(t, R) == R \subseteq DOMAIN t.resources /\ \A a \in R : Dependencies(t, a) \subseteq R

Covered(t, R, x) ==
  /\ x \in DOMAIN t.depth
  /\ edges(t)[x] \subseteq R
  /\ NestedStackOf(t, x[1]) \subseteq R
  /\ \A y \in Everything(t)[x] : Seen(t, y)

(***************************************************************************)
(* What x itself looks up has edges.                                       *)
(***************************************************************************)
LEMMA LookedUpIsNamed ==
  ASSUME NEW t, NEW x, ~ computed(x[2]), NEW a \in LookedUp(t, x), a \in DOMAIN t.resources
  PROVE  a \in Named(t, x)
<1> DEFINE e == x[2]
<1>1. CASE e.fn = "Ref"
  <2>1. References(t, x) = {<<x[1], e.args[1].arg>>} \/ References(t, x) = {}
    BY <1>1 DEF References
  <2>2. Attributes(t, x) = {}
    BY <1>1 DEF Attributes
  <2>3. e.args[1].fn # "string" => References(t, x) = {}
    BY <1>1 DEF References
  <2>4. e.args[1].fn = "string" => Named(t, x) = DOMAIN t.resources \cap {<<x[1], e.args[1].arg>>}
    BY <1>1 DEF Named
  <2> QED BY <2>1, <2>2, <2>3, <2>4 DEF LookedUp
<1>2. CASE e.fn = "Fn::GetAtt"
  <2> DEFINE b == cidrBlockOf(t, <<x[1], e.args[1].arg>>, e.args[2].arg)
  <2>1. References(t, x) = {}
    BY <1>2 DEF References
  <2>2. Attributes(t, x) = {<<b, e.args[2].arg>>}
    BY <1>2 DEF Attributes
  <2>3. Named(t, x) = DOMAIN t.resources \cap {b}
    BY <1>2 DEF Named
  <2> HIDE DEF b
  <2> QED BY <2>1, <2>2, <2>3 DEF LookedUp
<1>3. CASE e.fn = "Fn::Sub"
  <2>1. References(t, x) = {<<x[1], r.id[1]>> : r \in {h \in Holes(e) : h.attr = <<>>}}
    BY <1>3 DEF References
  <2>2. Attributes(t, x) = {<< <<x[1], r.id[1]>>, r.attr[1]>> : r \in {h \in Holes(e) : h.attr # <<>>}}
    BY <1>3 DEF Attributes
  <2>3. Named(t, x) = DOMAIN t.resources \cap {<<x[1], r.id[1]>> : r \in Holes(e)}
    BY <1>3 DEF Named
  <2>4. CASE a \in References(t, x)
    BY <2>1, <2>3, <2>4
  <2>5. CASE a \in {p[1] : p \in Attributes(t, x)}
    <3>1. PICK p \in Attributes(t, x) : a = p[1]
      BY <2>5
    <3>2. PICK r \in Holes(e) : p = << <<x[1], r.id[1]>>, r.attr[1]>>
      BY <2>2
    <3> QED BY <2>3, <3>1, <3>2
  <2> QED BY <2>4, <2>5 DEF LookedUp
<1>4. CASE e.fn \notin {"Ref", "Fn::GetAtt", "Fn::Sub"}
  <2>1. References(t, x) = {} /\ Attributes(t, x) = {}
    BY <1>4 DEF References, Attributes
  <2> QED BY <2>1 DEF LookedUp
<1> QED BY <1>1, <1>2, <1>3, <1>4

LEMMA LookedUpIsCovered ==
  ASSUME NEW t, WithoutCircles(t), NEW R, NEW x, Covered(t, R, x), NEW a \in LookedUp(t, x), a \in DOMAIN t.resources
  PROVE  a \in R
<1>1. x \in DOMAIN t.depth /\ edges(t)[x] \subseteq R
  BY DEF Covered
<1>2. Seen(t, x)
  BY <1>1, EverythingOf, Zenon DEF Covered
<1>3. a \in Named(t, x)
  BY <1>2, LookedUpIsNamed DEF Seen
<1> QED BY <1>1, <1>3, EdgesOf

(***************************************************************************)
(* What a nested stack passes as a parameter is a part of its Properties.  *)
(***************************************************************************)
LEMMA PartsAreWalked ==
  ASSUME NEW t, WithoutCircles(t), NEW stack, NEW e, <<stack, e>> \in DOMAIN t.depth,
         e.fn \in {"object", "entry"}, NEW i \in DOMAIN e.args
  PROVE  <<stack, e.args[i]>> \in DOMAIN t.depth /\ edges(t)[<<stack, e.args[i]>>] \subseteq edges(t)[<<stack, e>>]
<1> DEFINE x == <<stack, e>>
           y == <<stack, e.args[i]>>
<1>1. y \in Walked(t, x)
  BY DEF Walked, Arguments, computed
<1> x \in DOMAIN t.depth
  OBVIOUS
<1> HIDE DEF x, y
<1>2. y \in DOMAIN t.depth /\ edges(t)[y] \subseteq edges(t)[x]
  BY <1>1, EdgesOf
<1> QED BY <1>2 DEF x, y

LEMMA EntryHasValue ==
  ASSUME NEW t, WithoutCircles(t), NEW stack, NEW e, <<stack, e>> \in DOMAIN t.depth, e.fn = "entry"
  PROVE  1 \in DOMAIN e.args
<1> DEFINE x == <<stack, e>>
<1>1. IsExpression(x[2])
  BY Zenon DEF WithoutCircles
<1>2. IsExpression(e)
  BY <1>1
<1> QED BY <1>2 DEF IsExpression

LEMMA PassedIsWalked ==
  ASSUME NEW t, WithoutCircles(t), NEW stack, NEW passed, NEW id, NEW e,
         <<stack, passed>> \in DOMAIN t.depth, Passes(passed, id, e)
  PROVE  <<stack, e>> \in DOMAIN t.depth /\ edges(t)[<<stack, e>>] \subseteq edges(t)[<<stack, passed>>]
<1>1. PICK i \in DOMAIN passed.args :
        /\ passed.fn = "object" /\ passed.args[i].fn = "entry" /\ passed.args[i].arg = "Parameters"
        /\ \E j \in DOMAIN passed.args[i].args[1].args :
             /\ passed.args[i].args[1].fn = "object" /\ passed.args[i].args[1].args[j].fn = "entry"
             /\ passed.args[i].args[1].args[j].arg = id /\ passed.args[i].args[1].args[j].args[1] = e
  BY Zenon DEF Passes
<1> DEFINE entry == passed.args[i]
           parameters == entry.args[1]
<1>2. PICK j \in DOMAIN parameters.args :
        /\ parameters.fn = "object" /\ parameters.args[j].fn = "entry"
        /\ parameters.args[j].arg = id /\ parameters.args[j].args[1] = e
  BY <1>1, Zenon
<1> DEFINE set == parameters.args[j]
<1>3. <<stack, entry>> \in DOMAIN t.depth /\ edges(t)[<<stack, entry>>] \subseteq edges(t)[<<stack, passed>>]
  BY <1>1, PartsAreWalked
<1>4. <<stack, parameters>> \in DOMAIN t.depth /\ edges(t)[<<stack, parameters>>] \subseteq edges(t)[<<stack, entry>>]
  <2> entry.fn = "entry"
    BY <1>1
  <2> HIDE DEF entry
  <2> QED BY <1>3, PartsAreWalked, EntryHasValue
<1>5. <<stack, set>> \in DOMAIN t.depth /\ edges(t)[<<stack, set>>] \subseteq edges(t)[<<stack, parameters>>]
  <2> HIDE DEF parameters
  <2> QED BY <1>2, <1>4, PartsAreWalked
<1>6. <<stack, e>> \in DOMAIN t.depth /\ edges(t)[<<stack, e>>] \subseteq edges(t)[<<stack, set>>]
  <2> set.fn = "entry" /\ set.args[1] = e
    BY <1>2
  <2> HIDE DEF set
  <2> QED BY <1>5, PartsAreWalked, EntryHasValue
<1> HIDE DEF entry, parameters, set
<1> QED BY <1>3, <1>4, <1>5, <1>6

(***************************************************************************)
(* What x leads to is covered too: what it evaluates of its own has the    *)
(* edges of x; a set parameter those of the nested stack, which is         *)
(* registered with what it depends on; an output those of x; a condition   *)
(* none.                                                                   *)
(***************************************************************************)
LEMMA LinksAreCovered ==
  ASSUME NEW t, WithoutCircles(t), ConditionsNameNoResource(t), NestedStacks(t), NEW R, Closed(t, R),
         NEW x, Covered(t, R, x), NEW y \in Links(t, x)
  PROVE  Covered(t, R, y)
<1>1. /\ x \in DOMAIN t.depth /\ edges(t)[x] \subseteq R /\ NestedStackOf(t, x[1]) \subseteq R
      /\ R \subseteq DOMAIN t.resources
  BY DEF Covered, Closed
<1>2. y \in DOMAIN t.depth /\ \A z \in Everything(t)[y] : Seen(t, z)
  BY <1>1, EverythingOf DEF Covered
<1>3. Seen(t, x)
  BY <1>1, EverythingOf, Zenon DEF Covered
<1>4. edges(t)[y] \subseteq R /\ NestedStackOf(t, y[1]) \subseteq R
  <2>1. CASE y \in {<<x[1], e>> : e \in Arguments(x[2])}
    <3>1. y \in Walked(t, x) /\ y[1] = x[1]
      BY <1>3, <2>1 DEF Walked, Arguments, Seen
    <3> QED BY <1>1, <3>1, EdgesOf
  <2>2. CASE y \in {<<t.parentOf[a[1]], t.parameters[a].set>> : a \in References(t, x) \cap SetParameters(t)}
    <3>1. PICK a \in References(t, x) \cap SetParameters(t) : y = <<t.parentOf[a[1]], t.parameters[a].set>>
      BY <2>2
    <3>2. a[1] = x[1]
      BY <1>3 DEF References, Seen
    <3>3. PICK n \in NestedStackOf(t, a[1]) : n[1] = t.parentOf[a[1]] /\ Passes(t.resources[n].props, a[2], t.parameters[a].set)
      BY <3>1 DEF NestedStacks
    <3>4. n \in R /\ n \in DOMAIN t.resources
      BY <1>1, <3>2, <3>3
    <3>5. NestedStackOf(t, n[1]) \cup edges(t)[PropsOf(t, n)] \subseteq R
      BY <3>4, Zenon DEF Closed, Dependencies
    <3>6. PropsOf(t, n) \in DOMAIN t.depth
      BY <3>4 DEF WithoutCircles
    <3>7. edges(t)[y] \subseteq edges(t)[PropsOf(t, n)]
      BY <3>1, <3>3, <3>6, PassedIsWalked DEF PropsOf
    <3> QED BY <3>1, <3>3, <3>5, <3>7
  <2>3. CASE y \in {<<x[1], t.conditions[k]>> : k \in DOMAIN t.conditions \cap {<<x[1], n>> : n \in Tested(x[2])}}
    <3>1. PICK k \in DOMAIN t.conditions : y = <<x[1], t.conditions[k]>> /\ k[1] = x[1]
      BY <2>3
    <3>2. edges(t)[y] = {}
      BY <1>2, <3>1 DEF ConditionsNameNoResource
    <3> QED BY <1>1, <3>1, <3>2
  <2>4. CASE y \in UNION {OutputsOf(t, p[1], p[2]) : p \in Attributes(t, x)}
    <3>1. PICK p \in Attributes(t, x) : y \in OutputsOf(t, p[1], p[2])
      BY <2>4
    <3>2. /\ p[1] \in DOMAIN t.resources /\ t.resources[p[1]].kind = "nested"
          /\ y[1] = t.resources[p[1]].nested
      BY <3>1 DEF OutputsOf
    <3>3. p[1] \in R
      BY <3>2, LookedUpIsCovered DEF LookedUp
    <3>4. NestedStackOf(t, y[1]) = {p[1]}
      BY <3>2 DEF NestedStackOf, NestedStacks
    <3>5. y \in Walked(t, x)
      <4>1. x[2].fn = "Fn::GetAtt"
        BY <1>3, <3>1 DEF Attributes, Seen
      <4> DEFINE own  == <<x[1], x[2].args[1].arg>>
                 attr == x[2].args[2].arg
      <4>2. p = <<cidrBlockOf(t, own, attr), attr>>
        BY <4>1 DEF Attributes
      <4>3. Walked(t, x) = OutputsOf(t, own, attr)
        BY <4>1 DEF Walked
      <4> HIDE DEF own, attr
      <4>4. CASE cidrBlockOf(t, own, attr) = own
        BY <3>1, <4>2, <4>3, <4>4
      <4>5. CASE cidrBlockOf(t, own, attr) # own
        <5>1. p[1] \in NestedStackOf(t, "")
          BY <4>2, <4>5 DEF cidrBlockOf, NestedStacks
        <5> QED BY <3>2, <5>1 DEF NestedStackOf, NestedStacks
      <4> QED BY <4>4, <4>5
    <3> QED BY <1>1, <3>3, <3>4, <3>5, EdgesOf
  <2> QED BY <2>1, <2>2, <2>3, <2>4 DEF Links
<1> QED BY <1>2, <1>4 DEF Covered

(***************************************************************************)
(* A covered evaluation is what it would be with all resources registered: *)
(* the one at the least depth that is not would agree on all it leads to.  *)
(***************************************************************************)
LEMMA CoveredEvaluation ==
  ASSUME NEW t, WellFormed(t), NEW R, Closed(t, R), NEW x, Covered(t, R, x)
  PROVE  processIntrinsics(ContextOf(t, R), x[1], x[2]) = processIntrinsics(ContextOf(t, DOMAIN t.resources), x[1], x[2])
<1> DEFINE c == ContextOf(t, R)
           d == ContextOf(t, DOMAIN t.resources)
           differs(y) == processIntrinsics(c, y[1], y[2]) # processIntrinsics(d, y[1], y[2])
           S == {n \in Nat : \E y : Covered(t, R, y) /\ t.depth[y] = n /\ differs(y)}
<1> SUFFICES ASSUME differs(x) PROVE FALSE
  OBVIOUS
<1>1. WithoutCircles(t) /\ ConditionsNameNoResource(t) /\ NestedStacks(t)
  BY DEF WellFormed
<1>2. R \subseteq DOMAIN t.resources
  BY DEF Closed
<1>3. ASSUME NEW y, Covered(t, R, y) PROVE y \in DOMAIN t.depth /\ t.depth[y] \in Nat
  BY <1>1, <1>3 DEF Covered, WithoutCircles
<1>4. PICK n \in S : \A m \in S : n <= m
  <2>1. t.depth[x] \in S
    <3> HIDE DEF differs
    <3> QED BY <1>3
  <2>2. S \in SUBSET Nat /\ S # {}
    BY <2>1
  <2> HIDE DEF S
  <2> QED BY <2>2, LeastNat
<1> HIDE DEF differs
<1>5. PICK y : Covered(t, R, y) /\ t.depth[y] = n /\ differs(y)
  BY <1>4
<1>6. ASSUME NEW z \in Links(t, y) PROVE Covered(t, R, z) /\ ~ differs(z)
  <2>1. Covered(t, R, z)
    BY <1>1, <1>5, LinksAreCovered
  <2>2. t.depth[z] < n /\ t.depth[z] \in Nat
    BY <1>1, <1>3, <1>5 DEF WithoutCircles
  <2> HIDE DEF S
  <2>3. t.depth[z] \notin S
    BY <1>4, <2>2 DEF S
  <2> QED BY <2>1, <2>2, <2>3 DEF S
<1>7. /\ IsContext(c, t) /\ IsContext(d, t) /\ c.registered = R /\ d.registered = DOMAIN t.resources
      /\ Eventually(c) = d /\ Eventually(d) = d
  BY <1>2, ContextOfR
<1>8. ASSUME NEW z \in Links(t, y) PROVE SameOf(c, d, z)
  <2>1. z \in DOMAIN t.depth
    BY <1>3, <1>6
  <2>2. /\ evaluate(c, z[1], z[2]) = processIntrinsics(c, z[1], z[2])
        /\ evaluate(d, z[1], z[2]) = processIntrinsics(d, z[1], z[2])
    BY <1>1, <1>2, <2>1, EvaluateIsProcessIntrinsics
  <2>3. processIntrinsics(c, z[1], z[2]) = processIntrinsics(d, z[1], z[2])
    BY <1>6 DEF differs
  <2> HIDE DEF c, d
  <2> QED BY <1>7, <2>2, <2>3, Zenon DEF SameOf
<1>9. \A a \in LookedUp(t, y) : a \in c.registered <=> a \in d.registered
  BY <1>1, <1>2, <1>5, <1>7, LookedUpIsCovered
<1> HIDE DEF c, d
<1>10. Agreement(c, d, t, y)
  BY <1>7, <1>8, <1>9, Zenon DEF Agreement
<1>11. y = <<y[1], y[2]>> /\ IsExpression(y[2])
  BY <1>1, <1>3, <1>5, Zenon DEF WithoutCircles
<1>12. Agreement(c, d, t, <<y[1], y[2]>>)
  BY <1>10, <1>11, Zenon
<1>13. processIntrinsics(c, y[1], y[2]) = processIntrinsics(d, y[1], y[2])
  BY <1>1, <1>11, <1>12, EvaluationsAgree
<1> QED BY <1>5, <1>13 DEF differs

(***************************************************************************)
(* When a resource is registered its Properties are covered by what has    *)
(* been registered before.                                                 *)
(***************************************************************************)
LEMMA PropertiesCovered ==
  ASSUME NEW t, WellFormed(t), NEW R, Closed(t, R), NEW a \in DOMAIN t.resources,
         Dependencies(t, a) \subseteq R, AllSeen(t, a)
  PROVE  processIntrinsics(ContextOf(t, R), a[1], t.resources[a].props)
           = processIntrinsics(ContextOf(t, DOMAIN t.resources), a[1], t.resources[a].props)
<1> DEFINE x == PropsOf(t, a)
<1>1. x[1] = a[1] /\ x[2] = t.resources[a].props
  BY DEF PropsOf
<1>2. x \in DOMAIN t.depth /\ a \notin edges(t)[x] /\ t.resources[a].nested # a[1]
  BY DEF WellFormed, WithoutCircles
<1>3. edges(t)[x] \subseteq R /\ NestedStackOf(t, a[1]) \subseteq R
  BY <1>2 DEF Dependencies, NestedStackOf
<1>4. Covered(t, R, x)
  BY <1>1, <1>2, <1>3 DEF Covered, AllSeen
<1> HIDE DEF x
<1> QED BY <1>1, <1>4, CoveredEvaluation

-----------------------------------------------------------------------------
(***************************************************************************)
(* Every evaluation has a result: a value or an error, now or eventually.  *)
(***************************************************************************)
LEMMA SimpleResults ==
  /\ \A v : Result(Now(v))
  /\ Result(fail)
  /\ \A r : Result(r) => Result(Later(r))
<1>1. ASSUME NEW v PROVE Result(Now(v))
  BY DEF Now, Result
<1>2. Result(fail)
  BY DEF fail, Result
<1>3. ASSUME NEW r, Result(r) PROVE Result(Later(r))
  <2> DEFINE ok == r.ok
             v == r.value
  <2>1. ok \in BOOLEAN
    BY <1>3 DEF Result
  <2>2. Later(r) = [ok |-> ok, later |-> TRUE, value |-> v]
    BY Zenon DEF Later
  <2> HIDE DEF ok, v
  <2> QED BY <2>1, <2>2 DEF Result
<1> QED BY <1>1, <1>2, <1>3, Zenon

LEMMA TogetherIsResult ==
  ASSUME NEW type, NEW rs
  PROVE  Result(Together(type, rs))
<1> DEFINE ok    == \A i \in DOMAIN rs : rs[i].ok
           later == (\E i \in DOMAIN rs : rs[i].later) /\ ~(\E i \in DOMAIN rs : Thrown(rs[i]))
           v     == IF \A i \in DOMAIN rs : rs[i].ok
                    THEN [type |-> type, text |-> <<>>, items |-> [i \in DOMAIN rs |-> rs[i].value]]
                    ELSE Undefined
<1>1. ok \in BOOLEAN /\ later \in BOOLEAN
  OBVIOUS
<1>2. Together(type, rs) = [ok |-> ok, later |-> later, value |-> v]
  BY Zenon DEF Together
<1> HIDE DEF ok, later, v
<1> QED BY <1>1, <1>2 DEF Result

(***************************************************************************)
(* What x leads to has results, now and eventually.                        *)
(***************************************************************************)
ResultOf(c, y) == Result(evaluate(c, y[1], y[2])) /\ Result(evaluate(Eventually(c), y[1], y[2]))

Answered(c, t, x) == IsContext(c, t) /\ \A y \in Links(t, x) : ResultOf(c, y)

LEMMA AnsweredEventually ==
  ASSUME NEW t, NEW c, NEW x, Answered(c, t, x)
  PROVE  Answered(Eventually(c), t, x)
<1>1. IsContext(c, t)
  BY DEF Answered
<1>2. IsContext(Eventually(c), t) /\ Eventually(Eventually(c)) = Eventually(c)
  BY <1>1, EventuallyAll
<1> QED BY <1>2, Zenon DEF Answered, ResultOf

LEMMA ArgumentResult ==
  ASSUME NEW t, NEW c, NEW stack, NEW e, Answered(c, t, <<stack, e>>), NEW y \in Arguments(e)
  PROVE  Result(evaluate(c, stack, y)) /\ Result(evaluate(Eventually(c), stack, y))
<1>1. <<stack, y>> \in Links(t, <<stack, e>>)
  BY DEF Links
<1>2. ResultOf(c, <<stack, y>>)
  BY <1>1, Zenon DEF Answered
<1> QED BY <1>2 DEF ResultOf

(***************************************************************************)
(* Names: evaluateRef and resolveAtt.                                      *)
(***************************************************************************)
LEMMA RefResourceResult ==
  ASSUME NEW t, ResourcesTyped(t), NEW a \in DOMAIN t.resources, NEW c
  PROVE  Result(refResource(c, t.resources[a]))
<1> DEFINE r == t.resources[a]
           names == r.cfRef.properties
           values == Together("list", [i \in DOMAIN names |-> r.properties[names[i]]])
<1>1. Result(r.id) /\ (r.attributes # None => \A name \in DOMAIN r.attributes.of : Result(r.attributes.of[name]))
  BY Zenon DEF ResourcesTyped
<1>2. Result(values)
  BY TogetherIsResult
<1> DEFINE joined == apply(c, values, LAMBDA d, vs : IF \A i \in DOMAIN vs.items : vs.items[i].type = "string"
                                                   THEN Now(Text(join(r.cfRef.delimiter, vs.items))) ELSE fail)
<1>3. Result(joined)
  <2> HIDE DEF values, r
  <2> QED BY <1>2, SimpleResults, Zenon DEF apply
<1> HIDE DEF joined
<1>4. refResource(c, r) =
        CASE r.attributes # None /\ "id" \in DOMAIN r.attributes.of              -> r.attributes.of["id"]
          [] r.kind \in {"custom", "classic", "nested"}                          -> r.id
          [] r.kind = "native" /\ r.cfRef.support \in {"none", "notSupportedYet"} -> r.id
          [] r.cfRef.support = "notSupported"                                    -> fail
          [] \E i \in DOMAIN names : names[i] \notin DOMAIN r.properties         -> fail
          [] OTHER -> joined
  BY Zenon DEF refResource, joined
<1> HIDE DEF r, names
<1> QED BY <1>1, <1>3, <1>4, SimpleResults DEF r

LEMMA RefResult ==
  ASSUME NEW t, ResourcesTyped(t), NEW c, NEW x, Answered(c, t, x), NEW name,
         <<x[1], name>> \in References(t, x) \/ <<x[1], name>> \notin DOMAIN t.parameters
  PROVE  Result(evaluateRef(c, x[1], name))
<1> DEFINE a == <<x[1], name>>
<1>1. c.t = t /\ c.registered \subseteq DOMAIN t.resources
  BY DEF Answered, IsContext
<1>2. Result(pseudo(c, name))
  BY SimpleResults DEF pseudo
<1>3. a \in DOMAIN t.parameters => Result(evaluateParameter(c, a))
  <2> SUFFICES ASSUME a \in DOMAIN t.parameters PROVE Result(evaluateParameter(c, a))
    OBVIOUS
  <2>1. CASE isSet(t.parameters[a])
    <3> DEFINE y == <<t.parentOf[a[1]], t.parameters[a].set>>
    <3>1. a \in References(t, x) \cap SetParameters(t)
      BY <2>1 DEF SetParameters
    <3>2. y \in Links(t, x)
      BY <3>1 DEF Links
    <3>3. ResultOf(c, y)
      BY <3>2, Zenon DEF Answered
    <3> QED BY <1>1, <2>1, <3>3 DEF evaluateParameter, ResultOf
  <2>2. CASE ~ isSet(t.parameters[a])
    BY <1>1, <2>2, SimpleResults DEF evaluateParameter, parameterValue
  <2> QED BY <2>1, <2>2
<1>4. a \in c.registered => Result(refResource(c, t.resources[a]))
  BY <1>1, RefResourceResult
<1> QED BY <1>1, <1>2, <1>3, <1>4, SimpleResults DEF evaluateRef

LEMMA AttResult ==
  ASSUME NEW t, ResourcesTyped(t), NestedStacks(t), NEW c, NEW x, Answered(c, t, x), NEW a, NEW attr, Asked(t, x, a, attr)
  PROVE  Result(resolveAtt(c, a, attr))
<1>1. c.t = t /\ c.registered \subseteq DOMAIN t.resources
  BY DEF Answered, IsContext
<1> SUFFICES ASSUME a \in c.registered PROVE Result(attribute(c, a, attr))
  BY SimpleResults DEF resolveAtt
<1> DEFINE r == t.resources[a]
           out == <<r.nested, attr>>
<1>2. a \in DOMAIN t.resources
  BY <1>1
<1>3. /\ \A name \in DOMAIN r.properties : Result(r.properties[name])
      /\ r.attributes # None => \A name \in DOMAIN r.attributes.of : Result(r.attributes.of[name])
  BY <1>2, Zenon DEF ResourcesTyped
<1>4. r.kind = "nested" /\ out \in DOMAIN t.outputs => Result(evaluate(c, r.nested, t.outputs[out]))
  <2> SUFFICES ASSUME r.kind = "nested", out \in DOMAIN t.outputs PROVE Result(evaluate(c, r.nested, t.outputs[out]))
    OBVIOUS
  <2> DEFINE y == <<r.nested, t.outputs[out]>>
             p == <<a, attr>>
  <2>1. p \in Attributes(t, x)
    BY <1>2 DEF Asked, NestedStackOf, NestedStacks
  <2>2. y \in OutputsOf(t, p[1], p[2])
    BY <1>2 DEF OutputsOf
  <2> HIDE DEF p
  <2>3. y \in Links(t, x)
    BY <2>1, <2>2 DEF Links
  <2>4. ResultOf(c, y)
    BY <2>3, Zenon DEF Answered
  <2> QED BY <2>4 DEF ResultOf
<1>5. attribute(c, a, attr) =
        CASE r.kind = "nested" -> IF out \in DOMAIN t.outputs THEN evaluate(c, r.nested, t.outputs[out]) ELSE fail
          [] r.kind = "custom" -> IF attr \in DOMAIN r.properties THEN r.properties[attr] ELSE Later(fail)
          [] r.attributes # None -> IF attr \in DOMAIN r.attributes.of THEN r.attributes.of[attr] ELSE fail
          [] OTHER -> IF t.external.attributePropertyName[attr] \in DOMAIN r.properties
                      THEN r.properties[t.external.attributePropertyName[attr]] ELSE fail
  BY <1>1 DEF attribute
<1> HIDE DEF r, out
<1> QED BY <1>3, <1>4, <1>5, SimpleResults

LEMMA GetAttResult ==
  ASSUME NEW t, ResourcesTyped(t), NestedStacks(t), NEW c, NEW stack, NEW e, Answered(c, t, <<stack, e>>), e.fn = "Fn::GetAtt"
  PROVE  Result(getAtt(c, stack, e.args[1].arg, e.args[2].arg))
<1> DEFINE own  == <<stack, e.args[1].arg>>
           attr == e.args[2].arg
           a    == cidrBlockOf(t, own, attr)
           x    == <<stack, e>>
<1>1. c.t = t
  BY DEF Answered, IsContext
<1>2. Attributes(t, x) = {<<a, attr>>}
  BY DEF Attributes
<1>3. CASE attr = "Ipv6CidrBlocks" /\ own \in DOMAIN t.cidrBlocks
  BY <1>1, <1>3, TogetherIsResult DEF getAtt
<1>4. CASE ~ (attr = "Ipv6CidrBlocks" /\ own \in DOMAIN t.cidrBlocks)
  <2>1. a = own
    BY <1>4 DEF cidrBlockOf
  <2>2. <<a, attr>>[1] = a /\ Answered(c, t, x)
    OBVIOUS
  <2>3. Result(resolveAtt(c, a, attr))
    <3> HIDE DEF a, attr, x
    <3>1. Asked(t, x, a, attr)
      BY <1>2, <2>2 DEF Asked, LookedUp
    <3> QED BY <2>2, <3>1, AttResult
  <2> HIDE DEF a
  <2> QED BY <1>1, <1>4, <2>1, <2>3 DEF getAtt
<1> QED BY <1>3, <1>4

LEMMA RefExpressionResult ==
  ASSUME NEW t, ResourcesTyped(t), NEW c, NEW stack, NEW e, Answered(c, t, <<stack, e>>), e.fn = "Ref"
  PROVE  Result(ref(c, stack, e.args[1]))
<1> DEFINE param == e.args[1]
           x == <<stack, e>>
<1>1. c.t = t /\ x[1] = stack /\ Answered(c, t, x)
  BY DEF Answered, IsContext
<1>2. CASE param.fn = "output"
  BY <1>2, SimpleResults DEF ref
<1>3. CASE param.fn = "string"
  <2>1. <<stack, param.arg>> \in References(t, x)
    BY <1>3 DEF References, computed
  <2>2. Result(evaluateRef(c, stack, param.arg))
    <3> HIDE DEF x, param
    <3> QED BY <1>1, <2>1, RefResult
  <2> QED BY <1>3, <2>2 DEF ref
<1>4. CASE param.fn \notin {"output", "string"}
  <2>1. computed(e) /\ param \in Arguments(e)
    BY <1>4 DEF computed, Arguments
  <2>2. Result(evaluate(c, stack, param))
    BY <2>1, ArgumentResult
  <2>3. ASSUME NEW k, Answered(k, t, x), NEW name
        PROVE  Result(evaluateRef(k, stack, name))
    <3>1. References(t, x) = {b \in DOMAIN t.parameters \cup DOMAIN t.resources : b[1] = stack}
      BY <2>1 DEF References, computed
    <3>2. <<stack, name>> \in References(t, x) \/ <<stack, name>> \notin DOMAIN t.parameters
      BY <3>1
    <3> HIDE DEF x
    <3> QED BY <1>1, <2>3, <3>2, RefResult
  <2>4. Answered(Eventually(c), t, x)
    BY <1>1, AnsweredEventually
  <2> DEFINE r == apply(c, evaluate(c, stack, param), LAMBDA m, v : mustBe("string", v))
  <2>5. Result(r)
    <3>1. \A v : Result(mustBe("string", v))
      BY SimpleResults DEF mustBe
    <3> QED BY <2>2, <3>1, SimpleResults, Zenon DEF apply
  <2>6. ref(c, stack, param) = apply(c, r, LAMBDA m, v : evaluateRef(m, stack, Name(v)))
    BY <1>4 DEF ref
  <2> HIDE DEF r, x
  <2>7. Result(apply(c, r, LAMBDA m, v : evaluateRef(m, stack, Name(v))))
    <3>1. /\ Result(evaluateRef(c, stack, Name(r.value)))
          /\ Result(evaluateRef(Eventually(c), stack, Name(r.value)))
      BY <1>1, <2>3, <2>4
    <3> QED BY <2>5, <3>1, SimpleResults, Zenon DEF apply
  <2> QED BY <2>6, <2>7, Zenon
<1> QED BY <1>2, <1>3, <1>4

LEMMA SubResult ==
  ASSUME NEW c, NEW stack, NEW pieces
  PROVE  Result(fnSub(c, stack, pieces))
<1> DEFINE parts == parseSub(Written(pieces))
           joined == FlattenSeq([i \in DOMAIN parts |-> <<Now(Text(parts[i].str)), substituted(c, stack, parts[i].ref)>>])
<1>1. Result(Together("list", joined))
  BY TogetherIsResult
<1>2. \A v : Result(Concatenated(v))
  BY SimpleResults DEF Concatenated
<1>3. fnSub(c, stack, pieces) = apply(c, Together("list", joined), LAMBDA d, v : Concatenated(v.items))
  BY Zenon DEF fnSub
<1> HIDE DEF joined
<1>4. Result(apply(c, Together("list", joined), LAMBDA d, v : Concatenated(v.items)))
  BY <1>1, <1>2, SimpleResults, Zenon DEF apply
<1> QED BY <1>3, <1>4

(***************************************************************************)
(* Conditions.                                                             *)
(***************************************************************************)
LEMMA ConditionResult ==
  ASSUME NEW t, NEW c, NEW stack, NEW e, Answered(c, t, <<stack, e>>), NEW name \in Tested(e)
  PROVE  Result(evaluateCondition(c, stack, name))
<1>1. c.t = t
  BY DEF Answered, IsContext
<1>2. CASE <<stack, name>> \in DOMAIN t.conditions
  <2> DEFINE tested == t.conditions[<<stack, name>>]
  <2>1. <<stack, tested>> \in Links(t, <<stack, e>>)
    BY <1>2 DEF Links
  <2>2. ResultOf(c, <<stack, tested>>)
    BY <2>1, Zenon DEF Answered
  <2>3. Result(evaluate(c, stack, tested))
    BY <2>2 DEF ResultOf
  <2>4. \A v : Result(mustBe("boolean", v))
    BY SimpleResults DEF mustBe
  <2> HIDE DEF tested
  <2>5. evaluateCondition(c, stack, name) = apply(c, evaluate(c, stack, tested), LAMBDA m, v : mustBe("boolean", v))
    BY <1>1, <1>2 DEF evaluateCondition, tested
  <2>6. Result(apply(c, evaluate(c, stack, tested), LAMBDA m, v : mustBe("boolean", v)))
    BY <2>3, <2>4, SimpleResults, Zenon DEF apply
  <2> QED BY <2>5, <2>6
<1>3. CASE <<stack, name>> \notin DOMAIN t.conditions
  BY <1>1, <1>3, SimpleResults DEF evaluateCondition
<1> QED BY <1>2, <1>3

LEMMA SubExpressionResult ==
  ASSUME NEW t, NEW c, NEW stack, NEW e, Answered(c, t, <<stack, e>>), e.fn = "Fn::Or", NEW i \in DOMAIN e.args
  PROVE  Result(evaluateConditionSubExpression(c, stack, e.args[i]))
<1> DEFINE y == e.args[i]
<1>1. CASE y.fn = "Condition"
  <2>1. y.arg \in Tested(e)
    BY <1>1 DEF Tested
  <2>2. Result(evaluateCondition(c, stack, y.arg))
    BY <2>1, ConditionResult
  <2> QED BY <1>1, <2>2 DEF evaluateConditionSubExpression
<1>2. CASE y.fn # "Condition"
  <2>1. y \in Arguments(e)
    BY DEF Arguments, computed
  <2>2. Result(evaluate(c, stack, y))
    BY <2>1, ArgumentResult
  <2>3. \A v : Result(mustBe("boolean", v))
    BY SimpleResults DEF mustBe
  <2> HIDE DEF y
  <2>4. evaluateConditionSubExpression(c, stack, y) = apply(c, evaluate(c, stack, y), LAMBDA m, v : mustBe("boolean", v))
    BY <1>2 DEF evaluateConditionSubExpression
  <2>5. Result(apply(c, evaluate(c, stack, y), LAMBDA m, v : mustBe("boolean", v)))
    BY <2>2, <2>3, SimpleResults, Zenon DEF apply
  <2>6. Result(evaluateConditionSubExpression(c, stack, y))
    BY <2>4, <2>5
  <2> QED BY <2>6 DEF y
<1> QED BY <1>1, <1>2

LEMMA IfResult ==
  ASSUME NEW t, NEW c, NEW stack, NEW e, Answered(c, t, <<stack, e>>), IsExpression(e), e.fn = "Fn::If"
  PROVE  Result(fnIf(c, stack, e.args))
<1> DEFINE params == e.args
           name == params[1].arg
           branch(v) == params[IF v = Boolean(TRUE) THEN 2 ELSE 3]
<1>1. CASE Len(params) # 3 \/ params[1].fn # "string"
  BY <1>1, SimpleResults DEF fnIf
<1>2. CASE ~ (Len(params) # 3 \/ params[1].fn # "string")
  <2>1. Result(evaluateCondition(c, stack, name))
    BY ConditionResult DEF Tested
  <2>2. 2 \in DOMAIN params /\ 3 \in DOMAIN params
    BY <1>2 DEF IsExpression
  <2>3. ASSUME NEW v
        PROVE  Result(evaluate(c, stack, branch(v))) /\ Result(evaluate(Eventually(c), stack, branch(v)))
    <3>1. branch(v) \in Arguments(e)
      BY <2>2 DEF Arguments, computed
    <3> HIDE DEF branch
    <3> QED BY <3>1, ArgumentResult
  <2>4. fnIf(c, stack, params) = apply(c, evaluateCondition(c, stack, name), LAMBDA m, v : evaluate(m, stack, branch(v)))
    BY <1>2, Zenon DEF fnIf
  <2> HIDE DEF branch
  <2>5. Result(apply(c, evaluateCondition(c, stack, name), LAMBDA m, v : evaluate(m, stack, branch(v))))
    BY <2>1, <2>3, SimpleResults, Zenon DEF apply
  <2> QED BY <2>4, <2>5
<1> QED BY <1>1, <1>2

(***************************************************************************)
(* Fn::Or: the function of its steps exists, and each step has a result.   *)
(***************************************************************************)
LEMMA OrResult ==
  ASSUME NEW t, NEW c, NEW stack, NEW e, Answered(c, t, <<stack, e>>), IsExpression(e), e.fn = "Fn::Or"
  PROVE  Result(fnOr(c, stack, e.args))
<1> DEFINE params == e.args
           n == Len(params)
           next(r, i) == apply(c, r, LAMBDA m, v : IF v = Boolean(TRUE) THEN Now(v)
                                                   ELSE evaluateConditionSubExpression(m, stack, params[i]))
           first == Now(Boolean(FALSE))
           value(f, i) == IF i = 0 THEN first ELSE next(f[i - 1], i)
           steps(f) == [i \in 0..n |-> value(f, i)]
           good(m, f) == \A i \in 0..n : i <= m => f[i] = value(f, i) /\ Result(f[i])
<1>1. n \in Nat /\ DOMAIN params = 1..n
  BY DEF IsExpression
<1>2. ASSUME NEW i \in 1..n, NEW r, Result(r) PROVE Result(next(r, i))
  <2>1. /\ Result(evaluateConditionSubExpression(c, stack, params[i]))
        /\ Result(evaluateConditionSubExpression(Eventually(c), stack, params[i]))
    BY <1>1, <1>2, SubExpressionResult, AnsweredEventually
  <2> QED BY <1>2, <2>1, SimpleResults, Zenon DEF apply
<1>0. Result(first)
  BY SimpleResults
<1> HIDE DEF next, n, params, first
<1>3. ASSUME NEW m \in Nat PROVE \E f : good(m, f)
  <2> SUFFICES ASSUME ~ \E f : good(m, f) PROVE FALSE
    OBVIOUS
  <2> DEFINE S == {k \in Nat : ~ \E f : good(k, f)}
  <2>1. PICK k \in S : \A l \in S : k <= l
    <3>1. S \in SUBSET Nat /\ S # {}
      OBVIOUS
    <3> HIDE DEF S
    <3> QED BY <3>1, LeastNat
  <2>2. k # 0
    <3> DEFINE f == [i \in 0..n |-> first]
    <3>1. good(0, f)
      <4>1. ASSUME NEW i \in 0..n, i <= 0 PROVE f[i] = first /\ i = 0
        BY <1>1, <4>1
      <4> HIDE DEF f
      <4> QED BY <1>0, <4>1
    <3> HIDE DEF good
    <3> QED BY <2>1, <3>1
  <2>3. k \in Nat /\ k - 1 \in Nat /\ k - 1 \notin S
    <3>1. k \in Nat /\ k - 1 \in Nat
      BY <2>1, <2>2
    <3> HIDE DEF S
    <3> QED BY <2>1, <3>1
  <2>4. PICK f : good(k - 1, f)
    BY <2>3
  <2> HIDE DEF S
  <2> DEFINE g == [i \in 0..n |-> IF i = k THEN next(f[k - 1], k) ELSE f[i]]
  <2>5. ASSUME NEW i \in 0..n, i <= k PROVE g[i] = value(g, i) /\ Result(g[i])
    <3>1. CASE i = k
      <4>1. k - 1 \in 0..n /\ k \in 1..n
        BY <1>1, <2>2, <2>3, <2>5, <3>1
      <4>2. g[k - 1] = f[k - 1] /\ g[k] = next(f[k - 1], k)
        BY <2>3, <2>5, <3>1, <4>1
      <4>3. Result(f[k - 1])
        BY <2>3, <2>4, <4>1
      <4> HIDE DEF g
      <4> QED BY <1>2, <2>2, <3>1, <4>1, <4>2, <4>3
    <3>2. CASE i # k
      <4>1. i <= k - 1
        BY <1>1, <2>3, <2>5, <3>2
      <4>2. f[i] = value(f, i) /\ Result(f[i])
        <5> HIDE DEF value
        <5> QED BY <2>4, <4>1
      <4>3. g[i] = f[i]
        BY <2>5, <3>2
      <4>4. i # 0 => g[i - 1] = f[i - 1]
        BY <1>1, <2>3, <2>5, <4>1
      <4> HIDE DEF g
      <4> QED BY <4>2, <4>3, <4>4
    <3> QED BY <3>1, <3>2
  <2>6. good(k, g)
    <3> HIDE DEF g, value
    <3> QED BY <2>5
  <2> HIDE DEF good, g
  <2> QED BY <2>1, <2>6 DEF S
<1>4. PICK f : good(n, f)
  BY <1>1, <1>3
<1> DEFINE g == [i \in 0..n |-> f[i]]
<1>5. g = steps(g)
  <2>1. ASSUME NEW i \in 0..n PROVE f[i] = value(f, i) /\ value(f, i) = value(g, i)
    <3>1. f[i] = value(f, i)
      <4> HIDE DEF value
      <4> QED BY <1>1, <1>4
    <3>2. i # 0 => g[i - 1] = f[i - 1]
      BY <1>1
    <3> HIDE DEF g
    <3> QED BY <3>1, <3>2
  <2> HIDE DEF value
  <2> QED BY <2>1
<1> DEFINE reduced == CHOOSE h : h = steps(h)
<1>6. reduced = steps(reduced)
  <2> HIDE DEF steps, g
  <2> QED BY <1>5
<1>7. \A i \in 0..n : Result(reduced[i])
  <2> SUFFICES ASSUME ~ \A i \in 0..n : Result(reduced[i]) PROVE FALSE
    OBVIOUS
  <2> HIDE DEF reduced
  <2> DEFINE S == {i \in 0..n : ~ Result(reduced[i])}
  <2>1. PICK k \in S : \A l \in S : k <= l
    <3>1. S \in SUBSET Nat /\ S # {}
      BY <1>1
    <3> HIDE DEF S
    <3> QED BY <3>1, LeastNat
  <2>2. reduced[k] = value(reduced, k)
    BY <1>6, <2>1
  <2>3. k # 0
    BY <1>0, <2>1, <2>2
  <2>4. k - 1 \in 0..n /\ k - 1 \notin S /\ k \in 1..n
    BY <1>1, <2>1, <2>3
  <2> QED BY <1>2, <2>1, <2>2, <2>3, <2>4
<1> HIDE DEF reduced
<1>8. fnOr(c, stack, params) = IF n < 2 THEN fail ELSE reduced[n]
  BY DEF fnOr, reduced, next, n, params, first
<1>9. Result(fnOr(c, stack, params))
  BY <1>1, <1>7, <1>8, SimpleResults
<1> QED BY <1>9 DEF params

LEMMA EqualsResult ==
  ASSUME NEW t, NEW c, NEW stack, NEW e, Answered(c, t, <<stack, e>>), IsExpression(e), e.fn = "Fn::Equals"
  PROVE  Result(fnEquals(c, stack, e.args))
<1> DEFINE first == e.args[1]
           other == e.args[2]
           compared(k, x) == apply(k, evaluate(k, stack, other), LAMBDA m, y : Now(Boolean(x = y)))
<1>1. CASE Len(e.args) # 2
  BY <1>1, SimpleResults DEF fnEquals
<1>2. CASE Len(e.args) = 2
  <2>1. 1 \in DOMAIN e.args /\ 2 \in DOMAIN e.args
    BY <1>2 DEF IsExpression
  <2>2. first \in Arguments(e) /\ other \in Arguments(e)
    BY <2>1 DEF Arguments, computed
  <2> HIDE DEF first, other
  <2>3. /\ Result(evaluate(c, stack, first))
        /\ Result(evaluate(c, stack, other)) /\ Result(evaluate(Eventually(c), stack, other))
    BY <2>2, ArgumentResult
  <2>4. ASSUME NEW x PROVE Result(compared(c, x)) /\ Result(compared(Eventually(c), x))
    BY <2>3, SimpleResults, Zenon DEF apply
  <2> HIDE DEF compared
  <2>5. Result(apply(c, evaluate(c, stack, first), LAMBDA m, x : compared(m, x)))
    BY <2>3, <2>4, SimpleResults, Zenon DEF apply
  <2>6. fnEquals(c, stack, e.args) = apply(c, evaluate(c, stack, first), LAMBDA m, x : compared(m, x))
    BY <1>2, Zenon DEF fnEquals, first, other, compared
  <2> QED BY <2>5, <2>6, Zenon
<1> QED BY <1>1, <1>2

LEMMA ListResult ==
  ASSUME NEW c, NEW stack, NEW type, NEW es
  PROVE  Result(processList(c, stack, type, es))
BY TogetherIsResult, Zenon DEF processList

(***************************************************************************)
(* The functions of values.                                                *)
(***************************************************************************)
LEMMA ValueResults ==
  /\ \A v : Result(fnJoin(v)) /\ Result(fnSelect(v)) /\ Result(fnSplit(v)) /\ Result(fnBase64(v)) /\ Result(fnCidr(v))
  /\ \A c, v : Result(fnGetAZs(c, v))
  /\ \A c, stack, params, v : Result(fnFindInMap(c, stack, params, v))
<1>1. ASSUME NEW v
      PROVE  Result(fnJoin(v)) /\ Result(fnSelect(v)) /\ Result(fnSplit(v)) /\ Result(fnBase64(v)) /\ Result(fnCidr(v))
  <2>1. Result(fnJoin(v))
    BY SimpleResults, Zenon DEF fnJoin
  <2>2. Result(fnSelect(v))
    BY SimpleResults, Zenon DEF fnSelect
  <2>3. Result(fnSplit(v))
    BY SimpleResults, Zenon DEF fnSplit
  <2>4. Result(fnBase64(v))
    BY SimpleResults, Zenon DEF fnBase64
  <2>5. Result(fnCidr(v))
    BY SimpleResults, Zenon DEF fnCidr, cidr
  <2> QED BY <2>1, <2>2, <2>3, <2>4, <2>5
<1>2. ASSUME NEW c, NEW v PROVE Result(fnGetAZs(c, v))
  BY SimpleResults, Zenon DEF fnGetAZs, getAzs
<1>3. ASSUME NEW c, NEW stack, NEW params, NEW v PROVE Result(fnFindInMap(c, stack, params, v))
  BY SimpleResults, Zenon DEF fnFindInMap
<1> QED BY <1>1, <1>2, <1>3, Zenon

LEMMA IntrinsicResult ==
  ASSUME NEW t, ResourcesTyped(t), NestedStacks(t), NEW c, NEW stack, NEW e, Answered(c, t, <<stack, e>>), IsExpression(e),
         e.fn # "Ref"
  PROVE  Result(resolveIntrinsic(c, stack, e.fn, e.args))
<1> DEFINE params == e.args
           list == processList(c, stack, "list", params)
<1>1. CASE e.fn \in {"Fn::Join", "Fn::Select", "Fn::Split", "Fn::Cidr", "Fn::FindInMap"}
  <2>1. Result(list)
    BY ListResult
  <2> HIDE DEF list, params
  <2>2. CASE e.fn = "Fn::Join"
    <3>1. resolveIntrinsic(c, stack, e.fn, params) = apply(c, list, LAMBDA d, v : fnJoin(v))
      BY <2>2 DEF resolveIntrinsic, list
    <3>2. Result(apply(c, list, LAMBDA d, v : fnJoin(v)))
      BY <2>1, SimpleResults, ValueResults, Zenon DEF apply
    <3> QED BY <3>1, <3>2 DEF params
  <2>3. CASE e.fn = "Fn::Select"
    <3>1. resolveIntrinsic(c, stack, e.fn, params) = apply(c, list, LAMBDA d, v : fnSelect(v))
      BY <2>3 DEF resolveIntrinsic, list
    <3>2. Result(apply(c, list, LAMBDA d, v : fnSelect(v)))
      BY <2>1, SimpleResults, ValueResults, Zenon DEF apply
    <3> QED BY <3>1, <3>2 DEF params
  <2>4. CASE e.fn = "Fn::Split"
    <3>1. resolveIntrinsic(c, stack, e.fn, params) = apply(c, list, LAMBDA d, v : fnSplit(v))
      BY <2>4 DEF resolveIntrinsic, list
    <3>2. Result(apply(c, list, LAMBDA d, v : fnSplit(v)))
      BY <2>1, SimpleResults, ValueResults, Zenon DEF apply
    <3> QED BY <3>1, <3>2 DEF params
  <2>5. CASE e.fn = "Fn::Cidr"
    <3>1. resolveIntrinsic(c, stack, e.fn, params) = apply(c, list, LAMBDA d, v : fnCidr(v))
      BY <2>5 DEF resolveIntrinsic, list
    <3>2. Result(apply(c, list, LAMBDA d, v : fnCidr(v)))
      BY <2>1, SimpleResults, ValueResults, Zenon DEF apply
    <3> QED BY <3>1, <3>2 DEF params
  <2>6. CASE e.fn = "Fn::FindInMap"
    <3>1. resolveIntrinsic(c, stack, e.fn, params) = apply(c, list, LAMBDA d, v : fnFindInMap(d, stack, params, v))
      BY <2>6 DEF resolveIntrinsic, list
    <3>2. Result(apply(c, list, LAMBDA d, v : fnFindInMap(d, stack, params, v)))
      BY <2>1, SimpleResults, ValueResults, Zenon DEF apply
    <3> QED BY <3>1, <3>2 DEF params
  <2> QED BY <1>1, <2>2, <2>3, <2>4, <2>5, <2>6
<1>2. CASE e.fn \in {"Fn::Base64", "Fn::GetAZs"}
  <2> DEFINE r == evaluate(c, stack, params[1])
  <2>1. params[1] \in Arguments(e)
    BY <1>2 DEF Arguments, computed, IsExpression
  <2>2. Result(r)
    BY <2>1, ArgumentResult
  <2> HIDE DEF r, params
  <2>3. CASE e.fn = "Fn::Base64"
    <3>1. resolveIntrinsic(c, stack, e.fn, params) = apply(c, r, LAMBDA d, v : fnBase64(v))
      BY <2>3 DEF resolveIntrinsic, r
    <3>2. Result(apply(c, r, LAMBDA d, v : fnBase64(v)))
      BY <2>2, SimpleResults, ValueResults, Zenon DEF apply
    <3> QED BY <3>1, <3>2 DEF params
  <2>4. CASE e.fn = "Fn::GetAZs"
    <3>1. resolveIntrinsic(c, stack, e.fn, params) = apply(c, r, LAMBDA d, v : fnGetAZs(d, v))
      BY <2>4 DEF resolveIntrinsic, r
    <3>2. Result(apply(c, r, LAMBDA d, v : fnGetAZs(d, v)))
      BY <2>2, SimpleResults, ValueResults, Zenon DEF apply
    <3> QED BY <3>1, <3>2 DEF params
  <2> QED BY <1>2, <2>3, <2>4
<1>3. CASE e.fn = "Fn::Sub"
  <2> DEFINE others == processList(c, stack, "list", Tail(params))
             pieces == params[1].args
  <2>1. Result(others)
    BY ListResult
  <2>2. resolveIntrinsic(c, stack, e.fn, params) = apply(c, others, LAMBDA d, v : fnSub(d, stack, pieces))
    BY <1>3 DEF resolveIntrinsic
  <2> HIDE DEF others, pieces, params
  <2>3. Result(apply(c, others, LAMBDA d, v : fnSub(d, stack, pieces)))
    <3>1. Result(fnSub(c, stack, pieces)) /\ Result(fnSub(Eventually(c), stack, pieces))
      BY SubResult
    <3> QED BY <2>1, <3>1, SimpleResults, Zenon DEF apply
  <2> QED BY <2>2, <2>3 DEF params
<1>4. CASE e.fn = "Fn::GetAtt"
  BY <1>4, GetAttResult DEF resolveIntrinsic
<1>5. CASE e.fn = "Fn::Equals"
  BY <1>5, EqualsResult DEF resolveIntrinsic
<1>6. CASE e.fn = "Fn::If"
  BY <1>6, IfResult DEF resolveIntrinsic
<1>7. CASE e.fn = "Fn::Or"
  BY <1>7, OrResult DEF resolveIntrinsic
<1>8. CASE e.fn \notin {"Fn::Join", "Fn::Select", "Fn::Split", "Fn::Cidr", "Fn::FindInMap", "Fn::Base64", "Fn::GetAZs",
                        "Fn::Sub", "Fn::GetAtt", "Fn::Equals", "Fn::If", "Fn::Or"}
  BY <1>8, SimpleResults DEF resolveIntrinsic
<1> QED BY <1>1, <1>2, <1>3, <1>4, <1>5, <1>6, <1>7, <1>8

LEMMA ResultOfStep ==
  ASSUME NEW t, ResourcesTyped(t), NestedStacks(t), NEW c, NEW stack, NEW e, Answered(c, t, <<stack, e>>), IsExpression(e)
  PROVE  Result(processIntrinsics(c, stack, e))
<1>1. CASE e.fn \in {"string", "boolean"}
  BY <1>1, SimpleResults DEF processIntrinsics
<1>2. CASE e.fn \in {"list", "object"}
  BY <1>2, ListResult DEF processIntrinsics
<1>3. CASE e.fn = "entry"
  <2> DEFINE r == evaluate(c, stack, e.args[1])
             ok == r.ok
             later == r.later
             value == r.value
             entry(v) == [type |-> "entry", text |-> <<e.arg>>, items |-> <<v>>]
  <2>1. e.args[1] \in Arguments(e)
    BY <1>3 DEF Arguments, computed, IsExpression
  <2>2. Result(r)
    BY <2>1, ArgumentResult
  <2>3. r = [ok |-> ok, later |-> later, value |-> value] /\ ok \in BOOLEAN /\ later \in BOOLEAN
    BY <2>2 DEF Result
  <2>4. processIntrinsics(c, stack, e) = [r EXCEPT !.value = entry(@)]
    BY <1>3 DEF processIntrinsics
  <2> HIDE DEF r, ok, later, value, entry
  <2>5. [[ok |-> ok, later |-> later, value |-> value] EXCEPT !.value = entry(@)]
          = [ok |-> ok, later |-> later, value |-> entry(value)]
    OBVIOUS
  <2>6. processIntrinsics(c, stack, e) = [ok |-> ok, later |-> later, value |-> entry(value)]
    BY <2>3, <2>4, <2>5
  <2> DEFINE w == entry(value)
  <2> HIDE DEF w
  <2>7. Result([ok |-> ok, later |-> later, value |-> w])
    BY <2>3 DEF Result
  <2> QED BY <2>6, <2>7 DEF w
<1>4. CASE e.fn = "Ref"
  BY <1>4, RefExpressionResult DEF processIntrinsics
<1>5. CASE e.fn \notin {"string", "boolean", "list", "object", "entry", "Ref"}
  <2>1. Result(resolveIntrinsic(c, stack, e.fn, e.args))
    BY <1>5, IntrinsicResult, Zenon
  <2> QED BY <1>5, <2>1 DEF processIntrinsics
<1> QED BY <1>1, <1>2, <1>3, <1>4, <1>5

(***************************************************************************)
(* The evaluation of an expression at the least depth without a result     *)
(* would have one.                                                         *)
(***************************************************************************)
LEMMA EvaluationHasResult ==
  ASSUME NEW t, WellFormed(t), NEW R, R \subseteq DOMAIN t.resources, NEW x \in DOMAIN t.depth
  PROVE  Result(processIntrinsics(ContextOf(t, R), x[1], x[2]))
<1> DEFINE all == DOMAIN t.resources
           has(y) == \A Q \in {R, all} : Result(processIntrinsics(ContextOf(t, Q), y[1], y[2]))
           S == {n \in Nat : \E y \in DOMAIN t.depth : t.depth[y] = n /\ ~ has(y)}
<1> SUFFICES ASSUME ~ has(x) PROVE FALSE
  OBVIOUS
<1>1. WithoutCircles(t) /\ ResourcesTyped(t) /\ NestedStacks(t)
  BY DEF WellFormed
<1> HIDE DEF has
<1>2. PICK n \in S : \A m \in S : n <= m
  <2>1. t.depth[x] \in S
    BY <1>1 DEF WithoutCircles
  <2>2. S \in SUBSET Nat /\ S # {}
    BY <2>1
  <2> HIDE DEF S
  <2> QED BY <2>2, LeastNat
<1>3. PICK y \in DOMAIN t.depth : t.depth[y] = n /\ ~ has(y)
  BY <1>2
<1>4. PICK Q \in {R, all} : ~ Result(processIntrinsics(ContextOf(t, Q), y[1], y[2]))
  BY <1>3 DEF has
<1> DEFINE c == ContextOf(t, Q)
<1>5. Q \subseteq all
  OBVIOUS
<1>6. IsContext(c, t) /\ Eventually(c) = ContextOf(t, all)
  BY <1>5, ContextOfR
<1>7. ASSUME NEW z \in Links(t, y) PROVE ResultOf(c, z)
  <2>1. z \in DOMAIN t.depth /\ t.depth[z] < n /\ t.depth[z] \in Nat
    BY <1>1, <1>3 DEF WithoutCircles
  <2>2. t.depth[z] \notin S
    <3> HIDE DEF S
    <3> QED BY <1>2, <2>1 DEF S
  <2>3. has(z)
    BY <2>1, <2>2
  <2>4. Result(processIntrinsics(ContextOf(t, Q), z[1], z[2])) /\ Result(processIntrinsics(ContextOf(t, all), z[1], z[2]))
    BY <2>3 DEF has
  <2>5. /\ evaluate(ContextOf(t, Q), z[1], z[2]) = processIntrinsics(ContextOf(t, Q), z[1], z[2])
        /\ evaluate(ContextOf(t, all), z[1], z[2]) = processIntrinsics(ContextOf(t, all), z[1], z[2])
    BY <1>1, <1>5, <2>1, EvaluateIsProcessIntrinsics
  <2> QED BY <1>6, <2>4, <2>5, Zenon DEF ResultOf
<1> HIDE DEF c
<1>8. Answered(c, t, y)
  BY <1>6, <1>7, Zenon DEF Answered
<1>9. y = <<y[1], y[2]>> /\ IsExpression(y[2])
  BY <1>1, Zenon DEF WithoutCircles
<1>10. Answered(c, t, <<y[1], y[2]>>)
  BY <1>8, <1>9, Zenon
<1>11. Result(processIntrinsics(c, y[1], y[2]))
  BY <1>1, <1>9, <1>10, ResultOfStep
<1> QED BY <1>4, <1>11 DEF c

-----------------------------------------------------------------------------
(***************************************************************************)
(* The inductive invariant: EvaluationInv and OrderDoesNotMatter, of a     *)
(* template that is one of the Templates.                                  *)
(***************************************************************************)
OrderInv == template \in Templates /\ EvaluationInv /\ OrderDoesNotMatter

AllRegistered(a) == processIntrinsics(ContextOf(template, DOMAIN template.resources), a[1], template.resources[a].props)

LEMMA EventuallyAllRegistered ==
  ASSUME registered \subseteq DOMAIN template.resources
  PROVE  OrderDoesNotMatter <=> \A a \in DOMAIN props : AllSeen(template, a) => props[a] = AllRegistered(a)
<1>1. Eventually(Context) = ContextOf(template, DOMAIN template.resources)
  BY ContextOfR DEF Context
<1> QED BY <1>1, Zenon DEF OrderDoesNotMatter, AllRegistered

LEMMA InitOrder == Init => OrderInv
<1> SUFFICES ASSUME Init PROVE OrderInv
  OBVIOUS
<1>1. registered = {} /\ DOMAIN props = {} /\ step = "parameters" /\ template \in Templates
  BY DEF Init
<1>2. EvaluationInv
  BY <1>1 DEF EvaluationInv, TypeOK
<1>3. OrderDoesNotMatter
  BY <1>1 DEF OrderDoesNotMatter
<1> QED BY <1>1, <1>2, <1>3 DEF OrderInv

(***************************************************************************)
(* A step that changes neither what is registered nor the properties, from *)
(* a state in which nothing has been thrown.                               *)
(***************************************************************************)
LEMMA SameResources ==
  ASSUME OrderInv, UNCHANGED <<template, registered, props>>, step # "thrown",
         step' \in {"parameters", "resources", "asked", "thrown"}
  PROVE  OrderInv'
<1>1. EvaluationInv'
  BY DEF OrderInv, EvaluationInv, TypeOK
<1>2. OrderDoesNotMatter'
  <2>1. Context' = Context
    BY DEF Context
  <2> QED BY <2>1, Zenon DEF OrderInv, OrderDoesNotMatter
<1> QED BY <1>1, <1>2 DEF OrderInv

LEMMA NestedStackStep ==
  ASSUME OrderInv, NEW a \in DOMAIN template.resources \ registered, step = "resources",
         Dependencies(template, a) \subseteq registered, RegisterNestedStack(a)
  PROVE  OrderInv'
<1>1. /\ template' = template /\ props' = props /\ step' = step /\ registered' = registered \cup {a}
      /\ template.resources[a].kind = "nested"
  BY DEF RegisterNestedStack
<1>2. registered \cup DOMAIN props \subseteq DOMAIN template.resources
  BY DEF OrderInv, EvaluationInv
<1>3. TypeOK'
  BY <1>1 DEF OrderInv, EvaluationInv, TypeOK
<1>4. \A b \in registered' : Dependencies(template, b) \subseteq registered'
  BY <1>1 DEF OrderInv, EvaluationInv
<1>5. EvaluationInv'
  BY <1>1, <1>2, <1>3, <1>4 DEF EvaluationInv
<1>6. \A b \in DOMAIN props : AllSeen(template, b) => props[b] = AllRegistered(b)
  BY <1>2, EventuallyAllRegistered DEF OrderInv
<1>7. OrderDoesNotMatter'
  <2>1. Eventually(Context)' = ContextOf(template, DOMAIN template.resources)
    <3>1. registered' \subseteq DOMAIN template.resources
      BY <1>1, <1>2
    <3>2. Context' = ContextOf(template, registered')
      BY <1>1 DEF Context
    <3> QED BY <3>1, <3>2, ContextOfR
  <2> QED BY <1>1, <1>6, <2>1, Zenon DEF OrderDoesNotMatter, AllRegistered
<1> QED BY <1>1, <1>5, <1>7 DEF OrderInv

LEMMA ResourceStep ==
  ASSUME OrderInv, NEW a \in DOMAIN template.resources \ registered, step = "resources",
         Dependencies(template, a) \subseteq registered, RegisterResource(a)
  PROVE  OrderInv'
<1> DEFINE r == processIntrinsics(Context, a[1], template.resources[a].props)
           all == DOMAIN template.resources
<1>1. /\ template' = template /\ props' = Added(props, a, r) /\ template.resources[a].kind # "nested"
      /\ \/ Thrown(r) /\ step' = "thrown" /\ registered' = registered
         \/ ~ Thrown(r) /\ step' = step /\ registered' = registered \cup {a}
  BY DEF RegisterResource
<1>2. /\ WellFormed(template)
      /\ registered \cup DOMAIN props \subseteq all /\ Closed(template, registered)
      /\ registered = {b \in DOMAIN props : ~Thrown(props[b])}
                        \cup {b \in registered : template.resources[b].kind = "nested"}
      /\ \A b \in DOMAIN props : ~ Thrown(props[b])
  BY TemplatesWellFormed DEF OrderInv, EvaluationInv, TypeOK, Closed
<1>3. r = processIntrinsics(ContextOf(template, registered), a[1], template.resources[a].props)
  BY DEF Context
<1>4. Result(r)
  <2> DEFINE x == PropsOf(template, a)
  <2>1. x \in DOMAIN template.depth /\ x[1] = a[1] /\ x[2] = template.resources[a].props
    BY <1>2 DEF WellFormed, WithoutCircles, PropsOf
  <2> HIDE DEF x
  <2>2. Result(processIntrinsics(ContextOf(template, registered), x[1], x[2]))
    BY <1>2, <2>1, EvaluationHasResult
  <2> QED BY <1>3, <2>1, <2>2
<1>5. AllSeen(template, a) => r = AllRegistered(a)
  BY <1>2, <1>3, PropertiesCovered DEF AllRegistered
<1> HIDE DEF r
<1>6. a \notin DOMAIN props
  BY <1>2
<1>7. /\ DOMAIN props' = DOMAIN props \cup {a} /\ props'[a] = r
      /\ \A b \in DOMAIN props : props'[b] = props[b]
  BY <1>1, <1>6 DEF Added
<1>8. r.ok \in BOOLEAN /\ r.later \in BOOLEAN
  BY <1>4 DEF Result
<1>9. TypeOK'
  <2>1. \A b \in DOMAIN props' : props'[b].ok \in BOOLEAN /\ props'[b].later \in BOOLEAN
    BY <1>7, <1>8 DEF OrderInv, EvaluationInv, TypeOK
  <2>2. \A b \in DOMAIN props' : Thrown(props'[b]) => step' = "thrown"
    BY <1>1, <1>2, <1>7
  <2>3. registered' = {b \in DOMAIN props' : ~Thrown(props'[b])}
                        \cup {b \in registered' : template'.resources[b].kind = "nested"}
    BY <1>1, <1>2, <1>7
  <2>4. step' \in {"parameters", "resources", "asked", "thrown"}
    BY <1>1
  <2> QED BY <2>1, <2>2, <2>3, <2>4 DEF TypeOK
<1>10. \A b \in registered' : Dependencies(template, b) \subseteq registered'
  BY <1>1, <1>2 DEF Closed
<1>11. registered' \cup DOMAIN props' \subseteq all
  BY <1>1, <1>2, <1>7
<1>12. EvaluationInv'
  BY <1>1, <1>9, <1>10, <1>11 DEF EvaluationInv
<1>13. OrderDoesNotMatter'
  <2>1. Eventually(Context)' = ContextOf(template, all)
    <3>1. registered' \subseteq all
      BY <1>11
    <3>2. Context' = ContextOf(template, registered')
      BY <1>1 DEF Context
    <3> QED BY <3>1, <3>2, ContextOfR
  <2>2. \A b \in DOMAIN props : AllSeen(template, b) => props[b] = AllRegistered(b)
    BY <1>2, EventuallyAllRegistered DEF OrderInv
  <2>3. \A b \in DOMAIN props' : AllSeen(template, b) => props'[b] = AllRegistered(b)
    BY <1>5, <1>7, <2>2
  <2> QED BY <1>1, <2>1, <2>3, Zenon DEF OrderDoesNotMatter, AllRegistered
<1> QED BY <1>1, <1>2, <1>12, <1>13 DEF OrderInv

LEMMA NextOrder == OrderInv /\ [Next]_vars => OrderInv'
<1> SUFFICES ASSUME OrderInv, [Next]_vars PROVE OrderInv'
  OBVIOUS
<1>1. CASE MapParameters
  BY <1>1, SameResources DEF MapParameters
<1>2. CASE Register
  BY <1>2, NestedStackStep, ResourceStep DEF Register
<1>3. CASE AsOutput
  BY <1>3, SameResources DEF AsOutput
<1>4. CASE UNCHANGED vars
  <2>1. UNCHANGED <<template, registered, props, step>>
    BY <1>4 DEF vars
  <2>2. EvaluationInv'
    BY <2>1 DEF OrderInv, EvaluationInv, TypeOK
  <2>3. Context' = Context
    BY <2>1 DEF Context
  <2>4. OrderDoesNotMatter'
    BY <2>1, <2>3, Zenon DEF OrderInv, OrderDoesNotMatter
  <2> QED BY <2>1, <2>2, <2>4 DEF OrderInv
<1> QED BY <1>1, <1>2, <1>3, <1>4 DEF Next

(***************************************************************************)
(* What is registered is a nested stack or has properties, the conversion  *)
(* ends at the first error, and what a registered resource depends on has  *)
(* been registered before (StackConverter.convert).                        *)
(***************************************************************************)
THEOREM RegisteredWithDependencies == Spec => []EvaluationInv
<1>1. OrderInv => EvaluationInv
  BY DEF OrderInv
<1> QED BY <1>1, InitOrder, NextOrder, PTL DEF Spec

(***************************************************************************)
(* For all templates without circles and all orders that the edges of the  *)
(* graph allow: the Properties of a resource evaluate to what they would   *)
(* if everything had been registered, though graph.ts has no edges for     *)
(* what they need through parameters and conditions.                       *)
(***************************************************************************)
THEOREM OrderIsIrrelevant == Spec => []OrderDoesNotMatter
<1>1. OrderInv => OrderDoesNotMatter
  BY DEF OrderInv
<1> QED BY <1>1, InitOrder, NextOrder, PTL DEF Spec
=============================================================================
