--------------------------- MODULE TreeParseProofs ---------------------------
(***************************************************************************)
(* Proofs about the parse of the construct tree, for every tree.           *)
(***************************************************************************)
EXTENDS TreeParse, FiniteSetTheorems, SequenceTheorems, WellFoundedInduction, TLAPS

(***************************************************************************)
(* A set of naturals has a least element: induction, as a fact that is     *)
(* applied to the set of the counterexamples.                              *)
(***************************************************************************)
LEMMA LeastNat ==
  ASSUME NEW S \in SUBSET Nat, S # {}
  PROVE  \E n \in S : \A m \in S : n <= m
<1> DEFINE T == {1..n : n \in S}
           R == StrictSubsetOrdering(Nat)
<1>1. T \subseteq FiniteSubsetsOf(Nat) /\ T # {}
  <2> SUFFICES ASSUME NEW n \in S PROVE 1..n \in FiniteSubsetsOf(Nat)
    OBVIOUS
  <2>1. 1 \in Int /\ n \in Int
    OBVIOUS
  <2>2. IsFiniteSet(1..n)
    BY <2>1, FS_Interval
  <2>3. 1..n \in SUBSET Nat
    OBVIOUS
  <2> QED
    BY <2>2, <2>3 DEF FiniteSubsetsOf
<1>2. IsWellFoundedOn(R, FiniteSubsetsOf(Nat))
  BY FS_StrictSubsetOrderingWellFounded
<1>3. \E x \in T : \A y \in T : ~ (<<y, x>> \in R)
  <2> HIDE DEF R, T
  <2> QED
    BY <1>1, <1>2, WFMin
<1>4. PICK n \in S : \A m \in S : ~ (<<1..m, 1..n>> \in R)
  BY <1>3
<1>5. ASSUME NEW m \in S, m < n PROVE FALSE
  <2>1. n \in 1..n /\ n \notin 1..m
    BY <1>5
  <2>2. 1..m \subseteq Nat /\ 1..n \subseteq Nat /\ 1..m \subseteq 1..n /\ 1..m # 1..n
    BY <1>5, <2>1
  <2> QED
    BY <1>4, <2>2 DEF StrictSubsetOrdering
<1> QED
  BY <1>5

Upward(D, B, up) == \A n \in D \ B : up[n] \in D /\ up[n] < n

Collects(D, up, f) ==
  \A n \in D : f[n] = IF n = 0 THEN {} ELSE {up[n]} \cup f[up[n]]

FunctionOn(D, f) == f = [n \in D |-> f[n]]

(***************************************************************************)
(* The function that goes up to the first argument in B exists: the form   *)
(* of the definitions that look for the innermost scope of a kind.         *)
(***************************************************************************)
LEMMA UpwardFunction ==
  ASSUME NEW L \in Nat, NEW D \in SUBSET (0..L), NEW B, NEW up, Upward(D, B, up)
  PROVE  \E f : /\ FunctionOn(D, f)
                /\ \A n \in D : f[n] = IF n \in B THEN up[n] ELSE f[up[n]]
<1> DEFINE Upto(k) == {n \in D : n <= k}
           Defines(f, k) == f = [n \in Upto(k) |-> IF n \in B THEN up[n] ELSE f[up[n]]]
           S == {k \in Nat : ~ \E f : Defines(f, k)}
<1>0. \A n \in D : n \in Nat /\ n <= L
  OBVIOUS
<1>1. \A k : \A n : n \in Upto(k) <=> n \in D /\ n <= k
  OBVIOUS
<1>2. S = {}
  <2> SUFFICES ASSUME S # {} PROVE FALSE
    OBVIOUS
  <2>1. S \in SUBSET Nat /\ \A k \in Nat : k \notin S <=> \E f : Defines(f, k)
    OBVIOUS
  <2> HIDE DEF S
  <2>2. PICK k \in S : \A m \in S : k <= m
    BY <2>1, LeastNat
  <2>3. k \in Nat
    BY <2>1
  <2>4. CASE k = 0
    <3> HIDE DEF Upto
    <3>1. ASSUME NEW n \in Upto(0), n \notin B PROVE FALSE
      <4>1. n \in D /\ n \in Nat /\ n <= 0
        BY <1>0, <1>1
      <4>2. up[n] \in Nat /\ up[n] < n
        BY <1>0, <3>1, <4>1 DEF Upward
      <4> QED
        BY <4>1, <4>2
    <3>2. Defines([n \in Upto(0) |-> up[n]], 0)
      BY <3>1
    <3> HIDE DEF Defines
    <3> QED
      BY <2>1, <2>2, <2>4, <3>2
  <2>5. CASE k # 0
    <3>1. k - 1 \in Nat /\ k - 1 \notin S
      BY <2>2, <2>3, <2>5
    <3>2. PICK f : Defines(f, k - 1)
      BY <2>1, <3>1
    <3> DEFINE h == [n \in Upto(k) |-> IF n \in B THEN up[n] ELSE f[up[n]]]
    <3> HIDE DEF Upto
    <3>3. ASSUME NEW n \in Upto(k), n \notin B
          PROVE  up[n] \in Upto(k - 1) /\ up[n] \in Upto(k)
      <4>1. n \in D /\ n \in Nat /\ n <= k
        BY <1>0, <1>1
      <4>2. up[n] \in D /\ up[n] \in Nat /\ up[n] < n
        BY <1>0, <3>3, <4>1 DEF Upward
      <4>3. up[n] <= k - 1 /\ up[n] <= k
        BY <2>3, <4>1, <4>2
      <4> QED
        BY <1>1, <4>2, <4>3
    <3>4. ASSUME NEW m \in Upto(k - 1), m \in Upto(k) PROVE f[m] = h[m]
      BY <3>2, <3>4
    <3>5. Defines(h, k)
      <4>1. \A n \in Upto(k) \ B : f[up[n]] = h[up[n]]
        BY <3>3, <3>4
      <4> QED
        BY <4>1
    <3> HIDE DEF Defines, h
    <3> QED
      BY <2>1, <2>2, <3>5
  <2> QED
    BY <2>4, <2>5
<1>3. Upto(L) = D
  BY <1>0
<1>4. PICK f : Defines(f, L)
  BY <1>2
<1> HIDE DEF Upto
<1> QED
  BY <1>3, <1>4 DEF FunctionOn

(***************************************************************************)
(* And the function that collects what is above its argument.              *)
(***************************************************************************)
LEMMA UpwardSet ==
  ASSUME NEW L \in Nat, NEW D \in SUBSET (0..L), NEW B, B = {0}, NEW up, Upward(D, B, up)
  PROVE  \E f : FunctionOn(D, f) /\ Collects(D, up, f)
<1> DEFINE Upto(k) == {n \in D : n <= k}
           Defines(f, k) == f = [n \in Upto(k) |-> IF n = 0 THEN {} ELSE {up[n]} \cup f[up[n]]]
           S == {k \in Nat : ~ \E f : Defines(f, k)}
<1>0. \A n \in D : n \in Nat /\ n <= L
  OBVIOUS
<1>1. \A k : \A n : n \in Upto(k) <=> n \in D /\ n <= k
  OBVIOUS
<1>2. S = {}
  <2> SUFFICES ASSUME S # {} PROVE FALSE
    OBVIOUS
  <2>1. S \in SUBSET Nat /\ \A k \in Nat : k \notin S <=> \E f : Defines(f, k)
    OBVIOUS
  <2> HIDE DEF S
  <2>2. PICK k \in S : \A m \in S : k <= m
    BY <2>1, LeastNat
  <2>3. k \in Nat
    BY <2>1
  <2>4. CASE k = 0
    <3> HIDE DEF Upto
    <3>1. ASSUME NEW n \in Upto(0), n # 0 PROVE FALSE
      <4>1. n \in D /\ n \in Nat /\ n <= 0
        BY <1>0, <1>1
      <4>2. up[n] \in Nat /\ up[n] < n
        BY <1>0, <3>1, <4>1 DEF Upward
      <4> QED
        BY <4>1, <4>2
    <3>2. Defines([n \in Upto(0) |-> {}], 0)
      BY <3>1
    <3> HIDE DEF Defines
    <3> QED
      BY <2>1, <2>2, <2>4, <3>2
  <2>5. CASE k # 0
    <3>1. k - 1 \in Nat /\ k - 1 \notin S
      BY <2>2, <2>3, <2>5
    <3>2. PICK f : Defines(f, k - 1)
      BY <2>1, <3>1
    <3> DEFINE h == [n \in Upto(k) |-> IF n = 0 THEN {} ELSE {up[n]} \cup f[up[n]]]
    <3> HIDE DEF Upto
    <3>3. ASSUME NEW n \in Upto(k), n # 0
          PROVE  up[n] \in Upto(k - 1) /\ up[n] \in Upto(k)
      <4>1. n \in D /\ n \in Nat /\ n <= k
        BY <1>0, <1>1
      <4>2. up[n] \in D /\ up[n] \in Nat /\ up[n] < n
        BY <1>0, <3>3, <4>1 DEF Upward
      <4>3. up[n] <= k - 1 /\ up[n] <= k
        BY <2>3, <4>1, <4>2
      <4> QED
        BY <1>1, <4>2, <4>3
    <3>4. ASSUME NEW m \in Upto(k - 1), m \in Upto(k) PROVE f[m] = h[m]
      BY <3>2, <3>4
    <3>5. Defines(h, k)
      <4>1. \A n \in Upto(k) \ {0} : f[up[n]] = h[up[n]]
        BY <3>3, <3>4
      <4> QED
        BY <4>1
    <3> HIDE DEF Defines, h
    <3> QED
      BY <2>1, <2>2, <3>5
  <2> QED
    BY <2>4, <2>5
<1>3. Upto(L) = D
  BY <1>0
<1>4. PICK f : Defines(f, L)
  BY <1>2
<1> HIDE DEF Upto
<1> QED
  BY <1>3, <1>4 DEF FunctionOn, Collects

-----------------------------------------------------------------------------
(***************************************************************************)
(* Nodes are numbers, a scope has a smaller one than what is in it.        *)
(***************************************************************************)
LEMMA NodeNumbers ==
  ASSUME TreeType(tree)
  PROVE  /\ Len(tree.parent) \in Nat \ {0}
         /\ 1 \in Nodes(tree) /\ 0 \notin Nodes(tree)
         /\ tree.parent[1] = 0
         /\ \A n \in Nodes(tree) :
              /\ n \in Nat \ {0} /\ n <= Len(tree.parent)
              /\ tree.parent[n] \in Nodes(tree) \cup {0} /\ tree.parent[n] < n
              /\ tree.parent[n] = 0 => n = 1
              /\ tree.kind[n] \in Kinds /\ tree.twin[n] \in Nodes(tree) \cup {0}
<1>1. Len(tree.parent) \in Nat \ {0} /\ Nodes(tree) = 1..Len(tree.parent)
  BY DEF TreeType, Nodes
<1>2. 1 \in Nodes(tree) /\ 0 \notin Nodes(tree) /\ tree.parent[1] = 0
  BY <1>1 DEF TreeType
<1>3. ASSUME NEW n \in Nodes(tree)
      PROVE  /\ n \in Nat \ {0} /\ n <= Len(tree.parent)
             /\ tree.parent[n] \in Nodes(tree) \cup {0} /\ tree.parent[n] < n
             /\ tree.parent[n] = 0 => n = 1
             /\ tree.kind[n] \in Kinds /\ tree.twin[n] \in Nodes(tree) \cup {0}
  <2>1. n \in Nat \ {0} /\ n <= Len(tree.parent) /\ Len(tree.kind) = Len(tree.parent)
    BY <1>1 DEF TreeType
  <2>2. tree.kind[n] \in Kinds
    BY <1>1, <2>1 DEF TreeType
  <2>3. CASE n = 1
    BY <1>2, <2>1, <2>2, <2>3 DEF TreeType
  <2>4. CASE n # 1
    <3>1. tree.parent[n] \in 1..(n - 1) /\ tree.twin[n] \in 0..Len(tree.parent)
      BY <2>4 DEF TreeType
    <3> QED
      BY <1>1, <2>1, <2>2, <3>1
  <2> QED
    BY <2>3, <2>4
<1> QED
  BY <1>1, <1>2, <1>3

(***************************************************************************)
(* The stacks are nodes.                                                   *)
(***************************************************************************)
LEMMA StacksAreNodes ==
  ASSUME TreeType(tree)
  PROVE  stacks \subseteq Nodes(tree) /\ 1 \in stacks
BY NodeNumbers DEF stacks

(***************************************************************************)
(* What is above a node: its scope, and what is above that.                *)
(***************************************************************************)
LEMMA AncestorsUp ==
  ASSUME TreeType(tree)
  PROVE  /\ Ancestors[0] = {}
         /\ \A n \in Nodes(tree) : Ancestors[n] = {tree.parent[n]} \cup Ancestors[tree.parent[n]]
<1> DEFINE L == Len(tree.parent)
           up == tree.parent
<1>1. L \in Nat /\ 0 \in 0..L /\ \A n \in (0..L) \ {0} : up[n] \in 0..L /\ up[n] < n
  <2>1. \A n \in (0..L) \ {0} : n \in Nodes(tree)
    BY NodeNumbers DEF Nodes
  <2> QED
    BY <2>1, NodeNumbers DEF Nodes
<1>2. \E f : f = [n \in 0..L |-> IF n = 0 THEN {} ELSE {up[n]} \cup f[up[n]]]
  <2> DEFINE D == 0..L
             B == {0}
  <2>1. D \in SUBSET (0..L) /\ B = {0} /\ Upward(D, B, up)
    BY <1>1 DEF Upward
  <2>2. PICK f : FunctionOn(D, f) /\ Collects(D, up, f)
    <3> HIDE DEF D, B, L, up
    <3> QED
      BY <1>1, <2>1, UpwardSet
  <2>3. f = [n \in D |-> IF n = 0 THEN {} ELSE {up[n]} \cup f[up[n]]]
    <3> HIDE DEF D, L, up
    <3> QED
      BY <2>2 DEF FunctionOn, Collects
  <2> QED
    BY <2>3
<1>3. Ancestors = [n \in 0..L |-> IF n = 0 THEN {} ELSE {up[n]} \cup Ancestors[up[n]]]
  BY <1>2, Zenon DEF Ancestors
<1>4. \A n \in Nodes(tree) : n \in 0..L /\ n # 0
  BY NodeNumbers DEF Nodes
<1> QED
  BY <1>1, <1>3, <1>4

(***************************************************************************)
(* The stack that holds a node: its scope, or the one that holds that.     *)
(***************************************************************************)
LEMMA StackOfUp ==
  ASSUME TreeType(tree), NEW n \in Nodes(tree)
  PROVE  StackOf[n] = IF tree.parent[n] \in stacks \cup {0} THEN tree.parent[n]
                      ELSE StackOf[tree.parent[n]]
<1> DEFINE L == Len(tree.parent)
           D == Nodes(tree)
           up == tree.parent
           B == {m \in D : up[m] \in stacks \cup {0}}
<1>1. L \in Nat /\ D \in SUBSET (0..L)
  BY NodeNumbers DEF Nodes
<1>2. Upward(D, B, up)
  BY NodeNumbers DEF Upward
<1>3. PICK f : /\ FunctionOn(D, f)
               /\ \A m \in D : f[m] = IF m \in B THEN up[m] ELSE f[up[m]]
  <2> HIDE DEF L, D, up, B
  <2> QED
    BY <1>1, <1>2, UpwardFunction
<1>4. f = [m \in D |-> IF up[m] \in stacks \cup {0} THEN up[m] ELSE f[up[m]]]
  <2>1. \A m \in D : m \in B <=> up[m] \in stacks \cup {0}
    OBVIOUS
  <2> HIDE DEF D, up, B
  <2> QED
    BY <1>3, <2>1 DEF FunctionOn
<1>5. StackOf = [m \in D |-> IF up[m] \in stacks \cup {0} THEN up[m] ELSE StackOf[up[m]]]
  BY <1>4, Zenon DEF StackOf
<1> QED
  BY <1>5

(***************************************************************************)
(* The deepest stack above a node is the stack that holds it.              *)
(***************************************************************************)
LEMMA DeepestPrefix ==
  ASSUME TreeType(tree), NEW n \in Nodes(tree) \ {1}
  PROVE  /\ StackOf[n] \in stackPrefixes(n)
         /\ \A o \in stackPrefixes(n) : o <= StackOf[n]
<1> DEFINE Right(m) == /\ StackOf[m] \in stackPrefixes(m)
                       /\ \A o \in stackPrefixes(m) : o <= StackOf[m]
                       /\ \A a \in Ancestors[m] : a \in Int /\ a < m
           S == {m \in Nodes(tree) \ {1} : ~ Right(m)}
<1>1. S = {}
  <2> SUFFICES ASSUME S # {} PROVE FALSE
    OBVIOUS
  <2>1. PICK m \in S : \A o \in S : m <= o
    <3>1. S \in SUBSET Nat
      BY NodeNumbers
    <3> HIDE DEF S
    <3> QED
      BY <3>1, LeastNat
  <2> DEFINE p == tree.parent[m]
  <2>2. m \in Nodes(tree) /\ m # 1 /\ ~ Right(m) /\ p \in Nodes(tree) /\ p < m /\ p \in Nat /\ m \in Nat
    BY NodeNumbers
  <2>3. /\ Ancestors[m] = {p} \cup Ancestors[p]
        /\ StackOf[m] = IF p \in stacks \cup {0} THEN p ELSE StackOf[p]
    BY <2>2, AncestorsUp, StackOfUp
  <2>4. p # 1 => Right(p)
    <3>1. p \notin S
      BY <2>1, <2>2
    <3> QED
      BY <2>2, <3>1
  <2>5. \A a \in Ancestors[p] : a \in Int /\ a < p
    <3>1. CASE p = 1
      <4>1. Ancestors[1] = {0}
        BY <2>2, <3>1, AncestorsUp, NodeNumbers
      <4> QED
        BY <3>1, <4>1
    <3> QED
      BY <2>4, <3>1
  <2>6. \A a \in Ancestors[m] : a \in Int /\ a < m
    <3>1. ASSUME NEW a \in Ancestors[m] PROVE a \in Int /\ a < m
      <4>1. CASE a = p
        BY <2>2, <4>1
      <4>2. CASE a \in Ancestors[p]
        BY <2>2, <2>5, <4>2
      <4> QED
        BY <2>3, <4>1, <4>2
    <3> QED
      BY <3>1
  <2> HIDE DEF p
  <2>7. CASE p \in stacks
    <3>1. StackOf[m] = p /\ p \in stackPrefixes(m)
      BY <2>3, <2>7 DEF stackPrefixes
    <3>2. \A o \in stackPrefixes(m) : o <= p
      BY <2>2, <2>3, <2>5 DEF stackPrefixes
    <3> QED
      BY <2>2, <2>6, <3>1, <3>2
  <2>8. CASE p \notin stacks
    <3>1. p # 1 /\ p # 0
      BY <2>2, <2>8, StacksAreNodes, NodeNumbers
    <3>2. StackOf[m] = StackOf[p] /\ stackPrefixes(m) = stackPrefixes(p)
      BY <2>3, <2>8, <3>1 DEF stackPrefixes
    <3> QED
      BY <2>2, <2>4, <2>6, <3>1, <3>2
  <2> QED
    BY <2>7, <2>8
<1> QED
  BY <1>1

-----------------------------------------------------------------------------
(***************************************************************************)
(* A resource of a nested stack: it has its X beside its holder, which has *)
(* no other resource.                                                      *)
(***************************************************************************)
LEMMA NestedHalves ==
  ASSUME TreeType(tree), NEW n, NEW r \in nestedStacks(n)
  PROVE  /\ r \in Resources /\ tree.kind[r] = "stack"
         /\ tree.parent[r] \in Children(n) /\ tree.twin[tree.parent[r]] # 0
         /\ NestedNode(r) \in Children(n)
         /\ tree.kind[NestedNode(r)] \in {"wrapper", "resource", "nested"}
         /\ Children(tree.parent[r]) = {r}
<1> DEFINE h == tree.parent[r]
<1>1. r \in Nodes(tree) /\ tree.kind[r] = "stack" /\ tree.parent[h] = n /\ tree.twin[h] # 0
  BY DEF nestedStacks, nestedStackResources
<1>2. r # 1 /\ h \in Nodes(tree)
  <2>1. tree.kind[1] = "wrapper"
    BY DEF TreeType
  <2> QED
    BY <1>1, <2>1, NodeNumbers
<1>3. /\ tree.kind[tree.twin[h]] \in {"wrapper", "resource", "nested"}
      /\ tree.parent[tree.twin[h]] = n
      /\ tree.twin[h] \in Nodes(tree)
  <2>1. /\ tree.kind[tree.twin[h]] \in {"wrapper", "resource", "nested"}
        /\ tree.parent[tree.twin[h]] = n
    BY <1>1, <1>2 DEF TreeType
  <2> QED
    BY <1>1, <1>2, <2>1, NodeNumbers
<1>4. Children(h) = {r}
  BY <1>1 DEF Children, TreeType
<1>5. r \in Resources
  BY <1>1 DEF Resources
<1> QED
  BY <1>1, <1>2, <1>3, <1>4, <1>5 DEF NestedNode, Children

(***************************************************************************)
(* Two nested stacks have two scopes.                                      *)
(***************************************************************************)
LEMMA NestedDistinct ==
  ASSUME TreeType(tree), NEW n, NEW r \in nestedStacks(n), NEW q \in nestedStacks(n),
         NestedNode(r) = NestedNode(q)
  PROVE  r = q
<1>1. /\ tree.parent[r] \in Nodes(tree) /\ tree.parent[q] \in Nodes(tree)
      /\ tree.twin[tree.parent[r]] # 0
      /\ Children(tree.parent[r]) = {r} /\ Children(tree.parent[q]) = {q}
  BY NestedHalves DEF Children
<1>2. tree.parent[r] = tree.parent[q]
  BY <1>1 DEF TreeType, NestedNode
<1> QED
  BY <1>1, <1>2

(***************************************************************************)
(* The children of a construct: the halves of its nested stacks, and the   *)
(* others.                                                                 *)
(***************************************************************************)
LEMMA ChildrenSplit ==
  ASSUME NEW n, NEW m \in Children(n)
  PROVE  m \in OtherChildren(n) \/ \E r \in nestedStacks(n) : m \in {NestedNode(r), tree.parent[r]}
BY DEF OtherChildren

(***************************************************************************)
(* What is defined by the tree alone stays.                                *)
(***************************************************************************)
LEMMA SameTree ==
  ASSUME UNCHANGED tree
  PROVE  /\ TreeType(tree)' = TreeType(tree)
         /\ FrameType' = FrameType /\ EntryType' = EntryType
         /\ Resources' = Resources /\ stacks' = stacks /\ StackOf' = StackOf
         /\ DirectlyNested' = DirectlyNested
         /\ \A n : Mistaken(n)' = Mistaken(n)
         /\ \A n : /\ Children(n)' = Children(n)
                   /\ nestedStacks(n)' = nestedStacks(n)
                   /\ NestedNode(n)' = NestedNode(n)
<1>1. TreeType(tree)' = TreeType(tree)
  BY DEF TreeType, Nodes
<1>2. FrameType' = FrameType /\ EntryType' = EntryType /\ Resources' = Resources
  BY DEF FrameType, EntryType, Resources, Nodes
<1>3. stacks' = stacks
  BY DEF stacks, Nodes
<1>4. StackOf' = StackOf
  BY <1>3 DEF StackOf, Nodes
<1>5. DirectlyNested' = DirectlyNested
  BY DEF DirectlyNested, Nodes
<1>6. \A n : /\ Children(n)' = Children(n)
             /\ nestedStacks(n)' = nestedStacks(n)
             /\ NestedNode(n)' = NestedNode(n)
  BY DEF Children, nestedStacks, nestedStackResources, NestedNode, Nodes
<1>7. \A n : Mistaken(n)' = Mistaken(n)
  BY DEF Mistaken, Nodes
<1> QED
  BY <1>1, <1>2, <1>3, <1>4, <1>5, <1>6, <1>7

(***************************************************************************)
(* The innermost call is changed, and makes a call.                        *)
(***************************************************************************)
LEMMA CallMade ==
  ASSUME NEW T, NEW s \in Seq(T), s # <<>>, NEW f \in T, NEW g \in T
  PROVE  LET r == Append([s EXCEPT ![Len(s)] = f], g)
         IN  /\ r \in Seq(T)
             /\ Len(r) = Len(s) + 1
             /\ r[Len(s)] = f
             /\ r[Len(s) + 1] = g
             /\ \A i \in 1..(Len(s) - 1) : r[i] = s[i]
<1> DEFINE r == [s EXCEPT ![Len(s)] = f]
<1>1. Len(s) \in 1..Len(s) /\ Len(s) \in Nat \ {0}
  OBVIOUS
<1>2. \A i \in 1..(Len(s) - 1) : i \in 1..Len(s) /\ i # Len(s)
  BY <1>1
<1>3. r \in Seq(T) /\ Len(r) = Len(s) /\ r[Len(s)] = f /\ \A i \in 1..(Len(s) - 1) : r[i] = s[i]
  BY <1>1, <1>2, ExceptSeq
<1> HIDE DEF r
<1>4. /\ Append(r, g) \in Seq(T)
      /\ Len(Append(r, g)) = Len(r) + 1
      /\ Append(r, g)[Len(r) + 1] = g
      /\ \A i \in 1..Len(r) : Append(r, g)[i] = r[i]
  BY <1>3
<1>5. \A i \in 1..Len(s) : Append(r, g)[i] = r[i]
  BY <1>3, <1>4
<1> QED
  BY <1>1, <1>2, <1>3, <1>4, <1>5 DEF r

(***************************************************************************)
(* The innermost call returns.                                             *)
(***************************************************************************)
LEMMA CallEnds ==
  ASSUME NEW T, NEW s \in Seq(T), s # <<>>
  PROVE  LET r == SubSeq(s, 1, Len(s) - 1)
         IN  /\ r \in Seq(T)
             /\ Len(r) = Len(s) - 1
             /\ \A i \in 1..(Len(s) - 1) : r[i] = s[i]
<1> DEFINE k == Len(s) - 1
<1>1. k \in Nat /\ k + 1 = Len(s) /\ \A i \in 1..k : s[i] \in T
  OBVIOUS
<1>2. /\ SubSeq(s, 1, k) \in Seq(T)
      /\ Len(SubSeq(s, 1, k)) = k
      /\ \A i \in 1..k : SubSeq(s, 1, k)[i] = s[i]
  <2> HIDE DEF k
  <2>1. /\ SubSeq(s, 1, k) \in Seq(T)
        /\ Len(SubSeq(s, 1, k)) = IF 1 <= k THEN k - 1 + 1 ELSE 0
        /\ \A i \in 1..(k - 1 + 1) : SubSeq(s, 1, k)[i] = s[1 + i - 1]
    BY <1>1, SubSeqProperties
  <2>2. k - 1 + 1 = k /\ \A i \in 1..k : 1 + i - 1 = i
    BY <1>1
  <2> QED
    BY <1>1, <2>1, <2>2
<1> QED
  BY <1>2

-----------------------------------------------------------------------------
(***************************************************************************)
(* What ParseTree and NestedStack have in common: x is entered in the      *)
(* scope of the innermost call, with the resource r; that call goes on as  *)
(* f and has made the call g for what is in x.                             *)
(***************************************************************************)
Resourced(x, r) ==
  /\ \/ r = IF x \in Resources THEN x ELSE 0
     \/ r \in Resources /\ tree.kind[r] = "stack" /\ NestedNode(r) = x
  /\ r # 0 => r \in Resources \cap DOMAIN metadata

GoesOn(x, r, f) ==
  /\ f \in FrameType /\ f.scope = Top.scope
  /\ f.others = Top.others \ {x} /\ f.nested = Top.nested \ {r}
  /\ r \in Top.nested => NestedNode(r) = x

Calls(x, g) ==
  /\ g \in FrameType /\ g.scope = x
  /\ g.others \subseteq Children(x) /\ g.nested \subseteq nestedStacks(x) \cap DOMAIN metadata
  /\ \A q \in g.nested : NestedNode(q) \notin g.others
  /\ \A m \in Children(x) \ g.others : \E q \in g.nested : m \in {NestedNode(q), tree.parent[q]}

Enters(x, r, f, g) ==
  /\ frames # <<>> /\ step = "parse"
  /\ x \in Nodes(tree) \ Constructs /\ tree.parent[x] = Top.scope
  /\ \A q \in Top.nested : NestedNode(q) = x => q = r
  /\ Resourced(x, r) /\ GoesOn(x, r, f) /\ Calls(x, g)
  /\ entered' = Append(entered, Entry(x, Top.scope, r))
  /\ frames' = Append([frames EXCEPT ![Len(frames)] = f], g)
  /\ UNCHANGED <<tree, metadata, step>>

(***************************************************************************)
(* The entries after such a step.                                          *)
(***************************************************************************)
LEMMA EntersEntries ==
  ASSUME TypeOK, NEW x, NEW r, NEW f, NEW g, Enters(x, r, f, g)
  PROVE  /\ entered' \in Seq(EntryType)
         /\ Len(entered) \in Nat /\ Len(entered') = Len(entered) + 1
         /\ \A i \in 1..Len(entered) : entered'[i] = entered[i]
         /\ entered'[Len(entered) + 1] = Entry(x, Top.scope, r)
         /\ Constructs' = Constructs \cup {x}
<1>1. entered \in Seq(EntryType) /\ frames \in Seq(FrameType)
  BY DEF TypeOK
<1>2. Top.scope \in Nodes(tree) \cup {0}
  <2>1. Top \in FrameType
    BY <1>1 DEF Enters, Top
  <2> QED
    BY <2>1 DEF FrameType
<1>3. Entry(x, Top.scope, r) \in EntryType
  BY <1>2 DEF Enters, Resourced, Entry, EntryType
<1>4. /\ entered' \in Seq(EntryType)
      /\ Len(entered) \in Nat /\ Len(entered') = Len(entered) + 1
      /\ \A i \in 1..Len(entered) : entered'[i] = entered[i]
      /\ entered'[Len(entered) + 1] = Entry(x, Top.scope, r)
  BY <1>1, <1>3 DEF Enters
<1>5. Constructs' = Constructs \cup {x}
  <2>1. Entry(x, Top.scope, r).construct = x
    BY DEF Entry
  <2>2. \A i \in 1..Len(entered') : i \in 1..Len(entered) \/ i = Len(entered) + 1
    BY <1>4
  <2>3. \A i \in 1..Len(entered) : i \in 1..Len(entered')
    BY <1>4
  <2>4. Len(entered) + 1 \in 1..Len(entered')
    BY <1>4
  <2> QED
    BY <1>4, <2>1, <2>2, <2>3, <2>4 DEF Constructs
<1> QED
  BY <1>4, <1>5

(***************************************************************************)
(* The calls after such a step.                                            *)
(***************************************************************************)
LEMMA EntersFrames ==
  ASSUME TypeOK, NEW x, NEW r, NEW f, NEW g, Enters(x, r, f, g)
  PROVE  /\ frames' \in Seq(FrameType)
         /\ Len(frames) \in Nat \ {0} /\ Len(frames') = Len(frames) + 1
         /\ Top = frames[Len(frames)]
         /\ \A i \in 1..(Len(frames) - 1) : frames'[i] = frames[i]
         /\ frames'[Len(frames)] = f
         /\ frames'[Len(frames) + 1] = g
<1>1. frames \in Seq(FrameType) /\ frames # <<>> /\ f \in FrameType /\ g \in FrameType
  BY DEF TypeOK, Enters, GoesOn, Calls
<1>2. frames' = Append([frames EXCEPT ![Len(frames)] = f], g)
  BY DEF Enters
<1> QED
  BY <1>1, <1>2, CallMade DEF Top

(***************************************************************************)
(* An entry is made once, after its scope.                                 *)
(***************************************************************************)
LEMMA EntersEntriesInv ==
  ASSUME TypeOK, EntriesInv, FramesInv, NEW x, NEW r, NEW f, NEW g, Enters(x, r, f, g)
  PROVE  EntriesInv'
<1> DEFINE n == Len(entered)
<1>1. /\ n \in Nat /\ Len(entered') = n + 1
      /\ \A i \in 1..n : entered'[i] = entered[i]
      /\ entered'[n + 1] = Entry(x, Top.scope, r)
  BY EntersEntries
<1>2. UNCHANGED <<tree, metadata>> /\ x \notin Constructs /\ tree.parent[x] = Top.scope
  BY DEF Enters
<1>3. Top.scope \in Constructs \cup {0}
  BY EntersFrames DEF FramesInv
<1>4. \A i \in 1..n : entered[i].construct # x
  BY <1>2 DEF Constructs
<1>5. /\ Resources' = Resources /\ \A q : NestedNode(q)' = NestedNode(q)
  BY <1>2, SameTree
<1> SUFFICES ASSUME NEW i \in 1..(n + 1)
             PROVE  /\ \A j \in 1..(n + 1) : entered'[j].construct = entered'[i].construct => j = i
                    /\ entered'[i].parent = tree.parent[entered'[i].construct]
                    /\ entered'[i].parent = 0
                         \/ \E j \in 1..(i - 1) : entered'[j].construct = entered'[i].parent
                    /\ Resourced(entered'[i].construct, entered'[i].resource)
  BY <1>1, <1>2, <1>5 DEF EntriesInv, Resourced
<1>6. CASE i = n + 1
  <2>1. /\ entered'[i].construct = x
        /\ entered'[i].parent = Top.scope
        /\ entered'[i].resource = r
    BY <1>1, <1>6 DEF Entry
  <2>2. \A j \in 1..(n + 1) : entered'[j].construct = x => j = i
    <3> SUFFICES ASSUME NEW j \in 1..(n + 1), j # n + 1 PROVE entered'[j].construct # x
      BY <1>6
    <3>1. j \in 1..n
      BY <1>1
    <3> QED
      BY <1>1, <1>4, <3>1
  <2>3. Top.scope = 0 \/ \E j \in 1..(i - 1) : entered'[j].construct = Top.scope
    <3>1. i - 1 = n
      BY <1>1, <1>6
    <3> QED
      BY <1>1, <1>3, <3>1 DEF Constructs
  <2>4. Resourced(x, r)
    BY DEF Enters
  <2> QED
    BY <1>2, <2>1, <2>2, <2>3, <2>4
<1>7. CASE i # n + 1
  <2>1. i \in 1..n /\ entered'[i] = entered[i] /\ \A j \in 1..(i - 1) : j \in 1..n
    BY <1>1, <1>7
  <2>2. entered[i] \in EntryType
    BY <2>1 DEF TypeOK
  <2>3. /\ \A j \in 1..n : entered[j].construct = entered[i].construct => j = i
        /\ entered[i].parent = tree.parent[entered[i].construct]
        /\ entered[i].parent = 0
             \/ \E j \in 1..(i - 1) : entered[j].construct = entered[i].parent
    BY <2>1 DEF EntriesInv
  <2>4. Resourced(entered[i].construct, entered[i].resource)
    BY <2>1, <2>2 DEF EntriesInv, Resourced, EntryType
  <2>5. \A j \in 1..(n + 1) : entered'[j].construct = entered[i].construct => j = i
    <3> SUFFICES ASSUME NEW j \in 1..(n + 1), entered'[j].construct = entered[i].construct
                 PROVE  j = i
      OBVIOUS
    <3>1. CASE j = n + 1
      BY <1>1, <1>4, <2>1, <3>1 DEF Entry
    <3>2. CASE j # n + 1
      <4>1. j \in 1..n
        BY <1>1, <3>2
      <4> QED
        BY <1>1, <2>3, <4>1
    <3> QED
      BY <3>1, <3>2
  <2> HIDE DEF n
  <2>6. entered[i].parent = 0
          \/ \E j \in 1..(i - 1) : entered'[j].construct = entered[i].parent
    BY <1>1, <2>1, <2>3
  <2> QED
    BY <2>1, <2>3, <2>4, <2>5, <2>6
<1> QED
  BY <1>6, <1>7

(***************************************************************************)
(* What is still to be reached is elsewhere in the tree than x, and not    *)
(* entered: no child of x can be before x itself is.                       *)
(***************************************************************************)
LEMMA EntersFramesInv ==
  ASSUME TypeOK, EntriesInv, FramesInv, NEW x, NEW r, NEW f, NEW g, Enters(x, r, f, g)
  PROVE  FramesInv'
<1> DEFINE k == Len(frames)
<1>1. /\ k \in Nat \ {0} /\ Len(frames') = k + 1
      /\ Top = frames[k]
      /\ \A i \in 1..(k - 1) : frames'[i] = frames[i]
      /\ frames'[k] = f /\ frames'[k + 1] = g
  BY EntersFrames
<1>2. /\ UNCHANGED <<tree, metadata>> /\ x \notin Constructs /\ tree.parent[x] = Top.scope
      /\ x \in Nodes(tree) /\ TreeType(tree) /\ x # 0
  BY NodeNumbers DEF Enters, TypeOK
<1>3. Constructs' = Constructs \cup {x}
  BY EntersEntries
<1>4. \A q : nestedStacks(q)' = nestedStacks(q) /\ NestedNode(q)' = NestedNode(q)
  BY <1>2, SameTree
<1>5. /\ f.scope = Top.scope
      /\ f.others = Top.others \ {x} /\ f.nested = Top.nested \ {r}
      /\ \A q \in f.nested : NestedNode(q) # x
  BY DEF Enters, GoesOn
<1>6. /\ g.scope = x /\ g.others \subseteq Children(x)
      /\ g.nested \subseteq nestedStacks(x) \cap DOMAIN metadata
      /\ \A q \in g.nested : NestedNode(q) \notin g.others
  BY DEF Enters, Calls
<1>7. ASSUME NEW m \in Children(x) PROVE m \notin Constructs /\ m # x
  <2>1. m \in Nodes(tree) /\ tree.parent[m] = x /\ m # x
    BY <1>2, NodeNumbers DEF Children
  <2>2. ASSUME NEW i \in 1..Len(entered), entered[i].construct = m PROVE FALSE
    <3>1. entered[i].parent = x
      BY <2>1, <2>2 DEF EntriesInv
    <3>2. \E j \in 1..(i - 1) : entered[j].construct = x
      BY <1>2, <3>1 DEF EntriesInv
    <3>3. Len(entered) \in Nat
      BY EntersEntries
    <3>4. \A j \in 1..(i - 1) : j \in 1..Len(entered)
      BY <3>3
    <3> QED
      BY <1>2, <3>2, <3>4 DEF Constructs
  <2> QED
    BY <2>1, <2>2 DEF Constructs
<1> HIDE DEF k
<1>8. ASSUME NEW i \in 1..k
      PROVE  /\ \A j \in 1..k : frames[j].scope = frames[i].scope => j = i
             /\ frames[i].scope \in Constructs \cup {0}
             /\ \A c \in frames[i].others :
                  c \notin Constructs /\ tree.parent[c] = frames[i].scope
             /\ \A q \in frames[i].nested :
                  /\ q \in nestedStacks(frames[i].scope) \cap DOMAIN metadata
                  /\ NestedNode(q) \notin Constructs \cup frames[i].others
                  /\ tree.parent[NestedNode(q)] = frames[i].scope
  <2>1. \A q \in nestedStacks(frames[i].scope) : tree.parent[NestedNode(q)] = frames[i].scope
    BY <1>2, NestedHalves DEF Children
  <2> QED
    BY <1>1, <2>1 DEF FramesInv, k
<1>9. ASSUME NEW i \in 1..k
      PROVE  /\ frames'[i].scope = frames[i].scope
             /\ frames'[i].others = frames[i].others \ {x}
             /\ frames'[i].nested \subseteq frames[i].nested
             /\ \A q \in frames'[i].nested : NestedNode(q) # x
  <2>1. CASE i = k
    BY <1>1, <1>5, <2>1
  <2>2. CASE i # k
    <3>1. i \in 1..(k - 1) /\ frames'[i] = frames[i] /\ k \in 1..k
      BY <1>1, <2>2
    <3>2. frames[i].scope # tree.parent[x]
      BY <1>1, <1>2, <1>8, <2>2, <3>1
    <3> QED
      BY <1>8, <3>1, <3>2
  <2> QED
    BY <2>1, <2>2
<1>10. ASSUME NEW i \in 1..(k + 1)
       PROVE  /\ \A j \in 1..(k + 1) : frames'[j].scope = frames'[i].scope => j = i
              /\ frames'[i].scope \in Constructs' \cup {0}
              /\ \A c \in frames'[i].others :
                   c \notin Constructs' /\ tree.parent[c] = frames'[i].scope
              /\ \A q \in frames'[i].nested :
                   /\ q \in nestedStacks(frames'[i].scope) \cap DOMAIN metadata
                   /\ NestedNode(q) \notin Constructs' \cup frames'[i].others
  <2>1. \A j \in 1..(k + 1) : j \in 1..k \/ j = k + 1
    BY <1>1
  <2>2. \A j \in 1..k : frames'[j].scope # x
    BY <1>2, <1>8, <1>9
  <2>3. CASE i = k + 1
    <3>1. frames'[i] = g
      BY <1>1, <2>3
    <3>2. \A q \in nestedStacks(x) : NestedNode(q) \in Children(x)
      BY <1>2, NestedHalves
    <3>3. \A j \in 1..(k + 1) : frames'[j].scope = x => j = i
      BY <2>1, <2>2, <2>3
    <3> QED
      BY <1>3, <1>6, <1>7, <3>1, <3>2, <3>3 DEF Children
  <2>4. CASE i \in 1..k
    <3>1. \A j \in 1..(k + 1) : frames'[j].scope = frames'[i].scope => j = i
      BY <1>1, <1>6, <1>8, <1>9, <2>1, <2>2, <2>4
    <3> QED
      BY <1>3, <1>8, <1>9, <2>4, <3>1
  <2> QED
    BY <2>1, <2>3, <2>4
<1> QED
  BY <1>1, <1>2, <1>4, <1>10 DEF FramesInv, k

(***************************************************************************)
(* The children of x are to be reached, and what the innermost call had    *)
(* still to reach is, or is x itself, or the second half of x.             *)
(***************************************************************************)
LEMMA EntersCompleteInv ==
  ASSUME TypeOK, FramesInv, CompleteInv, NEW x, NEW r, NEW f, NEW g, Enters(x, r, f, g)
  PROVE  CompleteInv'
<1> DEFINE k == Len(frames)
<1>1. /\ k \in Nat \ {0} /\ Len(frames') = k + 1
      /\ Top = frames[k]
      /\ \A i \in 1..(k - 1) : frames'[i] = frames[i]
      /\ frames'[k] = f /\ frames'[k + 1] = g
  BY EntersFrames
<1>2. /\ UNCHANGED <<tree, metadata, step>> /\ step = "parse" /\ TreeType(tree)
      /\ Constructs' = Constructs \cup {x}
  BY EntersEntries DEF Enters, TypeOK
<1>3. \A q : Children(q)' = Children(q) /\ NestedNode(q)' = NestedNode(q)
  BY <1>2, SameTree
<1>4. \A q : Given(q) => Given(q)'
  BY EntersEntries DEF Given
<1>5. Given(r)'
  <2>1. /\ Len(entered') = Len(entered) + 1 /\ Len(entered) \in Nat
        /\ entered'[Len(entered) + 1] = Entry(x, Top.scope, r)
    BY EntersEntries
  <2>2. Entry(x, Top.scope, r).resource = r
    BY DEF Entry
  <2> QED
    BY <2>1, <2>2 DEF Given
<1> HIDE DEF k
<1>6. ASSUME NEW j \in 1..(k + 1), NEW m,
             m \in frames'[j].others
               \/ \E q \in frames'[j].nested : m \in {NestedNode(q), tree.parent[q]}
      PROVE  Pending(m)'
  BY <1>1, <1>2, <1>3, <1>6 DEF Pending, k
<1>7. ASSUME NEW m, Pending(m) PROVE Reached(m)'
  <2>1. PICK j \in 1..k :
          m \in frames[j].others
            \/ \E q \in frames[j].nested : m \in {NestedNode(q), tree.parent[q]}
    BY <1>7 DEF Pending, k
  <2>2. CASE j # k
    <3>1. j \in 1..(k - 1) /\ j \in 1..(k + 1)
      BY <1>1, <2>2
    <3>2. Pending(m)'
      BY <1>1, <1>6, <2>1, <3>1
    <3> QED
      BY <3>2 DEF Reached
  <2>3. CASE j = k /\ m \in Top.others
    <3>1. m = x \/ m \in f.others
      BY <2>3 DEF Enters, GoesOn
    <3>2. k \in 1..(k + 1)
      BY <1>1
    <3>3. m \in Constructs' \/ Pending(m)'
      BY <1>1, <1>2, <1>6, <3>1, <3>2
    <3> QED
      BY <3>3 DEF Reached
  <2>4. CASE j = k /\ \E q \in Top.nested : m \in {NestedNode(q), tree.parent[q]}
    <3>1. PICK q \in Top.nested : m \in {NestedNode(q), tree.parent[q]}
      BY <2>4
    <3>2. CASE q # r
      <4>1. q \in f.nested /\ k \in 1..(k + 1)
        BY <1>1, <3>2 DEF Enters, GoesOn
      <4>2. Pending(m)'
        BY <1>1, <1>6, <3>1, <4>1
      <4> QED
        BY <4>2 DEF Reached
    <3>3. CASE q = r
      <4>1. NestedNode(r) = x
        BY <3>3 DEF Enters, GoesOn
      <4>2. CASE m = NestedNode(q)
        BY <1>2, <3>3, <4>1, <4>2 DEF Reached
      <4>3. CASE m = tree.parent[q]
        <5>1. q \in nestedStacks(Top.scope)
          BY <1>1 DEF FramesInv, k
        <5>2. tree.twin[m] # 0 /\ Children(m) = {r}
          BY <1>2, <3>3, <4>3, <5>1, NestedHalves
        <5> QED
          BY <1>2, <1>3, <1>5, <5>2 DEF Reached
      <4> QED
        BY <3>1, <4>2, <4>3
    <3> QED
      BY <3>2, <3>3
  <2> QED
    BY <1>1, <2>1, <2>2, <2>3, <2>4
<1>8. ASSUME NEW n \in Constructs' \cup {0}, NEW m \in Children(n) PROVE Reached(m)'
  <2>1. CASE n = x
    <3>1. m \in g.others \/ \E q \in g.nested : m \in {NestedNode(q), tree.parent[q]}
      BY <2>1 DEF Enters, Calls
    <3>2. k + 1 \in 1..(k + 1)
      BY <1>1
    <3>3. Pending(m)'
      BY <1>1, <1>6, <3>1, <3>2
    <3> QED
      BY <3>3 DEF Reached
  <2>2. CASE n # x
    <3>1. Reached(m)
      BY <1>2, <2>2 DEF CompleteInv
    <3>2. CASE m \in Constructs
      BY <1>2, <3>2 DEF Reached
    <3>3. CASE Pending(m)
      BY <1>7, <3>3
    <3>4. CASE tree.twin[m] # 0 /\ \A q \in Children(m) : Given(q)
      BY <1>2, <1>3, <1>4, <3>4 DEF Reached
    <3> QED
      BY <3>1, <3>2, <3>3, <3>4 DEF Reached
  <2> QED
    BY <2>1, <2>2
<1> QED
  BY <1>2, <1>3, <1>8 DEF CompleteInv

(***************************************************************************)
(* The types after such a step, and what says nothing of calls or entries. *)
(***************************************************************************)
LEMMA EntersTypeOK ==
  ASSUME TypeOK, AddressesRight, EverythingMapped,
         NEW x, NEW r, NEW f, NEW g, Enters(x, r, f, g)
  PROVE  TypeOK' /\ AddressesRight' /\ EverythingMapped'
<1>1. UNCHANGED <<tree, metadata, step>>
  BY DEF Enters
<1>2. /\ TreeType(tree)' = TreeType(tree) /\ FrameType' = FrameType
      /\ EntryType' = EntryType /\ Resources' = Resources
      /\ stacks' = stacks /\ StackOf' = StackOf
      /\ Nodes(tree)' = Nodes(tree) /\ \A n : Mistaken(n)' = Mistaken(n)
  BY <1>1, SameTree
<1>3. frames' \in Seq(FrameType) /\ entered' \in Seq(EntryType)
  BY EntersFrames, EntersEntries
<1>4. TypeOK'
  BY <1>1, <1>2, <1>3 DEF TypeOK, Ended
<1>5. AddressesRight' /\ EverythingMapped'
  BY <1>1, <1>2 DEF AddressesRight, EverythingMapped
<1> QED
  BY <1>4, <1>5

-----------------------------------------------------------------------------
(***************************************************************************)
(* ParseTree enters the next child.                                        *)
(***************************************************************************)
LEMMA ParseTreeEnters ==
  ASSUME TypeOK, FramesInv, ParseTree
  PROVE  \E n \in Top.others :
           Enters(n, IF n \in Resources THEN n ELSE 0, Frame(Top.scope, {}, Top.others \ {n}),
                  Frame(n, nestedStacks(n), OtherChildren(n)))
<1>1. PICK n \in NextChild :
        /\ Faulty(n) = {}
        /\ entered' = Append(entered, Entry(n, Top.scope, IF n \in Resources THEN n ELSE 0))
        /\ frames' = Append([frames EXCEPT ![Len(frames)] = Frame(@.scope, {}, @.others \ {n})],
                            Frame(n, nestedStacks(n), OtherChildren(n)))
  BY DEF ParseTree
<1> DEFINE r == IF n \in Resources THEN n ELSE 0
           f == Frame(Top.scope, {}, Top.others \ {n})
           g == Frame(n, nestedStacks(n), OtherChildren(n))
           k == Len(frames)
<1>2. /\ step = "parse" /\ frames # <<>> /\ UNCHANGED <<tree, metadata, step>>
      /\ TreeType(tree) /\ frames \in Seq(FrameType)
  BY DEF ParseTree, Parsing, TypeOK
<1>3. k \in 1..Len(frames) /\ Top = frames[k] /\ Top \in FrameType
  BY <1>2 DEF Top
<1>4. Top.nested = {} /\ n \in Top.others
  BY <1>1 DEF NextChild, First
<1>5. /\ Top.scope \in Nodes(tree) \cup {0} /\ Top.others \subseteq Nodes(tree)
      /\ n \in Nodes(tree) /\ n # 0
  BY <1>2, <1>3, <1>4, NodeNumbers DEF FrameType
<1>6. n \notin Constructs /\ tree.parent[n] = Top.scope
  BY <1>3, <1>4 DEF FramesInv
<1>7. Resourced(n, r)
  <2>1. n \in Resources => n \in DOMAIN metadata
    BY <1>1 DEF Faulty, Unaddressed, LookedUp
  <2> QED
    BY <2>1 DEF Resourced
<1>8. GoesOn(n, r, f)
  <2>1. f \in FrameType /\ f.scope = Top.scope /\ f.others = Top.others \ {n} /\ f.nested = {}
    BY <1>5 DEF Frame, FrameType
  <2> HIDE DEF f
  <2> QED
    BY <1>4, <2>1 DEF GoesOn
<1>9. Calls(n, g)
  <2>1. nestedStacks(n) \subseteq DOMAIN metadata
    BY <1>1 DEF Faulty, Unaddressed, LookedUp, nestedStacks
  <2>2. /\ nestedStacks(n) \subseteq Resources
        /\ OtherChildren(n) \subseteq Children(n) /\ Children(n) \subseteq Nodes(tree)
    BY <1>2, NestedHalves DEF OtherChildren, Children
  <2>3. /\ g \in FrameType /\ g.scope = n
        /\ g.others = OtherChildren(n) /\ g.nested = nestedStacks(n)
    BY <1>5, <2>2 DEF Frame, FrameType
  <2>4. \A q \in nestedStacks(n) : NestedNode(q) \notin OtherChildren(n)
    BY DEF OtherChildren
  <2>5. \A m \in Children(n) \ OtherChildren(n) :
          \E q \in nestedStacks(n) : m \in {NestedNode(q), tree.parent[q]}
    BY ChildrenSplit
  <2> HIDE DEF g
  <2> QED
    BY <2>1, <2>2, <2>3, <2>4, <2>5 DEF Calls
<1>10. frames' = Append([frames EXCEPT ![k] = f], g)
  BY <1>1 DEF Top
<1>11. Enters(n, r, f, g)
  BY <1>1, <1>2, <1>4, <1>5, <1>6, <1>7, <1>8, <1>9, <1>10 DEF Enters
<1> QED
  BY <1>4, <1>11

(***************************************************************************)
(* The body of the loop over nested stacks enters the scope of the next.   *)
(***************************************************************************)
LEMMA NestedStackEnters ==
  ASSUME TypeOK, FramesInv, NestedStack
  PROVE  \E r \in Top.nested :
           Enters(NestedNode(r), r, Frame(Top.scope, Top.nested \ {r}, Top.others),
                  Frame(NestedNode(r), {}, Children(NestedNode(r))))
<1>1. PICK r \in NextNested :
        /\ entered' = Append(entered, Entry(NestedNode(r), Top.scope, r))
        /\ frames' = Append([frames EXCEPT ![Len(frames)] = Frame(@.scope, @.nested \ {r}, @.others)],
                            Frame(NestedNode(r), {}, Children(NestedNode(r))))
  BY DEF NestedStack, InScopeOf
<1> DEFINE x == NestedNode(r)
           f == Frame(Top.scope, Top.nested \ {r}, Top.others)
           g == Frame(x, {}, Children(x))
           k == Len(frames)
<1>2. /\ step = "parse" /\ frames # <<>> /\ UNCHANGED <<tree, metadata, step>>
      /\ TreeType(tree) /\ frames \in Seq(FrameType)
  BY DEF NestedStack, Parsing, TypeOK
<1>3. k \in 1..Len(frames) /\ Top = frames[k] /\ Top \in FrameType
  BY <1>2 DEF Top
<1>4. r \in Top.nested
  BY <1>1 DEF NextNested
<1>5. /\ Top.scope \in Nodes(tree) \cup {0}
      /\ Top.nested \subseteq Resources /\ Top.others \subseteq Nodes(tree)
  BY <1>3 DEF FrameType
<1>6. /\ \A q \in Top.nested : q \in nestedStacks(Top.scope)
      /\ r \in DOMAIN metadata /\ x \notin Constructs \cup Top.others
  BY <1>3, <1>4 DEF FramesInv
<1>7. /\ tree.kind[r] = "stack" /\ x \in Nodes(tree)
      /\ tree.parent[x] = Top.scope
  BY <1>2, <1>4, <1>6, NestedHalves DEF Children
<1>8. Resourced(x, r)
  BY <1>4, <1>5, <1>6, <1>7 DEF Resourced
<1>9. GoesOn(x, r, f)
  <2>1. f \in FrameType /\ f.scope = Top.scope /\ f.others = Top.others /\ f.nested = Top.nested \ {r}
    BY <1>5 DEF Frame, FrameType
  <2> HIDE DEF f
  <2> QED
    BY <1>6, <2>1 DEF GoesOn
<1>10. Calls(x, g)
  <2>1. g \in FrameType /\ g.scope = x /\ g.others = Children(x) /\ g.nested = {}
    BY <1>7 DEF Frame, FrameType, Children
  <2> HIDE DEF g, x
  <2> QED
    BY <2>1 DEF Calls
<1>11. \A q \in Top.nested : NestedNode(q) = x => q = r
  BY <1>2, <1>4, <1>6, NestedDistinct
<1>12. frames' = Append([frames EXCEPT ![k] = f], g)
  BY <1>1 DEF Top
<1>13. Enters(x, r, f, g)
  <2> HIDE DEF x, f, g
  <2> QED
    BY <1>1, <1>2, <1>6, <1>7, <1>8, <1>9, <1>10, <1>11, <1>12 DEF Enters, x
<1> QED
  BY <1>4, <1>13

(***************************************************************************)
(* A nested stack has a resource, in the holder beside it.                 *)
(***************************************************************************)
LEMMA StackHasResource ==
  ASSUME TreeType(tree), NEW c \in stacks \ {1}
  PROVE  /\ \E r \in nestedStacks(tree.parent[c]) : NestedNode(r) = c
         /\ tree.kind[c] = "nested" /\ c \in Nodes(tree)
<1>1. PICK h \in Nodes(tree) : tree.twin[h] # 0 /\ tree.twin[h] = c
  BY NodeNumbers DEF stacks
<1>2. /\ tree.kind[h] = "holder" /\ tree.kind[c] = "nested" /\ c \in Nodes(tree)
      /\ tree.parent[c] = tree.parent[h]
  BY <1>1 DEF TreeType, stacks
<1>3. PICK r \in Nodes(tree) : tree.parent[r] = h
  BY <1>1 DEF TreeType
<1>4. r # 1 /\ h # 0
  BY <1>3, NodeNumbers
<1>5. tree.kind[r] = "stack"
  BY <1>2, <1>3, <1>4 DEF TreeType
<1>6. r \in nestedStacks(tree.parent[c]) /\ NestedNode(r) = c
  BY <1>1, <1>2, <1>3, <1>5 DEF nestedStacks, nestedStackResources, NestedNode
<1> QED
  BY <1>1, <1>2, <1>6, NodeNumbers

(***************************************************************************)
(* A nested stack with its resource after such a step.                     *)
(***************************************************************************)
LEMMA EntersScopesInv ==
  ASSUME TypeOK, ScopesInv, NEW x, NEW r, NEW f, NEW g, Enters(x, r, f, g),
         ~ DirectlyNested => g.others \cap stacks \subseteq {1} /\ (x \in stacks \ {1} => r # 0)
  PROVE  ScopesInv'
<1> DEFINE k == Len(frames)
           n == Len(entered)
<1>1. UNCHANGED tree /\ DirectlyNested' = DirectlyNested /\ stacks' = stacks
  BY SameTree DEF Enters
<1> SUFFICES ASSUME ~ DirectlyNested
             PROVE  /\ \A i \in 1..Len(frames') : frames'[i].others \cap stacks \subseteq {1}
                    /\ \A i \in 1..Len(entered') :
                         entered'[i].construct \in stacks \ {1} => entered'[i].resource # 0
  BY <1>1 DEF ScopesInv
<1>2. /\ k \in Nat \ {0} /\ Len(frames') = k + 1
      /\ Top = frames[k]
      /\ \A i \in 1..(k - 1) : frames'[i] = frames[i]
      /\ frames'[k] = f /\ frames'[k + 1] = g
  BY EntersFrames
<1>3. f.others \subseteq Top.others
  BY DEF Enters, GoesOn
<1> HIDE DEF k
<1>4. ASSUME NEW i \in 1..(k + 1) PROVE frames'[i].others \cap stacks \subseteq {1}
  <2>1. \A j \in 1..k : frames[j].others \cap stacks \subseteq {1}
    BY DEF ScopesInv, k
  <2>2. i = k + 1 \/ i = k \/ i \in 1..(k - 1)
    BY <1>2
  <2>3. k \in 1..k /\ \A j \in 1..(k - 1) : j \in 1..k
    BY <1>2
  <2> QED
    BY <1>2, <1>3, <2>1, <2>2, <2>3
<1>5. /\ n \in Nat /\ Len(entered') = n + 1
      /\ \A i \in 1..n : entered'[i] = entered[i]
      /\ entered'[n + 1] = Entry(x, Top.scope, r)
  BY EntersEntries
<1>6. Entry(x, Top.scope, r).construct = x /\ Entry(x, Top.scope, r).resource = r
  BY DEF Entry
<1> HIDE DEF n
<1>7. ASSUME NEW i \in 1..(n + 1), entered'[i].construct \in stacks \ {1}
      PROVE  entered'[i].resource # 0
  <2>1. \A j \in 1..n : entered[j].construct \in stacks \ {1} => entered[j].resource # 0
    BY DEF ScopesInv, n
  <2>2. i = n + 1 \/ i \in 1..n
    BY <1>5
  <2> QED
    BY <1>5, <1>6, <1>7, <2>1, <2>2
<1> QED
  BY <1>2, <1>4, <1>5, <1>7

(***************************************************************************)
(* Every such step keeps the invariant.                                    *)
(***************************************************************************)
LEMMA ParseTreeInv == ParseInv /\ ParseTree => ParseInv'
<1> SUFFICES ASSUME ParseInv, ParseTree PROVE ParseInv'
  OBVIOUS
<1> USE DEF ParseInv
<1>1. PICK n \in Top.others :
        Enters(n, IF n \in Resources THEN n ELSE 0, Frame(Top.scope, {}, Top.others \ {n}),
               Frame(n, nestedStacks(n), OtherChildren(n)))
  BY ParseTreeEnters
<1> DEFINE r == IF n \in Resources THEN n ELSE 0
           f == Frame(Top.scope, {}, Top.others \ {n})
           g == Frame(n, nestedStacks(n), OtherChildren(n))
<1>2. TreeType(tree) /\ Enters(n, r, f, g)
  BY <1>1 DEF TypeOK
<1>3. ~ DirectlyNested => g.others \cap stacks \subseteq {1} /\ (n \in stacks \ {1} => r # 0)
  <2> SUFFICES ASSUME ~ DirectlyNested
               PROVE  g.others \cap stacks \subseteq {1} /\ n \notin stacks \ {1}
    OBVIOUS
  <2>1. g.others = OtherChildren(n)
    BY DEF Frame
  <2>2. ASSUME NEW c \in OtherChildren(n), c \in stacks \ {1} PROVE FALSE
    <3>1. tree.parent[c] = n
      BY DEF OtherChildren, Children
    <3>2. PICK q \in nestedStacks(n) : NestedNode(q) = c
      BY <1>2, <2>2, <3>1, StackHasResource
    <3> QED
      BY <3>2 DEF OtherChildren
  <2>3. n \notin stacks \ {1}
    <3>1. Len(frames) \in 1..Len(frames) /\ Top = frames[Len(frames)]
      BY <1>2, EntersFrames
    <3> QED
      BY <1>1, <3>1 DEF ScopesInv
  <2> QED
    BY <2>1, <2>2, <2>3
<1> HIDE DEF r, f, g
<1> QED
  BY <1>2, <1>3, EntersTypeOK, EntersEntriesInv, EntersFramesInv, EntersCompleteInv, EntersScopesInv

(***************************************************************************)
(* The same for the loop over nested stacks.                               *)
(***************************************************************************)
LEMMA NestedStackInv == ParseInv /\ NestedStack => ParseInv'
<1> SUFFICES ASSUME ParseInv, NestedStack PROVE ParseInv'
  OBVIOUS
<1> USE DEF ParseInv
<1>1. PICK r \in Top.nested :
        Enters(NestedNode(r), r, Frame(Top.scope, Top.nested \ {r}, Top.others),
               Frame(NestedNode(r), {}, Children(NestedNode(r))))
  BY NestedStackEnters
<1> DEFINE x == NestedNode(r)
           f == Frame(Top.scope, Top.nested \ {r}, Top.others)
           g == Frame(x, {}, Children(x))
<1>2. TreeType(tree) /\ Enters(x, r, f, g)
  BY <1>1 DEF TypeOK
<1>3. ~ DirectlyNested => g.others \cap stacks \subseteq {1} /\ (x \in stacks \ {1} => r # 0)
  <2> SUFFICES ASSUME ~ DirectlyNested PROVE g.others \cap stacks \subseteq {1} /\ r # 0
    OBVIOUS
  <2>1. Len(frames) \in 1..Len(frames) /\ Top = frames[Len(frames)]
    BY <1>2, EntersFrames
  <2>2. r \in nestedStacks(Top.scope)
    BY <1>1, <2>1 DEF FramesInv
  <2>3. r \in Resources /\ tree.parent[r] \in Nodes(tree) /\ x = tree.twin[tree.parent[r]]
    BY <1>2, <2>2, NestedHalves DEF NestedNode, Children
  <2>4. r # 0
    BY <1>2, <2>3, NodeNumbers DEF Resources
  <2>5. ASSUME NEW c \in Children(x), c \in stacks \ {1} PROVE FALSE
    <3>1. c \in Nodes(tree) /\ tree.parent[c] = x
      BY DEF Children
    <3>2. tree.kind[c] = "nested"
      BY <1>2, <2>5, StackHasResource
    <3> QED
      BY <2>3, <3>1, <3>2 DEF DirectlyNested
  <2>6. g.others = Children(x)
    BY DEF Frame
  <2> QED
    BY <2>4, <2>5, <2>6
<1> HIDE DEF x, f, g
<1> QED
  BY <1>2, <1>3, EntersTypeOK, EntersEntriesInv, EntersFramesInv, EntersCompleteInv, EntersScopesInv

-----------------------------------------------------------------------------
(***************************************************************************)
(* Initially nothing has been read.                                        *)
(***************************************************************************)
LEMMA ParseInvInit == Init => ParseInv
<1> SUFFICES ASSUME Init PROVE ParseInv
  OBVIOUS
<1>1. /\ TreeType(tree) /\ DOMAIN metadata = {}
      /\ frames = <<>> /\ entered = <<>> /\ step = "manifest"
  BY TreesAssumption DEF Init
<1>2. TypeOK
  BY <1>1 DEF TypeOK
<1>3. AddressesRight /\ EverythingMapped
  BY <1>1 DEF AddressesRight, EverythingMapped
<1>4. EntriesInv /\ FramesInv /\ CompleteInv /\ ScopesInv
  BY <1>1 DEF EntriesInv, FramesInv, CompleteInv, ScopesInv
<1> QED
  BY <1>2, <1>3, <1>4 DEF ParseInv

(***************************************************************************)
(* The manifest: every resource that is listed gets the deepest of its     *)
(* stack prefixes, and parseTree is called on the tree.                    *)
(***************************************************************************)
LEMMA ReadManifestInv == ParseInv /\ ReadManifest => ParseInv'
<1> SUFFICES ASSUME ParseInv, ReadManifest PROVE ParseInv'
  OBVIOUS
<1>1. /\ UNCHANGED <<tree, entered>> /\ step = "manifest" /\ step' = "parse"
      /\ frames' = <<Frame(0, {}, {1})>> /\ entered = <<>> /\ TreeType(tree)
      /\ metadata' = [n \in Resources \ tree.unlisted |->
                        CHOOSE s \in stackPrefixes(n) : \A o \in stackPrefixes(n) : o <= s]
  BY DEF ReadManifest, ParseInv, CompleteInv, TypeOK
<1>2. /\ TreeType(tree)' = TreeType(tree) /\ FrameType' = FrameType
      /\ EntryType' = EntryType /\ Resources' = Resources
      /\ stacks' = stacks /\ StackOf' = StackOf
      /\ \A n : Children(n)' = Children(n)
  BY <1>1, SameTree
<1>3. ASSUME NEW n \in DOMAIN metadata' PROVE metadata'[n] = StackOf[n] /\ metadata'[n] \in stacks
  <2>1. n \in Resources /\ n \in Nodes(tree) \ {1}
    <3>1. tree.kind[1] = "wrapper"
      BY <1>1 DEF TreeType
    <3> QED
      BY <1>1, <3>1 DEF Resources
  <2>2. StackOf[n] \in stackPrefixes(n) /\ \A o \in stackPrefixes(n) : o <= StackOf[n]
    BY <1>1, <2>1, DeepestPrefix
  <2>3. \A o \in stackPrefixes(n) : o \in Int /\ o \in stacks
    BY <1>1, StacksAreNodes, NodeNumbers DEF stackPrefixes
  <2> DEFINE m == CHOOSE s \in stackPrefixes(n) : \A o \in stackPrefixes(n) : o <= s
  <2>4. m \in stackPrefixes(n) /\ \A o \in stackPrefixes(n) : o <= m
    BY <2>2
  <2>5. metadata'[n] = m
    BY <1>1
  <2> HIDE DEF m
  <2>6. m = StackOf[n]
    BY <2>2, <2>3, <2>4
  <2> QED
    BY <2>3, <2>4, <2>5, <2>6
<1>4. Frame(0, {}, {1}) = [scope |-> 0, nested |-> {}, others |-> {1}] /\ 1 \in Nodes(tree)
      /\ tree.parent[1] = 0
  BY <1>1, NodeNumbers DEF Frame
<1>5. /\ Len(frames') = 1
      /\ frames'[1].scope = 0 /\ frames'[1].nested = {} /\ frames'[1].others = {1}
      /\ frames' \in Seq(FrameType)
  <2>1. Frame(0, {}, {1}) \in FrameType
    BY <1>4 DEF FrameType
  <2> QED
    BY <1>1, <1>4, <2>1
<1>6. TypeOK'
  <2>1. DOMAIN metadata' \subseteq Resources
    BY <1>1
  <2>2. entered' \in Seq(EntryType)
    BY <1>1
  <2>3. \A n \in DOMAIN metadata' : metadata'[n] \in stacks
    BY <1>3
  <2> QED
    BY <1>1, <1>2, <1>5, <2>1, <2>2, <2>3 DEF TypeOK, Ended
<1>7. AddressesRight' /\ EverythingMapped'
  BY <1>1, <1>2, <1>3 DEF AddressesRight, EverythingMapped
<1>8. Len(entered') = 0 /\ Constructs' = {}
  BY <1>1 DEF Constructs
<1>9. EntriesInv'
  BY <1>8 DEF EntriesInv
<1>10. FramesInv'
  BY <1>1, <1>4, <1>5, <1>8 DEF FramesInv
<1>11. CompleteInv'
  <2> SUFFICES ASSUME NEW m \in Children(0) PROVE Reached(m)'
    BY <1>1, <1>2, <1>8 DEF CompleteInv
  <2>1. m = 1
    BY <1>1, NodeNumbers DEF Children
  <2>2. Pending(m)'
    BY <1>5, <2>1 DEF Pending
  <2> QED
    BY <2>2 DEF Reached
<1>12. ScopesInv'
  BY <1>5, <1>8 DEF ScopesInv
<1> QED
  BY <1>6, <1>7, <1>9, <1>10, <1>11, <1>12 DEF ParseInv

(***************************************************************************)
(* A call with nothing left to reach returns, and nothing is forgotten.    *)
(***************************************************************************)
LEMMA ReturnInv == ParseInv /\ Return => ParseInv'
<1> SUFFICES ASSUME ParseInv, Return PROVE ParseInv'
  OBVIOUS
<1> DEFINE k == Len(frames)
<1>1. /\ UNCHANGED <<tree, metadata, entered, step>> /\ step = "parse" /\ frames # <<>>
      /\ Top.nested = {} /\ Top.others = {}
      /\ frames' = SubSeq(frames, 1, k - 1)
      /\ TypeOK /\ frames \in Seq(FrameType)
  BY DEF Return, Parsing, ParseInv, TypeOK
<1>2. /\ k \in Nat \ {0} /\ Len(frames') = k - 1 /\ Top = frames[k]
      /\ \A i \in 1..(k - 1) : frames'[i] = frames[i] /\ i \in 1..k
      /\ frames' \in Seq(FrameType)
  BY <1>1, CallEnds DEF Top
<1>3. /\ TreeType(tree)' = TreeType(tree) /\ FrameType' = FrameType
      /\ EntryType' = EntryType /\ Resources' = Resources
      /\ stacks' = stacks /\ StackOf' = StackOf /\ DirectlyNested' = DirectlyNested
      /\ \A n : /\ Children(n)' = Children(n)
                /\ nestedStacks(n)' = nestedStacks(n)
                /\ NestedNode(n)' = NestedNode(n)
  BY <1>1, SameTree
<1>4. Constructs' = Constructs
  BY <1>1 DEF Constructs
<1>5. TypeOK'
  BY <1>1, <1>2, <1>3 DEF TypeOK, Ended
<1>6. AddressesRight' /\ EverythingMapped' /\ EntriesInv'
  BY <1>1, <1>3 DEF ParseInv, AddressesRight, EverythingMapped, EntriesInv
<1>7. FramesInv'
  <2> HIDE DEF k
  <2>1. \A i \in 1..k :
          /\ \A j \in 1..k : frames[j].scope = frames[i].scope => j = i
          /\ frames[i].scope \in Constructs \cup {0}
          /\ \A c \in frames[i].others :
               c \notin Constructs /\ tree.parent[c] = frames[i].scope
          /\ \A q \in frames[i].nested :
               /\ q \in nestedStacks(frames[i].scope) \cap DOMAIN metadata
               /\ NestedNode(q) \notin Constructs \cup frames[i].others
    BY DEF ParseInv, FramesInv, k
  <2> QED
    BY <1>1, <1>2, <1>3, <1>4, <2>1 DEF FramesInv
<1>8. CompleteInv'
  <2>1. ASSUME NEW m, Pending(m) PROVE Pending(m)'
    <3>1. PICK j \in 1..k :
            m \in frames[j].others
              \/ \E q \in frames[j].nested : m \in {NestedNode(q), tree.parent[q]}
      BY <2>1 DEF Pending
    <3>2. j # k
      BY <1>1, <1>2, <3>1
    <3>3. j \in 1..(k - 1)
      BY <1>2, <3>2
    <3> HIDE DEF k
    <3> QED
      BY <1>1, <1>2, <1>3, <3>1, <3>3 DEF Pending
  <2>2. \A q : Given(q)' = Given(q)
    BY <1>1 DEF Given
  <2> QED
    BY <1>1, <1>3, <1>4, <2>1, <2>2 DEF ParseInv, CompleteInv, Reached
<1>9. ScopesInv'
  <2> HIDE DEF k
  <2>1. ~ DirectlyNested => \A i \in 1..k : frames[i].others \cap stacks \subseteq {1}
    BY DEF ParseInv, ScopesInv, k
  <2> QED
    BY <1>1, <1>2, <1>3, <2>1 DEF ParseInv, ScopesInv
<1> QED
  BY <1>5, <1>6, <1>7, <1>8, <1>9 DEF ParseInv

(***************************************************************************)
(* A step that only goes on to another phase.                              *)
(***************************************************************************)
LEMMA PhaseInv ==
  ASSUME ParseInv, UNCHANGED <<tree, metadata, frames, entered>>,
         step' = step \/ step # "manifest",
         step' \in {"check", "mapped"} \/ Ended' \/ step' = step,
         step' \notin {"manifest", "parse"} \cup Refusals => frames = <<>>,
         step' = "unmapped" => tree.extra # {} \/ \E n \in Resources : Mistaken(n),
         step' = "no template" => \E n \in Nodes(tree) : Mistaken(n)
  PROVE  ParseInv'
<1>1. /\ TreeType(tree)' = TreeType(tree) /\ FrameType' = FrameType
      /\ EntryType' = EntryType /\ Resources' = Resources
      /\ stacks' = stacks /\ StackOf' = StackOf /\ DirectlyNested' = DirectlyNested
      /\ Nodes(tree)' = Nodes(tree) /\ \A n : Mistaken(n)' = Mistaken(n)
      /\ \A n : /\ Children(n)' = Children(n)
                /\ nestedStacks(n)' = nestedStacks(n)
                /\ NestedNode(n)' = NestedNode(n)
  BY SameTree
<1>2. Constructs' = Constructs /\ \A q : Given(q)' = Given(q)
  BY DEF Constructs, Given
<1>3. TypeOK'
  BY <1>1 DEF ParseInv, TypeOK, Ended
<1>4. AddressesRight' /\ EverythingMapped' /\ EntriesInv'
  BY <1>1 DEF ParseInv, AddressesRight, EverythingMapped, EntriesInv
<1>5. FramesInv'
  BY <1>1, <1>2 DEF ParseInv, FramesInv
<1>6. ASSUME NEW m, Pending(m) PROVE Pending(m)'
  <2>1. PICK j \in 1..Len(frames) :
          m \in frames[j].others
            \/ \E q \in frames[j].nested : m \in {NestedNode(q), tree.parent[q]}
    BY <1>6 DEF Pending
  <2> QED
    BY <1>1, <2>1 DEF Pending
<1>7. \A m : Reached(m) => Reached(m)'
  BY <1>1, <1>2, <1>6 DEF Reached
<1>8. CompleteInv'
  <2>1. step' = "manifest" => step = "manifest"
    BY DEF Ended, Refusals
  <2>2. step' # "manifest" => step # "manifest"
    OBVIOUS
  <2>3. step' \notin {"parse"} \cup Refusals => frames' = <<>>
    BY <2>1 DEF ParseInv, CompleteInv, Refusals
  <2>4. step' # "manifest" => \A n \in Constructs' \cup {0} : \A m \in Children(n)' : Reached(m)'
    BY <1>1, <1>2, <1>7, <2>2 DEF ParseInv, CompleteInv
  <2>5. step' = "manifest" => entered' = <<>>
    BY <2>1 DEF ParseInv, CompleteInv
  <2>6. Refusals' = Refusals
    BY DEF Refusals
  <2> QED
    BY <2>3, <2>4, <2>5, <2>6 DEF CompleteInv
<1>9. ScopesInv'
  BY <1>1 DEF ParseInv, ScopesInv
<1> QED
  BY <1>3, <1>4, <1>5, <1>8, <1>9 DEF ParseInv

-----------------------------------------------------------------------------
(***************************************************************************)
(* When no call is left, every node has been reached: the tree is a tree,  *)
(* and the smallest node that was not would have a scope that was.         *)
(***************************************************************************)
SecondHalf(m) == tree.kind[m] = "stack" /\ tree.twin[tree.parent[m]] # 0

LEMMA AllReached ==
  ASSUME ParseInv, frames = <<>>, step # "manifest", NEW m \in Nodes(tree)
  PROVE  \/ m \in Constructs
         \/ tree.twin[m] # 0 /\ \A r \in Children(m) : Given(r)
         \/ SecondHalf(m) /\ Given(m)
<1> DEFINE Done(n) == \/ n \in Constructs
                      \/ tree.twin[n] # 0 /\ \A r \in Children(n) : Given(r)
                      \/ SecondHalf(n) /\ Given(n)
           S == {n \in Nodes(tree) : ~ Done(n)}
<1>1. TreeType(tree) /\ \A n : ~ Pending(n)
  BY DEF ParseInv, TypeOK, Pending
<1>2. ASSUME NEW p \in Constructs \cup {0}, NEW n \in Children(p)
      PROVE  n \in Constructs \/ (tree.twin[n] # 0 /\ \A r \in Children(n) : Given(r))
  BY <1>1 DEF ParseInv, CompleteInv, Reached
<1>3. S = {}
  <2> SUFFICES ASSUME S # {} PROVE FALSE
    OBVIOUS
  <2>1. PICK n \in S : \A o \in S : n <= o
    <3>1. S \in SUBSET Nat
      BY <1>1, NodeNumbers
    <3> HIDE DEF S
    <3> QED
      BY <3>1, LeastNat
  <2> DEFINE p == tree.parent[n]
  <2>2. /\ n \in Nodes(tree) /\ ~ Done(n) /\ n \in Children(p)
        /\ n \in Nat /\ p \in Nodes(tree) \cup {0} /\ p < n
        /\ p = 0 => n = 1
    BY <1>1, NodeNumbers DEF Children
  <2>3. p \notin Constructs \cup {0}
    BY <1>2, <2>2
  <2>4. p \in Nodes(tree) /\ p \in Nat /\ Done(p) /\ n # 1
    <3>1. p \in Nodes(tree) /\ p \in Nat
      BY <1>1, <2>2, <2>3, NodeNumbers
    <3>2. p \notin S
      BY <2>1, <2>2, <3>1
    <3>3. n # 1
      BY <1>1, <2>3, NodeNumbers
    <3> QED
      BY <3>1, <3>2, <3>3
  <2>5. tree.kind[p] # "stack" /\ (tree.kind[n] = "stack" <=> tree.kind[p] = "holder")
    BY <1>1, <2>2, <2>4 DEF TreeType
  <2>6. tree.twin[p] # 0 /\ \A r \in Children(p) : Given(r)
    BY <2>3, <2>4, <2>5 DEF SecondHalf
  <2>7. tree.kind[p] = "holder"
    BY <1>1, <2>4, <2>6 DEF TreeType
  <2> QED
    BY <2>2, <2>5, <2>6, <2>7 DEF SecondHalf
<1> QED
  BY <1>3

(***************************************************************************)
(* Then every resource has an entry, with the address of the stack that    *)
(* holds it.                                                               *)
(***************************************************************************)
LEMMA AllMapped ==
  ASSUME ParseInv, frames = <<>>, step # "manifest", NEW n \in Resources, ~ Mistaken(n)
  PROVE  <<StackOf[n], n>> \in cfnElementNodes
<1>1. TreeType(tree) /\ n \in Nodes(tree) /\ tree.kind[n] \in {"resource", "stack"}
  BY DEF ParseInv, TypeOK, Resources
<1>2. Given(n)
  <2>1. CASE n \in Constructs
    <3>1. PICK i \in 1..Len(entered) : entered[i].construct = n
      BY <2>1 DEF Constructs
    <3> DEFINE r == entered[i].resource
    <3>2. r = n \/ (r \in Resources /\ tree.kind[r] = "stack" /\ NestedNode(r) = n)
      BY <3>1 DEF ParseInv, EntriesInv
    <3>3. ASSUME r \in Resources, tree.kind[r] = "stack", NestedNode(r) = n PROVE FALSE
      <4>1. r # 1 /\ tree.parent[r] \in Nodes(tree) /\ n # 0
        <5>1. tree.kind[1] = "wrapper"
          BY <1>1 DEF TreeType
        <5> QED
          BY <1>1, <3>3, <5>1, NodeNumbers DEF Resources
      <4>2. tree.kind[n] # "nested"
        BY <1>1
      <4> QED
        BY <3>3, <4>1, <4>2 DEF NestedNode, Mistaken
    <3>4. r = n
      BY <3>2, <3>3
    <3> QED
      BY <3>4 DEF Given
  <2>2. CASE tree.twin[n] # 0
    <3>1. tree.kind[n] = "holder"
      BY <1>1, <2>2 DEF TreeType
    <3> QED
      BY <1>1, <3>1
  <2>3. CASE SecondHalf(n) /\ Given(n)
    BY <2>3
  <2> QED
    BY <1>1, <2>1, <2>2, <2>3, AllReached
<1>3. PICK i \in 1..Len(entered) : entered[i].resource = n
  BY <1>2 DEF Given
<1>4. n # 0 /\ n \in DOMAIN metadata
  <2>1. n # 0
    BY <1>1, NodeNumbers
  <2> QED
    BY <1>3, <2>1 DEF ParseInv, EntriesInv
<1>5. metadata[n] = StackOf[n]
  BY <1>4 DEF ParseInv, AddressesRight
<1>6. <<metadata[n], n>> \in cfnElementNodes
  BY <1>3, <1>4 DEF cfnElementNodes
<1> QED
  BY <1>5, <1>6

(***************************************************************************)
(* So that only an entry without a construct is refused.                   *)
(***************************************************************************)
LEMMA CheckMappedInv == ParseInv /\ CheckMapped => ParseInv'
<1> SUFFICES ASSUME ParseInv, CheckMapped PROVE ParseInv'
  OBVIOUS
<1>1. /\ step = "check" /\ UNCHANGED <<tree, metadata, frames, entered>>
      /\ step' = IF unmappedResources = {} THEN "mapped" ELSE "unmapped"
  BY DEF CheckMapped
<1>2. frames = <<>>
  BY <1>1 DEF ParseInv, CompleteInv, Refusals
<1>3. unmappedResources # {} => tree.extra # {} \/ \E n \in Resources : Mistaken(n)
  <2> SUFFICES ASSUME \A n \in Resources : ~ Mistaken(n), tree.extra = {}
               PROVE  unmappedResources = {}
    OBVIOUS
  <2>1. \A n \in Resources : <<StackOf[n], n>> \in cfnElementNodes
    BY <1>1, <1>2, AllMapped
  <2> QED
    BY <2>1 DEF unmappedResources
<1> QED
  BY <1>1, <1>2, <1>3, PhaseInv DEF Ended

(***************************************************************************)
(* And a nested stack without template is none.                            *)
(***************************************************************************)
LEMMA FindTemplatesInv == ParseInv /\ FindTemplates => ParseInv'
<1> SUFFICES ASSUME ParseInv, FindTemplates PROVE ParseInv'
  OBVIOUS
<1>1. /\ step = "mapped" /\ UNCHANGED <<tree, metadata, frames, entered>>
      /\ step' = IF nestedStackNodes \subseteq stacks THEN "done" ELSE "no template"
  BY DEF FindTemplates
<1>2. frames = <<>> /\ TreeType(tree)
  BY <1>1 DEF ParseInv, CompleteInv, Refusals, TypeOK
<1>3. ASSUME NEW x \in nestedStackNodes \ stacks PROVE x \in Nodes(tree) /\ Mistaken(x)
  <2>1. PICK i \in 1..Len(entered) :
          entered[i].construct = x /\ entered[i].resource \notin {0, entered[i].construct}
    BY DEF nestedStackNodes
  <2> DEFINE r == entered[i].resource
  <2>2. r \in Resources /\ tree.kind[r] = "stack" /\ NestedNode(r) = x
    BY <2>1 DEF ParseInv, EntriesInv
  <2>3. r \in Nodes(tree) /\ r # 1
    BY <1>2, <2>2 DEF Resources, TreeType
  <2>4. tree.parent[r] \in Nodes(tree) /\ tree.twin[tree.parent[r]] = x
    BY <1>2, <2>2, <2>3, NodeNumbers DEF NestedNode
  <2>5. x \in Nodes(tree)
    <3>1. entered \in Seq(EntryType)
      BY DEF ParseInv, TypeOK
    <3>2. entered[i] \in EntryType
      BY <2>1, <3>1
    <3> QED
      BY <2>1, <3>2 DEF EntryType
  <2>6. tree.kind[x] # "nested"
    BY <1>3, <2>4, <2>5 DEF stacks
  <2>7. \E h \in Nodes(tree) : tree.twin[h] = x
    BY <2>4
  <2> QED
    BY <2>5, <2>6, <2>7 DEF Mistaken
<1>4. step' = "no template" => \E n \in Nodes(tree) : Mistaken(n)
  BY <1>1, <1>3
<1> QED
  BY <1>1, <1>2, <1>4, PhaseInv DEF Ended

(***************************************************************************)
(* Every step keeps the invariant.                                         *)
(***************************************************************************)
LEMMA ParseInvNext == ParseInv /\ [Next]_vars => ParseInv'
<1> SUFFICES ASSUME ParseInv, [Next]_vars PROVE ParseInv'
  OBVIOUS
<1>1. CASE Refuse
  <2>1. /\ UNCHANGED <<tree, metadata, frames, entered>>
        /\ step = "parse" /\ step' \in Refusals
    BY <1>1 DEF Refuse, Parsing, Thrown, Refusals
  <2>2. Ended' /\ step' \notin {"unmapped", "no template"}
    BY <2>1 DEF Ended, Refusals
  <2> QED
    BY <2>1, <2>2, PhaseInv
<1>2. CASE Parsed
  <2>1. /\ UNCHANGED <<tree, metadata, frames, entered>>
        /\ step = "parse" /\ step' = "check" /\ frames = <<>>
    BY <1>2 DEF Parsed
  <2> QED
    BY <2>1, PhaseInv
<1>3. CASE Terminating \/ UNCHANGED vars
  <2>1. UNCHANGED <<tree, metadata, frames, entered, step>>
    BY <1>3 DEF Terminating, vars
  <2>2. /\ step' \notin {"manifest", "parse"} \cup Refusals => frames = <<>>
        /\ step' = "unmapped" => tree.extra # {} \/ \E n \in Resources : Mistaken(n)
        /\ step' = "no template" => \E n \in Nodes(tree) : Mistaken(n)
    BY <2>1 DEF ParseInv, CompleteInv, EverythingMapped
  <2>3. step' = step
    BY <2>1
  <2> QED
    BY <2>1, <2>2, <2>3, PhaseInv
<1> QED
  BY <1>1, <1>2, <1>3, ReadManifestInv, ParseTreeInv, NestedStackInv, ReturnInv, CheckMappedInv,
     FindTemplatesInv DEF Next

(***************************************************************************)
(* The invariant of the parse of the construct tree: pending calls,        *)
(* entries and addresses, for every tree.                                  *)
(***************************************************************************)
THEOREM ParseInvariant == Spec => []ParseInv
<1> QED
  BY ParseInvInit, ParseInvNext, PTL DEF Spec

(***************************************************************************)
(* Type correctness.                                                       *)
(***************************************************************************)
THEOREM TypeCorrect == Spec => []TypeOK
<1>1. ParseInv => TypeOK
  BY DEF ParseInv
<1> QED
  BY <1>1, ParseInvariant, PTL

(***************************************************************************)
(* The longest stack path that is a prefix of the path of a resource is    *)
(* that of the stack the resource is in.                                   *)
(***************************************************************************)
THEOREM ResourcesInTheirStack == Spec => []AddressesRight
<1>1. ParseInv => AddressesRight
  BY DEF ParseInv
<1> QED
  BY <1>1, ParseInvariant, PTL

(***************************************************************************)
(* What is refused as unmapped, or for want of a template, is an entry of  *)
(* a template that no construct has, or a construct X that is mistaken for *)
(* a nested stack because of an X.NestedStack beside it.                   *)
(***************************************************************************)
THEOREM UnmappedAreMistaken == Spec => []EverythingMapped
<1>1. ParseInv => EverythingMapped
  BY DEF ParseInv
<1> QED
  BY <1>1, ParseInvariant, PTL

(***************************************************************************)
(* Each construct is entered once, after its scope, and none but the       *)
(* second halves of nested stacks is left out.                             *)
(***************************************************************************)
THEOREM ConstructsInOrder == Spec => []EnteredInOrder
<1>1. ParseInv => EnteredInOrder
  <2> SUFFICES ASSUME ParseInv PROVE EnteredInOrder
    OBVIOUS
  <2>1. \A i, j \in 1..Len(entered) : entered[i].construct = entered[j].construct => i = j
    BY DEF ParseInv, EntriesInv
  <2>2. \A i \in 1..Len(entered) :
          entered[i].parent = 0 \/ \E j \in 1..(i - 1) : entered[j].construct = entered[i].parent
    BY DEF ParseInv, EntriesInv
  <2>3. ASSUME step = "check", NEW n \in Nodes(tree)
        PROVE  \/ \E i \in 1..Len(entered) : entered[i].construct = n
               \/ tree.kind[n] = "holder" /\ tree.twin[n] # 0
               \/ tree.kind[n] = "stack" /\ tree.twin[tree.parent[n]] # 0
    <3>1. frames = <<>> /\ step # "manifest"
      BY <2>3 DEF ParseInv, CompleteInv, Refusals
    <3>2. tree.twin[n] # 0 => tree.kind[n] = "holder"
      BY DEF ParseInv, TypeOK, TreeType
    <3> QED
      BY <3>1, <3>2, AllReached DEF Constructs, SecondHalf
  <2> QED
    BY <2>1, <2>2, <2>3 DEF EnteredInOrder
<1> QED
  BY <1>1, ParseInvariant, PTL

-----------------------------------------------------------------------------
(***************************************************************************)
(* The construct of an entry has one entry, with the parent the tree gives *)
(* it.                                                                     *)
(***************************************************************************)
LEMMA EntryOfConstruct ==
  ASSUME ParseInv, NEW n \in Constructs
  PROVE  \E i \in 1..Len(entered) :
           /\ EntryOf(n) = entered[i] /\ entered[i].construct = n
           /\ entered[i].parent = tree.parent[n]
           /\ n \in Nodes(tree) /\ tree.parent[n] \in Constructs \cup {0}
<1> DEFINE Of(i) == entered[i].construct = n
           i == CHOOSE i \in 1..Len(entered) : Of(i)
<1>1. \E j \in 1..Len(entered) : Of(j)
  BY DEF Constructs
<1>2. i \in 1..Len(entered) /\ Of(i)
  BY <1>1
<1>3. EntryOf(n) = entered[i]
  BY DEF EntryOf
<1> HIDE DEF i
<1>4. entered[i].construct = n
  BY <1>2
<1>5. /\ entered[i].parent = tree.parent[n]
      /\ entered[i].parent = 0 \/ \E j \in 1..(i - 1) : entered[j].construct = entered[i].parent
  BY <1>2, <1>4 DEF ParseInv, EntriesInv
<1>6. n \in Nodes(tree) /\ Len(entered) \in Nat
  <2>1. entered \in Seq(EntryType)
    BY DEF ParseInv, TypeOK
  <2>2. entered[i] \in EntryType /\ Len(entered) \in Nat
    BY <1>2, <2>1
  <2> QED
    BY <1>4, <2>2 DEF EntryType
<1>7. tree.parent[n] \in Constructs \cup {0}
  <2>1. \A j \in 1..(i - 1) : j \in 1..Len(entered)
    BY <1>2, <1>6
  <2> QED
    BY <1>5, <2>1 DEF Constructs
<1> QED
  BY <1>2, <1>3, <1>4, <1>5, <1>6, <1>7

(***************************************************************************)
(* The stack that the scopes of an entered construct lead to: its scope,   *)
(* or what that leads to.                                                  *)
(***************************************************************************)
LEMMA ScopeOfUp ==
  ASSUME ParseInv, NEW n \in Constructs
  PROVE  ScopeOf[n] = IF ScopesStack(tree.parent[n]) THEN tree.parent[n]
                      ELSE ScopeOf[tree.parent[n]]
<1> DEFINE L == Len(tree.parent)
           D == Constructs
           up == tree.parent
           B == {m \in D : ScopesStack(up[m])}
<1>1. \A m \in D : /\ EntryOf(m).parent = tree.parent[m]
                   /\ m \in Nodes(tree) /\ tree.parent[m] \in D \cup {0}
  BY EntryOfConstruct
<1>2. TreeType(tree)
  BY DEF ParseInv, TypeOK
<1>3. L \in Nat /\ D \in SUBSET (0..L)
  <2>1. L \in Nat /\ Nodes(tree) = 1..L
    BY <1>2, NodeNumbers DEF Nodes
  <2>2. \A m \in D : m \in Nodes(tree)
    BY <1>1
  <2> HIDE DEF L, D
  <2> QED
    BY <2>1, <2>2
<1>4. Upward(D, B, up)
  <2>1. ASSUME NEW m \in D \ B PROVE up[m] \in D /\ up[m] < m
    <3>1. up[m] # 0
      BY <2>1 DEF ScopesStack
    <3> QED
      BY <1>1, <1>2, <3>1, NodeNumbers
  <2> HIDE DEF D, B, up
  <2> QED
    BY <2>1 DEF Upward
<1>5. PICK f : /\ FunctionOn(D, f)
               /\ \A m \in D : f[m] = IF m \in B THEN up[m] ELSE f[up[m]]
  <2>1. L \in Nat /\ D \in SUBSET (0..L) /\ Upward(D, B, up)
    BY <1>3, <1>4
  <2> HIDE DEF L, D, up, B
  <2> QED
    BY <2>1, UpwardFunction, Z3
<1>6. f = [m \in D |-> IF ScopesStack(EntryOf(m).parent) THEN EntryOf(m).parent
                       ELSE f[EntryOf(m).parent]]
  <2>1. \A m \in D : (m \in B <=> ScopesStack(EntryOf(m).parent)) /\ up[m] = EntryOf(m).parent
    BY <1>1
  <2> HIDE DEF D, up, B
  <2> QED
    BY <1>5, <2>1 DEF FunctionOn
<1>7. ScopeOf = [m \in D |-> IF ScopesStack(EntryOf(m).parent) THEN EntryOf(m).parent
                             ELSE ScopeOf[EntryOf(m).parent]]
  BY <1>6, Zenon DEF ScopeOf
<1> QED
  BY <1>1, <1>7

(***************************************************************************)
(* Where the tree is not misread, the constructs that scope a stack are    *)
(* the stacks.                                                             *)
(***************************************************************************)
LEMMA StacksScope ==
  ASSUME ParseInv, ~ Misread, NEW p \in Constructs
  PROVE  ScopesStack(p) <=> p \in stacks \cup {0}
<1>1. PICK i \in 1..Len(entered) :
        EntryOf(p) = entered[i] /\ entered[i].construct = p /\ p \in Nodes(tree)
  BY EntryOfConstruct
<1>2. TreeType(tree)
  BY DEF ParseInv, TypeOK
<1>3. p # 0 /\ 1 \in stacks
  BY <1>1, <1>2, NodeNumbers, StacksAreNodes
<1>4. ASSUME p \in stacks \ {1} PROVE ScopesStack(p)
  <2>1. entered[i].resource # 0
    BY <1>1, <1>4 DEF ParseInv, ScopesInv, Misread
  <2>2. entered[i].resource # p
    <3>1. tree.kind[p] = "nested"
      BY <1>2, <1>4, StackHasResource
    <3>2. p \notin Resources
      BY <3>1 DEF Resources
    <3> QED
      BY <1>1, <2>1, <3>2 DEF ParseInv, EntriesInv
  <2> QED
    BY <1>1, <2>1, <2>2 DEF ScopesStack
<1>5. ASSUME entered[i].resource \notin {0, p} PROVE p \in stacks
  <2> DEFINE r == entered[i].resource
  <2>2. r \in Resources /\ NestedNode(r) = p /\ tree.kind[r] = "stack"
    BY <1>1, <1>5 DEF ParseInv, EntriesInv
  <2>3. r \in Nodes(tree) /\ r # 1
    BY <1>2, <2>2 DEF Resources, TreeType
  <2>4. tree.parent[r] \in Nodes(tree) /\ tree.twin[tree.parent[r]] = p
    BY <1>2, <2>2, <2>3, NodeNumbers DEF NestedNode
  <2>5. tree.kind[p] = "nested"
    BY <1>1, <2>4 DEF Misread, Mistaken
  <2> QED
    BY <1>1, <2>4, <2>5 DEF stacks
<1> QED
  BY <1>1, <1>3, <1>4, <1>5 DEF ScopesStack

(***************************************************************************)
(* There the scopes of an entered construct lead to the stack it is in.    *)
(***************************************************************************)
LEMMA ScopeIsStack ==
  ASSUME ParseInv, ~ Misread, NEW n \in Constructs
  PROVE  ScopeOf[n] = StackOf[n]
<1> DEFINE S == {m \in Constructs : ScopeOf[m] # StackOf[m]}
<1>1. S = {}
  <2> SUFFICES ASSUME S # {} PROVE FALSE
    OBVIOUS
  <2>1. TreeType(tree)
    BY DEF ParseInv, TypeOK
  <2>2. \A m \in Constructs : m \in Nodes(tree) /\ tree.parent[m] \in Constructs \cup {0}
    BY EntryOfConstruct
  <2>3. S \in SUBSET Nat
    BY <2>1, <2>2, NodeNumbers
  <2>4. PICK m \in S : \A o \in S : m <= o
    <3> HIDE DEF S
    <3> QED
      BY <2>3, LeastNat
  <2> DEFINE p == tree.parent[m]
  <2>5. /\ m \in Constructs /\ m \in Nodes(tree) /\ m \in Nat
        /\ p \in Constructs \cup {0} /\ p < m
    BY <2>1, <2>2, NodeNumbers
  <2>6. ScopesStack(p) <=> p \in stacks \cup {0}
    <3>1. CASE p = 0
      BY <3>1 DEF ScopesStack
    <3>2. CASE p # 0
      BY <2>5, <3>2, StacksScope
    <3> QED
      BY <3>1, <3>2
  <2>7. /\ ScopeOf[m] = IF ScopesStack(p) THEN p ELSE ScopeOf[p]
        /\ StackOf[m] = IF p \in stacks \cup {0} THEN p ELSE StackOf[p]
    BY <2>1, <2>5, ScopeOfUp, StackOfUp
  <2>8. CASE p \in stacks \cup {0}
    BY <2>4, <2>6, <2>7, <2>8
  <2>9. CASE p \notin stacks \cup {0}
    <3>1. p \in Constructs /\ p \in Nat
      BY <2>1, <2>2, <2>5, <2>9, NodeNumbers
    <3>2. p \notin S
      BY <2>3, <2>4, <2>5, <3>1
    <3> QED
      BY <2>4, <2>6, <2>7, <2>9, <3>1, <3>2
  <2> QED
    BY <2>8, <2>9
<1> QED
  BY <1>1

(***************************************************************************)
(* The resource of a nested stack is in the stack its X is in.             *)
(***************************************************************************)
LEMMA ResourceBesideStack ==
  ASSUME TreeType(tree), NEW r \in Resources, tree.kind[r] = "stack",
         NEW x, NestedNode(r) = x, x # 0
  PROVE  StackOf[r] = StackOf[x]
<1> DEFINE h == tree.parent[r]
<1>1. r \in Nodes(tree) /\ r # 1 /\ tree.kind[h] = "holder"
  BY DEF Resources, TreeType
<1>2. h \in Nodes(tree)
  BY <1>1, NodeNumbers
<1>3. x = tree.twin[h] /\ tree.parent[x] = tree.parent[h] /\ x \in Nodes(tree)
  BY <1>2, NodeNumbers DEF NestedNode, TreeType
<1>4. h \notin stacks \cup {0}
  <2>1. h # 1 /\ h # 0
    BY <1>1, <1>2, NodeNumbers DEF TreeType
  <2>2. h \notin stacks
    BY <1>1, <2>1, StackHasResource
  <2> QED
    BY <2>1, <2>2
<1>5. StackOf[r] = StackOf[h]
  BY <1>1, <1>4, StackOfUp
<1>6. StackOf[h] = StackOf[x]
  BY <1>2, <1>3, StackOfUp
<1> QED
  BY <1>5, <1>6

(***************************************************************************)
(* Where the tree is not misread, the scopes of a resource lead to the     *)
(* stack that its address names.                                           *)
(***************************************************************************)
THEOREM ScopesAgreeWithAddresses == Spec => []ScopedInStack
<1>1. ParseInv => ScopedInStack
  <2> SUFFICES ASSUME ParseInv, ~ Misread,
                      NEW i \in 1..Len(entered), entered[i].resource # 0
               PROVE  ScopeOf[entered[i].construct] = metadata[entered[i].resource]
    BY DEF ScopedInStack
  <2> DEFINE n == entered[i].construct
             r == entered[i].resource
  <2>1. TreeType(tree) /\ n \in Constructs /\ n \in Nodes(tree)
    <3>1. TreeType(tree) /\ n \in Constructs
      BY DEF ParseInv, TypeOK, Constructs
    <3> QED
      BY <3>1, EntryOfConstruct
  <2>2. /\ r = n \/ (r \in Resources /\ tree.kind[r] = "stack" /\ NestedNode(r) = n)
        /\ r \in DOMAIN metadata
    BY DEF ParseInv, EntriesInv
  <2>3. StackOf[r] = StackOf[n]
    BY <2>1, <2>2, NodeNumbers, ResourceBesideStack
  <2>4. metadata[r] = StackOf[r]
    BY <2>2 DEF ParseInv, AddressesRight
  <2> QED
    BY <2>1, <2>3, <2>4, ScopeIsStack
<1> QED
  BY <1>1, ParseInvariant, PTL
=============================================================================
