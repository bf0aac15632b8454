---------------------------- MODULE MappingProofs ----------------------------
(***************************************************************************)
(* Proofs about the logical ids and the resources of a stack, for every    *)
(* stack, every conversion of properties and every remapping that keeps    *)
(* the assumptions of Mapping.                                             *)
(***************************************************************************)
EXTENDS Mapping, FiniteSetTheorems, SequenceTheorems, WellFoundedInduction, TLAPS

(***************************************************************************)
(* A set of naturals has a least element: induction, as a fact that is     *)
(* applied to the set of the counterexamples.                              *)
(***************************************************************************)
LEMMA LeastNat ==
  ASSUME NEW S \in SUBSET Nat, S # {}
  PROVE  \E n \in S : \A m \in S : n <= m
<1> DEFINE T == {1..n : n \in S}
           R == StrictSubsetOrdering(Nat)
<1>1. T \subseteq FiniteSubsetsOf(Nat) /\ T # {}
  <2> SUFFICES ASSUME NEW n \in S PROVE 1..n \in FiniteSubsetsOf(Nat)
    OBVIOUS
  <2>1. 1 \in Int /\ n \in Int
    OBVIOUS
  <2>2. IsFiniteSet(1..n)
    BY <2>1, FS_Interval
  <2>3. 1..n \in SUBSET Nat
    OBVIOUS
  <2> QED
    BY <2>2, <2>3 DEF FiniteSubsetsOf
<1>2. IsWellFoundedOn(R, FiniteSubsetsOf(Nat))
  BY FS_StrictSubsetOrderingWellFounded
<1>3. \E x \in T : \A y \in T : ~ (<<y, x>> \in R)
  <2> HIDE DEF R, T
  <2> QED
    BY <1>1, <1>2, WFMin
<1>4. PICK n \in S : \A m \in S : ~ (<<1..m, 1..n>> \in R)
  BY <1>3
<1>5. ASSUME NEW m \in S, m < n PROVE FALSE
  <2>1. n \in 1..n /\ n \notin 1..m
    BY <1>5
  <2>2. 1..m \subseteq Nat /\ 1..n \subseteq Nat /\ 1..m \subseteq 1..n /\ 1..m # 1..n
    BY <1>5, <2>1
  <2> QED
    BY <1>4, <2>2 DEF StrictSubsetOrdering
<1> QED
  BY <1>5

(***************************************************************************)
(* What holds at first and after each step holds throughout.               *)
(***************************************************************************)
LEMMA Stepwise ==
  ASSUME NEW L \in Nat, NEW A, NEW f, f[0] \in A, \A i \in 1..L : f[i - 1] \in A => f[i] \in A
  PROVE  \A i \in 0..L : f[i] \in A
<1> DEFINE S == {i \in 0..L : f[i] \notin A}
<1> SUFFICES ASSUME S # {} PROVE FALSE
  OBVIOUS
<1>1. S \in SUBSET Nat
  OBVIOUS
<1>2. PICK k \in S : \A m \in S : k <= m
  <2> HIDE DEF S
  <2> QED
    BY <1>1, LeastNat
<1>3. k \in 1..L /\ k - 1 \in 0..L /\ k - 1 \notin S
  BY <1>2
<1> QED
  BY <1>3

(***************************************************************************)
(* The function that the recursive definitions of LogicalIds describe      *)
(* exists: each value is from the one before.                              *)
(***************************************************************************)
FoldsUpTo(f, k, A, base, op) ==
  f \in [0..k -> A] /\ f[0] = base /\ \A i \in 1..k : f[i] = op[i][f[i - 1]]

LEMMA IteratedFunction ==
  ASSUME NEW L \in Nat, NEW A, NEW base \in A, NEW op \in [1..L -> [A -> A]]
  PROVE  \E f : FoldsUpTo(f, L, A, base, op)
<1> DEFINE S == {k \in 0..L : ~ \E f : FoldsUpTo(f, k, A, base, op)}
<1>0. S # {} \/ \E f : FoldsUpTo(f, L, A, base, op)
  <2>1. L \in 0..L
    OBVIOUS
  <2> QED
    BY <2>1
<1> SUFFICES ASSUME S # {} PROVE FALSE
  BY <1>0
<1>1. S \in SUBSET Nat /\ \A k \in 0..L : k \notin S <=> \E f : FoldsUpTo(f, k, A, base, op)
  OBVIOUS
<1>2. PICK k \in S : \A m \in S : k <= m
  <2> HIDE DEF S
  <2> QED
    BY <1>1, LeastNat
<1>3. k \in 0..L /\ k \in Nat
  BY <1>1
<1> HIDE DEF S
<1>4. CASE k = 0
  <2>1. FoldsUpTo([i \in 0..0 |-> base], 0, A, base, op)
    BY DEF FoldsUpTo
  <2> QED
    BY <1>1, <1>2, <1>4, <2>1
<1>5. CASE k # 0
  <2>1. k - 1 \in 0..L /\ k - 1 \notin S
    BY <1>2, <1>3, <1>5
  <2>2. PICK f : FoldsUpTo(f, k - 1, A, base, op)
    BY <1>1, <2>1
  <2> DEFINE h == [i \in 0..k |-> IF i = k THEN op[k][f[k - 1]] ELSE f[i]]
  <2>3. f \in [0..(k - 1) -> A] /\ f[0] = base /\ \A i \in 1..(k - 1) : f[i] = op[i][f[i - 1]]
    BY <2>2 DEF FoldsUpTo
  <2>4. f[k - 1] \in A /\ op[k][f[k - 1]] \in A
    BY <1>3, <1>5, <2>3
  <2>5. h \in [0..k -> A]
    BY <1>3, <1>5, <2>3, <2>4
  <2>6. h[0] = base /\ \A i \in 1..k : h[i] = op[i][h[i - 1]]
    BY <1>3, <1>5, <2>3
  <2>7. FoldsUpTo(h, k, A, base, op)
    BY <2>5, <2>6 DEF FoldsUpTo
  <2> QED
    BY <1>1, <1>2, <1>3, <2>7
<1> QED
  BY <1>4, <1>5

-----------------------------------------------------------------------------
(***************************************************************************)
(* What is kept of the first i elements, when x is left out.               *)
(***************************************************************************)
Keeps(f, s, x, S) ==
  /\ f \in [0..Len(s) -> Seq(S \ {x})]
  /\ f[0] = <<>>
  /\ \A i \in 1..Len(s) : f[i] = IF s[i] = x THEN f[i - 1] ELSE Append(f[i - 1], s[i])

LEMMA WithoutKeeps ==
  ASSUME NEW S, NEW s \in Seq(S), NEW x
  PROVE  \E f : Keeps(f, s, x, S) /\ Without(s, x) = f[Len(s)]
<1> DEFINE L == Len(s)
           A == Seq(S \ {x})
           step(i, kept) == IF s[i] = x THEN kept ELSE Append(kept, s[i])
           op == [i \in 1..L |-> [kept \in A |-> step(i, kept)]]
           K == CHOOSE kept : kept = [i \in 0..Len(s) |->
                  IF i = 0 THEN <<>> ELSE IF s[i] = x THEN kept[i - 1] ELSE Append(kept[i - 1], s[i])]
<1>1. L \in Nat /\ <<>> \in A
  OBVIOUS
<1>2. ASSUME NEW i \in 1..L, NEW kept \in A PROVE step(i, kept) \in A
  <2>1. s[i] \in S
    OBVIOUS
  <2>2. CASE s[i] = x
    BY <2>2
  <2>3. CASE s[i] # x
    <3>1. s[i] \in S \ {x}
      BY <2>1, <2>3
    <3>2. Append(kept, s[i]) \in A
      BY <3>1, AppendProperties
    <3> QED
      BY <2>3, <3>2
  <2> QED
    BY <2>2, <2>3
<1>3. op \in [1..L -> [A -> A]]
  <2> HIDE DEF A, step
  <2> QED
    BY <1>2
<1>4. PICK f : FoldsUpTo(f, L, A, <<>>, op)
  <2> HIDE DEF A, L, op
  <2> QED
    BY <1>1, <1>3, IteratedFunction
<1>5. f = [i \in 0..Len(s) |->
             IF i = 0 THEN <<>> ELSE IF s[i] = x THEN f[i - 1] ELSE Append(f[i - 1], s[i])]
  <2>1. f \in [0..L -> A] /\ f[0] = <<>> /\ \A i \in 1..L : f[i] = op[i][f[i - 1]]
    BY <1>4 DEF FoldsUpTo
  <2>2. ASSUME NEW i \in 1..L PROVE f[i] = step(i, f[i - 1])
    <3>1. i - 1 \in 0..L
      BY <1>1
    <3>2. f[i - 1] \in A /\ f[i] = op[i][f[i - 1]]
      <4> HIDE DEF A, L, op
      <4> QED
        BY <2>1, <3>1
    <3> HIDE DEF A, L, step
    <3> QED
      BY <3>2
  <2>3. ASSUME NEW i \in 0..L
        PROVE  f[i] = IF i = 0 THEN <<>> ELSE step(i, f[i - 1])
    <3>1. i = 0 \/ i \in 1..L
      BY <1>1
    <3> HIDE DEF step, A, L, op
    <3> QED
      BY <2>1, <2>2, <3>1
  <2>4. f = [i \in 0..L |-> f[i]]
    <3> HIDE DEF A, L, op
    <3> QED
      BY <2>1
  <2> QED
    BY <2>3, <2>4, Zenon
<1>6. K = [i \in 0..Len(s) |->
             IF i = 0 THEN <<>> ELSE IF s[i] = x THEN K[i - 1] ELSE Append(K[i - 1], s[i])]
  BY <1>5, Zenon
<1>7. Without(s, x) = K[Len(s)]
  BY Zenon DEF Without
<1> HIDE DEF K
<1>8. K[0] = <<>> /\ \A i \in 1..L : K[i] = step(i, K[i - 1])
  <2>1. 0 \in 0..Len(s) /\ \A i \in 1..L : i \in 0..Len(s) /\ i # 0
    BY <1>1
  <2> QED
    BY <1>6, <2>1, Zenon
<1>9. \A i \in 0..L : K[i] \in A
  <2>1. \A i \in 1..L : K[i - 1] \in A => K[i] \in A
    <3> HIDE DEF A, step
    <3> QED
      BY <1>2, <1>8
  <2> HIDE DEF A, L, step
  <2> QED
    BY <1>1, <1>8, <2>1, Stepwise
<1>10. Keeps(K, s, x, S)
  <2>1. K = [i \in 0..L |-> K[i]]
    BY <1>6
  <2>2. K \in [0..L -> A]
    <3> HIDE DEF A, L
    <3> QED
      BY <1>9, <2>1
  <2> QED
    BY <1>8, <2>2 DEF Keeps
<1> QED
  BY <1>7, <1>10
(***************************************************************************)
(* Nothing of the alphabet of s but x is lost.                             *)
(***************************************************************************)
LEMMA WithoutType ==
  ASSUME NEW S, NEW s \in Seq(S), NEW x
  PROVE  Without(s, x) \in Seq(S \ {x})
<1>1. PICK f : Keeps(f, s, x, S) /\ Without(s, x) = f[Len(s)]
  BY WithoutKeeps
<1>2. Len(s) \in 0..Len(s)
  OBVIOUS
<1> QED
  BY <1>1, <1>2 DEF Keeps

(***************************************************************************)
(* An x put into s changes nothing when x is left out.                     *)
(***************************************************************************)
LEMMA InsertedElements ==
  ASSUME NEW S, NEW s \in Seq(S), NEW x \in S, NEW k \in 1..(Len(s) + 1)
  PROVE  /\ InsertAt(s, k, x) \in Seq(S)
         /\ Len(InsertAt(s, k, x)) = Len(s) + 1
         /\ InsertAt(s, k, x)[k] = x
         /\ \A i \in 1..Len(s) : InsertAt(s, k, x)[IF i < k THEN i ELSE i + 1] = s[i]
<1> DEFINE a == SubSeq(s, 1, k - 1)
           b == SubSeq(s, k, Len(s))
<1>1. k \in Nat /\ Len(s) \in Nat /\ 1 <= k /\ k <= Len(s) + 1
  OBVIOUS
<1>2. a \in Seq(S) /\ Len(a) = k - 1 /\ \A i \in 1..(k - 1) : a[i] = s[i]
  BY <1>1
<1>3. b \in Seq(S) /\ Len(b) = Len(s) + 1 - k /\ \A i \in 1..(Len(s) + 1 - k) : b[i] = s[k + i - 1]
  <2>1. CASE k = Len(s) + 1
    <3>1. b = <<>>
      BY <1>1, <2>1
    <3> QED
      BY <1>1, <2>1, <3>1
  <2>2. CASE k <= Len(s)
    BY <1>1, <2>2
  <2> QED
    BY <1>1, <2>1, <2>2
<1> DEFINE c == a \o <<x>>
<1>4. c \in Seq(S) /\ Len(c) = k /\ (\A i \in 1..(k - 1) : c[i] = s[i]) /\ c[k] = x
  <2> HIDE DEF a
  <2>1. <<x>> \in Seq(S) /\ Len(<<x>>) = 1 /\ <<x>>[1] = x
    OBVIOUS
  <2>2. /\ c \in Seq(S) /\ Len(c) = Len(a) + Len(<<x>>)
        /\ \A i \in 1..(Len(a) + Len(<<x>>)) : c[i] = IF i <= Len(a) THEN a[i] ELSE <<x>>[i - Len(a)]
    BY <1>2, <2>1, ConcatProperties
  <2> QED
    BY <1>1, <1>2, <2>1, <2>2
<1> DEFINE d == c \o b
<1>5. d = InsertAt(s, k, x)
  BY DEF InsertAt
<1>6. /\ d \in Seq(S) /\ Len(d) = Len(c) + Len(b)
      /\ \A i \in 1..(Len(c) + Len(b)) : d[i] = IF i <= Len(c) THEN c[i] ELSE b[i - Len(c)]
  <2> HIDE DEF c, b
  <2> QED
    BY <1>3, <1>4, ConcatProperties
<1> HIDE DEF a, b, c, d
<1>7. d[k] = x
  BY <1>1, <1>3, <1>4, <1>6
<1>8. ASSUME NEW i \in 1..Len(s) PROVE d[IF i < k THEN i ELSE i + 1] = s[i]
  <2>1. CASE i < k
    BY <1>1, <1>3, <1>4, <1>6, <2>1
  <2>2. CASE ~ (i < k)
    <3>1. i + 1 \in 1..(Len(c) + Len(b)) /\ i + 1 > Len(c) /\ i + 1 - k \in 1..(Len(s) + 1 - k)
      BY <1>1, <1>3, <1>4, <2>2
    <3>2. d[i + 1] = b[i + 1 - k]
      BY <1>1, <1>3, <1>4, <1>6, <3>1
    <3>3. b[i + 1 - k] = s[k + (i + 1 - k) - 1]
      BY <1>1, <1>3, <3>1
    <3> QED
      BY <1>1, <2>2, <3>2, <3>3
  <2> QED
    BY <2>1, <2>2
<1> QED
  BY <1>1, <1>3, <1>4, <1>5, <1>6, <1>7, <1>8

LEMMA WithoutInserted ==
  ASSUME NEW S, NEW s \in Seq(S), NEW x \in S, NEW k \in 1..(Len(s) + 1)
  PROVE  Without(InsertAt(s, k, x), x) = Without(s, x)
<1> DEFINE t == InsertAt(s, k, x)
           at(i) == IF i < k THEN i ELSE i + 1
<1>1. /\ t \in Seq(S) /\ Len(t) = Len(s) + 1 /\ t[k] = x
      /\ \A i \in 1..Len(s) : t[at(i)] = s[i]
  BY InsertedElements
<1> HIDE DEF t
<1>2. PICK f : Keeps(f, s, x, S) /\ Without(s, x) = f[Len(s)]
  BY WithoutKeeps
<1>3. PICK g : Keeps(g, t, x, S) /\ Without(t, x) = g[Len(t)]
  BY <1>1, WithoutKeeps
<1>4. k \in 1..(Len(s) + 1) /\ Len(s) \in Nat
  OBVIOUS
<1>5. f[0] = <<>> /\ \A i \in 1..Len(s) : f[i] = IF s[i] = x THEN f[i - 1] ELSE Append(f[i - 1], s[i])
  BY <1>2 DEF Keeps
<1>6. g[0] = <<>> /\ \A i \in 1..(Len(s) + 1) : g[i] = IF t[i] = x THEN g[i - 1] ELSE Append(g[i - 1], t[i])
  BY <1>1, <1>3 DEF Keeps
<1>7. g[k] = g[k - 1]
  BY <1>1, <1>4, <1>6
<1> DEFINE same == [i \in 0..Len(s) |-> IF g[at(i)] = f[i] THEN 1 ELSE 0]
           One == {1}
<1>8. \A i \in 0..Len(s) : g[at(i)] = f[i]
  <2>0. \A i \in 0..Len(s) : same[i] \in One <=> g[at(i)] = f[i]
    OBVIOUS
  <2>1. 0 \in 0..Len(s) /\ g[at(0)] = f[0]
    BY <1>4, <1>5, <1>6
  <2>2. ASSUME NEW i \in 1..Len(s), g[at(i - 1)] = f[i - 1] PROVE g[at(i)] = f[i]
    <3>1. at(i) \in 1..(Len(s) + 1) /\ t[at(i)] = s[i]
      BY <1>1, <1>4
    <3>2. g[at(i) - 1] = g[at(i - 1)]
      BY <1>4, <1>7
    <3> HIDE DEF at
    <3>3. g[at(i)] = IF s[i] = x THEN g[at(i) - 1] ELSE Append(g[at(i) - 1], s[i])
      BY <1>6, <3>1
    <3> QED
      BY <1>5, <2>2, <3>2, <3>3
  <2>3. \A i \in 1..Len(s) : i \in 0..Len(s) /\ i - 1 \in 0..Len(s)
    BY <1>4
  <2> HIDE DEF same, at, One
  <2>4. same[0] \in One /\ \A i \in 1..Len(s) : same[i - 1] \in One => same[i] \in One
    <3>1. same[0] \in One
      BY <2>0, <2>1
    <3>2. ASSUME NEW i \in 1..Len(s), same[i - 1] \in One PROVE same[i] \in One
      <4>1. g[at(i - 1)] = f[i - 1]
        BY <2>0, <2>3, <3>2
      <4>2. g[at(i)] = f[i]
        BY <2>2, <4>1
      <4> QED
        BY <2>0, <2>3, <4>2
    <3> QED
      BY <3>1, <3>2
  <2>5. \A i \in 0..Len(s) : same[i] \in One
    BY <1>4, <2>4, Stepwise
  <2> QED
    BY <2>0, <2>5
<1>9. g[at(Len(s))] = f[Len(s)]
  <2>1. Len(s) \in 0..Len(s)
    BY <1>4
  <2> HIDE DEF at
  <2> QED
    BY <1>8, <2>1
<1>10. g[Len(s) + 1] = g[at(Len(s))]
  BY <1>4, <1>7
<1>11. Without(t, x) = Without(s, x)
  BY <1>1, <1>2, <1>3, <1>9, <1>10
<1> QED
  BY <1>11 DEF t
(***************************************************************************)
(* removeDupes returns a path.                                             *)
(***************************************************************************)
LEMMA DupesType ==
  ASSUME NEW S, NEW path \in Seq(S)
  PROVE  removeDupes(path) \in Seq(S)
<1> DEFINE L == Len(path)
           A == Seq(S)
           step(i, ret) == IF ret # <<>> /\ IsSuffix(path[i], Last(ret)) THEN ret ELSE Append(ret, path[i])
           op == [i \in 1..L |-> [ret \in A |-> step(i, ret)]]
           K == CHOOSE ret : ret = [i \in 0..Len(path) |-> IF i = 0 THEN <<>> ELSE
                  IF ret[i - 1] # <<>> /\ IsSuffix(path[i], Last(ret[i - 1])) THEN ret[i - 1]
                  ELSE Append(ret[i - 1], path[i])]
<1>1. L \in Nat /\ <<>> \in A
  OBVIOUS
<1>2. ASSUME NEW i \in 1..L, NEW ret \in A PROVE step(i, ret) \in A
  <2>1. path[i] \in S
    OBVIOUS
  <2>2. Append(ret, path[i]) \in A
    BY <2>1, AppendProperties
  <2> QED
    BY <2>2
<1>3. op \in [1..L -> [A -> A]]
  <2> HIDE DEF A, step
  <2> QED
    BY <1>2
<1>4. PICK f : FoldsUpTo(f, L, A, <<>>, op)
  <2> HIDE DEF A, L, op
  <2> QED
    BY <1>1, <1>3, IteratedFunction
<1>5. f = [i \in 0..Len(path) |-> IF i = 0 THEN <<>> ELSE
             IF f[i - 1] # <<>> /\ IsSuffix(path[i], Last(f[i - 1])) THEN f[i - 1]
             ELSE Append(f[i - 1], path[i])]
  <2>1. f \in [0..L -> A] /\ f[0] = <<>> /\ \A i \in 1..L : f[i] = op[i][f[i - 1]]
    BY <1>4 DEF FoldsUpTo
  <2>2. ASSUME NEW i \in 1..L PROVE f[i] = step(i, f[i - 1])
    <3>1. i - 1 \in 0..L
      BY <1>1
    <3>2. f[i - 1] \in A /\ f[i] = op[i][f[i - 1]]
      <4> HIDE DEF A, L, op
      <4> QED
        BY <2>1, <3>1
    <3> HIDE DEF A, L, step
    <3> QED
      BY <3>2
  <2>3. ASSUME NEW i \in 0..L
        PROVE  f[i] = IF i = 0 THEN <<>> ELSE step(i, f[i - 1])
    <3>1. i = 0 \/ i \in 1..L
      BY <1>1
    <3> HIDE DEF step, A, L, op
    <3> QED
      BY <2>1, <2>2, <3>1
  <2>4. f = [i \in 0..L |-> f[i]]
    <3> HIDE DEF A, L, op
    <3> QED
      BY <2>1
  <2> QED
    BY <2>3, <2>4, Zenon
<1>6. K = [i \in 0..Len(path) |-> IF i = 0 THEN <<>> ELSE
             IF K[i - 1] # <<>> /\ IsSuffix(path[i], Last(K[i - 1])) THEN K[i - 1]
             ELSE Append(K[i - 1], path[i])]
  BY <1>5, Zenon
<1>7. removeDupes(path) = K[Len(path)]
  BY Zenon DEF removeDupes
<1> HIDE DEF K
<1>8. K[0] = <<>> /\ \A i \in 1..L : K[i] = step(i, K[i - 1])
  <2>1. 0 \in 0..Len(path) /\ \A i \in 1..L : i \in 0..Len(path) /\ i # 0
    BY <1>1
  <2> QED
    BY <1>6, <2>1, Zenon
<1>9. \A i \in 0..L : K[i] \in A
  <2>1. \A i \in 1..L : K[i - 1] \in A => K[i] \in A
    <3> HIDE DEF A, step
    <3> QED
      BY <1>2, <1>8
  <2> HIDE DEF A, L, step
  <2> QED
    BY <1>1, <1>8, <2>1, Stepwise
<1> QED
  BY <1>1, <1>7, <1>9

(***************************************************************************)
(* Sequences over S, end to end, are one.                                  *)
(***************************************************************************)
LEMMA FlattenType ==
  ASSUME NEW S, NEW seqs \in Seq(Seq(S))
  PROVE  FlattenSeq(seqs) \in Seq(S)
<1> DEFINE L == Len(seqs)
           A == Seq(S)
           op == [i \in 1..L |-> [acc \in A |-> acc \o seqs[i]]]
           K == CHOOSE flatten : flatten = [i \in 1..Len(seqs) |->
                  IF i = 1 THEN seqs[i] ELSE flatten[i - 1] \o seqs[i]]
<1>1. L \in Nat /\ <<>> \in A /\ \A i \in 1..L : seqs[i] \in A
  OBVIOUS
<1>2. CASE L = 0
  <2>1. seqs = <<>>
    BY <1>2
  <2> QED
    BY <1>2, <2>1 DEF FlattenSeq
<1>3. CASE L # 0
  <2>1. ASSUME NEW i \in 1..L, NEW acc \in A PROVE acc \o seqs[i] \in A
    BY <1>1, ConcatProperties
  <2>2. op \in [1..L -> [A -> A]]
    <3> HIDE DEF A
    <3> QED
      BY <2>1
  <2>3. PICK f : FoldsUpTo(f, L, A, <<>>, op)
    <3> HIDE DEF A, L, op
    <3> QED
      BY <1>1, <2>2, IteratedFunction
  <2>4. f \in [0..L -> A] /\ f[0] = <<>> /\ \A i \in 1..L : f[i] = op[i][f[i - 1]]
    BY <2>3 DEF FoldsUpTo
  <2>5. ASSUME NEW i \in 1..L PROVE f[i] = f[i - 1] \o seqs[i]
    <3>1. i - 1 \in 0..L
      BY <1>1
    <3>2. f[i - 1] \in A /\ f[i] = op[i][f[i - 1]]
      <4> HIDE DEF A, L, op
      <4> QED
        BY <2>4, <3>1
    <3> HIDE DEF A, L
    <3> QED
      BY <3>2
  <2>6. f[1] = seqs[1]
    <3>1. 1 \in 1..L /\ f[1] = f[0] \o seqs[1]
      <4>1. 1 \in 1..L /\ 1 - 1 = 0
        BY <1>1, <1>3
      <4> HIDE DEF A, L, op
      <4> QED
        BY <2>5, <4>1
    <3> QED
      BY <1>1, <2>4, <3>1, ConcatEmptySeq
  <2> DEFINE g == [i \in 1..L |-> f[i]]
  <2>7. g = [i \in 1..Len(seqs) |-> IF i = 1 THEN seqs[i] ELSE g[i - 1] \o seqs[i]]
    <3>1. ASSUME NEW i \in 1..L PROVE g[i] = IF i = 1 THEN seqs[i] ELSE g[i - 1] \o seqs[i]
      <4>1. CASE i = 1
        BY <2>6, <4>1
      <4>2. CASE i # 1
        <5>1. i - 1 \in 1..L
          BY <1>1, <4>2
        <5> HIDE DEF A, L, op
        <5> QED
          BY <2>5, <4>2, <5>1
      <4> QED
        BY <4>1, <4>2
    <3>2. g = [i \in 1..L |-> g[i]]
      OBVIOUS
    <3> HIDE DEF g
    <3> QED
      BY <3>1, <3>2, Zenon
  <2>8. K = [i \in 1..Len(seqs) |-> IF i = 1 THEN seqs[i] ELSE K[i - 1] \o seqs[i]]
    BY <2>7, Zenon
  <2>9. FlattenSeq(seqs) = K[Len(seqs)]
    BY <1>3, Zenon DEF FlattenSeq
  <2> HIDE DEF K
  <2>10. ASSUME NEW i \in 1..L PROVE K[i] = IF i = 1 THEN seqs[i] ELSE K[i - 1] \o seqs[i]
    BY <2>8, Zenon
  <2> DEFINE h == [i \in 0..L |-> IF i = 0 THEN <<>> ELSE K[i]]
  <2>11. h[0] \in A /\ \A i \in 1..L : h[i - 1] \in A => h[i] \in A
    <3>1. ASSUME NEW i \in 1..L, h[i - 1] \in A PROVE h[i] \in A
      <4>1. i \in 0..L /\ i - 1 \in 0..L /\ i # 0 /\ h[i] = K[i]
        BY <1>1
      <4>2. CASE i = 1
        <5>1. K[i] = seqs[i] /\ seqs[i] \in A
          <6> HIDE DEF A, L, h
          <6> QED
            BY <1>1, <2>10, <4>2
        <5> HIDE DEF A, h
        <5> QED
          BY <4>1, <5>1
      <4>3. CASE i # 1
        <5>1. h[i - 1] = K[i - 1]
          BY <1>1, <4>3
        <5>2. K[i] = K[i - 1] \o seqs[i]
          BY <2>10, <4>3
        <5> HIDE DEF A, h, L
        <5> QED
          BY <2>1, <3>1, <4>1, <5>1, <5>2
      <4> QED
        BY <4>2, <4>3
    <3>2. 0 \in 0..L /\ h[0] = <<>>
      BY <1>1
    <3> HIDE DEF A, h, L
    <3> QED
      BY <1>1, <3>1, <3>2
  <2>12. \A i \in 0..L : h[i] \in A
    <3> HIDE DEF A, L, h
    <3> QED
      BY <1>1, <2>11, Stepwise
  <2>13. L \in 0..L /\ h[L] = K[Len(seqs)]
    BY <1>1, <1>3
  <2> HIDE DEF h
  <2> QED
    BY <2>9, <2>12, <2>13
<1> QED
  BY <1>2, <1>3

(***************************************************************************)
(* A logical id has nothing of what sets a suffix off.                     *)
(***************************************************************************)
Alphanumeric == STRING \ {"-"}

LEMMA IdType ==
  ASSUME MaxHumanLen \in Nat, NEW path \in Seq(Seq(STRING))
  PROVE  makeUniqueId(path) \in Seq(Alphanumeric)
<1> DEFINE p == removeDupes(Without(path, HiddenId))
           visible == Without(p, HiddenFromHumanId)
           parts == [i \in DOMAIN visible |-> removeNonAlphanumeric(visible[i])]
           text == FlattenSeq(parts)
           n == IF Len(text) < MaxHumanLen THEN Len(text) ELSE MaxHumanLen
<1>1. Without(path, HiddenId) \in Seq(Seq(STRING))
  <2> DEFINE C == Seq(STRING)
  <2>1. Without(path, HiddenId) \in Seq(C \ {HiddenId})
    <3> HIDE DEF C
    <3> QED
      BY WithoutType DEF C
  <2> QED
    BY <2>1
<1>2. p \in Seq(Seq(STRING))
  BY <1>1, DupesType
<1> HIDE DEF p
<1>3. visible \in Seq(Seq(STRING))
  <2> DEFINE C == Seq(STRING)
  <2>1. visible \in Seq(C \ {HiddenFromHumanId})
    BY <1>2, WithoutType
  <2> QED
    BY <2>1
<1> HIDE DEF visible
<1>4. parts \in Seq(Seq(Alphanumeric))
  <2>1. ASSUME NEW i \in 1..Len(visible) PROVE removeNonAlphanumeric(visible[i]) \in Seq(Alphanumeric)
    <3>1. visible[i] \in Seq(STRING)
      BY <1>3
    <3> QED
      BY <3>1, WithoutType DEF removeNonAlphanumeric, Alphanumeric
  <2>2. DOMAIN visible = 1..Len(visible) /\ Len(visible) \in Nat
    BY <1>3
  <2> DEFINE B == Seq(Alphanumeric)
  <2>3. parts \in Seq(B)
    <3> HIDE DEF B
    <3> QED
      BY <2>1, <2>2, IsASeq DEF B
  <2> QED
    BY <2>3
<1> HIDE DEF parts
<1>5. text \in Seq(Alphanumeric)
  BY <1>4, FlattenType
<1> HIDE DEF text
<1>6. SubSeq(text, 1, n) \in Seq(Alphanumeric)
  BY <1>5, SubSeqProperties
<1>7. makeUniqueId(path) = SubSeq(text, 1, n)
  BY DEF makeUniqueId, Human, p, visible, parts, text
<1> QED
  BY <1>6, <1>7
-----------------------------------------------------------------------------
(***************************************************************************)
(* STRING, and the strings of suffixes, which the provers do not know to   *)
(* be elements of it.                                                      *)
(***************************************************************************)
Text == STRING \cup {"-", "policy", "group", "role", "user"}

IdSuffixes == {t \in Seq(Text) : t = <<>> \/ t[1] = "-"}

LEMMA TextSeq ==
  /\ Seq(STRING) \subseteq Seq(Text) /\ Seq(Alphanumeric) \subseteq Seq(Text)
  /\ \A t : IsSuffixOfId(t) => t \in IdSuffixes
<1>1. STRING \subseteq Text /\ Alphanumeric \subseteq Text
  BY DEF Text, Alphanumeric
<1>2. Seq(STRING) \subseteq Seq(Text) /\ Seq(Alphanumeric) \subseteq Seq(Text)
  BY <1>1, SeqMonotonic
<1> QED
  BY <1>2 DEF IsSuffixOfId, IdSuffixes

(***************************************************************************)
(* An id of alphanumeric characters ends where its suffix begins.          *)
(***************************************************************************)
LEMMA SuffixesApart ==
  ASSUME NEW id \in Seq(Alphanumeric), NEW q \in Seq(Alphanumeric), NEW t \in IdSuffixes, NEW u \in IdSuffixes,
         id \o t = q \o u
  PROVE  id = q /\ t = u
<1>1. /\ id \in Seq(Text) /\ q \in Seq(Text) /\ t \in Seq(Text) /\ u \in Seq(Text)
      /\ \A i \in 1..Len(id) : id[i] # "-"
      /\ \A i \in 1..Len(q) : q[i] # "-"
  BY TextSeq DEF Alphanumeric, IdSuffixes
<1>2. /\ Len(id \o t) = Len(id) + Len(t) /\ Len(q \o u) = Len(q) + Len(u)
      /\ \A i \in 1..(Len(id) + Len(t)) : (id \o t)[i] = IF i <= Len(id) THEN id[i] ELSE t[i - Len(id)]
      /\ \A i \in 1..(Len(q) + Len(u)) : (q \o u)[i] = IF i <= Len(q) THEN q[i] ELSE u[i - Len(q)]
  BY <1>1, ConcatProperties
<1> DEFINE a == Len(id)
           b == Len(q)
<1>3. a \in Nat /\ b \in Nat /\ Len(t) \in Nat /\ Len(u) \in Nat /\ a + Len(t) = b + Len(u)
  BY <1>1, <1>2
<1>4. (t = <<>> /\ Len(t) = 0) \/ (Len(t) >= 1 /\ t[1] = "-")
  BY <1>1 DEF IdSuffixes
<1>5. (u = <<>> /\ Len(u) = 0) \/ (Len(u) >= 1 /\ u[1] = "-")
  BY <1>1 DEF IdSuffixes
<1>6. ~ (a < b)
  <2> SUFFICES ASSUME a < b PROVE FALSE
    OBVIOUS
  <2>1. Len(t) >= 1 /\ t[1] = "-"
    BY <1>3, <1>4
  <2>2. (id \o t)[a + 1] = t[1]
    BY <1>2, <1>3, <2>1
  <2>3. (q \o u)[a + 1] = q[a + 1] /\ q[a + 1] # "-"
    BY <1>1, <1>2, <1>3
  <2> QED
    BY <2>1, <2>2, <2>3
<1>7. ~ (b < a)
  <2> SUFFICES ASSUME b < a PROVE FALSE
    OBVIOUS
  <2>1. Len(u) >= 1 /\ u[1] = "-"
    BY <1>3, <1>5
  <2>2. (q \o u)[b + 1] = u[1]
    BY <1>2, <1>3, <2>1
  <2>3. (id \o t)[b + 1] = id[b + 1] /\ id[b + 1] # "-"
    BY <1>1, <1>2, <1>3
  <2> QED
    BY <2>1, <2>2, <2>3
<1>8. a = b /\ Len(t) = Len(u)
  BY <1>3, <1>6, <1>7
<1>9. id = q
  <2>1. \A i \in 1..Len(id) : id[i] = q[i]
    BY <1>2, <1>3, <1>8
  <2> QED
    BY <1>1, <1>8, <2>1, SeqEqual
<1>10. t = u
  BY <1>1, <1>9, ConcatSimplifications
<1> QED
  BY <1>9, <1>10

LEMMA FunctionIsSequence ==
  ASSUME NEW n \in Nat, NEW m, m = [i \in 1..n |-> m[i]]
  PROVE  IsSequence(m) /\ Len(m) = n /\ m \in Seq({m[i] : i \in 1..n})
<1> DEFINE S == {m[i] : i \in 1..n}
<1>1. \A i \in 1..n : m[i] \in S
  OBVIOUS
<1> HIDE DEF S
<1>2. m \in [1..n -> S]
  BY <1>1
<1>3. m \in Seq(S) /\ Len(m) = n
  BY <1>2
<1> QED
  BY <1>3 DEF S, IsSequence

(***************************************************************************)
(* Resources called id and a suffix of T each, no two alike; and none of a *)
(* type that is lower-cased.                                               *)
(***************************************************************************)
Named(m, id, T) ==
  /\ IsSequence(m)
  /\ \A j \in DOMAIN m : /\ m[j].type \notin LowerCased
                         /\ m[j].name = m[j].logicalId
                         /\ \E t \in T : m[j].logicalId = id \o t
  /\ \A j, k \in DOMAIN m : m[j].logicalId = m[k].logicalId => j = k

LEMMA NamedTogether ==
  ASSUME NEW id \in Seq(Text), NEW T \in SUBSET Seq(Text), NEW U \in SUBSET Seq(Text), T \cap U = {},
         NEW m, NEW n, Named(m, id, T), Named(n, id, U)
  PROVE  Named(m \o n, id, T \cup U)
<1> DEFINE a == Len(m)
           b == Len(n)
           S == {m[i] : i \in 1..a} \cup {n[i] : i \in 1..b}
           c == m \o n
<1>1. a \in Nat /\ m = [i \in 1..a |-> m[i]] /\ b \in Nat /\ n = [i \in 1..b |-> n[i]]
  BY DEF Named, IsSequence
<1>2. m \in Seq(S) /\ n \in Seq(S)
  <2>1. m \in Seq({m[i] : i \in 1..a}) /\ n \in Seq({n[i] : i \in 1..b})
    <3> HIDE DEF a, b
    <3> QED
      BY <1>1, FunctionIsSequence
  <2> QED
    BY <2>1, SeqMonotonic
<1>3. /\ c \in Seq(S) /\ Len(c) = a + b
      /\ \A i \in 1..(a + b) : c[i] = IF i <= a THEN m[i] ELSE n[i - a]
  <2> HIDE DEF S
  <2> QED
    BY <1>2, ConcatProperties
<1> HIDE DEF S, c, a, b
<1>4. IsSequence(c) /\ DOMAIN c = 1..(a + b)
  BY <1>1, <1>3 DEF IsSequence
<1>5. ASSUME NEW i \in DOMAIN c
      PROVE  \/ i \in DOMAIN m /\ c[i] = m[i]
             \/ i - a \in DOMAIN n /\ c[i] = n[i - a] /\ i \notin DOMAIN m
  BY <1>1, <1>3, <1>4
<1>6. ASSUME NEW i \in DOMAIN m, NEW j \in DOMAIN n PROVE m[i].logicalId # n[j].logicalId
  <2>1. PICK t \in T : m[i].logicalId = id \o t
    BY DEF Named
  <2>2. PICK u \in U : n[j].logicalId = id \o u
    BY DEF Named
  <2>3. t # u /\ t \in Seq(Text) /\ u \in Seq(Text)
    OBVIOUS
  <2> QED
    BY <2>1, <2>2, <2>3, ConcatSimplifications
<1>7. ASSUME NEW i \in DOMAIN c
      PROVE  /\ c[i].type \notin LowerCased
             /\ c[i].name = c[i].logicalId
             /\ \E t \in T \cup U : c[i].logicalId = id \o t
  <2>1. CASE i \in DOMAIN m /\ c[i] = m[i]
    BY <2>1 DEF Named
  <2>2. CASE i - a \in DOMAIN n /\ c[i] = n[i - a]
    <3>1. PICK k \in DOMAIN n : c[i] = n[k]
      BY <2>2
    <3>2. n[k].type \notin LowerCased /\ n[k].name = n[k].logicalId /\ \E t \in U : n[k].logicalId = id \o t
      BY DEF Named
    <3> QED
      BY <3>1, <3>2
  <2> QED
    BY <1>5, <2>1, <2>2
<1>8. ASSUME NEW i \in DOMAIN c, NEW j \in DOMAIN c, c[i].logicalId = c[j].logicalId PROVE i = j
  <2>1. CASE i \in DOMAIN m /\ c[i] = m[i] /\ j \in DOMAIN m /\ c[j] = m[j]
    BY <1>8, <2>1 DEF Named
  <2>2. CASE i - a \in DOMAIN n /\ c[i] = n[i - a] /\ j - a \in DOMAIN n /\ c[j] = n[j - a]
    <3>1. i - a = j - a
      BY <1>8, <2>2 DEF Named
    <3>2. i \in Nat /\ j \in Nat
      BY <1>4
    <3> QED
      BY <1>1, <3>1, <3>2
  <2> QED
    BY <1>5, <1>6, <1>8, <2>1, <2>2
<1>9. Named(c, id, T \cup U)
  BY <1>4, <1>7, <1>8 DEF Named
<1> QED
  BY <1>9 DEF c
Numbered(kind) == {<<"-", kind, "-", x>> : x \in STRING}

LEMMA NamedMore ==
  ASSUME NEW m, NEW id, NEW T, NEW U, T \subseteq U, Named(m, id, T)
  PROVE  Named(m, id, U)
<1>1. ASSUME NEW j \in DOMAIN m PROVE \E t \in U : m[j].logicalId = id \o t
  <2>1. PICK t \in T : m[j].logicalId = id \o t
    BY DEF Named
  <2> QED
    BY <2>1
<1> QED
  BY <1>1 DEF Named

LEMMA NumberedSuffixes ==
  ASSUME NEW kind \in Text
  PROVE  Numbered(kind) \subseteq IdSuffixes /\ <<>> \notin Numbered(kind)
<1>1. ASSUME NEW x \in STRING
      PROVE  <<"-", kind, "-", x>> \in Seq(Text) /\ <<"-", kind, "-", x>>[1] = "-" /\ <<"-", kind, "-", x>> # <<>>
  <2>1. "-" \in Text /\ x \in Text
    BY DEF Text
  <2> QED
    BY <2>1
<1> QED
  BY <1>1 DEF Numbered, IdSuffixes

LEMMA NothingNamed ==
  ASSUME NEW id, NEW T
  PROVE  Named(Refused, id, T)
<1>1. Len(<<>>) = 0 /\ DOMAIN <<>> = {} /\ <<>> = [i \in 1..0 |-> <<>>[i]]
  OBVIOUS
<1>2. IsSequence(Refused) /\ DOMAIN Refused = {}
  BY <1>1 DEF Refused, IsSequence
<1> QED
  BY <1>2 DEF Named

LEMMA OnlyNamed ==
  ASSUME NEW id \in Seq(Text), NEW r, r.logicalId = id, r.name = id, r.type \notin LowerCased
  PROVE  Named(Only(r), id, {<<>>})
<1>1. IsSequence(Only(r)) /\ DOMAIN Only(r) = {1} /\ Only(r)[1] = r
  BY DEF Only, IsSequence
<1>2. id \o <<>> = id
  BY ConcatEmptySeq
<1> QED
  BY <1>1, <1>2 DEF Named

(***************************************************************************)
(* Each of the numerals gives a name of its own.                           *)
(***************************************************************************)
LEMMA NumeralNames ==
  ASSUME NumeralsDiffer, NEW id \in Seq(Text), NEW kind \in Text
  PROVE  /\ \A i \in 1..Len(Numerals) : /\ <<"-", kind, "-", Numerals[i]>> \in Numbered(kind)
                                        /\ WithSuffix(id, kind, i) = id \o <<"-", kind, "-", Numerals[i]>>
         /\ \A i, j \in 1..Len(Numerals) : WithSuffix(id, kind, i) = WithSuffix(id, kind, j) => i = j
         /\ \A i \in 1..Len(Numerals) : WithSuffix(id, kind, i) # id
<1>1. Numerals \in Seq(STRING) /\ DOMAIN Numerals = 1..Len(Numerals)
  BY DEF NumeralsDiffer
<1>2. \A i \in 1..Len(Numerals) : Numerals[i] \in STRING
  BY <1>1
<1>3. ASSUME NEW i \in 1..Len(Numerals)
      PROVE  <<"-", kind, "-", Numerals[i]>> \in Seq(Text) /\ <<"-", kind, "-", Numerals[i]>> # <<>>
  <2>1. "-" \in Text /\ Numerals[i] \in Text
    BY <1>2 DEF Text
  <2> QED
    BY <2>1
<1>4. ASSUME NEW i \in 1..Len(Numerals), NEW j \in 1..Len(Numerals), WithSuffix(id, kind, i) = WithSuffix(id, kind, j)
      PROVE  i = j
  <2>1. <<"-", kind, "-", Numerals[i]>> = <<"-", kind, "-", Numerals[j]>>
    BY <1>3, <1>4, ConcatSimplifications DEF WithSuffix
  <2>2. Numerals[i] = Numerals[j]
    BY <2>1
  <2> QED
    BY <1>1, <2>2 DEF NumeralsDiffer, Distinct
<1>5. ASSUME NEW i \in 1..Len(Numerals) PROVE WithSuffix(id, kind, i) # id
  BY <1>3, ConcatSimplifications DEF WithSuffix
<1> QED
  BY <1>2, <1>4, <1>5 DEF Numbered, WithSuffix

Countable(items) == IsSequence(items) /\ Len(items) <= Len(Numerals)

LEMMA CountableDomain ==
  ASSUME NumeralsDiffer, NEW items, Countable(items)
  PROVE  Len(items) \in Nat /\ DOMAIN items = 1..Len(items) /\ DOMAIN items \subseteq 1..Len(Numerals)
<1>1. Len(items) \in Nat /\ items = [i \in 1..Len(items) |-> items[i]]
  BY DEF Countable, IsSequence
<1>2. DOMAIN items = 1..Len(items)
  BY <1>1
<1>3. Len(Numerals) \in Nat /\ Len(items) <= Len(Numerals)
  BY DEF NumeralsDiffer, Countable
<1> QED
  BY <1>1, <1>2, <1>3

LEMMA AttachmentsNamed ==
  ASSUME NumeralsDiffer, NEW id \in Seq(Text), NEW kind \in Text \ LowerCased, NEW targets, Countable(targets.items)
  PROVE  Named(attachments(id, kind, targets), id, Numbered(kind))
<1> DEFINE m == attachments(id, kind, targets)
           n == Len(targets.items)
<1>1. n \in Nat /\ DOMAIN targets.items = 1..n /\ 1..n \subseteq 1..Len(Numerals)
  BY CountableDomain
<1>2. /\ m = [i \in 1..n |-> m[i]]
      /\ \A i \in 1..n : /\ m[i].logicalId = WithSuffix(id, kind, i)
                         /\ m[i].name = WithSuffix(id, kind, i)
                         /\ m[i].type = kind
  BY <1>1 DEF attachments, Mapped
<1> HIDE DEF m, n
<1>3. IsSequence(m) /\ DOMAIN m = 1..n
  BY <1>1, <1>2, FunctionIsSequence
<1>4. ASSUME NEW i \in 1..n PROVE \E t \in Numbered(kind) : m[i].logicalId = id \o t
  <2> DEFINE t == <<"-", kind, "-", Numerals[i]>>
  <2>1. i \in 1..Len(Numerals)
    BY <1>1
  <2>2. t \in Numbered(kind) /\ WithSuffix(id, kind, i) = id \o t
    BY <2>1, NumeralNames
  <2> QED
    BY <1>2, <2>2
<1>5. ASSUME NEW i \in 1..n, NEW j \in 1..n, m[i].logicalId = m[j].logicalId PROVE i = j
  BY <1>1, <1>2, <1>5, NumeralNames
<1>6. Named(m, id, Numbered(kind))
  BY <1>2, <1>3, <1>4, <1>5 DEF Named
<1> QED
  BY <1>6 DEF m

LEMMA PoliciesNamed ==
  ASSUME NumeralsDiffer, NEW id \in Seq(Text), NEW type, type \notin LowerCased, NEW document, NEW targets,
         Countable(targets.items)
  PROVE  Named(policies(id, type, document, targets), id, IdSuffixes)
<1> DEFINE m == policies(id, type, document, targets)
           n == Len(targets.items)
<1>1. n \in Nat /\ DOMAIN targets.items = 1..n /\ 1..n \subseteq 1..Len(Numerals)
  BY CountableDomain
<1>2. CASE targets.kind # "list"
  BY <1>2, NothingNamed DEF policies
<1>3. CASE targets.kind = "list"
  <2> DEFINE name(i) == IF i = 1 THEN id ELSE WithSuffix(id, "policy", i)
  <2>1. /\ m = [i \in 1..n |-> m[i]]
        /\ \A i \in 1..n : m[i].logicalId = name(i) /\ m[i].name = name(i) /\ m[i].type = type
    BY <1>1, <1>3 DEF policies, Mapped
  <2> HIDE DEF m, n
  <2>2. IsSequence(m) /\ DOMAIN m = 1..n
    BY <1>1, <2>1, FunctionIsSequence
  <2>3. "policy" \in Text /\ Numbered("policy") \subseteq IdSuffixes
    BY NumberedSuffixes DEF Text
  <2>4. ASSUME NEW i \in 1..n PROVE \E t \in IdSuffixes : name(i) = id \o t
    <3>1. CASE i = 1
      <4>1. id = id \o <<>> /\ <<>> \in IdSuffixes
        BY ConcatEmptySeq DEF IdSuffixes
      <4> QED
        BY <3>1, <4>1
    <3>2. CASE i # 1
      <4> DEFINE t == <<"-", "policy", "-", Numerals[i]>>
      <4>1. i \in 1..Len(Numerals)
        BY <1>1
      <4>2. t \in Numbered("policy") /\ WithSuffix(id, "policy", i) = id \o t
        BY <2>3, <4>1, NumeralNames
      <4> QED
        BY <2>3, <3>2, <4>2
    <3> QED
      BY <3>1, <3>2
  <2>5. ASSUME NEW i \in 1..n, NEW j \in 1..n, name(i) = name(j) PROVE i = j
    BY <1>1, <2>3, <2>5, NumeralNames
  <2> HIDE DEF name
  <2>6. Named(m, id, IdSuffixes)
    <3>1. ASSUME NEW i \in DOMAIN m
          PROVE  /\ m[i].type \notin LowerCased /\ m[i].name = m[i].logicalId
                 /\ \E t \in IdSuffixes : m[i].logicalId = id \o t
      BY <2>1, <2>2, <2>4
    <3>2. ASSUME NEW i \in DOMAIN m, NEW j \in DOMAIN m, m[i].logicalId = m[j].logicalId PROVE i = j
      BY <2>1, <2>2, <2>5, <3>2
    <3> QED
      BY <2>2, <3>1, <3>2, Zenon DEF Named
  <2> QED
    BY <2>6 DEF m
<1> QED
  BY <1>2, <1>3

LEMMA IamNamed ==
  ASSUME NumeralsDiffer, NEW id \in Seq(Text), NEW raw, NEW props,
         \A k \in {Groups, Roles, Users} : Countable(Get(props, toSdkName(k)).items)
  PROVE  Named(iamPolicy(id, raw, props), id, IdSuffixes)
<1> DEFINE r == Mapped(id, "policy", Object(<<Field(<<"policy">>, Get(raw, PolicyDocument))>>))
           at(kind, k) == attachments(id, kind, Get(props, toSdkName(k)))
<1>1. Named(Only(r), id, {<<>>})
  <2>1. r.logicalId = id /\ r.name = id /\ r.type = "policy" /\ "policy" \notin LowerCased
    BY DEF Mapped, LowerCased
  <2> HIDE DEF r
  <2> QED
    BY <2>1, OnlyNamed
<1>2. ASSUME NEW kind \in {"group", "role", "user"} PROVE kind \in Text \ LowerCased
  BY DEF Text, LowerCased
<1>3. /\ Named(at("group", Groups), id, Numbered("group"))
      /\ Named(at("role", Roles), id, Numbered("role"))
      /\ Named(at("user", Users), id, Numbered("user"))
  BY <1>2, AttachmentsNamed
<1>4. /\ \A kind \in Text : Numbered(kind) \in SUBSET Seq(Text) /\ <<>> \notin Numbered(kind)
      /\ \A kind \in Text : Numbered(kind) \subseteq IdSuffixes
      /\ {<<>>} \in SUBSET Seq(Text) /\ {<<>>} \subseteq IdSuffixes
  BY NumberedSuffixes DEF IdSuffixes
<1>5. ASSUME NEW k \in Text, NEW l \in Text, k # l PROVE Numbered(k) \cap Numbered(l) = {}
  <2>1. ASSUME NEW x \in STRING, NEW y \in STRING PROVE <<"-", k, "-", x>> # <<"-", l, "-", y>>
    BY <1>5
  <2> QED
    BY <2>1 DEF Numbered
<1> DEFINE T1 == {<<>>} \cup Numbered("group")
           T2 == T1 \cup Numbered("role")
           T3 == T2 \cup Numbered("user")
           m1 == Only(r) \o at("group", Groups)
           m2 == m1 \o at("role", Roles)
           m3 == m2 \o at("user", Users)
<1>6. /\ {<<>>} \cap Numbered("group") = {} /\ T1 \cap Numbered("role") = {} /\ T2 \cap Numbered("user") = {}
      /\ T1 \in SUBSET Seq(Text) /\ T2 \in SUBSET Seq(Text) /\ T3 \subseteq IdSuffixes
      /\ Numbered("group") \in SUBSET Seq(Text) /\ Numbered("role") \in SUBSET Seq(Text)
      /\ Numbered("user") \in SUBSET Seq(Text)
  <2>1. /\ "group" \in Text /\ "role" \in Text /\ "user" \in Text
        /\ "group" # "role" /\ "group" # "user" /\ "role" # "user"
    BY DEF Text
  <2> QED
    BY <1>4, <1>5, <2>1
<1> HIDE DEF r, at
<1>7. Named(m1, id, T1)
  BY <1>1, <1>3, <1>4, <1>6, NamedTogether
<1> HIDE DEF m1, T1
<1>8. Named(m2, id, T2)
  BY <1>3, <1>4, <1>6, <1>7, NamedTogether
<1> HIDE DEF m2, T2
<1>9. Named(m3, id, T3)
  BY <1>3, <1>4, <1>6, <1>8, NamedTogether
<1> HIDE DEF m3, T3
<1>10. Named(m3, id, IdSuffixes)
  BY <1>6, <1>9, NamedMore
<1>11. iamPolicy(id, raw, props) \in {Refused, m3}
  BY DEF iamPolicy, m3, m2, m1, at, r
<1> QED
  BY <1>10, <1>11, NothingNamed
-----------------------------------------------------------------------------
(***************************************************************************)
(* The names that mapResource gives: suffixes of the id, or the id in      *)
(* lower case where the type wants it.                                     *)
(***************************************************************************)
NamedAfter(m, id) ==
  \/ Named(m, id, IdSuffixes)
  \/ \E r : m = Only(r) /\ r.logicalId = id /\ r.type \in LowerCased /\ r.name = Lowered(id)

LEMMA MappedNamed ==
  ASSUME NEW id \in Seq(Text), NEW type, type \notin LowerCased, NEW args
  PROVE  Named(Only(Mapped(id, type, args)), id, IdSuffixes)
<1> DEFINE r == Mapped(id, type, args)
<1>1. r.logicalId = id /\ r.name = id /\ r.type = type
  BY DEF Mapped
<1> HIDE DEF r
<1>2. Named(Only(r), id, {<<>>})
  BY <1>1, OnlyNamed
<1>3. {<<>>} \subseteq IdSuffixes
  BY DEF IdSuffixes
<1>4. Named(Only(r), id, IdSuffixes)
  BY <1>2, <1>3, NamedMore
<1> QED
  BY <1>4 DEF r

LEMMA RecordNamed ==
  ASSUME NEW id \in Seq(Text), NEW props
  PROVE  Named(recordSet(id, props), id, IdSuffixes)
<1>1. "record" \notin LowerCased
  BY DEF LowerCased
<1> DEFINE records == Get(props, toSdkName(Records))
           texts == FlattenSeq([i \in DOMAIN records.items |-> TxtRecords(records.items[i].value.text)])
           result(v) == Only(Mapped(id, "record", Object(<<Field(<<"records">>, v)>>)))
<1>2. recordSet(id, props) \in {Refused, result(records), result(List([i \in DOMAIN texts |-> Leaf(texts[i])]))}
  BY DEF recordSet
<1> QED
  BY <1>1, <1>2, MappedNamed, NothingNamed

LEMMA EventBusNamed ==
  ASSUME NEW id \in Seq(Text), NEW raw
  PROVE  Named(eventBusPolicy(id, raw), id, IdSuffixes)
<1>1. "eventBusPolicy" \notin LowerCased
  BY DEF LowerCased
<1>2. eventBusPolicy(id, raw) = Refused \/ \E v : eventBusPolicy(id, raw) = Only(Mapped(id, "eventBusPolicy", v))
  BY Zenon DEF eventBusPolicy
<1> QED
  BY <1>1, <1>2, MappedNamed, NothingNamed

ListsCountable(raw) == \A items \in Listed(raw) : Countable(items)

LEMMA AwsNamed ==
  ASSUME NumeralsDiffer, NEW id \in Seq(Text), NEW type \in AwsTypes, NEW raw, ListsCountable(raw)
  PROVE  Named(mapToAwsResource(id, type, raw), id, IdSuffixes)
<1> DEFINE props == normalized(raw, "")
           document == Get(raw, PolicyDocument)
           m == mapToAwsResource(id, type, raw)
<1>1. \A k \in {Queues, Topics, Groups, Roles, Users} : Countable(Get(props, toSdkName(k)).items)
  BY DEF ListsCountable, Listed
<1>2. /\ "integration" \notin LowerCased /\ "stage" \notin LowerCased
      /\ "AWS::SQS::QueuePolicy" \notin LowerCased /\ "AWS::SNS::TopicPolicy" \notin LowerCased
  BY DEF LowerCased
<1>3. CASE type = "AWS::ApiGatewayV2::Integration"
  <2>1. m = Only(Mapped(id, "integration", WithRaw(props, raw, Parameters)))
    BY <1>3 DEF mapToAwsResource
  <2> HIDE DEF m
  <2> QED
    BY <1>2, <2>1, MappedNamed DEF m
<1>4. CASE type = "AWS::ApiGatewayV2::Stage"
  <2>1. m = Only(Mapped(id, "stage", WithRaw(props, raw, Variables)))
    BY <1>4 DEF mapToAwsResource
  <2> HIDE DEF m
  <2> QED
    BY <1>2, <2>1, MappedNamed DEF m
<1>5. CASE type = "AWS::SQS::QueuePolicy"
  <2>1. m = policies(id, type, document, Get(props, toSdkName(Queues)))
    BY <1>5 DEF mapToAwsResource
  <2> HIDE DEF m
  <2> QED
    BY <1>1, <1>2, <1>5, <2>1, PoliciesNamed DEF m
<1>6. CASE type = "AWS::SNS::TopicPolicy"
  <2>1. m = policies(id, type, document, Get(props, toSdkName(Topics)))
    BY <1>6 DEF mapToAwsResource
  <2> HIDE DEF m
  <2> QED
    BY <1>1, <1>2, <1>6, <2>1, PoliciesNamed DEF m
<1>7. CASE type = "AWS::IAM::Policy"
  <2>1. m = iamPolicy(id, raw, props)
    BY <1>7 DEF mapToAwsResource
  <2> HIDE DEF m, props
  <2> QED
    BY <1>1, <2>1, IamNamed DEF m
<1>8. CASE type = "AWS::Route53::RecordSet"
  <2>1. m = recordSet(id, props)
    BY <1>8 DEF mapToAwsResource
  <2> QED
    BY <2>1, RecordNamed
<1>9. CASE type = "AWS::Events::EventBusPolicy"
  <2>1. m = eventBusPolicy(id, raw)
    BY <1>9 DEF mapToAwsResource
  <2> QED
    BY <2>1, EventBusNamed
<1> QED
  BY <1>3, <1>4, <1>5, <1>6, <1>7, <1>8, <1>9 DEF AwsTypes

LEMMA CustomNamed ==
  ASSUME NEW id \in Seq(Text), NEW type, NEW raw, NEW synthesizer
  PROVE  Named(mapToCustomResource(id, type, raw, synthesizer), id, IdSuffixes)
<1>1. "emulator" \notin LowerCased
  BY DEF LowerCased
<1>2. \/ mapToCustomResource(id, type, raw, synthesizer) = Refused
      \/ \E v : mapToCustomResource(id, type, raw, synthesizer) = Only(Mapped(id, "emulator", v))
  BY Zenon DEF mapToCustomResource
<1> QED
  BY <1>1, <1>2, MappedNamed, NothingNamed

LEMMA CfnNamed ==
  ASSUME NEW id \in Seq(Text), NEW type, NEW raw
  PROVE  NamedAfter(mapToCfnResource(id, type, raw), id)
<1> DEFINE r == Mapped(id, type, normalized(raw, type))
           q == [r EXCEPT !.name = IF type \in LowerCased THEN Lowered(id) ELSE @,
                          !.attributes = IF type \in DOMAIN idAttribute THEN idAttribute[type] ELSE @]
<1>1. q.logicalId = id /\ q.type = type /\ q.name = IF type \in LowerCased THEN Lowered(id) ELSE id
  BY DEF Mapped
<1>2. mapToCfnResource(id, type, raw) \in {Refused, Only(q)}
  BY DEF mapToCfnResource
<1> HIDE DEF q
<1>3. CASE type \in LowerCased
  BY <1>1, <1>2, <1>3, NothingNamed DEF NamedAfter
<1>4. CASE type \notin LowerCased
  <2>1. Named(Only(q), id, {<<>>})
    BY <1>1, <1>4, OnlyNamed
  <2>2. {<<>>} \subseteq IdSuffixes
    BY DEF IdSuffixes
  <2>3. Named(Only(q), id, IdSuffixes)
    BY <2>1, <2>2, NamedMore
  <2> QED
    BY <1>2, <2>3, NothingNamed DEF NamedAfter
<1> QED
  BY <1>3, <1>4

LEMMA RemappedNamed ==
  ASSUME RemappedApart, NEW id \in Seq(Text), NEW type \in DOMAIN remapCloudControlResource, NEW raw, NEW synthesizer
  PROVE  Named(mapResource(id, type, raw, synthesizer), id, IdSuffixes)
<1> DEFINE suffixes == remapCloudControlResource[type]
           m == mapResource(id, type, raw, synthesizer)
<1>1. /\ suffixes \in Seq(Seq(STRING)) /\ Distinct(suffixes)
      /\ \A i \in DOMAIN suffixes : IsSuffixOfId(suffixes[i])
  BY DEF RemappedApart
<1>2. Len(suffixes) \in Nat /\ DOMAIN suffixes = 1..Len(suffixes)
  BY <1>1
<1>3. \A i \in DOMAIN suffixes : suffixes[i] \in IdSuffixes /\ suffixes[i] \in Seq(Text)
  BY <1>1, TextSeq DEF IdSuffixes
<1>4. m = [i \in DOMAIN suffixes |-> Mapped(id \o suffixes[i], "remapped", raw)]
  BY DEF mapResource
<1> HIDE DEF suffixes, m
<1>5. \A i \in DOMAIN suffixes : /\ m[i].logicalId = id \o suffixes[i] /\ m[i].name = m[i].logicalId
                                 /\ m[i].type = "remapped"
  BY <1>4 DEF Mapped
<1>6. IsSequence(m) /\ DOMAIN m = DOMAIN suffixes
  <2>1. m = [i \in 1..Len(suffixes) |-> m[i]]
    BY <1>2, <1>4
  <2> QED
    BY <1>2, <2>1, FunctionIsSequence
<1>7. ASSUME NEW i \in DOMAIN m, NEW j \in DOMAIN m, m[i].logicalId = m[j].logicalId PROVE i = j
  <2>1. id \o suffixes[i] = id \o suffixes[j] /\ suffixes[i] \in Seq(Text) /\ suffixes[j] \in Seq(Text)
    BY <1>3, <1>5, <1>6, <1>7
  <2>2. suffixes[i] = suffixes[j]
    BY <2>1, ConcatSimplifications
  <2> QED
    BY <1>1, <1>6, <2>2 DEF Distinct
<1>8. "remapped" \notin LowerCased
  BY DEF LowerCased
<1>9. Named(m, id, IdSuffixes)
  BY <1>3, <1>5, <1>6, <1>7, <1>8 DEF Named
<1> QED
  BY <1>9 DEF m

LEMMA MappingNamed ==
  ASSUME NumeralsDiffer, RemappedApart, NEW id \in Seq(Text), NEW type, NEW raw, ListsCountable(raw), NEW synthesizer
  PROVE  NamedAfter(mapResource(id, type, raw, synthesizer), id)
<1> DEFINE m == mapResource(id, type, raw, synthesizer)
<1>1. CASE type \in DOMAIN remapCloudControlResource
  BY <1>1, RemappedNamed DEF NamedAfter
<1>2. CASE type \notin DOMAIN remapCloudControlResource /\ type \in AwsTypes
  <2>1. ~ isCustomResource(type)
    BY <1>2 DEF isCustomResource, AwsTypes
  <2>2. m = mapToAwsResource(id, type, raw)
    BY <1>2, <2>1 DEF mapResource
  <2> QED
    BY <1>2, <2>2, AwsNamed DEF NamedAfter
<1>3. CASE type \notin DOMAIN remapCloudControlResource /\ isCustomResource(type)
  <2>1. type \notin AwsTypes
    BY <1>3 DEF isCustomResource, AwsTypes
  <2>2. m = mapToCustomResource(id, type, raw, synthesizer)
    BY <1>3, <2>1 DEF mapResource
  <2> QED
    BY <2>2, CustomNamed DEF NamedAfter
<1>4. CASE type \notin DOMAIN remapCloudControlResource \cup AwsTypes /\ ~ isCustomResource(type)
  <2>1. m = mapToCfnResource(id, type, raw)
    BY <1>4 DEF mapResource
  <2> QED
    BY <2>1, CfnNamed
<1> QED
  BY <1>1, <1>2, <1>3, <1>4
-----------------------------------------------------------------------------
(***************************************************************************)
(* The main resource is the only one with the id.                          *)
(***************************************************************************)
LEMMA NamedAfterDistinct ==
  ASSUME NEW m, NEW id, NamedAfter(m, id)
  PROVE  /\ IsSequence(m)
         /\ \A j, k \in DOMAIN m : m[j].logicalId = m[k].logicalId => j = k
<1>1. CASE Named(m, id, IdSuffixes)
  BY <1>1 DEF Named
<1>2. CASE \E r : m = Only(r)
  <2>1. PICK r : m = <<r>>
    BY <1>2 DEF Only
  <2>2. IsSequence(m) /\ DOMAIN m = {1}
    BY <2>1 DEF IsSequence
  <2> QED
    BY <2>2
<1> QED
  BY <1>1, <1>2 DEF NamedAfter

LEMMA MainResource ==
  ASSUME NEW m, NEW id, NamedAfter(m, id), mainResource(m, id) # 0
  PROVE  /\ mainResource(m, id) \in DOMAIN m
         /\ \A j \in DOMAIN m : m[j].logicalId = id <=> j = mainResource(m, id)
<1> DEFINE own == {i \in DOMAIN m : m[i].logicalId = id}
           main == mainResource(m, id)
<1>1. own # {} /\ main = CHOOSE i \in own : \A j \in own : i <= j
  BY DEF mainResource
<1>2. \A i, j \in own : i = j
  BY NamedAfterDistinct
<1>3. PICK i \in own : TRUE
  BY <1>1
<1>4. i \in Nat
  <2>1. Len(m) \in Nat /\ m = [j \in 1..Len(m) |-> m[j]]
    BY NamedAfterDistinct DEF IsSequence
  <2>2. i \in DOMAIN m
    BY <1>3
  <2> QED
    BY <2>1, <2>2
<1>5. \A j \in own : i <= j
  BY <1>2, <1>4
<1>6. main \in own
  <2> HIDE DEF own, main
  <2> QED
    BY <1>1, <1>3, <1>5
<1> HIDE DEF main
<1>7. \A j \in DOMAIN m : m[j].logicalId = id <=> j = main
  BY <1>2, <1>6
<1> QED
  BY <1>6, <1>7 DEF main

LEMMA AppendSequence ==
  ASSUME NEW s, IsSequence(s), NEW e
  PROVE  /\ IsSequence(Append(s, e)) /\ Len(Append(s, e)) = Len(s) + 1
         /\ DOMAIN s = 1..Len(s) /\ Len(s) \in Nat /\ DOMAIN Append(s, e) = 1..(Len(s) + 1)
         /\ \A i \in 1..Len(s) : Append(s, e)[i] = s[i]
         /\ Append(s, e)[Len(s) + 1] = e
<1> DEFINE n == Len(s)
           S == {s[i] : i \in 1..n} \cup {e}
<1>1. n \in Nat /\ s = [i \in 1..n |-> s[i]]
  BY DEF IsSequence
<1>2. s \in Seq(S) /\ e \in S
  <2>1. s \in Seq({s[i] : i \in 1..n})
    <3> HIDE DEF n
    <3> QED
      BY <1>1, FunctionIsSequence
  <2> QED
    BY <2>1, SeqMonotonic
<1> HIDE DEF S
<1>3. /\ Append(s, e) \in Seq(S) /\ Len(Append(s, e)) = n + 1
      /\ \A i \in 1..n : Append(s, e)[i] = s[i]
      /\ Append(s, e)[n + 1] = e
  BY <1>2, AppendProperties
<1>4. DOMAIN s = 1..n
  BY <1>1
<1> DEFINE c == Append(s, e)
<1>5. DOMAIN c = 1..(n + 1) /\ c = [i \in 1..(n + 1) |-> c[i]]
  <2> HIDE DEF c, n
  <2>1. n \in Nat /\ c \in Seq(S) /\ Len(c) = n + 1
    BY <1>1, <1>3 DEF c
  <2> QED
    BY <2>1
<1>6. IsSequence(c)
  <2> HIDE DEF c, n
  <2>1. n + 1 \in Nat
    BY <1>1
  <2> QED
    BY <1>5, <2>1, FunctionIsSequence
<1> QED
  BY <1>1, <1>3, <1>4, <1>5, <1>6

-----------------------------------------------------------------------------
(***************************************************************************)
(* The ids of the stack, once there are any.                               *)
(***************************************************************************)
Path(i) == constructs[i].path

LEMMA IdsAllocated ==
  ASSUME MaxHumanLen \in Nat, WellFormed(program), IdsOfPaths
  PROVE  \A i \in DOMAIN ids : /\ i \in DOMAIN constructs
                               /\ Path(i) \in Seq(Seq(STRING))
                               /\ ids[i] = makeUniqueId(Path(i))
                               /\ ids[i] \in Seq(Alphanumeric) /\ ids[i] \in Seq(Text)
<1> SUFFICES ASSUME NEW i \in DOMAIN ids
             PROVE  /\ i \in DOMAIN constructs
                    /\ Path(i) \in Seq(Seq(STRING))
                    /\ ids[i] = makeUniqueId(Path(i))
                    /\ ids[i] \in Seq(Alphanumeric) /\ ids[i] \in Seq(Text)
  OBVIOUS
<1>1. ids = [j \in DOMAIN constructs |-> makeUniqueId(Path(j))]
  <2>1. ids # <<>>
    OBVIOUS
  <2> QED
    BY <2>1 DEF IdsOfPaths, Path
<1>2. i \in DOMAIN constructs /\ ids[i] = makeUniqueId(Path(i))
  BY <1>1
<1>3. Path(i) \in Seq(Seq(STRING))
  BY <1>2 DEF WellFormed, Path, constructs
<1>4. ids[i] \in Seq(Alphanumeric)
  BY <1>2, <1>3, IdType
<1>5. Seq(Alphanumeric) \subseteq Seq(Text)
  BY TextSeq
<1> QED
  BY <1>2, <1>3, <1>4, <1>5

LEMMA ListsOfConstruct ==
  ASSUME WellFormed(program), NEW i \in DOMAIN constructs
  PROVE  ListsCountable(processed(constructs[i].props))
BY DEF WellFormed, ListsCountable, Countable, constructs

(***************************************************************************)
(* What the invariant says of the names of what is created.                *)
(***************************************************************************)
LEMMA CreatedNamed ==
  ASSUME Assumptions, MappingInv
  PROVE  \A i \in DOMAIN created : i \in DOMAIN ids /\ NamedAfter(created[i], ids[i])
<1>1. MaxHumanLen \in Nat /\ NumeralsDiffer /\ RemappedApart
  BY DEF Assumptions
<1> SUFFICES ASSUME NEW i \in DOMAIN created PROVE i \in DOMAIN ids /\ NamedAfter(created[i], ids[i])
  OBVIOUS
<1>2. Len(created) \in Nat /\ created = [j \in 1..Len(created) |-> created[j]] /\ Len(created) <= Len(constructs)
  BY DEF MappingInv, IsSequence, TypeOK
<1>3. Len(constructs) \in Nat /\ constructs = [j \in 1..Len(constructs) |-> constructs[j]]
  BY DEF MappingInv, WellFormed, IsSequence, constructs
<1>4. i \in DOMAIN constructs /\ created # <<>>
  BY <1>2, <1>3
<1>5. i \in DOMAIN ids
  BY <1>4 DEF MappingInv, IdsOfPaths
<1>6. ids[i] \in Seq(Text)
  BY <1>1, <1>5, IdsAllocated DEF MappingInv
<1>7. created[i] = mapResource(ids[i], constructs[i].type, processed(constructs[i].props), program.synthesizer)
  BY DEF MappingInv, CreatedAsMapped
<1>8. ListsCountable(processed(constructs[i].props))
  BY <1>4, ListsOfConstruct DEF MappingInv
<1> QED
  BY <1>1, <1>5, <1>6, <1>7, <1>8, MappingNamed
-----------------------------------------------------------------------------
(***************************************************************************)
(* The invariant.  It holds when nothing is created yet.                   *)
(***************************************************************************)
LEMMA MappingInvInit ==
  ASSUME Assumptions, Init
  PROVE  MappingInv
<1>1. WellFormed(program)
  BY DEF Assumptions, Init
<1>2. IsSequence(<<>>) /\ Len(<<>>) = 0 /\ DOMAIN <<>> = {}
  BY NothingNamed DEF Named, Refused
<1>3. Len(constructs) \in Nat
  BY <1>1 DEF WellFormed, IsSequence, constructs
<1>4. TypeOK /\ IdsOfPaths /\ CreatedAsMapped
  BY <1>2, <1>3 DEF Init, TypeOK, IdsOfPaths, CreatedAsMapped
<1> QED
  BY <1>1, <1>2, <1>4 DEF Init, MappingInv

(***************************************************************************)
(* allocateLogicalIds: nothing is created before the ids are checked.      *)
(***************************************************************************)
LEMMA MappingInvAllocates ==
  ASSUME MappingInv, AllocateLogicalIds
  PROVE  MappingInv'
<1>0. created = <<>>
  BY DEF AllocateLogicalIds, MappingInv, IdsOfPaths
<1>1. /\ ids' = [i \in DOMAIN constructs |-> makeUniqueId(constructs[i].path)]
      /\ status' \in {"converting", "refused"}
      /\ status' = "converting" => Distinct(ids') /\ \A i \in DOMAIN constructs : ids'[i] # <<>>
      /\ program' = program /\ created' = created /\ registered' = registered /\ constructs' = constructs
  BY DEF AllocateLogicalIds, constructs
<1>2. DOMAIN ids' = DOMAIN constructs
  BY <1>1
<1>3. DOMAIN created = {} /\ created' = <<>> /\ DOMAIN created' = {} /\ Len(created) = Len(created')
  BY <1>0, <1>1
<1>4. TypeOK'
  BY <1>1, <1>3 DEF MappingInv, TypeOK
<1>5. IdsOfPaths' /\ CreatedAsMapped'
  BY <1>1, <1>2, <1>3 DEF IdsOfPaths, CreatedAsMapped
<1>6. WellFormed(program)' /\ IsSequence(created)' /\ IsSequence(registered)'
  BY <1>1 DEF MappingInv
<1> QED
  BY <1>4, <1>5, <1>6 DEF MappingInv
(***************************************************************************)
(* processIntrinsics of the next resource: it is refused, or its mapping   *)
(* with its main resource is the last of what is created.                  *)
(***************************************************************************)
LEMMA MappingInvConverts ==
  ASSUME Assumptions, MappingInv, ConvertResource
  PROVE  MappingInv'
<1> DEFINE n       == Len(created)
           c       == constructs[next]
           mapping == mapResource(ids[next], c.type, processed(c.props), program.synthesizer)
           main    == mainResource(mapping, ids[next])
<1>1. /\ status = "converting" /\ next \in DOMAIN constructs
      /\ program' = program /\ ids' = ids /\ constructs' = constructs
  BY DEF ConvertResource, constructs
<1>2. \/ main = 0 /\ status' = "refused" /\ created' = created /\ registered' = registered
      \/ /\ main # 0 /\ status' = status
         /\ created' = Append(created, mapping) /\ registered' = Append(registered, main)
  BY DEF ConvertResource
<1>3. /\ WellFormed(program) /\ IsSequence(created) /\ IsSequence(registered)
      /\ TypeOK /\ IdsOfPaths /\ CreatedAsMapped
  BY DEF MappingInv
<1>4. WellFormed(program)'
  BY <1>1, <1>3
<1>5. CASE main = 0 /\ status' = "refused" /\ created' = created /\ registered' = registered
  <2>1. TypeOK'
    BY <1>1, <1>3, <1>5 DEF TypeOK
  <2>2. IdsOfPaths'
    BY <1>1, <1>3, <1>5 DEF IdsOfPaths
  <2>3. CreatedAsMapped'
    BY <1>1, <1>3, <1>5 DEF CreatedAsMapped
  <2> QED
    BY <1>3, <1>4, <1>5, <2>1, <2>2, <2>3 DEF MappingInv
<1>6. CASE /\ main # 0 /\ status' = status
           /\ created' = Append(created, mapping) /\ registered' = Append(registered, main)
  <2>1. next \in DOMAIN ids /\ DOMAIN ids = DOMAIN constructs /\ Distinct(ids) /\ \A i \in DOMAIN ids : ids[i] # <<>>
    BY <1>1, <1>3 DEF IdsOfPaths
  <2>2. ids[next] \in Seq(Text)
    BY <1>3, <2>1, IdsAllocated DEF Assumptions
  <2>3. ListsCountable(processed(c.props))
    BY <1>1, <1>3, ListsOfConstruct
  <2>4. NamedAfter(mapping, ids[next])
    BY <2>2, <2>3, MappingNamed DEF Assumptions
  <2>5. main \in DOMAIN mapping /\ \A j \in DOMAIN mapping : mapping[j].logicalId = ids[next] <=> j = main
    <3> HIDE DEF mapping
    <3> QED
      BY <1>6, <2>4, MainResource
  <2> HIDE DEF mapping, main
  <2>6. Len(registered) = n
    <3>1. DOMAIN registered = 1..Len(registered) /\ DOMAIN created = 1..n /\ Len(registered) \in Nat /\ n \in Nat
      BY <1>3, AppendSequence
    <3>2. 1..Len(registered) = 1..n
      BY <1>3, <3>1 DEF TypeOK
    <3> DEFINE k == Len(registered)
    <3> HIDE DEF k, n
    <3>3. k \in Nat /\ n \in Nat /\ 1..k = 1..n
      BY <3>1, <3>2 DEF k
    <3>4. k > 0 => k \in 1..n
      BY <3>3
    <3>5. n > 0 => n \in 1..k
      BY <3>3
    <3> QED
      BY <3>3, <3>4, <3>5 DEF k
  <2>7. /\ IsSequence(created') /\ DOMAIN created' = 1..(n + 1) /\ created'[n + 1] = mapping /\ n \in Nat
        /\ DOMAIN created = 1..n /\ Len(created') = n + 1 /\ \A i \in 1..n : created'[i] = created[i]
    BY <1>3, <1>6, AppendSequence
  <2>8. /\ IsSequence(registered') /\ DOMAIN registered' = 1..(n + 1) /\ registered'[n + 1] = main
        /\ \A i \in 1..n : registered'[i] = registered[i]
    BY <1>3, <1>6, <2>6, AppendSequence
  <2>9. next = n + 1 /\ n + 1 <= Len(constructs)
    <3>1. Len(constructs) \in Nat /\ constructs = [i \in 1..Len(constructs) |-> constructs[i]]
      BY <1>3 DEF WellFormed, IsSequence, constructs
    <3>2. DOMAIN constructs = 1..Len(constructs)
      BY <3>1
    <3> QED
      BY <1>1, <2>7, <3>1, <3>2 DEF next
  <2>10. \A i \in 1..(n + 1) : i \in 1..n \/ i = n + 1
    BY <2>7
  <2>11. \A i \in DOMAIN created' :
           /\ registered'[i] \in DOMAIN created'[i] /\ ids'[i] # <<>>
           /\ \A j \in DOMAIN created'[i] : created'[i][j].logicalId = ids'[i] <=> j = registered'[i]
    <3> SUFFICES ASSUME NEW i \in 1..(n + 1)
                 PROVE  /\ registered'[i] \in DOMAIN created'[i] /\ ids'[i] # <<>>
                        /\ \A j \in DOMAIN created'[i] : created'[i][j].logicalId = ids'[i] <=> j = registered'[i]
      BY <2>7
    <3>1. CASE i \in 1..n
      BY <1>1, <1>3, <2>7, <2>8, <3>1 DEF TypeOK
    <3>2. CASE i = n + 1
      BY <1>1, <2>1, <2>5, <2>7, <2>8, <2>9, <3>2
    <3> QED
      BY <2>10, <3>1, <3>2
  <2>12. TypeOK'
    BY <1>1, <1>3, <1>6, <2>7, <2>8, <2>9, <2>11 DEF TypeOK
  <2>13. IdsOfPaths'
    BY <1>1, <1>3, <1>6, <2>1 DEF IdsOfPaths
  <2>14. CreatedAsMapped'
    <3> SUFFICES ASSUME NEW i \in 1..(n + 1)
                 PROVE  created'[i] = mapResource(ids[i], constructs[i].type, processed(constructs[i].props),
                                                  program.synthesizer)
      BY <1>1, <2>7 DEF CreatedAsMapped
    <3>1. CASE i \in 1..n
      BY <1>3, <2>7, <3>1 DEF CreatedAsMapped
    <3>2. CASE i = n + 1
      BY <2>7, <2>9, <3>2 DEF mapping
    <3> QED
      BY <2>10, <3>1, <3>2
  <2> QED
    BY <1>4, <2>7, <2>8, <2>12, <2>13, <2>14 DEF MappingInv
<1> QED
  BY <1>2, <1>5, <1>6

(***************************************************************************)
(* What the stack and its resources are, in every state of a conversion:   *)
(* the ids are those of the paths and checked before a resource is         *)
(* created, and each construct is converted to its mapping, whole.         *)
(***************************************************************************)
THEOREM MappingInvariant == Spec => []MappingInv
<1>1. Init => MappingInv
  BY MappingInvInit, MappingAssumption
<1>2. MappingInv /\ [Next]_vars => MappingInv'
  <2> SUFFICES ASSUME MappingInv, [Next]_vars PROVE MappingInv'
    OBVIOUS
  <2>1. CASE AllocateLogicalIds
    BY <2>1, MappingInvAllocates
  <2>2. CASE ConvertResource
    BY <2>2, MappingInvConverts, MappingAssumption
  <2>3. CASE UNCHANGED vars
    BY <2>3 DEF vars, MappingInv, TypeOK, IdsOfPaths, CreatedAsMapped, constructs
  <2> QED
    BY <2>1, <2>2, <2>3 DEF Next
<1> QED
  BY <1>1, <1>2, PTL DEF Spec

(***************************************************************************)
(* registerResource finds the main resource of each mapping, and there is  *)
(* no other that it could have found: what Ref, GetAtt and DependsOn look  *)
(* up under a logical id is that one.                                      *)
(***************************************************************************)
THEOREM MainResourceFound == Spec => []TypeOK
<1>1. MappingInv => TypeOK
  BY DEF MappingInv
<1> QED
  BY <1>1, MappingInvariant, PTL

(***************************************************************************)
(* Two resources of one type and name are the same of a mapping, and what  *)
(* they are created for has one id, up to lower case.                      *)
(***************************************************************************)
LEMMA SameName ==
  ASSUME NEW id \in Seq(Alphanumeric), NEW q \in Seq(Alphanumeric), NEW m, NEW n,
         NamedAfter(m, id), NamedAfter(n, q), NEW j \in DOMAIN m, NEW k \in DOMAIN n,
         m[j].type = n[k].type, m[j].name = n[k].name
  PROVE  Lowered(id) = Lowered(q) /\ (m = n => j = k)
<1>1. CASE Named(m, id, IdSuffixes) /\ Named(n, q, IdSuffixes)
  <2>1. m[j].name = m[j].logicalId /\ \E t \in IdSuffixes : m[j].logicalId = id \o t
    BY <1>1, Zenon DEF Named
  <2>2. n[k].name = n[k].logicalId /\ \E u \in IdSuffixes : n[k].logicalId = q \o u
    BY <1>1, Zenon DEF Named
  <2>3. id = q
    <3>1. PICK t \in IdSuffixes : m[j].logicalId = id \o t
      BY <2>1
    <3>2. PICK u \in IdSuffixes : n[k].logicalId = q \o u
      BY <2>2
    <3>3. id \o t = q \o u
      BY <2>1, <2>2, <3>1, <3>2
    <3> QED
      BY <3>3, SuffixesApart
  <2>4. m = n => j = k
    BY <1>1, <2>1, <2>2 DEF Named
  <2> QED
    BY <2>3, <2>4
<1>2. CASE Named(m, id, IdSuffixes) /\ ~ Named(n, q, IdSuffixes)
  <2>1. m[j].type \notin LowerCased
    BY <1>2 DEF Named
  <2>2. PICK r : n = <<r>> /\ r.type \in LowerCased
    BY <1>2 DEF NamedAfter, Only
  <2>3. n[k] = r
    BY <2>2
  <2> QED
    BY <2>1, <2>2, <2>3
<1>3. CASE ~ Named(m, id, IdSuffixes) /\ Named(n, q, IdSuffixes)
  <2>1. n[k].type \notin LowerCased
    BY <1>3 DEF Named
  <2>2. PICK r : m = <<r>> /\ r.type \in LowerCased
    BY <1>3 DEF NamedAfter, Only
  <2>3. m[j] = r
    BY <2>2
  <2> QED
    BY <2>1, <2>2, <2>3
<1>4. CASE ~ Named(m, id, IdSuffixes) /\ ~ Named(n, q, IdSuffixes)
  <2>1. PICK r : m = Only(r) /\ r.name = Lowered(id)
    BY <1>4, Zenon DEF NamedAfter
  <2>2. PICK s : n = Only(s) /\ s.name = Lowered(q)
    BY <1>4, Zenon DEF NamedAfter
  <2>3. DOMAIN m = {1} /\ m[1] = r
    BY <2>1 DEF Only
  <2>4. DOMAIN n = {1} /\ n[1] = s
    BY <2>2 DEF Only
  <2>5. j = 1 /\ k = 1
    BY <2>3, <2>4
  <2>6. Lowered(id) = Lowered(q)
    BY <2>1, <2>2, <2>3, <2>4, <2>5
  <2> QED
    BY <2>5, <2>6
<1> QED
  BY <1>1, <1>2, <1>3, <1>4

(***************************************************************************)
(* Pulumi refuses two resources of one type and name.  Those of a stack    *)
(* never are, unless two ids differ in nothing but case: neither the       *)
(* attachments and policies that mapToAwsResource numbers, nor what the    *)
(* user remaps, takes a name that another construct has.                   *)
(***************************************************************************)
THEOREM NamesApart == Spec => []NamesDiffer
<1>1. ASSUME MappingInv PROVE NamesDiffer
  <2> SUFFICES ASSUME Distinct([i \in DOMAIN ids |-> Lowered(ids[i])]),
                      NEW x \in Resources, NEW y \in Resources,
                      created[x[1]][x[2]].type = created[y[1]][y[2]].type,
                      created[x[1]][x[2]].name = created[y[1]][y[2]].name
               PROVE  x = y
    BY DEF NamesDiffer
  <2>1. /\ x = <<x[1], x[2]>> /\ x[1] \in DOMAIN created /\ x[2] \in DOMAIN created[x[1]]
        /\ y = <<y[1], y[2]>> /\ y[1] \in DOMAIN created /\ y[2] \in DOMAIN created[y[1]]
    BY DEF Resources
  <2>2. /\ x[1] \in DOMAIN ids /\ NamedAfter(created[x[1]], ids[x[1]])
        /\ y[1] \in DOMAIN ids /\ NamedAfter(created[y[1]], ids[y[1]])
    BY <1>1, <2>1, CreatedNamed, MappingAssumption
  <2>3. ids[x[1]] \in Seq(Alphanumeric) /\ ids[y[1]] \in Seq(Alphanumeric)
    BY <1>1, <2>2, IdsAllocated, MappingAssumption DEF Assumptions, MappingInv
  <2>4. Lowered(ids[x[1]]) = Lowered(ids[y[1]]) /\ (created[x[1]] = created[y[1]] => x[2] = y[2])
    BY <2>1, <2>2, <2>3, SameName
  <2>5. x[1] = y[1]
    BY <2>2, <2>4 DEF Distinct
  <2> QED
    BY <2>1, <2>4, <2>5
<1> QED
  BY <1>1, MappingInvariant, PTL

(***************************************************************************)
(* A construct called Default, wherever it is put into a path of any       *)
(* length, leaves the id as it is, duplicates on both sides of it          *)
(* included: makeUniqueId takes it out before it looks for them.           *)
(***************************************************************************)
THEOREM DefaultChangesNoId == Spec => []IdIgnoresDefault
<1>1. ASSUME MappingInv PROVE IdIgnoresDefault
  <2> SUFFICES ASSUME NEW i \in DOMAIN ids, NEW k \in 1..(Len(constructs[i].path) + 1)
               PROVE  makeUniqueId(InsertAt(constructs[i].path, k, HiddenId)) = ids[i]
    BY DEF IdIgnoresDefault
  <2> DEFINE S    == Seq(STRING) \cup {HiddenId}
             path == constructs[i].path
  <2>1. path \in Seq(Seq(STRING)) /\ ids[i] = makeUniqueId(path)
    BY <1>1, IdsAllocated, MappingAssumption DEF Assumptions, MappingInv, Path
  <2>2. path \in Seq(S) /\ HiddenId \in S
    BY <2>1, SeqMonotonic
  <2> HIDE DEF S, path
  <2>3. Without(InsertAt(path, k, HiddenId), HiddenId) = Without(path, HiddenId)
    BY <2>2, WithoutInserted DEF path
  <2> QED
    BY <2>1, <2>3 DEF makeUniqueId, path
<1> QED
  BY <1>1, MappingInvariant, PTL
=============================================================================
