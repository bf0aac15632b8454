------------------------- MODULE AppConversionProofs -------------------------
(***************************************************************************)
(* Proofs about AppConverter.convert, for every number of stacks and every *)
(* dependency relation between them.                                       *)
(***************************************************************************)
EXTENDS AppConversion, SequenceTheorems, FiniteSetTheorems, TLAPS

(***************************************************************************)
(* The caller, the innermost call, is changed; the calls around it and     *)
(* their number stay.                                                      *)
(***************************************************************************)
LEMMA LastReplaced ==
  ASSUME NEW s \in Seq(FrameType), s # <<>>, NEW f \in FrameType
  PROVE  LET r == [s EXCEPT ![Len(s)] = f]
         IN  /\ r \in Seq(FrameType)
             /\ Len(r) = Len(s)
             /\ r[Len(s)] = f
             /\ \A i \in 1..(Len(s) - 1) : r[i] = s[i]
<1>1. Len(s) \in 1..Len(s) /\ Len(s) \in Nat \ {0}
  OBVIOUS
<1>2. \A i \in 1..(Len(s) - 1) : i \in 1..Len(s) /\ i # Len(s)
  BY <1>1
<1> QED
  BY <1>1, <1>2, ExceptSeq

(***************************************************************************)
(* The calls that are left when the innermost one has returned.            *)
(***************************************************************************)
LEMMA FrontFrames ==
  ASSUME NEW s \in Seq(FrameType), s # <<>>
  PROVE  LET r == SubSeq(s, 1, Len(s) - 1)
         IN  /\ r \in Seq(FrameType)
             /\ Len(r) = Len(s) - 1
             /\ \A i \in 1..(Len(s) - 1) : r[i] = s[i]
<1> DEFINE k == Len(s) - 1
<1>1. k \in Nat /\ k + 1 = Len(s) /\ \A i \in 1..k : s[i] \in FrameType
  OBVIOUS
<1>2. /\ SubSeq(s, 1, k) \in Seq(FrameType)
      /\ Len(SubSeq(s, 1, k)) = k
      /\ \A i \in 1..k : SubSeq(s, 1, k)[i] = s[i]
  <2> HIDE DEF k
  <2>1. /\ SubSeq(s, 1, k) \in Seq(FrameType)
        /\ Len(SubSeq(s, 1, k)) = IF 1 <= k THEN k - 1 + 1 ELSE 0
        /\ \A i \in 1..(k - 1 + 1) : SubSeq(s, 1, k)[i] = s[1 + i - 1]
    BY <1>1, SubSeqProperties
  <2>2. k - 1 + 1 = k /\ \A i \in 1..k : 1 + i - 1 = i
    BY <1>1
  <2> QED
    BY <1>1, <2>1, <2>2
<1> QED
  BY <1>2

(***************************************************************************)
(* What a call is, whatever its loop has done to it.                       *)
(***************************************************************************)
LEMMA FrameChanges ==
  ASSUME NEW f \in FrameType, NEW d \in Stack
  PROVE  /\ Calling(f, d) \in FrameType
         /\ Calling(f, d).stack = f.stack
         /\ Calling(f, d).todo = f.todo \ {d}
         /\ Calling(f, d).waits = f.waits
         /\ Waiting(f, d) \in FrameType
         /\ Waiting(f, d).stack = f.stack
         /\ Waiting(f, d).todo = f.todo
         /\ Waiting(f, d).waits = f.waits \cup {d}
BY DEF FrameType, Calling, Waiting

(***************************************************************************)
(* A call that has just been made, for a stack of the manifest.            *)
(***************************************************************************)
LEMMA NewFrame ==
  ASSUME TypeOK, NEW s \in Stack
  PROVE  /\ Frame(s) \in FrameType
         /\ Frame(s).stack = s
         /\ Frame(s).todo = assembly.dependencies[s]
         /\ Frame(s).waits = {}
BY DEF TypeOK, AssemblyType, Frame, FrameType

-----------------------------------------------------------------------------
(***************************************************************************)
(* The innermost call, while there is one.                                 *)
(***************************************************************************)
LEMMA TopIsFrame ==
  ASSUME TypeOK, frames # <<>>
  PROVE  /\ Len(frames) \in Nat \ {0}
         /\ Top \in FrameType
         /\ Top.stack \in Stack
         /\ Top.todo \subseteq Stack \cup {Other}
         /\ Top.waits \subseteq Stack
<1>1. frames \in Seq(FrameType)
  BY DEF TypeOK
<1>2. Len(frames) \in Nat \ {0} /\ Top \in FrameType
  BY <1>1 DEF Top
<1> QED
  BY <1>2 DEF FrameType

(***************************************************************************)
(* A dependency that is done, and one that is not, as the step leaves the  *)
(* calls.                                                                  *)
(***************************************************************************)
LEMMA UseDoneFrames ==
  ASSUME TypeOK, frames # <<>>, NEW d \in Top.todo, UseDone(d)
  PROVE  /\ d \in stacks /\ d \in done
         /\ frames' \in Seq(FrameType)
         /\ Len(frames') = Len(frames)
         /\ frames'[Len(frames)].stack = Top.stack
         /\ frames'[Len(frames)].todo = Top.todo \ {d}
         /\ frames'[Len(frames)].waits = Top.waits \cup {d}
         /\ \A i \in 1..(Len(frames) - 1) : frames'[i] = frames[i]
<1> DEFINE f == Waiting(Calling(Top, d), d)
<1>1. d \in stacks /\ d \in done /\ d \in Stack /\ frames \in Seq(FrameType)
  BY DEF UseDone, TypeOK
<1>2. /\ Calling(Top, d) \in FrameType
      /\ Calling(Top, d).stack = Top.stack
      /\ Calling(Top, d).todo = Top.todo \ {d}
      /\ Calling(Top, d).waits = Top.waits
  BY <1>1, TopIsFrame, FrameChanges
<1>3. /\ f \in FrameType
      /\ f.stack = Top.stack
      /\ f.todo = Top.todo \ {d}
      /\ f.waits = Top.waits \cup {d}
  BY <1>1, <1>2, FrameChanges
<1>4. frames' = [frames EXCEPT ![Len(frames)] = f]
  BY DEF UseDone, Top
<1> HIDE DEF f
<1> QED
  BY <1>1, <1>3, <1>4, LastReplaced

(***************************************************************************)
(* The call made for a dependency that has not been converted.             *)
(***************************************************************************)
LEMMA ConvertDependencyFrames ==
  ASSUME TypeOK, frames # <<>>, NEW d \in Top.todo, ConvertDependency(d)
  PROVE  /\ d \in stacks
         /\ frames' \in Seq(FrameType)
         /\ Len(frames') = Len(frames) + 1
         /\ frames'[Len(frames)].stack = Top.stack
         /\ frames'[Len(frames)].todo = Top.todo \ {d}
         /\ frames'[Len(frames)].waits = Top.waits
         /\ frames'[Len(frames) + 1] = Frame(d)
         /\ \A i \in 1..(Len(frames) - 1) : frames'[i] = frames[i]
<1> DEFINE f == Calling(Top, d)
           r == [frames EXCEPT ![Len(frames)] = f]
<1>1. d \in stacks /\ d \in Stack /\ frames \in Seq(FrameType)
  BY DEF ConvertDependency, TypeOK
<1>2. /\ f \in FrameType
      /\ f.stack = Top.stack
      /\ f.todo = Top.todo \ {d}
      /\ f.waits = Top.waits
  BY <1>1, TopIsFrame, FrameChanges
<1>3. frames' = Append(r, Frame(d))
  BY DEF ConvertDependency, Top
<1> HIDE DEF f
<1>4. /\ r \in Seq(FrameType)
      /\ Len(r) = Len(frames)
      /\ r[Len(frames)] = f
      /\ \A i \in 1..(Len(frames) - 1) : r[i] = frames[i]
  BY <1>1, <1>2, LastReplaced
<1>5. Frame(d) \in FrameType
  BY <1>1, NewFrame
<1> HIDE DEF r
<1>6. /\ frames' \in Seq(FrameType)
      /\ Len(frames') = Len(r) + 1
      /\ \A i \in 1..Len(r) : frames'[i] = r[i]
      /\ frames'[Len(r) + 1] = Frame(d)
      /\ Len(frames) \in Nat \ {0}
  BY <1>3, <1>4, <1>5, TopIsFrame
<1> QED
  BY <1>1, <1>2, <1>4, <1>6

(***************************************************************************)
(* The calls after a conversion: the innermost one is gone, and its caller *)
(* waits for the stack it was for.                                         *)
(***************************************************************************)
LEMMA ConvertStackFrames ==
  ASSUME TypeOK, frames # <<>>, ConvertStack
  PROVE  LET k == Len(frames) - 1
         IN  /\ k \in Nat
             /\ frames' \in Seq(FrameType)
             /\ Len(frames') = k
             /\ k > 0 => /\ frames'[k].stack = frames[k].stack
                         /\ frames'[k].todo = frames[k].todo
                         /\ frames'[k].waits = frames[k].waits \cup {Top.stack}
             /\ \A i \in 1..(k - 1) : frames'[i] = frames[i]
<1> DEFINE k == Len(frames) - 1
           r == SubSeq(frames, 1, k)
<1>0. frames \in Seq(FrameType)
  BY DEF TypeOK
<1>1. frames \in Seq(FrameType) /\ Top.stack \in Stack /\ k \in Nat /\ Len(frames) = k + 1
  BY <1>0, TopIsFrame
<1>2. /\ r \in Seq(FrameType)
      /\ Len(r) = k
      /\ \A i \in 1..k : r[i] = frames[i]
  BY <1>1, FrontFrames
<1>3. frames' = Return(r, Top.stack)
  BY DEF ConvertStack
<1> HIDE DEF k, r
<1>4. CASE k = 0
  <2>1. r = <<>>
    BY <1>2, <1>4
  <2>2. frames' = <<>>
    BY <1>3, <2>1 DEF Return
  <2> QED
    BY <1>4, <2>2 DEF k
<1>5. CASE k > 0
  <2> DEFINE f == Waiting(r[k], Top.stack)
  <2>1. r # <<>> /\ k \in 1..k /\ r[k] = frames[k] /\ r[k] \in FrameType
    BY <1>1, <1>2, <1>5
  <2>2. /\ f \in FrameType
        /\ f.stack = frames[k].stack
        /\ f.todo = frames[k].todo
        /\ f.waits = frames[k].waits \cup {Top.stack}
    BY <1>1, <2>1, FrameChanges
  <2>3. frames' = [r EXCEPT ![Len(r)] = f]
    BY <1>2, <1>3, <2>1 DEF Return
  <2> HIDE DEF f
  <2>4. /\ frames' \in Seq(FrameType)
        /\ Len(frames') = k
        /\ frames'[k] = f
        /\ \A i \in 1..(k - 1) : frames'[i] = r[i]
    BY <1>2, <2>1, <2>2, <2>3, LastReplaced
  <2>5. \A i \in 1..(k - 1) : frames'[i] = frames[i]
    BY <1>1, <1>2, <2>4
  <2> QED
    BY <1>1, <2>2, <2>4, <2>5 DEF k
<1> QED
  BY <1>1, <1>4, <1>5

-----------------------------------------------------------------------------
(***************************************************************************)
(* The type invariant holds in every reachable state.                      *)
(***************************************************************************)
LEMMA TypeInit == Init => TypeOK
<1> SUFFICES ASSUME Init PROVE TypeOK
  OBVIOUS
<1>1. assembly \in AssemblyType
  BY AssembliesAssumption DEF Init
<1> QED
  BY <1>1, MAssumption DEF Init, TypeOK

(***************************************************************************)
(* The types through an iteration of the loop over the dependencies.       *)
(***************************************************************************)
LEMMA TypeVisit == TypeOK /\ VisitDependency => TypeOK'
<1> SUFFICES ASSUME TypeOK, VisitDependency PROVE TypeOK'
  OBVIOUS
<1>1. /\ frames # <<>>
      /\ UNCHANGED <<assembly, stacks, next, done, generation, conversions>>
  BY DEF VisitDependency
<1>2. PICK d \in Top.todo : UseDone(d) \/ ConvertDependency(d) \/ UnknownDependency(d)
  BY DEF VisitDependency
<1>3. frames' \in Seq(FrameType)
  <2>1. CASE UseDone(d)
    BY <1>1, <2>1, UseDoneFrames
  <2>2. CASE ConvertDependency(d)
    BY <1>1, <2>2, ConvertDependencyFrames
  <2>3. CASE UnknownDependency(d)
    BY <2>3 DEF UnknownDependency, TypeOK
  <2> QED
    BY <1>2, <2>1, <2>2, <2>3
<1>4. error' \in {"none", "unknown artifact", "conversion failed"}
  BY <1>2 DEF UseDone, ConvertDependency, UnknownDependency, TypeOK
<1> QED
  BY <1>1, <1>3, <1>4 DEF TypeOK

(***************************************************************************)
(* The types through the conversion of a stack.                            *)
(***************************************************************************)
LEMMA TypeConvert == TypeOK /\ Top.stack \in stacks /\ ConvertStack => TypeOK'
<1> SUFFICES ASSUME TypeOK, Top.stack \in stacks, ConvertStack PROVE TypeOK'
  OBVIOUS
<1>1. /\ frames # <<>>
      /\ generation' = [generation EXCEPT ![Top.stack] = @ + 1]
      /\ conversions' = Append(conversions, [stack |-> Top.stack, dependsOn |-> stackDependsOn])
      /\ done' = done \cup {Top.stack}
      /\ UNCHANGED <<assembly, stacks, next, error>>
  BY DEF ConvertStack
<1>2. Top.stack \in Stack /\ Top.waits \subseteq Stack
  BY <1>1, TopIsFrame
<1>3. generation \in [Stack -> Nat] /\ generation' \in [Stack -> Nat]
  <2>1. generation \in [Stack -> Nat]
    BY DEF TypeOK
  <2> QED
    BY <1>1, <1>2, <2>1
<1>4. stackDependsOn \subseteq Stack \X Nat
  BY <1>2, <1>3 DEF stackDependsOn
<1>5. conversions' \in Seq([stack : Stack, dependsOn : SUBSET (Stack \X Nat)])
  <2> DEFINE C == [stack : Stack, dependsOn : SUBSET (Stack \X Nat)]
             c == [stack |-> Top.stack, dependsOn |-> stackDependsOn]
  <2>1. c \in C
    BY <1>2, <1>4
  <2>2. conversions \in Seq(C) /\ conversions' = Append(conversions, c)
    BY <1>1 DEF TypeOK
  <2> HIDE DEF C, c
  <2>3. conversions' \in Seq(C)
    BY <2>1, <2>2
  <2> QED
    BY <2>3 DEF C
<1>6. frames' \in Seq(FrameType)
  BY <1>1, ConvertStackFrames
<1> QED
  BY <1>1, <1>3, <1>5, <1>6 DEF TypeOK

-----------------------------------------------------------------------------
(***************************************************************************)
(* Initially nothing is called and nothing converted.                      *)
(***************************************************************************)
LEMMA AppInvInit == Init => AppInv
<1> SUFFICES ASSUME Init PROVE AppInv
  OBVIOUS
<1>1. TypeOK
  BY TypeInit
<1>2. FramesInv
  BY DEF Init, FramesInv
<1>3. ConvertedInv
  BY DEF Init, ConvertedInv
<1> QED
  BY <1>1, <1>2, <1>3 DEF AppInv

(***************************************************************************)
(* The first loop only runs while nothing has a converter.                 *)
(***************************************************************************)
LEMMA AppInvCreate == AppInv /\ CreateConverters => AppInv'
<1> SUFFICES ASSUME AppInv, CreateConverters PROVE AppInv'
  OBVIOUS
<1>1. /\ stacks = {} /\ stacks' \subseteq Stack
      /\ UNCHANGED <<assembly, next, done, frames, generation, conversions, error>>
  BY DEF CreateConverters
<1>2. TypeOK'
  BY <1>1 DEF AppInv, TypeOK
<1>3. FramesInv'
  BY <1>1 DEF AppInv, FramesInv, FrameInv, Called
<1>4. ConvertedInv'
  BY <1>1 DEF AppInv, ConvertedInv
<1> QED
  BY <1>2, <1>3, <1>4 DEF AppInv

(***************************************************************************)
(* An iteration of the second loop starts with one call and an empty done. *)
(***************************************************************************)
LEMMA AppInvManifest == AppInv /\ NextManifest => AppInv'
<1> SUFFICES ASSUME AppInv, NextManifest PROVE AppInv'
  OBVIOUS
<1>1. TypeOK /\ done' = {} /\ UNCHANGED <<assembly, stacks, generation, conversions, error>>
  BY DEF NextManifest, AppInv
<1>2. PICK s \in Unconverted : next' = s /\ frames' = <<Frame(s)>>
  BY DEF NextManifest
<1>3. s \in stacks /\ s \in Stack
  BY <1>1 DEF Unconverted, TypeOK
<1>4. /\ Frame(s) \in FrameType
      /\ Frame(s).stack = s
      /\ Frame(s).todo = assembly.dependencies[s]
      /\ Frame(s).waits = {}
  BY <1>1, <1>3, NewFrame
<1>5. Len(frames') = 1 /\ frames'[1] = Frame(s) /\ frames' \in Seq(FrameType)
  BY <1>2, <1>4
<1>6. TypeOK'
  <2>1. next' \in 0..M
    BY <1>2, <1>3, MAssumption DEF Stack
  <2> QED
    BY <1>1, <1>5, <2>1 DEF TypeOK
<1>7. FramesInv'
  BY <1>1, <1>3, <1>4, <1>5 DEF FramesInv, FrameInv, Called
<1>8. ConvertedInv'
  BY <1>1 DEF AppInv, ConvertedInv
<1> QED
  BY <1>6, <1>7, <1>8 DEF AppInv

(***************************************************************************)
(* An iteration of the loop over the dependencies: the dependency goes     *)
(* from what is to be reached to what is waited for, or to the next call.  *)
(***************************************************************************)
LEMMA AppInvVisit == AppInv /\ VisitDependency => AppInv'
<1> SUFFICES ASSUME AppInv, VisitDependency PROVE AppInv'
  OBVIOUS
<1>1. /\ TypeOK /\ frames # <<>>
      /\ UNCHANGED <<assembly, stacks, next, done, generation, conversions>>
  BY DEF VisitDependency, AppInv
<1>2. TypeOK'
  BY <1>1, TypeVisit
<1>3. ConvertedInv'
  BY <1>1 DEF AppInv, ConvertedInv
<1>4. PICK k \in Nat \ {0} : k = Len(frames) /\ Top = frames[k]
  BY <1>1, TopIsFrame DEF Top
<1>5. FrameInv(k) /\ Called(k) = {}
  BY <1>4 DEF AppInv, FramesInv, Called
<1>6. PICK d \in Top.todo : UseDone(d) \/ ConvertDependency(d) \/ UnknownDependency(d)
  BY DEF VisitDependency
<1>7. ASSUME NEW i \in 1..(k - 1),
             Len(frames') = k \/ Len(frames') = k + 1,
             frames'[k].stack = Top.stack,
             \A j \in 1..(k - 1) : frames'[j] = frames[j]
      PROVE  FrameInv(i)'
  <2>1. FrameInv(i)
    BY <1>4 DEF AppInv, FramesInv
  <2>2. i < k /\ i < Len(frames') /\ (i + 1 \in 1..(k - 1) \/ i + 1 = k)
    BY <1>4, <1>7
  <2>3. frames'[i] = frames[i] /\ frames'[i + 1].stack = frames[i + 1].stack
    BY <1>4, <1>7, <2>2
  <2>4. Called(i)' = Called(i)
    BY <1>4, <2>2, <2>3 DEF Called
  <2> QED
    BY <1>1, <2>1, <2>3, <2>4 DEF FrameInv
<1>8. FramesInv'
  <2>1. CASE UseDone(d)
    <3>1. /\ d \in stacks /\ d \in done
          /\ Len(frames') = k
          /\ frames'[k].stack = Top.stack
          /\ frames'[k].todo = Top.todo \ {d}
          /\ frames'[k].waits = Top.waits \cup {d}
          /\ \A i \in 1..(k - 1) : frames'[i] = frames[i]
      BY <1>1, <1>4, <1>6, <2>1, UseDoneFrames
    <3>2. generation[d] > 0
      BY <3>1 DEF AppInv, ConvertedInv
    <3>3. Called(k)' = {}
      BY <1>4, <3>1 DEF Called
    <3>4. FrameInv(k)'
      BY <1>1, <1>4, <1>5, <1>6, <3>1, <3>2, <3>3 DEF FrameInv
    <3>5. ASSUME NEW i \in 1..k PROVE FrameInv(i)'
      <4>1. i = k \/ i \in 1..(k - 1)
        BY <1>4
      <4> QED
        BY <1>7, <3>1, <3>4, <4>1
    <3> QED
      BY <3>1, <3>5 DEF FramesInv
  <2>2. CASE ConvertDependency(d)
    <3>1. /\ d \in stacks
          /\ Len(frames') = k + 1
          /\ frames'[k].stack = Top.stack
          /\ frames'[k].todo = Top.todo \ {d}
          /\ frames'[k].waits = Top.waits
          /\ frames'[k + 1] = Frame(d)
          /\ \A i \in 1..(k - 1) : frames'[i] = frames[i]
      BY <1>1, <1>4, <1>6, <2>2, ConvertDependencyFrames
    <3>2. /\ frames'[k + 1].stack = d
          /\ frames'[k + 1].todo = assembly.dependencies[d]
          /\ frames'[k + 1].waits = {}
      BY <1>1, <3>1, NewFrame DEF TypeOK
    <3>3. Called(k)' = {d} /\ Called(k + 1)' = {}
      <4>1. k < k + 1 /\ ~ (k + 1 < k + 1)
        BY <1>4
      <4> QED
        BY <3>1, <3>2, <4>1 DEF Called
    <3>4. FrameInv(k)' /\ FrameInv(k + 1)'
      BY <1>1, <1>4, <1>5, <1>6, <3>1, <3>2, <3>3 DEF FrameInv
    <3>5. ASSUME NEW i \in 1..(k + 1) PROVE FrameInv(i)'
      <4>1. i = k \/ i = k + 1 \/ i \in 1..(k - 1)
        BY <1>4
      <4> QED
        BY <1>7, <3>1, <3>4, <4>1
    <3> QED
      BY <3>1, <3>5 DEF FramesInv
  <2>3. CASE UnknownDependency(d)
    BY <1>1, <2>3 DEF UnknownDependency, AppInv, FramesInv, FrameInv, Called
  <2> QED
    BY <1>6, <2>1, <2>2, <2>3
<1> QED
  BY <1>2, <1>3, <1>8 DEF AppInv

(***************************************************************************)
(* The conversion of a stack: it has waited for all it depends on, and its *)
(* caller waits for it.                                                    *)
(***************************************************************************)
LEMMA AppInvConvert == AppInv /\ ConvertStack => AppInv'
<1> SUFFICES ASSUME AppInv, ConvertStack PROVE AppInv'
  OBVIOUS
<1> DEFINE k == Len(frames) - 1
           s == Top.stack
<1>1. /\ TypeOK /\ frames # <<>> /\ Top.todo = {} /\ s \notin assembly.broken
      /\ generation' = [generation EXCEPT ![s] = @ + 1]
      /\ conversions' = Append(conversions, [stack |-> s, dependsOn |-> stackDependsOn])
      /\ done' = done \cup {s}
      /\ UNCHANGED <<assembly, stacks, next, error>>
  BY DEF ConvertStack, AppInv
<1>2. Len(frames) = k + 1 /\ k \in Nat /\ Top = frames[k + 1] /\ s \in Stack
  BY <1>1, TopIsFrame DEF Top
<1>3. /\ s \in stacks
      /\ Top.waits \subseteq stacks
      /\ \A d \in Top.waits : generation[d] > 0
      /\ assembly.dependencies[s] = Top.waits
  <2>1. FrameInv(k + 1) /\ Called(k + 1) = {}
    BY <1>2 DEF AppInv, FramesInv, Called
  <2> QED
    BY <1>1, <1>2, <2>1 DEF FrameInv
<1>4. TypeOK'
  BY <1>1, <1>3, TypeConvert
<1>5. generation \in [Stack -> Nat]
  BY <1>1 DEF TypeOK
<1>6. /\ generation'[s] > 0
      /\ \A d \in Stack : generation[d] > 0 => generation'[d] > 0
      /\ \A d \in Stack : generation'[d] > 0 => d = s \/ generation[d] > 0
  BY <1>1, <1>2, <1>5
<1>7. stacks \subseteq Stack
  BY <1>1 DEF TypeOK
<1>8. FramesInv'
  <2>1. /\ Len(frames') = k
        /\ k > 0 => /\ frames'[k].stack = frames[k].stack
                    /\ frames'[k].todo = frames[k].todo
                    /\ frames'[k].waits = frames[k].waits \cup {s}
        /\ \A i \in 1..(k - 1) : frames'[i] = frames[i]
    BY <1>1, ConvertStackFrames
  <2> HIDE DEF k, s
  <2> SUFFICES ASSUME NEW i \in 1..k PROVE FrameInv(i)'
    BY <2>1 DEF FramesInv
  <2>2. FrameInv(i)
    BY <1>2 DEF AppInv, FramesInv
  <2>3. CASE i = k
    <3>1. k > 0 /\ k < k + 1 /\ ~ (k < k)
      BY <1>2, <2>3
    <3>2. Called(i) = {s} /\ Called(i)' = {}
      BY <1>2, <2>1, <2>3, <3>1 DEF Called, s
    <3> QED
      BY <1>1, <1>2, <1>3, <1>6, <1>7, <2>1, <2>2, <2>3, <3>1, <3>2 DEF FrameInv
  <2>4. CASE i # k
    <3>1. /\ i \in 1..(k - 1) /\ k > 0 /\ i < k /\ i < k + 1
          /\ i + 1 \in 1..(k - 1) \/ i + 1 = k
      BY <1>2, <2>4
    <3>2. frames'[i] = frames[i] /\ frames'[i + 1].stack = frames[i + 1].stack
      BY <2>1, <3>1
    <3>3. Called(i)' = Called(i)
      BY <1>2, <2>1, <3>1, <3>2 DEF Called
    <3> QED
      BY <1>1, <1>6, <1>7, <2>2, <3>2, <3>3 DEF FrameInv
  <2> QED
    BY <2>3, <2>4
<1>9. ConvertedInv'
  <2>1. \A d \in done' : generation'[d] > 0
    BY <1>1, <1>6, <1>7 DEF AppInv, ConvertedInv, TypeOK
  <2>2. \A i \in 1..Len(conversions') : generation'[conversions'[i].stack] > 0
    <3> DEFINE C == [stack : Stack, dependsOn : SUBSET (Stack \X Nat)]
               c == [stack |-> s, dependsOn |-> stackDependsOn]
    <3>1. conversions \in Seq(C) /\ conversions' = Append(conversions, c)
      BY <1>1 DEF TypeOK
    <3>2. c.stack = s /\ \A x \in C : x.stack \in Stack
      OBVIOUS
    <3> HIDE DEF C, c
    <3>3. /\ Len(conversions) \in Nat
          /\ Len(conversions') = Len(conversions) + 1
          /\ \A i \in 1..Len(conversions) :
               conversions'[i] = conversions[i] /\ conversions[i] \in C
          /\ conversions'[Len(conversions) + 1] = c
      BY <3>1
    <3>4. \A i \in 1..Len(conversions) : generation[conversions[i].stack] > 0
      BY DEF AppInv, ConvertedInv
    <3>5. \A i \in 1..Len(conversions') :
            i \in 1..Len(conversions) \/ i = Len(conversions) + 1
      BY <3>3
    <3> HIDE DEF s
    <3> QED
      BY <1>6, <3>2, <3>3, <3>4, <3>5
  <2>3. ASSUME NEW t \in Stack, generation'[t] > 0
        PROVE  /\ t \in stacks \ assembly.broken
               /\ assembly.dependencies[t] \subseteq stacks
               /\ \A d \in assembly.dependencies[t] : generation'[d] > 0
    <3>1. CASE t = s
      BY <1>1, <1>3, <1>6, <1>7, <3>1
    <3>2. CASE generation[t] > 0
      BY <1>6, <1>7, <3>2 DEF AppInv, ConvertedInv
    <3> QED
      BY <1>6, <2>3, <3>1, <3>2
  <2> QED
    BY <1>1, <2>1, <2>2, <2>3 DEF ConvertedInv
<1> QED
  BY <1>4, <1>8, <1>9 DEF AppInv

(***************************************************************************)
(* A conversion that throws, the end, and a stutter change nothing that    *)
(* the invariant speaks of.                                                *)
(***************************************************************************)
LEMMA AppInvUnchanged ==
  ASSUME AppInv, ConvertFails \/ Terminating \/ UNCHANGED vars
  PROVE  AppInv'
<1>1. UNCHANGED <<assembly, stacks, next, done, frames, generation, conversions>>
  BY DEF ConvertFails, Terminating, vars
<1>2. error' = error \/ error' = "conversion failed"
  BY DEF ConvertFails, Terminating, vars
<1>3. TypeOK'
  BY <1>1, <1>2 DEF AppInv, TypeOK
<1>4. FramesInv'
  BY <1>1 DEF AppInv, FramesInv, FrameInv, Called
<1>5. ConvertedInv'
  BY <1>1 DEF AppInv, ConvertedInv
<1> QED
  BY <1>3, <1>4, <1>5 DEF AppInv

(***************************************************************************)
(* Every step keeps the invariant.                                         *)
(***************************************************************************)
LEMMA AppInvNext == AppInv /\ [Next]_vars => AppInv'
BY AppInvCreate, AppInvManifest, AppInvVisit, AppInvConvert, AppInvUnchanged DEF Next

(***************************************************************************)
(* The invariant the other results follow from: a call of                  *)
(* convertStackManifest loses none of the dependencies of its stack, and   *)
(* nothing is converted before all it depends on.                          *)
(***************************************************************************)
THEOREM AppInvariant == Spec => []AppInv
<1> QED
  BY AppInvInit, AppInvNext, PTL DEF Spec

(***************************************************************************)
(* Type correctness.                                                       *)
(***************************************************************************)
THEOREM TypeCorrect == Spec => []TypeOK
<1>1. AppInv => TypeOK
  BY DEF AppInv
<1> QED
  BY <1>1, AppInvariant, PTL

(***************************************************************************)
(* What was converted is closed under dependencies, so that it holds all   *)
(* that a converted stack needs, at whatever distance.                     *)
(***************************************************************************)
THEOREM FailuresPropagate == Spec => []NothingOverFailure
<1>1. AppInv => NothingOverFailure
  <2> SUFFICES ASSUME AppInv, NEW i \in 1..Len(conversions),
                      NEW n \in Needs(conversions[i].stack)
               PROVE  n \in stacks \ assembly.broken /\ assembly.dependencies[n] \subseteq stacks
    BY DEF NothingOverFailure
  <2> DEFINE C == {s \in Stack : generation[s] > 0}
  <2>1. Closed(C)
    BY DEF Closed, AppInv, ConvertedInv
  <2>2. conversions[i].stack \in C
    <3>1. generation[conversions[i].stack] > 0
      BY DEF AppInv, ConvertedInv
    <3> DEFINE D == [stack : Stack, dependsOn : SUBSET (Stack \X Nat)]
    <3>2. conversions \in Seq(D)
      BY DEF AppInv, TypeOK
    <3>3. \A x \in D : x.stack \in Stack
      OBVIOUS
    <3> HIDE DEF D
    <3>4. conversions[i] \in D
      BY <3>2
    <3> QED
      BY <3>1, <3>3, <3>4
  <2>3. n \in C
    <3>1. C \in SUBSET Stack
      OBVIOUS
    <3> HIDE DEF C
    <3> QED
      BY <2>1, <2>2, <3>1 DEF Needs
  <2> QED
    BY <2>3 DEF AppInv, ConvertedInv
<1> QED
  BY <1>1, AppInvariant, PTL

(***************************************************************************)
(* The stack resource that a conversion registers depends on the latest    *)
(* stack resource of exactly the stacks its manifest names, all of which   *)
(* exist.                                                                  *)
(***************************************************************************)
THEOREM LatestDependencies == Spec => DependsOnLatest
<1> DEFINE Latest ==
      LET c == conversions'[Len(conversions')]
      IN  c.dependsOn = {<<d, generation[d]>> : d \in assembly.dependencies[c.stack]}
          /\ \A p \in c.dependsOn : p[2] > 0
<1>1. AppInv /\ ConvertStack => Latest
  <2> SUFFICES ASSUME AppInv, ConvertStack PROVE Latest
    OBVIOUS
  <2> DEFINE c == [stack |-> Top.stack, dependsOn |-> stackDependsOn]
  <2>1. TypeOK /\ frames # <<>> /\ Top.todo = {} /\ conversions' = Append(conversions, c)
    BY DEF ConvertStack, AppInv
  <2>2. PICK k \in Nat \ {0} : k = Len(frames) /\ Top = frames[k]
    BY <2>1, TopIsFrame DEF Top
  <2>3. FrameInv(k) /\ Called(k) = {}
    BY <2>2 DEF AppInv, FramesInv, Called
  <2>4. /\ assembly.dependencies[Top.stack] = Top.waits
        /\ \A d \in Top.waits : generation[d] > 0
    BY <2>1, <2>2, <2>3 DEF FrameInv
  <2>5. conversions'[Len(conversions')] = c
    <3> DEFINE D == [stack : Stack, dependsOn : SUBSET (Stack \X Nat)]
    <3>1. conversions \in Seq(D)
      BY <2>1 DEF TypeOK
    <3> HIDE DEF c, D
    <3> QED
      BY <2>1, <3>1
  <2>6. /\ c.stack = Top.stack
        /\ c.dependsOn = {<<d, generation[d]>> : d \in assembly.dependencies[Top.stack]}
    BY <2>4 DEF stackDependsOn
  <2>7. \A p \in c.dependsOn : p[2] > 0
    BY <2>4, <2>6
  <2> HIDE DEF c
  <2> QED
    BY <2>5, <2>6, <2>7
<1>2. AppInv /\ [Next]_vars => [conversions' # conversions => Latest]_vars
  <2> HIDE DEF Latest
  <2>1. Next /\ ~ ConvertStack => UNCHANGED conversions
    BY DEF Next, CreateConverters, NextManifest, VisitDependency, ConvertFails, Terminating, vars
  <2> QED
    BY <1>1, <2>1
<1> QED
  BY <1>2, AppInvariant, PTL DEF Spec, DependsOnLatest
-----------------------------------------------------------------------------
(***************************************************************************)
(* What a needed stack depends on is needed.                               *)
(***************************************************************************)
LEMMA NeedsClosed ==
  ASSUME NEW t, NEW s \in Needs(t), NEW d \in assembly.dependencies[s] \cap Stack
  PROVE  d \in Needs(t)
<1>1. ASSUME NEW C \in SUBSET Stack, t \in C, Closed(C) PROVE d \in C
  <2>1. s \in C
    BY <1>1 DEF Needs
  <2> QED
    BY <1>1, <2>1 DEF Closed
<1> QED
  BY <1>1 DEF Needs

(***************************************************************************)
(* When an iteration has ended, done is exactly what its stack needs.      *)
(***************************************************************************)
LEMMA DoneIsNeeded ==
  ASSUME TypeOK, IterationInv, next \in done
  PROVE  done = Needs(next)
<1>1. done \in SUBSET Stack
  BY DEF TypeOK
<1>2. Closed(done) /\ done \subseteq Needs(next)
  BY DEF IterationInv, Closed
<1>3. Needs(next) \subseteq done
  BY <1>1, <1>2 DEF Needs
<1> QED
  BY <1>2, <1>3

(***************************************************************************)
(* Stacks are numbers, from 1 on, and so are the manifests.                *)
(***************************************************************************)
LEMMA StackNumbers ==
  ASSUME TypeOK
  PROVE  /\ stacks \subseteq Stack
         /\ next \in 0..M /\ next \in Int /\ 0 <= next
         /\ \A t \in Stack : t \in 0..M /\ t \in Int /\ 0 < t
<1>1. stacks \subseteq Stack /\ next \in 0..M
  BY DEF TypeOK
<1>2. \A t \in Stack : t \in 0..M /\ t \in Int /\ 0 < t
  BY MAssumption DEF Stack
<1> QED
  BY <1>1, <1>2, MAssumption

(***************************************************************************)
(* The iterations that have converted a stack are finitely many.           *)
(***************************************************************************)
LEMMA IterationsFinite ==
  ASSUME TypeOK, NEW s \in Stack
  PROVE  IsFiniteSet(Iterations(s))
<1>1. IsFiniteSet(0..M)
  BY MAssumption, FS_Interval
<1>2. Iterations(s) \subseteq 0..M
  BY StackNumbers DEF Iterations
<1> QED
  BY <1>1, <1>2, FS_Subset

(***************************************************************************)
(* Initially there has been no iteration.                                  *)
(***************************************************************************)
LEMMA OnceInit == Init => IterationInv /\ CountInv
<1> SUFFICES ASSUME Init PROVE IterationInv /\ CountInv
  OBVIOUS
<1>1. IterationInv
  BY DEF Init, IterationInv
<1>2. ASSUME NEW s \in Stack PROVE generation[s] = Cardinality(Iterations(s))
  <2>1. Iterations(s) = {} /\ generation[s] = 0
    BY <1>2 DEF Init, Iterations
  <2> QED
    BY <2>1, FS_EmptySet
<1> QED
  BY <1>1, <1>2 DEF CountInv

(***************************************************************************)
(* The converters are made before the first iteration.                     *)
(***************************************************************************)
LEMMA OnceCreate == OnceInv /\ CreateConverters => IterationInv' /\ CountInv'
<1> SUFFICES ASSUME OnceInv, CreateConverters PROVE IterationInv' /\ CountInv'
  OBVIOUS
<1>1. /\ next = 0 /\ done = {} /\ frames = <<>> /\ stacks = {} /\ stacks' \subseteq Stack
      /\ UNCHANGED <<assembly, next, done, frames, generation, conversions, error>>
  BY DEF CreateConverters, OnceInv, IterationInv
<1>2. IterationInv'
  BY <1>1 DEF IterationInv
<1>3. ASSUME NEW s \in Stack PROVE Iterations(s)' = Iterations(s)
  <2>1. \A t \in stacks' : ~ (t < 0)
    BY <1>1, MAssumption DEF Stack
  <2> QED
    BY <1>1, <2>1 DEF Iterations
<1>4. CountInv'
  BY <1>1, <1>3 DEF OnceInv, CountInv
<1> QED
  BY <1>2, <1>4

(***************************************************************************)
(* The next iteration starts: what the last one needed is what it has      *)
(* converted, so that forgetting done loses no conversion.                 *)
(***************************************************************************)
LEMMA OnceManifest == OnceInv /\ NextManifest => IterationInv' /\ CountInv'
<1> SUFFICES ASSUME OnceInv, NextManifest PROVE IterationInv' /\ CountInv'
  OBVIOUS
<1>1. /\ TypeOK /\ IterationInv /\ frames = <<>> /\ done' = {}
      /\ UNCHANGED <<assembly, stacks, generation, conversions, error>>
  BY DEF NextManifest, OnceInv, AppInv
<1>2. PICK n \in Unconverted :
        /\ \A o \in Unconverted : n <= o
        /\ next' = n
        /\ frames' = <<Frame(n)>>
  BY DEF NextManifest
<1>3. n \in stacks /\ n \in Stack /\ n > next /\ n > 0 /\ next \in 0..M
  BY <1>1, <1>2, StackNumbers DEF Unconverted
<1>4. Len(frames') = 1 /\ frames'[1] = Frame(n) /\ Frame(n).stack = n /\ Frame(n).waits = {}
  BY <1>1, <1>2, <1>3, NewFrame
<1>5. n \in Needs(n)'
  BY <1>3 DEF Needs
<1>6. IterationInv'
  BY <1>1, <1>2, <1>3, <1>4, <1>5 DEF IterationInv
<1>7. \A t \in stacks : t < n <=> t <= next
  BY <1>1, <1>2, <1>3, StackNumbers DEF Unconverted
<1>8. ASSUME NEW s \in Stack PROVE Iterations(s)' = Iterations(s)
  <2>1. \A t \in stacks : s \in Needs(t)' <=> s \in Needs(t)
    BY <1>1 DEF Needs, Closed
  <2>2. Iterations(s)' = {t \in stacks : t <= next /\ s \in Needs(t)}
    BY <1>1, <1>2, <1>7, <2>1 DEF Iterations
  <2>3. CASE next = 0
    <3>1. done = {} /\ \A t \in stacks : ~ (t <= 0) /\ ~ (t < 0)
      BY <1>1, <2>3, StackNumbers DEF IterationInv
    <3> QED
      BY <2>2, <2>3, <3>1 DEF Iterations
  <2>4. CASE next # 0
    <3>1. next \in stacks /\ next \in done
      BY <1>1, <2>4 DEF IterationInv
    <3>2. done = Needs(next)
      BY <1>1, <3>1, DoneIsNeeded
    <3>3. \A t \in stacks : t <= next <=> t < next \/ t = next
      BY <1>1, StackNumbers
    <3> QED
      BY <2>2, <3>1, <3>2, <3>3 DEF Iterations
  <2> QED
    BY <2>3, <2>4
<1>9. CountInv'
  BY <1>1, <1>8 DEF OnceInv, CountInv
<1> QED
  BY <1>6, <1>9

(***************************************************************************)
(* A dependency that is done is waited for; one that is not is called, and *)
(* is needed by what needs its caller.                                     *)
(***************************************************************************)
LEMMA OnceVisit == OnceInv /\ VisitDependency => IterationInv' /\ CountInv'
<1> SUFFICES ASSUME OnceInv, VisitDependency PROVE IterationInv' /\ CountInv'
  OBVIOUS
<1>1. /\ TypeOK /\ IterationInv /\ frames # <<>>
      /\ UNCHANGED <<assembly, stacks, next, done, generation, conversions>>
  BY DEF VisitDependency, OnceInv, AppInv
<1>2. \A t : Needs(t)' = Needs(t)
  BY <1>1 DEF Needs, Closed
<1>3. CountInv'
  <2>1. \A s \in Stack : Iterations(s)' = Iterations(s)
    BY <1>1, <1>2 DEF Iterations
  <2> QED
    BY <1>1, <2>1 DEF OnceInv, CountInv
<1>4. PICK k \in Nat \ {0} : k = Len(frames) /\ Top = frames[k]
  BY <1>1, TopIsFrame DEF Top
<1>5. PICK d \in Top.todo : UseDone(d) \/ ConvertDependency(d) \/ UnknownDependency(d)
  BY DEF VisitDependency
<1>6. ASSUME NEW i \in 1..k
      PROVE  frames[i].stack \in Needs(next) \ done /\ frames[i].waits \subseteq done
  BY <1>1, <1>4 DEF IterationInv
<1>7. frames[1].stack = next /\ next # 0 /\ next \in stacks
  BY <1>1 DEF IterationInv
<1>8. ASSUME frames' # <<>>, frames'[1].stack = next,
             NEW j \in Nat, j = Len(frames'),
             \A i \in 1..j :
               frames'[i].stack \in Needs(next) \ done /\ frames'[i].waits \subseteq done
      PROVE  IterationInv'
  BY <1>1, <1>2, <1>7, <1>8 DEF IterationInv
<1>9. CASE UseDone(d)
  <2>1. /\ d \in done
        /\ Len(frames') = k
        /\ frames'[k].stack = Top.stack
        /\ frames'[k].waits = Top.waits \cup {d}
        /\ \A i \in 1..(k - 1) : frames'[i] = frames[i]
    BY <1>1, <1>4, <1>5, <1>9, UseDoneFrames
  <2>2. ASSUME NEW i \in 1..k
        PROVE  /\ frames'[i].stack = frames[i].stack
               /\ frames'[i].waits \subseteq frames[i].waits \cup {d}
    <3>1. i = k \/ i \in 1..(k - 1)
      BY <1>4
    <3> QED
      BY <1>4, <2>1, <3>1
  <2>3. frames' # <<>> /\ frames'[1].stack = next
    BY <1>4, <1>7, <2>1, <2>2
  <2> QED
    BY <1>3, <1>4, <1>6, <1>8, <2>1, <2>2, <2>3
<1>10. CASE ConvertDependency(d)
  <2>1. /\ d \in stacks
        /\ Len(frames') = k + 1
        /\ frames'[k].stack = Top.stack
        /\ frames'[k].waits = Top.waits
        /\ frames'[k + 1] = Frame(d)
        /\ \A i \in 1..(k - 1) : frames'[i] = frames[i]
    BY <1>1, <1>4, <1>5, <1>10, ConvertDependencyFrames
  <2>2. frames'[k + 1].stack = d /\ frames'[k + 1].waits = {} /\ d \in Stack
    BY <1>1, <2>1, NewFrame DEF TypeOK
  <2>3. d \in Needs(next) \ done
    <3>1. d \in assembly.dependencies[Top.stack] /\ Top.stack \in Needs(next)
      BY <1>4, <1>5, <1>6 DEF OnceInv, AppInv, FramesInv, FrameInv
    <3>2. d \notin done
      BY <1>10 DEF ConvertDependency
    <3> QED
      BY <2>2, <3>1, <3>2, NeedsClosed
  <2>4. ASSUME NEW i \in 1..k
        PROVE  frames'[i].stack = frames[i].stack /\ frames'[i].waits = frames[i].waits
    <3>1. i = k \/ i \in 1..(k - 1)
      BY <1>4
    <3> QED
      BY <1>4, <2>1, <3>1
  <2>5. frames' # <<>> /\ frames'[1].stack = next
    BY <1>4, <1>7, <2>1, <2>4
  <2>6. ASSUME NEW i \in 1..(k + 1)
        PROVE  frames'[i].stack \in Needs(next) \ done /\ frames'[i].waits \subseteq done
    <3>1. i = k + 1 \/ i \in 1..k
      BY <1>4
    <3> QED
      BY <1>6, <2>2, <2>3, <2>4, <3>1
  <2> QED
    BY <1>3, <1>4, <1>8, <2>1, <2>5, <2>6
<1>11. CASE UnknownDependency(d)
  BY <1>1, <1>3, <1>4, <1>6, <1>7, <1>8, <1>11 DEF UnknownDependency
<1> QED
  BY <1>3, <1>5, <1>9, <1>10, <1>11

(***************************************************************************)
(* A conversion counts for this iteration, and only once: what calls the   *)
(* stack that has been converted still calls something that is not done.   *)
(***************************************************************************)
LEMMA OnceConvert == OnceInv /\ ConvertStack => IterationInv' /\ CountInv'
<1> SUFFICES ASSUME OnceInv, ConvertStack PROVE IterationInv' /\ CountInv'
  OBVIOUS
<1> DEFINE k == Len(frames) - 1
           s == Top.stack
<1>1. /\ TypeOK /\ IterationInv /\ frames # <<>> /\ Top.todo = {}
      /\ generation' = [generation EXCEPT ![s] = @ + 1]
      /\ done' = done \cup {s}
      /\ UNCHANGED <<assembly, stacks, next, error>>
  BY DEF ConvertStack, OnceInv, AppInv
<1>2. Len(frames) = k + 1 /\ k \in Nat /\ Top = frames[k + 1] /\ s \in Stack
  BY <1>1, TopIsFrame DEF Top
<1>3. \A t : Needs(t)' = Needs(t)
  BY <1>1 DEF Needs, Closed
<1>4. /\ Len(frames') = k
      /\ k > 0 => /\ frames'[k].stack = frames[k].stack
                  /\ frames'[k].waits = frames[k].waits \cup {s}
      /\ \A i \in 1..(k - 1) : frames'[i] = frames[i]
      /\ frames' \in Seq(FrameType)
  BY <1>1, ConvertStackFrames
<1>5. ASSUME NEW i \in 1..(k + 1)
      PROVE  frames[i].stack \in Needs(next) \ done /\ frames[i].waits \subseteq done
  BY <1>1, <1>2 DEF IterationInv
<1>6. /\ next # 0 /\ next \in stacks /\ frames[1].stack = next
      /\ \A d \in done : d \in Needs(next) /\ assembly.dependencies[d] \subseteq done
  BY <1>1 DEF IterationInv
<1>7. s \in Needs(next) /\ s \notin done /\ Top.waits \subseteq done
  BY <1>2, <1>5
<1>8. assembly.dependencies[s] \subseteq done
  <2>1. FrameInv(k + 1) /\ Called(k + 1) = {}
    BY <1>2 DEF OnceInv, AppInv, FramesInv, Called
  <2> QED
    BY <1>1, <1>2, <1>7, <2>1 DEF FrameInv
<1>9. ASSUME NEW i \in 1..k PROVE frames[i].stack # s
  <2>1. i \in 1..Len(frames) /\ i < Len(frames) /\ i + 1 \in 1..(k + 1)
    BY <1>2
  <2>2. frames[i + 1].stack \in assembly.dependencies[frames[i].stack]
    BY <2>1 DEF OnceInv, AppInv, FramesInv, FrameInv, Called
  <2>3. frames[i + 1].stack \notin done
    BY <1>5, <2>1
  <2> QED
    BY <1>8, <2>2, <2>3
<1>10. IterationInv'
  <2> HIDE DEF k, s
  <2>1. ASSUME NEW i \in 1..k
        PROVE  /\ frames'[i].stack = frames[i].stack
               /\ frames'[i].waits \subseteq frames[i].waits \cup {s}
    <3>1. (i = k /\ k > 0) \/ i \in 1..(k - 1)
      BY <1>2
    <3> QED
      BY <1>4, <3>1
  <2>2. ASSUME NEW i \in 1..k
        PROVE  frames'[i].stack \in Needs(next) \ done' /\ frames'[i].waits \subseteq done'
    BY <1>1, <1>2, <1>5, <1>9, <2>1
  <2>3. frames' # <<>> => frames'[1].stack = next
    <3> SUFFICES ASSUME frames' # <<>> PROVE frames'[1].stack = next
      OBVIOUS
    <3>1. 1 \in 1..k
      BY <1>2, <1>4
    <3> QED
      BY <1>6, <2>1, <3>1
  <2>4. frames' = <<>> => next \in done'
    <3> SUFFICES ASSUME frames' = <<>> PROVE next \in done'
      OBVIOUS
    <3>1. k = 0
      BY <1>4
    <3> QED
      BY <1>1, <1>2, <1>6, <3>1 DEF s
  <2>5. \A d \in done' : d \in Needs(next) /\ assembly.dependencies[d] \subseteq done'
    BY <1>1, <1>6, <1>7, <1>8
  <2> QED
    BY <1>1, <1>3, <1>4, <1>6, <2>2, <2>3, <2>4, <2>5 DEF IterationInv
<1>11. CountInv'
  <2> SUFFICES ASSUME NEW t \in Stack PROVE generation'[t] = Cardinality(Iterations(t)')
    BY DEF CountInv
  <2>1. generation \in [Stack -> Nat] /\ generation[t] = Cardinality(Iterations(t))
    BY <1>1 DEF TypeOK, OnceInv, CountInv
  <2> HIDE DEF k, s
  <2>2. CASE t = s
    <3>1. Iterations(t)' = Iterations(t) \cup {next}
      BY <1>1, <1>3, <2>2 DEF Iterations
    <3>2. next \notin Iterations(t)
      <4>1. next \in 0..M
        BY <1>1 DEF TypeOK
      <4> QED
        BY <1>7, <2>2, <4>1, MAssumption DEF Iterations
    <3>3. IsFiniteSet(Iterations(t))
      BY <1>1, IterationsFinite
    <3>4. Cardinality(Iterations(t) \cup {next}) = Cardinality(Iterations(t)) + 1
      BY <3>2, <3>3, FS_AddElement
    <3> QED
      BY <1>1, <2>1, <2>2, <3>1, <3>4
  <2>3. CASE t # s
    <3>1. Iterations(t)' = Iterations(t)
      BY <1>1, <1>3, <2>3 DEF Iterations
    <3> QED
      BY <1>1, <1>2, <2>1, <2>3, <3>1
  <2> QED
    BY <2>2, <2>3
<1> QED
  BY <1>10, <1>11

(***************************************************************************)
(* A failure, the end and a stutter convert nothing.                       *)
(***************************************************************************)
LEMMA OnceUnchanged ==
  ASSUME OnceInv, ConvertFails \/ Terminating \/ UNCHANGED vars
  PROVE  IterationInv' /\ CountInv'
<1>1. UNCHANGED <<assembly, stacks, next, done, frames, generation>>
  BY DEF ConvertFails, Terminating, vars
<1>2. \A t : Needs(t)' = Needs(t)
  BY <1>1 DEF Needs, Closed
<1>3. \A s \in Stack : Iterations(s)' = Iterations(s)
  BY <1>1, <1>2 DEF Iterations
<1> QED
  BY <1>1, <1>2, <1>3 DEF OnceInv, IterationInv, CountInv

(***************************************************************************)
(* The iterations of the second loop: done is what this one has converted, *)
(* and each stack resource belongs to an iteration that needed it.         *)
(***************************************************************************)
THEOREM OnceInvariant == Spec => []OnceInv
<1>1. Init => OnceInv
  BY AppInvInit, OnceInit DEF OnceInv
<1>2. OnceInv /\ [Next]_vars => OnceInv'
  <2> SUFFICES ASSUME OnceInv, [Next]_vars PROVE OnceInv'
    OBVIOUS
  <2>1. AppInv'
    BY AppInvNext DEF OnceInv
  <2>2. IterationInv' /\ CountInv'
    BY OnceCreate, OnceManifest, OnceVisit, OnceConvert, OnceUnchanged DEF Next
  <2> QED
    BY <2>1, <2>2 DEF OnceInv
<1> QED
  BY <1>1, <1>2, PTL DEF Spec

(***************************************************************************)
(* When convert has returned, each stack has been converted once for every *)
(* stack that needs it, itself included: several iterations convert it     *)
(* again, one iteration never does.                                        *)
(***************************************************************************)
THEOREM ConvertedOncePerDependent == Spec => []OncePerDependent
<1>1. OnceInv => OncePerDependent
  <2> SUFFICES ASSUME OnceInv, Finished, NEW s \in stacks
               PROVE  generation[s] = Cardinality({t \in stacks : s \in Needs(t)})
    BY DEF OncePerDependent
  <2>1. TypeOK /\ IterationInv /\ frames = <<>> /\ Unconverted = {} /\ s \in Stack
    BY DEF OnceInv, AppInv, Finished, TypeOK
  <2>2. \A t \in stacks : t <= next /\ (t <= next <=> t < next \/ t = next)
    BY <2>1, StackNumbers DEF Unconverted
  <2>3. next # 0 /\ next \in stacks /\ next \in done
    <3>1. s <= next /\ s > 0
      BY <2>1, <2>2, StackNumbers
    <3> QED
      BY <2>1, <3>1, StackNumbers DEF IterationInv
  <2>4. done = Needs(next)
    BY <2>1, <2>3, DoneIsNeeded
  <2>5. Iterations(s) = {t \in stacks : s \in Needs(t)}
    BY <2>2, <2>3, <2>4 DEF Iterations
  <2> QED
    BY <2>1, <2>5 DEF OnceInv, CountInv
<1> QED
  BY <1>1, OnceInvariant, PTL
=============================================================================
