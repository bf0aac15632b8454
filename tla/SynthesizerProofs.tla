--------------------------- MODULE SynthesizerProofs ---------------------------
(***************************************************************************)
(* Proofs about Synthesizer: type correctness, StoredWhenReady and         *)
(* CreatedOnce for any number of stacks, hashes and names of images; that  *)
(* there is one bucket for an app of one stack.                            *)
(***************************************************************************)
EXTENDS Synthesizer, SequenceTheorems, TLAPS

(***************************************************************************)
(* What is registered, as a set of ids; and what makes a sequence of       *)
(* resources good: each one finds what it depends on before it, and no     *)
(* resource that is to be created once has the id of another.              *)
(***************************************************************************)
OnceTypes == BucketTypes \cup {"BucketObject", "Repository"}

KnownIn(s) == {Id(s[i]) : i \in 1..Len(s)}

ReadyIn(s) ==
  \A i \in 1..Len(s) :
    /\ s[i].type = "BucketObject" => BucketTypes \X {s[i].by} \subseteq s[i].dependsOn
    /\ s[i].dependsOn \subseteq {Id(s[j]) : j \in 1..(i - 1)}

OnceIn(s) ==
  \A i, j \in 1..Len(s) : s[i].type \in OnceTypes /\ Id(s[i]) = Id(s[j]) => i = j

Good(s) == s \in Seq(ResourceType) /\ ReadyIn(s) /\ OnceIn(s)

(***************************************************************************)
(* The inductive invariant: the memos of the synthesizer know exactly what *)
(* is registered.  That is why nothing is created twice and why what an    *)
(* upload depends on exists.                                               *)
(***************************************************************************)
MemosOK ==
  /\ bound \subseteq Stack
  /\ stagingBucket \subseteq bound
  /\ fileDependencies = BucketTypes \X stagingBucket
  /\ seenFileAssets \subseteq Hash
  /\ stagingRepos \subseteq Repo
  /\ seenImageAssets \subseteq AssetName \X Hash
  /\ locations \subseteq LocationType
  /\ synthesized \subseteq bound
  /\ error \in {"none"} \cup Refusals

MemosKnow ==
  /\ \A type \in BucketTypes, c \in Stack : <<type, c>> \in KnownIn(registered) <=> c \in stagingBucket
  /\ \A h \in Hash : <<"BucketObject", h>> \in KnownIn(registered) <=> h \in seenFileAssets
  /\ \A r \in Repo : <<"Repository", r>> \in KnownIn(registered) <=> r \in stagingRepos

Inv == MemosOK /\ Good(registered) /\ MemosKnow

(***************************************************************************)
(* One more resource after a good sequence.                                *)
(***************************************************************************)
LEMMA GoodAppend ==
  ASSUME NEW s, Good(s), NEW r \in ResourceType,
         r.dependsOn \subseteq KnownIn(s),
         r.type = "BucketObject" => BucketTypes \X {r.by} \subseteq r.dependsOn,
         r.type \in OnceTypes => Id(r) \notin KnownIn(s)
  PROVE  Good(Append(s, r)) /\ KnownIn(Append(s, r)) = KnownIn(s) \cup {Id(r)}
<1> DEFINE t == Append(s, r)
<1>1. /\ s \in Seq(ResourceType) /\ t \in Seq(ResourceType)
      /\ Len(s) \in Nat /\ Len(t) = Len(s) + 1
      /\ t[Len(s) + 1] = r
      /\ \A i \in 1..Len(s) : t[i] = s[i]
  BY DEF Good
<1>2. 1..Len(t) = (1..Len(s)) \cup {Len(s) + 1}
  BY <1>1
<1> HIDE DEF t
<1>3. KnownIn(t) = KnownIn(s) \cup {Id(r)}
  BY <1>1, <1>2 DEF KnownIn
<1>4. ReadyIn(t)
  <2> SUFFICES ASSUME NEW i \in 1..Len(t)
               PROVE  /\ t[i].type = "BucketObject" => BucketTypes \X {t[i].by} \subseteq t[i].dependsOn
                      /\ t[i].dependsOn \subseteq {Id(t[j]) : j \in 1..(i - 1)}
    BY DEF ReadyIn
  <2>1. CASE i \in 1..Len(s)
    <3>1. \A j \in 1..(i - 1) : j \in 1..Len(s) /\ t[j] = s[j]
      BY <1>1, <2>1
    <3>2. {Id(t[j]) : j \in 1..(i - 1)} = {Id(s[j]) : j \in 1..(i - 1)}
      BY <3>1
    <3> QED BY <1>1, <2>1, <3>2 DEF Good, ReadyIn
  <2>2. CASE i = Len(s) + 1
    <3>1. 1..(i - 1) = 1..Len(s)
      BY <1>1, <2>2
    <3>2. {Id(t[j]) : j \in 1..(i - 1)} = KnownIn(s)
      BY <1>1, <3>1 DEF KnownIn
    <3> QED BY <1>1, <2>2, <3>2
  <2> QED BY <1>2, <2>1, <2>2
<1>5. OnceIn(t)
  <2> SUFFICES ASSUME NEW i \in 1..Len(t), NEW j \in 1..Len(t), t[i].type \in OnceTypes, Id(t[i]) = Id(t[j])
               PROVE  i = j
    BY DEF OnceIn
  <2>1. CASE i \in 1..Len(s) /\ j \in 1..Len(s)
    BY <1>1, <2>1 DEF Good, OnceIn
  <2>2. CASE i \in 1..Len(s) /\ j = Len(s) + 1
    <3>1. Id(r) \in KnownIn(s)
      BY <1>1, <2>2 DEF KnownIn
    <3>2. r.type = s[i].type
      BY <1>1, <2>2 DEF Id
    <3> QED BY <1>1, <2>2, <3>1, <3>2
  <2>3. CASE i = Len(s) + 1 /\ j \in 1..Len(s)
    BY <1>1, <2>3 DEF KnownIn
  <2> QED BY <1>2, <2>1, <2>2, <2>3
<1> QED BY <1>1, <1>3, <1>4, <1>5 DEF Good, t

(***************************************************************************)
(* getCreateBucket: five resources, each after what it needs.              *)
(***************************************************************************)
LEMMA GoodBucket ==
  ASSUME NEW s, Good(s), NEW c \in Stack,
         \A type \in BucketTypes : <<type, c>> \notin KnownIn(s)
  PROVE  /\ Good(s \o BucketResources(c))
         /\ KnownIn(s \o BucketResources(c)) = KnownIn(s) \cup (BucketTypes \X {c})
<1> DEFINE bucket == <<"Bucket", c>>
           r1 == Resource("Bucket", "staging", c, {})
           r2 == Resource("BucketEncryption", "staging", c, {bucket})
           r3 == Resource("BucketVersioning", "staging", c, {bucket})
           r4 == Resource("BucketLifecycle", "staging", c, {bucket, <<"BucketVersioning", c>>})
           r5 == Resource("BucketPolicy", "staging", c, {bucket})
           s1 == Append(s, r1)
           s2 == Append(s1, r2)
           s3 == Append(s2, r3)
           s4 == Append(s3, r4)
           s5 == Append(s4, r5)
<1>1. /\ r1 \in ResourceType /\ r2 \in ResourceType /\ r3 \in ResourceType
      /\ r4 \in ResourceType /\ r5 \in ResourceType
  <2> SUFFICES ASSUME NEW type \in BucketTypes, NEW deps \in SUBSET Reference
               PROVE  Resource(type, "staging", c, deps) \in ResourceType
    BY DEF BucketTypes, Reference
  <2> QED BY DEF Resource, ResourceType
<1>2. /\ Id(r1) = bucket /\ Id(r2) = <<"BucketEncryption", c>> /\ Id(r3) = <<"BucketVersioning", c>>
      /\ Id(r4) = <<"BucketLifecycle", c>> /\ Id(r5) = <<"BucketPolicy", c>>
  BY DEF Id, Resource, BucketTypes
<1>3. /\ r1.type # "BucketObject" /\ r2.type # "BucketObject" /\ r3.type # "BucketObject"
      /\ r4.type # "BucketObject" /\ r5.type # "BucketObject"
      /\ r1.dependsOn = {} /\ r2.dependsOn = {bucket} /\ r3.dependsOn = {bucket}
      /\ r4.dependsOn = {bucket, <<"BucketVersioning", c>>} /\ r5.dependsOn = {bucket}
  BY DEF Resource
<1>4. /\ bucket \notin KnownIn(s) /\ <<"BucketEncryption", c>> \notin KnownIn(s)
      /\ <<"BucketVersioning", c>> \notin KnownIn(s) /\ <<"BucketLifecycle", c>> \notin KnownIn(s)
      /\ <<"BucketPolicy", c>> \notin KnownIn(s)
  BY DEF BucketTypes
<1>5. s \o BucketResources(c) = s5
  <2>1. s \in Seq(ResourceType) BY DEF Good
  <2>2. BucketResources(c) = <<r1, r2, r3, r4, r5>> BY DEF BucketResources
  <2> HIDE DEF r1, r2, r3, r4, r5
  <2>3. s \o <<r1, r2, r3, r4, r5>> = s5
    BY <1>1, <2>1
  <2> QED BY <2>2, <2>3
<1>6. {<<"Bucket", c>>, <<"BucketEncryption", c>>, <<"BucketVersioning", c>>, <<"BucketLifecycle", c>>,
       <<"BucketPolicy", c>>} = BucketTypes \X {c}
  BY DEF BucketTypes
<1> HIDE DEF r1, r2, r3, r4, r5
<1>7. Good(s1) /\ KnownIn(s1) = KnownIn(s) \cup {bucket}
  BY <1>1, <1>2, <1>3, <1>4, GoodAppend
<1> HIDE DEF s1
<1>8. Good(s2) /\ KnownIn(s2) = KnownIn(s1) \cup {<<"BucketEncryption", c>>}
  BY <1>1, <1>2, <1>3, <1>4, <1>7, GoodAppend
<1> HIDE DEF s2
<1>9. Good(s3) /\ KnownIn(s3) = KnownIn(s2) \cup {<<"BucketVersioning", c>>}
  BY <1>1, <1>2, <1>3, <1>4, <1>7, <1>8, GoodAppend
<1> HIDE DEF s3
<1>10. Good(s4) /\ KnownIn(s4) = KnownIn(s3) \cup {<<"BucketLifecycle", c>>}
  BY <1>1, <1>2, <1>3, <1>4, <1>7, <1>8, <1>9, GoodAppend
<1> HIDE DEF s4
<1>11. Good(s5) /\ KnownIn(s5) = KnownIn(s4) \cup {<<"BucketPolicy", c>>}
  BY <1>1, <1>2, <1>3, <1>4, <1>7, <1>8, <1>9, <1>10, GoodAppend
<1> HIDE DEF s5
<1> QED BY <1>5, <1>6, <1>7, <1>8, <1>9, <1>10, <1>11

(***************************************************************************)
(* NewBucket, for a copy with or without a bucket: afterwards the bucket   *)
(* and what configures it are there, and nothing else is new.              *)
(***************************************************************************)
LEMMA BucketThere ==
  ASSUME Inv, NEW c \in bound
  PROVE  /\ Good(registered \o NewBucket(c))
         /\ KnownIn(registered \o NewBucket(c)) = KnownIn(registered) \cup (BucketTypes \X {c})
<1>1. c \in Stack /\ Good(registered)
  BY DEF Inv, MemosOK
<1>2. CASE c \in stagingBucket
  <2>1. registered \o NewBucket(c) = registered
    BY <1>1, <1>2 DEF NewBucket, Good
  <2>2. BucketTypes \X {c} \subseteq KnownIn(registered)
    BY <1>1, <1>2 DEF Inv, MemosKnow
  <2> QED BY <1>1, <2>1, <2>2
<1>3. CASE c \notin stagingBucket
  <2>1. NewBucket(c) = BucketResources(c)
    BY <1>3 DEF NewBucket
  <2>2. \A type \in BucketTypes : <<type, c>> \notin KnownIn(registered)
    BY <1>1, <1>3 DEF Inv, MemosKnow
  <2> QED BY <1>1, <2>1, <2>2, GoodBucket
<1> QED BY <1>2, <1>3

(***************************************************************************)
(* NewRepo: the same for the repository of a name.                         *)
(***************************************************************************)
LEMMA RepoThere ==
  ASSUME Inv, NEW name \in AssetName
  PROVE  /\ Good(registered \o NewRepo(name))
         /\ \/ KnownIn(registered \o NewRepo(name)) = KnownIn(registered)
            \/ KnownIn(registered \o NewRepo(name)) =
                 KnownIn(registered) \cup {<<"Repository", RepoName[name]>>,
                                           <<"LifecyclePolicy", "lifecycle-policy">>}
         /\ <<"Repository", RepoName[name]>> \in KnownIn(registered \o NewRepo(name))
<1> DEFINE repo == RepoName[name]
           id == <<"Repository", repo>>
           r1 == Resource("Repository", repo, Original, {})
           r2 == Resource("LifecyclePolicy", "lifecycle-policy", Original, {id})
           s == registered
           s1 == Append(s, r1)
           s2 == Append(s1, r2)
<1>1. Good(s) /\ repo \in Repo
  BY DEF Inv, Repo
<1>2. CASE repo \in stagingRepos
  <2>1. s \o NewRepo(name) = s
    BY <1>1, <1>2 DEF NewRepo, Good
  <2>2. id \in KnownIn(s)
    BY <1>1, <1>2 DEF Inv, MemosKnow
  <2> QED BY <1>1, <2>1, <2>2
<1>3. CASE repo \notin stagingRepos
  <2>1. r1 \in ResourceType /\ r2 \in ResourceType
    BY <1>1 DEF Resource, ResourceType, Reference
  <2>2. /\ Id(r1) = id /\ Id(r2) = <<"LifecyclePolicy", "lifecycle-policy">>
        /\ r1.type = "Repository" /\ r2.type = "LifecyclePolicy"
        /\ r1.dependsOn = {} /\ r2.dependsOn = {id}
    BY DEF Id, Resource, BucketTypes
  <2>3. id \notin KnownIn(s)
    BY <1>1, <1>3 DEF Inv, MemosKnow
  <2>4. s \o NewRepo(name) = s2
    <3>1. s \in Seq(ResourceType) BY <1>1 DEF Good
    <3>2. NewRepo(name) = <<r1, r2>> BY <1>3 DEF NewRepo
    <3> HIDE DEF r1, r2
    <3> QED BY <2>1, <3>1, <3>2
  <2> HIDE DEF r1, r2
  <2>5. Good(s1) /\ KnownIn(s1) = KnownIn(s) \cup {id}
    BY <1>1, <2>1, <2>2, <2>3, GoodAppend
  <2> HIDE DEF s1
  <2>6. "LifecyclePolicy" \notin OnceTypes
    BY DEF OnceTypes, BucketTypes
  <2>7. Good(s2) /\ KnownIn(s2) = KnownIn(s1) \cup {<<"LifecyclePolicy", "lifecycle-policy">>}
    BY <2>1, <2>2, <2>5, <2>6, GoodAppend
  <2> HIDE DEF s2
  <2> QED BY <2>4, <2>5, <2>7
<1> QED BY <1>2, <1>3

(***************************************************************************)
(* The memos after a step know what is registered after it.                *)
(***************************************************************************)
LEMMA InitInv == Init => Inv
<1> SUFFICES ASSUME Init PROVE Inv
  OBVIOUS
<1>1. Good(registered) /\ KnownIn(registered) = {}
  BY DEF Init, Good, ReadyIn, OnceIn, KnownIn
<1> QED BY <1>1 DEF Init, Inv, MemosOK, MemosKnow

(***************************************************************************)
(* A call of getStagingBucket that stores nothing keeps the invariant.     *)
(***************************************************************************)
LEMMA BucketOnlyInv ==
  ASSUME Inv, NEW c \in bound, getCreateBucket(c),
         registered' = registered \o NewBucket(c),
         error' \in {"none"} \cup Refusals,
         UNCHANGED <<bound, seenFileAssets, stagingRepos, seenImageAssets, locations, synthesized>>
  PROVE  Inv'
<1>1. /\ Good(registered')
      /\ KnownIn(registered') = KnownIn(registered) \cup (BucketTypes \X {c})
  BY BucketThere
<1>2. MemosOK'
  BY DEF Inv, MemosOK, getCreateBucket
<1>3. MemosKnow'
  <2>1. stagingBucket' = stagingBucket \cup {c}
    BY DEF getCreateBucket
  <2>2. "BucketObject" \notin BucketTypes /\ "Repository" \notin BucketTypes
    BY DEF BucketTypes
  <2>3. \A type \in BucketTypes, d \in Stack :
          <<type, d>> \in KnownIn(registered') <=> d \in stagingBucket'
    BY <1>1, <2>1 DEF Inv, MemosKnow
  <2>4. \A h \in Hash : <<"BucketObject", h>> \in KnownIn(registered') <=> h \in seenFileAssets'
    BY <1>1, <2>2 DEF Inv, MemosKnow
  <2>5. \A r \in Repo : <<"Repository", r>> \in KnownIn(registered') <=> r \in stagingRepos'
    BY <1>1, <2>2 DEF Inv, MemosKnow
  <2> QED BY <2>3, <2>4, <2>5 DEF MemosKnow, Repo
<1> QED BY <1>1, <1>2, <1>3 DEF Inv, Good, ReadyIn, OnceIn

(***************************************************************************)
(* addFileAsset keeps the invariant, whether the bucket or the object are  *)
(* new.                                                                    *)
(***************************************************************************)
LEMMA AddFileAssetInv ==
  ASSUME Inv, NEW c \in Stack, NEW h \in Hash, AddFileAsset(c, h)
  PROVE  Inv'
<1> DEFINE s == registered \o NewBucket(c)
           r == Resource("BucketObject", h, c, fileDependencies')
<1>1. c \in bound
  BY DEF AddFileAsset
<1>2. Good(s) /\ KnownIn(s) = KnownIn(registered) \cup (BucketTypes \X {c})
  BY <1>1, BucketThere
<1>3. /\ stagingBucket' = stagingBucket \cup {c} /\ stagingBucket' \subseteq Stack
      /\ fileDependencies' = BucketTypes \X stagingBucket'
  BY <1>1 DEF AddFileAsset, getCreateBucket, Inv, MemosOK
<1>4. "BucketObject" \notin BucketTypes /\ "Repository" \notin BucketTypes
  BY DEF BucketTypes
<1>5. fileDependencies' \subseteq KnownIn(s)
  <2>1. \A type \in BucketTypes, d \in stagingBucket : <<type, d>> \in KnownIn(registered)
    BY DEF Inv, MemosOK, MemosKnow
  <2> QED BY <1>2, <1>3, <2>1
<1>6. MemosOK'
  <2>1. UNCHANGED <<bound, stagingRepos, seenImageAssets, synthesized, error>>
    BY DEF AddFileAsset
  <2>2. seenFileAssets' = seenFileAssets \cup {h} /\ locations' = locations \cup {FileLocation(h, c)}
    BY DEF AddFileAsset
  <2>3. locations \subseteq LocationType /\ seenFileAssets \subseteq Hash
    BY DEF Inv, MemosOK
  <2>4. locations' \subseteq LocationType /\ seenFileAssets' \subseteq Hash
    BY <2>2, <2>3 DEF LocationType, FileLocation
  <2>5. stagingBucket' \subseteq bound'
    BY <1>1, <1>3, <2>1 DEF Inv, MemosOK
  <2> QED BY <1>3, <2>1, <2>4, <2>5 DEF Inv, MemosOK
<1>7. /\ Good(registered')
      /\ KnownIn(registered') = KnownIn(registered) \cup (BucketTypes \X {c}) \cup {<<"BucketObject", h>>}
  <2>1. CASE h \in seenFileAssets
    <3>1. s \o <<>> = s /\ registered' = s
      BY <1>2, <2>1 DEF AddFileAsset, Good
    <3>2. <<"BucketObject", h>> \in KnownIn(registered)
      BY <2>1 DEF Inv, MemosKnow
    <3> QED BY <1>2, <3>1, <3>2
  <2>2. CASE h \notin seenFileAssets
    <3>1. registered' = s \o <<r>>
      BY <2>2 DEF AddFileAsset
    <3>2. r \in ResourceType
      BY <1>3 DEF Resource, ResourceType, Reference
    <3>3. s \o <<r>> = Append(s, r)
      <4>1. s \in Seq(ResourceType) BY <1>2 DEF Good
      <4> HIDE DEF s, r
      <4> QED BY <3>2, <4>1
    <3>4. /\ Id(r) = <<"BucketObject", h>> /\ r.dependsOn = fileDependencies' /\ r.by = c
          /\ r.type = "BucketObject"
      BY <1>4 DEF Id, Resource
    <3>5. <<"BucketObject", h>> \notin KnownIn(s)
      BY <1>2, <1>4, <2>2 DEF Inv, MemosKnow
    <3>6. BucketTypes \X {c} \subseteq fileDependencies'
      BY <1>3
    <3> HIDE DEF r, s
    <3>7. Good(Append(s, r)) /\ KnownIn(Append(s, r)) = KnownIn(s) \cup {Id(r)}
      BY <1>2, <1>5, <3>2, <3>4, <3>5, <3>6, GoodAppend
    <3> QED BY <1>2, <3>1, <3>3, <3>4, <3>7
  <2> QED BY <2>1, <2>2
<1>8. MemosKnow'
  <2>1. \A type \in BucketTypes, d \in Stack :
          <<type, d>> \in KnownIn(registered') <=> d \in stagingBucket'
    BY <1>3, <1>4, <1>7 DEF Inv, MemosKnow
  <2>2. \A g \in Hash : <<"BucketObject", g>> \in KnownIn(registered') <=> g \in seenFileAssets'
    BY <1>4, <1>7 DEF Inv, MemosKnow, AddFileAsset
  <2>3. \A p \in Repo : <<"Repository", p>> \in KnownIn(registered') <=> p \in stagingRepos'
    BY <1>4, <1>7 DEF Inv, MemosKnow, AddFileAsset
  <2> QED BY <2>1, <2>2, <2>3 DEF MemosKnow, Repo
<1> QED BY <1>6, <1>7, <1>8 DEF Inv, Good, ReadyIn, OnceIn

(***************************************************************************)
(* The repository, that an image and a failed image leave behind alike.    *)
(***************************************************************************)
LEMMA RepoMemos ==
  ASSUME Inv, NEW name \in AssetName, NEW extra,
         "Repository" # extra[1], "BucketObject" # extra[1], extra[1] \notin BucketTypes,
         stagingRepos' = stagingRepos \cup {RepoName[name]},
         UNCHANGED <<stagingBucket, seenFileAssets>>,
         \/ KnownIn(registered') = KnownIn(registered \o NewRepo(name))
         \/ KnownIn(registered') = KnownIn(registered \o NewRepo(name)) \cup {extra}
  PROVE  MemosKnow'
<1> DEFINE known == KnownIn(registered)
           repo == <<"Repository", RepoName[name]>>
<1>1. RepoName[name] \in Repo
  BY DEF Repo
<1>2. /\ known \cup {repo} \subseteq KnownIn(registered')
      /\ KnownIn(registered') \subseteq
           known \cup {repo, <<"LifecyclePolicy", "lifecycle-policy">>, extra}
  <2>1. /\ known \cup {repo} \subseteq KnownIn(registered \o NewRepo(name))
        /\ KnownIn(registered \o NewRepo(name)) \subseteq
             known \cup {repo, <<"LifecyclePolicy", "lifecycle-policy">>}
    BY RepoThere
  <2> QED BY <2>1
<1>3. "LifecyclePolicy" \notin BucketTypes /\ "Repository" \notin BucketTypes
  BY DEF BucketTypes
<1>4. ASSUME NEW type \in BucketTypes \cup {"BucketObject"}, NEW x
      PROVE  <<type, x>> \in KnownIn(registered') <=> <<type, x>> \in known
  <2>1. <<type, x>> # repo /\ <<type, x>> # <<"LifecyclePolicy", "lifecycle-policy">> /\ <<type, x>> # extra
    BY <1>3
  <2> QED BY <1>2, <2>1
<1>5. ASSUME NEW p \in Repo
      PROVE  <<"Repository", p>> \in KnownIn(registered') <=>
               <<"Repository", p>> \in known \/ p = RepoName[name]
  <2>1. <<"Repository", p>> # extra /\ <<"Repository", p>> # <<"LifecyclePolicy", "lifecycle-policy">>
    OBVIOUS
  <2> QED BY <1>2, <2>1
<1> QED BY <1>4, <1>5 DEF Inv, MemosKnow, Repo

(***************************************************************************)
(* addDockerImageAsset keeps the invariant, whether the repository or the  *)
(* image are new.                                                          *)
(***************************************************************************)
LEMMA AddDockerImageAssetInv ==
  ASSUME Inv, NEW c \in Stack, NEW name \in AssetName, NEW h \in Hash, AddDockerImageAsset(c, name, h)
  PROVE  Inv'
<1> DEFINE s == registered \o NewRepo(name)
           r == Image(name, h)
<1>1. Good(s) /\ <<"Repository", RepoName[name]>> \in KnownIn(s)
  BY RepoThere
<1>2. RepoName[name] \in Repo
  BY DEF Repo
<1>3. MemosOK'
  <2>1. ImageLocation(name, h) \in LocationType
    BY <1>2 DEF ImageLocation, LocationType
  <2> QED BY <1>2, <2>1 DEF AddDockerImageAsset, Inv, MemosOK
<1>4. /\ Good(registered')
      /\ \/ KnownIn(registered') = KnownIn(s)
         \/ KnownIn(registered') = KnownIn(s) \cup {<<"Image", name>>}
  <2>1. CASE <<name, h>> \in seenImageAssets
    <3>1. s \o <<>> = s /\ registered' = s
      BY <1>1, <2>1 DEF AddDockerImageAsset, Good
    <3> QED BY <1>1, <3>1
  <2>2. CASE <<name, h>> \notin seenImageAssets
    <3>1. registered' = s \o <<r>>
      BY <2>2 DEF AddDockerImageAsset
    <3>2. r \in ResourceType
      BY <1>2 DEF Image, ResourceType, Reference
    <3>3. s \o <<r>> = Append(s, r)
      <4>1. s \in Seq(ResourceType) BY <1>1 DEF Good
      <4> HIDE DEF s, r
      <4> QED BY <3>2, <4>1
    <3>4. /\ Id(r) = <<"Image", name>> /\ r.type = "Image"
          /\ r.dependsOn = {<<"Repository", RepoName[name]>>}
      BY DEF Id, Image, BucketTypes
    <3>5. "Image" \notin OnceTypes
      BY DEF OnceTypes, BucketTypes
    <3> HIDE DEF r, s
    <3>6. Good(Append(s, r)) /\ KnownIn(Append(s, r)) = KnownIn(s) \cup {Id(r)}
      BY <1>1, <3>2, <3>4, <3>5, GoodAppend
    <3> QED BY <3>1, <3>3, <3>4, <3>6
  <2> QED BY <2>1, <2>2
<1>5. MemosKnow'
  <2> DEFINE image == <<"Image", name>>
  <2>1. "Repository" # image[1] /\ "BucketObject" # image[1] /\ image[1] \notin BucketTypes
    BY DEF BucketTypes
  <2>2. /\ stagingRepos' = stagingRepos \cup {RepoName[name]}
        /\ UNCHANGED <<stagingBucket, seenFileAssets>>
    BY DEF AddDockerImageAsset
  <2> QED BY <1>4, <2>1, <2>2, RepoMemos
<1> QED BY <1>3, <1>4, <1>5 DEF Inv, Good, ReadyIn, OnceIn

(***************************************************************************)
(* The steps that register at most a bucket or a repository, and the ones  *)
(* that register nothing.                                                  *)
(***************************************************************************)
LEMMA BucketStepsInv ==
  ASSUME Inv, NEW c \in Stack, AddFileOfCommand(c) \/ GetStagingBucket(c)
  PROVE  Inv'
<1>1. c \in bound
  BY DEF AddFileOfCommand, GetStagingBucket, Inv, MemosOK
<1>2. /\ getCreateBucket(c) /\ registered' = registered \o NewBucket(c)
      /\ UNCHANGED <<bound, seenFileAssets, stagingRepos, seenImageAssets, locations, synthesized>>
  BY DEF AddFileOfCommand, GetStagingBucket
<1>3. error' \in {"none"} \cup Refusals
  BY DEF AddFileOfCommand, GetStagingBucket, Inv, MemosOK, Refusals
<1> QED BY <1>1, <1>2, <1>3, BucketOnlyInv

(***************************************************************************)
(* addDockerImageAsset before bind, or for an image that cannot be built:  *)
(* the call fails, perhaps having created a repository.                    *)
(***************************************************************************)
LEMMA RepoOnlyInv ==
  ASSUME Inv, NEW name \in AssetName,
         AddImageUnbound(name) \/ \E c \in Stack, h \in Hash : AddImageUnsupported(c, name, h)
  PROVE  Inv'
<1>1. RepoName[name] \in Repo
  BY DEF Repo
<1>2. /\ stagingRepos' = stagingRepos \cup {RepoName[name]}
      /\ registered' = registered \o NewRepo(name)
      /\ error' \in Refusals
      /\ UNCHANGED <<bound, stagingBucket, fileDependencies, seenFileAssets, seenImageAssets,
                     locations, synthesized>>
  BY DEF AddImageUnbound, AddImageUnsupported, Refusals
<1>3. MemosOK'
  BY <1>1, <1>2 DEF Inv, MemosOK
<1>4. Good(registered')
  BY <1>2, RepoThere
<1>5. MemosKnow'
  <2> DEFINE nothing == <<"Image", name>>
  <2>1. "Repository" # nothing[1] /\ "BucketObject" # nothing[1] /\ nothing[1] \notin BucketTypes
    BY DEF BucketTypes
  <2>2. KnownIn(registered') = KnownIn(registered \o NewRepo(name))
    BY <1>2
  <2> QED BY <1>2, <2>1, <2>2, RepoMemos
<1> QED BY <1>3, <1>4, <1>5 DEF Inv, Good, ReadyIn, OnceIn

(***************************************************************************)
(* A step that registers nothing and leaves the memos alone.               *)
(***************************************************************************)
LEMMA NothingRegisteredInv ==
  ASSUME Inv, UNCHANGED vars \/ \E s \in Stack : Bind(s) \/ Synthesize(s) \/ RefuseImage(s)
  PROVE  Inv'
<1>1. /\ UNCHANGED <<stagingBucket, fileDependencies, seenFileAssets, stagingRepos, seenImageAssets,
                     registered, locations>>
      /\ error' \in {error} \cup Refusals
  BY DEF vars, Bind, Synthesize, RefuseImage, Refusals
<1>2. MemosOK'
  BY <1>1 DEF vars, Bind, Synthesize, RefuseImage, Inv, MemosOK
<1> QED BY <1>1, <1>2 DEF Inv, MemosKnow, Good, ReadyIn, OnceIn, KnownIn

(***************************************************************************)
(* Every call on every copy keeps the invariant.                           *)
(***************************************************************************)
LEMMA NextInv == Inv /\ [Next]_vars => Inv'
<1> SUFFICES ASSUME Inv, [Next]_vars PROVE Inv'
  OBVIOUS
<1>1. ASSUME NEW s \in Stack, AddFileOfCommand(s) \/ GetStagingBucket(s) PROVE Inv'
  BY <1>1, BucketStepsInv
<1>2. ASSUME NEW s \in Stack, NEW h \in Hash, AddFileAsset(s, h) PROVE Inv'
  BY <1>2, AddFileAssetInv
<1>3. ASSUME NEW s \in Stack, NEW name \in AssetName, NEW h \in Hash, AddDockerImageAsset(s, name, h)
      PROVE  Inv'
  BY <1>3, AddDockerImageAssetInv
<1>4. ASSUME NEW name \in AssetName,
             AddImageUnbound(name) \/ \E c \in Stack, h \in Hash : AddImageUnsupported(c, name, h)
      PROVE  Inv'
  BY <1>4, RepoOnlyInv
<1>5. CASE UNCHANGED vars \/ \E s \in Stack : Bind(s) \/ Synthesize(s) \/ RefuseImage(s)
  BY <1>5, NothingRegisteredInv
<1> QED BY <1>1, <1>2, <1>3, <1>4, <1>5 DEF Next, Failed

(***************************************************************************)
(* The memos know exactly what is registered, in every state.              *)
(***************************************************************************)
LEMMA SynthesizerInvariant == Spec => []Inv
BY InitInv, NextInv, PTL DEF Spec

(***************************************************************************)
(* Type correctness, for any app.                                          *)
(***************************************************************************)
THEOREM TypeCorrect == Spec => []TypeOK
<1>1. Inv => TypeOK
  BY DEF Inv, MemosOK, TypeOK, Good
<1> QED BY <1>1, SynthesizerInvariant, PTL

(***************************************************************************)
(* addFileAsset, addDockerImageAsset and getStagingBucket in any order, on *)
(* any number of copies: whatever is registered, all that it depends on is *)
(* registered, and an upload depends on all that configures its bucket.    *)
(***************************************************************************)
THEOREM AssetsStoredWhenReady == Spec => []StoredWhenReady
<1>1. Inv => StoredWhenReady
  BY DEF Inv, Good, ReadyIn, StoredWhenReady
<1> QED BY <1>1, SynthesizerInvariant, PTL

(***************************************************************************)
(* addFileAsset, addDockerImageAsset and getStagingBucket in any order, on *)
(* any number of copies: no file is uploaded twice and no repository is    *)
(* created twice in the app, no bucket is created twice by a copy.         *)
(***************************************************************************)
THEOREM AssetsCreatedOnce == Spec => []CreatedOnce
<1>1. Inv => CreatedOnce
  <2> SUFFICES ASSUME Inv, NEW i \in 1..Len(registered), NEW j \in 1..Len(registered),
                      registered[j].type = registered[i].type,
                      \/ /\ registered[i].type \in {"BucketObject", "Repository"}
                         /\ registered[j].name = registered[i].name
                      \/ /\ registered[i].type \in BucketTypes
                         /\ registered[j].by = registered[i].by
               PROVE  i = j
    BY DEF CreatedOnce, Unique
  <2>1. registered[i].type \in OnceTypes
    BY DEF OnceTypes
  <2>2. Id(registered[i]) = Id(registered[j])
    BY DEF Id, BucketTypes
  <2> QED BY <2>1, <2>2 DEF Inv, Good, OnceIn
<1> QED BY <1>1, SynthesizerInvariant, PTL

(***************************************************************************)
(* In an app of one stack there is one staging bucket, and one of each     *)
(* resource that configures it: one copy creates them all.                 *)
(***************************************************************************)
THEOREM OneStackOneBucket ==
  ASSUME \A a, b \in Stack : a = b
  PROVE  Spec => []OneStagingBucket
<1>1. Inv => OneStagingBucket
  <2> SUFFICES ASSUME Inv, NEW i \in 1..Len(registered), NEW j \in 1..Len(registered),
                      registered[i].type \in BucketTypes, registered[j].type = registered[i].type
               PROVE  i = j
    BY DEF OneStagingBucket, Unique
  <2>1. registered[i] \in ResourceType /\ registered[j] \in ResourceType
    BY DEF Inv, Good
  <2>2. registered[i].by \in Stack /\ registered[j].by \in Stack
    BY <2>1 DEF ResourceType, BucketTypes
  <2>3. Id(registered[i]) = Id(registered[j])
    BY <2>2 DEF Id
  <2> QED BY <2>3 DEF Inv, Good, OnceIn, OnceTypes
<1> QED BY <1>1, SynthesizerInvariant, PTL
=============================================================================
