----------------------------- MODULE Synthesizer -----------------------------
(***************************************************************************)
(* PulumiSynthesizer (src/synthesizer.ts): the synthesizer an app shares   *)
(* between its stacks.  reusableBind gives each stack a copy made with     *)
(* Object.create: the maps and arrays of the original are shared by all    *)
(* copies, but a field that a method assigns (stagingBucket, outdir) is    *)
(* assigned in the copy only.  Constructs register assets while the stacks *)
(* are created and synthesized; custom resources ask for the bucket when   *)
(* the stacks are converted.  The Pulumi resources that the methods create *)
(* are listed in registered; the engine refuses a second resource of the   *)
(* same type and name (all have the staging stack for parent).             *)
(***************************************************************************)
EXTENDS Integers, Sequences, FiniteSets

CONSTANTS
  Stack,      \* the stacks of the app
  Hash,       \* the sourceHash of an asset
  AssetName,  \* the assetName of a Docker image asset
  RepoName,   \* the repoName of each assetName: case and '.' do not matter
  Original    \* the synthesizer itself, as distinct from its copies

ASSUME OriginalAssumption == Original \notin Stack

VARIABLES
  bound,            \* the stacks with a bound copy
  stagingBucket,    \* the copies whose stagingBucket is set
  fileDependencies, \* shared: the resources every upload depends on
  seenFileAssets,   \* shared: the hashes that are uploaded
  stagingRepos,     \* shared: the repositories that exist
  seenImageAssets,  \* shared: <<assetName, hash>> that exist
  registered,       \* the resources registered with the engine, in order
  locations,        \* what constructs were told: where an asset is
  synthesized,      \* the stacks that have been synthesized
  error             \* what was thrown

vars == <<bound, stagingBucket, fileDependencies, seenFileAssets, stagingRepos,
          seenImageAssets, registered, locations, synthesized, error>>

Init ==
  /\ bound = {}
  /\ stagingBucket = {}
  /\ fileDependencies = {}
  /\ seenFileAssets = {}
  /\ stagingRepos = {}
  /\ seenImageAssets = {}
  /\ registered = <<>>
  /\ locations = {}
  /\ synthesized = {}
  /\ error = "none"

-----------------------------------------------------------------------------
(***************************************************************************)
(* A resource: its type, its name, and the resources it needs or depends   *)
(* on.  A resource of the staging bucket is known by its type and the copy *)
(* that created it; its Pulumi name is the same for every copy.            *)
(***************************************************************************)
Resource(type, name, by, dependsOn) ==
  [type |-> type, name |-> name, by |-> by, dependsOn |-> dependsOn]

(***************************************************************************)
(* The docker.Image of an asset has the assetName for its name; the hash   *)
(* is only its tag.                                                        *)
(***************************************************************************)
Image(name, h) ==
  [type |-> "Image", name |-> name, tag |-> h, by |-> Original,
   dependsOn |-> {<<"Repository", RepoName[name]>>}]

(***************************************************************************)
(* What a construct is told of an asset: which one, and in what it is.     *)
(***************************************************************************)
FileLocation(h, c) == [type |-> "BucketObject", hash |-> h, store |-> <<"Bucket", c>>]

ImageLocation(name, h) ==
  [type |-> "Image", hash |-> h, store |-> <<"Repository", RepoName[name]>>]

BucketTypes ==
  {"Bucket", "BucketEncryption", "BucketVersioning", "BucketLifecycle", "BucketPolicy"}

(***************************************************************************)
(* getCreateBucket: the bucket and what configures it, unless this copy    *)
(* has a bucket already.                                                   *)
(***************************************************************************)
BucketResources(c) ==
  LET of(type, deps) == Resource(type, "staging", c, deps)
      bucket == <<"Bucket", c>>
  IN  <<of("Bucket", {}), of("BucketEncryption", {bucket}), of("BucketVersioning", {bucket}),
        of("BucketLifecycle", {bucket, <<"BucketVersioning", c>>}), of("BucketPolicy", {bucket})>>

NewBucketAlways(c) == BucketResources(c)   \* a fault: the bucket is not remembered

NewBucket(c) == IF c \in stagingBucket THEN <<>> ELSE BucketResources(c)

getCreateBucket(c) ==
  /\ stagingBucket' = stagingBucket \cup {c}
  /\ fileDependencies' = IF c \in stagingBucket THEN fileDependencies
                         ELSE fileDependencies \cup (BucketTypes \X {c})

(***************************************************************************)
(* reusableBind, called by the constructor of a stack.                     *)
(***************************************************************************)
Bind(s) ==
  /\ error = "none"
  /\ s \notin bound
  /\ synthesized = {}
  /\ bound' = bound \cup {s}
  /\ UNCHANGED <<stagingBucket, fileDependencies, seenFileAssets, stagingRepos,
                 seenImageAssets, registered, locations, synthesized, error>>

(***************************************************************************)
(* A fault: the dependencies of the upload are read before the bucket is   *)
(* created.                                                                *)
(***************************************************************************)
AddFileAssetTooEarly(c, h) ==
  /\ error = "none"
  /\ c \in bound \ synthesized
  /\ getCreateBucket(c)
  /\ seenFileAssets' = seenFileAssets \cup {h}
  /\ registered' = registered \o NewBucket(c)
       \o <<Resource("BucketObject", h, c, fileDependencies)>>
  /\ locations' = locations \cup {FileLocation(h, c)}
  /\ UNCHANGED <<bound, stagingRepos, seenImageAssets, synthesized, error>>

(***************************************************************************)
(* addFileAsset.  The template of the stack itself is not uploaded (see    *)
(* Synthesize).  The bucket comes first, for an asset seen before and for  *)
(* one that is refused too.                                                *)
(***************************************************************************)
AddFileAsset(c, h) ==
  /\ error = "none"
  /\ c \in bound \ synthesized
  /\ getCreateBucket(c)
  /\ seenFileAssets' = seenFileAssets \cup {h}
  /\ registered' = registered \o NewBucket(c)
       \o IF h \in seenFileAssets THEN <<>>
          ELSE <<Resource("BucketObject", h, c, fileDependencies')>>
  /\ locations' = locations \cup {FileLocation(h, c)}
  /\ UNCHANGED <<bound, stagingRepos, seenImageAssets, synthesized, error>>

AddFileOfCommand(c) ==
  /\ error = "none"
  /\ c \in bound \ synthesized
  /\ getCreateBucket(c)
  /\ registered' = registered \o NewBucket(c)
  /\ error' = "not supported"
  /\ UNCHANGED <<bound, seenFileAssets, stagingRepos, seenImageAssets, locations, synthesized>>

(***************************************************************************)
(* A fault: the repository has the assetName itself.                       *)
(***************************************************************************)
NewRepoRawName(name) ==
  IF RepoName[name] \in stagingRepos THEN <<>>
  ELSE <<Resource("Repository", name, Original, {})>>

(***************************************************************************)
(* getCreateRepo: a repository and its lifecycle policy.                   *)
(***************************************************************************)
NewRepo(name) ==
  LET repo == RepoName[name]
  IN  IF repo \in stagingRepos THEN <<>>
      ELSE <<Resource("Repository", repo, Original, {}),
             Resource("LifecyclePolicy", "lifecycle-policy", Original, {<<"Repository", repo>>})>>

(***************************************************************************)
(* addDockerImageAsset: the repository comes first, for an image built     *)
(* before too.                                                             *)
(***************************************************************************)
AddDockerImageAsset(c, name, h) ==
  /\ error = "none"
  /\ c \in bound \ synthesized
  /\ stagingRepos' = stagingRepos \cup {RepoName[name]}
  /\ seenImageAssets' = seenImageAssets \cup {<<name, h>>}
  /\ registered' = registered \o NewRepo(name)
       \o IF <<name, h>> \in seenImageAssets THEN <<>> ELSE <<Image(name, h)>>
  /\ locations' = locations \cup {ImageLocation(name, h)}
  /\ UNCHANGED <<bound, stagingBucket, fileDependencies, seenFileAssets, synthesized, error>>

(***************************************************************************)
(* An image produced by a command, or without assetName, is refused before *)
(* anything is created.                                                    *)
(***************************************************************************)
RefuseImage(c) ==
  /\ error = "none"
  /\ c \in bound \ synthesized
  /\ error' \in {"not supported", "no assetName"}
  /\ UNCHANGED <<bound, stagingBucket, fileDependencies, seenFileAssets, stagingRepos,
                 seenImageAssets, registered, locations, synthesized>>

(***************************************************************************)
(* A network mode or a platform that Pulumi does not have is noticed when  *)
(* the image is made, after the repository; for an image built before it   *)
(* is not noticed (AddDockerImageAsset).                                   *)
(***************************************************************************)
AddImageUnsupported(c, name, h) ==
  /\ error = "none"
  /\ c \in bound \ synthesized
  /\ <<name, h>> \notin seenImageAssets
  /\ stagingRepos' = stagingRepos \cup {RepoName[name]}
  /\ registered' = registered \o NewRepo(name)
  /\ error' = "unsupported"
  /\ UNCHANGED <<bound, stagingBucket, fileDependencies, seenFileAssets, seenImageAssets,
                 locations, synthesized>>

(***************************************************************************)
(* addDockerImageAsset on the original, that no stack has bound: outdir is *)
(* undefined, which assertBound lets through; the repository is created    *)
(* before path.join refuses undefined.                                     *)
(***************************************************************************)
AddImageUnbound(name) ==
  /\ error = "none"
  /\ stagingRepos' = stagingRepos \cup {RepoName[name]}
  /\ registered' = registered \o NewRepo(name)
  /\ error' = "path is undefined"
  /\ UNCHANGED <<bound, stagingBucket, fileDependencies, seenFileAssets, seenImageAssets,
                 locations, synthesized>>

(***************************************************************************)
(* synthesize: the template of the stack goes to addFileAsset, which       *)
(* returns before it touches the bucket.                                   *)
(***************************************************************************)
Synthesize(c) ==
  /\ error = "none"
  /\ c \in bound \ synthesized
  /\ synthesized' = synthesized \cup {c}
  /\ UNCHANGED <<bound, stagingBucket, fileDependencies, seenFileAssets, stagingRepos,
                 seenImageAssets, registered, locations, error>>

(***************************************************************************)
(* getStagingBucket, for a custom resource of a stack that is converted.   *)
(***************************************************************************)
GetStagingBucket(c) ==
  /\ error = "none"
  /\ c \in bound
  /\ bound = synthesized
  /\ getCreateBucket(c)
  /\ registered' = registered \o NewBucket(c)
  /\ UNCHANGED <<bound, seenFileAssets, stagingRepos, seenImageAssets, locations, synthesized,
                 error>>

Failed == error # "none" /\ UNCHANGED vars

Next ==
  \/ \E s \in Stack : Bind(s) \/ AddFileOfCommand(s) \/ RefuseImage(s) \/ Synthesize(s) \/ GetStagingBucket(s)
  \/ \E s \in Stack, h \in Hash : AddFileAsset(s, h)
  \/ \E s \in Stack, name \in AssetName, h \in Hash :
       AddDockerImageAsset(s, name, h) \/ AddImageUnsupported(s, name, h)
  \/ \E name \in AssetName : AddImageUnbound(name)
  \/ Failed

Spec == Init /\ [][Next]_vars

-----------------------------------------------------------------------------
Repo == {RepoName[name] : name \in AssetName}

Refusals == {"not supported", "no assetName", "unsupported", "path is undefined"}

Reference == (BucketTypes \X Stack) \cup ({"Repository"} \X Repo)

ResourceType ==
  [type : BucketTypes, name : {"staging"}, by : Stack, dependsOn : SUBSET Reference]
    \cup [type : {"BucketObject"}, name : Hash, by : Stack, dependsOn : SUBSET Reference]
    \cup [type : {"Repository"}, name : Repo, by : {Original}, dependsOn : SUBSET Reference]
    \cup [type : {"LifecyclePolicy"}, name : {"lifecycle-policy"}, by : {Original},
          dependsOn : SUBSET Reference]
    \cup [type : {"Image"}, name : AssetName, tag : Hash, by : {Original},
          dependsOn : SUBSET Reference]

LocationType ==
  [type : {"BucketObject"}, hash : Hash, store : {"Bucket"} \X Stack]
    \cup [type : {"Image"}, hash : Hash, store : {"Repository"} \X Repo]

TypeOK ==
  /\ bound \subseteq Stack
  /\ stagingBucket \subseteq bound
  /\ fileDependencies \subseteq BucketTypes \X Stack
  /\ seenFileAssets \subseteq Hash
  /\ stagingRepos \subseteq Repo
  /\ seenImageAssets \subseteq AssetName \X Hash
  /\ registered \in Seq(ResourceType)
  /\ locations \subseteq LocationType
  /\ synthesized \subseteq bound
  /\ error \in {"none"} \cup Refusals

(***************************************************************************)
(* The engine accepts the resources of these types: no two have one name.  *)
(***************************************************************************)
Unique(types) ==
  \A i, j \in 1..Len(registered) :
    /\ registered[i].type \in types
    /\ registered[j].type = registered[i].type
    /\ registered[j].name = registered[i].name
    => i = j

(***************************************************************************)
(* However often, in whatever order and for whichever stack assets are     *)
(* registered, each file is uploaded once in the app, each repository is   *)
(* created once in the app, and each copy creates its bucket and what      *)
(* configures it once: "we should only create the resource once".          *)
(***************************************************************************)
CreatedOnce ==
  /\ Unique({"BucketObject", "Repository"})
  /\ \A i, j \in 1..Len(registered) :
       /\ registered[i].type \in BucketTypes
       /\ registered[j].type = registered[i].type
       /\ registered[j].by = registered[i].by
       => i = j

(***************************************************************************)
(* An asset is never stored before the store is ready: a file depends on   *)
(* its bucket and on everything that configures it (encryption, policy,    *)
(* versioning, lifecycle), and what a resource depends on was registered   *)
(* before it.                                                              *)
(***************************************************************************)
Id(r) == <<r.type, IF r.type \in BucketTypes THEN r.by ELSE r.name>>

StoredWhenReady ==
  \A i \in 1..Len(registered) :
    /\ registered[i].type = "BucketObject" =>
         BucketTypes \X {registered[i].by} \subseteq registered[i].dependsOn
    /\ registered[i].dependsOn \subseteq {Id(registered[j]) : j \in 1..(i - 1)}

-----------------------------------------------------------------------------
(***************************************************************************)
(* "The app-scoped, environment-keyed staging bucket": there is one, and   *)
(* one of everything that configures it.  Two copies make two of one name. *)
(***************************************************************************)
OneStagingBucket == Unique(BucketTypes)

(***************************************************************************)
(* "The location of the asset": what a construct is told an asset is in    *)
(* does hold it, whichever construct of whichever stack it was uploaded    *)
(* for.  A copy that did not upload the file tells of its own bucket.      *)
(***************************************************************************)
LocationHoldsAsset ==
  \A l \in locations : \E i \in 1..Len(registered) :
    LET r == registered[i]
    IN  /\ r.type = l.type
        /\ \/ r.type = "BucketObject" /\ r.name = l.hash /\ l.store = <<"Bucket", r.by>>
           \/ r.type = "Image" /\ r.tag = l.hash /\ l.store \in r.dependsOn

(***************************************************************************)
(* "Creating a separate repository for each asset allows us to have a      *)
(* lifecycle policy on the repository": each policy is accepted.           *)
(***************************************************************************)
PolicyPerRepository == Unique({"LifecyclePolicy"})
=============================================================================
