--------------------------- MODULE ComponentVersion ----------------------------
(***************************************************************************)
(* build_component_version.py: a build gives each of its components the    *)
(* version after the latest one of the Greengrass registry, writes the     *)
(* recipe for it, uploads the artifact to the bucket under that version,   *)
(* and registers the version that the recipe names.                        *)
(*                                                                         *)
(* Builds run in checkouts of their own (buildspec.yml), share the         *)
(* registry and the bucket, and may overlap.  Each call of a service may   *)
(* raise, which ends the build where it stands, and a build may be killed; *)
(* nothing is taken back.  A retry is another build.                       *)
(*                                                                         *)
(* Only the micro number of a version changes, so a version is a number.   *)
(* A path of the bucket is a sequence of levels: the recipe names its      *)
(* artifact under the whole s3_path of its build, the script uploads under *)
(* the first level of it.                                                  *)
(***************************************************************************)
EXTENDS Integers, Sequences, FiniteSetsExt

CONSTANTS
  Builds,
  Components,
  ComponentsOf,  \* the components a build is called with, a sequence
  Levels,        \* the names of the levels of a path
  PathOf,        \* the path behind the bucket's name in s3_path, per build
  AwsLatest,     \* the latest version in the namespace of AWS, or None
  None

ASSUME VersionAssumption ==
  /\ None \notin Nat
  /\ ComponentsOf \in [Builds -> Seq(Components) \ {<<>>}]
  /\ PathOf \in [Builds -> Seq(Levels)]
  /\ AwsLatest \in [Components -> Nat \cup {None}]

VARIABLES
  registered,  \* <<c, v, b>>: build b registered version v of component c
  bucket,      \* <<k, b>>: the artifact under key k is that of build b
  pc,          \* where a build is with the first of its components
  todo,        \* the components a build has yet to register
  next_component_version,  \* of a build
  recipe,      \* the version in the recipe file of a build
  overlapped   \* history: two builds ran at the same time

vars == <<registered, bucket, pc, todo, next_component_version, recipe, overlapped>>

TypeOK ==
  /\ registered \subseteq Components \X Nat \X Builds
  /\ bucket \subseteq (Seq(Levels) \X Components \X Nat) \X Builds
  /\ pc \in [Builds -> {"new", "get", "generate", "upload", "create", "done", "failed"}]
  /\ todo \in [Builds -> Seq(Components)]
  /\ next_component_version \in [Builds -> Nat \cup {None}]
  /\ recipe \in [Builds -> Nat \cup {None}]
  /\ overlapped \in BOOLEAN

Init ==
  /\ registered = {} /\ bucket = {}
  /\ pc = [b \in Builds |-> "new"]
  /\ todo = ComponentsOf
  /\ next_component_version = [b \in Builds |-> None]
  /\ recipe = [b \in Builds |-> None]
  /\ overlapped = FALSE

-------------------------------------------------------------------------------
(***************************************************************************)
(* The registry and the bucket.                                            *)
(***************************************************************************)

Component(b) == Head(todo[b])

VersionsOf(c) == {r[2] : r \in {x \in registered : x[1] = c}}

\* The key that archive_upload_artifacts uploads to, and the one that the URI of
\* the recipe names.
Key(b, c, v) == <<<<Head(PathOf[b])>>, c, v>>
URI(b, c, v) == <<PathOf[b], c, v>>

Keys == {x[1] : x \in bucket}

\* The version of a component that is not registered under the account.
FirstVersion(c) == IF AwsLatest[c] = None THEN 0 ELSE AwsLatest[c] + 1

\* Mutant: the versions are counted.
get_component_versionCounted(c) ==
  IF VersionsOf(c) = {} THEN FirstVersion(c) ELSE Cardinality(VersionsOf(c))

\* get_component_version with fetch_next_version; the registry lists the latest
\* version first.
get_component_version(c) ==
  IF VersionsOf(c) = {} THEN FirstVersion(c) ELSE Max(VersionsOf(c)) + 1

\* Mutant: an artifact that is there is kept.
UploadedNew(k, b) == bucket \cup (IF k \in Keys THEN {} ELSE {<<k, b>>})

\* upload_file replaces what is stored under the key.
Uploaded(k, b) == {x \in bucket : x[1] # k} \cup {<<k, b>>}

-------------------------------------------------------------------------------
(***************************************************************************)
(* A build.                                                                *)
(***************************************************************************)

To(b, p) == pc' = [pc EXCEPT ![b] = p]

\* Mutant: a version is registered before its artifact is uploaded.
FollowingSwapped ==
  [get |-> "generate", generate |-> "create", create |-> "upload", upload |-> "end"]

\* The body of the loop over the components.
Following ==
  [get |-> "generate", generate |-> "upload", upload |-> "create", create |-> "end"]

\* On to the next step for a component, or behind the last to the next component.
Proceed(b) ==
  IF Following[pc[b]] # "end"
  THEN To(b, Following[pc[b]]) /\ UNCHANGED todo
  ELSE /\ todo' = [todo EXCEPT ![b] = Tail(todo[b])]
       /\ To(b, IF Tail(todo[b]) = <<>> THEN "done" ELSE "get")

Running(b) == pc[b] \notin {"new", "done", "failed"}

Start(b) ==
  /\ pc[b] = "new"
  /\ To(b, "get")
  /\ overlapped' = (overlapped \/ \E o \in Builds : Running(o))
  /\ UNCHANGED <<registered, bucket, todo, next_component_version, recipe>>

Get(b) ==
  /\ pc[b] = "get"
  /\ next_component_version' =
       [next_component_version EXCEPT ![b] = get_component_version(Component(b))]
  /\ Proceed(b)
  /\ UNCHANGED <<registered, bucket, recipe, overlapped>>

\* Mutant: a variable the template names is not among those substituted, and
\* safe_substitute leaves it as it is.
SubstitutedMissing(b) == None

Substituted(b) == next_component_version[b]

generate_recipe(b) ==
  /\ pc[b] = "generate"
  /\ recipe' = [recipe EXCEPT ![b] = Substituted(b)]
  /\ Proceed(b)
  /\ UNCHANGED <<registered, bucket, next_component_version, overlapped>>

\* An s3_path without a level has no second part to split off: see Raise.
archive_upload_artifacts(b) ==
  /\ pc[b] = "upload" /\ PathOf[b] # <<>>
  /\ bucket' = Uploaded(Key(b, Component(b), next_component_version[b]), b)
  /\ Proceed(b)
  /\ UNCHANGED <<registered, next_component_version, recipe, overlapped>>

\* A version that is registered already raises a conflict: see Raise.
create_component_version(b) ==
  /\ pc[b] = "create"
  /\ recipe[b] \notin VersionsOf(Component(b))
  /\ registered' = registered \cup {<<Component(b), recipe[b], b>>}
  /\ Proceed(b)
  /\ UNCHANGED <<bucket, next_component_version, recipe, overlapped>>

\* A call raises, or the build is killed.
Raise(b) ==
  /\ Running(b)
  /\ To(b, "failed")
  /\ UNCHANGED <<registered, bucket, todo, next_component_version, recipe, overlapped>>

-------------------------------------------------------------------------------
Next ==
  \E b \in Builds :
    \/ Start(b)
    \/ Get(b)
    \/ generate_recipe(b)
    \/ archive_upload_artifacts(b)
    \/ create_component_version(b)
    \/ Raise(b)

Spec == Init /\ [][Next]_vars

-------------------------------------------------------------------------------
(***************************************************************************)
(* Properties.                                                             *)
(***************************************************************************)

\* The versions of a component have no gap, and each was registered once,
\* however builds fail and overlap (build_component_version.py:71-84).
VersionsConsecutive ==
  /\ \A c \in Components : \A v \in VersionsOf(c) :
       v # FirstVersion(c) => v > FirstVersion(c) /\ v - 1 \in VersionsOf(c)
  /\ \A r, s \in registered : r[1] = s[1] /\ r[2] = s[2] => r = s

\* The artifact that a registered recipe names is in the bucket, however builds
\* fail and overlap, if its s3_path has one level, as that of the pipeline has
\* (build_component_version.py:94-98, 107-111, fwe_ggv2_stack.py:103); and it never
\* gets there if the path has more (recipe-template.yml:90).
RegisteredHasArtifact ==
  \A r \in registered :
    URI(r[3], r[1], r[2]) \in Keys <=> Len(PathOf[r[3]]) = 1

\* Unless builds overlapped, what is in the bucket under the key of a registered
\* version is the artifact of the build that registered it, and not one that an
\* earlier build uploaded before it failed.
SerialArtifacts ==
  ~overlapped => \A r \in registered : <<Key(r[3], r[1], r[2]), r[3]>> \in bucket

\* Why VersionsConsecutive and RegisteredHasArtifact hold: what a build works for
\* is at most the version after the latest, and uploaded before it is registered.
BuildInv ==
  \A b \in Builds :
    LET c == Component(b)
        v == next_component_version[b]
    IN  /\ pc[b] \notin {"done", "failed"} => todo[b] # <<>>
        /\ pc[b] \in {"generate", "upload", "create"} =>
             /\ v \in Nat
             /\ v # FirstVersion(c) => v > FirstVersion(c) /\ v - 1 \in VersionsOf(c)
        /\ pc[b] \in {"upload", "create"} => recipe[b] = v
        /\ pc[b] = "create" => Key(b, c, v) \in Keys

\* Why SerialArtifacts holds: while only one build runs, what it has read is still
\* the latest version and what it uploaded is its own.
SerialInv ==
  ~overlapped =>
    \A b \in Builds :
      /\ Running(b) => \A o \in Builds \ {b} : ~Running(o)
      /\ pc[b] \in {"generate", "upload", "create"} =>
           next_component_version[b] \notin VersionsOf(Component(b))
      /\ pc[b] = "create" =>
           <<Key(b, Component(b), next_component_version[b]), b>> \in bucket

===============================================================================
