------------------------- MODULE ComponentVersionProofs ------------------------
(***************************************************************************)
(* The versions that builds register, for any builds of any components.    *)
(***************************************************************************)
EXTENDS ComponentVersion, SequenceTheorems, TLAPS

\* The versions of a component are the first one and those that follow it.
Consecutive(c) ==
  VersionsOf(c) = {} \/ \E n \in Nat : n >= FirstVersion(c) /\ VersionsOf(c) = FirstVersion(c)..n

RegisteredOnce ==
  \A r, s \in registered : r[1] = s[1] /\ r[2] = s[2] => r = s

\* Whatever paths builds are given, the keys of the bucket have one level.
ShortKeys == \A k \in Keys : Len(k[1]) = 1

IInv ==
  /\ TypeOK /\ BuildInv /\ ShortKeys
  /\ \A c \in Components : Consecutive(c)
  /\ RegisteredOnce
  /\ RegisteredHasArtifact

-------------------------------------------------------------------------------
(***************************************************************************)
(* Lemmas about versions.                                                  *)
(***************************************************************************)

\* A version is a number.
LEMMA FirstIsNat == ASSUME NEW c \in Components PROVE FirstVersion(c) \in Nat
  BY VersionAssumption DEF FirstVersion

\* The latest of consecutive versions is the last of them.
LEMMA MaxOfRange ==
  ASSUME NEW m \in Nat, NEW n \in Nat, n >= m
  PROVE  Max(m..n) = n
<1>1. n \in m..n /\ \A y \in m..n : n >= y
  OBVIOUS
<1>2. \A x \in m..n : (\A y \in m..n : x >= y) => x = n
  OBVIOUS
<1> QED
  BY <1>1, <1>2 DEF Max

\* What get_component_version returns is new, and follows the latest version.
LEMMA NextVersion ==
  ASSUME NEW c \in Components, Consecutive(c)
  PROVE  LET v == get_component_version(c)
         IN  /\ v \in Nat /\ v \notin VersionsOf(c)
             /\ v # FirstVersion(c) => v > FirstVersion(c) /\ v - 1 \in VersionsOf(c)
<1>1. CASE VersionsOf(c) = {}
  BY <1>1, FirstIsNat DEF get_component_version
<1>2. CASE VersionsOf(c) # {}
  <2>1. PICK n \in Nat : n >= FirstVersion(c) /\ VersionsOf(c) = FirstVersion(c)..n
    BY <1>2 DEF Consecutive
  <2>2. get_component_version(c) = n + 1
    BY <1>2, <2>1, MaxOfRange, FirstIsNat DEF get_component_version
  <2> QED
    BY <2>1, <2>2, FirstIsNat
<1> QED
  BY <1>1, <1>2

\* Consecutive versions stay so when the first, or one after another, is added.
LEMMA AddVersion ==
  ASSUME NEW m \in Nat, NEW v \in Nat, NEW V,
         V = {} \/ \E n \in Nat : n >= m /\ V = m..n,
         v # m => v > m /\ v - 1 \in V
  PROVE  \E n \in Nat : n >= m /\ V \cup {v} = m..n
<1>1. CASE V = {}
  <2>1. V \cup {v} = m..m
    BY <1>1
  <2> QED
    BY <2>1
<1>2. CASE V # {}
  <2>1. PICK n \in Nat : n >= m /\ V = m..n
    BY <1>2
  <2>2. CASE v <= n
    <3>1. V \cup {v} = m..n
      BY <2>1, <2>2
    <3> QED
      BY <2>1, <3>1
  <2>3. CASE v > n
    <3>1. v = n + 1
      BY <2>1, <2>3
    <3>2. V \cup {v} = m..(n + 1)
      BY <2>1, <3>1
    <3> QED
      BY <2>1, <3>2
  <2> QED
    BY <2>1, <2>2, <2>3
<1> QED
  BY <1>1, <1>2

\* An upload takes no key out of the bucket.
LEMMA UploadKeeps ==
  ASSUME NEW k, NEW b, bucket' = Uploaded(k, b)
  PROVE  Keys \subseteq Keys' /\ k \in Keys'
<1>1. <<k, b>> \in bucket'
  BY DEF Uploaded
<1>2. k \in Keys'
  BY <1>1 DEF Keys
<1>3. ASSUME NEW x \in bucket
      PROVE  x[1] \in Keys'
  <2>1. CASE x[1] = k
    BY <1>2, <2>1
  <2>2. CASE x[1] # k
    BY <2>2 DEF Uploaded, Keys
  <2> QED
    BY <2>1, <2>2
<1> QED
  BY <1>2, <1>3 DEF Keys

\* The key an upload goes to is a key of the bucket.
LEMMA KeyType ==
  ASSUME NEW b \in Builds, PathOf[b] # <<>>, NEW c \in Components, NEW v \in Nat
  PROVE  Key(b, c, v) \in Seq(Levels) \X Components \X Nat
<1>1. Head(PathOf[b]) \in Levels
  BY VersionAssumption, HeadTailProperties
<1>2. <<Head(PathOf[b])>> \in Seq(Levels)
  BY <1>1
<1> QED
  BY <1>2 DEF Key

\* The URI of a recipe names no key of the bucket where the path has more levels.
LEMMA DeeperPath ==
  ASSUME ShortKeys, NEW b, NEW c, NEW v, URI(b, c, v) \in Keys
  PROVE  Len(PathOf[b]) = 1
  BY DEF ShortKeys, URI

\* The URI of a recipe names the key of its build where the path has one level.
LEMMA OneLevel ==
  ASSUME NEW b \in Builds, Len(PathOf[b]) = 1, NEW c, NEW v
  PROVE  URI(b, c, v) = Key(b, c, v)
<1>1. PathOf[b] \in Seq(Levels)
  BY VersionAssumption
<1>a. ASSUME PathOf[b] = <<>>
      PROVE  FALSE
  <2>1. Len(<<>>) = 0
    OBVIOUS
  <2> QED
    BY <1>a, <2>1
<1>2. PathOf[b] = <<Head(PathOf[b])>>
  BY <1>1, <1>a
<1> QED
  BY <1>2 DEF URI, Key

\* An upload adds a key of one level.
LEMMA UploadShort ==
  ASSUME ShortKeys, NEW b, NEW c, NEW v, bucket' = Uploaded(Key(b, c, v), b)
  PROVE  ShortKeys'
<1> DEFINE k == Key(b, c, v)
<1>1. Len(k[1]) = 1
  BY DEF Key
<1> HIDE DEF k
<1>2. \A x \in bucket' : x \in bucket \/ x[1] = k
  BY DEF Uploaded, k
<1> QED
  BY <1>1, <1>2 DEF ShortKeys, Keys

\* What the steps of the loop do to the place of a build and to what it has to do.
LEMMA LoopSteps ==
  ASSUME TypeOK, NEW b \in Builds, Proceed(b)
  PROVE  /\ \A o \in Builds \ {b} : pc'[o] = pc[o] /\ todo'[o] = todo[o]
         /\ pc[b] = "get" => pc' = [pc EXCEPT ![b] = "generate"] /\ UNCHANGED todo
         /\ pc[b] = "generate" => pc' = [pc EXCEPT ![b] = "upload"] /\ UNCHANGED todo
         /\ pc[b] = "upload" => pc' = [pc EXCEPT ![b] = "create"] /\ UNCHANGED todo
         /\ pc[b] = "create" =>
              /\ todo' = [todo EXCEPT ![b] = Tail(todo[b])]
              /\ pc' = [pc EXCEPT ![b] = IF Tail(todo[b]) = <<>> THEN "done" ELSE "get"]
<1>1. ASSUME pc[b] = "get"
      PROVE  pc' = [pc EXCEPT ![b] = "generate"] /\ UNCHANGED todo
  BY <1>1 DEF Proceed, Following, To
<1>2. ASSUME pc[b] = "generate"
      PROVE  pc' = [pc EXCEPT ![b] = "upload"] /\ UNCHANGED todo
  BY <1>2 DEF Proceed, Following, To
<1>3. ASSUME pc[b] = "upload"
      PROVE  pc' = [pc EXCEPT ![b] = "create"] /\ UNCHANGED todo
  BY <1>3 DEF Proceed, Following, To
<1>4. ASSUME pc[b] = "create"
      PROVE  /\ todo' = [todo EXCEPT ![b] = Tail(todo[b])]
             /\ pc' = [pc EXCEPT ![b] = IF Tail(todo[b]) = <<>> THEN "done" ELSE "get"]
  BY <1>4 DEF Proceed, Following, To
<1>5. \A o \in Builds \ {b} : pc'[o] = pc[o] /\ todo'[o] = todo[o]
  BY DEF Proceed, To, TypeOK
<1> QED
  BY <1>1, <1>2, <1>3, <1>4, <1>5

\* The first component a build has yet to register, and those behind it.
LEMMA FirstOfTodo ==
  ASSUME TypeOK, NEW b \in Builds, todo[b] # <<>>
  PROVE  Component(b) \in Components /\ Tail(todo[b]) \in Seq(Components)
  BY HeadTailProperties DEF TypeOK, Component

-------------------------------------------------------------------------------
(***************************************************************************)
(* Versions and artifacts, with builds that fail and overlap.              *)
(***************************************************************************)

\* Nothing is registered at the start.
LEMMA VersionInit == Init => IInv
<1> SUFFICES ASSUME Init PROVE IInv
  OBVIOUS
<1>1. TypeOK
  BY VersionAssumption DEF Init, TypeOK
<1>2. BuildInv
  BY VersionAssumption DEF Init, BuildInv
<1>3. ShortKeys /\ \A c \in Components : Consecutive(c)
  BY DEF Init, ShortKeys, Keys, Consecutive, VersionsOf
<1> QED
  BY <1>1, <1>2, <1>3 DEF Init, IInv, RegisteredOnce, RegisteredHasArtifact

\* What is left alone by a step that does not register.
LEMMA NotRegistering ==
  ASSUME IInv, UNCHANGED registered
  PROVE  /\ \A c \in Components : Consecutive(c)'
         /\ RegisteredOnce'
         /\ \A c : VersionsOf(c)' = VersionsOf(c)
  BY DEF IInv, Consecutive, VersionsOf, RegisteredOnce

\* Every step keeps the versions consecutive and their artifacts in the bucket.
LEMMA VersionStep == IInv /\ [Next]_vars => IInv'
<1> SUFFICES ASSUME IInv, [Next]_vars
             PROVE  IInv'
  OBVIOUS
<1> USE DEF IInv, Running, To
<1>1. ASSUME NEW b \in Builds, Start(b)
      PROVE  IInv'
  <2>0. pc[b] = "new" /\ todo[b] # <<>>
    BY <1>1 DEF Start, BuildInv
  <2> QED
    BY <1>1, <2>0, NotRegistering
       DEF Start, TypeOK, BuildInv, Component, RegisteredHasArtifact, ShortKeys, Keys
<1>2. ASSUME NEW b \in Builds, Get(b)
      PROVE  IInv'
  <2>1. todo[b] # <<>> /\ Component(b) \in Components
    BY <1>2, FirstOfTodo DEF Get, BuildInv
  <2>2. /\ UNCHANGED <<registered, bucket, todo, recipe>>
        /\ pc' = [pc EXCEPT ![b] = "generate"]
    BY <1>2, LoopSteps DEF Get
  <2>3. TypeOK'
    BY <1>2, <2>1, <2>2, NextVersion DEF Get, TypeOK
  <2>4. BuildInv'
    BY <1>2, <2>1, <2>2, NextVersion, NotRegistering DEF Get, TypeOK, BuildInv, Component, Keys
  <2> QED
    BY <2>2, <2>3, <2>4, NotRegistering DEF RegisteredHasArtifact, ShortKeys, Keys
<1>3. ASSUME NEW b \in Builds, generate_recipe(b)
      PROVE  IInv'
  <2>1. /\ UNCHANGED <<registered, bucket, todo, next_component_version>>
        /\ pc' = [pc EXCEPT ![b] = "upload"]
    BY <1>3, LoopSteps DEF generate_recipe
  <2>2. TypeOK'
    BY <1>3, <2>1 DEF generate_recipe, Substituted, TypeOK
  <2>3. BuildInv'
    BY <1>3, <2>1, NotRegistering
       DEF generate_recipe, Substituted, TypeOK, BuildInv, Component, Keys
  <2> QED
    BY <2>1, <2>2, <2>3, NotRegistering DEF RegisteredHasArtifact, ShortKeys, Keys
<1>4. ASSUME NEW b \in Builds, archive_upload_artifacts(b)
      PROVE  IInv'
  <2> DEFINE v == next_component_version[b]
  <2>1. todo[b] # <<>> /\ Component(b) \in Components /\ v \in Nat
    BY <1>4, FirstOfTodo DEF archive_upload_artifacts, BuildInv
  <2> DEFINE k == Key(b, Component(b), v)
  <2>2. /\ UNCHANGED <<registered, todo, next_component_version, recipe, overlapped>>
        /\ pc' = [pc EXCEPT ![b] = "create"]
        /\ bucket' = Uploaded(k, b) /\ PathOf[b] # <<>>
    BY <1>4, LoopSteps DEF archive_upload_artifacts
  <2>3. TypeOK'
    <3>1. k \in Seq(Levels) \X Components \X Nat
      BY <2>1, <2>2, KeyType
    <3> HIDE DEF k
    <3>2. bucket' \subseteq (Seq(Levels) \X Components \X Nat) \X Builds
      BY <2>2, <3>1 DEF Uploaded, TypeOK
    <3> QED
      BY <2>2, <3>2 DEF TypeOK
  <2>4. Keys \subseteq Keys' /\ k \in Keys'
    BY <2>2, UploadKeeps
  <2>5. BuildInv'
    <3>1. ASSUME NEW o \in Builds, pc'[o] = "create"
          PROVE  Key(o, Component(o), next_component_version[o]) \in Keys'
      <4>1. CASE o = b
        BY <2>4, <4>1
      <4>2. CASE o # b
        <5>1. pc[o] = "create"
          BY <2>2, <3>1, <4>2 DEF TypeOK
        <5> QED
          BY <2>4, <5>1 DEF BuildInv
      <4> QED
        BY <4>1, <4>2
    <3> HIDE DEF k
    <3>2. pc[b] = "upload"
      BY <1>4 DEF archive_upload_artifacts
    <3> QED
      BY <2>2, <3>1, <3>2, NotRegistering DEF TypeOK, BuildInv, Component
  <2>6. ShortKeys'
    BY <2>2, UploadShort
  <2>7. RegisteredHasArtifact'
    <3>1. ASSUME NEW r \in registered
          PROVE  URI(r[3], r[1], r[2]) \in Keys' <=> Len(PathOf[r[3]]) = 1
      <4>1. URI(r[3], r[1], r[2]) \in Keys' => Len(PathOf[r[3]]) = 1
        BY <2>6 DEF ShortKeys, URI
      <4> QED
        BY <2>4, <4>1 DEF RegisteredHasArtifact
    <3> QED
      BY <2>2, <3>1 DEF RegisteredHasArtifact, URI
  <2> QED
    BY <2>2, <2>3, <2>5, <2>6, <2>7, NotRegistering
<1>5. ASSUME NEW b \in Builds, create_component_version(b)
      PROVE  IInv'
  <2>0. todo[b] # <<>> /\ recipe[b] \in Nat
    BY <1>5 DEF create_component_version, BuildInv
  <2>a. PICK c \in Components : c = Component(b)
    BY <2>0, FirstOfTodo
  <2>b. PICK v \in Nat : v = recipe[b]
    BY <2>0
  <2>1. /\ Tail(todo[b]) \in Seq(Components)
        /\ v \notin VersionsOf(c) /\ Key(b, c, v) \in Keys
        /\ v # FirstVersion(c) => v > FirstVersion(c) /\ v - 1 \in VersionsOf(c)
    BY <1>5, <2>0, <2>a, <2>b, FirstOfTodo DEF create_component_version, BuildInv
  <2>c. /\ todo' = [todo EXCEPT ![b] = Tail(todo[b])]
        /\ pc' = [pc EXCEPT ![b] = IF Tail(todo[b]) = <<>> THEN "done" ELSE "get"]
    BY <1>5, LoopSteps DEF create_component_version
  <2>2. /\ registered' = registered \cup {<<c, v, b>>}
        /\ UNCHANGED <<bucket, next_component_version, recipe>>
    BY <1>5, <2>a, <2>b DEF create_component_version
  <2>3. /\ VersionsOf(c)' = VersionsOf(c) \cup {v}
        /\ \A d : d # c => VersionsOf(d)' = VersionsOf(d)
    <3> DEFINE w == <<c, v, b>>
    <3>1. registered' = registered \cup {w} /\ w[1] = c /\ w[2] = v
      BY <2>2
    <3> HIDE DEF w
    <3>2. \A d : {x \in registered' : x[1] = d} =
                   {x \in registered : x[1] = d} \cup (IF d = c THEN {w} ELSE {})
      BY <3>1
    <3> QED
      BY <3>1, <3>2 DEF VersionsOf
  <2>4. TypeOK'
    BY <1>5, <2>1, <2>2, <2>c DEF create_component_version, TypeOK
  <2>5. ASSUME NEW d \in Components
        PROVE  Consecutive(d)'
    <3>1. CASE d = c
      <4>1. \E n \in Nat : n >= FirstVersion(c) /\ VersionsOf(c) \cup {v} = FirstVersion(c)..n
        BY <2>1, AddVersion, FirstIsNat DEF Consecutive
      <4> QED
        BY <2>3, <3>1, <4>1 DEF Consecutive, FirstVersion
    <3>2. CASE d # c
      BY <2>3, <3>2 DEF Consecutive, FirstVersion
    <3> QED
      BY <3>1, <3>2
  <2>6. RegisteredOnce'
    <3>1. \A r \in registered : ~(r[1] = c /\ r[2] = v)
      BY <2>1 DEF VersionsOf
    <3> QED
      BY <2>2, <3>1 DEF RegisteredOnce
  <2>7. RegisteredHasArtifact'
    <3>1. Len(PathOf[b]) = 1 <=> URI(b, c, v) \in Keys
      BY <2>1, OneLevel, DeeperPath
    <3>2. Keys' = Keys
      BY <2>2 DEF Keys
    <3> QED
      BY <2>2, <3>1, <3>2 DEF RegisteredHasArtifact, URI
  <2>8. ShortKeys'
    BY <2>2 DEF ShortKeys, Keys
  <2>9. BuildInv'
    <3>1. \A o \in Builds \ {b} : pc'[o] = pc[o] /\ todo'[o] = todo[o]
      BY <2>c DEF TypeOK
    <3>2. /\ pc'[b] \in {"get", "done"} /\ todo'[b] = Tail(todo[b])
          /\ pc'[b] = "get" => todo'[b] # <<>>
      BY <2>c DEF TypeOK
    <3>3. \A d : VersionsOf(d) \subseteq VersionsOf(d)'
      BY <2>3
    <3> QED
      BY <2>2, <3>1, <3>2, <3>3 DEF BuildInv, Component, Keys, FirstVersion
  <2> QED
    BY <2>4, <2>5, <2>6, <2>7, <2>8, <2>9
<1>6. ASSUME NEW b \in Builds, Raise(b)
      PROVE  IInv'
  BY <1>6, NotRegistering
     DEF Raise, TypeOK, BuildInv, Component, ShortKeys, Keys, RegisteredHasArtifact
<1>7. CASE UNCHANGED vars
  BY <1>7, NotRegistering
     DEF vars, TypeOK, BuildInv, Component, ShortKeys, Keys, RegisteredHasArtifact
<1> QED
  BY <1>1, <1>2, <1>3, <1>4, <1>5, <1>6, <1>7 DEF Next

\* The strengthened invariant of all that follows.
LEMMA VersionInvariance == Spec => []IInv
<1> QED
  BY VersionInit, VersionStep, PTL DEF Spec

\* The script's variables keep their types.
THEOREM VersionTypeCorrect == Spec => []TypeOK
<1>1. IInv => TypeOK
  BY DEF IInv
<1> QED
  BY <1>1, VersionInvariance, PTL

\* However builds fail and overlap, the versions of a component have no gap and
\* each was registered once (build_component_version.py:71-84).
THEOREM VersionSafety == Spec => []VersionsConsecutive
<1>1. IInv => VersionsConsecutive
  BY FirstIsNat DEF IInv, Consecutive, RegisteredOnce, VersionsConsecutive
<1> QED
  BY <1>1, VersionInvariance, PTL

\* However builds fail and overlap, and whatever paths they are given, the artifact
\* that a registered recipe names is in the bucket if its path has one level, and is
\* never there if it has more (build_component_version.py:94-98, 107-111).
THEOREM ArtifactSafety == Spec => []RegisteredHasArtifact
<1>1. IInv => RegisteredHasArtifact
  BY DEF IInv
<1> QED
  BY <1>1, VersionInvariance, PTL

-------------------------------------------------------------------------------
(***************************************************************************)
(* Builds one after the other.                                             *)
(***************************************************************************)

SInv == IInv /\ SerialInv /\ SerialArtifacts

\* At the start no build runs.
LEMMA SerialInit == Init => SerialInv /\ SerialArtifacts
  BY DEF Init, SerialInv, SerialArtifacts, Running

\* While no two builds run, what is uploaded is not registered yet, and what is
\* registered is the build's own.
LEMMA SerialStep == SInv /\ [Next]_vars => SInv'
<1> SUFFICES ASSUME SInv, [Next]_vars, ~overlapped'
             PROVE  SerialInv' /\ SerialArtifacts'
  BY VersionStep DEF SInv, SerialInv, SerialArtifacts
<1>a. ~overlapped
  BY DEF Next, Start, Get, generate_recipe, archive_upload_artifacts,
         create_component_version, Raise, vars
<1>b. TypeOK /\ \A r \in registered : <<Key(r[3], r[1], r[2]), r[3]>> \in bucket
  BY <1>a DEF SInv, IInv, SerialArtifacts
<1> USE <1>a DEF SInv, SerialInv, SerialArtifacts, TypeOK, Running, To
<1>1. ASSUME NEW b \in Builds, Start(b)
      PROVE  SerialInv' /\ SerialArtifacts'
  BY <1>1, <1>b DEF Start, Component, VersionsOf
<1>2. ASSUME NEW b \in Builds, Get(b)
      PROVE  SerialInv' /\ SerialArtifacts'
  <2>1. todo[b] # <<>> /\ Component(b) \in Components
    BY <1>2, <1>b, FirstOfTodo DEF Get, IInv, BuildInv
  <2>2. get_component_version(Component(b)) \notin VersionsOf(Component(b))
    BY <2>1, NextVersion DEF IInv
  <2>3. /\ UNCHANGED <<registered, bucket, todo>>
        /\ pc' = [pc EXCEPT ![b] = "generate"]
    BY <1>2, <1>b, LoopSteps DEF Get
  <2> QED
    BY <1>2, <1>b, <2>2, <2>3 DEF Get, Component, VersionsOf
<1>3. ASSUME NEW b \in Builds, generate_recipe(b)
      PROVE  SerialInv' /\ SerialArtifacts'
  <2>1. UNCHANGED todo /\ pc' = [pc EXCEPT ![b] = "upload"]
    BY <1>3, <1>b, LoopSteps DEF generate_recipe
  <2> QED
    BY <1>3, <1>b, <2>1 DEF generate_recipe, Component, VersionsOf
<1>4. ASSUME NEW b \in Builds, archive_upload_artifacts(b)
      PROVE  SerialInv' /\ SerialArtifacts'
  <2>1. PICK c : c = Component(b)
    OBVIOUS
  <2>2. PICK v : v = next_component_version[b]
    OBVIOUS
  <2>3. v \notin VersionsOf(c)
    BY <1>4, <2>1, <2>2 DEF archive_upload_artifacts
  <2> DEFINE k == Key(b, c, v)
  <2>4. /\ UNCHANGED <<registered, todo, next_component_version>>
        /\ bucket' = Uploaded(k, b) /\ pc' = [pc EXCEPT ![b] = "create"]
        /\ pc[b] = "upload"
    BY <1>4, <1>b, <2>1, <2>2, LoopSteps DEF archive_upload_artifacts
  <2>5. \A r \in registered : Key(r[3], r[1], r[2]) # k
    BY <2>3 DEF VersionsOf, Key
  <2>6. /\ \A r \in registered' : <<Key(r[3], r[1], r[2]), r[3]>> \in bucket'
        /\ <<k, b>> \in bucket'
    <3> HIDE DEF k
    <3>1. <<k, b>> \in bucket'
      BY <2>4 DEF Uploaded
    <3>2. ASSUME NEW r \in registered
          PROVE  <<Key(r[3], r[1], r[2]), r[3]>> \in bucket'
      <4> DEFINE x == <<Key(r[3], r[1], r[2]), r[3]>>
      <4>1. x \in bucket /\ x[1] # k
        BY <1>b, <2>5
      <4> HIDE DEF x
      <4>2. x \in bucket'
        BY <2>4, <4>1 DEF Uploaded
      <4> QED
        BY <4>2 DEF x
    <3> QED
      BY <2>4, <3>1, <3>2
  <2>7. \A o \in Builds \ {b} : ~Running(o) /\ pc'[o] = pc[o]
    BY <1>b, <2>4
  <2> QED
    BY <1>b, <2>1, <2>2, <2>3, <2>4, <2>6, <2>7 DEF Component, VersionsOf
<1>5. ASSUME NEW b \in Builds, create_component_version(b)
      PROVE  SerialInv' /\ SerialArtifacts'
  <2>1. <<Key(b, Component(b), recipe[b]), b>> \in bucket
    BY <1>5 DEF create_component_version, IInv, BuildInv
  <2>2. \A r \in registered' : <<Key(r[3], r[1], r[2]), r[3]>> \in bucket'
    <3> DEFINE w == <<Component(b), recipe[b], b>>
    <3>1. <<Key(w[3], w[1], w[2]), w[3]>> \in bucket
      BY <2>1
    <3>2. registered' = registered \cup {w} /\ bucket' = bucket
      BY <1>5 DEF create_component_version
    <3> HIDE DEF w
    <3> QED
      BY <1>b, <3>1, <3>2 DEF Key
  <2>3. pc'[b] \in {"get", "done"} /\ \A o \in Builds \ {b} : ~Running(o) /\ pc'[o] = pc[o]
    BY <1>5, <1>b, LoopSteps DEF create_component_version
  <2> QED
    BY <1>b, <2>2, <2>3
<1>6. ASSUME NEW b \in Builds, Raise(b)
      PROVE  SerialInv' /\ SerialArtifacts'
  BY <1>6, <1>b DEF Raise, Component, VersionsOf
<1>7. CASE UNCHANGED vars
  BY <1>7, <1>b DEF vars, Component, VersionsOf
<1> QED
  BY <1>1, <1>2, <1>3, <1>4, <1>5, <1>6, <1>7 DEF Next

\* Unless builds overlap, the artifact of a registered version is the one its own
\* build uploaded, also after builds that failed between the upload and the
\* registration (build_component_version.py:88-111).
THEOREM SerialSafety == Spec => []SerialArtifacts
<1>1. Init => SInv
  BY VersionInit, SerialInit DEF SInv
<1>2. SInv => SerialArtifacts
  BY DEF SInv
<1> QED
  BY <1>1, <1>2, SerialStep, PTL DEF Spec
===============================================================================
