----------------------------- MODULE ImageProofs -----------------------------
(***************************************************************************)
(* Proofs about the RafsImage objects of Image, for every set of images,  *)
(* of blob ids and every MaxBuilds: type correctness, and that with a     *)
(* builder that leaves nothing behind when it fails, every local file a   *)
(* build leaves is registered with the anchor's dustbin.                  *)
(***************************************************************************)
EXTENDS Image, TLAPS

(* Every way the test can call into RafsImage, or tear the session down. *)
LEMMA NextCases ==
    ASSUME [Next]_vars
    PROVE  \/ \E i \in Images, t \in Backends \ {"none"} : SetBackend(i, t)
           \/ \E i \in Images, p \in Images \cup {NoImage}, u \in {"util", "none"},
                 c \in BOOLEAN, ok \in BOOLEAN : CreateImage(i, p, u, c, ok)
           \/ \E i \in Images : CleanUp(i)
           \/ DrainDustbin
           \/ UNCHANGED vars
BY DEF Next

(* The blob id a successful build records is a content id: the last of  *)
(* the builder's "blobs" is the image's own content or, for a child that *)
(* adds nothing, the parent's blob.                                        *)
LEMMA BuiltBlobId ==
    ASSUME TypeOK, NEW i \in Images, NEW p \in Images \cup {NoImage},
           NEW bl \in BuilderBlobs(i, p)
    PROVE  BlobIdOfOutput(bl) \in BlobIds
<1>0. Content[i] \in BlobIds
  BY ImageAssumption
<1>1. CASE p = NoImage \/ blobId[p] = NoBlob
  <2>1. bl = <<Content[i]>>
    BY <1>1 DEF BuilderBlobs
  <2>2. QED
    BY <1>0, <2>1 DEF BlobIdOfOutput
<1>2. CASE p # NoImage /\ blobId[p] # NoBlob
  <2>1. blobId[p] \in BlobIds
    BY <1>2 DEF TypeOK
  <2>2. bl = <<blobId[p]>> \/ bl = <<blobId[p], Content[i]>>
    BY <1>2 DEF BuilderBlobs
  <2>3. CASE bl = <<blobId[p]>>
    BY <2>1, <2>3 DEF BlobIdOfOutput
  <2>4. CASE bl = <<blobId[p], Content[i]>>
    BY <1>0, <2>4 DEF BlobIdOfOutput
  <2>5. QED
    BY <2>2, <2>3, <2>4
<1>3. QED BY <1>1, <1>2

(* What a build writes and where it persists the blob are locations of  *)
(* the session, and the paths it registers are local files.              *)
LEMMA BuildLocations ==
    ASSUME NEW i \in Images, NEW b \in BlobIds, NEW u, NEW lb \in BlobIds \cup {NoBlob}
    PROVE  /\ Outputs(i, b) \subseteq Locations
           /\ Persist(i, b, u) \subseteq Locations
           /\ {Bootstrap(i), BlobAbs(i)}
                \cup (IF lb = NoBlob THEN {} ELSE {Local(lb)}) \subseteq LocalFiles
BY DEF Outputs, Persist, Locations, LocalFiles, Bootstrap, BlobAbs, Local, Oss, Proxy

(* The parameters create_image() passes to the builder. *)
BuildParams ==
    {"blob", "blob-dir", "log-level", "fs-version", "output-json", "parent-bootstrap"}

-----------------------------------------------------------------------------
(* The RafsImage objects of a fresh session are well typed. *)
LEMMA TypeInit == Init => TypeOK
BY DEF Init, TypeOK, Backends, Errors

(* A create_image() call keeps every variable in its type: a successful  *)
(* build records a content id and registers local files, a failed one    *)
(* leaves at most its own outputs.                                        *)
LEMMA CreateImageType ==
    ASSUME TypeOK, NEW i \in Images, NEW p \in Images \cup {NoImage},
           NEW u \in {"util", "none"}, NEW c \in BOOLEAN, NEW ok \in BOOLEAN,
           CreateImage(i, p, u, c, ok)
    PROVE  TypeOK'
<1> DEFINE ps == params[i] \cup {"log-level", "fs-version", "output-json"}
                           \cup IF p = NoImage THEN {} ELSE {"parent-bootstrap"}
<1>1. /\ params' = [params EXCEPT ![i] = ps]
      /\ clearFromOss' = [clearFromOss EXCEPT ![i] = c]
      /\ backend' = backend
  BY DEF CreateImage
<1>2. /\ params' \in [Images -> SUBSET BuildParams]
      /\ clearFromOss' \in [Images -> BOOLEAN]
      /\ backend' \in [Images -> Backends]
  BY <1>1 DEF TypeOK, BuildParams
<1>3. CASE \E bl \in BuilderBlobs(i, p) :
             LET b == BlobIdOfOutput(bl) IN
               /\ created' = [created EXCEPT ![i] = TRUE]
               /\ blobId' = [blobId EXCEPT ![i] = b]
               /\ localfsBacking' = [localfsBacking EXCEPT ![i] =
                                       IF backend[i] = "localfs" THEN b ELSE @]
               /\ store' = [store EXCEPT ![i] = Persist(i, b, u)]
               /\ objects' = objects \cup Outputs(i, b) \cup Persist(i, b, u)
               /\ dustbin' = dustbin \cup Registered(i, b)
           /\ live' = [live EXCEPT ![i] = TRUE]
           /\ raised' = [raised EXCEPT ![i] = "none"]
  <2>1. PICK bl \in BuilderBlobs(i, p) :
             LET b == BlobIdOfOutput(bl) IN
               /\ created' = [created EXCEPT ![i] = TRUE]
               /\ blobId' = [blobId EXCEPT ![i] = b]
               /\ localfsBacking' = [localfsBacking EXCEPT ![i] =
                                       IF backend[i] = "localfs" THEN b ELSE @]
               /\ store' = [store EXCEPT ![i] = Persist(i, b, u)]
               /\ objects' = objects \cup Outputs(i, b) \cup Persist(i, b, u)
               /\ dustbin' = dustbin \cup Registered(i, b)
    BY <1>3
  <2> DEFINE b == BlobIdOfOutput(bl)
  <2>2. b \in BlobIds
    BY BuiltBlobId
  <2>3. /\ created' \in [Images -> BOOLEAN]
        /\ blobId' \in [Images -> BlobIds \cup {NoBlob}]
        /\ localfsBacking' \in [Images -> BlobIds \cup {NoBlob}]
        /\ live' \in [Images -> BOOLEAN]
        /\ raised' \in [Images -> Errors]
    BY <1>3, <2>1, <2>2 DEF TypeOK, Errors
  <2>4. LET lb == IF backend[i] = "localfs" THEN b ELSE localfsBacking[i]
        IN  lb \in BlobIds \cup {NoBlob}
    BY <2>2 DEF TypeOK
  <2>5. /\ Outputs(i, b) \subseteq Locations
        /\ Persist(i, b, u) \subseteq Locations
        /\ Registered(i, b) \subseteq LocalFiles
    BY <2>2, <2>4, BuildLocations DEF Registered
  <2>6. /\ store' \in [Images -> SUBSET Locations]
        /\ objects' \subseteq Locations
        /\ dustbin' \subseteq LocalFiles
    BY <2>1, <2>5 DEF TypeOK
  <2>7. QED BY <1>2, <2>3, <2>6 DEF TypeOK, BuildParams
<1>4. CASE /\ \E left \in IF PartialBuilds THEN SUBSET Outputs(i, Content[i]) ELSE {{}} :
                objects' = objects \cup left
           /\ raised' = [raised EXCEPT ![i] = "AssertionError"]
           /\ UNCHANGED <<created, blobId, localfsBacking, store, live, dustbin>>
  <2>1. Outputs(i, Content[i]) \subseteq Locations
    BY ImageAssumption, BuildLocations
  <2>2. objects' \subseteq Locations
    BY <1>4, <2>1 DEF TypeOK
  <2>3. QED BY <1>2, <1>4, <2>2 DEF TypeOK, Errors, BuildParams
<1>5. QED
  BY <1>3, <1>4 DEF CreateImage

(* Every call into RafsImage and the teardown keep the state well typed. *)
LEMMA TypeInductive == TypeOK /\ [Next]_vars => TypeOK'
<1> SUFFICES ASSUME TypeOK, [Next]_vars PROVE TypeOK'
  OBVIOUS
<1>1. ASSUME NEW i \in Images, NEW t \in Backends \ {"none"}, SetBackend(i, t)
      PROVE  TypeOK'
  BY <1>1 DEF SetBackend, TypeOK, Errors
<1>2. ASSUME NEW i \in Images, NEW p \in Images \cup {NoImage},
             NEW u \in {"util", "none"}, NEW c \in BOOLEAN, NEW ok \in BOOLEAN,
             CreateImage(i, p, u, c, ok)
      PROVE  TypeOK'
  BY <1>2, CreateImageType
<1>3. ASSUME NEW i \in Images, CleanUp(i)
      PROVE  TypeOK'
  BY <1>3 DEF CleanUp, TypeOK, Errors
<1>4. CASE DrainDustbin
  BY <1>4 DEF DrainDustbin, TypeOK
<1>5. CASE UNCHANGED vars
  BY <1>5 DEF vars, TypeOK
<1>6. QED
  BY <1>1, <1>2, <1>3, <1>4, <1>5, NextCases

(* Every reachable state of the RafsImage objects is well typed, for     *)
(* every set of images and blob ids and every MaxBuilds.                  *)
THEOREM TypeCorrect == Spec => []TypeOK
BY TypeInit, TypeInductive, PTL DEF Spec

-----------------------------------------------------------------------------
(* The local files a successful build leaves are the ones it registers: *)
(* the bootstrap, blob_abs_path, and for localfs the blob in the work    *)
(* dir, whose id is the one just assigned to localfs_backing_blob.  The  *)
(* OSS and proxy copies are not local files.                             *)
LEMMA BuildRegistersOutputs ==
    ASSUME NEW i \in Images, NEW b, NEW u
    PROVE  (Outputs(i, b) \cup Persist(i, b, u)) \cap LocalFiles \subseteq Registered(i, b)
<1>1. CASE backend[i] = "localfs"
  <2>1. Outputs(i, b) \cup Persist(i, b, u) = {Bootstrap(i), Local(b)}
    BY <1>1 DEF Outputs, Persist
  <2>2. Local(b) \in LocalFiles => b # NoBlob
    BY ImageAssumption DEF LocalFiles, Bootstrap, BlobAbs, Local
  <2>3. QED
    BY <1>1, <2>1, <2>2 DEF Registered
<1>2. CASE backend[i] # "localfs"
  <2>1. Persist(i, b, u) \cap LocalFiles = {}
    BY <1>2 DEF Persist, LocalFiles, Bootstrap, BlobAbs, Local, Oss, Proxy
  <2>2. Outputs(i, b) \subseteq {Bootstrap(i), BlobAbs(i)}
    BY <1>2 DEF Outputs
  <2>3. QED
    BY <2>1, <2>2 DEF Registered
<1>3. QED BY <1>1, <1>2

(* With a builder that writes nothing when it fails, every call and the  *)
(* teardown keep every existing local file in the dustbin.               *)
LEMMA TrackedInductive ==
    ASSUME ~PartialBuilds
    PROVE  TrackedForTeardown /\ [Next]_vars => TrackedForTeardown'
<1> SUFFICES ASSUME TrackedForTeardown, [Next]_vars PROVE TrackedForTeardown'
  OBVIOUS
<1>1. ASSUME NEW i \in Images, NEW t \in Backends \ {"none"}, SetBackend(i, t)
      PROVE  TrackedForTeardown'
  BY <1>1 DEF SetBackend, TrackedForTeardown
<1>2. ASSUME NEW i \in Images, NEW p \in Images \cup {NoImage},
             NEW u \in {"util", "none"}, NEW c \in BOOLEAN, NEW ok \in BOOLEAN,
             CreateImage(i, p, u, c, ok)
      PROVE  TrackedForTeardown'
  <2>1. CASE \E bl \in BuilderBlobs(i, p) :
               LET b == BlobIdOfOutput(bl) IN
                 /\ objects' = objects \cup Outputs(i, b) \cup Persist(i, b, u)
                 /\ dustbin' = dustbin \cup Registered(i, b)
    <3>1. PICK bl \in BuilderBlobs(i, p) :
               LET b == BlobIdOfOutput(bl) IN
                 /\ objects' = objects \cup Outputs(i, b) \cup Persist(i, b, u)
                 /\ dustbin' = dustbin \cup Registered(i, b)
      BY <2>1
    <3>2. QED
      BY <3>1, BuildRegistersOutputs DEF TrackedForTeardown
  <2>2. CASE /\ \E left \in IF PartialBuilds THEN SUBSET Outputs(i, Content[i]) ELSE {{}} :
                  objects' = objects \cup left
             /\ UNCHANGED dustbin
    BY <2>2 DEF TrackedForTeardown
  <2>3. QED
    BY <1>2, <2>1, <2>2 DEF CreateImage
<1>3. ASSUME NEW i \in Images, CleanUp(i)
      PROVE  TrackedForTeardown'
  BY <1>3 DEF CleanUp, TrackedForTeardown
<1>4. CASE DrainDustbin
  BY <1>4 DEF DrainDustbin, TrackedForTeardown
<1>5. CASE UNCHANGED vars
  BY <1>5 DEF vars, TrackedForTeardown
<1>6. QED
  BY <1>1, <1>2, <1>3, <1>4, <1>5, NextCases

(* With a builder that leaves no output behind when it fails, every     *)
(* local file a build leaves (bootstrap, blob_abs_path, the localfs      *)
(* blob) is registered with the anchor's dustbin in every reachable      *)
(* state, whatever create_image, clean_up and teardown calls come        *)
(* between, for every set of images and blob ids and every MaxBuilds.    *)
THEOREM TrackedForTeardownCorrect ==
    ASSUME ~PartialBuilds
    PROVE  Spec => []TrackedForTeardown
<1>1. Init => TrackedForTeardown
  BY DEF Init, TrackedForTeardown
<1>2. TrackedForTeardown /\ [Next]_vars => TrackedForTeardown'
  BY TrackedInductive
<1>3. QED BY <1>1, <1>2, PTL DEF Spec

-----------------------------------------------------------------------------
(* Every step of the RafsImage objects is a step of Dustbin on the local *)
(* files, or leaves the local files and the dustbin alone.               *)
LEMMA DustbinStep ==
    ASSUME ~PartialBuilds, [Next]_vars
    PROVE  [DustbinAbs!Next]_DustbinAbs!dvars
<1>1. ASSUME NEW i \in Images, NEW t \in Backends \ {"none"}, SetBackend(i, t)
      PROVE  [DustbinAbs!Next]_DustbinAbs!dvars
  BY <1>1 DEF SetBackend, DustbinAbs!dvars
<1>2. ASSUME NEW i \in Images, NEW p \in Images \cup {NoImage},
             NEW u \in {"util", "none"}, NEW c \in BOOLEAN, NEW ok \in BOOLEAN,
             CreateImage(i, p, u, c, ok)
      PROVE  [DustbinAbs!Next]_DustbinAbs!dvars
  <2>1. CASE \E bl \in BuilderBlobs(i, p) :
               LET b == BlobIdOfOutput(bl) IN
                 /\ objects' = objects \cup Outputs(i, b) \cup Persist(i, b, u)
                 /\ dustbin' = dustbin \cup Registered(i, b)
    <3>1. PICK bl \in BuilderBlobs(i, p) :
               LET b == BlobIdOfOutput(bl) IN
                 /\ objects' = objects \cup Outputs(i, b) \cup Persist(i, b, u)
                 /\ dustbin' = dustbin \cup Registered(i, b)
      BY <2>1
    <3>2. DustbinAbs!Produce
      BY <3>1, BuildRegistersOutputs DEF DustbinAbs!Produce
    <3>3. QED BY <3>2 DEF DustbinAbs!Next
  <2>2. CASE /\ \E left \in IF PartialBuilds THEN SUBSET Outputs(i, Content[i]) ELSE {{}} :
                  objects' = objects \cup left
             /\ UNCHANGED dustbin
    BY <2>2 DEF DustbinAbs!dvars
  <2>3. QED
    BY <1>2, <2>1, <2>2 DEF CreateImage
<1>3. ASSUME NEW i \in Images, CleanUp(i)
      PROVE  [DustbinAbs!Next]_DustbinAbs!dvars
  <2>1. DustbinAbs!Unlink
    BY <1>3 DEF CleanUp, DustbinAbs!Unlink
  <2>2. QED BY <2>1 DEF DustbinAbs!Next
<1>4. CASE DrainDustbin
  <2>1. DustbinAbs!Teardown
    BY <1>4 DEF DrainDustbin, DustbinAbs!Teardown
  <2>2. QED BY <2>1 DEF DustbinAbs!Next
<1>5. CASE UNCHANGED vars
  BY <1>5 DEF vars, DustbinAbs!dvars
<1>6. QED
  BY <1>1, <1>2, <1>3, <1>4, <1>5, NextCases

(* With a builder that leaves no output behind when it fails, the        *)
(* RafsImage objects implement Dustbin, for every set of images and blob *)
(* ids and every MaxBuilds: a local file appears only registered,        *)
(* clean_up() only unlinks, and only the teardown empties the dustbin,   *)
(* unlinking exactly the registered paths.                               *)
THEOREM DustbinRefinement ==
    ASSUME ~PartialBuilds
    PROVE  Spec => DustbinRefined
<1>1. Init => DustbinAbs!Init
  BY DEF Init, DustbinAbs!Init
<1>2. [Next]_vars => [DustbinAbs!Next]_DustbinAbs!dvars
  BY DustbinStep
<1>3. QED
  BY <1>1, <1>2, PTL DEF Spec, DustbinRefined, DustbinAbs!Spec

=============================================================================
