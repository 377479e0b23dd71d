----------------------------- MODULE ConfProofs -----------------------------
(***************************************************************************)
(* Proofs about the RafsConf builder of Conf, for every MaxCalls: type     *)
(* correctness, that an undisturbed dump leaves exactly the current        *)
(* document in the config file, and that every document dumped for a v6   *)
(* image names a blobcache.                                                *)
(***************************************************************************)
EXTENDS Conf, TLAPS

(* _configure_rafs for several paths: the document gains the written     *)
(* paths, which take the written values, and keeps every other path.     *)
LEMMA ConfigureProps ==
    ASSUME NEW d, NEW w
    PROVE  /\ DOMAIN Configure(d, w) = DOMAIN w \cup DOMAIN d
           /\ \A p \in DOMAIN w : Configure(d, w)[p] = w[p]
BY DEF Configure, @@

(* The writes of every builder call name only attribute paths RafsConf  *)
(* knows.                                                                 *)
LEMMA BackendWritesPaths ==
    ASSUME NEW b \in Backends, NEW kw \in SUBSET Kwargs
    PROVE  DOMAIN (BackendWrites(b, kw) @@ ("device.backend.type" :> b)) \subseteq Paths
<1>1. DOMAIN RegistryWrites(kw) \subseteq Paths
  BY DEF RegistryWrites, @@, :>, Nothing, Paths, BackendConfigPaths, VariantFields
<1>2. DOMAIN OssWrites(kw) \subseteq Paths
  BY DEF OssWrites, @@, :>, Nothing, Paths, BackendConfigPaths, VariantFields
<1>3. DOMAIN ProxyWrites \subseteq Paths
  BY DEF ProxyWrites, @@, :>, Paths, BackendConfigPaths, VariantFields
<1>4. DOMAIN LocalfsWrites(kw) \subseteq Paths
  BY DEF LocalfsWrites, :>, Paths, BackendConfigPaths, VariantFields
<1>5. DOMAIN BackendWrites(b, kw) \subseteq Paths
  BY <1>1, <1>2, <1>3, <1>4 DEF BackendWrites, Backends
<1>6. QED
  BY <1>5 DEF @@, :>, Paths

LEMMA BlobcachePaths ==
    ASSUME NEW c, NEW w
    PROVE  /\ DOMAIN Blobcache(c, w) = DOMAIN Blobcache(FALSE, "work_dir")
           /\ DOMAIN Blobcache(c, w) \subseteq Paths
           /\ Blobcache(c, w)["device.cache.type"] = "blobcache"
BY DEF Blobcache, @@, :>, Paths

(* The documents of a file truncated and written with one document. *)
LEMMA OneDocument ==
    ASSUME NEW doc
    PROVE  {<<doc>>[k] : k \in 1..Len(<<doc>>)} = {doc}
OBVIOUS

(* A builder call that changes the document keeps it well typed, given *)
(* that it writes known paths and leaves the file alone.                 *)
LEMMA MutateType ==
    ASSUME TypeOK, NEW w, DOMAIN w \subseteq Paths, Mutate(w),
           UNCHANGED <<file, fsVersion>>,
           explicitCache' = Nothing
             \/ DOMAIN explicitCache' = DOMAIN Blobcache(FALSE, "work_dir")
    PROVE  TypeOK'
<1>1. DOMAIN dev' = DOMAIN w \cup DOMAIN dev
  BY DEF Mutate, Configure, @@
<1>2. calls' \in 0..MaxCalls
  BY MaxCallsAssumption DEF Mutate, TypeOK
<1>3. Documents' = Documents
  BY DEF Documents
<1>4. QED
  BY <1>1, <1>2, <1>3 DEF Mutate, TypeOK

-----------------------------------------------------------------------------
(* RafsConf.__init__ builds a well typed document. *)
LEMMA TypeInit == Init => TypeOK
BY MaxCallsAssumption DEF Init, TypeOK, Documents, Nothing, :>, @@, Paths

(* Every builder call and every dump keeps the state well typed. *)
LEMMA TypeInductive == TypeOK /\ [Next]_vars => TypeOK'
<1> SUFFICES ASSUME TypeOK, [Next]_vars PROVE TypeOK'
  OBVIOUS
<1>1. ASSUME NEW b \in Backends, NEW kw \in SUBSET Kwargs, SetRafsBackend(b, kw)
      PROVE  TypeOK'
  <2>1. DOMAIN (BackendWrites(b, kw) @@ ("device.backend.type" :> b)) \subseteq Paths
    BY BackendWritesPaths
  <2>2. QED BY <1>1, <2>1, MutateType DEF SetRafsBackend, TypeOK
<1>2. CASE SetRegistryRepo
  <2>1. DOMAIN ("device.backend.config.repo" :> "repo") \subseteq Paths
    BY DEF :>, @@, Paths, BackendConfigPaths, VariantFields
  <2>2. QED BY <1>2, <2>1, MutateType DEF SetRegistryRepo, TypeOK
<1>3. ASSUME NEW s \in DOMAIN Scalars, SetScalar(s, Scalars[s])
      PROVE  TypeOK'
  <2>1. DOMAIN (s :> Scalars[s]) \subseteq Paths
    BY DEF Scalars, :>, Paths
  <2>2. QED BY <1>3, <2>1, MutateType DEF SetScalar, TypeOK
<1>4. ASSUME NEW c \in BOOLEAN, NEW w \in WorkDirs, EnableRafsBlobcache(c, w)
      PROVE  TypeOK'
  <2>1. DOMAIN Blobcache(c, w) \subseteq Paths
        /\ DOMAIN explicitCache' = DOMAIN Blobcache(FALSE, "work_dir")
    BY <1>4, BlobcachePaths DEF EnableRafsBlobcache
  <2>2. QED BY <1>4, <2>1, MutateType DEF EnableRafsBlobcache
<1>5. CASE EnableFsPrefetch
  <2>1. DOMAIN FsPrefetchDefaults \subseteq Paths
    BY DEF FsPrefetchDefaults, :>, @@, Paths
  <2>2. Mutate(FsPrefetchDefaults) /\ UNCHANGED <<file, fsVersion, explicitCache>>
    BY <1>5 DEF EnableFsPrefetch
  <2>3. QED BY <2>1, <2>2, MutateType DEF TypeOK
<1>6. CASE EnableValidation
  <2>1. CASE fsVersion = 6
    <3>1. calls' \in 0..MaxCalls
      BY <1>6, <2>1, MaxCallsAssumption DEF EnableValidation, TypeOK
    <3>2. UNCHANGED <<dev, file, fsVersion, explicitCache, dirty>>
      BY <1>6, <2>1 DEF EnableValidation
    <3>3. QED BY <3>1, <3>2 DEF TypeOK, Documents
  <2>2. CASE fsVersion # 6
    <3>1. DOMAIN ("digest_validate" :> TRUE) \subseteq Paths
      BY DEF :>, Paths
    <3>2. Mutate("digest_validate" :> TRUE) /\ UNCHANGED <<file, fsVersion, explicitCache>>
      BY <1>6, <2>2 DEF EnableValidation, DigestValidate
    <3>3. QED BY <3>1, <3>2, MutateType DEF TypeOK
  <2>3. QED BY <2>1, <2>2
<1>7. CASE DumpRafsConf
  <2>1. /\ {"device.backend.type", "mode"} \subseteq DOMAIN dev'
        /\ DOMAIN dev' \subseteq Paths
    BY <1>7, BlobcachePaths DEF DumpRafsConf, TypeOK, Configure, @@
  <2>2. file' = <<dev'>>
    BY <1>7 DEF DumpRafsConf
  <2>3. {<<dev'>>[k] : k \in 1..Len(<<dev'>>)} = {dev'}
    BY OneDocument
  <2>4. Documents' = {dev'}
    BY <2>2, <2>3 DEF Documents
  <2>5. QED
    BY <1>7, <2>1, <2>4 DEF DumpRafsConf, TypeOK
<1>8. CASE UNCHANGED vars
  BY <1>8 DEF vars, TypeOK, Documents
<1>9. QED
  BY <1>1, <1>2, <1>3, <1>4, <1>5, <1>6, <1>7, <1>8 DEF Next

(* Every reachable state of RafsConf is well typed, for every MaxCalls. *)
THEOREM TypeCorrect == Spec => []TypeOK
BY TypeInit, TypeInductive, PTL DEF Spec

-----------------------------------------------------------------------------
(* Every step either leaves the config file alone or is dump_rafs_conf(), *)
(* and every builder call sets dirty.                                     *)
LEMMA FileSteps ==
    ASSUME [Next]_vars
    PROVE  \/ DumpRafsConf
           \/ UNCHANGED <<file, fsVersion>> /\ dirty' = TRUE
           \/ UNCHANGED <<dev, file, fsVersion, dirty>>
<1>1. CASE EnableValidation
  BY <1>1 DEF EnableValidation, DigestValidate, Mutate
<1>2. QED
  BY <1>1 DEF Next, vars, SetRafsBackend, SetRegistryRepo, SetScalar,
              EnableRafsBlobcache, EnableFsPrefetch, Mutate

(* The file after dump_rafs_conf() holds the one document written. *)
LEMMA DumpDocuments ==
    ASSUME DumpRafsConf
    PROVE  /\ file' = <<dev'>>
           /\ Documents' = {dev'}
<1>1. file' = <<dev'>>
  BY DEF DumpRafsConf
<1>2. QED
  BY <1>1, OneDocument DEF Documents

(* When nothing changed since dump_rafs_conf(), the config file holds     *)
(* exactly the builder's current document: a re-dump overwrites rather    *)
(* than appends, for every MaxCalls.                                       *)
THEOREM FileIsCurrentCorrect == Spec => []FileIsCurrent
<1>1. Init => FileIsCurrent
  BY DEF Init, FileIsCurrent
<1>2. FileIsCurrent /\ [Next]_vars => FileIsCurrent'
  <2> SUFFICES ASSUME FileIsCurrent, [Next]_vars PROVE FileIsCurrent'
    OBVIOUS
  <2>1. CASE DumpRafsConf
    BY <2>1, DumpDocuments DEF FileIsCurrent
  <2>2. CASE UNCHANGED <<file, fsVersion>> /\ dirty' = TRUE
    BY <2>2 DEF FileIsCurrent
  <2>3. CASE UNCHANGED <<dev, file, fsVersion, dirty>>
    BY <2>3 DEF FileIsCurrent
  <2>4. QED BY <2>1, <2>2, <2>3, FileSteps
<1>3. QED BY <1>1, <1>2, PTL DEF Spec

(* The v6 upgrade of dump_rafs_conf() leaves a blobcache in the document *)
(* it writes.                                                             *)
LEMMA V6DumpCache ==
    ASSUME DumpRafsConf, fsVersion = 6
    PROVE  /\ "device.cache.type" \in DOMAIN dev'
           /\ dev'["device.cache.type"] = "blobcache"
<1>1. dev' = Configure(dev, Blobcache(FALSE, "anchor.blobcache_dir"))
  BY DEF DumpRafsConf
<1>2. "device.cache.type" \in DOMAIN Blobcache(FALSE, "anchor.blobcache_dir")
  BY DEF Blobcache, :>, @@
<1>3. QED
  BY <1>1, <1>2, BlobcachePaths DEF Configure, @@

(* Every document dump_rafs_conf() writes for a v6 image names a         *)
(* blobcache, whatever builder calls came before it, for every MaxCalls. *)
THEOREM V6DumpHasCacheCorrect == Spec => []V6DumpHasCache
<1>1. Init => V6DumpHasCache
  BY DEF Init, V6DumpHasCache, Documents
<1>2. V6DumpHasCache /\ [Next]_vars => V6DumpHasCache'
  <2> SUFFICES ASSUME V6DumpHasCache, [Next]_vars PROVE V6DumpHasCache'
    OBVIOUS
  <2>1. CASE DumpRafsConf
    <3>1. CASE fsVersion = 6
      BY <2>1, <3>1, DumpDocuments, V6DumpCache DEF V6DumpHasCache, DumpRafsConf
    <3>2. CASE fsVersion # 6
      BY <2>1, <3>2 DEF V6DumpHasCache, DumpRafsConf
    <3>3. QED BY <3>1, <3>2
  <2>2. CASE UNCHANGED <<file, fsVersion>>
    BY <2>2 DEF V6DumpHasCache, Documents
  <2>3. QED BY <2>1, <2>2, FileSteps
<1>3. QED BY <1>1, <1>2, PTL DEF Spec

-----------------------------------------------------------------------------
(* The default cache dump_rafs_conf() applies on v6. *)
V6Cache == Blobcache(FALSE, "anchor.blobcache_dir")

(* Writing into a document values it already holds changes nothing. *)
LEMMA ConfigureIdempotent ==
    ASSUME NEW d, NEW w, d = [x \in DOMAIN d |-> d[x]],
           \A p \in DOMAIN w : p \in DOMAIN d /\ d[p] = w[p]
    PROVE  Configure(d, w) = d
<1>1. DOMAIN Configure(d, w) = DOMAIN d
  BY DEF Configure, @@
<1>2. \A x \in DOMAIN d : Configure(d, w)[x] = d[x]
  BY DEF Configure, @@
<1>3. Configure(d, w) = [x \in DOMAIN Configure(d, w) |-> Configure(d, w)[x]]
  BY DEF Configure, @@
<1>4. QED
  BY <1>1, <1>2, <1>3

(* The strengthening DumpIdempotent needs: the document is a function,   *)
(* the file is current when clean, and a clean v6 document already holds *)
(* the default cache the next dump re-applies.                           *)
DevIsFunction == dev = [x \in DOMAIN dev |-> dev[x]]

CleanV6HasCache ==
    ~dirty /\ fsVersion = 6 =>
        \A p \in DOMAIN V6Cache : p \in DOMAIN dev /\ dev[p] = V6Cache[p]

DumpInv == DevIsFunction /\ FileIsCurrent /\ CleanV6HasCache

(* The document written by a setter or a dump is a function. *)
LEMMA ConfigureIsFunction ==
    ASSUME NEW d, NEW w
    PROVE  Configure(d, w) = [x \in DOMAIN Configure(d, w) |-> Configure(d, w)[x]]
BY DEF Configure, @@

(* Every step leaves the document alone or writes into it. *)
LEMMA DevSteps ==
    ASSUME [Next]_vars
    PROVE  dev' = dev \/ \E w : dev' = Configure(dev, w)
<1>1. ASSUME NEW w, Mutate(w) PROVE \E v : dev' = Configure(dev, v)
  BY <1>1 DEF Mutate
<1>2. CASE EnableValidation
  BY <1>1, <1>2 DEF EnableValidation, DigestValidate
<1>3. CASE DumpRafsConf
  BY <1>3 DEF DumpRafsConf
<1>4. QED
  BY <1>1, <1>2, <1>3 DEF Next, vars, SetRafsBackend, SetRegistryRepo, SetScalar,
     EnableRafsBlobcache, EnableFsPrefetch

LEMMA DumpInvInit == Init => DumpInv
<1> SUFFICES ASSUME Init PROVE DumpInv
  OBVIOUS
<1>1. DevIsFunction
  BY DEF Init, DevIsFunction, @@, :>
<1>2. QED
  BY <1>1 DEF Init, DumpInv, FileIsCurrent, CleanV6HasCache

LEMMA DumpInvInductive == DumpInv /\ [Next]_vars => DumpInv'
<1> SUFFICES ASSUME DumpInv, [Next]_vars PROVE DumpInv'
  OBVIOUS
<1>1. FileIsCurrent'
  <2>1. CASE DumpRafsConf
    BY <2>1, DumpDocuments DEF FileIsCurrent
  <2>2. CASE UNCHANGED <<file, fsVersion>> /\ dirty' = TRUE
    BY <2>2 DEF FileIsCurrent
  <2>3. CASE UNCHANGED <<dev, file, fsVersion, dirty>>
    BY <2>3 DEF DumpInv, FileIsCurrent
  <2>4. QED BY <2>1, <2>2, <2>3, FileSteps
<1>2. CASE DumpRafsConf
  <2>1. DevIsFunction'
    BY <1>2, ConfigureIsFunction DEF DumpRafsConf, DumpInv, DevIsFunction
  <2>2. CASE fsVersion = 6
    <3>1. dev' = Configure(dev, V6Cache)
      BY <1>2, <2>2 DEF DumpRafsConf, V6Cache
    <3>2. \A p \in DOMAIN V6Cache : p \in DOMAIN dev' /\ dev'[p] = V6Cache[p]
      BY <3>1 DEF Configure, @@
    <3>3. QED BY <1>1, <2>1, <3>2 DEF DumpInv, CleanV6HasCache
  <2>3. CASE fsVersion # 6
    BY <1>1, <1>2, <2>1, <2>3 DEF DumpRafsConf, DumpInv, CleanV6HasCache
  <2>4. QED BY <2>2, <2>3
<1>3. CASE UNCHANGED <<file, fsVersion>> /\ dirty' = TRUE
  <2>1. DevIsFunction'
    <3>1. CASE dev' = dev
      BY <3>1 DEF DumpInv, DevIsFunction
    <3>2. CASE \E w : dev' = Configure(dev, w)
      BY <3>2, ConfigureIsFunction DEF DevIsFunction
    <3>3. QED BY <3>1, <3>2, DevSteps
  <2>2. QED BY <1>1, <1>3, <2>1 DEF DumpInv, CleanV6HasCache
<1>4. CASE UNCHANGED <<dev, file, fsVersion, dirty>>
  BY <1>1, <1>4 DEF DumpInv, DevIsFunction, CleanV6HasCache
<1>5. QED BY <1>2, <1>3, <1>4, FileSteps

(* Dumping again with nothing changed in between rewrites the same      *)
(* config file, on v6 too, for every MaxCalls: the v6 upgrade of         *)
(* dump_rafs_conf() re-applies values the document already holds.        *)
THEOREM DumpIdempotentCorrect == Spec => DumpIdempotent
<1>1. DumpInv /\ [Next]_vars => [~dirty /\ ~dirty' => file' = file]_vars
  <2> SUFFICES ASSUME DumpInv, [Next]_vars, ~dirty, ~dirty'
               PROVE  file' = file
    OBVIOUS
  <2>1. CASE DumpRafsConf
    <3>1. file = <<dev>> /\ file' = <<dev'>>
      BY <2>1, DumpDocuments DEF DumpInv, FileIsCurrent
    <3>2. CASE fsVersion = 6
      <4>1. Configure(dev, V6Cache) = dev
        BY <3>2, ConfigureIdempotent DEF DumpInv, DevIsFunction, CleanV6HasCache
      <4>2. QED BY <2>1, <3>1, <3>2, <4>1 DEF DumpRafsConf, V6Cache
    <3>3. CASE fsVersion # 6
      BY <2>1, <3>1, <3>3 DEF DumpRafsConf
    <3>4. QED BY <3>2, <3>3
  <2>2. CASE UNCHANGED <<file, fsVersion>> /\ dirty' = TRUE
    BY <2>2
  <2>3. CASE UNCHANGED <<dev, file, fsVersion, dirty>>
    BY <2>3
  <2>4. QED BY <2>1, <2>2, <2>3, FileSteps
<1>2. QED
  BY <1>1, DumpInvInit, DumpInvInductive, PTL DEF Spec, DumpIdempotent

-----------------------------------------------------------------------------
(* The v6 upgrade of dump_rafs_conf() keeps every setting outside        *)
(* device.cache and adds only cache settings.                            *)
LEMMA V6CacheKeepsSettings ==
    ASSUME NEW d
    PROVE  ConfFileAbs!KeepsSettings(d, Configure(d, V6Cache))
<1>1. DOMAIN V6Cache = DOMAIN Blobcache(FALSE, "work_dir")
  BY BlobcachePaths DEF V6Cache
<1>2. DOMAIN Configure(d, V6Cache) = DOMAIN V6Cache \cup DOMAIN d
  BY DEF Configure, @@
<1>3. \A p \in DOMAIN d \ DOMAIN V6Cache : Configure(d, V6Cache)[p] = d[p]
  BY DEF Configure, @@
<1>4. QED
  BY <1>1, <1>2, <1>3 DEF ConfFileAbs!KeepsSettings

(* Every step of RafsConf is a step of the config file of ConfFile, or   *)
(* leaves the document, the file and its staleness alone.                *)
LEMMA ConfStepRefines ==
    [Next]_vars => [ConfFileAbs!Next]_ConfFileAbs!avars
<1> SUFFICES ASSUME [Next]_vars PROVE [ConfFileAbs!Next]_ConfFileAbs!avars
  OBVIOUS
<1>1. CASE DumpRafsConf
  <2>1. ConfFileAbs!KeepsSettings(dev, dev')
    <3>1. CASE fsVersion = 6
      BY <1>1, <3>1, V6CacheKeepsSettings DEF DumpRafsConf, V6Cache
    <3>2. CASE fsVersion # 6
      BY <1>1, <3>2 DEF DumpRafsConf, ConfFileAbs!KeepsSettings
    <3>3. QED BY <3>1, <3>2
  <2>2. ConfFileAbs!Dump
    BY <1>1, <2>1 DEF DumpRafsConf, ConfFileAbs!Dump
  <2>3. QED BY <2>2 DEF ConfFileAbs!Next
<1>2. CASE UNCHANGED <<file, fsVersion>> /\ dirty' = TRUE
  <2>1. ConfFileAbs!Edit
    BY <1>2 DEF ConfFileAbs!Edit
  <2>2. QED BY <2>1 DEF ConfFileAbs!Next
<1>3. CASE UNCHANGED <<dev, file, fsVersion, dirty>>
  BY <1>3 DEF ConfFileAbs!avars
<1>4. QED BY <1>1, <1>2, <1>3, FileSteps

(* RafsConf implements the config file of ConfFile, for every MaxCalls:  *)
(* a setter only makes the file stale, and dump_rafs_conf() overwrites   *)
(* it with exactly the current document, whose settings outside          *)
(* device.cache the dump leaves as the setters made them.                *)
THEOREM ConfRefinement == Spec => ConfFileRefined
<1>1. Init => ConfFileAbs!Init
  BY DEF Init, ConfFileAbs!Init
<1>2. QED
  BY <1>1, ConfStepRefines, PTL DEF Spec, ConfFileRefined, ConfFileAbs!Spec

=============================================================================
