-------------------------------- MODULE Conf --------------------------------
(***************************************************************************)
(* The nydusd runtime configuration built by class RafsConf                *)
(* (framework/rafs.py).                                                    *)
(*                                                                         *)
(* RafsConf keeps the document as a tree of Namespace objects,            *)
(* self._device_conf, and every setter writes one attribute path of it     *)
(* through _configure_rafs (`exec("self._device_conf." + k + "=v")`).     *)
(* The model keeps the document as a function from the dotted attribute   *)
(* paths that have been written to their values; a value is named after   *)
(* the source expression that supplies it (an anchor attribute, a kwarg). *)
(* dump_rafs_conf() writes the document to the config file, which is     *)
(* modelled as the sequence of documents written to it since the last     *)
(* truncation.                                                             *)
(***************************************************************************)
EXTENDS Naturals, Sequences

(* The document of one path p with value v, and document w written over *)
(* d, w's values winning (the operators of the TLC module, defined here  *)
(* so that the provers can expand them).                                  *)
p :> v == [x \in {p} |-> v]
w @@ d == [x \in DOMAIN w \cup DOMAIN d |-> IF x \in DOMAIN w THEN w[x] ELSE d[x]]

CONSTANTS
    MaxCalls   \* bound: builder calls one test makes on one RafsConf

ASSUME MaxCallsAssumption == MaxCalls \in Nat

VARIABLES
    dev,           \* self._device_conf, as path |-> value
    file,          \* the documents in the config file (self.__conf_file_wrapper)
    fsVersion,     \* int(self.anchor.fs_version)
    explicitCache, \* history: the cache the caller last enabled (Nothing: none)
    dirty,         \* history: dev changed since the last dump
    calls          \* history: builder calls made so far

vars == <<dev, file, fsVersion, explicitCache, dirty, calls>>

(* The values of Backend (str(backend_type)). *)
Backends == {"oss", "registry", "localfs", "backend_proxy"}

(* The kwargs set_rafs_backend reads. *)
Kwargs == {"repo", "scheme", "prefix", "image"}

(* The attribute paths of device.backend.config each variant writes. *)
VariantFields ==
    [oss |-> {"device.backend.config.object_prefix",
              "device.backend.config.endpoint",
              "device.backend.config.access_key_id",
              "device.backend.config.access_key_secret",
              "device.backend.config.bucket_name"},
     registry |-> {"device.backend.config.repo",
                   "device.backend.config.scheme",
                   "device.backend.config.host",
                   "device.backend.config.auth"},
     localfs |-> {"device.backend.config.blob_file",
                  "device.backend.config.dir"}]

BackendConfigPaths ==
    VariantFields.oss \cup VariantFields.registry \cup VariantFields.localfs

(* The document with no path written. *)
Nothing == [p \in {} |-> "none"]

(* Mutation: a setter that rebinds the whole document instead of one     *)
(* attribute of it.                                                      *)
ConfigureReplace(d, writes) == writes

(* _configure_rafs(k, v) for several paths at once: the new values win. *)
Configure(d, writes) == writes @@ d

-----------------------------------------------------------------------------
(* RafsConf.__init__: the default document; `mode` comes from the        *)
(* PREFERRED_MODE environment variable.                                   *)
Init ==
    /\ \E mode \in {"direct", "cached"} :
         dev = ("device.backend.type" :> "oss") @@ ("mode" :> mode)
               @@ ("iostats_files" :> FALSE) @@ ("fs_prefetch.enable" :> FALSE)
    /\ file = << >>
    /\ fsVersion \in {5, 6}
    /\ explicitCache = Nothing
    /\ dirty = TRUE
    /\ calls = 0

(* A builder call that changes the document. *)
Mutate(writes) ==
    /\ calls < MaxCalls
    /\ dev' = Configure(dev, writes)
    /\ dirty' = TRUE
    /\ calls' = calls + 1

(* The writes of set_rafs_backend(backend_type, **kwargs), in the order of *)
(* the code: the type, then the variant's fields; BACKEND_PROXY rewrites   *)
(* the type to "registry".                                                 *)
RegistryWrites(kw) ==
    ("device.backend.config.scheme" :>
        IF "scheme" \in kw THEN "kwargs.scheme" ELSE "http")
    @@ ("device.backend.config.host" :> "anchor.registry_url")
    @@ ("device.backend.config.auth" :> "anchor.registry_auth")
    @@ IF "repo" \in kw
         THEN "device.backend.config.repo" :> "join(anchor.registry_namespace, repo)"
         ELSE Nothing

OssWrites(kw) ==
    ("device.backend.config.endpoint" :> "anchor.oss_endpoint")
    @@ ("device.backend.config.access_key_id" :> "anchor.oss_ak_id")
    @@ ("device.backend.config.access_key_secret" :> "anchor.oss_ak_secret")
    @@ ("device.backend.config.bucket_name" :> "anchor.oss_bucket")
    @@ IF "prefix" \in kw
         THEN "device.backend.config.object_prefix" :> "kwargs.prefix"
         ELSE Nothing

ProxyWrites ==
    ("device.backend.type" :> "registry")
    @@ ("device.backend.config.scheme" :> "http")
    @@ ("device.backend.config.repo" :> "nydus")
    @@ ("device.backend.config.host" :> "anchor.backend_proxy_url")

LocalfsWrites(kw) ==
    IF "image" \in kw
      THEN "device.backend.config.blob_file" :> "image.localfs_backing_blob"
      ELSE "device.backend.config.dir" :> "anchor.localfs_workdir"

BackendWrites(b, kw) ==
    CASE b = "registry"      -> RegistryWrites(kw)
      [] b = "oss"           -> OssWrites(kw)
      [] b = "backend_proxy" -> ProxyWrites
      [] b = "localfs"       -> LocalfsWrites(kw)

SetRafsBackend(b, kw) ==
    /\ Mutate(BackendWrites(b, kw) @@ ("device.backend.type" :> b))
    /\ UNCHANGED <<file, fsVersion, explicitCache>>

SetRegistryRepo ==
    /\ Mutate("device.backend.config.repo" :> "repo")
    /\ UNCHANGED <<file, fsVersion, explicitCache>>

(* enable_files_iostats, enable_latest_read_files, enable_access_pattern, *)
(* amplify_io, rafs_mem_mode and enable_xattr each set one scalar.        *)
SetScalar(path, v) ==
    /\ Mutate(path :> v)
    /\ UNCHANGED <<file, fsVersion, explicitCache>>

(* The path each of them sets, and the value it writes there. *)
Scalars ==
    [iostats_files |-> TRUE, latest_read_files |-> TRUE, access_pattern |-> TRUE,
     amplify_io |-> "size", mode |-> "cached", enable_xattr |-> TRUE]

(* enable_rafs_blobcache(is_compressed, work_dir) replaces device.cache. *)
Blobcache(compressed, workDir) ==
    ("device.cache.type" :> "blobcache")
    @@ ("device.cache.config.work_dir" :> workDir)
    @@ ("device.cache.compressed" :> compressed)

WorkDirs == {"anchor.blobcache_dir", "work_dir"}

EnableRafsBlobcache(compressed, workDir) ==
    /\ Mutate(Blobcache(compressed, workDir))
    /\ explicitCache' = Blobcache(compressed, workDir)
    /\ UNCHANGED <<file, fsVersion>>

(* The writes of enable_fs_prefetch() with its default arguments. *)
FsPrefetchDefaults ==
    ("fs_prefetch.enable" :> TRUE) @@ ("fs_prefetch.threads_count" :> 8)
    @@ ("fs_prefetch.merging_size" :> 131072)
    @@ ("fs_prefetch.bandwidth_rate" :> 0) @@ ("fs_prefetch.prefetch_all" :> FALSE)

EnableFsPrefetch ==
    /\ Mutate(FsPrefetchDefaults)
    /\ UNCHANGED <<file, fsVersion, explicitCache>>

(* enable_validation() past its fs v6 check: digest_validate = True. *)
DigestValidate ==
    /\ Mutate("digest_validate" :> TRUE)
    /\ UNCHANGED <<file, fsVersion, explicitCache>>

(* enable_validation(): a no-op (the builder returned unchanged) on v6. *)
EnableValidation ==
    IF fsVersion = 6
      THEN /\ calls < MaxCalls
           /\ calls' = calls + 1
           /\ UNCHANGED <<dev, file, fsVersion, explicitCache, dirty>>
      ELSE DigestValidate

(* Mutation: dump_rafs_conf() without truncate(0)/seek(0). *)
DumpRafsConfAppend ==
    /\ dev' = IF fsVersion = 6
                THEN Configure(dev, Blobcache(FALSE, "anchor.blobcache_dir"))
                ELSE dev
    /\ file' = Append(file, dev')
    /\ dirty' = FALSE
    /\ UNCHANGED <<fsVersion, explicitCache, calls>>

(* Mutation: dump_rafs_conf() without the fs v6 cache upgrade. *)
DumpRafsConfNoCache ==
    /\ dev' = dev
    /\ file' = <<dev'>>
    /\ dirty' = FALSE
    /\ UNCHANGED <<fsVersion, explicitCache, calls>>

(* dump_rafs_conf(): on v6, enable_rafs_blobcache() with its defaults;     *)
(* then truncate the file and write the snapshot of the document.         *)
DumpRafsConf ==
    /\ dev' = IF fsVersion = 6
                THEN Configure(dev, Blobcache(FALSE, "anchor.blobcache_dir"))
                ELSE dev
    /\ file' = <<dev'>>
    /\ dirty' = FALSE
    /\ UNCHANGED <<fsVersion, explicitCache, calls>>

Next ==
    \/ \E b \in Backends, kw \in SUBSET Kwargs : SetRafsBackend(b, kw)
    \/ SetRegistryRepo
    \/ \E p \in DOMAIN Scalars : SetScalar(p, Scalars[p])
    \/ \E c \in BOOLEAN, w \in WorkDirs : EnableRafsBlobcache(c, w)
    \/ EnableFsPrefetch
    \/ EnableValidation
    \/ DumpRafsConf

Spec == Init /\ [][Next]_vars

-----------------------------------------------------------------------------
Documents == {file[k] : k \in 1..Len(file)}

(* Every attribute path RafsConf writes. *)
Paths ==
    BackendConfigPaths \cup DOMAIN Blobcache(FALSE, "work_dir")
    \cup {"device.backend.type", "mode", "iostats_files", "latest_read_files",
        "access_pattern", "amplify_io", "enable_xattr", "digest_validate",
        "fs_prefetch.enable", "fs_prefetch.threads_count",
        "fs_prefetch.merging_size", "fs_prefetch.bandwidth_rate",
        "fs_prefetch.prefetch_all"}

TypeOK ==
    /\ {"device.backend.type", "mode"} \subseteq DOMAIN dev
    /\ DOMAIN dev \subseteq Paths
    /\ \A doc \in Documents : DOMAIN doc \subseteq Paths
    /\ fsVersion \in {5, 6}
    /\ explicitCache = Nothing
         \/ DOMAIN explicitCache = DOMAIN Blobcache(FALSE, "work_dir")
    /\ dirty \in BOOLEAN
    /\ calls \in 0..MaxCalls

(* When nothing has changed since dump_rafs_conf() (truncate, then      *)
(* json.dump), the config file holds exactly one document, the current  *)
(* one: a re-dump overwrites and a daemon started now reads what the    *)
(* builder holds (spec 3: "idempotent re-serialization must overwrite,   *)
(* not append").                                                         *)
FileIsCurrent == ~dirty => file = <<dev>>

(* Every document dump_rafs_conf() writes for a v6 image names a         *)
(* blobcache (spec 8: "major version 6 ... yields a document with cache  *)
(* type set to the disk-backed default"), whatever the builder calls     *)
(* before it.                                                             *)
V6DumpHasCache ==
    fsVersion = 6 =>
        \A doc \in Documents :
            /\ "device.cache.type" \in DOMAIN doc
            /\ doc["device.cache.type"] = "blobcache"

(* Dumping again with nothing changed in between rewrites the same file, *)
(* on v6 too, where every dump_rafs_conf() first re-applies the default  *)
(* blobcache (spec 3: "idempotent re-serialization").                   *)
DumpIdempotent == [][~dirty /\ ~dirty' => file' = file]_vars

(* The config file of a RafsConf is the one of ConfFile: the setters   *)
(* make it stale, and dump_rafs_conf() overwrites it with exactly the     *)
(* current document, changing no setting outside device.cache (spec 3).   *)
ConfFileAbs == INSTANCE ConfFile
    WITH doc <- dev, stale <- dirty,
         CachePaths <- DOMAIN Blobcache(FALSE, "work_dir")

ConfFileRefined == ConfFileAbs!Spec

(* The backend object of every dumped document holds only fields of the *)
(* variant its type names (spec 8: "contains exactly the variant's       *)
(* required fields and no fields from other variants").                  *)
BackendFieldsOfVariant ==
    \A doc \in Documents :
        DOMAIN doc \cap BackendConfigPaths
            \subseteq VariantFields[doc["device.backend.type"]]

(* A cache the caller enabled explicitly is the one in the file once it *)
(* has been dumped (spec 3: the v6 upgrade applies to a document "with   *)
(* no explicit cache").                                                  *)
ExplicitCacheKept ==
    ~dirty =>
        \A doc \in Documents, p \in DOMAIN explicitCache :
            p \in DOMAIN doc /\ doc[p] = explicitCache[p]

=============================================================================
