-------------------------------- MODULE Image --------------------------------
(***************************************************************************)
(* RAFS images built by class RafsImage (framework/rafs.py): set_backend, *)
(* create_image and clean_up on several RafsImage objects of one test     *)
(* session, with the session teardown that drains the anchor's dustbin.   *)
(*                                                                         *)
(* Files and remote objects are locations: the bootstrap and the          *)
(* blob_abs_path temp file of an image, and the blob of a content id in   *)
(* the localfs work dir, the OSS bucket or the backend proxy's blob dir.  *)
(* Blob ids are content addresses, so two images can name the same blob.  *)
(* The options given to the builder are a bag of option names.            *)
(***************************************************************************)
EXTENDS Naturals, Sequences, Bags

CONSTANTS
    Images,        \* the RafsImage objects of a test session
    BlobIds,       \* content ids the builder can print
    Content,       \* Content[i]: the id of a blob built from i's rootfs alone
    NoImage,       \* parent_image=None
    NoBlob,        \* blob_id = None, or no localfs_backing_blob attribute
    MaxBuilds,     \* bound: create_image calls on one object
    PartialBuilds  \* fault model: a failing builder may leave its outputs

ASSUME ImageAssumption ==
    /\ Content \in [Images -> BlobIds]
    /\ NoImage \notin Images /\ NoBlob \notin BlobIds
    /\ MaxBuilds \in Nat /\ PartialBuilds \in BOOLEAN

VARIABLES
    backend,        \* self.backend_type ("none": None)
    params,         \* the keys of self.command_param_dict
    opts,           \* self.opts, as a bag of option names
    created,        \* self.created, set together with self.bootstrap_path
    blobId,         \* self.blob_id
    localfsBacking, \* the id in self.localfs_backing_blob
    clearFromOss,   \* self.clear_from_oss
    store,          \* history: where the last successful build put its blob
    live,           \* history: built, and neither cleaned up nor torn down
    raised,         \* history: the exception the last call on the image raised
    objects,        \* the locations that exist
    dustbin         \* the paths registered with anchor.put_dustbin

vars == <<backend, params, opts, created, blobId, localfsBacking,
          clearFromOss, store, live, raised, objects, dustbin>>

Backends == {"none", "oss", "registry", "localfs", "backend_proxy"}
Errors == {"none", "AssertionError", "FileNotFoundError"}

Bootstrap(i) == <<"bootstrap", i>>   \* self.bootstrap_name
BlobAbs(i)   == <<"blob", i>>        \* self.blob_abs_path
Local(b)     == <<"localfs", b>>     \* anchor.localfs_workdir/<blob id>
Oss(b)       == <<"oss", b>>         \* the object of id b in the bucket
Proxy(b)     == <<"proxy", b>>       \* anchor.backend_proxy_blobs_dir/<blob id>

LocalFiles ==
    {Bootstrap(i) : i \in Images} \cup {BlobAbs(i) : i \in Images}
    \cup {Local(b) : b \in BlobIds}
Locations ==
    LocalFiles \cup {Oss(b) : b \in BlobIds} \cup {Proxy(b) : b \in BlobIds}

(* The copies of option k in the bag o (the CopiesIn of the standard    *)
(* Bags module, which the prover's Bags module lacks).                  *)
CountIn(k, o) == IF k \in DOMAIN o THEN o[k] ELSE 0

(* The create_image calls made on image i: each appends "log-level". *)
Builds(i) == CountIn("log-level", opts[i])

-----------------------------------------------------------------------------
(* RafsImage.__init__, for every image of the session. *)
Init ==
    /\ backend = [i \in Images |-> "none"]
    /\ params = [i \in Images |-> {}]
    /\ opts = [i \in Images |-> EmptyBag]
    /\ created = [i \in Images |-> FALSE]
    /\ blobId = [i \in Images |-> NoBlob]
    /\ localfsBacking = [i \in Images |-> NoBlob]
    /\ clearFromOss \in [Images -> BOOLEAN]
    /\ store = [i \in Images |-> {}]
    /\ live = [i \in Images |-> FALSE]
    /\ raised = [i \in Images |-> "none"]
    /\ objects = {}
    /\ dustbin = {}

(* set_backend(type): the blob parameter of the builder for that backend. *)
(* A test calls it once, on a fresh object.                               *)
SetBackend(i, t) ==
    /\ backend[i] = "none"
    /\ backend' = [backend EXCEPT ![i] = t]
    /\ params' = [params EXCEPT ![i] =
                    @ \cup IF t = "localfs" THEN {"blob-dir"} ELSE {"blob"}]
    /\ raised' = [raised EXCEPT ![i] = "none"]
    /\ UNCHANGED <<opts, created, blobId, localfsBacking, clearFromOss,
                   store, live, objects, dustbin>>

(* _tweak_build_command(): appends every parameter set so far to opts. *)
TweakBuildCommand(o, ps) == o (+) SetToBag(ps)

(* What the builder writes: the bootstrap, and the blob under blob-dir   *)
(* for localfs or at --blob otherwise.                                   *)
Outputs(i, b) ==
    {Bootstrap(i)} \cup IF backend[i] = "localfs" THEN {Local(b)}
                        ELSE IF backend[i] = "none" THEN {} ELSE {BlobAbs(i)}

(* Where create_image puts the blob a daemon reads: the upload to OSS by  *)
(* ossutil, the copy into the proxy's blob dir, or the localfs work dir.  *)
Persist(i, b, uploader) ==
    CASE backend[i] = "oss"           -> IF uploader = "util" THEN {Oss(b)} ELSE {}
      [] backend[i] = "backend_proxy" -> {Proxy(b)}
      [] backend[i] = "localfs"       -> {Local(b)}
      [] OTHER                        -> {}

(* The "blobs" list of the builder's output json: a child built on a    *)
(* parent lists the parent's blob first, and a new blob only when its    *)
(* rootfs adds data the parent lacks.                                     *)
BuilderBlobs(i, parent) ==
    IF parent = NoImage \/ blobId[parent] = NoBlob
      THEN {<<Content[i]>>}
      ELSE {<<blobId[parent]>>, <<blobId[parent], Content[i]>>}

(* Mutation: blob_id = json.load(...)["blobs"], the list, not its last id. *)
BlobIdOfOutputList(bl) == bl

(* json.load(builder_output_json)["blobs"][-1] *)
BlobIdOfOutput(bl) == bl[Len(bl)]

(* Mutation: the localfs blob registered with the dustbin before         *)
(* self.localfs_backing_blob is assigned (the previous value, or none).  *)
RegisteredEarly(i, b) ==
    {Bootstrap(i), BlobAbs(i)}
    \cup IF localfsBacking[i] = NoBlob THEN {} ELSE {Local(localfsBacking[i])}

(* put_dustbin of the bootstrap, blob_abs_path and, when the attribute    *)
(* exists, localfs_backing_blob (the AttributeError is swallowed).        *)
Registered(i, b) ==
    LET lb == IF backend[i] = "localfs" THEN b ELSE localfsBacking[i]
    IN  {Bootstrap(i), BlobAbs(i)} \cup IF lb = NoBlob THEN {} ELSE {Local(lb)}

(* create_image(parent_image, clear_from_oss, oss_uploader): set the     *)
(* parameters, tweak the command line, run the builder. A non-zero exit  *)
(* (the builder also refuses an option given twice) fails the assertion; *)
(* otherwise the blob id is the last of the builder's "blobs", the blob  *)
(* is persisted per backend and the paths go to the dustbin. The builder *)
(* needs a blob destination and the parent's bootstrap.                  *)
CreateImage(i, parent, uploader, clear, ok) ==
    LET ps == params[i] \cup {"log-level", "fs-version", "output-json"}
                        \cup IF parent = NoImage THEN {} ELSE {"parent-bootstrap"}
        o  == TweakBuildCommand(opts[i], ps)
        succeeds == /\ ok /\ backend[i] # "none"
                    /\ \A k \in ps : CountIn(k, o) = 1
                    /\ parent = NoImage \/ Bootstrap(parent) \in objects
    IN  /\ Builds(i) < MaxBuilds
        /\ parent # i
        /\ params' = [params EXCEPT ![i] = ps]
        /\ opts' = [opts EXCEPT ![i] = o]
        /\ clearFromOss' = [clearFromOss EXCEPT ![i] = clear]
        /\ \/ /\ succeeds
              /\ \E bl \in BuilderBlobs(i, parent) :
                 LET b == BlobIdOfOutput(bl) IN
                   /\ created' = [created EXCEPT ![i] = TRUE]
                   /\ blobId' = [blobId EXCEPT ![i] = b]
                   /\ localfsBacking' = [localfsBacking EXCEPT ![i] =
                                           IF backend[i] = "localfs" THEN b ELSE @]
                   /\ store' = [store EXCEPT ![i] = Persist(i, b, uploader)]
                   /\ objects' = objects \cup Outputs(i, b) \cup Persist(i, b, uploader)
                   /\ dustbin' = dustbin \cup Registered(i, b)
              /\ live' = [live EXCEPT ![i] = TRUE]
              /\ raised' = [raised EXCEPT ![i] = "none"]
           \/ /\ ~succeeds
              /\ \E left \in IF PartialBuilds THEN SUBSET Outputs(i, Content[i]) ELSE {{}} :
                   objects' = objects \cup left
              /\ raised' = [raised EXCEPT ![i] = "AssertionError"]
              /\ UNCHANGED <<created, blobId, localfsBacking, store, live, dustbin>>
        /\ UNCHANGED backend

(* clean_up(): os.unlink(bootstrap_path) unguarded, then the localfs     *)
(* blob and blob_abs_path ignoring FileNotFoundError, then the OSS       *)
(* object when clear_from_oss (parent_blob never exists: AttributeError). *)
CleanUp(i) ==
    /\ \/ /\ created[i] /\ Bootstrap(i) \notin objects
          /\ raised' = [raised EXCEPT ![i] = "FileNotFoundError"]
          /\ UNCHANGED <<objects, live>>
       \/ /\ ~created[i] \/ Bootstrap(i) \in objects
          /\ objects' = objects \
                ({Bootstrap(i), BlobAbs(i), Local(localfsBacking[i])}
                 \cup IF clearFromOss[i] /\ backend[i] = "oss" THEN {Oss(blobId[i])} ELSE {})
          /\ live' = [live EXCEPT ![i] = FALSE]
          /\ raised' = [raised EXCEPT ![i] = "none"]
    /\ UNCHANGED <<backend, params, opts, created, blobId, localfsBacking,
                   clearFromOss, store, dustbin>>

(* The anchor's teardown: unlink every path in the dustbin. *)
DrainDustbin ==
    /\ objects' = objects \ dustbin
    /\ dustbin' = {}
    /\ live' = [i \in Images |-> FALSE]
    /\ UNCHANGED <<backend, params, opts, created, blobId, localfsBacking,
                   clearFromOss, store, raised>>

Next ==
    \/ \E i \in Images, t \in Backends \ {"none"} : SetBackend(i, t)
    \/ \E i \in Images, p \in Images \cup {NoImage}, u \in {"util", "none"},
          c \in BOOLEAN, ok \in BOOLEAN : CreateImage(i, p, u, c, ok)
    \/ \E i \in Images : CleanUp(i)
    \/ DrainDustbin

Spec == Init /\ [][Next]_vars

-----------------------------------------------------------------------------
TypeOK ==
    /\ backend \in [Images -> Backends]
    /\ params \in [Images -> SUBSET {"blob", "blob-dir", "log-level", "fs-version",
                                     "output-json", "parent-bootstrap"}]
    /\ created \in [Images -> BOOLEAN]
    /\ blobId \in [Images -> BlobIds \cup {NoBlob}]
    /\ localfsBacking \in [Images -> BlobIds \cup {NoBlob}]
    /\ clearFromOss \in [Images -> BOOLEAN] /\ live \in [Images -> BOOLEAN]
    /\ store \in [Images -> SUBSET Locations]
    /\ raised \in [Images -> Errors]
    /\ objects \subseteq Locations /\ dustbin \subseteq LocalFiles

(* Every local file a build leaves (bootstrap, blob_abs_path, the blob   *)
(* in the localfs work dir) is registered with the dustbin, so the       *)
(* teardown removes it (spec 4.3: "no partial build leaves orphaned      *)
(* large files"), whatever clean_up calls and rebuilds come between.    *)
TrackedForTeardown == objects \cap LocalFiles \subseteq dustbin

(* The RafsImage objects keep the teardown discipline of Dustbin: every *)
(* local file a build leaves is registered when it appears, clean_up()   *)
(* only unlinks, and the teardown unlinks exactly the registered paths   *)
(* (spec 4.3).                                                            *)
DustbinAbs == INSTANCE Dustbin WITH files <- objects \cap LocalFiles, bin <- dustbin

DustbinRefined == DustbinAbs!Spec

(* clean_up() never raises, in particular not when called twice (spec 7: *)
(* "calling cleanup() twice ... never raises").                          *)
CleanUpNeverRaises == \A i \in Images : raised[i] # "FileNotFoundError"

(* The blob of an image that is built and not yet cleaned up stays where *)
(* create_image persisted it, whatever other images are cleaned up       *)
(* (spec 4.6: persisted blob artifacts "remain valid and reusable").     *)
LiveBlobsPersisted == \A i \in Images : live[i] => store[i] \subseteq objects

=============================================================================
