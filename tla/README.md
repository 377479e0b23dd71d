# Formal models of the nydus test framework (`framework/rafs.py`)

This directory holds TLA+ models of `src/contrib/nydus-test/framework/rafs.py`,
the Python driver the nydus integration tests use. It builds RAFS images with
`nydus-image`, writes the runtime configuration of `nydusd`, launches `nydusd`,
waits for the mountpoint and tears everything down. It also holds TLC
configurations that check the models, and TLAPS proofs about them.
`PROJECT.json` lists the components, runs, mutants, the source lines behind
every definition, the findings, the hazards and the theorems.

## 1. The system

| Part (source lines) | State | Operations |
|---|---|---|
| `RafsConf` (51-238) | `_device_conf`, a tree of `Namespace` objects; the temp config file | `__init__`, `set_rafs_backend`, `set_registry_repo`, the `enable_*` setters, `amplify_io`, `rafs_mem_mode`, `enable_rafs_blobcache`, `enable_fs_prefetch`, `enable_validation`, `dump_rafs_conf` |
| `RafsImage` (241-517) | options, `backend_type`, `blob_id`, `bootstrap_path`, `localfs_backing_blob`, `oss_helper`, `created` | `set_backend`, `create_image`, `clean_up` |
| `NydusDaemon` (547-740) | `self.p` (the last `nydusd` launched), the mountpoint, the command line | `mount`, `start`, `wait_mount`/`_wait_for_mount`, `umount`, `is_mounted`, `shutdown`, command-line setters |
| `RafsMountParam`, `BlobEntryConf` (520-815) | command-line parameters; a template document | setters; `dumps()` has no body in this source |
| External | `nydusd` processes, the kernel mount table, `nydus-image`, the OSS bucket | |

How the parts interact:

- A test builds a `RafsImage`, which gives a bootstrap path and a blob id.
- The test then configures a `RafsConf` for the same backend. For LOCALFS the
  conf reads the image's `localfs_backing_blob`.
- `NydusDaemon.mount()` dumps the conf and launches `nydusd`. It then polls
  until the mountpoint is up, the daemon dies, or the budget runs out.
- `shutdown()` unmounts, sends SIGTERM to `self.p`, waits for it and asserts
  that its exit status is 0.
- `clean_up()` removes the image's files and, for OSS, the remote blob.

What is hard here and a unit test rarely reaches:

- The caller's blocking loops interleave with the steps of concurrently
  running `nydusd` processes: mount, crash, and exit on SIGTERM.
- Relaunching overwrites `self.p`. The readiness probe and the teardown then
  look at the wrong daemon.
- The configuration is a mutable builder with a v6 rule applied at dump time.
- Blob ids are content addresses shared between images.

The hazards in `PROJECT.json` list each of these at its line.

## 2. Modules

### `Daemon.tla`: the `NydusDaemon` lifecycle

Variables:

- `procs`: every `nydusd` launched. `procs[Len(procs)]` is `self.p`, and `Cur`
  is its index, with 0 meaning the attribute is not set yet.
- `mnts`: the mount stack at the mountpoint. A later mount covers an earlier
  one, and `umount -l` detaches the top entry.
- `confFile`: whether a config has been dumped.
- `pc`: the caller's position, either idle or blocked in `_wait_for_mount` or
  in `shutdown()`'s `p.wait()`.
- `elapsed`: the local variable of the poll loop.
- History variables: `polls`, `op` and `raised`. `raised` is the exception the
  last method raised.

Actions:

| Action | Models |
|---|---|
| `Mount(limited, wait, dump)` | `mount()`, including the TypeError of `"ulimit ..." + list` for `limited_mem` |
| `Start` | `start()` |
| `WaitMount` | `wait_mount()` |
| `PollStep` | one iteration of `_wait_for_mount` (budget test, probe, `p.poll()`, `elapsed -= 1`) |
| `Umount` | `umount()` |
| `Shutdown` | `shutdown()` up to `p.wait()` (is_mounted/umount, terminate) |
| `ShutdownWait` | the return of `p.wait()` and the returncode assertion |
| `DaemonMount`, `DaemonCrash`, `DaemonStop` | a `nydusd` process |

`nydusd` is modelled from its interface:

- It mounts at most once, and only if it read a dumped config.
- It exits with a non-zero status if it crashes. Its mount entry then stays
  behind, dead, and `os.path.ismount` reports False for it (ENOTCONN).
- On SIGTERM it detaches its own mount and exits with 0.

### `Conf.tla`: the `RafsConf` builder

- `dev` is the document as a function from the dotted attribute paths written
  by `_configure_rafs` (`exec("self._device_conf." + k + "=v")`) to their
  values. A value is named after the source expression that supplies it.
- Every setter is an action that overrides some paths (`writes @@ dev`).
- `enable_rafs_blobcache` replaces the three `device.cache` paths.
- `dump_rafs_conf()` first applies the v6 upgrade, then truncates the file and
  writes a snapshot. So `file` is the sequence of documents in the file.
- `fsVersion` (5 or 6) is the anchor's format version, chosen initially.
- `Conf` defines `:>` and `@@` itself, with the definitions of the TLC
  module, instead of extending TLC. The prover cannot expand TLC's versions.
  The scalar setters are one record, `Scalars`, from attribute path to value.
  `FsPrefetchDefaults` is the fixed document `enable_fs_prefetch` writes.

`ConfFile.tla` states what the config file promises, without the setters:

- a change to the document makes the file stale;
- a dump overwrites the file with exactly the current document;
- the dump changes only `device.cache` settings (`KeepsSettings`).

`Conf` defines `ConfFileAbs == INSTANCE ConfFile`. `doc` maps to `dev` and
`stale` to `dirty`. `CachePaths` maps to the paths of a blobcache.
`ConfFileRefined == ConfFileAbs!Spec` is checked as a `PROPERTY`.

### `Image.tla`: `RafsImage` and its artifacts

The model holds several `RafsImage` objects of one test session. They share
the localfs work dir, the OSS bucket, the proxy's blob dir and the anchor's
dustbin.

- Files and remote objects are *locations*:
  - `Bootstrap(i)` and `BlobAbs(i)` belong to one image.
  - `Local(b)`, `Oss(b)` and `Proxy(b)` are keyed by a content id `b`. Two
    images can therefore name the same one.
- `objects` is the set of locations that exist. `dustbin` is the set of
  paths given to `anchor.put_dustbin`.
- Per image, the model keeps these attributes: `backend_type`, the keys of
  `command_param_dict`, `opts`, `created` (set with `bootstrap_path`),
  `blob_id`, `localfs_backing_blob` and `clear_from_oss`. `opts` is a bag of
  option names, because the order on the command line does not matter.
- History variables:
  - `store`: where the last successful build persisted its blob;
  - `live`: built, and neither cleaned up nor torn down;
  - `raised`: the exception of the last call.

| Action | Models |
|---|---|
| `SetBackend(i, t)` | `set_backend`: `blob-dir` for localfs, `blob` otherwise. A test calls it once. |
| `CreateImage(i, parent, uploader, clear, ok)` | `create_image`. It sets the parameters, including `parent-bootstrap`. `_tweak_build_command` appends them all to `opts`. The builder then runs and fails (AssertionError) when `ok` is false, when there is no blob destination, when the parent's bootstrap is missing, or when an option is repeated. On success, `blob_id` is the last id of the builder's `blobs` (`BuilderBlobs`: the parent's id is first, and a new id appears only when the child adds data). The blob is persisted per backend (ossutil upload for `util`, proxy copy, localfs path), and the paths are registered with the dustbin. |
| `CleanUp(i)` | `clean_up`: it unlinks `bootstrap_path` with no try, and raises FileNotFoundError if that file is gone. It then unlinks the localfs blob and `blob_abs_path`, ignoring errors. Finally it runs `oss_helper.rm(blob_id)` when `clear_from_oss` holds and the backend is OSS. |
| `DrainDustbin` | the anchor's teardown, which unlinks every registered path. `NydusAnchor` is not in this source, so this action is modelled from spec 6. |

Fault model: with `PartialBuilds = TRUE`, a failing builder may leave any of
its outputs behind. `nydus-image create` writes the bootstrap and the blob
before its final check, which can still fail.

`Image` counts the copies of an option with its own `CountIn`, because the
prover's `Bags` module has no `CopiesIn`.

`Dustbin.tla` states the teardown discipline of spec 4.3, over two sets:

- `files`: the local files that exist;
- `bin`: the registered paths.

Each step is one of three kinds:

- `Produce`: a file appears only when it is registered;
- `Unlink`: files are removed and the dustbin is untouched;
- `Teardown`: the dustbin is emptied and every registered path is unlinked.

`Image` defines `DustbinAbs == INSTANCE Dustbin`. `files` maps to
`objects \cap LocalFiles` and `bin` to `dustbin`. `DustbinRefined` is
checked as a `PROPERTY`.

### `Session.tla`: the abstract session, and its refinement

`Session` is what spec 4.4 asks of a daemon session. It is stated over
`procs`, `mnts`, `pc` and `raised` only. Each step does one of these things:

- launches `nydusd`;
- enters or ends a wait;
- detaches the top mount;
- sends SIGTERM;
- ends the shutdown wait;
- raises without touching processes or mounts.

A wait ends in one step, with an outcome the state justifies:

- ready, only when the mountpoint is up;
- `no_process`, only when `self.p` is unset;
- `premature`, only when `self.p` has exited;
- `timeout`, at any time.

The nydusd processes behave as in `Daemon`. `Session!Spec` adds weak
fairness for the end of the shutdown wait and for SIGTERM handling.

`Daemon` defines `Abstract == INSTANCE Session`. The mapping is the identity
on the four shared variables, with `elapsed`, `polls`, `op` and `confFile`
hidden. `SessionRefined == Abstract!Spec` is checked as a `PROPERTY`.

### Not composed

A `System` module composing `Daemon` with `Conf` and `Image` is not written.
It would cover these hazards:

- the daemon reads the document the builder holds at launch, so `start()`
  without a dump and setters after a dump matter;
- `set_rafs_backend(LOCALFS, image=...)` before `create_image`.

The product of the state spaces (hundreds of thousands of states each) is
out of reach of a five-minute run. The hazards are listed with a note
instead.

## 3. Runs

The violation runs each check one property, and that property states what the
spec or a comment says.

| Run | cfg | Checks | Result |
|---|---|---|---|
| `daemon_lifecycle` | `MC_Daemon.cfg` | `TypeOK`, `ShutdownClean`, `IInv`, `MountWaitEndsWhenDaemonDies`, `ShutdownReturns`, `SessionRefined` | pass: 26,621 states, depth 21 |
| `daemon_wait_unbounded` | `MC_Daemon_MountWaitBounded.cfg` | `MountWaitBounded` | violated: mount, then polls past the budget |
| `daemon_umount_asserts` | `MC_Daemon_UmountNeverRaises.cfg` | `UmountNeverRaises` | violated: `umount()` with nothing mounted |
| `daemon_ready_stale_mount` | `MC_Daemon_ReadyMeansOwnMount.cfg` | `ReadyMeansOwnMount` | violated: mount twice; the first daemon mounts; the probe succeeds |
| `daemon_relaunch_leaks_mount` | `MC_Daemon_ShutdownLeavesNoMount.cfg` | `ShutdownLeavesNoMount` | violated: mount twice, shut down; the orphan mounts; the second exits 0 |
| `conf_builder` | `MC_Conf.cfg` | `TypeOK`, `FileIsCurrent`, `V6DumpHasCache`, `DumpIdempotent`, `ConfFileRefined` | pass: 492,417 states |
| `conf_backend_switch` | `MC_Conf_BackendFieldsOfVariant.cfg` | `BackendFieldsOfVariant` | violated: a registry repo in an oss document |
| `conf_v6_cache_override` | `MC_Conf_ExplicitCacheKept.cfg` | `ExplicitCacheKept` | violated: an explicit compressed cache replaced at a v6 dump |
| `image_lifecycle` | `MC_Image.cfg` | `TypeOK`, `TrackedForTeardown`, `DustbinRefined` | pass: 219,608 states, depth 12 |
| `image_cleanup_twice` | `MC_Image_CleanUpNeverRaises.cfg` | `CleanUpNeverRaises` | violated: build, `clean_up()`, `clean_up()` |
| `image_shared_blob_deleted` | `MC_Image_LiveBlobsPersisted.cfg` | `LiveBlobsPersisted` | violated: parent uploaded to OSS; child built on it with no new data gets the parent's id; the child's `clean_up()` removes it |
| `image_failed_build_orphans` | `MC_Image_PartialBuild.cfg` | `TrackedForTeardown` with `PartialBuilds = TRUE` | violated: a failing build leaves its bootstrap, never registered |

### Bounds

- **`MC_Daemon`:**
  - `Timeout = 2` stands for the 300 of the code. The loop's exit test
    compares against it, and 2 is enough to see the test never fire.
  - `MaxLaunch = 3` allows relaunches and a stack of two mounts with a third
    daemon still running.
  - `MaxPolls = 3` is the number of loop turns after which the loop keeps
    going without a visible change. The bug needs one turn more than
    `Timeout`.
- **`MC_Conf`:** `MaxCalls = 4` mutating builder calls, with any number of
  dumps. That is enough to pick a backend, switch to another, enable a cache
  and validation or prefetch, and dump between any two of them.

- **`MC_Image`:**
  - Two images, `i1` and `i2`, and two content ids, with
    `Content = [i1 |-> b1, i2 |-> b2]`. Distinct rootfs contents mean that a
    shared id can only come from parent chaining, which is the case the code
    gets wrong.
  - `MaxBuilds = 2` reaches a retry of `create_image` on the same object.
  - Every backend, both `clear_from_oss` values and uploader `util` or another
    value. `builder` and `none` act alike in the code.
  - Any order of builds, clean-ups and teardowns.

Every action of the three modules, and every disjunct, fires in the passing
runs.

### Fairness

`Daemon` assumes weak fairness for these steps:

- `PollStep`: the caller's thread keeps running the loop it is in.
- `ShutdownWait`: `p.wait()` returns once the process has exited.
- `DaemonStop` of each launched daemon: `nydusd` handles SIGTERM.

`Image` has no fairness and no liveness property. Nothing in `RafsImage`
waits or retries.

There is no fairness for the caller's calls (a test may stop calling), or for a
daemon's mount or crash.

## 4. Proofs (TLAPS)

### `DaemonProofs.tla`, `DaemonRefinement.tla`

All the theorems hold for every `Timeout`, `MaxLaunch` and `MaxPolls` allowed
by the `ASSUME`s of `Daemon`. Those are positive naturals, except `MaxPolls`,
which is any natural.

- **`TypeCorrect`** (`Spec => []TypeOK`). `TypeOK` is split into `Stacks`,
  `Scalars`, `Counters` and `StoppingHasProcess`, because the provers handle
  sequences, strings and integers separately. The proof has one step per
  action. The lemmas `PopType`, `LaunchType`, `MntsWiden`, `ProcSetSt`,
  `ProcSetExit` and `ProcSetServed` cover what popping, appending and
  updating a record do to the sequences.
- **`IInvCorrect`** (`Spec => []IInv`) and **`ShutdownCleanCorrect`**
  (`Spec => []ShutdownClean`). `ShutdownClean` is not inductive on its own.
  A `Daemon` step could, for all the prover knows, reach a state where
  `shutdown()` returned cleanly but a mount remains.

  The strengthening `IInv` adds three facts:
  - `OneDaemonMount`: with one launch, the mount table is empty or holds
    exactly that daemon's served entry.
  - `StoppedUnmounted`: a daemon that exited with 0 has unmounted.
  - `BlockedInMethod`: the waiting and stopping positions belong to the
    method that entered them.

  `RestInductive` proves the step case one action at a time. A daemon cannot
  move after a clean shutdown (lemma `DaemonKeepsShutdownClean`). A relaunch
  moves the state out of the `Cur = 1` case (lemma `LaunchKeepsRest`).

- **`SessionRefinement`** (`DaemonRefinement.tla`,
  `Spec => Abstract!SafeSpec`). This is the safety part of `SessionRefined`.
  - `InitRefines` shows that the initial states map to the initial states.
  - `StepRefines` shows that each `Daemon` step is a `Session` step or leaves
    `procs`, `mnts`, `pc` and `raised` unchanged. It has one step per action.
  - `PollStepRefines` and `ShutdownRefines` carry the two actions with
    several exits.
  - The proof needs `TypeOK`, which gives `confFile \in BOOLEAN` and, with no
    launch, an empty mount table. It also needs a second invariant,
    `WaitingNoError` (`pc = "waiting" => raised = "none"`). The ready exit of
    the loop leaves `raised` as it was, and only this invariant shows it is
    "none". `WaitingNoErrorInductive` proves that invariant on its own.

### `ConfProofs.tla`

The theorems hold for every `MaxCalls` in `Nat`.

- **`TypeCorrect`** (`Spec => []TypeOK`). `TypeInductive` has one step per
  setter. The lemma `MutateType` covers every `writes @@ dev` step whose
  writes name only attribute paths. `ConfigureProps` and `BlobcachePaths`
  state what `@@` and the blobcache document give.
- **`FileIsCurrentCorrect`**, **`V6DumpHasCacheCorrect`** and
  **`DumpIdempotentCorrect`**. All three rest on the inductive invariant
  `DumpInv`, which TLC also checked as an invariant of the `MC_Conf` run.
  `DumpInv` has three parts:
  - `DevIsFunction`: the document is a function on its paths;
  - `FileIsCurrent`;
  - `CleanV6HasCache`: a clean v6 document already holds the default
    blobcache.

  `CleanV6HasCache` is needed for `DumpIdempotent`. A second v6 dump applies
  the upgrade again. The dump leaves the file unchanged only because writing
  the values the document already holds changes nothing
  (`ConfigureIdempotent`).
- **`ConfRefinement`** (`Spec => ConfFileRefined`). Setter steps map to
  `Edit` (lemma `FileSteps`). A dump maps to `Dump`, and on v6 the lemma
  `V6CacheKeepsSettings` shows that the upgrade writes only cache paths.

### `ImageProofs.tla`

The theorems hold for every set of images and content ids and every
`MaxBuilds` allowed by `ImageAssumption`.

- **`TypeCorrect`**. The lemma `BuiltBlobId` shows that the id a build
  records (`blobs[-1]`) is always a content id.
- **`TrackedForTeardownCorrect`** and **`DustbinRefinement`** are stated
  under the hypothesis `~PartialBuilds`, which says a failing builder leaves
  no output. The hypothesis is needed: the `image_failed_build_orphans` run
  shows that `TrackedForTeardown` fails without it. `TrackedForTeardown` is
  inductive as it stands (`TrackedInductive`). The lemma
  `BuildRegistersOutputs` shows that every local location a successful build
  creates is registered in the same step. `DustbinStep` maps each `Image`
  step to `Produce`, `Unlink`, `Teardown` or a stutter.

### Not proved

TLC checks these, and TLAPS does not prove them:

- The liveness properties (`MountWaitEndsWhenDaemonDies`, `ShutdownReturns`)
  depend on fairness and ENABLED, which the prover does not handle.
- The fairness part of `SessionRefined`.
- `ExplicitCacheKept`, `BackendFieldsOfVariant`, `CleanUpNeverRaises` and
  `LiveBlobsPersisted` are false, as their violation runs show.
- `TrackedForTeardown` and `DustbinRefined` with `PartialBuilds = TRUE` are
  false.
- The general `ShutdownLeavesNoMount` is false, as the violation run shows.

## 5. Not modelled

- `RafsMountParam` and `LinuxCommand` are command-line formatting.
- `calc_blob_sha256` is hashing.
- `dump_image_summary` returns before doing anything.
- Logging is left out.
- The command-line setters of `NydusDaemon`.
- `BlobEntryConf`: its `dumps()` has no body in this source.
- In `RafsImage`:
  - `whiteout_spec` and `rootfs` only set a parameter or read an attribute;
  - the optional build parameters (`prefetch-policy`, `compressor`,
    `chunk-size`, `source-type`, `disable-check`) change no property;
  - the `oss_blob_abs_path` branch of `clean_up` is dead, since the attribute
    is never set;
  - `parent_blob`/`parent_bootstrap` are never set, so `clean_up` always
    takes the AttributeError path there.
- The composition of `Daemon`, `Conf` and `Image` (section 2).
- `NydusAnchor` (the dustbin, `anchor.nydusd`) and `OssHelper` are not in this
  source. The dustbin drain is modelled from the spec.
- Data values are abstracted to the names of their sources. The model never
  forms paths or JSON text.
