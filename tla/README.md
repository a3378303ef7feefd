# Formal models of the Clear Containers OCI runtime (cc-oci-runtime)

This directory holds TLA+ models of the runtime under `src/src`, the TLC
configurations that model-check them, and TLAPS proofs about them.

## The system

The runtime is a command-line program. Each OCI command (`create`, `start`,
`stop`, `pause`/`resume`, `kill`, `delete`, `state`) is one process that
reads and writes the container's **state file** and exits. What carries
over from one command to the next is the state file. Separate invocations
for the same container (containerd, the user) can run at the same time, and
nothing locks the state file.

| Part | Source | State | Operations |
|---|---|---|---|
| Mount resolver | `mount.c`, `mount.h`, `struct clr_oci_mount` in `oci.h` | the bundle's mounts, the `ignore_mount` flags, the host's mount table, the `mounts` array of the state file | ignore check, setup loop (`clr_oci_handle_mounts`), `clr_oci_mounts_to_json`, teardown loop (`clr_oci_handle_unmounts`) |
| Command handlers | `command.c`, `commands/kill.c` | the per-invocation config and state snapshot | `stop`, `pause`/`resume` (toggle), `kill`, `setup`, usage/console options |
| Config check | `oci-config.c`, `oci.h` (`CLR_OCI_SUPPORTED_SPEC_VERSION`), `semver.h` | the config pointer and its version string | `clr_oci_config_check`, `clr_oci_semver_cmp` |
| Lifecycle, state store, hypervisor | not under `src/` (only their tests are) | state file, VM process | `clr_oci_create/start/stop/toggle/kill/delete`, `clr_oci_state_file_*` |

How the parts interact:
- `create` runs the mount setup and persists the list of mounts in the state
  file.
- `stop` (`handle_command_stop`) reads the state file, moves its mount list
  into the config (`command.c` 185-187), and `clr_oci_stop` unmounts it.
- A stop that fails leaves the state file in place, so stop can be run again.

### Hard behaviours
- **Partial failure.** The setup loop returns at the first `mkdir` or
  `mount` failure. The teardown loop returns at the first `umount` failure.
  Neither records how far it got.
- **Stacked mounts.** Two mounts onto one destination stack. `umount(2)`
  removes the top one, and fails with EINVAL where nothing is mounted.
- **The stat skip.** A mount whose absolute source does not exist is skipped
  (`mount.c` 214-218) but not marked `ignore_mount`, so it is persisted.
- **Races between invocations.** No lock guards the state file. `toggle`
  rewrites it from a snapshot read earlier. `stop` checks that the state
  file exists and reads it in two separate steps.

## Modules

### `MountResolver.tla` (modelled)
One container, from `create`'s mount setup through `stop` and any retried
`stop`.
- **State:**
  - `decls`: `config->oci.mounts`, each mount abstracted to a record of
    source, directory and type.
  - `ignore`: `ignore_mount`.
  - `cursor`: the list position of the running loop.
  - `phase`: setup, setupFailed, created, stopping, stopFailed or stopped.
  - `hostMounts`: the number of mounts stacked on each destination.
  - `stateFile` and `manifest`: the persisted `mounts` array.
  - `dryRun`.
  - `srcExists`: the answer `stat()` gives.
- **Actions:** one action per branch of a loop iteration.
  - Setup: `MountIgnored`, `MountSourceMissing`, `MkdirFails`,
    `PerformMountFails`, `PerformMount`, and loop exit `SetupDone`, which
    persists `MountsToJson`.
  - Stop: `StopBegin`, then `UnmountIgnored`, `PerformUnmount`,
    `PerformUnmountFails`, and loop exit `TeardownDone`, which deletes the
    state file.
- **Nondeterminism:** every file-system answer (stat, mkdir, mount, umount)
  is a nondeterministic choice at the step where the code asks.
- **The ignore check:** `IgnoreTable` and `FoundStrMntentMatch` translate
  the table and macro literally. Its rows carry NULL source and type, so the
  check matches on the directory alone.
- **Manifest layout:** the manifest is kept positionally, with NULL where
  `mounts_to_json` leaves an ignored mount out. The unmount loop steps over
  those entries, so it visits the same destinations in the same order as
  the real filtered list. This keeps the model free of recursion, so it can
  be proved about.

`MCMountResolver.tla` gives the constants for TLC. A `MountDecl` record is
`{fsname, dir, type}`.
- **Sources:**
  - `"proc"` is a non-absolute source (not stat-ed).
  - `"/dev"` and `"/srv"` are absolute.
  - `"/dev"` is also an ignore-table path, to probe the ignore check.
- **Directories:** `"/proc"` is ignored and `"/data"` is not.
- **Types:** one type, `"bind"`.
- **Long directories:** `LongDirs` is the set of directories for which
  `root.path + mnt_dir` does not fit in `PATH_MAX`. `Dest` maps all of them
  to the one path `TruncatedDest`, because `g_snprintf` keeps the same first
  `PATH_MAX - 1` characters. The passing runs use `LongDirs = {}`, and
  `path_max_truncation` uses `{"/data"}`. The proofs hold for every
  `LongDirs`.
- **Mount bound:** up to `MaxMounts = 3` mounts. That bound allows two
  mounts stacked on `"/data"` together with an ignored one, a skipped one,
  or a failure between them.

### `Lifecycle.tla` (partly modelled)
This module models concurrent CLI invocations on one container. Each
invocation in `Procs` runs one handler once:
- `handle_command_stop`, which per its FIXME is also what `delete` reaches;
- `handle_command_toggle`, for pause and resume;
- `handler_kill`.

**State.** The invocations share two variables:
- `stateFile`: the status recorded in the state file, or `NoFile`;
- `vm`: the hypervisor, which is `running`, `paused` or `gone`.

Each invocation keeps its own `pc`, its snapshot `snap` of the state file,
its `signum` and its `ret`.

**Actions.** Each early return of a handler is an action of its own:
- stop: `StopStateMissing`, `StopLoadFails` and `StopParseFails`;
- toggle: `ToggleLoadFails`;
- kill: `KillBadSignal` and `KillLoadFails`.

**Calls not under `src/`.** The library calls are spec-modelled:
- `clr_oci_stop` is one step that stops the VM and deletes the state file,
  or fails and leaves both.
- `clr_oci_toggle` is a no-op when the status already matches. Otherwise
  it signals the VM, then rewrites the file from the snapshot, as two steps.
- `clr_oci_kill` delivers the signal. SIGKILL and SIGTERM end the VM.

**Signal parsing.** It is modelled by what it does: `atoi`, then the
signal-name lookup when `atoi` gives no positive number. The inputs cover no
argument, `"9"`, `"KILL"`, `"0"` and `"FOO"`.

**Instance.** `MCLifecycle` has three symmetric invocations. That is enough
for two stops to race while a toggle or kill runs. The check covers 805k
distinct states in about 20 s. The initial state file is `created`,
`running` or `paused`, and whether config.json parses is chosen at start.

### `MountLedger.tla` (abstract specification of the mount resolver)
What the resolver promises, without lists, cursors or the ignore table.
For each destination `d` it keeps three counters:
- `mounted[d]`: the mounts stacked on `d`;
- `owed[d]`: the mounts on `d` that somebody can still undo. During create
  that is the running setup, for the entries it handled. During a stop it
  is the unmount loop, for the part of the list it has still to visit.
- `listed[d]`: how often the state file's list names `d`.

Its actions are `Mount`, `Skip`, `SetupFail`, `Persist` (the list becomes
what create owes), `Begin` (a stop starts owing the list), `Unmount`,
`StopFail` and `Finish` (allowed only when nothing is owed). Its property
`LedgerCovers` says no destination carries more mounts than are owed, and
a finished stop left nothing mounted.

**Refinement mapping** (`Ledger` in `MountResolver.tla`):
- `mounted` is `hostMounts`;
- `owed[d]` is `|Made(d)|` during setup and after a failed setup,
  `|Pending(d, cursor)|` during and after a stop, and `|Pending(d, 1)|`
  otherwise;
- `listed[d]` is `|Pending(d, 1)|` while the state file exists, else 0.

So an ignored entry and the NULL entries of the manifest are stutter steps.
A skipped source or a dry-run mount is `Skip`. A real mount is `Mount`. The
loop exits are `Persist` and `Finish`, and each failure is `SetupFail` or
`StopFail`.

### `ConfigCheck.tla` (partly modelled)
`clr_oci_config_check` (`oci-config.c` 61-87), one action per return:
`ConfigNull`, `VersionMissing`, `VersionUnsupported` and
`VersionSupported`. The config pointer and its version are chosen in
`Init`. A version string is kept parsed: the core `<<major, minor, patch>>`
and its pre-release identifiers, each `[num |-> n]` or `[alnum |-> s]`.
`clr_oci_semver_cmp`'s code is not under `src/` (only its declaration in
`semver.h` is). `SemverCmp` is modelled from spec section 4.1 as the
standard semver comparison. Its loop over the core parts and over the
pre-release identifiers is modelled by what it computes: the comparison
at `FirstDiff`, the first position where the two lists differ, or the
comparison of the lengths when they differ nowhere. No operator is
recursive, so the module can be proved about. The property
`CheckFollowsPrecedence` compares the check against a loop-free definition
of semver precedence (`Precedes`).

Two assumptions state what a parsed version is:
- `AlnumAssumption`: the ASCII table `AlnumIdents` is a sequence of strings
  and lists `rc1`, the identifier of the supported version;
- `VersionsAssumption`: each version has a three-part numeric core and a
  list of identifiers drawn from `Idents`.

`MCConfigCheck.tla` enumerates 96 versions: cores from `0.0.0` to `2.1.1`
and eight pre-release lists. The lists are chosen to reach every rule of
precedence: none; `rc1` (the supported one); `rc2`; `alpha`; `rc` (a
prefix of `rc1` in ASCII order); `1` (numeric below alphanumeric); `rc.1`;
and `rc1.0` (a longer list with an equal prefix).

## Runs

| Run | Expect | Checks | Shows |
|---|---|---|---|
| `mount_resolver` | pass | `MountsRecorded`, `CleanStop` | Every host mount is named by the state file's list at or after the teardown cursor, through failed and retried stops. A stop that succeeds leaves nothing mounted. |
| `manifest_mounted` | violation | `ManifestMounted` | A missing absolute source is skipped but still persisted as mounted (contradicting `mount.c` 301-303). Stop then fails with EINVAL on it. |
| `ignored_as_specified` | violation | `IgnoredAsSpecified` | The code ignores a mount only by destination. The spec (section 4.2) says by source, destination or type. |
| `path_max_truncation` | violation | `TooLongIsError` | With `/data` too long for `PATH_MAX` (`LongDirs`), `g_snprintf` (`mount.c` 210-212) truncates the destination. The mount is made and persisted at the truncated path, and the create succeeds. Spec section 4.2 says this is a hard error. |
| `stop_failure_keeps_list` | violation | `StopFailureKeepsList` | After a teardown aborts midway, the list still names mounts already removed, so a retry cannot finish. |
| `mount_termination` | pass | `LoopsTerminate` | Under `FairSpec`, a setup loop that has started ends in `created` or `setupFailed`. A teardown loop that has started ends in `stopped` or `stopFailed`. |
| `mount_ledger` | pass | `ImplementsLedger` | Every behaviour of the resolver is a behaviour of `MountLedger` under the refinement mapping. |
| `config_check` | pass | `CheckFollowsPrecedence` | The check accepts exactly the configs whose version the supported `1.0.0-rc1` does not precede. |
| `same_core_accepted` | violation | `SameCoreAccepted` | Spec section 8 says a config with the supported major.minor.patch passes. A config declaring `1.0.0` is rejected, because the supported constant is the pre-release `1.0.0-rc1`, which semver ranks below `1.0.0`. |
| `lifecycle` | pass | `TypeOK`, `StopSuccessMeansGone` | With a parseable bundle, a stop that reports success leaves no hypervisor running, under every interleaving with two other stop/toggle/kill invocations. |
| `stop_reports_truth` | violation | `StopReportsTruth` | When config.json fails to parse, stop returns true (`command.c` 171-172) with the VM still running. |
| `missing_state_non_fatal` | violation | `MissingStateNonFatal` | Two stops pass the exists check (`command.c` 156). The second then fails to read the file the first deleted (line 165). That is fatal, although spec section 5 says a missing state file is not. |

- **Deadlock:** not checked (`CHECK_DEADLOCK FALSE`). In `Lifecycle`, the
  state where every invocation is `done` is where all processes have
  exited. The terminal phases
  (setupFailed, stopped, and a stopFailed state that is never retried) are
  states where the CLI has exited. Stopping there is the program's
  behaviour, not a deadlock.
- **Fairness:** only `mount_termination` assumes any. `FairSpec` is weak
  fairness on `SetupStep` (the setup loop's branches and its exit) and on
  `TeardownStep` (the unmount loop's branches and its exit). While a
  `create` or `stop` process runs, it keeps executing, and every system
  call it makes returns, with success or an error. `StopBegin`, a new
  `stop` invocation, gets no fairness, because nothing makes an operator
  run `stop`. The mutant `PerformUnmountFailsRetries` is a failed
  `umount` that is retried in place without leaving the loop. It breaks
  `LoopsTerminate`.
- **Mutants:** each property of the passing run has a mutant that TLC finds
  violated:
  - an off-by-one in `mounts_to_json` (`MountsToJsonDropsLast`);
  - a teardown loop that continues after a failure
    (`PerformUnmountFailsContinues`);
  - a failed `umount` retried forever (`PerformUnmountFailsRetries`),
    against `LoopsTerminate`;
  - the off-by-one in `mounts_to_json`, against `ImplementsLedger`;
  - a comparison that ranks a pre-release above its release
    (`SemverCmpPreAbove`), against `CheckFollowsPrecedence`.

## Proofs

`MountResolverProofs.tla` proves three theorems for every value of the
constants:
- `TypeCorrect: Spec => []TypeOK`. This is the lemma the other two proofs
  rest on. No run checks `TypeOK` on this module. Its only content beyond
  the types is that a mount count never goes negative, which follows from
  the kernel rule that `umount` fails where nothing is mounted, not from
  `mount.c`.
- `MountsRecordedHolds: Spec => []MountsRecorded`.
- `CleanStopHolds: Spec => []CleanStop`.

They rest on three assumptions about the constants:
- `MaxMountsAssumption`;
- `NullAssumption`;
- `NullNotDest`: the NULL placeholder of an ignored mount is no destination.

Neither property is inductive by itself. Their common strengthening `IInv`
states one bound per phase:
- `SetupInv`: during setup, each destination carries at most `|Made(d)|`
  mounts. `Made(d)` is the set of indices before the cursor that are not
  ignored and target `d`. No declaration ahead of the cursor is marked
  ignored yet, and there is no state file.
- `CreatedInv`: after `create` and after a failed stop, the bound is the
  whole persisted list, `Pending(d, 1)`.
- `StoppingInv`: during stop, the bound is the rest of the list,
  `Pending(d, cursor)`.
- `StoppedInv`: after a completed stop, nothing is mounted and the state
  file is gone.

There is one lemma per action. The steps that move a cursor are proved from
the finite-set lemmas `CardMono`, `CardAdd` and `CardRemove`, which are built
on `FiniteSetTheorems`:
- a mount adds one index to `Made(d)`;
- an unmount removes one index from `Pending(d, cursor)`;
- skipped and ignored entries leave the sets as they are, or only let them
  grow.

The heart of the proof is `SetupDoneIInv`. When create persists
`MountsToJson`, `Pending(d, 1)` is exactly `Made(d)`, because the other
entries are other destinations or NULL.

`IInv` was model-checked as an invariant of the `mount_resolver` instance
before it was proved.

`LifecycleProofs.tla` proves two theorems for any set of invocations `Procs`:
- `TypeCorrect`. Kill's signal stays non-negative because of the
  `signum < 0` check (lemma `ParseSignalInt`).
- `StopSuccessSafe: Spec => []StopSuccessMeansGone`. It rests on
  `NoFileAssumption` (`NoFile` is not a status).

`StopSuccessMeansGone` is not inductive by itself. Its inductive
strengthening `IInv` adds two facts:
- `NoFileMeansGone`: the state file is missing only after `clr_oci_stop`
  stopped the hypervisor. This covers a stop that succeeds through the
  "state file does not exist" branch.
- `StopRunsStop`: a stop invocation is always at a step of
  `handle_command_stop`. This rules out a toggle or kill step finishing a
  stop.

The step lemma `StepIInv` has one case per handler step. Each case uses the
fact that a hypervisor that is gone stays gone, because toggle and kill both
require it to be present.

`MountLedgerProofs.tla` proves `LedgerSafe: Spec => []LedgerCovers` for
every set of destinations. The strengthening `OwedListed` says that outside
create, the code owes no more than the state file lists. This is what lets
a stop that failed, or one that starts again, still owe every mount.

`MountResolverRefinement.tla` proves
`Refinement: Spec => ImplementsLedger`, so the resolver implements the
ledger for every value of the constants. It is built in three parts:
- `RefInit`: the initial states map to the ledger's initial state.
- One lemma per resolver action, `RefMountIgnored` to `RefTeardownDone`.
  Under `IInv`, each lemma shows the action is a ledger step or leaves the
  mapped tuple unchanged. `RefAdvance` shows that handling a non-ignored
  entry adds one to `owed` at its destination, from `MadeAdvance` and
  `CardAdd`. `RefPerformUnmount` shows that an unmount finds the
  destination owed, from `CardRemove` and `CardMono`. `RefSetupDone`
  shows that the persisted list owes exactly `Made(d)`.
- `RefStep` combines the lemmas, and the theorem closes with `IInv`'s
  induction and PTL.

`ConfigCheckProofs.tla` proves two theorems for every set of versions
and every ASCII table:
- `CheckFollowsPrecedenceHolds: Spec => []CheckFollowsPrecedence`;
- `ReleaseRejectedHolds: Spec => []ReleaseOfSupportedRejected`. A config
  declaring `1.0.0` is always rejected, so the finding of
  `same_core_accepted` holds in general, not only on the small instance.

The invariant `IInv` is `TypeOK` with the property itself. It was
model-checked on the `config_check` instance before it was proved. The
argument has three layers:
- `FirstDiffExists`: two lists that differ somewhere have a first position
  where they differ. The proof takes a least element of the differing
  positions with `WFMin` and `NatLessThanWellFounded` from
  `WellFoundedInduction`. `FirstDiffUnique` shows that this position is
  the only one with no difference before it.
- `CmpIdentSpec`, `CmpCoreSpec` and `CmpPreSpec`: the comparison of
  identifiers, cores and pre-release lists is negative exactly when the
  precedence rules say "lower". `CmpCoreSpec` also shows that a zero core
  comparison means equal cores.
- `SemverCmpSpec`: `SemverCmp(a, b) < 0` holds exactly when
  `Precedes(a, b)` does. `SemverCmpRange` shows every result is -1, 0 or
  1. From these, each return of the check keeps `IInv`.

Liveness, `ENABLED`, and what recursive definitions compute stay with TLC.
TLAPS cannot reason about them. `LoopsTerminate` is therefore only
model-checked.

## Not modelled

- **State store, create/start and hypervisor:** this code is not under
  `src/`. `Lifecycle` models only the calls the handlers make.
- **Toggle's stale rewrite:** the model exhibits a toggle that rewrites the
  state file after a concurrent stop deleted it. No property asserts on
  this, because whether the real `clr_oci_toggle` can recreate the file
  after the runtime directory is gone cannot be told from `src/`.
- **Semver parsing:** `semver.c` is not under `src/`. Versions are kept
  parsed, and the comparison is modelled from the spec. Malformed version
  strings are not modelled.
- **Config structures and `clr_oci_config_file_path`:** these are data read
  from `config.json` and a path join. Nothing changes state there.
- **Free functions:** they only release memory.

## Plan

1. Compose the two modules: `clr_oci_stop` in `Lifecycle` as a run of
   `MountResolver`'s unmount loop, so that the stop races are checked
   against the mount bookkeeping.
2. Model `create`/`start` in `Lifecycle`, composing the mount setup with
   state-file creation.
