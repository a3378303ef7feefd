--------------------------- MODULE MountResolver ---------------------------
(***************************************************************************)
(* The Mount Resolver of the runtime (src/src/mount.c) over the life of    *)
(* one container: the mounts that "create" performs before the VM starts   *)
(* (clr_oci_handle_mounts), the list of destinations it persists in the    *)
(* state file (clr_oci_mounts_to_json), and the unmounts that "stop"       *)
(* performs from that list (handle_command_stop, clr_oci_handle_unmounts), *)
(* retried by a later "stop" while the state file remains.                 *)
(*                                                                         *)
(* The host's mount table is kept per destination as the number of mounts  *)
(* stacked there: umount(2) removes the topmost one and fails with EINVAL  *)
(* on a path where nothing is mounted.  The file system answers (does a    *)
(* source exist, does mkdir succeed, does mount(2) or umount(2) fail) are  *)
(* chosen nondeterministically, at the step where the code asks.           *)
(***************************************************************************)
EXTENDS Naturals, Sequences, SequencesExt

CONSTANTS
  Sources,      \* mount sources (mnt_fsname) a bundle may declare
  AbsSources,   \* the sources that begin with '/' (stat-ed before mounting)
  Dirs,         \* mount directories (mnt_dir), relative to the rootfs
  Types,        \* file system types (mnt_type)
  RootPath,     \* config->oci.root.path of the container
  NULL,         \* a NULL string pointer in the ignore table
  MaxMounts,    \* bound on the number of declared mounts
  LongDirs      \* the directories for which root.path + mnt_dir does not
                \* fit in PATH_MAX characters

ASSUME AbsSourcesAssumption == AbsSources \subseteq Sources
ASSUME MaxMountsAssumption == MaxMounts \in Nat
ASSUME NullAssumption == NULL \notin Sources \cup Dirs \cup Types
ASSUME LongDirsAssumption == LongDirs \subseteq Dirs

VARIABLES
  decls,       \* config->oci.mounts: the bundle's mounts, in declaration order
  ignore,      \* ignore[i]: m->ignore_mount of the i-th declared mount
  cursor,      \* the list element the running loop is at (1-based)
  phase,       \* where the container's mount handling is
  hostMounts,  \* hostMounts[d]: mounts stacked on destination d on the host
  stateFile,   \* TRUE while the container's state file exists
  manifest,    \* the "mounts" array of the state file (destinations)
  dryRun,      \* config->dry_run_mode
  srcExists    \* srcExists[s]: stat(s) succeeds

vars == <<decls, ignore, cursor, phase, hostMounts, stateFile, manifest,
          dryRun, srcExists>>

MountDecl == [fsname : Sources, dir : Dirs, type : Types]

(***************************************************************************)
(* m->dest is g_snprintf("%s%s", root.path, mnt_dir) into a PATH_MAX       *)
(* buffer: within one container the destination is determined by the      *)
(* directory, and distinct directories that fit give distinct              *)
(* destinations.  g_snprintf silently truncates a longer path to its first *)
(* PATH_MAX - 1 characters; the long directories are taken to share that   *)
(* prefix, so they all collapse onto the one truncated path.               *)
(***************************************************************************)
TruncatedDest == <<RootPath, "PATH_MAX">>

Dest(d) == IF d \in LongDirs THEN TruncatedDest ELSE <<RootPath, d>>

Dests == {Dest(d) : d \in Dirs}

(* NULL, the gap a left-out mount leaves in the list, is no destination.   *)
ASSUME NullNotDest == NULL \notin Dests

(***************************************************************************)
(* clr_oci_mounts_to_ignore: only the mnt_dir column is filled in, the     *)
(* fsname and type columns are NULL.                                       *)
(***************************************************************************)
IgnorePaths == {"/proc", "/dev", "/dev/pts", "/dev/shm", "/dev/mqueue",
                "/sys", "/sys/fs/cgroup"}

IgnoreTable == {[fsname |-> NULL, dir |-> d, type |-> NULL] : d \in IgnorePaths}

(* clr_oci_found_str_mntent_match: the table entry's field is set and      *)
(* equals the same field of the mount.                                     *)
FoundStrMntentMatch(me, m, element) ==
  me[element] /= NULL /\ me[element] = m[element]

(* clr_oci_mount_ignore: some table row matches the fsname, dir or type.   *)
MountIgnore(m) ==
  \E me \in IgnoreTable :
     \/ FoundStrMntentMatch(me, m, "fsname")
     \/ FoundStrMntentMatch(me, m, "dir")
     \/ FoundStrMntentMatch(me, m, "type")

(***************************************************************************)
(* clr_oci_mounts_to_json: the destinations of the mounts not ignored, in  *)
(* list order.  The model keeps the list positionally, with NULL where an  *)
(* ignored mount is left out; the unmount loop steps over those entries    *)
(* as clr_oci_handle_unmounts steps over ignore_mount, so it visits the    *)
(* same destinations in the same order as a loop over the filtered list.   *)
(***************************************************************************)
(* A faulty variant that stops one element early (an off-by-one in the     *)
(* list walk), kept to show that MountsRecorded detects it.                *)
MountsToJsonDropsLast ==
  [i \in 1..Len(decls) |->
     IF ignore[i] \/ i = Len(decls) THEN NULL ELSE Dest(decls[i].dir)]

MountsToJson ==
  [i \in 1..Len(decls) |-> IF ignore[i] THEN NULL ELSE Dest(decls[i].dir)]

Init ==
  /\ decls \in BoundedSeq(MountDecl, MaxMounts)
  /\ ignore = [i \in 1..Len(decls) |-> FALSE]
  /\ cursor = 1
  /\ phase = "setup"
  /\ hostMounts = [d \in Dests |-> 0]
  /\ stateFile = FALSE
  /\ manifest = <<>>
  /\ dryRun \in BOOLEAN
  /\ srcExists \in [Sources -> BOOLEAN]

-----------------------------------------------------------------------------
(***************************************************************************)
(* clr_oci_handle_mounts, one loop iteration per step.                     *)
(***************************************************************************)
SetupAt(m) ==
  /\ phase = "setup"
  /\ cursor <= Len(decls)
  /\ m = decls[cursor]

(* The mount is in the ignore table: mark it and continue.                 *)
MountIgnored ==
  \E m \in MountDecl :
     /\ SetupAt(m)
     /\ MountIgnore(m)
     /\ ignore' = [ignore EXCEPT ![cursor] = TRUE]
     /\ cursor' = cursor + 1
     /\ UNCHANGED <<decls, phase, hostMounts, stateFile, manifest, dryRun,
                    srcExists>>

(* An absolute source that stat() cannot find: logged and skipped, with    *)
(* ignore_mount left FALSE.                                                *)
MountSourceMissing ==
  \E m \in MountDecl :
     /\ SetupAt(m)
     /\ ~MountIgnore(m)
     /\ m.fsname \in AbsSources
     /\ ~srcExists[m.fsname]
     /\ cursor' = cursor + 1
     /\ UNCHANGED <<decls, ignore, phase, hostMounts, stateFile, manifest,
                    dryRun, srcExists>>

(* The mount will be attempted: no stat() failure stands in the way.       *)
MountAttempted(m) ==
  /\ SetupAt(m)
  /\ ~MountIgnore(m)
  /\ m.fsname \in AbsSources => srcExists[m.fsname]

(* g_mkdir_with_parents fails: the whole pass returns false.               *)
MkdirFails ==
  \E m \in MountDecl :
     /\ MountAttempted(m)
     /\ phase' = "setupFailed"
     /\ UNCHANGED <<decls, ignore, cursor, hostMounts, stateFile, manifest,
                    dryRun, srcExists>>

(* clr_oci_perform_mount: mount(2) fails (never in dry-run mode).          *)
PerformMountFails ==
  \E m \in MountDecl :
     /\ MountAttempted(m)
     /\ ~dryRun
     /\ phase' = "setupFailed"
     /\ UNCHANGED <<decls, ignore, cursor, hostMounts, stateFile, manifest,
                    dryRun, srcExists>>

(* clr_oci_perform_mount succeeds; in dry-run mode nothing is mounted.     *)
PerformMount ==
  \E m \in MountDecl :
     /\ MountAttempted(m)
     /\ hostMounts' = IF dryRun THEN hostMounts
                      ELSE [hostMounts EXCEPT ![Dest(m.dir)] = @ + 1]
     /\ cursor' = cursor + 1
     /\ UNCHANGED <<decls, ignore, phase, stateFile, manifest, dryRun,
                    srcExists>>

(* The loop ends: handle_mounts returns true and create writes the state   *)
(* file, whose mount list is clr_oci_mounts_to_json.                       *)
SetupDone ==
  /\ phase = "setup"
  /\ cursor > Len(decls)
  /\ phase' = "created"
  /\ stateFile' = TRUE
  /\ manifest' = MountsToJson
  /\ UNCHANGED <<decls, ignore, cursor, hostMounts, dryRun, srcExists>>

-----------------------------------------------------------------------------
(***************************************************************************)
(* "stop": handle_command_stop reads the state file and moves its mounts   *)
(* into the config (none of them marked ignore_mount); clr_oci_stop runs   *)
(* clr_oci_handle_unmounts over them, one loop iteration per step.  A      *)
(* stop that failed leaves the state file, so stop may be run again.       *)
(***************************************************************************)
StopBegin ==
  /\ phase \in {"created", "stopFailed"}
  /\ stateFile
  /\ phase' = "stopping"
  /\ cursor' = 1
  /\ UNCHANGED <<decls, ignore, hostMounts, stateFile, manifest, dryRun,
                 srcExists>>

(* An entry mounts_to_json left out: the loop continues.                   *)
UnmountIgnored ==
  /\ phase = "stopping"
  /\ cursor <= Len(manifest)
  /\ manifest[cursor] = NULL
  /\ cursor' = cursor + 1
  /\ UNCHANGED <<decls, ignore, phase, hostMounts, stateFile, manifest, dryRun,
                 srcExists>>

TeardownAt(d) ==
  /\ phase = "stopping"
  /\ cursor <= Len(manifest)
  /\ d = manifest[cursor]

(* clr_oci_perform_unmount: umount(dest) removes the topmost mount there.  *)
PerformUnmount ==
  \E d \in Dests :
     /\ TeardownAt(d)
     /\ hostMounts[d] > 0
     /\ hostMounts' = [hostMounts EXCEPT ![d] = @ - 1]
     /\ cursor' = cursor + 1
     /\ UNCHANGED <<decls, ignore, phase, stateFile, manifest, dryRun,
                    srcExists>>

(* A faulty variant that continues past a failed unmount instead of        *)
(* returning, kept to show that CleanStop detects it.                      *)
PerformUnmountFailsContinues ==
  \E d \in Dests :
     /\ TeardownAt(d)
     /\ cursor' = cursor + 1
     /\ UNCHANGED <<decls, ignore, phase, hostMounts, stateFile, manifest,
                    dryRun, srcExists>>

(* A faulty variant that retries a failed umount instead of returning,      *)
(* kept to show that LoopsTerminate detects it.                            *)
PerformUnmountFailsRetries ==
  \E d \in Dests :
     /\ TeardownAt(d)
     /\ UNCHANGED vars

(* umount(dest) fails: EINVAL when nothing is mounted there, or EBUSY.     *)
(* handle_unmounts returns false at once, skipping the rest of the list.  *)
PerformUnmountFails ==
  \E d \in Dests :
     /\ TeardownAt(d)
     /\ phase' = "stopFailed"
     /\ UNCHANGED <<decls, ignore, cursor, hostMounts, stateFile, manifest,
                    dryRun, srcExists>>

(* The loop ends: stop succeeds and the state file is deleted.             *)
TeardownDone ==
  /\ phase = "stopping"
  /\ cursor > Len(manifest)
  /\ phase' = "stopped"
  /\ stateFile' = FALSE
  /\ UNCHANGED <<decls, ignore, cursor, hostMounts, manifest, dryRun,
                 srcExists>>

Next ==
  \/ MountIgnored
  \/ MountSourceMissing
  \/ MkdirFails
  \/ PerformMountFails
  \/ PerformMount
  \/ SetupDone
  \/ StopBegin
  \/ UnmountIgnored
  \/ PerformUnmount
  \/ PerformUnmountFails
  \/ TeardownDone

Spec == Init /\ [][Next]_vars

(***************************************************************************)
(* One iteration of the loop of clr_oci_handle_mounts, or its exit; the    *)
(* same for clr_oci_handle_unmounts.                                       *)
(***************************************************************************)
SetupStep ==
  \/ MountIgnored \/ MountSourceMissing \/ MkdirFails \/ PerformMountFails
  \/ PerformMount \/ SetupDone

TeardownStep ==
  \/ UnmountIgnored \/ PerformUnmount \/ PerformUnmountFails \/ TeardownDone

(***************************************************************************)
(* Once create or stop is running, the CLI process keeps executing its     *)
(* loop: every stat, mkdir, mount and umount returns, with success or an   *)
(* error.  Nothing makes anyone run "stop", or run it again, so StopBegin  *)
(* has no fairness.                                                        *)
(***************************************************************************)
FairSpec == Spec /\ WF_vars(SetupStep) /\ WF_vars(TeardownStep)

-----------------------------------------------------------------------------
(***************************************************************************)
(* Properties.                                                             *)
(***************************************************************************)
Phases == {"setup", "setupFailed", "created", "stopping", "stopFailed",
           "stopped"}

TypeOK ==
  /\ decls \in Seq(MountDecl)
  /\ ignore \in [1..Len(decls) -> BOOLEAN]
  /\ cursor \in Nat \ {0}
  /\ phase \in Phases
  /\ hostMounts \in [Dests -> Nat]
  /\ stateFile \in BOOLEAN
  /\ manifest \in Seq(Dests \cup {NULL})
  /\ dryRun \in BOOLEAN
  /\ srcExists \in [Sources -> BOOLEAN]

(* Number of entries of the state file's mount list, from position k on,   *)
(* naming destination d.                                                   *)
Pending(d, k) == {i \in k..Len(manifest) : manifest[i] = d}

(***************************************************************************)
(* The mounts the setup loop has handled so far on destination d: those    *)
(* before the cursor that are not ignored, mounted, skipped or dry.        *)
(***************************************************************************)
Made(d) == {i \in 1..cursor - 1 : ~ignore[i] /\ Dest(decls[i].dir) = d}

(***************************************************************************)
(* The refinement mapping to MountLedger.  During create the setup loop    *)
(* owes what it handled; a stop owes the part of the list ahead of its     *)
(* cursor; otherwise the state file's whole list is owed.                  *)
(***************************************************************************)
Owed(d) ==
  IF phase \in {"setup", "setupFailed"} THEN Cardinality(Made(d))
  ELSE IF phase \in {"stopping", "stopped"} THEN Cardinality(Pending(d, cursor))
  ELSE Cardinality(Pending(d, 1))

Listed(d) == IF stateFile THEN Cardinality(Pending(d, 1)) ELSE 0

Ledger == INSTANCE MountLedger
            WITH mounted <- hostMounts,
                 owed <- [d \in Dests |-> Owed(d)],
                 listed <- [d \in Dests |-> Listed(d)]

(***************************************************************************)
(* The mount resolver implements the ledger: each loop iteration of        *)
(* clr_oci_handle_mounts and clr_oci_handle_unmounts, create's persisting  *)
(* of clr_oci_mounts_to_json and stop's deletion of the state file is a    *)
(* ledger step or leaves the ledger alone.  It fails if a step mounts      *)
(* something nobody owes, persists less than was handled, or finishes a   *)
(* stop that still owes an unmount.                                        *)
(***************************************************************************)
ImplementsLedger == Ledger!Spec

(***************************************************************************)
(* Every mount this container has on the host is named by an entry of the  *)
(* state file still ahead of the unmount loop: while the state file exists *)
(* (after create persisted clr_oci_mounts_to_json, and across failed and   *)
(* retried stops) each destination carries at most as many mounts as the   *)
(* remaining list names it.  This is what lets "stop" find every mount.    *)
(***************************************************************************)
MountsRecorded ==
  stateFile =>
    \A d \in Dests :
       hostMounts[d] <= Cardinality(Pending(d, IF phase = "stopping"
                                                THEN cursor ELSE 1))

(***************************************************************************)
(* Spec section 4.2: the destination is bounded by a fixed maximum path    *)
(* length, and exceeding it is a hard error, not a silent truncation.  So  *)
(* a create that got past its mount pass handled no mount whose            *)
(* destination does not fit: every such declaration was ignored.           *)
(***************************************************************************)
TooLongIsError ==
  phase \notin {"setup", "setupFailed"} =>
    \A i \in 1..Len(decls) : decls[i].dir \in LongDirs => ignore[i]

(***************************************************************************)
(* A stop that succeeded (clr_oci_handle_unmounts returned true and the    *)
(* state file is gone) left none of the container's mounts on the host.    *)
(***************************************************************************)
CleanStop ==
  phase = "stopped" => \A d \in Dests : hostMounts[d] = 0

(***************************************************************************)
(* The mount and the unmount loop each come to an end: a create that       *)
(* started its mounts either persists the state file or fails, and a stop  *)
(* that started unmounting either deletes the state file or fails, even    *)
(* when umount fails on a stacked or a never-made mount.                   *)
(***************************************************************************)
LoopsTerminate ==
  /\ phase = "setup" ~> phase \in {"created", "setupFailed"}
  /\ phase = "stopping" ~> phase \in {"stopped", "stopFailed"}

(***************************************************************************)
(* The comment of clr_oci_mounts_to_json (mount.c) says the array holds    *)
(* only the mounts that were actually mounted, and spec section 3 that     *)
(* only active mounts are persisted: once create has written the state     *)
(* file (outside dry-run mode), its mount list names exactly the mounts on *)
(* the host.                                                               *)
(***************************************************************************)
ManifestMounted ==
  (phase = "created" /\ ~dryRun) =>
    \A d \in Dests : hostMounts[d] = Cardinality(Pending(d, 1))

(***************************************************************************)
(* Spec section 4.2: a mount is ignored iff its source path, destination   *)
(* path or file system type equals an entry of the ignore table; so once   *)
(* the setup loop is over, every such declared mount is marked ignored     *)
(* (and none of them was mounted).                                         *)
(***************************************************************************)
SpecMountIgnore(m) ==
  m.fsname \in IgnorePaths \/ m.dir \in IgnorePaths \/ m.type \in IgnorePaths

IgnoredAsSpecified ==
  phase = "created" =>
    \A i \in 1..Len(decls) : SpecMountIgnore(decls[i]) => ignore[i]

(***************************************************************************)
(* Spec section 4.2/7: a failed teardown is reported and left to the       *)
(* caller, who may run "stop" again.  For that retry to unmount what is    *)
(* left, the state file's list must still name exactly the mounts on the   *)
(* host after a failed stop (outside dry-run mode).                        *)
(***************************************************************************)
StopFailureKeepsList ==
  (phase = "stopFailed" /\ ~dryRun) =>
    \A d \in Dests : hostMounts[d] = Cardinality(Pending(d, 1))

=============================================================================
