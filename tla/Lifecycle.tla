----------------------------- MODULE Lifecycle ------------------------------
(***************************************************************************)
(* Concurrent invocations of the runtime's command handlers on one         *)
(* container: "stop" (handle_command_stop, which the FIXME in it shows is   *)
(* also reached by "delete"), "pause"/"resume" (handle_command_toggle) and *)
(* "kill" (handler_kill).  Each invocation is a separate process that runs *)
(* its handler once; they share only the container's state file and its   *)
(* hypervisor, and no lock orders them, so every step of one may fall      *)
(* between two steps of another.                                           *)
(*                                                                         *)
(* The handlers are under src/; the library calls they make               *)
(* (clr_oci_state_file_exists, clr_oci_get_config_and_state,              *)
(* clr_oci_json_parse, clr_oci_stop, clr_oci_toggle, clr_oci_kill,        *)
(* clr_oci_get_signum) are not, and are modelled from their description:  *)
(* each is one atomic step at the point where the handler calls it, except *)
(* clr_oci_toggle, which signals the hypervisor and then rewrites the      *)
(* state file in two steps.                                                *)
(***************************************************************************)
EXTENDS Integers

CONSTANTS
  Procs,     \* the concurrent CLI invocations
  NoFile     \* the state file does not exist

VARIABLES
  stateFile, \* status recorded in the state file, or NoFile
  vm,        \* the hypervisor: "running", "paused" or "gone"
  bundleOK,  \* the bundle's config.json can be parsed
  cmd,       \* cmd[p]: the subcommand invocation p runs
  sigArg,    \* sigArg[p]: kill's optional signal argument
  pc,        \* pc[p]: the handler step p is at
  snap,      \* snap[p]: the status p read from the state file
  signum,    \* signum[p]: the signal kill will send
  ret        \* ret[p]: the handler's gboolean ret

vars == <<stateFile, vm, bundleOK, cmd, sigArg, pc, snap, signum, ret>>

(* enum oci_status, without the transient and invalid values.              *)
Statuses == {"created", "running", "paused", "stopped"}

ASSUME NoFileAssumption == NoFile \notin Statuses

Cmds == {"stop", "pause", "resume", "kill"}

(* argc == 1: kill is given no signal argument.                           *)
NoSigArg == "<none>"

(* Signal arguments: none, a number, a name, and two that are neither.     *)
SigArgs == {NoSigArg, "9", "KILL", "0", "FOO"}

SIGKILL == 9
SIGTERM == 15

(* atoi: the leading decimal digits, 0 when there are none.                *)
Atoi(a) == IF a = "9" THEN 9 ELSE 0

(* clr_oci_get_signum: the number of a signal name, -1 for an unknown one. *)
GetSignum(a) ==
  IF a \in {"KILL", "TERM"}
  THEN IF a = "KILL" THEN SIGKILL ELSE SIGTERM
  ELSE -1

(* handler_kill: SIGTERM without an argument; otherwise atoi, falling back *)
(* to the signal name when atoi gives no positive number.                  *)
ParseSignal(a) ==
  IF a = NoSigArg THEN SIGTERM
  ELSE IF Atoi(a) <= 0 THEN GetSignum(a) ELSE Atoi(a)

FirstPc == [c \in Cmds |-> CASE c = "stop" -> "stop_exists"
                             [] c = "kill" -> "kill_parse"
                             [] OTHER      -> "toggle_load"]

Init ==
  /\ stateFile \in {"created", "running", "paused"}
  /\ vm = IF stateFile = "paused" THEN "paused" ELSE "running"
  /\ bundleOK \in BOOLEAN
  /\ cmd \in [Procs -> Cmds]
  /\ sigArg \in [Procs -> SigArgs]
  /\ pc = [p \in Procs |-> FirstPc[cmd[p]]]
  /\ snap = [p \in Procs |-> NoFile]
  /\ signum = [p \in Procs |-> SIGTERM]
  /\ ret = [p \in Procs |-> FALSE]

Goto(p, l) == pc' = [pc EXCEPT ![p] = l]

(* The handler returns r.                                                  *)
Finish(p, r) ==
  /\ pc' = [pc EXCEPT ![p] = "done"]
  /\ ret' = [ret EXCEPT ![p] = r]

-----------------------------------------------------------------------------
(***************************************************************************)
(* handle_command_stop.                                                    *)
(***************************************************************************)

(* A faulty variant with the existence test inverted, kept to show that   *)
(* StopSuccessMeansGone detects it.                                        *)
StopStateMissingInverted(p) ==
  /\ pc[p] = "stop_exists"
  /\ stateFile /= NoFile
  /\ Finish(p, TRUE)
  /\ UNCHANGED <<stateFile, vm, bundleOK, cmd, sigArg, snap, signum>>

(* clr_oci_state_file_exists is false: a warning, and ret = true so that a *)
(* second "delete" from containerd is not an error.                       *)
StopStateMissing(p) ==
  /\ pc[p] = "stop_exists"
  /\ stateFile = NoFile
  /\ Finish(p, TRUE)
  /\ UNCHANGED <<stateFile, vm, bundleOK, cmd, sigArg, snap, signum>>

StopStateExists(p) ==
  /\ pc[p] = "stop_exists"
  /\ stateFile /= NoFile
  /\ Goto(p, "stop_load")
  /\ UNCHANGED <<stateFile, vm, bundleOK, cmd, sigArg, snap, signum, ret>>

(* clr_oci_get_config_and_state cannot read the state file: ret = false.   *)
StopLoadFails(p) ==
  /\ pc[p] = "stop_load"
  /\ stateFile = NoFile
  /\ Finish(p, FALSE)
  /\ UNCHANGED <<stateFile, vm, bundleOK, cmd, sigArg, snap, signum>>

StopLoad(p) ==
  /\ pc[p] = "stop_load"
  /\ stateFile /= NoFile
  /\ snap' = [snap EXCEPT ![p] = stateFile]
  /\ ret' = [ret EXCEPT ![p] = TRUE]
  /\ Goto(p, "stop_parse")
  /\ UNCHANGED <<stateFile, vm, bundleOK, cmd, sigArg, signum>>

(* clr_oci_json_parse of config.json fails: "goto out" with ret still the  *)
(* true that clr_oci_get_config_and_state returned.                        *)
StopParseFails(p) ==
  /\ pc[p] = "stop_parse"
  /\ ~bundleOK
  /\ Finish(p, ret[p])
  /\ UNCHANGED <<stateFile, vm, bundleOK, cmd, sigArg, snap, signum>>

StopParse(p) ==
  /\ pc[p] = "stop_parse"
  /\ bundleOK
  /\ Goto(p, "stop_act")
  /\ UNCHANGED <<stateFile, vm, bundleOK, cmd, sigArg, snap, signum, ret>>

(* clr_oci_stop: the hypervisor is stopped, the mounts moved into the      *)
(* config are unmounted and the state file is deleted.                     *)
ClrOciStop(p) ==
  /\ pc[p] = "stop_act"
  /\ vm' = "gone"
  /\ stateFile' = NoFile
  /\ Finish(p, TRUE)
  /\ UNCHANGED <<bundleOK, cmd, sigArg, snap, signum>>

(* clr_oci_stop fails (an unmount fails): the state file stays.            *)
ClrOciStopFails(p) ==
  /\ pc[p] = "stop_act"
  /\ Finish(p, FALSE)
  /\ UNCHANGED <<stateFile, vm, bundleOK, cmd, sigArg, snap, signum>>

-----------------------------------------------------------------------------
(***************************************************************************)
(* handle_command_toggle.  clr_oci_config_update only fails on a NULL      *)
(* argument, which these calls never pass, so it is part of the load.      *)
(***************************************************************************)
Target(p) == IF cmd[p] = "pause" THEN "paused" ELSE "running"

ToggleLoadFails(p) ==
  /\ pc[p] = "toggle_load"
  /\ stateFile = NoFile
  /\ Finish(p, FALSE)
  /\ UNCHANGED <<stateFile, vm, bundleOK, cmd, sigArg, snap, signum>>

ToggleLoad(p) ==
  /\ pc[p] = "toggle_load"
  /\ stateFile /= NoFile
  /\ snap' = [snap EXCEPT ![p] = stateFile]
  /\ Goto(p, "toggle_act")
  /\ UNCHANGED <<stateFile, vm, bundleOK, cmd, sigArg, signum, ret>>

(* clr_oci_toggle: the container already has the requested status.        *)
ToggleNoop(p) ==
  /\ pc[p] = "toggle_act"
  /\ snap[p] = Target(p)
  /\ Finish(p, TRUE)
  /\ UNCHANGED <<stateFile, vm, bundleOK, cmd, sigArg, snap, signum>>

(* clr_oci_toggle: the hypervisor cannot be reached over its socket.       *)
ToggleSignalFails(p) ==
  /\ pc[p] = "toggle_act"
  /\ snap[p] /= Target(p)
  /\ vm = "gone"
  /\ Finish(p, FALSE)
  /\ UNCHANGED <<stateFile, vm, bundleOK, cmd, sigArg, snap, signum>>

ToggleSignal(p) ==
  /\ pc[p] = "toggle_act"
  /\ snap[p] /= Target(p)
  /\ vm /= "gone"
  /\ vm' = Target(p)
  /\ Goto(p, "toggle_write")
  /\ UNCHANGED <<stateFile, bundleOK, cmd, sigArg, snap, signum, ret>>

(* clr_oci_toggle rewrites the state file with the new status.            *)
ToggleWrite(p) ==
  /\ pc[p] = "toggle_write"
  /\ stateFile' = Target(p)
  /\ Finish(p, TRUE)
  /\ UNCHANGED <<vm, bundleOK, cmd, sigArg, snap, signum>>

-----------------------------------------------------------------------------
(***************************************************************************)
(* handler_kill.  As in toggle, clr_oci_config_update cannot fail here.    *)
(***************************************************************************)

(* The signal argument names no signal: "invalid signal", return false.    *)
KillBadSignal(p) ==
  /\ pc[p] = "kill_parse"
  /\ ParseSignal(sigArg[p]) < 0
  /\ Finish(p, FALSE)
  /\ UNCHANGED <<stateFile, vm, bundleOK, cmd, sigArg, snap, signum>>

(* A faulty variant that omits the "signum < 0" check, kept to show that   *)
(* TypeOK detects it.                                                      *)
KillParseUnchecked(p) ==
  /\ pc[p] = "kill_parse"
  /\ signum' = [signum EXCEPT ![p] = ParseSignal(sigArg[p])]
  /\ Goto(p, "kill_load")
  /\ UNCHANGED <<stateFile, vm, bundleOK, cmd, sigArg, snap, ret>>

KillParse(p) ==
  /\ pc[p] = "kill_parse"
  /\ ParseSignal(sigArg[p]) >= 0
  /\ signum' = [signum EXCEPT ![p] = ParseSignal(sigArg[p])]
  /\ Goto(p, "kill_load")
  /\ UNCHANGED <<stateFile, vm, bundleOK, cmd, sigArg, snap, ret>>

KillLoadFails(p) ==
  /\ pc[p] = "kill_load"
  /\ stateFile = NoFile
  /\ Finish(p, FALSE)
  /\ UNCHANGED <<stateFile, vm, bundleOK, cmd, sigArg, snap, signum>>

KillLoad(p) ==
  /\ pc[p] = "kill_load"
  /\ stateFile /= NoFile
  /\ snap' = [snap EXCEPT ![p] = stateFile]
  /\ Goto(p, "kill_act")
  /\ UNCHANGED <<stateFile, vm, bundleOK, cmd, sigArg, signum, ret>>

(* clr_oci_kill: the hypervisor is gone and cannot be signalled.           *)
ClrOciKillFails(p) ==
  /\ pc[p] = "kill_act"
  /\ vm = "gone"
  /\ Finish(p, FALSE)
  /\ UNCHANGED <<stateFile, vm, bundleOK, cmd, sigArg, snap, signum>>

(* clr_oci_kill: the signal is delivered; SIGKILL or SIGTERM ends the      *)
(* hypervisor, the state file is left as it is.                            *)
ClrOciKill(p) ==
  /\ pc[p] = "kill_act"
  /\ vm /= "gone"
  /\ vm' = IF signum[p] \in {SIGKILL, SIGTERM} THEN "gone" ELSE vm
  /\ Finish(p, TRUE)
  /\ UNCHANGED <<stateFile, bundleOK, cmd, sigArg, snap, signum>>

-----------------------------------------------------------------------------
Step(p) ==
  \/ StopStateMissing(p) \/ StopStateExists(p)
  \/ StopLoadFails(p) \/ StopLoad(p)
  \/ StopParseFails(p) \/ StopParse(p)
  \/ ClrOciStop(p) \/ ClrOciStopFails(p)
  \/ ToggleLoadFails(p) \/ ToggleLoad(p)
  \/ ToggleNoop(p) \/ ToggleSignalFails(p) \/ ToggleSignal(p)
  \/ ToggleWrite(p)
  \/ KillBadSignal(p) \/ KillParse(p)
  \/ KillLoadFails(p) \/ KillLoad(p)
  \/ ClrOciKillFails(p) \/ ClrOciKill(p)

Next == \E p \in Procs : Step(p)

Spec == Init /\ [][Next]_vars

-----------------------------------------------------------------------------
(***************************************************************************)
(* Properties.                                                             *)
(***************************************************************************)
Pcs == {"stop_exists", "stop_load", "stop_parse", "stop_act",
        "toggle_load", "toggle_act", "toggle_write",
        "kill_parse", "kill_load", "kill_act", "done"}

TypeOK ==
  /\ stateFile \in Statuses \cup {NoFile}
  /\ vm \in {"running", "paused", "gone"}
  /\ bundleOK \in BOOLEAN
  /\ cmd \in [Procs -> Cmds]
  /\ sigArg \in [Procs -> SigArgs]
  /\ pc \in [Procs -> Pcs]
  /\ snap \in [Procs -> Statuses \cup {NoFile}]
  /\ signum \in [Procs -> Nat]
  /\ ret \in [Procs -> BOOLEAN]

(* A finished "stop" that found the state file.                           *)
StoppedAfterRead(p) ==
  /\ cmd[p] = "stop"
  /\ pc[p] = "done"
  /\ snap[p] /= NoFile

(***************************************************************************)
(* When the bundle's config.json can be parsed, a "stop" that reports      *)
(* success has left no hypervisor behind, whatever the other invocations   *)
(* did meanwhile: either it stopped the container itself, or it found the  *)
(* state file already removed by a stop that did.                          *)
(***************************************************************************)
StopSuccessMeansGone ==
  \A p \in Procs :
     (cmd[p] = "stop" /\ pc[p] = "done" /\ ret[p] /\ bundleOK) => vm = "gone"

(***************************************************************************)
(* handle_command_stop returns true only when the container is stopped:    *)
(* its return value is the exit status containerd and the user act on.     *)
(***************************************************************************)
StopReportsTruth ==
  \A p \in Procs : (StoppedAfterRead(p) /\ ret[p]) => vm = "gone"

(***************************************************************************)
(* Spec section 5: a missing state file means the container is already     *)
(* gone and is not an error for stop/delete, to tolerate double invocation *)
(* by an orchestrator.  So a "stop" never fails for want of the state      *)
(* file: a stop that failed had read it.                                   *)
(***************************************************************************)
MissingStateNonFatal ==
  \A p \in Procs :
     (cmd[p] = "stop" /\ pc[p] = "done" /\ ~ret[p]) => snap[p] /= NoFile

=============================================================================
