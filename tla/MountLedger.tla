---------------------------- MODULE MountLedger ----------------------------
(***************************************************************************)
(* What the mount resolver promises, without lists, cursors or the ignore  *)
(* table: a ledger of the mounts a container has on the host and of the    *)
(* mounts somebody is still able to undo.                                  *)
(*                                                                         *)
(*   mounted[d]  the mounts stacked on destination d;                      *)
(*   owed[d]     the mounts on d that the running code, or the state file  *)
(*               while no code runs, still accounts for: during create the *)
(*               mounts handled so far, during a stop the part of the      *)
(*               persisted list the unmount loop has still to visit;       *)
(*   listed[d]   how often the persisted list names d (0 without a state   *)
(*               file).                                                    *)
(*                                                                         *)
(* An entry may be owed without being mounted (a skipped source, dry-run   *)
(* mode); a mount is never made without being owed, and a stop can only    *)
(* finish once nothing is owed.  So whatever is on the host is owed by     *)
(* somebody (LedgerCovers), and a finished stop left nothing behind.       *)
(***************************************************************************)
EXTENDS Naturals

CONSTANTS Dests

VARIABLES phase, mounted, owed, listed

lvars == <<phase, mounted, owed, listed>>

Zero == [d \in Dests |-> 0]

Init ==
  /\ phase = "setup"
  /\ mounted = Zero
  /\ owed = Zero
  /\ listed = Zero

(* create mounts d; the mount is owed by the running setup.                *)
Mount(d) ==
  /\ phase = "setup"
  /\ mounted' = [mounted EXCEPT ![d] = @ + 1]
  /\ owed' = [owed EXCEPT ![d] = @ + 1]
  /\ UNCHANGED <<phase, listed>>

(* create handles d without mounting anything there.                       *)
Skip(d) ==
  /\ phase = "setup"
  /\ owed' = [owed EXCEPT ![d] = @ + 1]
  /\ UNCHANGED <<phase, mounted, listed>>

(* create gives up: what it mounted stays, owed by the failed call.        *)
SetupFail ==
  /\ phase = "setup"
  /\ phase' = "setupFailed"
  /\ UNCHANGED <<mounted, owed, listed>>

(* create persists exactly what it owes.                                    *)
Persist ==
  /\ phase = "setup"
  /\ phase' = "created"
  /\ listed' = owed
  /\ UNCHANGED <<mounted, owed>>

(* A stop starts from the persisted list.                                  *)
Begin ==
  /\ phase \in {"created", "stopFailed"}
  /\ phase' = "stopping"
  /\ owed' = listed
  /\ UNCHANGED <<mounted, listed>>

(* The stop removes a mount on d that it owes.                             *)
Unmount(d) ==
  /\ phase = "stopping"
  /\ mounted[d] > 0
  /\ owed[d] > 0
  /\ mounted' = [mounted EXCEPT ![d] = @ - 1]
  /\ owed' = [owed EXCEPT ![d] = @ - 1]
  /\ UNCHANGED <<phase, listed>>

(* The stop fails: the state file, and so its whole list, remains.         *)
StopFail ==
  /\ phase = "stopping"
  /\ phase' = "stopFailed"
  /\ owed' = listed
  /\ UNCHANGED <<mounted, listed>>

(* The stop finishes when it owes nothing, and deletes the state file.     *)
Finish ==
  /\ phase = "stopping"
  /\ owed = Zero
  /\ phase' = "stopped"
  /\ listed' = Zero
  /\ UNCHANGED <<mounted, owed>>

Next ==
  \/ \E d \in Dests : Mount(d) \/ Skip(d) \/ Unmount(d)
  \/ SetupFail \/ Persist \/ Begin \/ StopFail \/ Finish

Spec == Init /\ [][Next]_lvars

(***************************************************************************)
(* Every mount on the host is owed by the code that runs or by the state   *)
(* file; in particular a finished stop left nothing mounted.               *)
(***************************************************************************)
LedgerCovers ==
  /\ \A d \in Dests : mounted[d] <= owed[d]
  /\ phase = "stopped" => mounted = Zero

=============================================================================
