-------------------------- MODULE LifecycleProofs ---------------------------
(***************************************************************************)
(* Proofs about the concurrent command handlers, for any set of            *)
(* invocations.                                                            *)
(***************************************************************************)
EXTENDS Lifecycle, TLAPS

(* Every signal handler_kill can compute is an integer.                    *)
LEMMA ParseSignalInt ==
  ASSUME NEW a \in SigArgs
  PROVE  ParseSignal(a) \in Int
<1>1. Atoi(a) \in Int
  BY DEF Atoi
<1>2. GetSignum(a) \in Int
  BY SMT DEF GetSignum, SIGKILL, SIGTERM
<1> QED
  BY <1>1, <1>2 DEF ParseSignal, SIGTERM

(* The initial states are well typed.                                     *)
LEMMA InitTypeOK == Init => TypeOK
<1> SUFFICES ASSUME Init PROVE TypeOK
  OBVIOUS
<1>1. pc \in [Procs -> Pcs]
  BY DEF Init, FirstPc, Pcs, Cmds
<1>2. signum \in [Procs -> Nat]
  BY DEF Init, SIGTERM
<1>3. snap \in [Procs -> Statuses \cup {NoFile}]
  BY DEF Init
<1>4. stateFile \in Statuses \cup {NoFile} /\ vm \in {"running", "paused", "gone"}
  BY DEF Init, Statuses
<1> QED
  BY <1>1, <1>2, <1>3, <1>4 DEF Init, TypeOK

(* Every step of every handler keeps the variables in their domains.       *)
LEMMA NextTypeOK == TypeOK /\ [Next]_vars => TypeOK'
<1> SUFFICES ASSUME TypeOK, [Next]_vars PROVE TypeOK'
  OBVIOUS
<1>1. CASE \E p \in Procs : Step(p)
  <2>1. PICK p \in Procs : Step(p)
    BY <1>1
  <2>2. CASE KillParse(p)
    <3>1. ParseSignal(sigArg[p]) \in Int
      BY ParseSignalInt DEF TypeOK
    <3> QED
      BY <2>2, <3>1 DEF KillParse, Goto, TypeOK, Pcs
  <2>3. CASE ~KillParse(p)
    BY <2>1, <2>3 DEF Step, TypeOK, Pcs, Statuses,
      StopStateMissing, StopStateExists, StopLoadFails, StopLoad,
      StopParseFails, StopParse, ClrOciStop, ClrOciStopFails,
      ToggleLoadFails, ToggleLoad, ToggleNoop, ToggleSignalFails,
      ToggleSignal, ToggleWrite, Target, KillBadSignal,
      KillLoadFails, KillLoad, ClrOciKillFails, ClrOciKill, Goto, Finish
  <2> QED
    BY <2>2, <2>3
<1>2. CASE UNCHANGED vars
  BY <1>2 DEF vars, TypeOK
<1> QED
  BY <1>1, <1>2 DEF Next

(***************************************************************************)
(* The handlers keep every variable in its domain: in particular kill only *)
(* goes on to clr_oci_kill with a non-negative signal, because of the      *)
(* "signum < 0" check after atoi and clr_oci_get_signum.                   *)
(***************************************************************************)
THEOREM TypeCorrect == Spec => []TypeOK
BY InitTypeOK, NextTypeOK, PTL DEF Spec

-----------------------------------------------------------------------------
(***************************************************************************)
(* StopSuccessMeansGone is inductive once it is known that the state file  *)
(* is only ever missing after clr_oci_stop has stopped the hypervisor: a   *)
(* stop that returns true from the "state file does not exist" branch      *)
(* relies on that.  No step restarts a hypervisor that is gone (toggle and *)
(* kill both require it to be there).                                      *)
(***************************************************************************)
NoFileMeansGone == stateFile = NoFile => vm = "gone"

(* A "stop" invocation only ever runs the steps of handle_command_stop.    *)
StopPcs == {"stop_exists", "stop_load", "stop_parse", "stop_act", "done"}

StopRunsStop == \A p \in Procs : cmd[p] = "stop" => pc[p] \in StopPcs

IInv == TypeOK /\ NoFileMeansGone /\ StopRunsStop /\ StopSuccessMeansGone

LEMMA InitIInv == Init => IInv
<1> SUFFICES ASSUME Init PROVE IInv
  OBVIOUS
<1>1. TypeOK
  BY InitTypeOK
<1>2. NoFileMeansGone
  BY NoFileAssumption DEF Init, NoFileMeansGone, Statuses
<1>3. StopRunsStop
  BY DEF Init, StopRunsStop, StopPcs, FirstPc, Cmds
<1>4. StopSuccessMeansGone
  BY DEF Init, StopSuccessMeansGone, FirstPc, Cmds
<1> QED
  BY <1>1, <1>2, <1>3, <1>4 DEF IInv

(***************************************************************************)
(* One step of invocation p preserves the strengthening.  In each case the *)
(* facts needed are the ones of <2>2: a hypervisor that is gone stays      *)
(* gone, and only p's program counter and return value change.            *)
(***************************************************************************)
LEMMA StepIInv ==
  ASSUME IInv, NEW p \in Procs, Step(p)
  PROVE  IInv'
<1> USE DEF IInv, TypeOK, NoFileMeansGone, StopRunsStop, StopPcs,
            StopSuccessMeansGone
<1>1. TypeOK'
  BY NextTypeOK DEF Next
<1>2. NoFileMeansGone' /\ StopRunsStop' /\ StopSuccessMeansGone'
  <2>1. vm \in {"running", "paused", "gone"}
    OBVIOUS
  <2>2. stateFile \in Statuses \cup {NoFile}
    OBVIOUS
  <2>3. CASE StopStateMissing(p)
    BY <2>3, <2>2 DEF StopStateMissing, Goto, Finish
  <2>4. CASE StopStateExists(p)
    BY <2>4, <2>2 DEF StopStateExists, Goto, Finish
  <2>5. CASE StopLoadFails(p)
    BY <2>5, <2>2 DEF StopLoadFails, Goto, Finish
  <2>6. CASE StopLoad(p)
    BY <2>6, <2>2 DEF StopLoad, Goto, Finish
  <2>7. CASE StopParseFails(p)
    BY <2>7, <2>2 DEF StopParseFails, Goto, Finish
  <2>8. CASE StopParse(p)
    BY <2>8, <2>2 DEF StopParse, Goto, Finish
  <2>9. CASE ClrOciStop(p)
    BY <2>9, <2>2 DEF ClrOciStop, Goto, Finish
  <2>10. CASE ClrOciStopFails(p)
    BY <2>10, <2>2 DEF ClrOciStopFails, Goto, Finish
  <2>11. CASE ToggleLoadFails(p)
    BY <2>11, <2>2 DEF ToggleLoadFails, Goto, Finish, Target
  <2>12. CASE ToggleLoad(p)
    BY <2>12, <2>2 DEF ToggleLoad, Goto, Finish, Target
  <2>13. CASE ToggleNoop(p)
    BY <2>13, <2>2 DEF ToggleNoop, Goto, Finish, Target
  <2>14. CASE ToggleSignalFails(p)
    BY <2>14, <2>2 DEF ToggleSignalFails, Goto, Finish, Target
  <2>15. CASE ToggleSignal(p)
    BY <2>15, <2>2 DEF ToggleSignal, Goto, Finish, Target
  <2>16. CASE ToggleWrite(p)
    BY <2>16, <2>2, NoFileAssumption DEF ToggleWrite, Goto, Finish, Target, Statuses
  <2>17. CASE KillBadSignal(p)
    BY <2>17, <2>2 DEF KillBadSignal, Goto, Finish
  <2>18. CASE KillParse(p)
    BY <2>18, <2>2 DEF KillParse, Goto, Finish
  <2>19. CASE KillLoadFails(p)
    BY <2>19, <2>2 DEF KillLoadFails, Goto, Finish
  <2>20. CASE KillLoad(p)
    BY <2>20, <2>2 DEF KillLoad, Goto, Finish
  <2>21. CASE ClrOciKillFails(p)
    BY <2>21, <2>2 DEF ClrOciKillFails, Goto, Finish
  <2>22. CASE ClrOciKill(p)
    BY <2>22, <2>2 DEF ClrOciKill, Goto, Finish
  <2> QED
    BY <2>3, <2>4, <2>5, <2>6, <2>7, <2>8, <2>9, <2>10, <2>11, <2>12,
       <2>13, <2>14, <2>15, <2>16, <2>17, <2>18, <2>19, <2>20, <2>21, <2>22
       DEF Step
<1> QED
  BY <1>1, <1>2

LEMMA NextIInv == IInv /\ [Next]_vars => IInv'
<1> SUFFICES ASSUME IInv, [Next]_vars PROVE IInv'
  OBVIOUS
<1>1. CASE \E p \in Procs : Step(p)
  BY <1>1, StepIInv
<1>2. CASE UNCHANGED vars
  BY <1>2 DEF vars, IInv, TypeOK, NoFileMeansGone, StopRunsStop,
     StopSuccessMeansGone
<1> QED
  BY <1>1, <1>2 DEF Next

(***************************************************************************)
(* For any number of concurrent invocations: when the bundle's config.json *)
(* parses, a "stop" (handle_command_stop) that returned true has left no   *)
(* hypervisor running, whatever the other stops, toggles and kills did     *)
(* between its steps.                                                      *)
(***************************************************************************)
THEOREM StopSuccessSafe == Spec => []StopSuccessMeansGone
<1>1. []IInv => []StopSuccessMeansGone
  BY PTL DEF IInv
<1> QED
  BY InitIInv, NextIInv, <1>1, PTL DEF Spec

=============================================================================
