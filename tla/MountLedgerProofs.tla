------------------------- MODULE MountLedgerProofs -------------------------
(***************************************************************************)
(* The ledger keeps its promise for any set of destinations: every mount   *)
(* on the host is owed, and a finished stop left nothing mounted.          *)
(***************************************************************************)
EXTENDS MountLedger, TLAPS

LPhases == {"setup", "setupFailed", "created", "stopping", "stopFailed",
            "stopped"}

LTypeOK ==
  /\ phase \in LPhases
  /\ mounted \in [Dests -> Nat]
  /\ owed \in [Dests -> Nat]
  /\ listed \in [Dests -> Nat]

(***************************************************************************)
(* The strengthening: outside create, the code owes no more than the state *)
(* file lists, so a stop that fails, or one that starts again, still owes  *)
(* every mount.                                                            *)
(***************************************************************************)
OwedListed ==
  phase \in {"created", "stopping", "stopFailed"} =>
    \A d \in Dests : owed[d] <= listed[d]

LInv == LTypeOK /\ LedgerCovers /\ OwedListed

LEMMA LInit == Init => LInv
BY DEF Init, LInv, LTypeOK, LPhases, LedgerCovers, OwedListed, Zero

LEMMA LNext == LInv /\ [Next]_lvars => LInv'
<1> SUFFICES ASSUME LInv, [Next]_lvars PROVE LInv'
  OBVIOUS
<1> USE DEF LInv, LTypeOK, LPhases, LedgerCovers, OwedListed, Zero
<1>1. ASSUME NEW d \in Dests, Mount(d) PROVE LInv'
  BY <1>1 DEF Mount
<1>2. ASSUME NEW d \in Dests, Skip(d) PROVE LInv'
  BY <1>2 DEF Skip
<1>3. ASSUME NEW d \in Dests, Unmount(d) PROVE LInv'
  BY <1>3 DEF Unmount
<1>4. CASE SetupFail
  BY <1>4 DEF SetupFail
<1>5. CASE Persist
  BY <1>5 DEF Persist
<1>6. CASE Begin
  BY <1>6 DEF Begin
<1>7. CASE StopFail
  BY <1>7 DEF StopFail
<1>8. CASE Finish
  BY <1>8 DEF Finish
<1>9. CASE UNCHANGED lvars
  BY <1>9 DEF lvars
<1> QED
  BY <1>1, <1>2, <1>3, <1>4, <1>5, <1>6, <1>7, <1>8, <1>9 DEF Next

(***************************************************************************)
(* Whatever the interleaving of mounts, skips, failed and retried stops,   *)
(* each destination carries no more mounts than are owed, and a stop that  *)
(* finished left none.                                                     *)
(***************************************************************************)
THEOREM LedgerSafe == Spec => []LedgerCovers
<1>1. LInv => LedgerCovers
  BY DEF LInv
<1> QED
  BY LInit, LNext, <1>1, PTL DEF Spec

=============================================================================
