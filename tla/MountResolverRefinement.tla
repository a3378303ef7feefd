---------------------- MODULE MountResolverRefinement ----------------------
(***************************************************************************)
(* The mount resolver implements the mount ledger (MountLedger), for every *)
(* set of mounts, destinations and bound: each step of the setup loop, of  *)
(* create's persisting, of the unmount loop and of stop's deletion of the  *)
(* state file is a ledger step under the mapping of MountResolver, or      *)
(* leaves the ledger alone.  The proof rests on the invariant IInv of      *)
(* MountResolverProofs, which says among other things that the state file  *)
(* exists exactly while a list is owed.                                    *)
(***************************************************************************)
EXTENDS MountResolverProofs

OwedF == [d \in Dests |-> Owed(d)]
ListedF == [d \in Dests |-> Listed(d)]
LV == <<phase, hostMounts, OwedF, ListedF>>

LEMMA RefInit == Init => Ledger!Init
<1> SUFFICES ASSUME Init PROVE Ledger!Init
  OBVIOUS
<1>1. \A d \in Dests : Made(d) = {}
  BY DEF Init, Made
<1>2. OwedF = Ledger!Zero
  BY <1>1, FS_EmptySet DEF Init, OwedF, Owed, Ledger!Zero
<1>3. ListedF = Ledger!Zero
  BY DEF Init, ListedF, Listed, Ledger!Zero
<1> QED
  BY <1>2, <1>3 DEF Init, Ledger!Init, Ledger!Zero, OwedF, ListedF

(* Marking a mount ignored changes nothing the ledger records.             *)
LEMMA RefMountIgnored ==
  ASSUME IInv, MountIgnored
  PROVE  UNCHANGED LV
<1>1. /\ phase = "setup" /\ phase' = "setup"
      /\ cursor <= Len(decls) /\ cursor' = cursor + 1
      /\ ignore' = [ignore EXCEPT ![cursor] = TRUE]
      /\ UNCHANGED <<decls, hostMounts, stateFile, manifest>>
  BY DEF MountIgnored, SetupAt
<1>2. \A d \in Dests : Made(d)' = Made(d)
  BY <1>1 DEF Made, IInv, TypeOK
<1>3. OwedF' = OwedF
  BY <1>1, <1>2 DEF OwedF, Owed
<1>4. ListedF' = ListedF
  BY <1>1 DEF ListedF, Listed, Pending
<1> QED
  BY <1>1, <1>3, <1>4 DEF LV

(***************************************************************************)
(* The setup loop handles a mount that is not ignored (skipped for a       *)
(* missing source, mounted, or dry): the ledger owes one more on its       *)
(* destination and on no other.                                            *)
(***************************************************************************)
LEMMA RefAdvance ==
  ASSUME IInv, NEW m \in MountDecl,
         phase = "setup", phase' = "setup",
         cursor <= Len(decls), m = decls[cursor], cursor' = cursor + 1,
         UNCHANGED <<decls, ignore, stateFile, manifest>>
  PROVE  /\ OwedF' = [OwedF EXCEPT ![Dest(m.dir)] = @ + 1]
         /\ ListedF' = ListedF
<1>1. ~ignore[cursor]
  BY DEF IInv, SetupInv, TypeOK
<1>2. cursor \in Int
  BY DEF IInv, TypeOK
<1>3. \A d \in Dests : Owed(d)' = IF d = Dest(m.dir) THEN Owed(d) + 1
                                                     ELSE Owed(d)
  <2> SUFFICES ASSUME NEW d \in Dests
               PROVE  Owed(d)' = IF d = Dest(m.dir) THEN Owed(d) + 1
                                                    ELSE Owed(d)
    OBVIOUS
  <2>1. /\ Made(d)' \subseteq 1..cursor
        /\ cursor \notin Made(d)
        /\ Dest(m.dir) = d => Made(d)' = Made(d) \cup {cursor}
        /\ Dest(m.dir) /= d => Made(d)' = Made(d)
    BY <1>1, MadeAdvance DEF IInv
  <2>2. Made(d) \subseteq 1..cursor
    BY <1>2 DEF Made
  <2>3. CASE d = Dest(m.dir)
    <3>1. Cardinality(Made(d)') = Cardinality(Made(d)) + 1
      BY <2>1, <2>2, <2>3, <1>2, CardAdd
    <3> QED
      BY <2>3, <3>1 DEF Owed
  <2>4. CASE d /= Dest(m.dir)
    BY <2>1, <2>4 DEF Owed
  <2> QED
    BY <2>3, <2>4
<1>4. Dest(m.dir) \in Dests
  BY DEF MountDecl, Dests
<1>5. OwedF' = [OwedF EXCEPT ![Dest(m.dir)] = @ + 1]
  BY <1>3, <1>4 DEF OwedF
<1>6. ListedF' = ListedF
  BY DEF ListedF, Listed, Pending
<1> QED
  BY <1>5, <1>6

(* A missing source is skipped: owed, not mounted.                         *)
LEMMA RefSourceMissing ==
  ASSUME IInv, MountSourceMissing
  PROVE  Ledger!Next
<1>1. PICK m \in MountDecl :
        /\ SetupAt(m)
        /\ cursor' = cursor + 1
        /\ UNCHANGED <<decls, ignore, phase, hostMounts, stateFile, manifest>>
  BY DEF MountSourceMissing
<1>2. /\ OwedF' = [OwedF EXCEPT ![Dest(m.dir)] = @ + 1]
      /\ ListedF' = ListedF
  BY <1>1, RefAdvance DEF SetupAt
<1>3. Ledger!Skip(Dest(m.dir))
  BY <1>1, <1>2 DEF SetupAt, Ledger!Skip, OwedF, ListedF
<1> QED
  BY <1>3 DEF Ledger!Next, MountDecl, Dests

(* mount(2) succeeds: mounted and owed; dry-run mode: owed only.           *)
LEMMA RefPerformMount ==
  ASSUME IInv, PerformMount
  PROVE  Ledger!Next
<1>1. PICK m \in MountDecl :
        /\ MountAttempted(m)
        /\ hostMounts' = IF dryRun THEN hostMounts
                         ELSE [hostMounts EXCEPT ![Dest(m.dir)] = @ + 1]
        /\ cursor' = cursor + 1
        /\ UNCHANGED <<decls, ignore, phase, stateFile, manifest>>
  BY DEF PerformMount
<1>2. /\ OwedF' = [OwedF EXCEPT ![Dest(m.dir)] = @ + 1]
      /\ ListedF' = ListedF
  BY <1>1, RefAdvance DEF MountAttempted, SetupAt
<1>3. CASE dryRun
  <2>1. Ledger!Skip(Dest(m.dir))
    BY <1>1, <1>2, <1>3 DEF MountAttempted, SetupAt, Ledger!Skip, OwedF,
                           ListedF
  <2> QED
    BY <2>1 DEF Ledger!Next, MountDecl, Dests
<1>4. CASE ~dryRun
  <2>1. Ledger!Mount(Dest(m.dir))
    BY <1>1, <1>2, <1>4 DEF MountAttempted, SetupAt, Ledger!Mount, OwedF,
                           ListedF
  <2> QED
    BY <2>1 DEF Ledger!Next, MountDecl, Dests
<1> QED
  BY <1>3, <1>4

(* mkdir or mount(2) fails: the failed create still owes what it mounted.  *)
LEMMA RefSetupFails ==
  ASSUME IInv, MkdirFails \/ PerformMountFails
  PROVE  Ledger!Next
<1>1. /\ phase = "setup" /\ phase' = "setupFailed"
      /\ UNCHANGED <<decls, ignore, cursor, hostMounts, stateFile, manifest>>
  BY DEF MkdirFails, PerformMountFails, MountAttempted, SetupAt
<1>2. OwedF' = OwedF /\ ListedF' = ListedF
  BY <1>1 DEF OwedF, Owed, Made, ListedF, Listed, Pending
<1> QED
  BY <1>1, <1>2 DEF Ledger!Next, Ledger!SetupFail, OwedF, ListedF

(***************************************************************************)
(* create persists clr_oci_mounts_to_json: the list names each destination *)
(* exactly as often as the setup loop handled it.                          *)
(***************************************************************************)
LEMMA RefSetupDone ==
  ASSUME IInv, SetupDone
  PROVE  Ledger!Next
<1>1. /\ phase = "setup" /\ phase' = "created"
      /\ cursor = Len(decls) + 1
      /\ stateFile'
      /\ manifest' = MountsToJson
      /\ UNCHANGED <<decls, ignore, cursor, hostMounts>>
  BY DEF SetupDone, IInv, SetupInv, TypeOK
<1>2. Len(MountsToJson) = Len(decls)
  BY DEF MountsToJson, IInv, TypeOK
<1>3. \A d \in Dests : Pending(d, 1)' = Made(d)
  BY <1>1, <1>2, NullNotDest DEF Pending, Made, MountsToJson
<1>4. OwedF' = OwedF
  BY <1>1, <1>3 DEF OwedF, Owed
<1>5. ListedF' = OwedF
  BY <1>1, <1>3 DEF OwedF, Owed, ListedF, Listed
<1> QED
  BY <1>1, <1>4, <1>5 DEF Ledger!Next, Ledger!Persist, OwedF, ListedF

(* A stop starts at the head of the list: it owes the whole list.          *)
LEMMA RefStopBegin ==
  ASSUME IInv, StopBegin
  PROVE  Ledger!Next
<1>1. /\ phase \in {"created", "stopFailed"} /\ phase' = "stopping"
      /\ stateFile /\ cursor' = 1
      /\ UNCHANGED <<manifest, hostMounts, stateFile>>
  BY DEF StopBegin
<1>2. OwedF' = ListedF /\ ListedF' = ListedF
  BY <1>1 DEF OwedF, Owed, ListedF, Listed, Pending
<1> QED
  BY <1>1, <1>2 DEF Ledger!Next, Ledger!Begin, OwedF, ListedF

(* The unmount loop passes a NULL entry: nothing owed changes.             *)
LEMMA RefUnmountIgnored ==
  ASSUME IInv, UnmountIgnored
  PROVE  UNCHANGED LV
<1>1. /\ phase = "stopping" /\ phase' = "stopping"
      /\ cursor <= Len(manifest) /\ manifest[cursor] = NULL
      /\ cursor' = cursor + 1
      /\ UNCHANGED <<manifest, hostMounts, stateFile>>
  BY DEF UnmountIgnored
<1>2. \A d \in Dests : Pending(d, cursor)' = Pending(d, cursor)
  BY <1>1, NullNotDest DEF Pending, IInv, TypeOK
<1>3. OwedF' = OwedF /\ ListedF' = ListedF
  BY <1>1, <1>2 DEF OwedF, Owed, ListedF, Listed, Pending
<1> QED
  BY <1>1, <1>3 DEF LV

(* umount(dest) succeeds: one mount fewer, and one fewer owed, on dest.   *)
LEMMA RefPerformUnmount ==
  ASSUME IInv, PerformUnmount
  PROVE  Ledger!Next
<1>1. PICK d0 \in Dests :
        /\ phase = "stopping"
        /\ cursor <= Len(manifest)
        /\ d0 = manifest[cursor]
        /\ hostMounts[d0] > 0
        /\ hostMounts' = [hostMounts EXCEPT ![d0] = @ - 1]
        /\ cursor' = cursor + 1
        /\ UNCHANGED <<phase, stateFile, manifest>>
  BY DEF PerformUnmount, TeardownAt
<1>2. cursor \in Int /\ Len(manifest) \in Int
  BY DEF IInv, TypeOK
<1>3. \A d \in Dests : Owed(d)' = IF d = d0 THEN Owed(d) - 1 ELSE Owed(d)
  <2> SUFFICES ASSUME NEW d \in Dests
               PROVE  Owed(d)' = IF d = d0 THEN Owed(d) - 1 ELSE Owed(d)
    OBVIOUS
  <2>1. Pending(d, cursor) \subseteq cursor..Len(manifest)
    BY DEF Pending
  <2>2. CASE d = d0
    <3>1. Pending(d, cursor)' = Pending(d, cursor) \ {cursor}
      BY <1>1, <2>2 DEF Pending, IInv, TypeOK
    <3>2. cursor \in Pending(d, cursor)
      BY <1>1, <2>2 DEF Pending, IInv, TypeOK
    <3>3. Cardinality(Pending(d, cursor) \ {cursor})
            = Cardinality(Pending(d, cursor)) - 1
      BY <2>1, <3>2, <1>2, CardRemove
    <3> QED
      BY <1>1, <2>2, <3>1, <3>3 DEF Owed
  <2>3. CASE d /= d0
    <3>1. Pending(d, cursor)' = Pending(d, cursor)
      BY <1>1, <2>3 DEF Pending, IInv, TypeOK
    <3> QED
      BY <1>1, <2>3, <3>1 DEF Owed
  <2> QED
    BY <2>2, <2>3
<1>4. Owed(d0) > 0
  <2>1. cursor \in Pending(d0, cursor)
    BY <1>1 DEF Pending, IInv, TypeOK
  <2>2. Pending(d0, cursor) \subseteq cursor..Len(manifest)
    BY DEF Pending
  <2>3. /\ Cardinality(Pending(d0, cursor) \ {cursor})
             = Cardinality(Pending(d0, cursor)) - 1
        /\ Cardinality(Pending(d0, cursor)) \in Nat
    BY <2>1, <2>2, <1>2, CardRemove
  <2>4. Cardinality(Pending(d0, cursor) \ {cursor}) \in Nat
    BY <2>2, <1>2, CardMono
  <2> QED
    BY <1>1, <2>3, <2>4 DEF Owed
<1>5. OwedF' = [OwedF EXCEPT ![d0] = @ - 1]
  BY <1>3 DEF OwedF
<1>6. ListedF' = ListedF
  BY <1>1 DEF ListedF, Listed, Pending
<1>7. Ledger!Unmount(d0)
  BY <1>1, <1>4, <1>5, <1>6 DEF Ledger!Unmount, OwedF, ListedF
<1> QED
  BY <1>7 DEF Ledger!Next

(* umount fails: the state file remains, and so does its whole list.       *)
LEMMA RefPerformUnmountFails ==
  ASSUME IInv, PerformUnmountFails
  PROVE  Ledger!Next
<1>1. /\ phase = "stopping" /\ phase' = "stopFailed"
      /\ UNCHANGED <<manifest, hostMounts, stateFile, cursor>>
  BY DEF PerformUnmountFails, TeardownAt
<1>2. stateFile
  BY <1>1 DEF IInv, StoppingInv
<1>3. OwedF' = ListedF /\ ListedF' = ListedF
  BY <1>1, <1>2 DEF OwedF, Owed, ListedF, Listed, Pending
<1> QED
  BY <1>1, <1>3 DEF Ledger!Next, Ledger!StopFail, OwedF, ListedF

(* The unmount loop ends: the rest of the list is empty, nothing is owed,  *)
(* and the state file is deleted.                                          *)
LEMMA RefTeardownDone ==
  ASSUME IInv, TeardownDone
  PROVE  Ledger!Next
<1>1. /\ phase = "stopping" /\ phase' = "stopped"
      /\ cursor > Len(manifest)
      /\ ~stateFile'
      /\ UNCHANGED <<manifest, hostMounts, cursor>>
  BY DEF TeardownDone
<1>2. \A d \in Dests : Pending(d, cursor) = {}
  BY <1>1 DEF Pending, IInv, TypeOK
<1>3. OwedF = Ledger!Zero
  BY <1>1, <1>2, FS_EmptySet DEF OwedF, Owed, Ledger!Zero
<1>4. OwedF' = OwedF
  BY <1>1 DEF OwedF, Owed, Pending
<1>5. ListedF' = Ledger!Zero
  BY <1>1 DEF ListedF, Listed, Ledger!Zero
<1> QED
  BY <1>1, <1>3, <1>4, <1>5 DEF Ledger!Next, Ledger!Finish, OwedF, ListedF

LEMMA RefStep == IInv /\ [Next]_vars => [Ledger!Next]_Ledger!lvars
<1> SUFFICES ASSUME IInv, [Next]_vars PROVE [Ledger!Next]_Ledger!lvars
  OBVIOUS
<1>1. CASE UNCHANGED vars
  BY <1>1 DEF vars, Ledger!lvars, OwedF, Owed, Made, ListedF, Listed, Pending
<1>2. UNCHANGED LV => UNCHANGED Ledger!lvars
  BY DEF LV, Ledger!lvars, OwedF, ListedF
<1> QED
  BY <1>1, <1>2, RefMountIgnored, RefSourceMissing, RefPerformMount, RefSetupFails,
     RefSetupDone, RefStopBegin, RefUnmountIgnored, RefPerformUnmount,
     RefPerformUnmountFails, RefTeardownDone DEF Next

(***************************************************************************)
(* Every behaviour of the mount resolver (create's mount loop, persisting  *)
(* the list, failed and retried stops) is a behaviour of the ledger, so    *)
(* the ledger's promise (MountLedgerProofs!LedgerSafe) holds of it.        *)
(***************************************************************************)
THEOREM Refinement == Spec => ImplementsLedger
<1>1. Spec => []IInv
  BY InitIInv, NextIInv, PTL DEF Spec
<1> QED
  BY <1>1, RefInit, RefStep, PTL DEF Spec, ImplementsLedger, Ledger!Spec

=============================================================================
