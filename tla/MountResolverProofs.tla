------------------------ MODULE MountResolverProofs ------------------------
(***************************************************************************)
(* Theorems about MountResolver, for every value of the constants.         *)
(***************************************************************************)
EXTENDS MountResolver, FiniteSetTheorems, TLAPS

(* A declaration list drawn by Init is a sequence of mount declarations.   *)
LEMMA BoundedSeqIsSeq ==
  ASSUME NEW S, NEW n \in Nat, NEW s \in BoundedSeq(S, n)
  PROVE  s \in Seq(S)
BY DEF BoundedSeq, SeqOf

(***************************************************************************)
(* Type correctness: every step of create's mount loop, of the persisting  *)
(* of the mount list and of stop's unmount loop keeps each variable in its *)
(* type; in particular the loop cursor stays a positive index and no       *)
(* unmount drives a destination's mount count below zero.                  *)
(***************************************************************************)
(* The initial states are well typed.                                     *)
LEMMA InitTypeOK == Init => TypeOK
<1>1. Init => TypeOK
  <2> SUFFICES ASSUME Init PROVE TypeOK
    OBVIOUS
  <2>1. decls \in Seq(MountDecl)
    BY MaxMountsAssumption, BoundedSeqIsSeq DEF Init
  <2>2. ignore \in [1..Len(decls) -> BOOLEAN]
    BY <2>1 DEF Init
  <2>3. hostMounts \in [Dests -> Nat]
    BY DEF Init
  <2>4. manifest \in Seq(Dests \cup {NULL})
    BY DEF Init
  <2>5. cursor \in Nat \ {0}
    BY SMT DEF Init
  <2>8. phase \in Phases
    BY Zenon DEF Init, Phases
  <2>9. stateFile \in BOOLEAN
    BY Zenon DEF Init
  <2>6. dryRun \in BOOLEAN /\ srcExists \in [Sources -> BOOLEAN]
    BY DEF Init
  <2>7. QED
    BY <2>1, <2>2, <2>3, <2>4, <2>5, <2>6, <2>8, <2>9 DEF TypeOK
<1> QED
  BY <1>1

(* Every step of the mount and unmount loops keeps the types.              *)
LEMMA NextTypeOK == TypeOK /\ [Next]_vars => TypeOK'
<1>2. TypeOK /\ [Next]_vars => TypeOK'
  <2> SUFFICES ASSUME TypeOK, [Next]_vars PROVE TypeOK'
    OBVIOUS
  <2>1. CASE MountIgnored
    BY <2>1 DEF MountIgnored, SetupAt, TypeOK
  <2>2. CASE MountSourceMissing
    BY <2>2 DEF MountSourceMissing, SetupAt, TypeOK
  <2>3. CASE MkdirFails
    BY <2>3 DEF MkdirFails, MountAttempted, SetupAt, TypeOK, Phases
  <2>4. CASE PerformMountFails
    BY <2>4 DEF PerformMountFails, MountAttempted, SetupAt, TypeOK, Phases
  <2>5. CASE PerformMount
    BY <2>5 DEF PerformMount, MountAttempted, SetupAt, TypeOK, MountDecl,
                Dests
  <2>6. CASE SetupDone
    <3>1. MountsToJson \in Seq(Dests \cup {NULL})
      <4>1. \A i \in 1..Len(decls) : decls[i].dir \in Dirs
        <5> SUFFICES ASSUME NEW i \in 1..Len(decls) PROVE decls[i].dir \in Dirs
          OBVIOUS
        <5>1. decls[i] \in MountDecl
          BY DEF TypeOK
        <5>2. QED
          BY <5>1, Zenon DEF MountDecl
      <4>2. \A i \in 1..Len(decls) :
               (IF ignore[i] THEN NULL ELSE Dest(decls[i].dir))
                 \in Dests \cup {NULL}
        BY <4>1 DEF Dests
      <4>3. QED
        BY <4>2 DEF MountsToJson, TypeOK
    <3>2. QED
      BY <2>6, <3>1 DEF SetupDone, TypeOK, Phases
  <2>7. CASE StopBegin
    BY <2>7 DEF StopBegin, TypeOK, Phases
  <2>8. CASE UnmountIgnored
    BY <2>8 DEF UnmountIgnored, TypeOK
  <2>9. CASE PerformUnmount
    BY <2>9 DEF PerformUnmount, TeardownAt, TypeOK
  <2>10. CASE PerformUnmountFails
    BY <2>10 DEF PerformUnmountFails, TeardownAt, TypeOK, Phases
  <2>11. CASE TeardownDone
    BY <2>11 DEF TeardownDone, TypeOK, Phases
  <2>12. CASE UNCHANGED vars
    BY <2>12 DEF vars, TypeOK
  <2>13. QED
    BY <2>1, <2>2, <2>3, <2>4, <2>5, <2>6, <2>7, <2>8, <2>9, <2>10, <2>11,
       <2>12 DEF Next
<1> QED
  BY <1>2

(***************************************************************************)
(* Type correctness: every step of create's mount loop, of the persisting  *)
(* of the mount list and of stop's unmount loop keeps each variable in its *)
(* type; in particular the loop cursor stays a positive index and no       *)
(* unmount drives a destination's mount count below zero.                  *)
(***************************************************************************)
THEOREM TypeCorrect == Spec => []TypeOK
BY InitTypeOK, NextTypeOK, PTL DEF Spec

-----------------------------------------------------------------------------
(***************************************************************************)
(* The strengthening of MountsRecorded and CleanStop.  During setup, the   *)
(* mounts on each destination are bounded by the mounts before the cursor  *)
(* that are not ignored (Made), and the declarations still ahead of the    *)
(* cursor are not yet marked ignored; once create persisted the list, the  *)
(* bound is the list, and during stop the part of it still ahead of the    *)
(* unmount cursor.                                                         *)
(***************************************************************************)

SetupInv ==
  phase = "setup" =>
    /\ cursor <= Len(decls) + 1
    /\ ~stateFile
    /\ \A i \in cursor..Len(decls) : ~ignore[i]
    /\ \A d \in Dests : hostMounts[d] <= Cardinality(Made(d))

FailedInv == phase = "setupFailed" => ~stateFile

CreatedInv ==
  phase \in {"created", "stopFailed"} =>
    /\ stateFile
    /\ \A d \in Dests : hostMounts[d] <= Cardinality(Pending(d, 1))

StoppingInv ==
  phase = "stopping" =>
    /\ stateFile
    /\ \A d \in Dests : hostMounts[d] <= Cardinality(Pending(d, cursor))

StoppedInv == phase = "stopped" => ~stateFile /\ \A d \in Dests : hostMounts[d] = 0

IInv ==
  /\ TypeOK
  /\ SetupInv
  /\ FailedInv
  /\ CreatedInv
  /\ StoppingInv
  /\ StoppedInv

(* A set of indices within an interval is finite, and no larger than a    *)
(* superset within the interval.                                           *)
LEMMA CardMono ==
  ASSUME NEW S, NEW T, NEW a \in Int, NEW b \in Int,
         T \subseteq a..b, S \subseteq T
  PROVE  /\ IsFiniteSet(S)
         /\ IsFiniteSet(T)
         /\ Cardinality(S) <= Cardinality(T)
         /\ Cardinality(S) \in Nat
         /\ Cardinality(T) \in Nat
<1>1. IsFiniteSet(a..b)
  BY FS_Interval
<1>2. IsFiniteSet(T)
  BY <1>1, FS_Subset
<1>3. IsFiniteSet(S) /\ Cardinality(S) <= Cardinality(T)
  BY <1>2, FS_Subset
<1> QED
  BY <1>2, <1>3, FS_CardinalityType

(* Adding a new index to such a set adds one to its size.                  *)
LEMMA CardAdd ==
  ASSUME NEW S, NEW x, NEW a \in Int, NEW b \in Int,
         S \subseteq a..b, x \notin S
  PROVE  Cardinality(S \cup {x}) = Cardinality(S) + 1
BY CardMono, FS_AddElement

(* Removing an index of such a set takes one from its size.                *)
LEMMA CardRemove ==
  ASSUME NEW S, NEW x, NEW a \in Int, NEW b \in Int,
         S \subseteq a..b, x \in S
  PROVE  /\ Cardinality(S \ {x}) = Cardinality(S) - 1
         /\ Cardinality(S) \in Nat
BY CardMono, FS_RemoveElement, FS_CardinalityType

LEMMA InitIInv == Init => IInv
<1> SUFFICES ASSUME Init PROVE IInv
  OBVIOUS
<1>1. TypeOK
  BY InitTypeOK
<1>3. SetupInv
  <2>1. \A d \in Dests : Made(d) = {}
    BY DEF Made, Init
  <2>2. \A i \in 1..Len(decls) : ~ignore[i]
    BY DEF Init
  <2>3. cursor <= Len(decls) + 1
    BY <1>1 DEF Init, TypeOK
  <2> QED
    BY <2>1, <2>2, <2>3, FS_EmptySet DEF SetupInv, Init
<1> QED
  BY <1>1, <1>3 DEF IInv, FailedInv, CreatedInv, StoppingInv, StoppedInv,
                   Init

(***************************************************************************)
(* The setup loop.  Marking the mount under the cursor ignored leaves the  *)
(* mounts made so far as they were.                                        *)
(***************************************************************************)
LEMMA MountIgnoredIInv ==
  ASSUME IInv, MountIgnored
  PROVE  IInv'
<1> USE DEF IInv
<1>1. TypeOK'
  BY NextTypeOK DEF Next
<1>2. /\ phase = "setup" /\ phase' = "setup"
      /\ cursor <= Len(decls) /\ cursor' = cursor + 1
      /\ ignore' = [ignore EXCEPT ![cursor] = TRUE]
      /\ UNCHANGED <<decls, hostMounts, stateFile>>
  BY DEF MountIgnored, SetupAt
<1>3. \A d \in Dests : Made(d)' = Made(d)
  BY <1>2 DEF Made, TypeOK
<1>4. SetupInv'
  BY <1>2, <1>3 DEF SetupInv, TypeOK
<1> QED
  BY <1>1, <1>2, <1>4 DEF FailedInv, CreatedInv, StoppingInv, StoppedInv

(* When the setup cursor moves past a mount not marked ignored, the mounts *)
(* made so far gain that index if the mount targets d, and keep the rest.  *)
LEMMA MadeAdvance ==
  ASSUME TypeOK, NEW d,
         cursor <= Len(decls), cursor' = cursor + 1,
         ~ignore[cursor], ignore' = ignore, decls' = decls
  PROVE  /\ Made(d) \subseteq Made(d)'
         /\ Made(d)' \subseteq 1..cursor
         /\ cursor \notin Made(d)
         /\ Dest(decls[cursor].dir) = d => Made(d)' = Made(d) \cup {cursor}
         /\ Dest(decls[cursor].dir) /= d => Made(d)' = Made(d)
BY DEF Made, TypeOK

(* stat() of an absolute source fails: the mount is skipped, unmarked.     *)
LEMMA MountSourceMissingIInv ==
  ASSUME IInv, MountSourceMissing
  PROVE  IInv'
<1> USE DEF IInv
<1>1. TypeOK'
  BY NextTypeOK DEF Next
<1>2. /\ phase = "setup" /\ phase' = "setup"
      /\ cursor <= Len(decls) /\ cursor' = cursor + 1
      /\ UNCHANGED <<decls, ignore, hostMounts, stateFile>>
  BY DEF MountSourceMissing, SetupAt
<1>3. ~ignore[cursor]
  BY <1>2 DEF SetupInv, TypeOK
<1>4. \A d \in Dests : hostMounts'[d] <= Cardinality(Made(d)')
  <2> SUFFICES ASSUME NEW d \in Dests
               PROVE  hostMounts'[d] <= Cardinality(Made(d)')
    OBVIOUS
  <2>1. Made(d) \subseteq Made(d)' /\ Made(d)' \subseteq 1..cursor
    BY <1>2, <1>3, MadeAdvance
  <2>2. /\ Cardinality(Made(d)) <= Cardinality(Made(d)')
        /\ Cardinality(Made(d)) \in Nat
        /\ Cardinality(Made(d)') \in Nat
    <3>1. cursor \in Int
      BY DEF TypeOK
    <3> QED
      BY <2>1, <3>1, CardMono
  <2> QED
    BY <1>2, <2>2 DEF SetupInv, TypeOK
<1>5. SetupInv'
  BY <1>2, <1>4 DEF SetupInv, TypeOK
<1> QED
  BY <1>1, <1>2, <1>5 DEF FailedInv, CreatedInv, StoppingInv, StoppedInv

(* mount(2) succeeds: the destination gains one mount, and the mounts     *)
(* made so far gain the index under the cursor (nothing in dry-run mode).  *)
LEMMA PerformMountIInv ==
  ASSUME IInv, PerformMount
  PROVE  IInv'
<1> USE DEF IInv
<1>1. TypeOK'
  BY NextTypeOK DEF Next
<1>2. PICK m \in MountDecl :
        /\ MountAttempted(m)
        /\ hostMounts' = IF dryRun THEN hostMounts
                         ELSE [hostMounts EXCEPT ![Dest(m.dir)] = @ + 1]
        /\ cursor' = cursor + 1
        /\ UNCHANGED <<decls, ignore, phase, stateFile, manifest, dryRun,
                       srcExists>>
  BY DEF PerformMount
<1>3. /\ phase = "setup"
      /\ cursor <= Len(decls)
      /\ m = decls[cursor]
  BY <1>2 DEF MountAttempted, SetupAt
<1>4. ~ignore[cursor]
  BY <1>2, <1>3 DEF SetupInv, TypeOK
<1>5. cursor \in Int
  BY DEF TypeOK
<1>6. \A d \in Dests : hostMounts'[d] <= Cardinality(Made(d)')
  <2> SUFFICES ASSUME NEW d \in Dests
               PROVE  hostMounts'[d] <= Cardinality(Made(d)')
    OBVIOUS
  <2>1. /\ Made(d) \subseteq Made(d)'
        /\ Made(d)' \subseteq 1..cursor
        /\ cursor \notin Made(d)
        /\ Dest(m.dir) = d => Made(d)' = Made(d) \cup {cursor}
    BY <1>2, <1>3, <1>4, MadeAdvance
  <2>2. /\ Cardinality(Made(d)) <= Cardinality(Made(d)')
        /\ Cardinality(Made(d)) \in Nat
        /\ Cardinality(Made(d)') \in Nat
    BY <2>1, <1>5, CardMono
  <2>3. hostMounts[d] <= Cardinality(Made(d))
    BY <1>3 DEF SetupInv
  <2>4. CASE dryRun \/ Dest(m.dir) /= d
    BY <1>2, <2>2, <2>3, <2>4 DEF TypeOK
  <2>5. CASE ~dryRun /\ Dest(m.dir) = d
    <3>1. Made(d) \subseteq 1..cursor
      BY <2>1
    <3>2. Cardinality(Made(d)') = Cardinality(Made(d)) + 1
      BY <2>1, <2>5, <3>1, <1>5, CardAdd
    <3> QED
      BY <1>2, <2>2, <2>3, <2>5, <3>2 DEF TypeOK
  <2> QED
    BY <2>4, <2>5
<1>7. SetupInv'
  BY <1>2, <1>3, <1>6 DEF SetupInv, TypeOK
<1> QED
  BY <1>1, <1>2, <1>3, <1>7 DEF FailedInv, CreatedInv, StoppingInv, StoppedInv

(* mkdir or mount(2) fails: setup stops, no state file is written.        *)
LEMMA SetupFailsIInv ==
  ASSUME IInv, MkdirFails \/ PerformMountFails
  PROVE  IInv'
<1> USE DEF IInv
<1>1. TypeOK'
  BY NextTypeOK DEF Next
<1>2. phase = "setup" /\ phase' = "setupFailed" /\ stateFile' = stateFile
  BY DEF MkdirFails, PerformMountFails, MountAttempted, SetupAt
<1> QED
  BY <1>1, <1>2 DEF SetupInv, FailedInv, CreatedInv, StoppingInv, StoppedInv

(***************************************************************************)
(* The loop ends and create persists clr_oci_mounts_to_json: the entries   *)
(* naming d are exactly the mounts made on d, because every other entry is *)
(* another destination or the NULL of an ignored mount.                    *)
(***************************************************************************)
LEMMA SetupDoneIInv ==
  ASSUME IInv, SetupDone
  PROVE  IInv'
<1> USE DEF IInv
<1>1. TypeOK'
  BY NextTypeOK DEF Next
<1>2. /\ phase = "setup" /\ phase' = "created"
      /\ cursor = Len(decls) + 1
      /\ stateFile'
      /\ manifest' = MountsToJson
      /\ UNCHANGED <<decls, ignore, cursor, hostMounts>>
  BY DEF SetupDone, SetupInv, TypeOK
<1>3. Len(MountsToJson) = Len(decls)
  BY DEF MountsToJson, TypeOK
<1>4. \A d \in Dests : Pending(d, 1)' = Made(d)
  BY <1>2, <1>3, NullNotDest DEF Pending, Made, MountsToJson
<1>5. \A d \in Dests : hostMounts'[d] <= Cardinality(Pending(d, 1)')
  BY <1>2, <1>4 DEF SetupInv
<1> QED
  BY <1>1, <1>2, <1>5 DEF SetupInv, FailedInv, CreatedInv, StoppingInv,
                          StoppedInv

(* stop starts (or restarts) the unmount loop at the head of the list.    *)
LEMMA StopBeginIInv ==
  ASSUME IInv, StopBegin
  PROVE  IInv'
<1> USE DEF IInv
<1>1. TypeOK'
  BY NextTypeOK DEF Next
<1>2. /\ phase \in {"created", "stopFailed"} /\ phase' = "stopping"
      /\ cursor' = 1
      /\ UNCHANGED <<manifest, hostMounts, stateFile>>
  BY DEF StopBegin
<1>3. \A d \in Dests : Pending(d, cursor)' = Pending(d, 1)
  BY <1>2 DEF Pending
<1> QED
  BY <1>1, <1>2, <1>3 DEF SetupInv, FailedInv, CreatedInv, StoppingInv,
                          StoppedInv

(* A NULL entry (an ignored mount) is passed over: it names no            *)
(* destination, so what is left of the list is the same for every d.      *)
LEMMA UnmountIgnoredIInv ==
  ASSUME IInv, UnmountIgnored
  PROVE  IInv'
<1> USE DEF IInv
<1>1. TypeOK'
  BY NextTypeOK DEF Next
<1>2. /\ phase = "stopping" /\ phase' = "stopping"
      /\ cursor <= Len(manifest) /\ manifest[cursor] = NULL
      /\ cursor' = cursor + 1
      /\ UNCHANGED <<manifest, hostMounts, stateFile>>
  BY DEF UnmountIgnored
<1>3. \A d \in Dests : Pending(d, cursor)' = Pending(d, cursor)
  BY <1>2, NullNotDest DEF Pending, TypeOK
<1> QED
  BY <1>1, <1>2, <1>3 DEF SetupInv, FailedInv, CreatedInv, StoppingInv,
                          StoppedInv

(* umount(dest) succeeds: one mount fewer on dest, and one entry naming   *)
(* dest fewer ahead of the cursor.                                        *)
LEMMA PerformUnmountIInv ==
  ASSUME IInv, PerformUnmount
  PROVE  IInv'
<1> USE DEF IInv
<1>1. TypeOK'
  BY NextTypeOK DEF Next
<1>2. PICK d0 \in Dests :
        /\ phase = "stopping"
        /\ cursor <= Len(manifest)
        /\ d0 = manifest[cursor]
        /\ hostMounts' = [hostMounts EXCEPT ![d0] = @ - 1]
        /\ cursor' = cursor + 1
        /\ UNCHANGED <<decls, ignore, phase, stateFile, manifest>>
  BY DEF PerformUnmount, TeardownAt
<1>3. cursor \in Int /\ Len(manifest) \in Int
  BY DEF TypeOK
<1>4. \A d \in Dests : hostMounts'[d] <= Cardinality(Pending(d, cursor)')
  <2> SUFFICES ASSUME NEW d \in Dests
               PROVE  hostMounts'[d] <= Cardinality(Pending(d, cursor)')
    OBVIOUS
  <2>1. hostMounts[d] <= Cardinality(Pending(d, cursor))
    BY <1>2 DEF StoppingInv
  <2>2. Pending(d, cursor) \subseteq cursor..Len(manifest)
    BY DEF Pending
  <2>3. CASE d = d0
    <3>1. Pending(d, cursor)' = Pending(d, cursor) \ {cursor}
      BY <1>2, <2>3 DEF Pending, TypeOK
    <3>2. cursor \in Pending(d, cursor)
      BY <1>2, <2>3 DEF Pending, TypeOK
    <3>3. /\ Cardinality(Pending(d, cursor) \ {cursor})
               = Cardinality(Pending(d, cursor)) - 1
          /\ Cardinality(Pending(d, cursor)) \in Nat
      BY <2>2, <3>2, <1>3, CardRemove
    <3>4. hostMounts'[d] = hostMounts[d] - 1 /\ hostMounts[d] \in Nat
      BY <1>2, <2>3 DEF TypeOK
    <3> QED
      BY <2>1, <3>1, <3>3, <3>4
  <2>4. CASE d /= d0
    <3>1. Pending(d, cursor)' = Pending(d, cursor)
      BY <1>2, <2>4 DEF Pending, TypeOK
    <3> QED
      BY <1>2, <2>1, <2>4, <3>1 DEF TypeOK
  <2> QED
    BY <2>3, <2>4
<1> QED
  BY <1>1, <1>2, <1>4 DEF SetupInv, FailedInv, CreatedInv, StoppingInv,
                          StoppedInv

(* umount fails and the loop returns: the bound falls back to the whole   *)
(* list, which holds at least what was left ahead of the cursor.          *)
LEMMA PerformUnmountFailsIInv ==
  ASSUME IInv, PerformUnmountFails
  PROVE  IInv'
<1> USE DEF IInv
<1>1. TypeOK'
  BY NextTypeOK DEF Next
<1>2. /\ phase = "stopping" /\ phase' = "stopFailed"
      /\ UNCHANGED <<manifest, hostMounts, stateFile, cursor>>
  BY DEF PerformUnmountFails, TeardownAt
<1>3. \A d \in Dests : hostMounts'[d] <= Cardinality(Pending(d, 1)')
  <2> SUFFICES ASSUME NEW d \in Dests
               PROVE  hostMounts'[d] <= Cardinality(Pending(d, 1)')
    OBVIOUS
  <2>1. /\ Pending(d, cursor) \subseteq Pending(d, 1)
        /\ Pending(d, 1) \subseteq 1..Len(manifest)
    BY DEF Pending, TypeOK
  <2>2. /\ Cardinality(Pending(d, cursor)) <= Cardinality(Pending(d, 1))
        /\ Cardinality(Pending(d, cursor)) \in Nat
        /\ Cardinality(Pending(d, 1)) \in Nat
    <3>1. Len(manifest) \in Int
      BY DEF TypeOK
    <3> QED
      BY <2>1, <3>1, CardMono
  <2>3. hostMounts[d] <= Cardinality(Pending(d, cursor)) /\ hostMounts[d] \in Nat
    BY <1>2 DEF StoppingInv, TypeOK
  <2> QED
    BY <1>2, <2>2, <2>3 DEF Pending
<1> QED
  BY <1>1, <1>2, <1>3 DEF SetupInv, FailedInv, CreatedInv, StoppingInv,
                          StoppedInv

(* The unmount loop ends: nothing is left ahead of the cursor, so nothing *)
(* is left mounted, and the state file is deleted.                         *)
LEMMA TeardownDoneIInv ==
  ASSUME IInv, TeardownDone
  PROVE  IInv'
<1> USE DEF IInv
<1>1. TypeOK'
  BY NextTypeOK DEF Next
<1>2. /\ phase = "stopping" /\ phase' = "stopped"
      /\ cursor > Len(manifest)
      /\ ~stateFile'
      /\ UNCHANGED <<manifest, hostMounts, cursor>>
  BY DEF TeardownDone
<1>3. \A d \in Dests : Pending(d, cursor) = {}
  BY <1>2 DEF Pending, TypeOK
<1>4. \A d \in Dests : hostMounts'[d] = 0
  <2> SUFFICES ASSUME NEW d \in Dests PROVE hostMounts'[d] = 0
    OBVIOUS
  <2>1. Cardinality(Pending(d, cursor)) = 0
    BY <1>3, FS_EmptySet
  <2>2. hostMounts[d] <= Cardinality(Pending(d, cursor)) /\ hostMounts[d] \in Nat
    BY <1>2 DEF StoppingInv, TypeOK
  <2> QED
    BY <1>2, <2>1, <2>2
<1> QED
  BY <1>1, <1>2, <1>4 DEF SetupInv, FailedInv, CreatedInv, StoppingInv,
                          StoppedInv

LEMMA NextIInv == IInv /\ [Next]_vars => IInv'
<1> SUFFICES ASSUME IInv, [Next]_vars PROVE IInv'
  OBVIOUS
<1>1. CASE UNCHANGED vars
  BY <1>1 DEF vars, IInv, TypeOK, SetupInv, FailedInv, CreatedInv,
              StoppingInv, StoppedInv, Made, Pending
<1> QED
  BY <1>1, MountIgnoredIInv, MountSourceMissingIInv, SetupFailsIInv,
     PerformMountIInv, SetupDoneIInv, StopBeginIInv, UnmountIgnoredIInv,
     PerformUnmountIInv, PerformUnmountFailsIInv, TeardownDoneIInv DEF Next

(***************************************************************************)
(* For every set of mounts, destinations and bound: while the state file   *)
(* exists, every mount the container has on the host is named by an entry  *)
(* of its mount list that stop has still to visit (MountsRecorded), and a  *)
(* stop that ran clr_oci_handle_unmounts to the end left nothing mounted   *)
(* (CleanStop).                                                            *)
(***************************************************************************)
THEOREM MountsRecordedHolds == Spec => []MountsRecorded
<1>1. IInv => MountsRecorded
  BY DEF IInv, MountsRecorded, SetupInv, FailedInv, CreatedInv, StoppingInv,
         StoppedInv, TypeOK, Phases
<1> QED
  BY InitIInv, NextIInv, <1>1, PTL DEF Spec

THEOREM CleanStopHolds == Spec => []CleanStop
<1>1. IInv => CleanStop
  BY DEF IInv, CleanStop, StoppedInv
<1> QED
  BY InitIInv, NextIInv, <1>1, PTL DEF Spec

=============================================================================
