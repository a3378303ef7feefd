---------------------------- MODULE ConfigCheck ----------------------------
(***************************************************************************)
(* The version check of a bundle's configuration (clr_oci_config_check,    *)
(* src/src/oci-config.c) and the semantic-version comparison it calls      *)
(* (clr_oci_semver_cmp, declared in src/src/semver.h; its code is not      *)
(* under src/ and is modelled from spec section 4.1: standard semver       *)
(* precedence).                                                            *)
(*                                                                         *)
(* A version string is kept parsed: its numeric core <<major, minor,       *)
(* patch>> and its pre-release identifiers, each a number [num |-> n] or   *)
(* an alphanumeric identifier [alnum |-> s].  Alphanumeric identifiers     *)
(* compare in ASCII order, which the constant AlnumIdents lists.           *)
(***************************************************************************)
EXTENDS Integers, Sequences

CONSTANTS
  Versions,     \* the parsed version strings a config.json may declare
  AlnumIdents,  \* the alphanumeric pre-release identifiers, in ASCII order
  NoVersion     \* config->oci.oci_version is NULL

VARIABLES
  configSet, \* the config pointer passed in is not NULL
  version,   \* config->oci.oci_version, parsed, or NoVersion
  done,      \* the check has returned
  ret        \* its gboolean result

vars == <<configSet, version, done, ret>>

(* CLR_OCI_SUPPORTED_SPEC_VERSION, "1.0.0-rc1".                            *)
SupportedVersion == [core |-> <<1, 0, 0>>, pre |-> <<[alnum |-> "rc1"]>>]

(* The alphanumeric identifiers, and the identifiers a pre-release list    *)
(* is made of.                                                             *)
AlnumSet == {AlnumIdents[i] : i \in DOMAIN AlnumIdents}

Idents == [num : Nat] \cup [alnum : AlnumSet]

ASSUME AlnumAssumption ==
  /\ AlnumIdents \in Seq(STRING)
  /\ "rc1" \in AlnumSet

(* A parsed version: <<major, minor, patch>> and its pre-release list.     *)
VersionSet == [core : [1..3 -> Nat], pre : Seq(Idents)]

ASSUME VersionsAssumption == Versions \subseteq VersionSet

IsNum(x) == "num" \in DOMAIN x

(* The rank of an alphanumeric identifier in ASCII order.                  *)
AsciiRank(x) == CHOOSE i \in DOMAIN AlnumIdents : AlnumIdents[i] = x

Sign(x, y) == IF x < y THEN -1 ELSE IF x > y THEN 1 ELSE 0

(***************************************************************************)
(* clr_oci_semver_cmp(a, b): negative, zero or positive as a has lower,    *)
(* equal or higher precedence than b.  The core compares numerically, part *)
(* by part; a version without pre-release is above one with; pre-release   *)
(* identifiers compare one by one (numbers numerically and below           *)
(* alphanumerics, alphanumerics in ASCII order), and a shorter list that   *)
(* is a prefix of a longer one is below it.  Both lists are walked in a    *)
(* loop that stops at the first position where they differ (FirstDiff), or *)
(* at the end of the shorter one.                                          *)
(***************************************************************************)
CmpIdent(x, y) ==
  IF IsNum(x) /\ IsNum(y) THEN Sign(x.num, y.num)
  ELSE IF IsNum(x) THEN -1
  ELSE IF IsNum(y) THEN 1
  ELSE Sign(AsciiRank(x.alnum), AsciiRank(y.alnum))

MinLen(s, t) == IF Len(s) <= Len(t) THEN Len(s) ELSE Len(t)

(* i is the first position where s and t differ.                           *)
DiffAt(s, t, i) == (\A j \in 1..(i - 1) : s[j] = t[j]) /\ s[i] /= t[i]

Differs(s, t) == \E i \in 1..MinLen(s, t) : DiffAt(s, t, i)

FirstDiff(s, t) == CHOOSE i \in 1..MinLen(s, t) : DiffAt(s, t, i)

CmpPre(p, q) ==
  IF Differs(p, q) THEN CmpIdent(p[FirstDiff(p, q)], q[FirstDiff(p, q)])
  ELSE Sign(Len(p), Len(q))

CmpCore(c, d) ==
  IF Differs(c, d) THEN Sign(c[FirstDiff(c, d)], d[FirstDiff(c, d)])
  ELSE Sign(Len(c), Len(d))

(* A faulty variant that ranks a pre-release above its release, kept to   *)
(* show that CheckFollowsPrecedence detects it.                            *)
SemverCmpPreAbove(a, b) ==
  IF CmpCore(a.core, b.core) /= 0 THEN CmpCore(a.core, b.core)
  ELSE IF a.pre = <<>> /\ b.pre = <<>> THEN 0
  ELSE IF a.pre = <<>> THEN -1
  ELSE IF b.pre = <<>> THEN 1
  ELSE CmpPre(a.pre, b.pre)

SemverCmp(a, b) ==
  IF CmpCore(a.core, b.core) /= 0 THEN CmpCore(a.core, b.core)
  ELSE IF a.pre = <<>> /\ b.pre = <<>> THEN 0
  ELSE IF a.pre = <<>> THEN 1
  ELSE IF b.pre = <<>> THEN -1
  ELSE CmpPre(a.pre, b.pre)

Init ==
  /\ configSet \in BOOLEAN
  /\ version \in Versions \cup {NoVersion}
  /\ done = FALSE
  /\ ret = FALSE

(* The check returns r.                                                    *)
Return(r) == done' = TRUE /\ ret' = r /\ UNCHANGED <<configSet, version>>

-----------------------------------------------------------------------------
(***************************************************************************)
(* clr_oci_config_check: one action per return.                            *)
(***************************************************************************)
ConfigNull ==
  /\ ~done
  /\ ~configSet
  /\ Return(FALSE)

(* "no OCI version specified".                                             *)
VersionMissing ==
  /\ ~done
  /\ configSet
  /\ version = NoVersion
  /\ Return(FALSE)

(* "cannot handle config version": the supported version is below it.     *)
VersionUnsupported ==
  /\ ~done
  /\ configSet
  /\ version /= NoVersion
  /\ SemverCmp(SupportedVersion, version) < 0
  /\ Return(FALSE)

VersionSupported ==
  /\ ~done
  /\ configSet
  /\ version /= NoVersion
  /\ SemverCmp(SupportedVersion, version) >= 0
  /\ Return(TRUE)

Next == ConfigNull \/ VersionMissing \/ VersionUnsupported \/ VersionSupported

Spec == Init /\ [][Next]_vars

-----------------------------------------------------------------------------
(***************************************************************************)
(* Properties.                                                             *)
(***************************************************************************)
(***************************************************************************)
(* Semantic-version precedence (semver 2.0.0, section 11), stated without  *)
(* a loop: a precedes b when at the first core part where they differ a's  *)
(* is smaller; or the cores are equal and a has a pre-release and b none;  *)
(* or both have one and, at the first identifier where they differ, a's is *)
(* lower, or a's identifiers are a proper prefix of b's.                   *)
(***************************************************************************)
IdentLess(x, y) ==
  \/ IsNum(x) /\ IsNum(y) /\ x.num < y.num
  \/ IsNum(x) /\ ~IsNum(y)
  \/ ~IsNum(x) /\ ~IsNum(y) /\ AsciiRank(x.alnum) < AsciiRank(y.alnum)

FirstDiffLess(s, t, Less(_, _)) ==
  \E i \in 1..Len(s) :
     /\ i <= Len(t)
     /\ \A j \in 1..(i - 1) : s[j] = t[j]
     /\ Less(s[i], t[i])

ProperPrefix(s, t) ==
  Len(s) < Len(t) /\ \A j \in 1..Len(s) : s[j] = t[j]

NatLess(x, y) == x < y

Precedes(a, b) ==
  \/ FirstDiffLess(a.core, b.core, NatLess)
  \/ /\ a.core = b.core
     /\ a.pre /= <<>>
     /\ \/ b.pre = <<>>
        \/ FirstDiffLess(a.pre, b.pre, IdentLess)
        \/ ProperPrefix(a.pre, b.pre)

(***************************************************************************)
(* Spec section 4.1: the check passes exactly when the config declares a   *)
(* version and the supported version does not have lower precedence than   *)
(* it.  This relates the code's comparison loop to the precedence rules.   *)
(***************************************************************************)
CheckFollowsPrecedence ==
  done =>
    (ret <=> /\ configSet
             /\ version /= NoVersion
             /\ ~Precedes(SupportedVersion, version))

(***************************************************************************)
(* Spec section 8: a configuration declaring a version with the same       *)
(* major.minor.patch as the supported constant passes the check.           *)
(***************************************************************************)
SameCoreAccepted ==
  (/\ done
   /\ configSet
   /\ version /= NoVersion
   /\ version.core = SupportedVersion.core) => ret

=============================================================================
