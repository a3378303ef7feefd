------------------------- MODULE ConfigCheckProofs -------------------------
(***************************************************************************)
(* The version check follows semantic-version precedence, for every set of *)
(* versions a config.json may declare and every ASCII table.  The argument *)
(* has three layers: the first position where two lists differ exists and  *)
(* is unique (FirstDiffExists, FirstDiffUnique); the loop comparison of    *)
(* core and pre-release lists agrees with the loop-free reading of the     *)
(* precedence rules (CmpCoreSpec, CmpPreSpec); and so the check's sign     *)
(* test accepts exactly what the supported version does not precede.       *)
(***************************************************************************)
EXTENDS ConfigCheck, WellFoundedInduction, SequenceTheorems, TLAPS

-----------------------------------------------------------------------------
(* Lists that differ somewhere differ at a first position.                 *)
LEMMA FirstDiffExists ==
  ASSUME NEW X, NEW s \in Seq(X), NEW t \in Seq(X),
         NEW k \in 1..MinLen(s, t), s[k] /= t[k]
  PROVE  Differs(s, t)
<1> DEFINE T == {i \in 1..MinLen(s, t) : s[i] /= t[i]}
           R == OpToRel(<, Nat)
<1>1. MinLen(s, t) \in Nat
  BY DEF MinLen
<1>2. T \subseteq Nat /\ T /= {}
  BY <1>1 DEF T
<1>3. PICK x \in T : \A y \in T : ~(<<y, x>> \in R)
  BY <1>2, NatLessThanWellFounded, WFMin DEF R
<1>4. \A j \in 1..(x - 1) : s[j] = t[j]
  <2> SUFFICES ASSUME NEW j \in 1..(x - 1), s[j] /= t[j] PROVE FALSE
    OBVIOUS
  <2>0. x \in 1..MinLen(s, t)
    BY <1>3 DEF T
  <2>1. j \in T
    BY <1>1, <2>0 DEF T
  <2>2. <<j, x>> \in R
    BY <1>1, <1>3 DEF OpToRel, R, T
  <2> QED
    BY <1>3, <2>1, <2>2
<1> QED
  BY <1>1, <1>3, <1>4 DEF Differs, DiffAt, T

(* Lists that differ nowhere agree on their common part.                   *)
LEMMA NoDiffAgree ==
  ASSUME NEW X, NEW s \in Seq(X), NEW t \in Seq(X), ~Differs(s, t)
  PROVE  \A j \in 1..MinLen(s, t) : s[j] = t[j]
BY FirstDiffExists

(* The first position where two lists differ is the only one with no      *)
(* difference before it.                                                   *)
LEMMA FirstDiffUnique ==
  ASSUME NEW X, NEW s \in Seq(X), NEW t \in Seq(X), Differs(s, t)
  PROVE  /\ FirstDiff(s, t) \in 1..MinLen(s, t)
         /\ DiffAt(s, t, FirstDiff(s, t))
         /\ \A k \in 1..MinLen(s, t) : DiffAt(s, t, k) => k = FirstDiff(s, t)
<1>1. FirstDiff(s, t) \in 1..MinLen(s, t) /\ DiffAt(s, t, FirstDiff(s, t))
  BY DEF Differs, FirstDiff
<1>2. ASSUME NEW k \in 1..MinLen(s, t), DiffAt(s, t, k)
      PROVE  k = FirstDiff(s, t)
  BY <1>1, <1>2 DEF DiffAt, MinLen
<1> QED
  BY <1>1, <1>2

-----------------------------------------------------------------------------
(* An alphanumeric identifier has a rank, the position of its ASCII entry. *)
LEMMA AsciiRankType ==
  ASSUME NEW a \in AlnumSet
  PROVE  AsciiRank(a) \in Nat /\ AlnumIdents[AsciiRank(a)] = a
BY AlnumAssumption DEF AlnumSet, AsciiRank

(* Numeric identifiers are numbers; alphanumeric ones are not.             *)
LEMMA IsNumIdent ==
  ASSUME NEW x \in Idents
  PROVE  /\ IsNum(x) => x \in [num : Nat]
         /\ ~IsNum(x) => x \in [alnum : AlnumSet]
BY DEF Idents, IsNum

(***************************************************************************)
(* Comparing two identifiers gives a negative result exactly when the     *)
(* first ranks lower, and no identifier ranks lower than itself.           *)
(***************************************************************************)
LEMMA CmpIdentSpec ==
  ASSUME NEW x \in Idents, NEW y \in Idents
  PROVE  /\ CmpIdent(x, y) < 0 <=> IdentLess(x, y)
         /\ ~IdentLess(x, x)
<1>0. ~IdentLess(x, x)
  <2>1. CASE IsNum(x)
    BY <2>1, IsNumIdent DEF IdentLess
  <2>2. CASE ~IsNum(x)
    BY <2>2, IsNumIdent, AsciiRankType DEF IdentLess
  <2> QED
    BY <2>1, <2>2
<1>1. CASE IsNum(x) /\ IsNum(y)
  BY <1>0, <1>1, IsNumIdent DEF CmpIdent, IdentLess, Sign
<1>2. CASE IsNum(x) /\ ~IsNum(y)
  BY <1>0, <1>2 DEF CmpIdent, IdentLess
<1>3. CASE ~IsNum(x) /\ IsNum(y)
  BY <1>0, <1>3 DEF CmpIdent, IdentLess
<1>4. CASE ~IsNum(x) /\ ~IsNum(y)
  <2>1. AsciiRank(x.alnum) \in Nat /\ AsciiRank(y.alnum) \in Nat
    BY <1>4, IsNumIdent, AsciiRankType
  <2> QED
    BY <1>0, <1>4, <2>1 DEF CmpIdent, IdentLess, Sign
<1> QED
  BY <1>0, <1>1, <1>2, <1>3, <1>4

-----------------------------------------------------------------------------
(***************************************************************************)
(* The pre-release comparison is negative exactly when, at the first       *)
(* identifier where the lists differ, the first list's ranks lower, or the *)
(* first list is a proper prefix of the second.                            *)
(***************************************************************************)
LEMMA CmpPreSpec ==
  ASSUME NEW p \in Seq(Idents), NEW q \in Seq(Idents)
  PROVE  CmpPre(p, q) < 0 <=>
           FirstDiffLess(p, q, IdentLess) \/ ProperPrefix(p, q)
<1>1. CASE Differs(p, q)
  <2> DEFINE i == FirstDiff(p, q)
  <2>1. /\ i \in 1..MinLen(p, q)
        /\ DiffAt(p, q, i)
        /\ \A k \in 1..MinLen(p, q) : DiffAt(p, q, k) => k = i
    BY <1>1, FirstDiffUnique
  <2>2. p[i] \in Idents /\ q[i] \in Idents
    BY <2>1 DEF MinLen
  <2>3. CmpPre(p, q) = CmpIdent(p[i], q[i])
    BY <1>1 DEF CmpPre
  <2>4. ~ProperPrefix(p, q)
    BY <2>1 DEF ProperPrefix, MinLen, DiffAt
  <2>5. IdentLess(p[i], q[i]) => FirstDiffLess(p, q, IdentLess)
    BY <2>1 DEF FirstDiffLess, DiffAt, MinLen
  <2>6. ASSUME FirstDiffLess(p, q, IdentLess) PROVE IdentLess(p[i], q[i])
    <3>1. PICK k \in 1..Len(p) :
                 /\ k <= Len(q)
                 /\ \A j \in 1..(k - 1) : p[j] = q[j]
                 /\ IdentLess(p[k], q[k])
      BY <2>6 DEF FirstDiffLess
    <3>2. p[k] \in Idents
      OBVIOUS
    <3>3. p[k] /= q[k]
      BY <3>1, <3>2, CmpIdentSpec
    <3>4. k \in 1..MinLen(p, q) /\ DiffAt(p, q, k)
      BY <3>1, <3>3 DEF DiffAt, MinLen
    <3> QED
      BY <2>1, <3>1, <3>4
  <2> QED
    BY <2>2, <2>3, <2>4, <2>5, <2>6, CmpIdentSpec
<1>2. CASE ~Differs(p, q)
  <2>1. \A j \in 1..MinLen(p, q) : p[j] = q[j]
    BY <1>2, NoDiffAgree
  <2>2. CmpPre(p, q) = Sign(Len(p), Len(q))
    BY <1>2 DEF CmpPre
  <2>3. ~FirstDiffLess(p, q, IdentLess)
    <3> SUFFICES ASSUME NEW k \in 1..Len(p), k <= Len(q),
                        IdentLess(p[k], q[k])
                 PROVE  FALSE
      BY DEF FirstDiffLess
    <3>1. p[k] = q[k] /\ p[k] \in Idents
      BY <2>1 DEF MinLen
    <3> QED
      BY <3>1, CmpIdentSpec
  <2>4. ProperPrefix(p, q) <=> Len(p) < Len(q)
    BY <2>1 DEF ProperPrefix, MinLen
  <2> QED
    BY <2>2, <2>3, <2>4 DEF Sign
<1> QED
  BY <1>1, <1>2

(***************************************************************************)
(* The core comparison is zero exactly for equal cores, and negative       *)
(* exactly when the first part where they differ is smaller.               *)
(***************************************************************************)
LEMMA CmpCoreSpec ==
  ASSUME NEW c \in [1..3 -> Nat], NEW d \in [1..3 -> Nat]
  PROVE  /\ CmpCore(c, d) < 0 <=> FirstDiffLess(c, d, NatLess)
         /\ CmpCore(c, d) = 0 <=> c = d
<1>0. c \in Seq(Nat) /\ d \in Seq(Nat) /\ Len(c) = 3 /\ Len(d) = 3
  <2>1. c \in Seq(Nat) /\ d \in Seq(Nat)
    <3>1. \E n \in Nat : c \in [1..n -> Nat] /\ d \in [1..n -> Nat]
      OBVIOUS
    <3> QED
      BY <3>1, SeqDef
  <2>2. ASSUME NEW e \in [1..3 -> Nat], e \in Seq(Nat) PROVE Len(e) = 3
    <3>1. Len(e) \in Nat /\ DOMAIN e = 1..Len(e)
      BY <2>2, LenProperties
    <3>2. 3 \in 1..Len(e) /\ Len(e) \in 1..3
      BY <3>1
    <3> QED
      BY <3>1, <3>2
  <2> QED
    BY <2>1, <2>2
<1>1. CASE Differs(c, d)
  <2> DEFINE i == FirstDiff(c, d)
  <2>1. /\ i \in 1..MinLen(c, d)
        /\ DiffAt(c, d, i)
        /\ \A k \in 1..MinLen(c, d) : DiffAt(c, d, k) => k = i
    BY <1>0, <1>1, FirstDiffUnique
  <2>2. CmpCore(c, d) = Sign(c[i], d[i]) /\ c[i] /= d[i] /\ i \in 1..3
    BY <1>0, <1>1, <2>1 DEF CmpCore, DiffAt, MinLen
  <2>3. FirstDiffLess(c, d, NatLess) <=> c[i] < d[i]
    <3>1. c[i] < d[i] => FirstDiffLess(c, d, NatLess)
      BY <1>0, <2>1 DEF FirstDiffLess, DiffAt, MinLen, NatLess
    <3>2. ASSUME FirstDiffLess(c, d, NatLess) PROVE c[i] < d[i]
      <4>1. PICK k \in 1..Len(c) :
                   /\ k <= Len(d)
                   /\ \A j \in 1..(k - 1) : c[j] = d[j]
                   /\ c[k] < d[k]
        BY <3>2 DEF FirstDiffLess, NatLess
      <4>2. k \in 1..MinLen(c, d) /\ DiffAt(c, d, k)
        BY <1>0, <4>1 DEF DiffAt, MinLen
      <4> QED
        BY <2>1, <4>1, <4>2
    <3> QED
      BY <3>1, <3>2
  <2> QED
    BY <2>2, <2>3 DEF Sign
<1>2. CASE ~Differs(c, d)
  <2>1. \A j \in 1..3 : c[j] = d[j]
    BY <1>0, <1>2, NoDiffAgree DEF MinLen
  <2>2. c = d
    BY <2>1
  <2>3. CmpCore(c, d) = 0
    BY <1>0, <1>2 DEF CmpCore, Sign
  <2>4. ~FirstDiffLess(c, d, NatLess)
    BY <1>0, <2>2 DEF FirstDiffLess, NatLess
  <2> QED
    BY <2>2, <2>3, <2>4
<1> QED
  BY <1>1, <1>2

-----------------------------------------------------------------------------
(***************************************************************************)
(* clr_oci_semver_cmp(a, b) is negative exactly when a precedes b: core    *)
(* first, then a release above its pre-releases, then the pre-release      *)
(* lists.                                                                  *)
(***************************************************************************)
LEMMA SemverCmpSpec ==
  ASSUME NEW a \in VersionSet, NEW b \in VersionSet
  PROVE  SemverCmp(a, b) < 0 <=> Precedes(a, b)
<1>1. /\ a.core \in [1..3 -> Nat] /\ b.core \in [1..3 -> Nat]
      /\ a.pre \in Seq(Idents) /\ b.pre \in Seq(Idents)
  BY DEF VersionSet
<1>2. CASE CmpCore(a.core, b.core) /= 0
  <2>1. a.core /= b.core
    BY <1>1, <1>2, CmpCoreSpec
  <2>2. SemverCmp(a, b) = CmpCore(a.core, b.core)
    BY <1>2 DEF SemverCmp
  <2> QED
    BY <1>1, <2>1, <2>2, CmpCoreSpec DEF Precedes
<1>3. CASE CmpCore(a.core, b.core) = 0
  <2>1. a.core = b.core /\ ~FirstDiffLess(a.core, b.core, NatLess)
    BY <1>1, <1>3, CmpCoreSpec
  <2>2. CASE a.pre = <<>> /\ b.pre = <<>>
    BY <1>3, <2>1, <2>2 DEF SemverCmp, Precedes
  <2>3. CASE a.pre = <<>> /\ b.pre /= <<>>
    BY <1>3, <2>1, <2>3 DEF SemverCmp, Precedes
  <2>4. CASE a.pre /= <<>> /\ b.pre = <<>>
    BY <1>3, <2>1, <2>4 DEF SemverCmp, Precedes
  <2>5. CASE a.pre /= <<>> /\ b.pre /= <<>>
    <3>1. SemverCmp(a, b) = CmpPre(a.pre, b.pre)
      BY <1>3, <2>5 DEF SemverCmp
    <3> QED
      BY <1>1, <2>1, <2>5, <3>1, CmpPreSpec DEF Precedes
  <2> QED
    BY <2>2, <2>3, <2>4, <2>5
<1> QED
  BY <1>2, <1>3

(* Every comparison the check makes yields -1, 0 or 1.                     *)
LEMMA SemverCmpRange ==
  ASSUME NEW a, NEW b
  PROVE  SemverCmp(a, b) \in {-1, 0, 1}
<1>1. \A x, y : Sign(x, y) \in {-1, 0, 1}
  BY DEF Sign
<1>2. \A x, y : CmpIdent(x, y) \in {-1, 0, 1}
  BY <1>1 DEF CmpIdent
<1>3. CmpCore(a.core, b.core) \in {-1, 0, 1} /\ CmpPre(a.pre, b.pre) \in {-1, 0, 1}
  BY <1>1, <1>2 DEF CmpCore, CmpPre
<1> QED
  BY <1>3 DEF SemverCmp

-----------------------------------------------------------------------------
TypeOK ==
  /\ configSet \in BOOLEAN
  /\ version \in Versions \cup {NoVersion}
  /\ done \in BOOLEAN
  /\ ret \in BOOLEAN

(* CLR_OCI_SUPPORTED_SPEC_VERSION parses to a version.                     *)
LEMMA SupportedVersionType == SupportedVersion \in VersionSet
<1>1. <<1, 0, 0>> \in [1..3 -> Nat]
  OBVIOUS
<1>2. <<[alnum |-> "rc1"]>> \in Seq(Idents)
  BY AlnumAssumption DEF Idents
<1> QED
  BY <1>1, <1>2 DEF SupportedVersion, VersionSet

(* The inductive invariant: the types, and the property itself.           *)
IInv == TypeOK /\ CheckFollowsPrecedence

LEMMA InitIInv == Init => IInv
BY DEF Init, IInv, TypeOK, CheckFollowsPrecedence

LEMMA NextIInv == IInv /\ [Next]_vars => IInv'
<1> SUFFICES ASSUME IInv, [Next]_vars PROVE IInv'
  OBVIOUS
<1> USE DEF IInv, TypeOK, CheckFollowsPrecedence, Return
<1>1. CASE ConfigNull
  BY <1>1 DEF ConfigNull
<1>2. CASE VersionMissing
  BY <1>2 DEF VersionMissing
<1>3. CASE VersionUnsupported \/ VersionSupported
  <2>1. version \in VersionSet
    BY <1>3, VersionsAssumption DEF VersionUnsupported, VersionSupported
  <2>2. SemverCmp(SupportedVersion, version) < 0
          <=> Precedes(SupportedVersion, version)
    BY <2>1, SupportedVersionType, SemverCmpSpec
  <2>3. CASE VersionUnsupported
    BY <2>2, <2>3 DEF VersionUnsupported
  <2>4. CASE VersionSupported
    BY <2>2, <2>4, SemverCmpRange DEF VersionSupported
  <2> QED
    BY <1>3, <2>3, <2>4
<1>4. CASE UNCHANGED vars
  BY <1>4 DEF vars
<1> QED
  BY <1>1, <1>2, <1>3, <1>4 DEF Next

(***************************************************************************)
(* For every set of versions and every ASCII table, clr_oci_config_check   *)
(* returns true exactly for a config that declares a version which the     *)
(* supported version does not precede under semantic-version precedence.  *)
(***************************************************************************)
THEOREM CheckFollowsPrecedenceHolds == Spec => []CheckFollowsPrecedence
<1>1. IInv => CheckFollowsPrecedence
  BY DEF IInv
<1> QED
  BY InitIInv, NextIInv, <1>1, PTL DEF Spec


(***************************************************************************)
(* The divergence the same_core_accepted run exhibits holds for every      *)
(* config: a bundle declaring the release of the supported core (1.0.0)    *)
(* is always rejected by clr_oci_config_check, because the supported       *)
(* constant is the pre-release 1.0.0-rc1, which that release follows.      *)
(***************************************************************************)
ReleaseOfSupportedRejected ==
  (/\ done /\ configSet /\ version /= NoVersion
   /\ version.core = SupportedVersion.core
   /\ version.pre = << >>) => ~ret

THEOREM ReleaseRejectedHolds == Spec => []ReleaseOfSupportedRejected
<1>1. IInv => ReleaseOfSupportedRejected
  <2> SUFFICES ASSUME IInv, done, configSet, version /= NoVersion,
                      version.core = SupportedVersion.core,
                      version.pre = << >>
               PROVE  ~ret
    BY DEF ReleaseOfSupportedRejected
  <2>1. Precedes(SupportedVersion, version)
    BY DEF Precedes, SupportedVersion
  <2> QED
    BY <2>1 DEF IInv, CheckFollowsPrecedence
<1> QED
  BY InitIInv, NextIInv, <1>1, PTL DEF Spec

=============================================================================
