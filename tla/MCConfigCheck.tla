--------------------------- MODULE MCConfigCheck ---------------------------
(***************************************************************************)
(* Versions for TLC: cores around the supported 1.0.0 (a lower and a      *)
(* higher major, minor and patch), and pre-release lists that are empty,   *)
(* equal to the supported "rc1", alphanumerically below and above it,     *)
(* numeric, longer, and a prefix of it.                                    *)
(***************************************************************************)
EXTENDS ConfigCheck

MCCores == {<<a, b, c>> : a \in 0..2, b \in 0..1, c \in 0..1}

N(n) == [num |-> n]
A(s) == [alnum |-> s]

MCPres == {<<>>, <<A("rc1")>>, <<A("rc2")>>, <<A("alpha")>>, <<A("rc")>>,
           <<N(1)>>, <<A("rc"), N(1)>>, <<A("rc1"), N(0)>>}

MCVersions == [core : MCCores, pre : MCPres]

(* ASCII order: "alpha" < "rc" < "rc1" < "rc2".                           *)
MCAlnumIdents == <<"alpha", "rc", "rc1", "rc2">>
=============================================================================
