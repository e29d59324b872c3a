------------------------- MODULE MCUnreachableError -------------------------
(* Two label names in three toolchains; the include file is claimed by up *)
(* to four distinct targets, in every file map order, at least one in the *)
(* includer's toolchain (CheckInclude returns early otherwise, lines      *)
(* 459-467). Four claims give two adjacent erasures and an erasure at the *)
(* end of the list.                                                        *)
EXTENDS UnreachableError

Toolchains == {"host", "arm", "x86"}

AllLabels == [name : {"a", "b"}, toolchain : Toolchains]

MCClaims ==
  {s \in UNION {SetToSeqs(S) : S \in {S \in SUBSET AllLabels : Cardinality(S) \in 1..4}} :
     \E k \in DOMAIN s : s[k].toolchain = "host"}
=============================================================================
