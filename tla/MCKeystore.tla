----------------------------- MODULE MCKeystore -----------------------------
(***************************************************************************)
(* The instances of Keystore that TLC checks; the constants are given by   *)
(* MCKeystore.cfg (one daemon whose writes may fail), ClaimActive.cfg (the *)
(* same) and ClaimFlock.cfg (two daemons on one file).  Three names and    *)
(* three URLs for at most two keys make every refusal and the bound        *)
(* itself happen.                                                          *)
(***************************************************************************)
EXTENDS Keystore, TLC

\* Names and URLs have no identity.
Interchangeable == Permutations(Names) \cup Permutations(Urls)

\* Bound: keys in doubt at the same time (an unanswered rename leaves two).
FewDoubts == Cardinality(doubt) <= 4
=============================================================================
