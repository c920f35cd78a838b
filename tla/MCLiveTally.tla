---------------------------- MODULE MCLiveTally ----------------------------
(***************************************************************************)
(* Instances of LiveTally for TLC.                                         *)
(***************************************************************************)
EXTENDS LiveTally, TLC

CONSTANTS v1, v2, v3, s1, s2, s3, a, b

OneOrTwo == {a :> 1 @@ b :> 0, a :> 1 @@ b :> 1}

\* A multi_choice answer may name an option twice.
Twice == {a :> 1 @@ b :> 0, a :> 1 @@ b :> 2}

LiveSymmetry == Permutations({v1, v2, v3}) \cup Permutations({s1, s2, s3})
=============================================================================
