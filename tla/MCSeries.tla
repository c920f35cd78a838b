------------------------------ MODULE MCSeries ------------------------------
(***************************************************************************)
(* Instances of Series for TLC.                                            *)
(***************************************************************************)
EXTENDS Series

CONSTANTS o1, o2
=============================================================================
