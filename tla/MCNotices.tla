------------------------------ MODULE MCNotices ------------------------------
(***************************************************************************)
(* Instances of Notices for TLC.                                           *)
(***************************************************************************)
EXTENDS Notices, TLC

CONSTANTS n1, n2, phone

OnePhone == phone :> "expo"
EmailOrAll == {{"email"}, Channels}
=============================================================================
