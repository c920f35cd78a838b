------------------------------ MODULE MCPolls ------------------------------
(***************************************************************************)
(* Instances of Polls for TLC.                                             *)
(***************************************************************************)
EXTENDS Polls, TLC

CONSTANTS p1, p2

AllHandlers == {"publish", "close", "archive", "update", "remove",
                "report", "uphold", "dismiss", "tick"}
=============================================================================
