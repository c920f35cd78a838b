----------------------------- MODULE BallotBox -----------------------------
(***************************************************************************)
(* What a poll promises its owner, whatever requests, retries, deadlocks   *)
(* and crashes go on behind it: a box of ballots.  A ballot goes in whole  *)
(* or not at all, once it is in neither it nor the identity it was cast    *)
(* under changes, no two ballots in the box were cast under one identity,  *)
(* and the running tally and the running total advance with the box.  The  *)
(* only other thing that ever happens is that the box is thrown away with  *)
(* its poll.                                                               *)
(***************************************************************************)
EXTENDS Integers

CONSTANTS
    Casts,           \* submissions
    Candidates,      \* options
    Same(_, _)       \* two identities may not both have a ballot in the box

VARIABLES
    choice,    \* the options each submission chooses
    exists,    \* the poll has not been deleted
    box,       \* the submissions whose ballot is in the box
    identity,  \* the identity each submission is cast under
    tally,     \* running count per option
    total      \* running count of ballots

boxVars == <<choice, exists, box, identity, tally, total>>

BoxInit ==
    /\ choice \in [Casts -> SUBSET Candidates]
    /\ exists = TRUE
    /\ box = {}
    /\ tally = [o \in Candidates |-> 0]
    /\ total = 0

\* A submission that is not in the box learns the identity it will be cast under.
Identify(c) ==
    /\ c \notin box
    /\ \A d \in Casts \ {c} : identity'[d] = identity[d]
    /\ UNCHANGED <<choice, exists, box, tally, total>>

Cast(c) ==
    /\ exists
    /\ c \notin box
    /\ \A d \in box : ~Same(identity[c], identity[d])
    /\ box' = box \cup {c}
    /\ tally' = [o \in Candidates |-> IF o \in choice[c] THEN tally[o] + 1 ELSE tally[o]]
    /\ total' = total + 1
    /\ UNCHANGED <<choice, exists, identity>>

Discard ==
    /\ exists
    /\ exists' = FALSE
    /\ box' = {}
    /\ tally' = [o \in Candidates |-> 0]
    /\ total' = 0
    /\ UNCHANGED <<choice, identity>>

BoxNext == (\E c \in Casts : Identify(c) \/ Cast(c)) \/ Discard

BoxSpec == BoxInit /\ [][BoxNext]_boxVars
=============================================================================
