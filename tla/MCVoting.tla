------------------------------ MODULE MCVoting ------------------------------
(***************************************************************************)
(* Instances of Voting for TLC: a handful of submissions to one poll.      *)
(***************************************************************************)
EXTENDS Voting, TLC

CONSTANTS r1, r2, r3, p1, a, b

Voter(d, i, u, c) == [device |-> d, ip |-> i, user |-> u, code |-> c]

\* Two signed-in people behind one address, and the device of the first again,
\* signed out and on another address.
People == {Voter("d1", "i1", "u1", Null), Voter("d2", "i1", "u2", Null),
           Voter("d1", "i2", Null, Null)}
OnePerson == {Voter("d1", "i1", "u1", Null)}
\* One signed-in person with two invitations, a made-up code or none at all.
Invited == {Voter("d1", "i1", "u1", "c1"), Voter("d1", "i1", "u1", "c2"),
            Voter("d1", "i1", "u1", "c3"), Voter("d1", "i1", "u1", Null)}

Both == {<<a, b>>}
\* All of the options, or free text alone.
TwoOrNone == {<<a, b>>, <<>>}
Mixed == {<<a, b>>, <<b>>}

VoteSymmetry == Permutations({r1, r2, r3})
OwnerSymmetry == Permutations({r1, r2})
=============================================================================
