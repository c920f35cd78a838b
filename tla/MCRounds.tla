------------------------------ MODULE MCRounds ------------------------------
(***************************************************************************)
(* Instances of Rounds for TLC.                                            *)
(***************************************************************************)
EXTENDS Rounds

\* The first half of a common year; day 0 is the first of January.
Calendar == <<0, 31, 59, 90, 120, 151, 181>>

Text == [label |-> TRUE, image |-> FALSE]
Picture == [label |-> FALSE, image |-> TRUE]
Both == [label |-> TRUE, image |-> TRUE]
Ask(type, required, options) == [type |-> type, required |-> required, options |-> options]

\* A quick vote, one whose options are images, a ranking, and a survey.
Quick == <<Ask("single_choice", TRUE, <<Text, Both>>)>>
Pictures == <<Ask("yes_no", TRUE, <<Both, Picture>>)>>
Ranking == <<Ask("ranking", TRUE, <<Text, Both>>)>>
Survey == <<Ask("single_choice", TRUE, <<Text, Text>>),
            Ask("ranking", FALSE, <<Text, Text, Text>>),
            Ask("multi_choice", FALSE, <<Text, Text>>),
            Ask("rating", FALSE, <<>>)>>

Poll(form, interval, opens, closes) ==
    [type |-> IF Len(form) = 1 THEN "vote" ELSE "survey", form |-> form,
     interval |-> interval, opens |-> opens, closes |-> closes]
SomePolls ==
    {Poll(Quick, "daily", Null, 2), Poll(Quick, "weekly", 2, 4),
     Poll(Quick, "monthly", 3, 5), Poll(Quick, "monthly", 30, 33),
     Poll(Ranking, "daily", 0, 2), Poll(Pictures, "weekly", Null, 1),
     Poll(Survey, Null, Null, Null)}
SomeMoves == {[opens |-> Null, closes |-> 10]}

Answer(question, options, value) == [question |-> question, options |-> options, value |-> value]
One(o) == Answer(1, <<o>>, "empty")
SomeBallots ==
    {<<One(1)>>, <<One(2)>>, <<One(Stray)>>, <<One(1), One(2)>>,
     <<Answer(1, <<1, 2>>, "empty")>>, <<Answer(1, <<2, 1>>, "empty")>>,
     <<One(1), Answer(2, <<2, 1, 3>>, "empty")>>, <<One(2), Answer(2, <<3, 2>>, "empty")>>,
     <<Answer(2, <<1, 2, 3>>, "empty")>>,
     <<One(1), Answer(3, <<1, 2>>, "empty")>>, <<One(2), Answer(3, <<2, 2>>, "empty")>>,
     <<One(1), Answer(4, <<>>, "7")>>, <<One(1), Answer(4, <<>>, "out_of_range")>>,
     <<One(2), Answer(3, <<>>, "empty"), Answer(4, <<>>, "empty")>>}
=============================================================================
