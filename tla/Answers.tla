------------------------------- MODULE Answers -------------------------------
(***************************************************************************)
(* Questions and answers: which polls createPoll takes and which           *)
(* submissions a poll takes (createPollSchema, validateAnswers), the rows  *)
(* a submission leaves in answers and tallies, and what is read back from  *)
(* them: the analytics, the CSV export and the repair of the tallies.      *)
(* How the statements of a submission interleave with others is in Voting. *)
(*                                                                         *)
(* Questions and options are known by their positions, from 1 on; an id    *)
(* that belongs to something else is Stray.  Prompts and texts are left    *)
(* out.  Responses are a bag of sequences of rows: those of one response   *)
(* each.                                                                   *)
(***************************************************************************)
EXTENDS Integers, SequencesExt

Stray == 0
NoOption == 0 \* an answer that is a text or a number

ChoiceTypes == {"single_choice", "multi_choice", "yes_no", "ranking"}
QuestionTypes == ChoiceTypes \cup {"rating", "short_text", "long_text"}

\* What is sent to createPoll and to submit.
Questions == [type : STRING, required : BOOLEAN, options : Seq([label : BOOLEAN, image : BOOLEAN])]
Submissions == Seq([question : Nat, options : Seq(Nat), value : STRING])

(***************************************************************************)
(* Polls and submissions.                                                  *)
(***************************************************************************)
HasContent(o) == o.label \/ o.image

ValidQuestion(q) ==
    /\ q.type \in QuestionTypes
    /\ q.type \in ChoiceTypes => Len(q.options) >= 2
    /\ q.type \notin ChoiceTypes => q.options = <<>>
    /\ \A i \in DOMAIN q.options : HasContent(q.options[i])

ValidForm(form) == form # <<>> /\ \A i \in DOMAIN form : ValidQuestion(form[i])

IsPermutation(s, n) == Len(s) = n /\ ToSet(s) = 1..n

\* Mutant: a ranking may leave options out.
ValidAnswerBug(q, a) ==
    IF q.type \in ChoiceTypes
    THEN /\ q.required => a.options # <<>>
         /\ ToSet(a.options) \subseteq DOMAIN q.options
         /\ q.type = "ranking" => IsInjective(a.options)
         /\ q.type \notin {"multi_choice", "ranking"} => Len(a.options) <= 1
    ELSE /\ q.required => a.value # "empty"
         /\ q.type = "rating" => a.value # "out_of_range"

\* The answer to a question, which may be empty.
ValidAnswer(q, a) ==
    IF q.type \in ChoiceTypes
    THEN /\ q.required => a.options # <<>>
         /\ ToSet(a.options) \subseteq DOMAIN q.options
         /\ q.type = "ranking" /\ a.options # <<>> => IsPermutation(a.options, Len(q.options))
         /\ q.type \notin {"multi_choice", "ranking"} => Len(a.options) <= 1
    ELSE /\ q.required => a.value # "empty"
         /\ q.type = "rating" => a.value # "out_of_range"

Accepted(form, answers) ==
    /\ \A i \in DOMAIN answers :
          /\ answers[i].question \in DOMAIN form
          /\ ValidAnswer(form[answers[i].question], answers[i])
    /\ \A i, j \in DOMAIN answers : answers[i].question = answers[j].question => i = j
    /\ \A q \in DOMAIN form :
          form[q].required => \E i \in DOMAIN answers : answers[i].question = q

\* The rows of one answer; only a ranking has ranks.
RowsOf(q, a) ==
    IF q.type \in ChoiceTypes
    THEN [i \in DOMAIN a.options |-> [question |-> a.question, option |-> a.options[i],
                                      rank |-> IF q.type = "ranking" THEN i ELSE 0]]
    ELSE IF a.value = "empty" THEN <<>>
    ELSE <<[question |-> a.question, option |-> NoOption, rank |-> 0]>>

RowsOfAll(form, answers) ==
    FlattenSeq([i \in DOMAIN answers |-> RowsOf(form[answers[i].question], answers[i])])

(***************************************************************************)
(* Tallies.                                                                *)
(***************************************************************************)
\* seedTally for every option.
Seeded(form) ==
    [q \in DOMAIN form |-> [o \in DOMAIN form[q].options |-> [count |-> 0, rank_sum |-> 0]]]

RowsFor(rows, q, o) == {i \in DOMAIN rows : rows[i].question = q /\ rows[i].option = o}

\* Mutant: the rank is not carried over to the tally.
IncrementManyBug(tally, rows) ==
    [q \in DOMAIN tally |-> [o \in DOMAIN tally[q] |->
        IF RowsFor(rows, q, o) = {} THEN tally[q][o]
        ELSE [count |-> tally[q][o].count + 1, rank_sum |-> tally[q][o].rank_sum]]]

\* incrementMany: an UPDATE touches a row once, however often the list that it
\* is joined with names it.
IncrementMany(tally, rows) ==
    [q \in DOMAIN tally |-> [o \in DOMAIN tally[q] |->
        LET named == RowsFor(rows, q, o) IN
        IF named = {} THEN tally[q][o]
        ELSE [count |-> tally[q][o].count + 1,
              rank_sum |-> tally[q][o].rank_sum + rows[CHOOSE i \in named : TRUE].rank]]]

\* A sum over all responses of what each is worth.
Total(responses, worth(_)) ==
    SumFunction([r \in BagToSet(responses) |-> responses[r] * worth(r)])

\* recomputeFromAnswers: an option without answers is not joined with anything,
\* and keeps what it has.
Recomputed(tally, responses) ==
    [q \in DOMAIN tally |-> [o \in DOMAIN tally[q] |->
        LET n == Total(responses, LAMBDA r : Cardinality(RowsFor(r, q, o)))
            Ranks(r) == SumFunction([i \in RowsFor(r, q, o) |-> r[i].rank]) IN
        IF n = 0 THEN tally[q][o]
        ELSE [count |-> n, rank_sum |-> Total(responses, Ranks)]]]

(***************************************************************************)
(* What the owner reads.                                                   *)
(***************************************************************************)
RowsAbout(r, q) == {i \in DOMAIN r : r[i].question = q}

\* perQuestionCompletion.
Answered(responses, q) == Total(responses, LAMBDA r : IF RowsAbout(r, q) = {} THEN 0 ELSE 1)

\* The rates of GET /polls/:id/analytics, in per cent, against the first question.
DropOff(form, responses, q) ==
    LET started == Answered(responses, 1) IN
    IF started = 0 THEN 0 ELSE ((started - Answered(responses, q)) * 100) \div started
CompletionRate(form, responses) ==
    LET started == Answered(responses, 1) IN
    IF started = 0 THEN 0 ELSE (Answered(responses, Len(form)) * 100) \div started

\* What a row is written as: an option by its label, and as nothing if it is only
\* an image.  (A text or a number is written as it is, and is never empty.)
Blank == -1
Piece(form, row) ==
    LET options == form[row.question].options IN
    IF row.option \in DOMAIN options /\ ~options[row.option].label THEN Blank ELSE row.option

\* Mutant: the last row of a question wins its cell.
CellBug(form, r, q) ==
    [i \in {i \in RowsAbout(r, q) : i = Max(RowsAbout(r, q))} |-> Piece(form, r[i])]

\* GET /polls/:id/export.csv: a line for each response, a column for each
\* question that anyone has answered, a cell with all that was answered, in one
\* string.
Columns(responses) == {row.question : row \in UNION {ToSet(r) : r \in BagToSet(responses)}}
Cell(form, r, q) == [i \in RowsAbout(r, q) |-> Piece(form, r[i])]
Line(form, r, columns) == [q \in columns |-> Cell(form, r, q)]

\* A cell in which there is nothing to read: no answer, or one that leaves no
\* trace.  (Between two pieces there is a separator.)
LooksEmpty(cell) == \A i, j \in DOMAIN cell : i = j /\ cell[i] = Blank
=============================================================================
