-------------------------------- MODULE Rounds --------------------------------
(***************************************************************************)
(* What the rounds of a poll hold: dates, form, answers and tallies, from  *)
(* the creation of a poll, through the rounds that rollSeries copies from  *)
(* it, to the report that compares them (seriesReport).                    *)
(*                                                                         *)
(* Module Series has the order in which the statements of a roll run, and  *)
(* what can come between them; here a request is one step, and so is a     *)
(* close with the roll that follows it.  A roll that fails leaves the      *)
(* series without a next round.                                            *)
(***************************************************************************)
EXTENDS Answers, Schedule

CONSTANTS
    Polls,      \* the polls that owners create
    Ballots,    \* the submissions that are made
    Moves,      \* the dates that owners set later
    Instants,   \* bound: days on which something happens
    MaxRounds,  \* bound: rounds
    MaxVotes,   \* bound: responses
    Null        \* no date

Dates == Days \cup {Null}

ASSUME RoundsAssumption ==
    /\ Null \notin Int /\ MaxRounds \in Nat \ {0} /\ MaxVotes \in Nat
    /\ Polls \subseteq [type : STRING, form : Seq(Questions), interval : Intervals \cup {Null},
                         opens : Dates, closes : Dates]
    /\ Ballots \subseteq Submissions
    /\ Moves \subseteq [opens : Dates, closes : Dates]

\* The calendar goes beyond the last of these dates by as much as the rounds can.
Within(horizon) ==
    /\ Instants \subseteq 0..horizon
    /\ \A dated \in Polls \cup Moves : {dated.opens, dated.closes} \subseteq (0..horizon) \cup {Null}
    /\ 2 * horizon + 31 * MaxRounds \in Days
ASSUME CalendarAssumption == \E horizon \in Days : Within(horizon)

VARIABLES
    now,    \* today
    rounds  \* the polls of the series, in order; a poll that does not repeat is a series of one

vars == <<now, rounds>>

TypeOK ==
    /\ now \in {0} \cup Instants
    /\ Len(rounds) <= MaxRounds
    /\ \A n \in DOMAIN rounds : LET r == rounds[n] IN
          /\ ValidForm(r.form)
          /\ r.interval \in Intervals \cup {Null}
          /\ r.status \in {"draft", "published", "closed"}
          /\ {r.opens, r.closes, r.published} \subseteq Dates
          /\ r.created \in Days
          /\ IsABag(r.responses)
          /\ SumFunction(r.responses) = r.count

Init ==
    /\ now = 0
    /\ rounds = <<>>

(***************************************************************************)
(* createPoll, and the owner's other requests.                             *)
(***************************************************************************)
\* CHECK polls_schedule_order.
Ordered(opens, closes) == opens # Null /\ closes # Null => closes > opens

\* createPollSchema.
ValidPoll(p) ==
    /\ ValidForm(p.form)
    /\ p.type = "vote" => Len(p.form) = 1
    /\ p.interval # Null => p.closes # Null
    /\ Ordered(p.opens, p.closes)

NewRound(form, interval, opens, closes) ==
    [form |-> form, interval |-> interval, status |-> "draft",
     opens |-> opens, closes |-> closes, created |-> now, published |-> Null,
     count |-> 0, responses |-> EmptyBag, tally |-> Seeded(form)]

\* setStatus 'published'.
Published(r) == [r EXCEPT !.status = "published", !.published = now]

Create(p) ==
    /\ rounds = <<>>
    /\ ValidPoll(p)
    /\ rounds' = <<NewRound(p.form, p.interval, p.opens, p.closes)>>
    /\ UNCHANGED now

Publish(n) ==
    /\ rounds[n].status = "draft"
    /\ rounds' = [rounds EXCEPT ![n] = Published(@)]
    /\ UNCHANGED now

\* updateSettings with opensAt and closesAt.
Reschedule(n, m) ==
    /\ Ordered(m.opens, m.closes)
    /\ rounds' = [rounds EXCEPT ![n].opens = m.opens, ![n].closes = m.closes]
    /\ UNCHANGED now

Accepting(r) ==
    /\ r.status = "published"
    /\ r.opens # Null => r.opens <= now
    /\ r.closes # Null => r.closes > now

\* Mutant: the total is left for another statement.
VoteBug(n, ballot) ==
    LET rows == RowsOfAll(rounds[n].form, ballot) IN
    /\ SumFunction([i \in DOMAIN rounds |-> rounds[i].count]) < MaxVotes
    /\ Accepting(rounds[n])
    /\ Accepted(rounds[n].form, ballot)
    /\ rounds' = [rounds EXCEPT ![n].responses = @ (+) SetToBag({rows}),
                                ![n].tally = IncrementMany(@, rows)]
    /\ UNCHANGED now

\* submit, from the look at the poll to the commit.
Vote(n, ballot) ==
    LET rows == RowsOfAll(rounds[n].form, ballot) IN
    /\ SumFunction([i \in DOMAIN rounds |-> rounds[i].count]) < MaxVotes
    /\ Accepting(rounds[n])
    /\ Accepted(rounds[n].form, ballot)
    /\ rounds' = [rounds EXCEPT ![n].responses = @ (+) SetToBag({rows}),
                                ![n].tally = IncrementMany(@, rows),
                                ![n].count = @ + 1]
    /\ UNCHANGED now

(***************************************************************************)
(* The roll.                                                               *)
(***************************************************************************)
\* When a round opened, and how long it is open, if it has an end.
OpeningOf(r) ==
    IF r.opens # Null THEN r.opens ELSE IF r.published # Null THEN r.published ELSE r.created
LengthOf(r) == IF r.closes = Null THEN 0 ELSE r.closes - OpeningOf(r)

\* questionsWithOptions does not select the images.
Copied(form) ==
    [q \in DOMAIN form |-> [form[q] EXCEPT !.options =
        [o \in DOMAIN form[q].options |-> [label |-> form[q].options[o].label, image |-> FALSE]]]]

\* A length of 0 is taken for no end.
NextRound(r) ==
    LET opens == Walk(AddInterval(OpeningOf(r), r.interval), r.interval, LengthOf(r), now) IN
    Published(NewRound(Copied(r.form), r.interval, opens,
                       IF LengthOf(r) = 0 THEN Null ELSE opens + LengthOf(r)))

\* The constraints of the tables: a negative length, or an option that was only
\* an image, and the roll fails.
Insertable(r) == Ordered(r.opens, r.closes) /\ ValidForm(r.form)

Closed(n) == [rounds EXCEPT ![n].status = "closed"]

\* close(), or closeDuePolls at any time from the deadline on, and rollSeries.
Close(n) ==
    LET next == NextRound(rounds[n])
        rolls == rounds[n].interval # Null /\ Insertable(next) IN
    /\ rounds[n].status = "published"
    /\ rolls => Len(rounds) < MaxRounds
    /\ rounds' = IF rolls THEN Append(Closed(n), next) ELSE Closed(n)
    /\ UNCHANGED now

\* Nothing is told of the days before the poll is created.
Pass(day) ==
    /\ rounds # <<>>
    /\ day > now
    /\ now' = day
    /\ UNCHANGED rounds

Next ==
    \/ \E p \in Polls : Create(p)
    \/ \E n \in DOMAIN rounds :
          \/ Publish(n) \/ Close(n)
          \/ \E m \in Moves : Reschedule(n, m)
          \/ \E ballot \in Ballots : Vote(n, ballot)
    \/ \E day \in Instants : Pass(day)

Spec == Init /\ [][Next]_vars

(***************************************************************************)
(* seriesReport: the rounds that have started, and the count of every      *)
(* option in every round, matched by position (seriesRounds).              *)
(***************************************************************************)
Started == {n \in DOMAIN rounds : rounds[n].opens = Null \/ rounds[n].opens <= now}

Report ==
    [rounds |-> Started,
     upcoming |-> Len(rounds) - Cardinality(Started),
     totalResponses |-> SumFunction([n \in Started |-> rounds[n].count]),
     counts |-> [n \in DOMAIN rounds |-> [q \in DOMAIN rounds[n].form |->
                    [o \in DOMAIN rounds[n].form[q].options |-> rounds[n].tally[q][o].count]]]]

-----------------------------------------------------------------------------
\* Rebuilding the tallies from the answers changes nothing, as long as no
\* response names an option twice: the counters that submit() advances in
\* passing are those that the answers add up to (incrementMany, insertAnswers,
\* recomputeFromAnswers).
RepairChangesNothing ==
    \A n \in DOMAIN rounds :
        (\A r \in BagToSet(rounds[n].responses) : IsInjective(r)) =>
            Recomputed(rounds[n].tally, rounds[n].responses) = rounds[n].tally

\* The average positions of a ranking can be compared: everyone has ranked every
\* option, and given the positions 1 to k once each ("anything else would make
\* the positions incomparable between respondents", validateAnswers).
RankingComparable ==
    \A n \in DOMAIN rounds : \A q \in DOMAIN rounds[n].form :
        rounds[n].form[q].type = "ranking" =>
            LET tally == rounds[n].tally[q]
                k == Len(tally)
                ranked == Answered(rounds[n].responses, q) IN
            /\ \A o \in DOMAIN tally : tally[o].count = ranked
            /\ 2 * SumFunction([o \in DOMAIN tally |-> tally[o].rank_sum]) = ranked * k * (k + 1)

\* The report, the analytics and the export tell the same of a poll: an option
\* that has a label is read in as many cells of the export as its tally counts
\* votes; a question looks answered on as many lines as the analytics count
\* answers, and on no more if one of its options is only an image; the counts of
\* a required question with one choice add up to the responses of the rounds that
\* have started; and no rate is beyond its scale if the first question is
\* required.
ReadingsAgree ==
    /\ \A n \in DOMAIN rounds :
        LET r == rounds[n]
            Written(line, q) == Line(r.form, line, Columns(r.responses))[q]
            Readable(q) == Total(r.responses, LAMBDA line : IF LooksEmpty(Written(line, q)) THEN 0 ELSE 1)
            Read(q, o) == Total(r.responses, LAMBDA line :
                                Cardinality({i \in DOMAIN Written(line, q) : Written(line, q)[i] = o})) IN
        \A q \in DOMAIN r.form :
            /\ q \in Columns(r.responses) =>
                LET labelled == {o \in DOMAIN r.form[q].options : r.form[q].options[o].label} IN
                /\ (\A line \in BagToSet(r.responses) : IsInjective(line)) =>
                      \A o \in labelled : Read(q, o) = Report.counts[n][q][o]
                /\ Readable(q) <= Answered(r.responses, q)
                /\ labelled = DOMAIN r.form[q].options => Readable(q) = Answered(r.responses, q)
            /\ r.form[1].required =>
                  DropOff(r.form, r.responses, q) \in 0..100
                  /\ CompletionRate(r.form, r.responses) \in 0..100
    /\ \A q \in IF rounds = <<>> THEN {} ELSE DOMAIN rounds[1].form :
        rounds[1].form[q].type = "single_choice" /\ rounds[1].form[q].required =>
            Report.totalResponses =
                SumFunction([n \in Report.rounds |-> SumFunction(Report.counts[n][q])])

\* A slot of a series: so many days, weeks or months after an opening.  A month
\* need not have the last days of another.
Slot(d, opening, interval) ==
    /\ d > opening
    /\ interval = "weekly" => (d - opening) % 7 = 0
    /\ interval = "monthly" => DayOfMonth(d) = DayOfMonth(opening)

\* The round that follows is open as long as the one before, is not over when it
\* is created, and opens in the first slot of the series for which that is so;
\* a monthly series keeps its day, if every month has that day ("anchoring to
\* `now` instead would let the series drift", rollSeries).
NextRoundOnTime ==
    [][rounds # <<>> /\ Len(rounds') > Len(rounds) =>
        LET old == Last(rounds)
            new == Last(rounds')
            opening == OpeningOf(old)
            Over(d) == d + LengthOf(old) <= now IN
        /\ new.closes # Null => LengthOf(new) = LengthOf(old)
        /\ ~Over(new.opens)
        /\ old.interval # "monthly" \/ DayOfMonth(opening) <= 28 =>
              /\ Slot(new.opens, opening, old.interval)
              /\ \A d \in opening..(new.opens - 1) : Slot(d, opening, old.interval) => Over(d)]_vars
=============================================================================
