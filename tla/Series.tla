------------------------------- MODULE Series -------------------------------
(***************************************************************************)
(* A repeating poll: the rounds behind one permanent link.  A round is an  *)
(* ordinary row of table polls; when it closes, by hand (close()) or by    *)
(* deadline (closeDuePolls), rollSeries opens the next one in three        *)
(* commits: createPoll, joinSeries, setStatus.  The roll that follows a    *)
(* close by hand is not awaited by anyone; the scheduler awaits its own,   *)
(* one row after the other, each read again before it is rolled.  Every     *)
(* statement of a roll may fail; whoever started it logs the error and the *)
(* roll is not tried again.                                                *)
(*                                                                         *)
(* Only one series is modelled, and of its rows what decides how it goes   *)
(* on: status, window, round and whether it still repeats.  The dates of   *)
(* the next round are not; rollSeries walks them forward until the round   *)
(* is not over yet.  Deleting a round and editing its settings are not     *)
(* modelled here.                                                          *)
(***************************************************************************)
EXTENDS Integers, FiniteSets

CONSTANTS
    Ops,         \* owner requests in flight at the same time; each can be reused
    Scheduler,   \* the in-process cron job
    Rows,        \* bound: polls that can be created
    First,       \* the row the owner creates; rollSeries creates the others
    Overlaps,    \* the instance's choices for overlap
    Null         \* no row

ASSUME SeriesAssumption ==
    /\ Scheduler \notin Ops
    /\ IsFiniteSet(Rows)
    /\ First \in Rows
    /\ Overlaps \subseteq BOOLEAN

VARIABLES
    row,      \* table polls
    task,     \* the statement each owner request is about to run, and on which row
    roll,     \* where each roll is: what it copies and what it has created
    due,      \* rows the scheduler has closed and not yet rolled
    ended,    \* an end-series request was accepted: for a round, for the running one
    broken,   \* what was broken off for good: a roll, one before its last statement
    overlap   \* requests and ticks may start while others are in flight

vars == <<row, task, roll, due, ended, broken, overlap>>

Rollers == Ops \cup {Scheduler}  \* the roll after each request's last close, the job's own
Windows == {"before", "open", "past"}
Poll == [status : {"draft", "published", "closed", "archived"}, window : Windows,
         joined : BOOLEAN, round : Nat, repeats : BOOLEAN]

ASSUME NullAssumption == Null \notin Poll

Created == {i \in Rows : row[i] # Null}
Rounds == {i \in Created : row[i].joined}
Over(i) == row[i].status \in {"closed", "archived"}

NoTask == [at |-> "none", id |-> First]
NoRoll == [at |-> "none", round |-> 0, id |-> First]

TypeOK ==
    /\ row \in [Rows -> Poll \cup {Null}]
    /\ task \in [Ops -> [at : {"none", "start", "repeat", "publish", "close", "archive",
                               "clear", "reread"}, id : Rows]]
    /\ roll \in [Rollers -> [at : {"none", "create", "join", "publish"}, round : Nat,
                             id : Rows]]
    /\ due \subseteq Rows
    /\ ended \in {"no", "round", "series"}
    /\ broken \subseteq {"roll", "publish"}
    /\ overlap \in Overlaps

Init ==
    /\ row = [i \in Rows |-> Null]
    /\ task = [o \in Ops |-> NoTask]
    /\ roll = [h \in Rollers |-> NoRoll]
    /\ due = {}
    /\ ended = "no"
    /\ broken = {}
    /\ overlap \in Overlaps

Quiet ==
    /\ \A o \in Ops : task[o].at = "none"
    /\ \A h \in Rollers : roll[h].at = "none"
    /\ due = {}
CanStart == overlap \/ Quiet
Begin(o, at, i) ==
    /\ task[o].at = "none" /\ CanStart
    /\ task' = [task EXCEPT ![o] = [at |-> at, id |-> i]]
Step(o, from, to) ==
    /\ task[o].at = from
    /\ task' = [task EXCEPT ![o] = IF to = "none" THEN NoTask ELSE [@ EXCEPT !.at = to]]

(***************************************************************************)
(* POST /polls with a repeatInterval: createPoll, startSeries and          *)
(* setRepeatInterval commit one by one.                                    *)
(***************************************************************************)
\* createPoll commits: a poll with its questions, in no series yet.
Draft(window) == [status |-> "draft", window |-> window, joined |-> FALSE,
                  round |-> 1, repeats |-> FALSE]

Create(o) ==
    /\ row[First] = Null
    /\ Begin(o, "start", First)
    /\ \E window \in Windows : row' = [row EXCEPT ![First] = Draft(window)]
    /\ UNCHANGED <<roll, due, ended, broken, overlap>>

StartSeries(o) ==
    /\ Step(o, "start", "repeat")
    /\ row' = [row EXCEPT ![First].joined = TRUE, ![First].round = 1]
    /\ UNCHANGED <<roll, due, ended, broken, overlap>>

SetRepeatInterval(o) ==
    /\ Step(o, "repeat", "none")
    /\ row' = [row EXCEPT ![First].repeats = TRUE]
    /\ UNCHANGED <<roll, due, ended, broken, overlap>>

(***************************************************************************)
(* publish, close and archive: a read, and a statement that names the id.  *)
(***************************************************************************)
Write(i, status) == row' = [row EXCEPT ![i].status = status]

BeginPublish(o, i) ==
    /\ Begin(o, "publish", i)
    /\ row[i].status = "draft"
    /\ UNCHANGED <<row, roll, due, ended, broken, overlap>>

Publish(o) ==
    /\ Step(o, "publish", "none")
    /\ Write(task[o].id, "published")
    /\ UNCHANGED <<roll, due, ended, broken, overlap>>

\* Mutant: a poll that is closed already may be closed again.
ClosableBug(i) == row[i].status \in {"published", "closed"}

Closable(i) == row[i].status = "published"

BeginClose(o, i) ==
    /\ Begin(o, "close", i)
    /\ Closable(i)
    /\ UNCHANGED <<row, roll, due, ended, broken, overlap>>

\* What the row becomes is what RETURNING gives close(), and what it decides by.
Close(o) ==
    LET i == task[o].id IN
    /\ roll[o].at = "none"
    /\ Step(o, "close", "none")
    /\ Write(i, "closed")
    /\ roll' = IF row[i].repeats
               THEN [roll EXCEPT ![o] = [at |-> "create", round |-> row[i].round, id |-> First]]
               ELSE roll
    /\ UNCHANGED <<due, ended, broken, overlap>>

BeginArchive(o, i) ==
    /\ Begin(o, "archive", i)
    /\ UNCHANGED <<row, roll, due, ended, broken, overlap>>

Archive(o) ==
    /\ Step(o, "archive", "none")
    /\ Write(task[o].id, "archived")
    /\ UNCHANGED <<roll, due, ended, broken, overlap>>

(***************************************************************************)
(* endSeries: clear repeat_interval, then close the round as close() does, *)
(* which reads it once more.                                               *)
(***************************************************************************)
BeginEnd(o, i) ==
    /\ Begin(o, "clear", i)
    /\ row[i].repeats
    /\ UNCHANGED <<row, roll, due, ended, broken, overlap>>

\* Nothing else is in flight that has looked at the series before.
Alone(o) ==
    /\ \A p \in Ops \ {o} : task[p].at = "none"
    /\ \A h \in Rollers : roll[h].at = "none"
    /\ due = {}

\* No other round runs, or may still be published.
LastRunning(i) == row[i].status = "published" /\ \A j \in Rounds \ {i} : Over(j)

\* The interval of i is cleared: the series is over if i alone runs.
Ended(o, i) ==
    IF LastRunning(i) /\ Alone(o) THEN "series"
    ELSE IF ended = "no" THEN "round" ELSE ended

\* Mutant: the round is closed first and the interval cleared after it.
ClearBug(o) ==
    LET i == task[o].id IN
    /\ Step(o, "clear", "none")
    /\ roll[o].at = "none"
    /\ row' = [row EXCEPT ![i].repeats = FALSE,
                          ![i].status = IF @ = "published" THEN "closed" ELSE @]
    /\ roll' = IF row[i].status = "published"
               THEN [roll EXCEPT ![o] = [at |-> "create", round |-> row[i].round, id |-> First]]
               ELSE roll
    /\ ended' = Ended(o, i)
    /\ UNCHANGED <<due, broken, overlap>>

Clear(o) ==
    LET i == task[o].id IN
    /\ Step(o, "clear", IF row[i].status = "published" THEN "reread" ELSE "none")
    /\ row' = [row EXCEPT ![i].repeats = FALSE]
    /\ ended' = Ended(o, i)
    /\ UNCHANGED <<roll, due, broken, overlap>>

\* getOwned of close().
Reread(o) ==
    /\ Step(o, "reread", IF Closable(task[o].id) THEN "close" ELSE "none")
    /\ UNCHANGED <<row, roll, due, ended, broken, overlap>>

(***************************************************************************)
(* The scheduler: one UPDATE closes whatever is due; then, row by row, the *)
(* row is read again and rolled.                                           *)
(***************************************************************************)
\* Mutant: the UPDATE takes every row past its deadline that is not a draft.
DueNowBug == {i \in Created : row[i].status # "draft" /\ row[i].window = "past"}

DueNow == {i \in Created : row[i].status = "published" /\ row[i].window = "past"}

CloseDue ==
    /\ CanStart
    /\ due = {} /\ roll[Scheduler].at = "none"
    /\ DueNow # {}
    /\ due' = DueNow
    /\ row' = [i \in Rows |-> IF i \in DueNow THEN [row[i] EXCEPT !.status = "closed"]
                              ELSE row[i]]
    /\ UNCHANGED <<task, roll, ended, broken, overlap>>

Find(i) ==
    /\ i \in due /\ roll[Scheduler].at = "none"
    /\ due' = due \ {i}
    /\ roll' = IF row[i].repeats
               THEN [roll EXCEPT ![Scheduler] = [at |-> "create", round |-> row[i].round,
                                                 id |-> First]]
               ELSE roll
    /\ UNCHANGED <<row, task, ended, broken, overlap>>

(***************************************************************************)
(* rollSeries, one commit at a time.                                       *)
(***************************************************************************)
\* createPoll: the opening is walked forward until the round is not over.  Which
\* id the new row gets is of no matter.
NewRow == CHOOSE i \in Rows \ {First} : row[i] = Null

RollCreate(h) ==
    LET i == NewRow IN
    /\ roll[h].at = "create"
    /\ Rows # Created \cup {First}
    /\ \E window \in {"before", "open"} : row' = [row EXCEPT ![i] = Draft(window)]
    /\ roll' = [roll EXCEPT ![h].at = "join", ![h].id = i]
    /\ UNCHANGED <<task, due, ended, broken, overlap>>

RollJoin(h) ==
    /\ roll[h].at = "join"
    /\ row' = [row EXCEPT ![roll[h].id] =
                  [@ EXCEPT !.joined = TRUE, !.round = roll[h].round + 1, !.repeats = TRUE]]
    /\ roll' = [roll EXCEPT ![h].at = "publish"]
    /\ UNCHANGED <<task, due, ended, broken, overlap>>

\* Mutant: the new round is left a draft for its owner to publish.
RolledBug == "draft"

Rolled == "published"

RollPublish(h) ==
    /\ roll[h].at = "publish"
    /\ Write(roll[h].id, Rolled)
    /\ roll' = [roll EXCEPT ![h] = NoRoll]
    /\ UNCHANGED <<task, due, ended, broken, overlap>>

(***************************************************************************)
(* Time, failures and crashes.                                             *)
(***************************************************************************)
\* A later round does not open before an earlier one that is still to come.
\* Nobody looks at the clock for a row that is over and stays so.
Tick(i) ==
    /\ row[i].window # "past"
    /\ Over(i) => \E o \in Ops : task[o].at = "publish" /\ task[o].id = i
    /\ \A j \in Rounds : row[j].round < row[i].round => row[j].window # "before" \/ Over(j)
    /\ row' = [row EXCEPT ![i].window = IF @ = "before" THEN "open" ELSE "past"]
    /\ UNCHANGED <<task, roll, due, ended, broken, overlap>>

\* The rolls of H and the closed rows of S, yet to be rolled, go no further.
BreakOff(H, S) ==
    /\ roll' = [h \in Rollers |-> IF h \in H THEN NoRoll ELSE roll[h]]
    /\ due' = due \ S
    /\ broken' = broken
          \cup {c \in {"roll"} : \/ \E h \in H : roll[h].at # "none"
                                \/ \E i \in due \cap S : row[i].repeats}
          \cup {c \in {"publish"} : \E h \in H : roll[h].at = "publish"}

\* A statement of a request fails: it answers 500, and what is committed stays.
\* (A close whose UPDATE took effect and whose reply was lost is a Close whose
\* roll fails.)
StatementFails(o) ==
    /\ task[o].at # "none"
    /\ task' = [task EXCEPT ![o] = NoTask]
    /\ UNCHANGED <<row, roll, due, ended, broken, overlap>>

\* A read, an INSERT with its constraints, joinSeries or setStatus fails: the
\* error is caught and logged.
RollFails(h) ==
    /\ roll[h].at # "none"
    /\ BreakOff({h}, {})
    /\ UNCHANGED <<row, task, ended, overlap>>

\* The owner's SELECT or notify() throws: nobody catches it, and the rows after
\* this one, closed already, are not rolled either.
LoopAborts ==
    /\ due # {} /\ roll[Scheduler].at = "none"
    /\ BreakOff({}, due)
    /\ UNCHANGED <<row, task, ended, overlap>>

Crash ==
    /\ task' = [o \in Ops |-> NoTask]
    /\ BreakOff(Rollers, due)
    /\ UNCHANGED <<row, ended, overlap>>

Statement(o) ==
    \/ StartSeries(o) \/ SetRepeatInterval(o)
    \/ Publish(o) \/ Close(o) \/ Archive(o) \/ Clear(o) \/ Reread(o)

RollStep(h) == RollCreate(h) \/ RollJoin(h) \/ RollPublish(h)

Next ==
    \/ \E o \in Ops :
          \/ Create(o)
          \/ \E i \in Created :
                BeginPublish(o, i) \/ BeginClose(o, i) \/ BeginArchive(o, i) \/ BeginEnd(o, i)
          \/ Statement(o)
          \/ StatementFails(o)
    \/ CloseDue
    \/ \E i \in Created : Find(i) \/ Tick(i)
    \/ LoopAborts
    \/ \E h \in Rollers : RollStep(h) \/ RollFails(h)
    \/ Crash

\* A request or roll that has begun runs on or fails, and the cron job fires every
\* minute.
Fairness ==
    /\ \A o \in Ops : WF_vars(Statement(o) \/ StatementFails(o))
    /\ \A h \in Rollers : WF_vars(RollStep(h) \/ RollFails(h))
    /\ WF_vars(CloseDue)
    /\ WF_vars((\E i \in Created : Find(i)) \/ LoopAborts)

Spec == Init /\ [][Next]_vars /\ Fairness

(***************************************************************************)
(* resolveRespondentSlug for the series link.                              *)
(***************************************************************************)
OpenNow(i) == row[i].status = "published" /\ row[i].window = "open"
Waiting(i) == row[i].status = "published" /\ row[i].window = "before"

\* Mutant: the first key of the ORDER BY is missing.
BeforeBug(i, j) ==
    \/ Waiting(i) /\ ~Waiting(j)
    \/ Waiting(i) = Waiting(j) /\ row[i].round > row[j].round

\* The ORDER BY: open now, else waiting to open, then the later round.
Before(i, j) ==
    \/ OpenNow(i) /\ ~OpenNow(j)
    \/ /\ OpenNow(i) = OpenNow(j)
       /\ \/ Waiting(i) /\ ~Waiting(j)
          \/ Waiting(i) = Waiting(j) /\ row[i].round > row[j].round

\* The rows the query may return first.
Resolved ==
    LET S == {i \in Rounds : row[i].status # "archived"} IN
    {i \in S : \A j \in S : ~Before(j, i)}

-----------------------------------------------------------------------------
\* No two polls are the same round of the series: "one column per round"
\* (rollSeries, seriesReport), as long as closes do not overlap.
RoundsDistinct ==
    ~overlap => \A i, j \in Rounds : i # j => row[i].round # row[j].round

\* Once the only running round of a series is ended, with nothing else in flight
\* at that moment, no further round is opened, whatever overlaps afterwards: the
\* order of the two statements of endSeries.
RowsStay == Created' = Created
NothingOpensAfterEnd == [][ended = "series" => RowsStay]_vars

\* A round that closes while it repeats is followed by the next one, published,
\* in the end (close, closeDuePolls), unless a roll was broken off or, in the
\* model, rows run out.  Nothing takes up a roll that failed or that a crash or an
\* error in the loop of closeDuePolls left undone: such a series stops for good.
Stalled(i) ==
    /\ broken = {} /\ i \in Created /\ Created # Rows
    /\ row[i].status = "closed" /\ row[i].repeats
    /\ ~ \E j \in Rounds : row[j].round = row[i].round + 1 /\ row[j].status # "draft"
SeriesGoesOn == (\E i \in Rows : Stalled(i)) ~> ~ \E i \in Rows : Stalled(i)

\* Between requests the round behind the link is the one a respondent would
\* expect: "the open one, else the next to open, else the most recent" of those
\* that were ever published (resolveRespondentSlug), through crashes and failures
\* anywhere but at the last statement of a roll, and also when closes have raced
\* and two rounds run at a time.  A roll whose setStatus failed leaves a draft as
\* the latest round, which the link then finds and nobody may answer.  And where
\* races leave two numbers waiting to open, the link goes to the later of them
\* and not "soonest first": the query orders by round DESC.
Visible == {i \in Rounds : row[i].status \in {"published", "closed"}}
Expected ==
    LET open == {i \in Visible : OpenNow(i)}
        waiting == {i \in Visible : Waiting(i)}
    IN  IF open # {} THEN open
        ELSE IF waiting # {} THEN {i \in waiting : \A j \in waiting : row[i].round <= row[j].round}
        ELSE {i \in Visible : \A j \in Visible : row[i].round >= row[j].round}
OneWaits == \A i, j \in Visible : Waiting(i) /\ Waiting(j) => row[i].round = row[j].round
LinkAsExpected ==
    "publish" \notin broken /\ Quiet /\ Visible # {} /\ (overlap => OneWaits) =>
        Resolved # {} /\ Resolved \subseteq Expected

\* The abstract line of rounds that the rows of the series stand for.
Numbers(statuses) == {row[i].round : i \in {j \in Rounds : row[j].status \in statuses}}
Drafts == Numbers({"draft"})
Running == Numbers({"published"})
Past == Numbers({"closed", "archived"})
Stopped == ended = "series"
Line == INSTANCE RoundLine WITH
    drafts <- Drafts, running <- Running, over <- Past, stopped <- Stopped

\* In turn, every step of the system is a step of the line of rounds or none: the
\* rolls that close() and closeDuePolls start begin each number once, in order, when
\* all before it are over, and none after the end, through every crash and failure
\* between the commits of a roll.
ImplementsLine ==
    Line!LineInit /\ [][~overlap => Line!LineNext]_(Line!lineVars)

(***************************************************************************)
(* What a comment of the code says and the code does not do.               *)
(***************************************************************************)
\* "Stop a repeating poll for good" (endSeries): in turn, a request to end the
\* series that was accepted is followed by no further round.
EndedForGood == [][~overlap /\ ended # "no" => RowsStay]_vars

-----------------------------------------------------------------------------
(***************************************************************************)
(* The inductive invariant behind the safety properties.                   *)
(***************************************************************************)
Rolling(h) == roll[h].at # "none"
Last(round) == \A j \in Rounds : row[j].round <= round

\* What is in flight names rows that exist.
Grounded ==
    /\ Created # {} => First \in Created
    /\ \A o \in Ops : task[o].at # "none" => task[o].id \in Created
    /\ \A h \in Rollers : roll[h].at \in {"join", "publish"} => roll[h].id \in Created
    /\ due \subseteq Created

\* Only rounds repeat, and the first round is the owner's.
RoundsRepeat ==
    /\ \A i \in Created : row[i].repeats => i \in Rounds
    /\ Rounds # {} => First \in Rounds
    /\ \A o \in Ops : /\ task[o].at = "repeat" => First \in Rounds
                      /\ task[o].at = "clear" => task[o].id \in Rounds
    /\ \A h \in Rollers : Rolling(h) => First \in Rounds
    /\ \A h \in Rollers : roll[h].at = "publish" => roll[h].id \in Rounds

\* Nothing has rolled while the first round is a draft.
FirstLeads ==
    /\ First \in Created /\ row[First].status = "draft" =>
          Rounds \subseteq {First} /\ \A h \in Rollers : ~Rolling(h)
    /\ \A i \in due : row[i].status # "draft"

\* Unless a roll was broken off before its last statement, a later round is a
\* draft only during its roll.
DraftsRoll ==
    "publish" \notin broken => \A i \in Rounds : row[i].status = "draft" =>
        i = First \/ \E h \in Rollers : roll[h].at = "publish" /\ roll[h].id = i

\* After the end no row that still repeats can close.
OverForGood ==
    ended = "series" =>
        /\ First \in Rounds
        /\ \A h \in Rollers : ~Rolling(h)
        /\ \A o \in Ops : task[o].at \notin {"start", "repeat"}
        /\ \A i \in Created : row[i].repeats =>
              /\ Over(i) /\ i \notin due
              /\ \A o \in Ops : task[o].id = i => task[o].at \notin {"publish", "reread", "close"}

\* In turn, one request, one roll or one run of the scheduler is under way.
OneAtATime ==
    /\ \A o, p \in Ops : task[o].at # "none" /\ task[p].at # "none" => o = p
    /\ \A g, h \in Rollers : Rolling(g) /\ Rolling(h) => g = h
    /\ \A o \in Ops : task[o].at # "none" => due = {} /\ \A h \in Rollers : ~Rolling(h)
    /\ \A o \in Ops : Rolling(o) => due = {}

\* In turn, what a request decided by is still so when its statement runs.
StillTrue ==
    \A o \in Ops :
        /\ task[o].at = "start" => First \notin Rounds
        /\ task[o].at = "publish" => row[task[o].id].status = "draft"
        /\ task[o].at = "close" => row[task[o].id].status = "published"

\* In turn, only the last round runs, and only from it does a roll go on.
LastRuns ==
    /\ \A i, j \in Rounds : row[i].round < row[j].round => Over(i)
    /\ \A h \in Rollers : roll[h].at \in {"create", "join"} =>
          Last(roll[h].round) /\ \A j \in Rounds : Over(j)
    /\ \A h \in Rollers : roll[h].at = "join" => roll[h].id \notin due
    /\ \A h \in Rollers : roll[h].at = "publish" => Last(row[roll[h].id].round)
    /\ \A i \in due : row[i].repeats =>
          /\ Last(row[i].round) /\ \A j \in Rounds : Over(j)
          /\ \A h \in Rollers : ~Rolling(h)

InTurn == OneAtATime /\ StillTrue /\ LastRuns

SeriesInd ==
    /\ TypeOK
    /\ Grounded /\ RoundsRepeat /\ FirstLeads /\ DraftsRoll /\ OverForGood
    /\ ~overlap => InTurn
    /\ RoundsDistinct

\* In turn, rounds are numbered without a gap, a roll goes on from one of them,
\* and what is about to join or to be published is a draft.
NoGaps ==
    \A i \in Rounds :
        /\ row[i].round # 0
        /\ \A n \in 1..row[i].round : \E j \in Rounds : row[j].round = n
RollsFollow ==
    \A h \in Rollers : roll[h].at \in {"create", "join"} =>
        \E j \in Rounds : row[j].round = roll[h].round
DraftsJoin ==
    /\ \A o \in Ops : task[o].at = "start" => row[First].status = "draft"
    /\ \A h \in Rollers : roll[h].at = "join" => roll[h].id \notin Rounds
    /\ \A h \in Rollers : roll[h].at \in {"join", "publish"} => row[roll[h].id].status = "draft"

LineInd == ~overlap => NoGaps /\ RollsFollow /\ DraftsJoin
=============================================================================
