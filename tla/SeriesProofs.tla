---------------------------- MODULE SeriesProofs ----------------------------
(***************************************************************************)
(* Proofs about Series, for any number of rows, requests and crashes.      *)
(***************************************************************************)
EXTENDS Series, FiniteSetTheorems, WellFoundedInduction, TLAPS

Statuses == {"draft", "published", "closed", "archived"}

(***************************************************************************)
(* Rows.                                                                   *)
(***************************************************************************)
LEMMA Fields ==
    ASSUME NEW p \in Poll
    PROVE  /\ p.status \in Statuses /\ p.window \in Windows /\ p.round \in Nat
           /\ p.joined \in BOOLEAN /\ p.repeats \in BOOLEAN
           /\ p # Null
BY NullAssumption DEF Poll, Statuses

LEMMA RowFields ==
    ASSUME TypeOK, NEW i \in Created
    PROVE  /\ i \in Rows /\ row[i] \in Poll
           /\ row[i].status \in Statuses /\ row[i].window \in Windows
           /\ row[i].round \in Nat /\ row[i].joined \in BOOLEAN /\ row[i].repeats \in BOOLEAN
BY Fields DEF Created, TypeOK

\* What an UPDATE of one row leaves alone.
LEMMA RowSet ==
    ASSUME TypeOK, NEW i \in Rows, NEW p \in Poll, row' = [row EXCEPT ![i] = p]
    PROVE  /\ row' \in [Rows -> Poll \cup {Null}] /\ row'[i] = p
           /\ \A j \in Rows \ {i} : row'[j] = row[j]
           /\ Created' = Created \cup {i}
           /\ Rounds' = IF p.joined THEN Rounds \cup {i} ELSE Rounds \ {i}
<1>1. /\ row' \in [Rows -> Poll \cup {Null}] /\ row'[i] = p
      /\ \A j \in Rows \ {i} : row'[j] = row[j]
  BY DEF TypeOK
<1>2. Created' = Created \cup {i}
  BY <1>1, Fields DEF Created
<1> QED BY <1>1, <1>2, Fields DEF Rounds, Created

\* setStatus.
LEMMA StatusSet ==
    ASSUME TypeOK, NEW i \in Created, NEW status \in Statuses, Write(i, status)
    PROVE  /\ row' \in [Rows -> Poll \cup {Null}]
           /\ \A j \in Rows \ {i} : row'[j] = row[j]
           /\ Created' = Created /\ Rounds' = Rounds
           /\ row'[i].status = status
           /\ row'[i].window = row[i].window /\ row'[i].joined = row[i].joined
           /\ row'[i].round = row[i].round /\ row'[i].repeats = row[i].repeats
<1> DEFINE p == [row[i] EXCEPT !.status = status]
<1>1. /\ p \in Poll /\ p.status = status /\ p.window = row[i].window
      /\ p.joined = row[i].joined /\ p.round = row[i].round /\ p.repeats = row[i].repeats
  BY RowFields DEF Poll, Statuses
<1>2. row' = [row EXCEPT ![i] = p] /\ i \in Rows
  BY DEF Write, Created
<1> HIDE DEF p
<1>3. /\ Created' = Created \cup {i}
      /\ Rounds' = IF p.joined THEN Rounds \cup {i} ELSE Rounds \ {i}
  BY <1>1, <1>2, RowSet
<1>4. IF p.joined THEN i \in Rounds ELSE i \notin Rounds
  BY <1>1 DEF Rounds
<1>5. Created' = Created /\ Rounds' = Rounds
  BY <1>3, <1>4
<1> QED BY <1>1, <1>2, <1>5, RowSet

\* setRepeatInterval.
LEMMA RepeatsSet ==
    ASSUME TypeOK, NEW i \in Created, NEW repeats \in BOOLEAN,
           row' = [row EXCEPT ![i].repeats = repeats]
    PROVE  /\ row' \in [Rows -> Poll \cup {Null}]
           /\ \A j \in Rows \ {i} : row'[j] = row[j]
           /\ Created' = Created /\ Rounds' = Rounds
           /\ row'[i].repeats = repeats
           /\ row'[i].window = row[i].window /\ row'[i].joined = row[i].joined
           /\ row'[i].round = row[i].round /\ row'[i].status = row[i].status
<1> DEFINE p == [row[i] EXCEPT !.repeats = repeats]
<1>1. /\ p \in Poll /\ p.repeats = repeats /\ p.window = row[i].window
      /\ p.joined = row[i].joined /\ p.round = row[i].round /\ p.status = row[i].status
  BY RowFields DEF Poll
<1>2. row' = [row EXCEPT ![i] = p] /\ i \in Rows
  BY DEF Created
<1> HIDE DEF p
<1>3. /\ Created' = Created \cup {i}
      /\ Rounds' = IF p.joined THEN Rounds \cup {i} ELSE Rounds \ {i}
  BY <1>1, <1>2, RowSet
<1>4. IF p.joined THEN i \in Rounds ELSE i \notin Rounds
  BY <1>1 DEF Rounds
<1>5. Created' = Created /\ Rounds' = Rounds
  BY <1>3, <1>4
<1> QED BY <1>1, <1>2, <1>5, RowSet

\* A poll that createPoll has committed: no round yet, and it does not repeat.
LEMMA DraftSet ==
    ASSUME TypeOK, NEW i \in Rows, row[i] = Null, NEW window \in Windows,
           row' = [row EXCEPT ![i] = Draft(window)]
    PROVE  /\ row' \in [Rows -> Poll \cup {Null}]
           /\ \A j \in Rows \ {i} : row'[j] = row[j]
           /\ Created' = Created \cup {i} /\ i \notin Created /\ Rounds' = Rounds
           /\ row'[i].status = "draft" /\ row'[i].repeats = FALSE
<1> DEFINE p == Draft(window)
<1>1. p \in Poll /\ p.status = "draft" /\ p.repeats = FALSE /\ p.joined = FALSE
  BY DEF Draft, Poll
<1> HIDE DEF p
<1>2. row' = [row EXCEPT ![i] = p]
  BY DEF p
<1>3. i \notin Created /\ Rounds \ {i} = Rounds
  BY DEF Created, Rounds
<1> QED BY <1>1, <1>2, <1>3, RowSet

\* joinSeries, with or without the interval.
LEMMA JoinSet ==
    ASSUME TypeOK, NEW i \in Created, NEW round \in Nat, NEW repeats \in BOOLEAN,
           row' = [row EXCEPT ![i] = [@ EXCEPT !.joined = TRUE, !.round = round,
                                               !.repeats = repeats]]
    PROVE  /\ row' \in [Rows -> Poll \cup {Null}]
           /\ \A j \in Rows \ {i} : row'[j] = row[j]
           /\ Created' = Created /\ Rounds' = Rounds \cup {i}
           /\ row'[i].repeats = repeats /\ row'[i].round = round
           /\ row'[i].window = row[i].window /\ row'[i].status = row[i].status
<1> DEFINE p == [row[i] EXCEPT !.joined = TRUE, !.round = round, !.repeats = repeats]
<1>1. /\ p \in Poll /\ p.repeats = repeats /\ p.window = row[i].window
      /\ p.joined = TRUE /\ p.round = round /\ p.status = row[i].status
  BY RowFields DEF Poll
<1>2. row' = [row EXCEPT ![i] = p] /\ i \in Rows /\ Created \cup {i} = Created
  BY DEF Created
<1> HIDE DEF p
<1> QED BY <1>1, <1>2, RowSet

(***************************************************************************)
(* Requests and rolls.                                                     *)
(***************************************************************************)
Ats == {"none", "start", "repeat", "publish", "close", "archive", "clear", "reread"}
Tasks == [at : Ats, id : Rows]
Rolls == [at : {"none", "create", "join", "publish"}, round : Nat, id : Rows]

LEMMA Begins ==
    ASSUME TypeOK, NEW o \in Ops, NEW at \in Ats, NEW i \in Rows, Begin(o, at, i)
    PROVE  /\ task' \in [Ops -> Tasks] /\ task[o].at = "none"
           /\ task'[o].at = at /\ task'[o].id = i
           /\ \A p \in Ops \ {o} : task'[p] = task[p]
           /\ overlap \/ Quiet
BY DEF Begin, CanStart, TypeOK, Ats, Tasks

LEMMA Steps ==
    ASSUME TypeOK, NEW o \in Ops, NEW from, NEW to \in Ats, Step(o, from, to)
    PROVE  /\ task' \in [Ops -> Tasks] /\ task[o].at = from
           /\ task'[o].at = to
           /\ to # "none" => task'[o].id = task[o].id
           /\ \A p \in Ops \ {o} : task'[p] = task[p]
<1>1. task[o] \in Tasks /\ NoTask \in Tasks /\ NoTask.at = "none"
  BY SeriesAssumption DEF TypeOK, Ats, Tasks, NoTask
<1> DEFINE t == IF to = "none" THEN NoTask ELSE [task[o] EXCEPT !.at = to]
<1>2. t \in Tasks /\ t.at = to /\ (to # "none" => t.id = task[o].id)
  BY <1>1 DEF Tasks
<1>3. task' = [task EXCEPT ![o] = t] /\ task[o].at = from
  BY DEF Step
<1> HIDE DEF t
<1> QED BY <1>2, <1>3 DEF TypeOK, Ats, Tasks

LEMMA RollSet ==
    ASSUME TypeOK, NEW h \in Rollers, NEW r \in Rolls, roll' = [roll EXCEPT ![h] = r]
    PROVE  /\ roll' \in [Rollers -> Rolls] /\ roll'[h] = r
           /\ \A g \in Rollers \ {h} : roll'[g] = roll[g]
BY DEF TypeOK, Rolls

LEMMA RollFields ==
    ASSUME TypeOK, NEW h \in Rollers
    PROVE  roll[h] \in Rolls /\ roll[h].round \in Nat /\ roll[h].id \in Rows
BY DEF TypeOK, Rolls

\* A roll begins at the round that closed.
LEMMA RollBegins ==
    ASSUME TypeOK, NEW h \in Rollers, NEW round \in Nat,
           roll' = [roll EXCEPT ![h] = [at |-> "create", round |-> round, id |-> First]]
    PROVE  /\ roll' \in [Rollers -> Rolls]
           /\ roll'[h].at = "create" /\ roll'[h].round = round
           /\ \A g \in Rollers \ {h} : roll'[g] = roll[g]
<1> DEFINE r == [at |-> "create", round |-> round, id |-> First]
<1>1. r \in Rolls /\ r.at = "create" /\ r.round = round
  BY SeriesAssumption DEF Rolls
<1> HIDE DEF r
<1>2. roll' = [roll EXCEPT ![h] = r]
  BY DEF r
<1> QED BY <1>1, <1>2, RollSet

-----------------------------------------------------------------------------
(***************************************************************************)
(* Steps of a request that write no row: the reads before a statement.     *)
(***************************************************************************)
LEMMA ReadInd ==
    ASSUME SeriesInd, NEW o \in Ops,
           \/ \E i \in Created :
                 BeginPublish(o, i) \/ BeginClose(o, i) \/ BeginArchive(o, i) \/ BeginEnd(o, i)
           \/ Reread(o)
    PROVE  SeriesInd'
<1> USE DEF SeriesInd
<1>1. UNCHANGED <<row, roll, due, ended, broken, overlap>>
  BY DEF BeginPublish, BeginClose, BeginArchive, BeginEnd, Reread
<1>2. /\ task' \in [Ops -> Tasks]
      /\ \A p \in Ops \ {o} : task'[p] = task[p]
      /\ task'[o].at # "none" => task'[o].id \in Created
      /\ task'[o].at \notin {"start", "repeat", "reread"}
      /\ task'[o].at = "publish" => row[task'[o].id].status = "draft"
      /\ task'[o].at = "close" => row[task'[o].id].status = "published"
      /\ task'[o].at = "clear" => task'[o].id \in Rounds
      /\ task'[o].at # "none" => overlap \/ Quiet \/ task[o].at # "none"
  <2>1. CASE Reread(o)
    <3>1. task[o].id \in Created
      BY <2>1 DEF Reread, Step, Grounded
    <3>2. PICK to \in {"close", "none"} :
             Step(o, "reread", to) /\ (to = "close" => Closable(task[o].id))
      BY <2>1 DEF Reread
    <3>3. /\ task' \in [Ops -> Tasks] /\ task[o].at = "reread" /\ task'[o].at = to
          /\ to # "none" => task'[o].id = task[o].id
          /\ \A p \in Ops \ {o} : task'[p] = task[p]
      BY <3>2, Steps DEF Ats
    <3> QED BY <3>1, <3>2, <3>3 DEF Closable
  <2>2. CASE ~Reread(o)
    <3>1. PICK i \in Created :
             BeginPublish(o, i) \/ BeginClose(o, i) \/ BeginArchive(o, i) \/ BeginEnd(o, i)
      BY <2>2
    <3>2. PICK at \in {"publish", "close", "archive", "clear"} :
             /\ Begin(o, at, i)
             /\ at = "publish" => row[i].status = "draft"
             /\ at = "close" => row[i].status = "published"
             /\ at = "clear" => i \in Rounds
      BY <3>1 DEF RoundsRepeat, BeginPublish, BeginClose, BeginArchive, BeginEnd, Closable
    <3>3. /\ task' \in [Ops -> Tasks] /\ task'[o].at = at /\ task'[o].id = i
          /\ \A p \in Ops \ {o} : task'[p] = task[p]
          /\ overlap \/ Quiet
      BY <3>2, Begins DEF Ats, Created
    <3> QED BY <3>2, <3>3
  <2> QED BY <2>1, <2>2
<1>3. Created' = Created /\ Rounds' = Rounds
  BY <1>1 DEF Created, Rounds
<1>4. TypeOK' /\ RoundsDistinct'
  BY <1>1, <1>2, <1>3 DEF TypeOK, Tasks, Ats, RoundsDistinct
<1>5. Grounded' /\ RoundsRepeat' /\ FirstLeads' /\ DraftsRoll'
  BY <1>1, <1>2, <1>3 DEF Grounded, RoundsRepeat, FirstLeads, DraftsRoll, Rolling
<1>6. OverForGood'
  BY <1>1, <1>2, <1>3 DEF OverForGood, Rolling, Over
<1>7. ASSUME ~overlap' PROVE InTurn'
  <2>1. ~overlap /\ InTurn
    BY <1>1, <1>7
  <2>2. OneAtATime'
    BY <1>1, <1>2, <2>1 DEF InTurn, OneAtATime, Rolling, Quiet
  <2>3. StillTrue'
    BY <1>1, <1>2, <1>3, <2>1 DEF InTurn, StillTrue
  <2>4. LastRuns'
    BY <1>1, <1>3, <2>1 DEF InTurn, LastRuns, Last, Over, Rolling
  <2> QED BY <2>2, <2>3, <2>4 DEF InTurn
<1> QED BY <1>4, <1>5, <1>6, <1>7

(***************************************************************************)
(* POST /polls.                                                            *)
(***************************************************************************)
LEMMA CreateInd ==
    ASSUME SeriesInd, NEW o \in Ops, Create(o)
    PROVE  SeriesInd'
<1>1. row[First] = Null /\ UNCHANGED <<roll, due, ended, broken, overlap>>
  BY DEF Create
<1>2. Created = {} /\ Rounds = {}
  BY <1>1 DEF SeriesInd, Grounded, Created, Rounds
<1>3. /\ due = {} /\ ended # "series"
      /\ \A h \in Rollers : ~Rolling(h)
      /\ \A p \in Ops : task[p].at = "none"
  BY <1>2 DEF SeriesInd, Grounded, RoundsRepeat, OverForGood
<1>4. /\ task' \in [Ops -> Tasks] /\ task'[o].at = "start" /\ task'[o].id = First
      /\ \A p \in Ops \ {o} : task'[p] = task[p]
  BY SeriesAssumption, Begins DEF Create, SeriesInd, Ats
<1>5. /\ row' \in [Rows -> Poll \cup {Null}]
      /\ Created' = {First} /\ Rounds' = {}
      /\ row'[First].repeats = FALSE
  BY <1>1, <1>2, SeriesAssumption, DraftSet DEF Create, SeriesInd
<1>6. TypeOK'
  BY <1>1, <1>4, <1>5 DEF SeriesInd, TypeOK, Tasks, Ats
<1>7. Grounded' /\ RoundsRepeat' /\ FirstLeads' /\ DraftsRoll' /\ RoundsDistinct'
  BY <1>1, <1>3, <1>4, <1>5
     DEF Grounded, RoundsRepeat, FirstLeads, DraftsRoll, RoundsDistinct, Rolling
<1>8. OverForGood'
  BY <1>1, <1>3 DEF OverForGood
<1>9. InTurn'
  BY <1>1, <1>3, <1>4, <1>5 DEF InTurn, OneAtATime, StillTrue, LastRuns, Last, Rolling
<1> QED BY <1>6, <1>7, <1>8, <1>9 DEF SeriesInd

\* startSeries.
LEMMA StartSet ==
    ASSUME TypeOK, First \in Created,
           row' = [row EXCEPT ![First].joined = TRUE, ![First].round = 1]
    PROVE  /\ row' \in [Rows -> Poll \cup {Null}] /\ row'[First].round = 1
           /\ \A j \in Rows \ {First} : row'[j] = row[j]
           /\ Created' = Created /\ Rounds' = Rounds \cup {First}
           /\ \A j \in Created : row'[j].status = row[j].status /\ row'[j].repeats = row[j].repeats
<1> DEFINE p == [[row[First] EXCEPT !.joined = TRUE] EXCEPT !.round = 1]
<1>1. /\ p \in Poll /\ p.joined = TRUE /\ p.round = 1
      /\ p.status = row[First].status /\ p.repeats = row[First].repeats
  BY RowFields DEF Poll
<1>2. row' = [row EXCEPT ![First] = p]
  OBVIOUS
<1> HIDE DEF p
<1>3. /\ row' \in [Rows -> Poll \cup {Null}] /\ row'[First] = p
      /\ \A j \in Rows \ {First} : row'[j] = row[j]
      /\ Created' = Created \cup {First}
      /\ Rounds' = IF p.joined THEN Rounds \cup {First} ELSE Rounds \ {First}
  BY <1>1, <1>2, SeriesAssumption, RowSet
<1>4. \A j \in Created : row'[j].status = row[j].status /\ row'[j].repeats = row[j].repeats
  BY <1>1, <1>3 DEF Created
<1> QED BY <1>1, <1>3, <1>4

LEMMA StartInd ==
    ASSUME SeriesInd, NEW o \in Ops, StartSeries(o)
    PROVE  SeriesInd'
<1>1. TypeOK /\ UNCHANGED <<roll, due, ended, broken, overlap>>
  BY DEF StartSeries, SeriesInd
<1>2. /\ task' \in [Ops -> Tasks] /\ task[o].at = "start"
      /\ task'[o].at = "repeat" /\ task'[o].id = task[o].id
      /\ \A q \in Ops \ {o} : task'[q] = task[q]
  BY <1>1, Steps DEF StartSeries, Ats
<1>3. First \in Created
  BY <1>2 DEF SeriesInd, Grounded
<1>4. /\ row' \in [Rows -> Poll \cup {Null}] /\ row'[First].round = 1
      /\ \A j \in Rows \ {First} : row'[j] = row[j]
      /\ Created' = Created /\ Rounds' = Rounds \cup {First}
  BY <1>1, <1>3, StartSet DEF StartSeries
<1>5. \A j \in Created : row'[j].status = row[j].status /\ row'[j].repeats = row[j].repeats
  BY <1>1, <1>3, StartSet DEF StartSeries
<1>6. TypeOK'
  BY <1>1, <1>2, <1>4 DEF TypeOK, Tasks, Ats
<1>7. Grounded' /\ RoundsRepeat'
  BY <1>1, <1>2, <1>3, <1>4, <1>5 DEF SeriesInd, Grounded, RoundsRepeat, Rolling
<1>8. FirstLeads' /\ DraftsRoll'
  BY <1>1, <1>3, <1>4, <1>5 DEF SeriesInd, Grounded, FirstLeads, DraftsRoll, Rolling, Rounds
<1>9. OverForGood'
  BY <1>1, <1>2 DEF SeriesInd, OverForGood
<1>10. ASSUME ~overlap' PROVE InTurn' /\ RoundsDistinct'
  <2>1. ~overlap /\ InTurn /\ Rounds' = {First}
    BY <1>1, <1>2, <1>4, <1>10 DEF SeriesInd, InTurn, StillTrue, RoundsRepeat
  <2>2. due = {} /\ \A h \in Rollers : ~Rolling(h)
    BY <1>2, <2>1 DEF InTurn, OneAtATime
  <2>3. OneAtATime'
    BY <1>1, <1>2, <2>1, <2>2 DEF InTurn, OneAtATime, Rolling
  <2>4. StillTrue'
    BY <1>2, <2>1 DEF InTurn, OneAtATime, StillTrue
  <2>5. LastRuns'
    BY <1>1, <1>4, <2>1, <2>2 DEF LastRuns, Rolling
  <2> QED BY <2>1, <2>3, <2>4, <2>5 DEF InTurn, RoundsDistinct
<1> QED BY <1>6, <1>7, <1>8, <1>9, <1>10 DEF SeriesInd, RoundsDistinct

LEMMA RepeatInd ==
    ASSUME SeriesInd, NEW o \in Ops, SetRepeatInterval(o)
    PROVE  SeriesInd'
<1>1. TypeOK /\ UNCHANGED <<roll, due, ended, broken, overlap>>
  BY DEF SetRepeatInterval, SeriesInd
<1>2. /\ task' \in [Ops -> Tasks] /\ task[o].at = "repeat" /\ task'[o].at = "none"
      /\ \A q \in Ops \ {o} : task'[q] = task[q]
  BY <1>1, Steps DEF SetRepeatInterval, Ats
<1>3. First \in Created /\ First \in Rounds
  BY <1>2 DEF SeriesInd, Grounded, RoundsRepeat
<1>4. /\ row' \in [Rows -> Poll \cup {Null}]
      /\ \A j \in Rows \ {First} : row'[j] = row[j]
      /\ Created' = Created /\ Rounds' = Rounds
      /\ row'[First].round = row[First].round /\ row'[First].status = row[First].status
  BY <1>1, <1>3, RepeatsSet DEF SetRepeatInterval
<1>5. \A j \in Created : /\ row'[j].status = row[j].status /\ row'[j].round = row[j].round
                         /\ j # First => row'[j].repeats = row[j].repeats
  BY <1>4 DEF Created
<1>6. Rounds \subseteq Created
  BY DEF Rounds
<1>7. TypeOK'
  BY <1>1, <1>2, <1>4 DEF TypeOK, Tasks, Ats
<1>8. Grounded' /\ RoundsRepeat' /\ FirstLeads' /\ DraftsRoll' /\ RoundsDistinct'
  BY <1>1, <1>2, <1>3, <1>4, <1>5, <1>6
     DEF SeriesInd, Grounded, RoundsRepeat, FirstLeads, DraftsRoll, RoundsDistinct, Rolling
<1>9. OverForGood'
  BY <1>1, <1>2 DEF SeriesInd, OverForGood
<1>10. ASSUME ~overlap' PROVE InTurn'
  <2>1. InTurn /\ due = {} /\ \A h \in Rollers : ~Rolling(h)
    BY <1>1, <1>2, <1>10 DEF SeriesInd, InTurn, OneAtATime
  <2>2. OneAtATime' /\ StillTrue'
    BY <1>1, <1>2, <2>1 DEF InTurn, OneAtATime, StillTrue, Rolling
  <2>3. LastRuns'
    BY <1>1, <1>4, <1>5, <1>6, <2>1 DEF InTurn, LastRuns, Last, Over, Rolling
  <2> QED BY <2>2, <2>3 DEF InTurn
<1> QED BY <1>7, <1>8, <1>9, <1>10 DEF SeriesInd

(***************************************************************************)
(* publish, archive, close and endSeries.                                  *)
(***************************************************************************)
\* A statement writes the status of one row, which is not a draft afterwards.
LEMMA StatusInd ==
    ASSUME SeriesInd, NEW o \in Ops, Publish(o) \/ Archive(o)
    PROVE  SeriesInd'
<1> DEFINE i == task[o].id
<1>1. TypeOK /\ UNCHANGED <<roll, due, ended, broken, overlap>>
  BY DEF Publish, Archive, SeriesInd
<1>2. /\ task' \in [Ops -> Tasks] /\ task[o].at \in {"publish", "archive"}
      /\ task'[o].at = "none"
      /\ \A p \in Ops \ {o} : task'[p] = task[p]
      /\ Publish(o) => task[o].at = "publish"
  <2>1. PICK from \in {"publish", "archive"} :
           Step(o, from, "none") /\ (Publish(o) => from = "publish")
    BY DEF Publish, Archive, Step
  <2> QED BY <1>1, <2>1, Steps DEF Ats
<1>3. i \in Created
  BY <1>2 DEF SeriesInd, Grounded
<1>4. PICK status \in {"published", "archived"} :
         /\ Write(i, status)
         /\ status = "published" => task[o].at = "publish"
  BY <1>2 DEF Publish, Archive
<1> HIDE DEF i
<1>5. /\ row' \in [Rows -> Poll \cup {Null}]
      /\ \A j \in Rows \ {i} : row'[j] = row[j]
      /\ Created' = Created /\ Rounds' = Rounds
      /\ row'[i].status = status
      /\ row'[i].round = row[i].round /\ row'[i].repeats = row[i].repeats
  BY <1>1, <1>3, <1>4, StatusSet DEF Statuses
<1>6. \A j \in Created :
         /\ row'[j].round = row[j].round /\ row'[j].repeats = row[j].repeats
         /\ j # i => row'[j].status = row[j].status
  BY <1>5 DEF Created
<1>7. Rounds \subseteq Created
  BY DEF Rounds
<1>8. TypeOK'
  BY <1>1, <1>2, <1>5 DEF TypeOK, Tasks, Ats
<1>9. Grounded' /\ RoundsRepeat' /\ RoundsDistinct'
  BY <1>1, <1>2, <1>5, <1>6, <1>7
     DEF SeriesInd, Grounded, RoundsRepeat, RoundsDistinct, Rolling
<1>10. FirstLeads' /\ DraftsRoll'
  BY <1>1, <1>2, <1>5, <1>6, <1>7
     DEF SeriesInd, Grounded, FirstLeads, DraftsRoll, Rolling
<1>11. OverForGood'
  <2>1. status = "published" => i = task[o].id /\ task[o].at = "publish"
    BY <1>4 DEF i
  <2> QED BY <1>1, <1>2, <1>4, <1>5, <1>6, <2>1 DEF SeriesInd, OverForGood, Over, Rolling
<1>12. ASSUME ~overlap' PROVE InTurn'
  <2>1. InTurn /\ due = {} /\ \A h \in Rollers : ~Rolling(h)
    BY <1>1, <1>2, <1>12 DEF SeriesInd, InTurn, OneAtATime
  <2>2. OneAtATime' /\ StillTrue'
    BY <1>1, <1>2, <2>1 DEF InTurn, OneAtATime, StillTrue, Rolling
  <2>3. status = "published" => row[i].status = "draft"
    BY <1>4, <2>1 DEF InTurn, StillTrue, i
  <2>4. \A j, k \in Rounds : row[j].round < row[k].round => Over(j)
    BY <2>1 DEF InTurn, LastRuns
  <2>5. \A j \in Rounds : Over(j) => row'[j].status \in {"closed", "archived"}
    BY <1>4, <1>5, <1>6, <1>7, <2>3 DEF Over
  <2>6. LastRuns'
    BY <1>1, <1>5, <1>6, <1>7, <2>1, <2>4, <2>5 DEF LastRuns, Over, Rolling
  <2> QED BY <2>2, <2>6 DEF InTurn
<1> QED BY <1>8, <1>9, <1>10, <1>11, <1>12 DEF SeriesInd

LEMMA CloseInd ==
    ASSUME SeriesInd, NEW o \in Ops, Close(o)
    PROVE  SeriesInd'
<1> DEFINE i == task[o].id
<1>1. TypeOK /\ o \in Rollers /\ roll[o].at = "none" /\ UNCHANGED <<due, ended, broken, overlap>>
  BY DEF Close, SeriesInd, Rollers
<1>2. /\ task' \in [Ops -> Tasks] /\ task[o].at = "close" /\ task'[o].at = "none"
      /\ \A p \in Ops \ {o} : task'[p] = task[p]
  BY <1>1, Steps DEF Close, Ats
<1>3. i \in Created
  BY <1>2 DEF SeriesInd, Grounded
<1>4. /\ Write(i, "closed")
      /\ roll' = IF row[i].repeats
                 THEN [roll EXCEPT ![o] = [at |-> "create", round |-> row[i].round, id |-> First]]
                 ELSE roll
  BY DEF Close
<1>5. ended = "series" => ~row[i].repeats
  BY <1>2, <1>3 DEF SeriesInd, OverForGood
<1>6. ~overlap => row[i].status = "published"
  BY <1>2 DEF SeriesInd, InTurn, StillTrue
<1> HIDE DEF i
<1>7. /\ row' \in [Rows -> Poll \cup {Null}]
      /\ \A j \in Rows \ {i} : row'[j] = row[j]
      /\ Created' = Created /\ Rounds' = Rounds
      /\ row'[i].status = "closed"
      /\ row'[i].round = row[i].round /\ row'[i].repeats = row[i].repeats
  BY <1>1, <1>3, <1>4, StatusSet DEF Statuses
<1>8. \A j \in Created :
         /\ row'[j].round = row[j].round /\ row'[j].repeats = row[j].repeats
         /\ row[j].round \in Nat
         /\ j # i => row'[j].status = row[j].status
  BY <1>1, <1>7, RowFields DEF Created
<1>9. Rounds \subseteq Created
  BY DEF Rounds
<1>10. /\ roll' \in [Rollers -> Rolls]
       /\ \A h \in Rollers \ {o} : roll'[h] = roll[h]
       /\ row[i].repeats => roll'[o].at = "create" /\ roll'[o].round = row[i].round
       /\ ~row[i].repeats => roll' = roll
  <2>1. CASE row[i].repeats
    BY <1>1, <1>3, <1>4, <1>8, <2>1, RollBegins
  <2>2. CASE ~row[i].repeats
    BY <1>1, <1>4, <2>2 DEF TypeOK, Rolls
  <2> QED BY <2>1, <2>2
<1>11. TypeOK'
  BY <1>1, <1>2, <1>7, <1>10 DEF TypeOK, Tasks, Ats, Rolls
<1>12. row[i].repeats => i \in Rounds /\ First \in Rounds
  BY <1>3 DEF SeriesInd, RoundsRepeat
<1>13. Grounded' /\ RoundsRepeat' /\ RoundsDistinct'
  BY <1>1, <1>2, <1>7, <1>8, <1>9, <1>10, <1>12
     DEF SeriesInd, Grounded, RoundsRepeat, RoundsDistinct, Rolling
<1>14. FirstLeads' /\ DraftsRoll'
  BY <1>1, <1>2, <1>7, <1>8, <1>9, <1>10, <1>12
     DEF SeriesInd, Grounded, FirstLeads, DraftsRoll, Rolling
<1>15. OverForGood'
  BY <1>1, <1>2, <1>5, <1>7, <1>8, <1>10 DEF SeriesInd, OverForGood, Over, Rolling
<1>16. ASSUME ~overlap' PROVE InTurn'
  <2>1. InTurn /\ due = {} /\ \A h \in Rollers : ~Rolling(h)
    BY <1>1, <1>2, <1>16 DEF SeriesInd, InTurn, OneAtATime
  <2>2. OneAtATime'
    BY <1>1, <1>2, <1>10, <2>1 DEF InTurn, OneAtATime, Rolling
  <2>3. StillTrue'
    BY <1>2, <2>1 DEF InTurn, OneAtATime, StillTrue
  <2>4. \A j, k \in Rounds : row[j].round < row[k].round => Over(j)
    BY <2>1 DEF InTurn, LastRuns
  <2>5. \A j \in Rounds : Over(j) \/ j = i => row'[j].status \in {"closed", "archived"}
    BY <1>7, <1>8, <1>9 DEF Over
  <2>6. i \in Rounds => \A j \in Rounds : row[j].round <= row[i].round
    BY <1>1, <1>6, <1>8, <1>9, <1>16, <2>4 DEF Over
  <2>7. \A j \in Rounds : i \in Rounds /\ j # i => Over(j)
    <3> SUFFICES ASSUME NEW j \in Rounds, i \in Rounds, j # i PROVE Over(j)
      OBVIOUS
    <3>1. row[j].round # row[i].round
      BY <1>1, <1>16 DEF SeriesInd, RoundsDistinct
    <3> QED BY <1>8, <1>9, <2>4, <2>6, <3>1
  <2>8. LastRuns'
    BY <1>1, <1>7, <1>8, <1>9, <1>10, <1>12, <2>1, <2>4, <2>5, <2>6, <2>7
       DEF LastRuns, Last, Over, Rolling
  <2> QED BY <2>2, <2>3, <2>8 DEF InTurn
<1> QED BY <1>11, <1>13, <1>14, <1>15, <1>16 DEF SeriesInd

LEMMA ClearInd ==
    ASSUME SeriesInd, NEW o \in Ops, Clear(o)
    PROVE  SeriesInd'
<1> DEFINE i == task[o].id
<1>1. TypeOK /\ UNCHANGED <<roll, due, broken, overlap>>
  BY DEF Clear, SeriesInd
<1>2. /\ task' \in [Ops -> Tasks] /\ task[o].at = "clear" /\ task'[o].at \in {"reread", "none"}
      /\ task'[o].at = "reread" => task'[o].id = i
      /\ \A p \in Ops \ {o} : task'[p] = task[p]
  <2>1. PICK to \in {"reread", "none"} : Step(o, "clear", to)
    BY DEF Clear
  <2> QED BY <1>1, <2>1, Steps DEF Ats
<1>3. i \in Created /\ i \in Rounds /\ First \in Rounds
  BY <1>2 DEF SeriesInd, Grounded, RoundsRepeat
<1>4. row' = [row EXCEPT ![i].repeats = FALSE] /\ ended' = Ended(o, i)
  BY DEF Clear
<1>5. /\ ended' \in {"no", "round", "series"}
      /\ ended' = "series" => ended = "series" \/ (LastRunning(i) /\ Alone(o))
  BY <1>1, <1>4 DEF Ended, TypeOK
<1> HIDE DEF i
<1>6. /\ row' \in [Rows -> Poll \cup {Null}]
      /\ \A j \in Rows \ {i} : row'[j] = row[j]
      /\ Created' = Created /\ Rounds' = Rounds
      /\ row'[i].repeats = FALSE
      /\ row'[i].round = row[i].round /\ row'[i].status = row[i].status
  BY <1>1, <1>3, <1>4, RepeatsSet
<1>7. \A j \in Created :
         /\ row'[j].round = row[j].round /\ row'[j].status = row[j].status
         /\ row'[j].repeats => row[j].repeats /\ j # i
  BY <1>6 DEF Created
<1>8. Rounds \subseteq Created
  BY DEF Rounds
<1>9. TypeOK'
  BY <1>1, <1>2, <1>5, <1>6 DEF TypeOK, Tasks, Ats
<1>10. Grounded' /\ RoundsRepeat' /\ FirstLeads' /\ DraftsRoll' /\ RoundsDistinct'
  BY <1>1, <1>2, <1>3, <1>6, <1>7, <1>8
     DEF SeriesInd, Grounded, RoundsRepeat, FirstLeads, DraftsRoll, RoundsDistinct, Rolling
<1>11. OverForGood'
  <2>1. CASE ended = "series"
    BY <1>1, <1>2, <1>3, <1>6, <1>7, <2>1 DEF SeriesInd, OverForGood, Over, Rolling
  <2>2. CASE LastRunning(i) /\ Alone(o)
    <3>1. /\ due = {} /\ \A h \in Rollers : ~Rolling(h)
          /\ \A p \in Ops \ {o} : task[p].at = "none"
      BY <2>2 DEF Alone, Rolling
    <3>2. \A j \in Created : row'[j].repeats => j # i /\ row'[j].status \in {"closed", "archived"}
      BY <1>7, <2>2 DEF SeriesInd, RoundsRepeat, LastRunning, Over
    <3> QED BY <1>1, <1>2, <1>3, <1>6, <3>1, <3>2 DEF OverForGood, Over, Rolling
  <2>3. CASE ended' # "series"
    BY <2>3 DEF OverForGood
  <2> QED BY <1>5, <2>1, <2>2, <2>3
<1>12. ASSUME ~overlap' PROVE InTurn'
  <2>1. InTurn
    BY <1>1, <1>12 DEF SeriesInd
  <2>2. OneAtATime' /\ StillTrue'
    BY <1>1, <1>2, <2>1 DEF InTurn, OneAtATime, StillTrue, Rolling
  <2>3. LastRuns'
    BY <1>1, <1>2, <1>6, <1>7, <1>8, <2>1 DEF InTurn, OneAtATime, LastRuns, Last, Over, Rolling
  <2> QED BY <2>2, <2>3 DEF InTurn
<1> QED BY <1>9, <1>10, <1>11, <1>12 DEF SeriesInd

-----------------------------------------------------------------------------
(***************************************************************************)
(* The scheduler.                                                          *)
(***************************************************************************)
LEMMA CloseDueSet ==
    ASSUME TypeOK, CloseDue
    PROVE  /\ row' \in [Rows -> Poll \cup {Null}]
           /\ Created' = Created /\ Rounds' = Rounds
           /\ \A j \in Created :
                 /\ row[j].round \in Nat
                 /\ row'[j].round = row[j].round /\ row'[j].repeats = row[j].repeats
                 /\ row'[j].status = IF j \in DueNow THEN "closed" ELSE row[j].status
<1>1. \A j \in DueNow : j \in Created /\ row[j].status = "published"
  BY DEF DueNow
<1>2. \A j \in DueNow : [row[j] EXCEPT !.status = "closed"] \in Poll \ {Null}
  BY <1>1, RowFields, NullAssumption DEF Poll
<1>3. \A j \in Rows : row'[j] = IF j \in DueNow THEN [row[j] EXCEPT !.status = "closed"] ELSE row[j]
  BY DEF CloseDue
<1>4. row' \in [Rows -> Poll \cup {Null}]
  BY <1>2 DEF CloseDue, TypeOK
<1>5. \A j \in Created :
         /\ row'[j] # Null /\ row[j].round \in Nat
         /\ row'[j].round = row[j].round /\ row'[j].repeats = row[j].repeats
         /\ row'[j].joined = row[j].joined
         /\ row'[j].status = IF j \in DueNow THEN "closed" ELSE row[j].status
  <2> SUFFICES ASSUME NEW j \in Created
               PROVE  /\ row'[j] # Null /\ row[j].round \in Nat
                      /\ row'[j].round = row[j].round /\ row'[j].repeats = row[j].repeats
                      /\ row'[j].joined = row[j].joined
                      /\ row'[j].status = IF j \in DueNow THEN "closed" ELSE row[j].status
    OBVIOUS
  <2>1. row[j] \in Poll /\ j \in Rows /\ row[j] # Null
    BY RowFields DEF Created
  <2>2. CASE j \in DueNow
    BY <1>2, <1>3, <2>1, <2>2 DEF Poll
  <2>3. CASE j \notin DueNow
    BY <1>3, <2>1, <2>3 DEF Poll
  <2> QED BY <2>2, <2>3
<1>6. Created' = Created /\ Rounds' = Rounds
  <2>1. \A j \in Rows : (row'[j] # Null) <=> (row[j] # Null)
    BY <1>1, <1>3, <1>5 DEF Created
  <2> QED BY <1>5, <2>1 DEF Created, Rounds
<1> QED BY <1>4, <1>5, <1>6

LEMMA CloseDueInd ==
    ASSUME SeriesInd, CloseDue
    PROVE  SeriesInd'
<1>1. /\ TypeOK /\ UNCHANGED <<task, roll, ended, broken, overlap>>
      /\ due' = DueNow /\ (overlap \/ Quiet)
  BY DEF CloseDue, CanStart, SeriesInd
<1>2. \A j \in DueNow : j \in Created /\ row[j].status = "published"
  BY DEF DueNow
<1>3. row' \in [Rows -> Poll \cup {Null}]
  BY <1>1, CloseDueSet
<1>4. \A j \in Created :
         /\ row[j].round \in Nat
         /\ row'[j].round = row[j].round /\ row'[j].repeats = row[j].repeats
         /\ row'[j].status = IF j \in DueNow THEN "closed" ELSE row[j].status
  BY <1>1, CloseDueSet
<1>5. Created' = Created /\ Rounds' = Rounds /\ Rounds \subseteq Created
  BY <1>1, CloseDueSet DEF Rounds
<1>6. TypeOK' /\ Grounded' /\ RoundsDistinct'
  BY <1>1, <1>2, <1>3, <1>4, <1>5, RowFields DEF SeriesInd, TypeOK, Grounded, RoundsDistinct
<1>7. RoundsRepeat' /\ FirstLeads' /\ DraftsRoll'
  BY <1>1, <1>2, <1>4, <1>5 DEF SeriesInd, RoundsRepeat, FirstLeads, DraftsRoll, Rolling
<1>8. OverForGood'
  BY <1>1, <1>2, <1>4, <1>5 DEF SeriesInd, OverForGood, Over, Rolling
<1>9. ASSUME ~overlap' PROVE InTurn'
  <2>1. InTurn /\ (\A h \in Rollers : ~Rolling(h)) /\ \A o \in Ops : task[o].at = "none"
    BY <1>1, <1>9 DEF SeriesInd, Quiet, Rolling
  <2>2. OneAtATime' /\ StillTrue'
    BY <1>1, <2>1 DEF InTurn, OneAtATime, StillTrue, Rolling, Rollers
  <2>3. \A j, k \in Rounds : row[j].round < row[k].round => Over(j)
    BY <2>1 DEF InTurn, LastRuns
  <2>4. \A j \in Rounds : Over(j) \/ j \in DueNow => row'[j].status \in {"closed", "archived"}
    BY <1>4, <1>5 DEF Over
  <2>5. ASSUME NEW i \in DueNow, row[i].repeats
        PROVE  \A j \in Rounds : /\ row[j].round <= row[i].round
                                 /\ j # i => Over(j)
    <3>1. i \in Rounds /\ ~Over(i)
      BY <1>2, <2>5 DEF SeriesInd, RoundsRepeat, Over
    <3>2. \A j \in Rounds : row[j].round <= row[i].round
      BY <1>4, <1>5, <2>3, <3>1
    <3>3. \A j \in Rounds : j # i => row[j].round # row[i].round
      BY <1>1, <1>9, <3>1 DEF SeriesInd, RoundsDistinct
    <3> QED BY <1>4, <1>5, <2>3, <3>1, <3>2, <3>3
  <2>6. LastRuns'
    BY <1>1, <1>2, <1>4, <1>5, <2>1, <2>3, <2>4, <2>5 DEF LastRuns, Last, Over, Rolling
  <2> QED BY <2>2, <2>6 DEF InTurn
<1> QED BY <1>6, <1>7, <1>8, <1>9 DEF SeriesInd

LEMMA FindInd ==
    ASSUME SeriesInd, NEW i \in Created, Find(i)
    PROVE  SeriesInd'
<1>1. /\ TypeOK /\ UNCHANGED <<row, task, ended, broken, overlap>>
      /\ i \in due /\ due' = due \ {i}
      /\ Scheduler \in Rollers /\ roll[Scheduler].at = "none"
  BY DEF Find, SeriesInd, Rollers
<1>2. Created' = Created /\ Rounds' = Rounds /\ Rounds \subseteq Created
  BY <1>1 DEF Created, Rounds
<1>3. \A j \in Created : row[j].round \in Nat
  BY <1>1, RowFields
<1>4. /\ roll' \in [Rollers -> Rolls]
      /\ \A h \in Rollers \ {Scheduler} : roll'[h] = roll[h]
      /\ row[i].repeats => roll'[Scheduler].at = "create" /\ roll'[Scheduler].round = row[i].round
      /\ ~row[i].repeats => roll' = roll
  <2>1. CASE row[i].repeats
    BY <1>1, <1>3, <2>1, RollBegins DEF Find
  <2>2. CASE ~row[i].repeats
    BY <1>1, <2>2 DEF Find, TypeOK, Rolls
  <2> QED BY <2>1, <2>2
<1>5. row[i].repeats => i \in Rounds /\ First \in Rounds /\ ended # "series"
  BY <1>1 DEF SeriesInd, RoundsRepeat, OverForGood
<1>6. TypeOK' /\ RoundsDistinct'
  BY <1>1, <1>2, <1>4 DEF SeriesInd, TypeOK, Rolls, RoundsDistinct
<1>7. Grounded' /\ RoundsRepeat'
  BY <1>1, <1>2, <1>4, <1>5 DEF SeriesInd, Grounded, RoundsRepeat, Rolling
<1>8. FirstLeads'
  <2>1. row[i].repeats => First \in Created /\ row[First].status # "draft"
    BY <1>1, <1>2, <1>5 DEF SeriesInd, FirstLeads
  <2> QED BY <1>1, <1>2, <1>4, <2>1 DEF SeriesInd, FirstLeads, Rolling
<1>9. DraftsRoll' /\ OverForGood'
  BY <1>1, <1>2, <1>4, <1>5 DEF SeriesInd, DraftsRoll, OverForGood, Over, Rolling
<1>10. ASSUME ~overlap' PROVE InTurn'
  <2>1. /\ InTurn /\ (\A h \in Rollers : ~Rolling(h)) /\ \A o \in Ops : task[o].at = "none"
    BY <1>1, <1>10 DEF SeriesInd, InTurn, OneAtATime, Rolling, Rollers
  <2>2. OneAtATime' /\ StillTrue'
    <3>1. \A h \in Rollers : roll'[h].at # "none" => h = Scheduler
      BY <1>4, <2>1 DEF Rolling
    <3>2. \A o \in Ops : o \in Rollers /\ o # Scheduler
      BY SeriesAssumption DEF Rollers
    <3>3. OneAtATime'
      BY <1>1, <2>1, <3>1, <3>2 DEF OneAtATime, Rolling
    <3>4. StillTrue'
      BY <1>1, <2>1 DEF StillTrue
    <3> QED BY <3>3, <3>4
  <2>3. ASSUME NEW k \in due, k # i, row[k].repeats, row[i].repeats PROVE FALSE
    <3>1. k \in Rounds /\ i \in Rounds
      BY <1>1, <2>3 DEF SeriesInd, RoundsRepeat, Grounded
    <3>2. row[k].round <= row[i].round /\ row[i].round <= row[k].round
      BY <1>1, <2>1, <2>3, <3>1 DEF InTurn, LastRuns, Last
    <3>3. row[k].round # row[i].round
      BY <1>1, <1>10, <2>3, <3>1 DEF SeriesInd, RoundsDistinct
    <3> QED BY <1>2, <1>3, <3>1, <3>2, <3>3
  <2>4. row[i].repeats => /\ \A j \in Rounds : row[j].round <= row[i].round
                          /\ \A j \in Rounds : Over(j)
    BY <1>1, <2>1 DEF InTurn, LastRuns, Last
  <2>5. LastRuns'
    BY <1>1, <1>2, <1>4, <2>1, <2>3, <2>4 DEF InTurn, LastRuns, Last, Over, Rolling
  <2> QED BY <2>2, <2>5 DEF InTurn
<1> QED BY <1>6, <1>7, <1>8, <1>9, <1>10 DEF SeriesInd

-----------------------------------------------------------------------------
(***************************************************************************)
(* rollSeries.                                                             *)
(***************************************************************************)
LEMMA NewRowFree ==
    ASSUME Rows # Created \cup {First}
    PROVE  NewRow \in Rows \ {First} /\ row[NewRow] = Null
<1>1. \E i \in Rows \ {First} : row[i] = Null
  BY SeriesAssumption DEF Created
<1> QED BY <1>1 DEF NewRow

LEMMA RollCreateInd ==
    ASSUME SeriesInd, NEW h \in Rollers, RollCreate(h)
    PROVE  SeriesInd'
<1> DEFINE i == NewRow
           r == [[roll[h] EXCEPT !.at = "join"] EXCEPT !.id = i]
<1>1. /\ TypeOK /\ UNCHANGED <<task, due, ended, broken, overlap>>
      /\ roll[h].at = "create" /\ Rolling(h)
  BY DEF RollCreate, SeriesInd, Rolling
<1>2. i \in Rows \ {First} /\ row[i] = Null
  BY NewRowFree DEF RollCreate
<1>3. PICK window \in Windows : row' = [row EXCEPT ![i] = Draft(window)]
  BY DEF RollCreate, Windows
<1>4. roll' = [roll EXCEPT ![h] = r] /\ r \in Rolls /\ r.at = "join" /\ r.id = i
      /\ r.round = roll[h].round
  BY <1>1, <1>2, RollFields DEF RollCreate, Rolls
<1> HIDE DEF i, r
<1>5. /\ row' \in [Rows -> Poll \cup {Null}]
      /\ \A j \in Rows \ {i} : row'[j] = row[j]
      /\ Created' = Created \cup {i} /\ i \notin Created /\ Rounds' = Rounds
      /\ row'[i].status = "draft" /\ row'[i].repeats = FALSE
  BY <1>1, <1>2, <1>3, DraftSet
<1>6. \A j \in Created : row'[j] = row[j] /\ j # i
  BY <1>5 DEF Created
<1>7. /\ roll' \in [Rollers -> Rolls]
      /\ roll'[h].at = "join" /\ roll'[h].id = i /\ roll'[h].round = roll[h].round
      /\ \A g \in Rollers \ {h} : roll'[g] = roll[g]
  BY <1>1, <1>4, RollSet
<1>8. /\ First \in Rounds /\ First \in Created /\ Rounds \subseteq Created
      /\ due \subseteq Created /\ ended # "series"
  BY <1>1 DEF SeriesInd, RoundsRepeat, Grounded, Rounds, OverForGood
<1>9. TypeOK' /\ RoundsDistinct'
  BY <1>1, <1>5, <1>6, <1>7, <1>8 DEF SeriesInd, TypeOK, Rolls, RoundsDistinct
<1>10. Grounded' /\ RoundsRepeat'
  BY <1>1, <1>5, <1>6, <1>7, <1>8 DEF SeriesInd, Grounded, RoundsRepeat, Rolling
<1>11. FirstLeads' /\ DraftsRoll' /\ OverForGood'
  BY <1>1, <1>5, <1>6, <1>7, <1>8 DEF SeriesInd, FirstLeads, DraftsRoll, OverForGood, Rolling
<1>12. ASSUME ~overlap' PROVE InTurn'
  <2>1. /\ InTurn /\ (\A g \in Rollers : Rolling(g) => g = h)
        /\ \A o \in Ops : task[o].at = "none"
    BY <1>1, <1>12 DEF SeriesInd, InTurn, OneAtATime
  <2>2. \A g \in Rollers : roll'[g].at # "none" => g = h
    BY <1>7, <2>1 DEF Rolling
  <2>3. OneAtATime' /\ StillTrue'
    BY <1>1, <2>1, <2>2 DEF InTurn, OneAtATime, StillTrue, Rolling, Rollers
  <2>4. LastRuns'
    BY <1>1, <1>5, <1>6, <1>7, <1>8, <2>1, <2>2 DEF InTurn, LastRuns, Last, Over, Rolling
  <2> QED BY <2>3, <2>4 DEF InTurn
<1> QED BY <1>9, <1>10, <1>11, <1>12 DEF SeriesInd

LEMMA RollJoinInd ==
    ASSUME SeriesInd, NEW h \in Rollers, RollJoin(h)
    PROVE  SeriesInd'
<1> DEFINE i == roll[h].id
           r == [roll[h] EXCEPT !.at = "publish"]
           next == roll[h].round + 1
<1>1. /\ TypeOK /\ UNCHANGED <<task, due, ended, broken, overlap>>
      /\ roll[h].at = "join" /\ Rolling(h)
  BY DEF RollJoin, SeriesInd, Rolling
<1>2. i \in Created /\ next \in Nat
  BY <1>1, RollFields DEF SeriesInd, Grounded
<1>3. row' = [row EXCEPT ![i] = [@ EXCEPT !.joined = TRUE, !.round = next, !.repeats = TRUE]]
  BY DEF RollJoin
<1>4. /\ roll' = [roll EXCEPT ![h] = r] /\ r \in Rolls /\ r.at = "publish" /\ r.id = i
      /\ roll[h].round \in Nat /\ next = roll[h].round + 1
  BY <1>1, RollFields DEF RollJoin, Rolls
<1>5. \A g \in Rollers : roll[g].at = "publish" => roll[g].id \in Created
  BY DEF SeriesInd, Grounded
<1>6. ~overlap => i \notin due
  BY <1>1 DEF SeriesInd, InTurn, LastRuns
<1> HIDE DEF i, r, next
<1>7. /\ row' \in [Rows -> Poll \cup {Null}]
      /\ \A j \in Rows \ {i} : row'[j] = row[j]
      /\ Created' = Created /\ Rounds' = Rounds \cup {i}
      /\ row'[i].repeats = TRUE /\ row'[i].round = next
      /\ row'[i].status = row[i].status
  BY <1>1, <1>2, <1>3, JoinSet
<1>8. \A j \in Created : /\ row'[j].status = row[j].status
                         /\ j # i => row'[j] = row[j]
                         /\ row[j].round \in Nat
  BY <1>1, <1>7, RowFields DEF Created
<1>9. /\ roll' \in [Rollers -> Rolls]
      /\ roll'[h].at = "publish" /\ roll'[h].id = i
      /\ \A g \in Rollers \ {h} : roll'[g] = roll[g]
  BY <1>1, <1>4, RollSet
<1>10. /\ First \in Rounds /\ First \in Created /\ Rounds \subseteq Created
       /\ row[First].status # "draft" /\ ended # "series" /\ due \subseteq Created
  BY <1>1 DEF SeriesInd, RoundsRepeat, Grounded, Rounds, FirstLeads, OverForGood
<1>11. TypeOK'
  BY <1>1, <1>7, <1>9 DEF TypeOK, Rolls
<1>12. Grounded' /\ RoundsRepeat'
  BY <1>1, <1>2, <1>7, <1>8, <1>9, <1>10 DEF SeriesInd, Grounded, RoundsRepeat, Rolling
<1>13. FirstLeads' /\ DraftsRoll' /\ OverForGood'
  BY <1>1, <1>2, <1>7, <1>8, <1>9, <1>10
     DEF SeriesInd, FirstLeads, DraftsRoll, OverForGood, Rolling
<1>14. ASSUME ~overlap' PROVE InTurn' /\ RoundsDistinct'
  <2>1. /\ InTurn /\ RoundsDistinct /\ ~overlap
        /\ (\A g \in Rollers : Rolling(g) => g = h)
        /\ \A o \in Ops : task[o].at = "none"
    BY <1>1, <1>14 DEF SeriesInd, InTurn, OneAtATime
  <2>2. \A g \in Rollers : roll'[g].at # "none" => g = h
    BY <1>9, <2>1 DEF Rolling
  <2>3. \A j \in Rounds : row[j].round <= roll[h].round /\ Over(j)
    BY <1>1, <2>1 DEF InTurn, LastRuns, Last
  <2>4. \A j \in Rounds : j # i => row'[j].round < next
    BY <1>4, <1>8, <1>10, <2>3
  <2>5. RoundsDistinct'
    BY <1>2, <1>7, <1>8, <1>10, <2>1, <2>4 DEF RoundsDistinct
  <2>6. OneAtATime' /\ StillTrue'
    BY <1>1, <2>1, <2>2 DEF InTurn, OneAtATime, StillTrue, Rolling, Rollers
  <2>7. \A j, k \in Rounds' : row'[j].round < row'[k].round => row'[j].status \in {"closed", "archived"}
    BY <1>2, <1>7, <1>8, <1>10, <2>3, <2>4 DEF Over
  <2>8. \A j \in Rounds' : row'[j].round <= row'[i].round
    BY <1>2, <1>7, <1>8, <1>10, <2>4
  <2>9. \A j \in due : row'[j].repeats = FALSE
    BY <1>1, <1>6, <1>7, <1>8, <1>10, <2>1, RowFields DEF InTurn, LastRuns
  <2>10. LastRuns'
    BY <1>1, <1>9, <2>2, <2>7, <2>8, <2>9 DEF LastRuns, Last, Over
  <2> QED BY <2>5, <2>6, <2>10 DEF InTurn
<1> QED BY <1>11, <1>12, <1>13, <1>14 DEF SeriesInd, RoundsDistinct

LEMMA RollPublishInd ==
    ASSUME SeriesInd, NEW h \in Rollers, RollPublish(h)
    PROVE  SeriesInd'
<1> DEFINE i == roll[h].id
<1>1. /\ TypeOK /\ UNCHANGED <<task, due, ended, broken, overlap>>
      /\ roll[h].at = "publish" /\ Rolling(h)
  BY DEF RollPublish, SeriesInd, Rolling
<1>2. i \in Created /\ i \in Rounds
  BY <1>1 DEF SeriesInd, Grounded, RoundsRepeat
<1>3. Write(i, "published") /\ roll' = [roll EXCEPT ![h] = NoRoll]
  BY DEF RollPublish, Rolled
<1>4. NoRoll \in Rolls /\ NoRoll.at = "none"
  BY SeriesAssumption DEF NoRoll, Rolls
<1>5. ~overlap => Last(row[i].round)
  BY <1>1 DEF SeriesInd, InTurn, LastRuns
<1>6. \A g \in Rollers \ {h} : roll'[g] = roll[g]
  BY <1>1, <1>3, <1>4, RollSet
<1>7. roll' \in [Rollers -> Rolls] /\ roll'[h].at = "none"
  BY <1>1, <1>3, <1>4, RollSet
<1>8. \A j \in Rounds : row[j].status = "draft" /\ "publish" \notin broken /\ j # i =>
         j = First \/ \E g \in Rollers \ {h} : roll[g].at = "publish" /\ roll[g].id = j
  BY DEF SeriesInd, DraftsRoll
<1> HIDE DEF i
<1>9. /\ row' \in [Rows -> Poll \cup {Null}]
      /\ \A j \in Rows \ {i} : row'[j] = row[j]
      /\ Created' = Created /\ Rounds' = Rounds
      /\ row'[i].status = "published"
      /\ row'[i].round = row[i].round /\ row'[i].repeats = row[i].repeats
  BY <1>1, <1>2, <1>3, StatusSet DEF Statuses
<1>10. \A j \in Created :
         /\ row'[j].round = row[j].round /\ row'[j].repeats = row[j].repeats
         /\ row[j].round \in Nat
         /\ j # i => row'[j].status = row[j].status
  BY <1>1, <1>9, RowFields DEF Created
<1>11. /\ First \in Rounds /\ First \in Created /\ Rounds \subseteq Created
       /\ row[First].status # "draft" /\ ended # "series" /\ due \subseteq Created
  BY <1>1 DEF SeriesInd, RoundsRepeat, Grounded, Rounds, FirstLeads, OverForGood
<1>12. TypeOK' /\ RoundsDistinct'
  BY <1>1, <1>7, <1>9, <1>10, <1>11 DEF SeriesInd, TypeOK, Rolls, RoundsDistinct
<1>13. Grounded' /\ RoundsRepeat'
  BY <1>1, <1>6, <1>7, <1>9, <1>10, <1>11 DEF SeriesInd, Grounded, RoundsRepeat, Rolling
<1>14. FirstLeads' /\ DraftsRoll' /\ OverForGood'
  BY <1>1, <1>6, <1>7, <1>8, <1>9, <1>10, <1>11
     DEF SeriesInd, FirstLeads, DraftsRoll, OverForGood, Rolling
<1>15. ASSUME ~overlap' PROVE InTurn'
  <2>1. /\ InTurn /\ ~overlap
        /\ (\A g \in Rollers : Rolling(g) => g = h)
        /\ \A o \in Ops : task[o].at = "none"
    BY <1>1, <1>15 DEF SeriesInd, InTurn, OneAtATime
  <2>2. \A g \in Rollers : roll'[g].at = "none"
    BY <1>6, <1>7, <2>1 DEF Rolling
  <2>3. OneAtATime' /\ StillTrue'
    BY <1>1, <2>1, <2>2 DEF InTurn, OneAtATime, StillTrue, Rolling, Rollers
  <2>4. \A j, k \in Rounds : row[j].round < row[k].round => Over(j) /\ j # i
    BY <1>2, <1>5, <1>10, <1>11, <2>1 DEF InTurn, LastRuns, Last
  <2>5. \A j \in due : ~row[j].repeats
    BY <1>1, <2>1 DEF InTurn, LastRuns
  <2>6. LastRuns'
    BY <1>1, <1>9, <1>10, <1>11, <2>2, <2>4, <2>5 DEF LastRuns, Last, Over, Rolling
  <2> QED BY <2>3, <2>6 DEF InTurn
<1> QED BY <1>12, <1>13, <1>14, <1>15 DEF SeriesInd

-----------------------------------------------------------------------------
(***************************************************************************)
(* Time, failures, crashes and steps that change nothing.                  *)
(***************************************************************************)
\* Nothing in the invariant but the types looks at the window of a round.
LEMMA SameInd ==
    ASSUME SeriesInd, TypeOK', UNCHANGED <<task, roll, due, ended, broken, overlap>>,
           Created' = Created, Rounds' = Rounds,
           \A j \in Created : /\ row'[j].status = row[j].status
                              /\ row'[j].round = row[j].round
                              /\ row'[j].repeats = row[j].repeats
    PROVE  SeriesInd'
<1>1. Rounds \subseteq Created
  BY DEF Rounds
<1>2. Grounded' /\ RoundsRepeat' /\ FirstLeads' /\ DraftsRoll' /\ RoundsDistinct'
  BY <1>1 DEF SeriesInd, Grounded, RoundsRepeat, FirstLeads, DraftsRoll, RoundsDistinct, Rolling
<1>3. OverForGood'
  BY <1>1 DEF SeriesInd, OverForGood, Over, Rolling
<1>4. ASSUME ~overlap' PROVE InTurn'
  <2>1. InTurn /\ due \subseteq Created
    BY <1>4 DEF SeriesInd, Grounded
  <2>2. OneAtATime'
    BY <2>1 DEF InTurn, OneAtATime, Rolling
  <2>3. StillTrue'
    BY <2>1 DEF SeriesInd, Grounded, InTurn, StillTrue
  <2>4. \A h \in Rollers : roll[h].at = "publish" => roll[h].id \in Created
    BY DEF SeriesInd, Grounded
  <2>5. LastRuns'
    BY <1>1, <2>1, <2>4 DEF InTurn, LastRuns, Last, Over, Rolling
  <2> QED BY <2>2, <2>3, <2>5 DEF InTurn
<1> QED BY <1>2, <1>3, <1>4 DEF SeriesInd

LEMMA TickSet ==
    ASSUME TypeOK, NEW i \in Created, Tick(i)
    PROVE  /\ UNCHANGED <<task, roll, due, ended, broken, overlap>>
           /\ TypeOK' /\ Created' = Created /\ Rounds' = Rounds
           /\ \A j \in Created : /\ row'[j].status = row[j].status
                                 /\ row'[j].round = row[j].round
                                 /\ row'[j].repeats = row[j].repeats
<1>1. UNCHANGED <<task, roll, due, ended, broken, overlap>>
  BY DEF Tick
<1>2. PICK window \in Windows : row' = [row EXCEPT ![i].window = window]
  BY DEF Tick, Windows
<1> DEFINE p == [row[i] EXCEPT !.window = window]
<1>3. /\ p \in Poll /\ p.repeats = row[i].repeats /\ p.joined = row[i].joined
      /\ p.round = row[i].round /\ p.status = row[i].status
  BY RowFields DEF Poll
<1>4. row' = [row EXCEPT ![i] = p] /\ i \in Rows
  BY <1>2 DEF Created
<1> HIDE DEF p
<1>5. /\ row' \in [Rows -> Poll \cup {Null}] /\ row'[i] = p
      /\ \A j \in Rows \ {i} : row'[j] = row[j]
      /\ Created' = Created \cup {i}
      /\ Rounds' = IF p.joined THEN Rounds \cup {i} ELSE Rounds \ {i}
  BY <1>3, <1>4, RowSet
<1>6. Created' = Created /\ Rounds' = Rounds
  BY <1>3, <1>5 DEF Rounds
<1>7. TypeOK'
  BY <1>1, <1>5 DEF TypeOK
<1>8. \A j \in Created : /\ row'[j].status = row[j].status
                         /\ row'[j].round = row[j].round
                         /\ row'[j].repeats = row[j].repeats
  BY <1>3, <1>5 DEF Created
<1> QED BY <1>1, <1>6, <1>7, <1>8

LEMMA TickInd ==
    ASSUME SeriesInd, NEW i \in Created, Tick(i)
    PROVE  SeriesInd'
<1>1. TypeOK
  BY DEF SeriesInd
<1> QED BY <1>1, TickSet, SameInd

\* What fails or dies in between: fewer requests, rolls and closed rows to roll.
BrokenOff ==
    \/ \E o \in Ops : StatementFails(o)
    \/ \E h \in Rollers : RollFails(h)
    \/ LoopAborts
    \/ Crash

\* A roll broken off before its last statement is remembered.
LEMMA Left ==
    ASSUME TypeOK, BrokenOff
    PROVE  /\ UNCHANGED <<row, ended, overlap>> /\ due' \subseteq due
           /\ broken \subseteq broken' /\ broken' \subseteq {"roll", "publish"}
           /\ task' \in [Ops -> Tasks]
           /\ \A o \in Ops : task'[o] = task[o] \/ task'[o].at = "none"
           /\ roll' \in [Rollers -> Rolls]
           /\ \A h \in Rollers : roll'[h] = roll[h] \/ roll'[h].at = "none"
           /\ "publish" \notin broken' =>
                 \A h \in Rollers : roll[h].at = "publish" => roll'[h] = roll[h]
<1>1. /\ NoTask \in Tasks /\ NoTask.at = "none"
      /\ NoRoll \in Rolls /\ NoRoll.at = "none"
  BY SeriesAssumption DEF NoTask, NoRoll, Tasks, Ats, Rolls
<1>2. task \in [Ops -> Tasks] /\ roll \in [Rollers -> Rolls] /\ broken \subseteq {"roll", "publish"}
  BY DEF TypeOK, Tasks, Ats, Rolls
<1> HIDE DEF NoTask, NoRoll, Tasks, Rolls
<1>3. CASE \E o \in Ops : StatementFails(o)
  <2>1. PICK o \in Ops : StatementFails(o)
    BY <1>3
  <2>2. UNCHANGED <<row, roll, due, ended, broken, overlap>> /\ task' = [task EXCEPT ![o] = NoTask]
    BY <2>1 DEF StatementFails
  <2> QED BY <1>1, <1>2, <2>2
<1>4. ASSUME NEW H \in SUBSET Rollers, NEW S, BreakOff(H, S)
      PROVE  /\ due' \subseteq due /\ broken \subseteq broken' /\ broken' \subseteq {"roll", "publish"}
             /\ roll' \in [Rollers -> Rolls]
             /\ \A h \in Rollers : roll'[h] = roll[h] \/ roll'[h].at = "none"
             /\ "publish" \notin broken' =>
                   \A h \in Rollers : roll[h].at = "publish" => roll'[h] = roll[h]
  <2>1. roll' = [h \in Rollers |-> IF h \in H THEN NoRoll ELSE roll[h]] /\ due' \subseteq due
    BY <1>4 DEF BreakOff
  <2>2. /\ broken \subseteq broken' /\ broken' \subseteq {"roll", "publish"}
        /\ "publish" \notin broken' => \A h \in H : roll[h].at # "publish"
    BY <1>2, <1>4 DEF BreakOff
  <2> QED BY <1>1, <1>2, <2>1, <2>2
<1>5. CASE \E h \in Rollers : RollFails(h)
  <2>1. PICK h \in Rollers : RollFails(h)
    BY <1>5
  <2>2. UNCHANGED <<row, task, ended, overlap>> /\ BreakOff({h}, {}) /\ {h} \in SUBSET Rollers
    BY <2>1 DEF RollFails
  <2> QED BY <1>2, <1>4, <2>2
<1>6. CASE LoopAborts
  BY <1>2, <1>4, <1>6 DEF LoopAborts
<1>7. CASE Crash
  <2>1. UNCHANGED <<row, ended, overlap>> /\ BreakOff(Rollers, due)
        /\ task' = [o \in Ops |-> NoTask]
    BY <1>7 DEF Crash
  <2> QED BY <1>1, <1>4, <2>1
<1> QED BY <1>3, <1>5, <1>6, <1>7 DEF BrokenOff

\* The rows stay as they were.
LEMMA BrokenOffInd ==
    ASSUME SeriesInd, BrokenOff
    PROVE  SeriesInd'
<1>1. /\ UNCHANGED <<row, ended, overlap>> /\ due' \subseteq due
      /\ broken \subseteq broken' /\ broken' \subseteq {"roll", "publish"}
      /\ task' \in [Ops -> Tasks] /\ roll' \in [Rollers -> Rolls]
      /\ \A o \in Ops : task'[o] = task[o] \/ task'[o].at = "none"
      /\ \A h \in Rollers : roll'[h] = roll[h] \/ roll'[h].at = "none"
      /\ "publish" \notin broken' =>
            \A h \in Rollers : roll[h].at = "publish" => roll'[h] = roll[h]
  BY Left DEF SeriesInd
<1>2. Created' = Created /\ Rounds' = Rounds
  BY <1>1 DEF Created, Rounds
<1>3. TypeOK' /\ RoundsDistinct'
  BY <1>1, <1>2 DEF SeriesInd, TypeOK, RoundsDistinct, Tasks, Ats, Rolls
<1>4. Grounded' /\ RoundsRepeat' /\ FirstLeads' /\ DraftsRoll' /\ OverForGood'
  <2>1. Grounded'
    BY <1>1, <1>2 DEF SeriesInd, Grounded
  <2>2. RoundsRepeat'
    BY <1>1, <1>2 DEF SeriesInd, RoundsRepeat, Rolling
  <2>3. FirstLeads'
    BY <1>1, <1>2 DEF SeriesInd, FirstLeads, Rolling
  <2>4. DraftsRoll'
    BY <1>1, <1>2 DEF SeriesInd, DraftsRoll
  <2>5. OverForGood'
    BY <1>1, <1>2 DEF SeriesInd, OverForGood, Over, Rolling
  <2> QED BY <2>1, <2>2, <2>3, <2>4, <2>5
<1>5. ASSUME ~overlap' PROVE InTurn'
  <2>0. /\ OneAtATime
        /\ \A o \in Ops : task'[o].at # "none" => task[o].at # "none"
        /\ \A h \in Rollers : roll'[h].at # "none" => roll[h].at # "none"
        /\ Ops \subseteq Rollers
    BY <1>1, <1>5 DEF SeriesInd, InTurn, Rollers
  <2>1. OneAtATime'
    BY <1>1, <2>0 DEF OneAtATime, Rolling
  <2>2. StillTrue'
    BY <1>1, <1>2, <1>5 DEF SeriesInd, InTurn, StillTrue
  <2>3. LastRuns'
    BY <1>1, <1>2, <1>5 DEF SeriesInd, InTurn, LastRuns, Last, Over, Rolling
  <2> QED BY <2>1, <2>2, <2>3 DEF InTurn
<1> QED BY <1>3, <1>4, <1>5 DEF SeriesInd

LEMMA StutterInd ==
    ASSUME SeriesInd, UNCHANGED vars
    PROVE  SeriesInd'
<1>1. Created' = Created /\ Rounds' = Rounds
  BY DEF vars, Created, Rounds
<1>2. TypeOK'
  BY DEF SeriesInd, vars, TypeOK
<1> QED BY <1>1, <1>2, SameInd DEF vars

LEMMA SeriesInit ==
    ASSUME Init
    PROVE  SeriesInd
<1>1. Created = {} /\ Rounds = {}
  BY DEF Init, Created, Rounds
<1>2. /\ NoTask \in Tasks /\ NoTask.at = "none"
      /\ NoRoll \in Rolls /\ NoRoll.at = "none"
  BY SeriesAssumption DEF NoTask, NoRoll, Tasks, Ats, Rolls
<1>3. /\ task \in [Ops -> Tasks] /\ \A o \in Ops : task[o].at = "none"
      /\ roll \in [Rollers -> Rolls] /\ \A h \in Rollers : roll[h].at = "none"
  BY <1>2 DEF Init
<1>4. TypeOK
  BY <1>3, SeriesAssumption DEF Init, TypeOK, Tasks, Ats, Rolls
<1>5. /\ Grounded /\ RoundsRepeat /\ FirstLeads /\ DraftsRoll /\ OverForGood
      /\ InTurn /\ RoundsDistinct
  BY <1>1, <1>3 DEF Init, Grounded, RoundsRepeat, FirstLeads, DraftsRoll, OverForGood, InTurn,
                    OneAtATime, StillTrue, LastRuns, Last, Rolling, RoundsDistinct
<1> QED BY <1>4, <1>5 DEF SeriesInd

-----------------------------------------------------------------------------
LEMMA SeriesStep ==
    ASSUME SeriesInd, [Next]_vars
    PROVE  SeriesInd'
<1>1. ASSUME NEW o \in Ops, Statement(o) PROVE SeriesInd'
  BY <1>1, StartInd, RepeatInd, StatusInd, CloseInd, ClearInd, ReadInd DEF Statement
<1>2. ASSUME NEW h \in Rollers, RollStep(h) PROVE SeriesInd'
  BY <1>2, RollCreateInd, RollJoinInd, RollPublishInd DEF RollStep
<1> QED BY <1>1, <1>2, ReadInd, CreateInd, CloseDueInd, FindInd, TickInd, BrokenOffInd,
           StutterInd DEF Next, BrokenOff

\* The strengthening of the properties below is inductive.
THEOREM SeriesInvariant == Spec => []SeriesInd
BY SeriesInit, SeriesStep, PTL DEF Spec

\* Every variable keeps its type: no statement or roll names a row that is not
\* there.
THEOREM SeriesTypeCorrect == Spec => []TypeOK
<1>1. SeriesInd => TypeOK
  BY DEF SeriesInd
<1> QED BY <1>1, SeriesInvariant, PTL

\* In turn, no two polls are the same round of the series (rollSeries,
\* seriesReport), through crashes and failures in the middle of a roll.
THEOREM RoundsDistinctHolds == Spec => []RoundsDistinct
<1>1. SeriesInd => RoundsDistinct
  BY DEF SeriesInd
<1> QED BY <1>1, SeriesInvariant, PTL

\* Once the only running round is ended, with nothing else in flight, no further
\* round is opened, whatever overlaps afterwards (endSeries clears the interval
\* before it closes).
THEOREM NothingOpensAfterEndHolds == Spec => NothingOpensAfterEnd
<1>1. ASSUME SeriesInd, [Next]_vars PROVE [ended = "series" => RowsStay]_vars
  <2> SUFFICES ASSUME ended = "series" PROVE Created' = Created
    BY DEF RowsStay
  <2>1. /\ TypeOK /\ First \in Created
        /\ \A o \in Ops : task[o].at \notin {"start", "repeat"}
        /\ \A o \in Ops : task[o].at # "none" => task[o].id \in Created
        /\ \A h \in Rollers : ~Rolling(h)
    BY <1>1 DEF SeriesInd, OverForGood, Grounded, Rounds
  <2>2. CASE row' = row
    BY <2>2 DEF Created
  <2>3. ASSUME NEW o \in Ops, Publish(o) \/ Close(o) \/ Archive(o)
        PROVE  Created' = Created
    <3>1. task[o].id \in Created
      BY <2>1, <2>3 DEF Publish, Close, Archive, Step
    <3>2. PICK status \in Statuses : Write(task[o].id, status)
      BY <2>3 DEF Publish, Close, Archive, Statuses
    <3> QED BY <2>1, <3>1, <3>2, StatusSet
  <2>4. ASSUME NEW o \in Ops, Clear(o) PROVE Created' = Created
    <3>1. task[o].id \in Created
      BY <2>1, <2>4 DEF Clear, Step
    <3> QED BY <2>1, <2>4, <3>1, RepeatsSet DEF Clear
  <2>5. ASSUME CloseDue \/ \E i \in Created : Tick(i) PROVE Created' = Created
    <3> SUFFICES ASSUME NEW j \in Rows PROVE (row'[j] # Null) <=> (row[j] # Null)
      BY DEF Created
    <3>1. CASE j \notin Created
      BY <2>1, <2>5, <3>1 DEF CloseDue, DueNow, Tick, TypeOK, Created
    <3>2. CASE j \in Created
      <4>1. row[j] \in Poll
        BY <2>1, <3>2, RowFields
      <4>2. /\ [row[j] EXCEPT !.status = "closed"] \in Poll
            /\ \A window \in Windows : [row[j] EXCEPT !.window = window] \in Poll
        BY <4>1 DEF Poll
      <4>3. CASE CloseDue
        BY <3>2, <4>2, <4>3, NullAssumption DEF CloseDue, Created
      <4>4. ASSUME NEW i \in Created, Tick(i) PROVE row'[j] # Null
        <5>1. PICK window \in Windows : row' = [row EXCEPT ![i].window = window]
          BY <4>4 DEF Tick, Windows
        <5> QED BY <2>1, <3>2, <4>2, <5>1, NullAssumption DEF TypeOK, Created
      <4> QED BY <2>5, <3>2, <4>3, <4>4 DEF Created
    <3> QED BY <3>1, <3>2
  <2>6. ASSUME NEW o \in Ops, Create(o) \/ StartSeries(o) \/ SetRepeatInterval(o) PROVE FALSE
    BY <2>1, <2>6 DEF Create, StartSeries, SetRepeatInterval, Step, Created
  <2>7. ASSUME NEW h \in Rollers, RollStep(h) PROVE FALSE
    BY <2>1, <2>7 DEF RollStep, RollCreate, RollJoin, RollPublish, Rolling
  <2>8. CASE \/ \E o \in Ops : \/ \E i \in Created : \/ BeginPublish(o, i) \/ BeginClose(o, i)
                                                    \/ BeginArchive(o, i) \/ BeginEnd(o, i)
                              \/ Reread(o)
             \/ \E i \in Created : Find(i)
             \/ UNCHANGED vars
    BY <2>2, <2>8 DEF BeginPublish, BeginClose, BeginArchive, BeginEnd, Reread, Find, vars
  <2>9. CASE BrokenOff
    BY <2>1, <2>2, <2>9, Left
  <2> QED BY <1>1, <2>3, <2>4, <2>5, <2>6, <2>7, <2>8, <2>9 DEF Next, Statement, BrokenOff
<1> QED BY <1>1, SeriesInvariant, PTL DEF Spec, NothingOpensAfterEnd

-----------------------------------------------------------------------------
(***************************************************************************)
(* The series link.                                                        *)
(***************************************************************************)
\* The ORDER BY is a strict order.
LEMMA BeforeOrder ==
    ASSUME TypeOK
    PROVE  /\ \A i \in Rounds : ~Before(i, i)
           /\ \A i, j, k \in Rounds : Before(i, j) /\ Before(j, k) => Before(i, k)
<1>1. \A i \in Rounds : row[i].round \in Nat
  BY RowFields DEF Rounds
<1>2. \A i \in Rounds : ~Before(i, i)
  BY <1>1 DEF Before
<1>3. ASSUME NEW i \in Rounds, NEW j \in Rounds, NEW k \in Rounds, Before(i, j), Before(j, k)
      PROVE  Before(i, k)
  <2>1. row[i].round \in Nat /\ row[j].round \in Nat /\ row[k].round \in Nat
    BY <1>1
  <2> QED BY <1>3, <2>1 DEF Before, OpenNow, Waiting
<1> QED BY <1>2, <1>3

\* A finite set of rounds has a first one: of the sets of rounds that come before
\* one, a smallest is empty.
LEMMA FirstExists ==
    ASSUME TypeOK, NEW S, S \subseteq Rounds, S # {}
    PROVE  \E i \in S : \A j \in S : ~Before(j, i)
<1> DEFINE Ahead(i) == {j \in S : Before(j, i)}
           T == {Ahead(i) : i \in S}
<1>1. IsFiniteSet(S) /\ S \subseteq Rows
  BY SeriesAssumption, FS_Subset DEF Rounds, Created
<1>2. \A i \in S : Ahead(i) \in FiniteSubsetsOf(S)
  <2> TAKE i \in S
  <2>1. Ahead(i) \in SUBSET S
    OBVIOUS
  <2>2. IsFiniteSet(Ahead(i))
    BY <1>1, <2>1, FS_Subset
  <2> QED BY <2>1, <2>2 DEF FiniteSubsetsOf
<1>3. T \subseteq FiniteSubsetsOf(S) /\ T # {}
  BY <1>2
<1>4. IsWellFoundedOn(StrictSubsetOrdering(S), FiniteSubsetsOf(S))
  BY FS_StrictSubsetOrderingWellFounded
<1>5. PICK least \in T : \A U \in T : ~ (<<U, least>> \in StrictSubsetOrdering(S))
  <2> HIDE DEF T
  <2> QED BY <1>3, <1>4, WFMin
<1>6. PICK i \in S : least = Ahead(i)
  BY <1>5
<1>7. ASSUME NEW j \in Ahead(i) PROVE FALSE
  <2>1. j \in S /\ Before(j, i) /\ i \in Rounds /\ j \in Rounds
    BY <1>7
  <2>2. Ahead(j) \subseteq Ahead(i) /\ j \notin Ahead(j)
    BY <2>1, BeforeOrder
  <2>3. <<Ahead(j), Ahead(i)>> \in StrictSubsetOrdering(S)
    BY <1>7, <2>2 DEF StrictSubsetOrdering
  <2> QED BY <1>5, <1>6, <2>1, <2>3
<1> QED BY <1>7

\* Between requests the round behind the link is the open one, else the next to
\* open, else the most recent, unless a roll failed at its last statement: when
\* closes have raced too, as long as they have not left two rounds waiting
\* (resolveRespondentSlug).
THEOREM LinkAsExpectedHolds == Spec => []LinkAsExpected
<1>1. ASSUME SeriesInd PROVE LinkAsExpected
  <2> SUFFICES ASSUME "publish" \notin broken, Quiet, Visible # {}, overlap => OneWaits
               PROVE  Resolved # {} /\ Resolved \subseteq Expected
    BY DEF LinkAsExpected
  <2> DEFINE S == {i \in Rounds : row[i].status # "archived"}
  <2>1. TypeOK /\ Visible \subseteq Rounds
    BY <1>1 DEF SeriesInd, Visible
  <2>2. \A i \in Rounds : row[i].status # "draft"
    <3> SUFFICES ASSUME NEW i \in Rounds, row[i].status = "draft" PROVE FALSE
      OBVIOUS
    <3>1. i = First /\ First \in Created
      BY <1>1 DEF SeriesInd, DraftsRoll, Quiet, Rounds
    <3>2. Rounds \subseteq {First}
      BY <1>1, <3>1 DEF SeriesInd, FirstLeads
    <3> QED BY <2>1, <3>1, <3>2 DEF Visible
  <2>3. \A i \in Rounds : row[i].status \in Statuses /\ row[i].round \in Nat
    BY <2>1, RowFields DEF Rounds
  <2>4. S = Visible
    BY <2>2, <2>3 DEF Visible, Statuses
  <2>5. Resolved = {i \in Visible : \A j \in Visible : ~Before(j, i)}
    BY <2>4 DEF Resolved
  <2>6. Resolved # {}
    BY <2>1, <2>5, FirstExists
  <2>7. ASSUME NEW i \in Resolved PROVE i \in Expected
    <3>1. i \in Visible /\ (\A j \in Visible : ~Before(j, i)) /\ row[i].round \in Nat
      BY <2>1, <2>3, <2>5
    <3>2. CASE \E j \in Visible : OpenNow(j)
      BY <3>1, <3>2 DEF Expected, Before
    <3>3. CASE (\A j \in Visible : ~OpenNow(j)) /\ \E j \in Visible : Waiting(j)
      <4>1. PICK j \in Visible : Waiting(j)
        BY <3>3
      <4>2. OpenNow(i) = OpenNow(j) /\ ~Before(j, i)
        BY <3>1, <3>3, <4>1 DEF OpenNow
      <4>3. Waiting(i)
        BY <4>1, <4>2 DEF Before
      <4>4. {k \in Visible : OpenNow(k)} = {} /\ {k \in Visible : Waiting(k)} # {}
        BY <3>3
      <4>5. ASSUME NEW k \in Visible, Waiting(k) PROVE row[i].round <= row[k].round
        <5>1. row[i].round \in Nat /\ row[k].round \in Nat /\ i \in Rounds /\ k \in Rounds
          BY <2>1, <2>3, <3>1
        <5>2. CASE overlap
          BY <3>1, <4>3, <4>5, <5>1, <5>2 DEF OneWaits
        <5>3. CASE ~overlap
          <6>1. row[k].round < row[i].round => Over(k)
            BY <1>1, <5>1, <5>3 DEF SeriesInd, InTurn, LastRuns
          <6>2. ~Over(k)
            BY <4>5 DEF Waiting, Over
          <6> QED BY <5>1, <6>1, <6>2
        <5> QED BY <5>2, <5>3
      <4> QED BY <3>1, <4>3, <4>4, <4>5 DEF Expected
    <3>4. CASE (\A j \in Visible : ~OpenNow(j)) /\ \A j \in Visible : ~Waiting(j)
      <4>1. ASSUME NEW j \in Visible PROVE row[i].round >= row[j].round
        <5>1. ~Before(j, i) /\ row[i].round \in Nat /\ row[j].round \in Nat
          BY <2>1, <2>3, <3>1
        <5>2. OpenNow(i) = OpenNow(j) /\ Waiting(i) = Waiting(j)
          BY <3>1, <3>4 DEF OpenNow, Waiting
        <5>3. ~(row[j].round > row[i].round)
          BY <5>1, <5>2 DEF Before
        <5> QED BY <5>1, <5>3
      <4>2. {k \in Visible : OpenNow(k)} = {} /\ {k \in Visible : Waiting(k)} = {}
        BY <3>4
      <4> QED BY <3>1, <4>1, <4>2 DEF Expected
    <3> QED BY <3>2, <3>3, <3>4
  <2> QED BY <2>6, <2>7
<1> QED BY <1>1, SeriesInvariant, PTL

-----------------------------------------------------------------------------
(***************************************************************************)
(* The refinement: in turn, Series implements RoundLine.                   *)
(***************************************************************************)
\* Steps that leave the rounds as they are.
LEMMA LineSame ==
    ASSUME Rounds' = Rounds, Stopped' = Stopped,
           \A j \in Rounds : row'[j].round = row[j].round /\ row'[j].status = row[j].status
    PROVE  (NoGaps => NoGaps') /\ [Line!LineNext]_(Line!lineVars)
<1>1. NoGaps => NoGaps'
  BY DEF NoGaps
<1>2. Drafts' = Drafts /\ Running' = Running /\ Past' = Past
  BY DEF Drafts, Running, Past, Numbers
<1> QED BY <1>1, <1>2 DEF Line!lineVars

\* Steps that move one round on.
LEMMA LineMoves ==
    ASSUME RoundsDistinct, ~overlap, NEW i \in Rounds,
           Rounds' = Rounds, Stopped' = Stopped,
           \A j \in Rounds : /\ row'[j].round = row[j].round
                             /\ j # i => row'[j].status = row[j].status,
           row'[i].status \in {"published", "closed", "archived"},
           row[i].status \in Statuses,
           Over(i) => row'[i].status # "published"
    PROVE  (NoGaps => NoGaps') /\ [Line!LineNext]_(Line!lineVars)
<1> DEFINE n == row[i].round
<1>1. NoGaps => NoGaps'
  BY DEF NoGaps
<1> SUFFICES [Line!LineNext]_(Line!lineVars)
  BY <1>1
<1>2. \A j \in Rounds : j # i => row[j].round # n
  BY DEF RoundsDistinct
<1>3. /\ n \in Drafts <=> row[i].status = "draft"
      /\ n \in Running <=> row[i].status = "published"
      /\ n \in Past <=> Over(i)
  BY <1>2 DEF Drafts, Running, Past, Numbers, Over
<1>4. Drafts' = Drafts \ {n}
  BY <1>2 DEF Drafts, Numbers
<1>5. CASE row'[i].status = "published"
  <2>1. Running' = Running \cup {n}
    BY <1>2, <1>5 DEF Running, Numbers
  <2>2. Past' = Past
    BY <1>2, <1>5 DEF Past, Numbers, Over
  <2>3. CASE row[i].status = "draft"
    <3>1. Line!Open(n) /\ n \in Drafts
      BY <1>3, <1>4, <2>1, <2>2, <2>3 DEF Line!Open
    <3> QED BY <3>1 DEF Line!LineNext
  <2>4. CASE row[i].status = "published"
    BY <1>3, <1>4, <2>1, <2>2, <2>4 DEF Line!lineVars
  <2> QED BY <1>5, <2>3, <2>4 DEF Statuses, Over
<1>6. CASE row'[i].status \in {"closed", "archived"}
  <2>1. Running' = Running \ {n}
    BY <1>2, <1>6 DEF Running, Numbers
  <2>2. Past' = Past \cup {n}
    BY <1>2, <1>6 DEF Past, Numbers
  <2>3. CASE n \in Drafts \cup Running
    <3>1. Line!Finish(n)
      BY <1>4, <2>1, <2>2, <2>3 DEF Line!Finish
    <3> QED BY <2>3, <3>1 DEF Line!LineNext
  <2>4. CASE n \notin Drafts \cup Running
    <3>1. n \in Past
      BY <1>3, <2>4 DEF Statuses, Over
    <3> QED BY <1>4, <2>1, <2>2, <2>4, <3>1 DEF Line!lineVars
  <2> QED BY <2>3, <2>4
<1> QED BY <1>5, <1>6

\* A step that adds a round after all the others, which are over.
LEMMA LineBegins ==
    ASSUME NEW i, NEW n \in Nat, i \notin Rounds, Rounds' = Rounds \cup {i},
           row'[i].round = n + 1, row'[i].status = "draft",
           \A j \in Rounds : /\ Over(j) /\ row[j].round \in Nat /\ row[j].round <= n
                             /\ row'[j].round = row[j].round /\ row'[j].status = row[j].status,
           n # 0 => \E j \in Rounds : row[j].round = n,
           NoGaps, ~Stopped, Stopped' = Stopped
    PROVE  NoGaps' /\ [Line!LineNext]_(Line!lineVars)
<1>1. \A m \in 1..n : \E j \in Rounds : row[j].round = m
  <2>1. CASE n = 0
    <3>1. 1..n = {}
      BY <2>1
    <3> QED BY <3>1
  <2>2. CASE n # 0
    <3>1. PICK j \in Rounds : row[j].round = n
      BY <2>2
    <3> QED BY <3>1 DEF NoGaps
  <2> QED BY <2>1, <2>2
<1>2. \A j \in Rounds : row[j].round \in 1..n
  BY DEF NoGaps
<1>3. Drafts = {} /\ Running = {}
  BY DEF Drafts, Running, Numbers, Over
<1>4. Past = {row[j].round : j \in Rounds}
  BY DEF Past, Numbers, Over
<1>5. Past = 1..n
  BY <1>1, <1>2, <1>4
<1>6. Drafts' = {n + 1} /\ Running' = {}
  BY DEF Drafts, Running, Numbers, Over
<1>7. Past' = Past
  BY DEF Past, Numbers, Over
<1>8. Line!Begin(n + 1)
  BY <1>3, <1>5, <1>6, <1>7 DEF Line!Begin
<1>9. Line!LineNext
  <2>1. n = 0 \/ n \in Past
    BY <1>5
  <2> QED BY <1>8, <2>1 DEF Line!LineNext
<1>10. NoGaps'
  <2> SUFFICES ASSUME NEW k \in Rounds'
               PROVE  /\ row'[k].round # 0
                      /\ \A m \in 1..row'[k].round : \E j \in Rounds' : row'[j].round = m
    BY DEF NoGaps
  <2>1. row'[k].round \in 1..(n + 1)
    <3>1. CASE k = i
      BY <3>1
    <3>2. CASE k \in Rounds
      BY <1>2, <3>2
    <3> QED BY <3>1, <3>2
  <2>2. \A m \in 1..(n + 1) : \E j \in Rounds' : row'[j].round = m
    <3> TAKE m \in 1..(n + 1)
    <3>1. CASE m = n + 1
      BY <3>1
    <3>2. CASE m # n + 1
      <4>1. m \in 1..n
        BY <3>2
      <4> QED BY <1>1, <4>1
    <3> QED BY <3>1, <3>2
  <2>3. 1..row'[k].round \subseteq 1..(n + 1) /\ row'[k].round # 0
    BY <2>1
  <2> QED BY <2>2, <2>3
<1> QED BY <1>9, <1>10

LEMMA ReadLine ==
    ASSUME SeriesInd, LineInd, ~overlap, NEW o \in Ops,
           \/ \E i \in Created :
                 BeginPublish(o, i) \/ BeginClose(o, i) \/ BeginArchive(o, i) \/ BeginEnd(o, i)
           \/ Reread(o)
    PROVE  LineInd' /\ [Line!LineNext]_(Line!lineVars)
<1>1. TypeOK /\ UNCHANGED <<row, roll, due, ended, broken, overlap>>
  BY DEF BeginPublish, BeginClose, BeginArchive, BeginEnd, Reread, SeriesInd
<1>2. Created' = Created /\ Rounds' = Rounds /\ Stopped' = Stopped
  BY <1>1 DEF Created, Rounds, Stopped
<1>3. task'[o].at # "start" /\ \A p \in Ops \ {o} : task'[p] = task[p]
  <2>1. CASE \E i \in Created :
               BeginPublish(o, i) \/ BeginClose(o, i) \/ BeginArchive(o, i) \/ BeginEnd(o, i)
    <3>1. PICK i \in Created :
             BeginPublish(o, i) \/ BeginClose(o, i) \/ BeginArchive(o, i) \/ BeginEnd(o, i)
      BY <2>1
    <3>2. i \in Rows
      BY <3>1 DEF Created
    <3>3. PICK at \in Ats \ {"start"} : Begin(o, at, i)
      BY <3>1 DEF BeginPublish, BeginClose, BeginArchive, BeginEnd, Ats
    <3> QED BY <1>1, <3>2, <3>3, Begins
  <2>2. CASE Reread(o)
    <3>1. PICK to \in {"close", "none"} : Step(o, "reread", to)
      BY <2>2 DEF Reread
    <3> QED BY <1>1, <3>1, Steps DEF Ats
  <2> QED BY <2>1, <2>2
<1>4. RollsFollow' /\ DraftsJoin'
  BY <1>1, <1>2, <1>3 DEF LineInd, RollsFollow, DraftsJoin
<1> QED BY <1>1, <1>2, <1>4, LineSame DEF LineInd

LEMMA CreateLine ==
    ASSUME SeriesInd, LineInd, ~overlap, NEW o \in Ops, Create(o)
    PROVE  LineInd' /\ [Line!LineNext]_(Line!lineVars)
<1>1. TypeOK /\ row[First] = Null /\ UNCHANGED <<roll, due, ended, broken, overlap>>
  BY DEF Create, SeriesInd
<1>2. Rounds = {} /\ \A h \in Rollers : roll[h].at = "none"
  BY <1>1 DEF SeriesInd, Grounded, RoundsRepeat, Created, Rounds, Rolling
<1>3. Rounds' = Rounds /\ row'[First].status = "draft"
  BY <1>1, SeriesAssumption, DraftSet DEF Create
<1>4. RollsFollow' /\ DraftsJoin'
  BY <1>1, <1>2, <1>3 DEF RollsFollow, DraftsJoin
<1>5. Stopped' = Stopped
  BY <1>1 DEF Stopped
<1> QED BY <1>1, <1>2, <1>3, <1>4, <1>5, LineSame DEF LineInd

\* The first round joins an empty line.
LEMMA StartLine ==
    ASSUME SeriesInd, LineInd, ~overlap, NEW o \in Ops, StartSeries(o)
    PROVE  LineInd' /\ [Line!LineNext]_(Line!lineVars)
<1>1. TypeOK /\ UNCHANGED <<roll, due, ended, broken, overlap>>
  BY DEF StartSeries, SeriesInd
<1>2. task[o].at = "start" /\ task'[o].at = "repeat" /\ \A p \in Ops \ {o} : task'[p] = task[p]
  BY <1>1, Steps DEF StartSeries, Ats
<1>3. First \in Created /\ Rounds = {} /\ ~Stopped
  BY <1>2 DEF SeriesInd, Grounded, RoundsRepeat, InTurn, StillTrue, OverForGood, Stopped
<1>4. /\ Rounds' = Rounds \cup {First} /\ row'[First].round = 0 + 1
      /\ row'[First].status = row[First].status
  BY <1>1, <1>3, StartSet DEF StartSeries
<1>5. /\ row[First].status = "draft"
      /\ \A h \in Rollers : roll[h].at = "none"
      /\ \A p \in Ops : task'[p].at # "start"
  BY <1>2 DEF LineInd, DraftsJoin, SeriesInd, InTurn, OneAtATime, Rolling
<1>6. RollsFollow' /\ DraftsJoin'
  BY <1>1, <1>5 DEF RollsFollow, DraftsJoin
<1>7. Stopped' = Stopped
  BY <1>1 DEF Stopped
<1>8. NoGaps' /\ [Line!LineNext]_(Line!lineVars)
  <2>1. NoGaps
    BY DEF LineInd
  <2>2. \A j \in Rounds : /\ Over(j) /\ row[j].round \in Nat /\ row[j].round <= 0
                          /\ row'[j].round = row[j].round /\ row'[j].status = row[j].status
    BY <1>3
  <2>3. First \notin Rounds /\ row'[First].status = "draft"
    BY <1>3, <1>4, <1>5
  <2> QED BY <1>3, <1>4, <1>7, <2>1, <2>2, <2>3, LineBegins
<1> QED BY <1>6, <1>8 DEF LineInd

LEMMA RepeatLine ==
    ASSUME SeriesInd, LineInd, ~overlap, NEW o \in Ops, SetRepeatInterval(o)
    PROVE  LineInd' /\ [Line!LineNext]_(Line!lineVars)
<1>1. TypeOK /\ UNCHANGED <<roll, due, ended, broken, overlap>>
  BY DEF SetRepeatInterval, SeriesInd
<1>2. /\ task[o].at = "repeat" /\ task'[o].at = "none"
      /\ \A p \in Ops \ {o} : task'[p] = task[p]
  BY <1>1, Steps DEF SetRepeatInterval, Ats
<1>3. First \in Created
  BY <1>2 DEF SeriesInd, Grounded
<1>4. /\ Rounds' = Rounds
      /\ row'[First].round = row[First].round /\ row'[First].status = row[First].status
      /\ \A j \in Rows \ {First} : row'[j] = row[j]
  BY <1>1, <1>3, RepeatsSet DEF SetRepeatInterval
<1>5. \A h \in Rollers : roll[h].at = "none"
  BY <1>2 DEF SeriesInd, InTurn, OneAtATime, Rolling
<1>6. RollsFollow' /\ DraftsJoin'
  BY <1>1, <1>2, <1>4, <1>5 DEF LineInd, RollsFollow, DraftsJoin
<1>7. Stopped' = Stopped
  BY <1>1 DEF Stopped
<1>8. \A j \in Rounds : row'[j].round = row[j].round /\ row'[j].status = row[j].status
  BY <1>4 DEF Rounds, Created
<1> QED BY <1>4, <1>6, <1>7, <1>8, LineSame DEF LineInd

\* publish, archive, close and the last commit of a roll: one row is written.
LEMMA WriteLine ==
    ASSUME SeriesInd, LineInd, ~overlap, NEW i \in Created,
           NEW status \in {"published", "closed", "archived"}, Write(i, status),
           Over(i) => status # "published", ended' = ended
    PROVE  /\ NoGaps' /\ [Line!LineNext]_(Line!lineVars)
           /\ Rounds' = Rounds
           /\ \A j \in Rounds : row'[j].round = row[j].round
<1>1. TypeOK /\ RoundsDistinct /\ NoGaps
  BY DEF SeriesInd, LineInd
<1>2. /\ Rounds' = Rounds /\ row'[i].status = status /\ row'[i].round = row[i].round
      /\ \A j \in Rows \ {i} : row'[j] = row[j]
  BY <1>1, StatusSet DEF Statuses
<1>3. \A j \in Rounds : /\ row'[j].round = row[j].round
                        /\ j # i => row'[j].status = row[j].status
  BY <1>2 DEF Rounds, Created
<1>4. Stopped' = Stopped
  BY DEF Stopped
<1>5. CASE i \in Rounds
  <2>1. row[i].status \in Statuses
    BY <1>1, RowFields
  <2> QED BY <1>1, <1>2, <1>3, <1>4, <1>5, <2>1, LineMoves
<1>6. CASE i \notin Rounds
  BY <1>1, <1>2, <1>3, <1>4, <1>6, LineSame
<1> QED BY <1>5, <1>6

LEMMA StatementLine ==
    ASSUME SeriesInd, LineInd, ~overlap, NEW o \in Ops, Publish(o) \/ Archive(o) \/ Close(o)
    PROVE  LineInd' /\ [Line!LineNext]_(Line!lineVars)
<1> DEFINE i == task[o].id
<1>1. TypeOK /\ UNCHANGED <<due, ended, broken, overlap>>
  BY DEF Publish, Archive, Close, SeriesInd
<1>2. PICK from \in {"publish", "archive", "close"} :
         /\ Step(o, from, "none")
         /\ Publish(o) => from = "publish"
         /\ Close(o) => from = "close"
  BY DEF Publish, Archive, Close, Step
<1>3. /\ task[o].at = from /\ task'[o].at = "none"
      /\ \A p \in Ops \ {o} : task'[p] = task[p]
  BY <1>1, <1>2, Steps DEF Ats
<1>4. i \in Created
  BY <1>2, <1>3 DEF SeriesInd, Grounded
<1>5. PICK status \in {"published", "closed", "archived"} :
         /\ Write(i, status)
         /\ status = "published" => task[o].at = "publish"
  BY <1>2, <1>3 DEF Publish, Archive, Close
<1>6. Over(i) => status # "published"
  BY <1>5 DEF SeriesInd, InTurn, StillTrue, Over
<1>7. /\ \A p \in Ops : task'[p].at # "start"
      /\ \A h \in Rollers : roll[h].at = "none"
  BY <1>2, <1>3 DEF SeriesInd, InTurn, OneAtATime, Rolling
<1>8. Close(o) /\ row[i].repeats => i \in Rounds
  BY <1>4 DEF SeriesInd, RoundsRepeat
<1>9. \/ roll' = roll
      \/ /\ i \in Rounds
         /\ roll' = [roll EXCEPT ![o] = [at |-> "create", round |-> row[i].round, id |-> First]]
  BY <1>1, <1>8 DEF Publish, Archive, Close
<1> HIDE DEF i
<1>10. /\ NoGaps' /\ [Line!LineNext]_(Line!lineVars)
       /\ Rounds' = Rounds /\ \A j \in Rounds : row'[j].round = row[j].round
  BY <1>1, <1>4, <1>5, <1>6, WriteLine
<1>11. \A h \in Rollers :
          /\ roll'[h].at \in {"none", "create"}
          /\ roll'[h].at = "create" => \E j \in Rounds : row[j].round = roll'[h].round
  <2>1. CASE roll' = roll
    BY <1>7, <2>1
  <2>2. CASE roll' # roll
    <3>1. i \in Rounds /\ o \in Rollers /\ row[i].round \in Nat
      BY <1>1, <1>4, <1>9, <2>2, RowFields DEF Rollers
    <3>2. /\ roll'[o].at = "create" /\ roll'[o].round = row[i].round
          /\ \A g \in Rollers \ {o} : roll'[g] = roll[g]
      BY <1>1, <1>9, <2>2, <3>1, RollBegins
    <3> QED BY <1>7, <3>1, <3>2
  <2> QED BY <2>1, <2>2
<1>12. RollsFollow' /\ DraftsJoin'
  BY <1>7, <1>10, <1>11 DEF RollsFollow, DraftsJoin
<1> QED BY <1>10, <1>12 DEF LineInd

\* Ending the running round stops the line.
LEMMA ClearLine ==
    ASSUME SeriesInd, LineInd, ~overlap, NEW o \in Ops, Clear(o)
    PROVE  LineInd' /\ [Line!LineNext]_(Line!lineVars)
<1> DEFINE i == task[o].id
<1>1. TypeOK /\ UNCHANGED <<roll, due, broken, overlap>>
  BY DEF Clear, SeriesInd
<1>2. /\ task[o].at = "clear" /\ task'[o].at # "start"
      /\ \A p \in Ops \ {o} : task'[p] = task[p]
  <2>1. PICK to \in {"reread", "none"} : Step(o, "clear", to)
    BY DEF Clear
  <2> QED BY <1>1, <2>1, Steps DEF Ats
<1>3. i \in Created /\ i \in Rounds /\ \A h \in Rollers : roll[h].at = "none"
  BY <1>2 DEF SeriesInd, Grounded, RoundsRepeat, InTurn, OneAtATime, Rolling
<1>4. row' = [row EXCEPT ![i].repeats = FALSE] /\ ended' = Ended(o, i)
  BY DEF Clear
<1>5. Stopped' = Stopped \/ (LastRunning(i) /\ Stopped' = TRUE)
  BY <1>4 DEF Ended, Stopped
<1> HIDE DEF i
<1>6. /\ Rounds' = Rounds
      /\ \A j \in Rounds : row'[j].round = row[j].round /\ row'[j].status = row[j].status
  <2>1. /\ Rounds' = Rounds
        /\ \A j \in Rows \ {i} : row'[j] = row[j]
        /\ row'[i].round = row[i].round /\ row'[i].status = row[i].status
    BY <1>1, <1>3, <1>4, RepeatsSet
  <2> QED BY <2>1 DEF Rounds, Created
<1>7. RollsFollow' /\ DraftsJoin'
  BY <1>1, <1>2, <1>3 DEF SeriesInd, InTurn, OneAtATime, RollsFollow, DraftsJoin
<1>8. NoGaps'
  BY <1>6 DEF LineInd, NoGaps
<1>9. CASE Stopped' = Stopped
  BY <1>6, <1>7, <1>8, <1>9, LineSame DEF LineInd
<1>10. CASE LastRunning(i) /\ Stopped' = TRUE
  <2>1. Drafts' = Drafts /\ Running' = Running /\ Past' = Past
    BY <1>6 DEF Drafts, Running, Past, Numbers
  <2>2. Drafts = {} /\ Running # {}
    BY <1>3, <1>10 DEF LastRunning, Over, Drafts, Running, Numbers
  <2>3. Line!Stop
    BY <1>10, <2>1, <2>2 DEF Line!Stop
  <2> QED BY <1>7, <1>8, <2>3 DEF LineInd, Line!LineNext
<1> QED BY <1>5, <1>9, <1>10

\* At most one of the rows that are due is a round of the line: the one that runs.
LEMMA CloseDueLine ==
    ASSUME SeriesInd, LineInd, ~overlap, CloseDue
    PROVE  LineInd' /\ [Line!LineNext]_(Line!lineVars)
<1>1. TypeOK /\ UNCHANGED <<task, roll, ended, broken, overlap>> /\ Stopped' = Stopped
  BY DEF CloseDue, SeriesInd, Stopped
<1>2. /\ \A o \in Ops : task[o].at = "none"
      /\ \A h \in Rollers : roll[h].at = "none"
  BY DEF CloseDue, CanStart, Quiet
<1>3. Rounds' = Rounds
  BY <1>1, CloseDueSet
<1>4. \A j \in Rounds :
         /\ row[j].round \in Nat /\ row[j].status \in Statuses
         /\ row'[j].round = row[j].round
         /\ row'[j].status = IF j \in DueNow THEN "closed" ELSE row[j].status
  BY <1>1, CloseDueSet, RowFields DEF Rounds
<1>5. RollsFollow' /\ DraftsJoin'
  BY <1>1, <1>2 DEF RollsFollow, DraftsJoin
<1>6. CASE Rounds \cap DueNow = {}
  <2>1. \A j \in Rounds : row'[j].round = row[j].round /\ row'[j].status = row[j].status
    BY <1>4, <1>6
  <2> QED BY <1>1, <1>3, <1>5, <2>1, LineSame DEF LineInd
<1>7. CASE Rounds \cap DueNow # {}
  <2>1. PICK i \in Rounds : i \in DueNow
    BY <1>7
  <2>2. ASSUME NEW j \in Rounds, j \in DueNow PROVE j = i
    <3>1. ~Over(i) /\ ~Over(j)
      BY <2>1, <2>2 DEF DueNow, Over
    <3>2. ~(row[i].round < row[j].round) /\ ~(row[j].round < row[i].round)
      BY <2>1, <3>1 DEF SeriesInd, InTurn, LastRuns
    <3>3. row[i].round = row[j].round
      BY <1>4, <2>1, <3>2
    <3> QED BY <2>1, <3>3 DEF SeriesInd, RoundsDistinct
  <2>3. /\ row'[i].status = "closed"
        /\ \A j \in Rounds : j # i => row'[j].status = row[j].status
    BY <1>4, <2>1, <2>2
  <2>4. RoundsDistinct
    BY DEF SeriesInd
  <2> QED BY <1>1, <1>3, <1>4, <1>5, <2>1, <2>3, <2>4, LineMoves DEF LineInd
<1> QED BY <1>6, <1>7

LEMMA FindLine ==
    ASSUME SeriesInd, LineInd, ~overlap, NEW i \in Created, Find(i)
    PROVE  LineInd' /\ [Line!LineNext]_(Line!lineVars)
<1>1. TypeOK /\ UNCHANGED <<row, task, ended, broken, overlap>> /\ Scheduler \in Rollers
  BY DEF Find, SeriesInd, Rollers
<1>2. Rounds' = Rounds /\ Stopped' = Stopped
  BY <1>1 DEF Created, Rounds, Stopped
<1>3. \/ roll' = roll
      \/ /\ i \in Rounds /\ roll'[Scheduler].at = "create"
         /\ roll'[Scheduler].round = row[i].round
         /\ \A h \in Rollers \ {Scheduler} : roll'[h] = roll[h]
  <2>1. CASE row[i].repeats
    <3>1. i \in Rounds /\ row[i].round \in Nat
      BY <1>1, <2>1, RowFields DEF SeriesInd, RoundsRepeat
    <3> QED BY <1>1, <2>1, <3>1, RollBegins DEF Find
  <2>2. CASE ~row[i].repeats
    BY <2>2 DEF Find
  <2> QED BY <2>1, <2>2
<1>4. RollsFollow' /\ DraftsJoin'
  BY <1>1, <1>2, <1>3 DEF LineInd, RollsFollow, DraftsJoin
<1> QED BY <1>1, <1>2, <1>4, LineSame DEF LineInd

LEMMA RollCreateLine ==
    ASSUME SeriesInd, LineInd, ~overlap, NEW h \in Rollers, RollCreate(h)
    PROVE  LineInd' /\ [Line!LineNext]_(Line!lineVars)
<1> DEFINE i == NewRow
           r == [[roll[h] EXCEPT !.at = "join"] EXCEPT !.id = i]
<1>1. TypeOK /\ UNCHANGED <<task, due, ended, broken, overlap>> /\ Stopped' = Stopped
  BY DEF RollCreate, SeriesInd, Stopped
<1>2. roll[h].at = "create" /\ i \in Rows \ {First} /\ row[i] = Null
  BY NewRowFree DEF RollCreate
<1>3. PICK window \in Windows : row' = [row EXCEPT ![i] = Draft(window)]
  BY DEF RollCreate, Windows
<1>4. /\ roll' = [roll EXCEPT ![h] = r] /\ r \in Rolls
      /\ r.at = "join" /\ r.id = i /\ r.round = roll[h].round
  BY <1>1, <1>2, RollFields DEF RollCreate, Rolls
<1> HIDE DEF i, r
<1>5. /\ \A j \in Rows \ {i} : row'[j] = row[j]
      /\ i \notin Created /\ Rounds' = Rounds /\ row'[i].status = "draft"
  BY <1>1, <1>2, <1>3, DraftSet
<1>6. /\ roll'[h].at = "join" /\ roll'[h].id = i /\ roll'[h].round = roll[h].round
      /\ \A g \in Rollers \ {h} : roll'[g] = roll[g]
  BY <1>1, <1>4, RollSet
<1>7. /\ \A o \in Ops : task[o].at = "none"
      /\ \A g \in Rollers \ {h} : roll[g].at = "none"
  BY <1>2 DEF SeriesInd, InTurn, OneAtATime, Rolling
<1>8. i \notin Rounds /\ \A j \in Rounds : row'[j] = row[j]
  BY <1>5 DEF Rounds, Created
<1>9. RollsFollow' /\ DraftsJoin'
  BY <1>1, <1>2, <1>5, <1>6, <1>7, <1>8 DEF LineInd, RollsFollow, DraftsJoin
<1> QED BY <1>1, <1>5, <1>8, <1>9, LineSame DEF LineInd

\* A roll adds the next number to the line.
LEMMA RollJoinLine ==
    ASSUME SeriesInd, LineInd, ~overlap, NEW h \in Rollers, RollJoin(h)
    PROVE  LineInd' /\ [Line!LineNext]_(Line!lineVars)
<1> DEFINE i == roll[h].id
           r == [roll[h] EXCEPT !.at = "publish"]
           n == roll[h].round
<1>1. TypeOK /\ UNCHANGED <<task, due, ended, broken, overlap>> /\ Stopped' = Stopped
  BY DEF RollJoin, SeriesInd, Stopped
<1>2. roll[h].at = "join" /\ i \in Created /\ n \in Nat /\ n + 1 \in Nat /\ ~Stopped
  BY <1>1, RollFields DEF RollJoin, SeriesInd, Grounded, OverForGood, Rolling, Stopped
<1>3. row' = [row EXCEPT ![i] = [@ EXCEPT !.joined = TRUE, !.round = n + 1, !.repeats = TRUE]]
  BY DEF RollJoin
<1>4. roll' = [roll EXCEPT ![h] = r] /\ r \in Rolls /\ r.at = "publish" /\ r.id = i
  BY <1>1, RollFields DEF RollJoin, Rolls
<1>5. i \notin Rounds /\ row[i].status = "draft"
  BY <1>2 DEF LineInd, DraftsJoin
<1>6. \E j \in Rounds : row[j].round = n
  BY <1>2 DEF LineInd, RollsFollow
<1>7. \A j \in Rounds : Over(j) /\ row[j].round <= n
  BY <1>2 DEF SeriesInd, InTurn, LastRuns, Last
<1> HIDE DEF i, r, n
<1>8. /\ \A j \in Rows \ {i} : row'[j] = row[j]
      /\ Rounds' = Rounds \cup {i} /\ row'[i].round = n + 1
      /\ row'[i].status = row[i].status
  BY <1>1, <1>2, <1>3, JoinSet
<1>9. \A j \in Rounds : /\ row[j].round \in Nat
                        /\ row'[j].round = row[j].round /\ row'[j].status = row[j].status
  BY <1>1, <1>5, <1>8, RowFields DEF Rounds, Created
<1>10. NoGaps' /\ [Line!LineNext]_(Line!lineVars)
  <2>1. NoGaps /\ row'[i].status = "draft"
    BY <1>5, <1>8 DEF LineInd
  <2> QED BY <1>1, <1>2, <1>5, <1>6, <1>7, <1>8, <1>9, <2>1, LineBegins
<1>11. /\ roll'[h].at = "publish" /\ roll'[h].id = i
       /\ \A g \in Rollers \ {h} : roll'[g] = roll[g]
  BY <1>1, <1>4, RollSet
<1>12. /\ \A o \in Ops : task[o].at = "none"
       /\ \A g \in Rollers \ {h} : roll[g].at = "none"
  BY <1>2 DEF SeriesInd, InTurn, OneAtATime, Rolling
<1>13. RollsFollow' /\ DraftsJoin'
  BY <1>1, <1>5, <1>8, <1>11, <1>12 DEF RollsFollow, DraftsJoin
<1> QED BY <1>10, <1>13 DEF LineInd

LEMMA RollPublishLine ==
    ASSUME SeriesInd, LineInd, ~overlap, NEW h \in Rollers, RollPublish(h)
    PROVE  LineInd' /\ [Line!LineNext]_(Line!lineVars)
<1> DEFINE i == roll[h].id
<1>1. TypeOK /\ UNCHANGED <<task, due, ended, broken, overlap>>
  BY DEF RollPublish, SeriesInd
<1>2. /\ roll[h].at = "publish" /\ i \in Created /\ row[i].status = "draft"
      /\ Write(i, "published") /\ roll' = [roll EXCEPT ![h] = NoRoll]
  BY DEF RollPublish, Rolled, SeriesInd, Grounded, LineInd, DraftsJoin
<1>3. NoRoll \in Rolls /\ NoRoll.at = "none"
  BY SeriesAssumption DEF NoRoll, Rolls
<1>4. /\ \A o \in Ops : task[o].at = "none"
      /\ \A g \in Rollers \ {h} : roll[g].at = "none"
  BY <1>2 DEF SeriesInd, InTurn, OneAtATime, Rolling
<1>5. \A g \in Rollers : roll'[g].at = "none"
  BY <1>1, <1>2, <1>3, <1>4, RollSet
<1>6. RollsFollow' /\ DraftsJoin'
  BY <1>1, <1>4, <1>5 DEF RollsFollow, DraftsJoin
<1>7. ~Over(i)
  BY <1>2 DEF Over
<1> HIDE DEF i
<1>8. NoGaps' /\ [Line!LineNext]_(Line!lineVars)
  BY <1>1, <1>2, <1>7, WriteLine
<1> QED BY <1>6, <1>8 DEF LineInd

LEMMA TickLine ==
    ASSUME SeriesInd, LineInd, ~overlap, NEW i \in Created, Tick(i)
    PROVE  LineInd' /\ [Line!LineNext]_(Line!lineVars)
<1>1. /\ UNCHANGED <<task, roll, ended, overlap>> /\ Rounds' = Rounds
      /\ \A j \in Created : row'[j].status = row[j].status /\ row'[j].round = row[j].round
  BY TickSet DEF SeriesInd
<1>2. Rounds \subseteq Created /\ Stopped' = Stopped
  BY <1>1 DEF Rounds, Stopped
<1>3. /\ \A o \in Ops : task[o].at = "start" => First \in Created
      /\ \A h \in Rollers : roll[h].at \in {"join", "publish"} => roll[h].id \in Created
  BY DEF SeriesInd, Grounded
<1>4. RollsFollow' /\ DraftsJoin'
  BY <1>1, <1>2, <1>3 DEF LineInd, RollsFollow, DraftsJoin
<1> QED BY <1>1, <1>2, <1>4, LineSame DEF LineInd

\* A crash or a failure between the commits of a roll leaves the line as it is.
LEMMA BrokenOffLine ==
    ASSUME SeriesInd, LineInd, ~overlap, BrokenOff
    PROVE  LineInd' /\ [Line!LineNext]_(Line!lineVars)
<1>1. /\ UNCHANGED <<row, ended, overlap>>
      /\ \A o \in Ops : task'[o] = task[o] \/ task'[o].at = "none"
      /\ \A h \in Rollers : roll'[h] = roll[h] \/ roll'[h].at = "none"
  BY Left DEF SeriesInd
<1>2. Rounds' = Rounds /\ Stopped' = Stopped
  BY <1>1 DEF Created, Rounds, Stopped
<1>3. RollsFollow' /\ DraftsJoin'
  BY <1>1, <1>2 DEF LineInd, RollsFollow, DraftsJoin
<1> QED BY <1>1, <1>2, <1>3, LineSame DEF LineInd

LEMMA StutterLine ==
    ASSUME LineInd, ~overlap, UNCHANGED vars
    PROVE  LineInd' /\ [Line!LineNext]_(Line!lineVars)
<1>1. Rounds' = Rounds /\ Stopped' = Stopped
  BY DEF vars, Created, Rounds, Stopped
<1>2. RollsFollow' /\ DraftsJoin'
  BY <1>1 DEF LineInd, vars, RollsFollow, DraftsJoin
<1> QED BY <1>1, <1>2, LineSame DEF LineInd, vars

\* Whether handlers may overlap is decided at the start.
LEMMA OverlapFixed ==
    ASSUME [Next]_vars
    PROVE  overlap' = overlap
<1>1. ASSUME NEW o \in Ops, NEW i \in Created,
             BeginPublish(o, i) \/ BeginClose(o, i) \/ BeginArchive(o, i) \/ BeginEnd(o, i)
      PROVE  overlap' = overlap
  BY <1>1 DEF BeginPublish, BeginClose, BeginArchive, BeginEnd
<1>2. ASSUME NEW o \in Ops, Create(o) \/ Statement(o) PROVE overlap' = overlap
  BY <1>2 DEF Create, Statement, StartSeries, SetRepeatInterval, Publish, Close, Archive,
              Clear, Reread
<1>3. ASSUME NEW h \in Rollers, RollStep(h) PROVE overlap' = overlap
  BY <1>3 DEF RollStep, RollCreate, RollJoin, RollPublish
<1>4. ASSUME BrokenOff PROVE overlap' = overlap
  BY <1>4 DEF BrokenOff, StatementFails, RollFails, LoopAborts, Crash
<1> QED BY <1>1, <1>2, <1>3, <1>4 DEF Next, CloseDue, Find, Tick, BrokenOff, vars

LEMMA LineStart ==
    ASSUME Init
    PROVE  LineInd /\ Line!LineInit
<1>1. Rounds = {} /\ ~Stopped
  BY DEF Init, Created, Rounds, Stopped
<1>2. LineInd
  BY <1>1 DEF Init, NoTask, NoRoll, LineInd, NoGaps, RollsFollow, DraftsJoin
<1> QED BY <1>1, <1>2 DEF Line!LineInit, Drafts, Running, Past, Numbers, Stopped

LEMMA LineStep ==
    ASSUME SeriesInd, LineInd, ~overlap, [Next]_vars
    PROVE  LineInd' /\ [Line!LineNext]_(Line!lineVars)
<1>1. ASSUME NEW o \in Ops, Statement(o) PROVE LineInd' /\ [Line!LineNext]_(Line!lineVars)
  BY <1>1, StartLine, RepeatLine, StatementLine, ClearLine, ReadLine DEF Statement
<1>2. ASSUME NEW h \in Rollers, RollStep(h) PROVE LineInd' /\ [Line!LineNext]_(Line!lineVars)
  BY <1>2, RollCreateLine, RollJoinLine, RollPublishLine DEF RollStep
<1> QED BY <1>1, <1>2, ReadLine, CreateLine, CloseDueLine, FindLine, TickLine,
           BrokenOffLine, StutterLine DEF Next, BrokenOff

\* When nothing overlaps, the rows of a series are one line of rounds: each number is
\* begun once, when all before it are over, and none after the end, through every
\* crash and failure between the commits of a roll (rollSeries, close, closeDuePolls, endSeries).
THEOREM LineRefinement == Spec => ImplementsLine
<1>1. Init => LineInd /\ Line!LineInit
  BY LineStart
<1>2. ASSUME SeriesInd, LineInd, [Next]_vars
      PROVE  LineInd' /\ [~overlap => Line!LineNext]_(Line!lineVars)
  <2>1. CASE ~overlap
    BY <1>2, <2>1, LineStep
  <2>2. CASE overlap
    <3>1. overlap' = overlap
      BY <1>2, OverlapFixed
    <3> QED BY <2>2, <3>1 DEF LineInd
  <2> QED BY <2>1, <2>2
<1> QED BY <1>1, <1>2, SeriesInvariant, PTL DEF Spec, ImplementsLine
=============================================================================
