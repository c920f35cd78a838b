---------------------------- MODULE PollsProofs ----------------------------
(***************************************************************************)
(* Proofs about Polls, for any number of concurrent handlers, settings,    *)
(* responses and crashes.                                                  *)
(***************************************************************************)
EXTENDS Polls, TLAPS

(***************************************************************************)
(* Types, and what a step leaves of the row.                               *)
(***************************************************************************)
\* A handler that begins writes nothing yet.
LEMMA StartType ==
    ASSUME PollsTypeOK, NEW a \in Actors, Start(a)
    PROVE  PollsTypeOK' /\ poll' = poll
BY PollsAssumption DEF PollsTypeOK, Start, Begin, BeginPublish, BeginClose, BeginArchive,
   BeginUpdate, BeginRemove, Uphold, Dismiss, Statements

\* SetStatus writes a row of the table and neither creates nor deletes one.
LEMMA SetStatusType ==
    ASSUME poll \in Polls, NEW status \in Statuses \ {"deleted"}, SetStatus(status)
    PROVE  poll' \in Polls /\ poll'.count = poll.count /\ (Exists' <=> Exists)
<1>1. CASE ~Exists
  BY <1>1 DEF SetStatus, Exists
<1>2. CASE Exists
  <2>1. (poll.wasOpen \/ status = "published") \in BOOLEAN
    OBVIOUS
  <2>2. poll' = [poll EXCEPT !.status = status,
                             !.wasOpen = poll.wasOpen \/ status = "published"]
    BY <1>2 DEF SetStatus
  <2>3. poll' \in Polls
    BY <2>1, <2>2 DEF Polls
  <2>4. poll'.count = poll.count /\ poll'.status = status
    BY <2>2 DEF Polls
  <2> QED BY <1>2, <2>3, <2>4 DEF Exists
<1> QED BY <1>1, <1>2

\* The statements that update the row leave its response count alone.
LEMMA RowUpdateType ==
    ASSUME PollsTypeOK, NEW a \in Actors, RowUpdate(a)
    PROVE  PollsTypeOK' /\ poll'.count = poll.count /\ (Exists' <=> Exists)
<1> USE DEF PollsTypeOK
<1>1. CASE Publish(a)
  <2>1. SetStatus("published")
    BY <1>1 DEF Publish
  <2>2. poll' \in Polls /\ poll'.count = poll.count /\ (Exists' <=> Exists)
    BY <2>1, SetStatusType DEF Statuses
  <2> QED BY <1>1, <2>2 DEF Publish, Runs, Finish, Statements
<1>2. CASE Close(a)
  <2>1. SetStatus("closed")
    BY <1>2 DEF Close
  <2>2. poll' \in Polls /\ poll'.count = poll.count /\ (Exists' <=> Exists)
    BY <2>1, SetStatusType DEF Statuses
  <2> QED BY <1>2, <2>2 DEF Close, Runs, Statements
<1>3. CASE Archive(a)
  <2>1. SetStatus("archived")
    BY <1>3 DEF Archive
  <2>2. poll' \in Polls /\ poll'.count = poll.count /\ (Exists' <=> Exists)
    BY <2>1, SetStatusType DEF Statuses
  <2> QED BY <1>3, <2>2 DEF Archive, Runs, Finish, Statements
<1>4. CASE Update(a)
  <2> DEFINE p == patch[a]
  <2>1. /\ Patched(poll.dedup, p.dedup) \in Modes
        /\ Patched(poll.identity, p.identity) \in Identities
        /\ Patched(poll.window, p.window) \in Windows
    BY PollsAssumption DEF Patched, Patches, Polls
  <2>2. poll' \in Polls /\ poll'.count = poll.count /\ poll'.status = poll.status
    BY <1>4, <2>1 DEF Update, Polls
  <2>3. patch' \in [Actors -> Patches]
    BY <1>4 DEF Update, Patches, EmptyPatch
  <2> QED BY <1>4, <2>2, <2>3 DEF Update, Runs, Finish, Statements, Exists
<1> QED BY <1>1, <1>2, <1>3, <1>4 DEF RowUpdate

\* The rest of what the handlers and their environment do to the poll.
LEMMA OtherPollType ==
    ASSUME PollsTypeOK,
           \/ \E a \in Actors : Announce(a) \/ Fail(a)
           \/ FileReport
           \/ CloseDue
           \/ Tick
           \/ CrashHandlers
    PROVE  PollsTypeOK' /\ poll'.count = poll.count /\ (Exists' <=> Exists)
<1> USE DEF PollsTypeOK
<1>1. ASSUME NEW a \in Actors, Announce(a)
      PROVE  PollsTypeOK' /\ poll' = poll
  BY <1>1 DEF Announce, Runs, Finish, Statements
<1>6. ASSUME NEW a \in Actors, Fail(a)
      PROVE  PollsTypeOK' /\ poll' = poll
  BY <1>6, PollsAssumption DEF Fail, Finish, Statements, EmptyPatch, Patches
<1>2. CASE FileReport
  BY <1>2 DEF FileReport, Exists
<1>3. CASE CloseDue
  BY <1>3 DEF CloseDue, Begin, Polls, Statuses, Statements, Exists, Actors
<1>4. CASE Tick
  BY <1>4 DEF Tick, Polls, Windows, Exists
<1>5. CASE CrashHandlers
  BY <1>5, PollsAssumption DEF CrashHandlers, EmptyPatch, Patches, Statements, Exists
<1> QED BY <1>1, <1>2, <1>3, <1>4, <1>5, <1>6 DEF Exists

\* Deleting the poll.
LEMMA DeleteType ==
    ASSUME PollsTypeOK, NEW a \in Actors, Delete(a)
    PROVE  PollsTypeOK' /\ ~Exists' /\ poll'.count = 0
BY DEF PollsTypeOK, Delete, Runs, Finish, Polls, Statuses, Statements, Exists

LEMMA BumpType ==
    ASSUME PollsTypeOK, BumpResponseCount
    PROVE  PollsTypeOK' /\ poll'.status = poll.status
<1>1. poll' \in Polls /\ poll'.status = poll.status
  BY DEF BumpResponseCount, PollsTypeOK, Polls
<1> QED BY <1>1 DEF BumpResponseCount, PollsTypeOK

LEMMA PollsTypeStep ==
    ASSUME PollsTypeOK, [PollNext]_pollVars
    PROVE  PollsTypeOK'
<1>1. CASE UNCHANGED pollVars
  BY <1>1 DEF pollVars, PollsTypeOK
<1>2. ASSUME NEW a \in Actors, Statement(a)
      PROVE  PollsTypeOK'
  BY <1>2, RowUpdateType, DeleteType, OtherPollType DEF Statement
<1> QED BY <1>1, <1>2, StartType, OtherPollType, BumpType DEF PollNext, Actors

LEMMA PollsTypeInit == PollInit => PollsTypeOK
<1> SUFFICES ASSUME PollInit PROVE PollsTypeOK
  OBVIOUS
<1>1. poll \in Polls
  <2>1. PICK p \in NewPolls : poll = p
    BY DEF PollInit
  <2>2. p \in [status : {"draft"}, dedup : Modes, identity : Identities,
               window : Windows, wasOpen : {FALSE}, count : {0}]
    BY DEF NewPolls
  <2>3. p = [status |-> "draft", dedup |-> p.dedup, identity |-> p.identity,
             window |-> p.window, wasOpen |-> FALSE, count |-> 0]
    BY <2>2
  <2>4. [status |-> "draft", dedup |-> p.dedup, identity |-> p.identity,
         window |-> p.window, wasOpen |-> FALSE, count |-> 0] \in Polls
    BY <2>2 DEF Polls, Statuses
  <2> QED BY <2>1, <2>3, <2>4
<1> QED BY <1>1, PollsAssumption DEF PollInit, PollsTypeOK, EmptyPatch, Patches, Statements

\* Every variable of a poll and its handlers keeps its type.
THEOREM PollTypeCorrect == PollSpec => []PollsTypeOK
BY PollsTypeInit, PollsTypeStep, PTL DEF PollSpec

-----------------------------------------------------------------------------
(***************************************************************************)
(* The inductive invariant, in turn: a handler begins when nothing else is *)
(* in flight, so what it decided by still holds when it writes.            *)
(***************************************************************************)
\* Nothing is in flight when a handler begins, and then it alone is.
LEMMA BeginInTurn ==
    ASSUME PollsTypeOK, InTurn, ~overlap, NEW a \in Actors, NEW st \in Statements,
           CanStart(a), pending' = [pending EXCEPT ![a] = st],
           UNCHANGED <<poll, announced, lost>>,
           st = "publish" => poll.status = "draft",
           st = "close" => poll.status = "published",
           st = "delete" => poll.status \in {"draft", "closed", "archived"},
           st = "update" /\ poll.count > 0 => ~LocksRules(patch'[a]),
           st # "announce",
           report' = "upheld" => report = "upheld" \/ st = "takedown"
    PROVE  InTurn'
<1> USE DEF InTurn
<1>1. \A b \in Actors : pending[b] = "none"
  BY DEF CanStart, Quiet
<1>2. \A b \in Actors : pending'[b] = IF b = a THEN st ELSE "none"
  BY <1>1 DEF PollsTypeOK
<1>3. Alone'
  BY <1>2 DEF Alone
<1>4. StillTrue'
  BY <1>2 DEF StillTrue
<1>5. AnnouncedLate'
  BY DEF AnnouncedLate
<1>6. UpheldComesDown'
  BY <1>1, <1>2 DEF UpheldComesDown
<1> QED BY <1>3, <1>4, <1>5, <1>6

LEMMA StartInTurn ==
    ASSUME PollsTypeOK, InTurn, ~overlap, NEW a \in Actors, Start(a)
    PROVE  InTurn'
<1> USE DEF Begin, Statements
<1>1. CASE BeginPublish(a)
  BY <1>1, BeginInTurn DEF BeginPublish
<1>2. CASE BeginClose(a)
  BY <1>2, BeginInTurn DEF BeginClose
<1>3. CASE BeginArchive(a)
  BY <1>3, BeginInTurn DEF BeginArchive
<1>4. ASSUME NEW p \in Patches, BeginUpdate(a, p)
      PROVE  InTurn'
  <2>1. patch'[a] = p
    BY <1>4 DEF BeginUpdate, PollsTypeOK
  <2> QED BY <1>4, <2>1, BeginInTurn DEF BeginUpdate
<1>5. ASSUME NEW role \in {"admin", "creator"}, BeginRemove(a, role)
      PROVE  InTurn'
  <2>1. poll.status \in {"draft", "closed", "archived"}
    BY <1>5 DEF BeginRemove, DeletableStatuses
  <2> QED BY <1>5, <2>1, BeginInTurn DEF BeginRemove
<1>6. CASE Uphold(a)
  BY <1>6, BeginInTurn DEF Uphold
<1>7. CASE Dismiss(a)
  BY <1>7 DEF Dismiss, InTurn, Alone, StillTrue, AnnouncedLate, UpheldComesDown
<1> QED BY <1>1, <1>2, <1>3, <1>4, <1>5, <1>6, <1>7 DEF Start

\* A handler that runs its statement is the only one in flight.
LEMMA OnlyOne ==
    ASSUME PollsTypeOK, Alone, NEW a \in Actors, pending[a] # "none", NEW st,
           pending' = [pending EXCEPT ![a] = st]
    PROVE  \A b \in Actors : /\ b # a => pending[b] = "none"
                             /\ pending'[b] = IF b = a THEN st ELSE "none"
BY DEF PollsTypeOK, Alone

\* What an UPDATE of the status leaves.
LEMMA SetStatusEffect ==
    ASSUME PollsTypeOK, NEW status \in Statuses \ {"deleted"}, SetStatus(status)
    PROVE  /\ poll'.status = IF Exists THEN status ELSE "deleted"
           /\ poll'.count = poll.count
           /\ poll'.dedup = poll.dedup /\ poll'.identity = poll.identity
<1>1. CASE ~Exists
  BY <1>1 DEF SetStatus, Exists
<1>2. CASE Exists
  <2>1. poll' = [poll EXCEPT !.status = status,
                             !.wasOpen = poll.wasOpen \/ status = "published"]
    BY <1>2 DEF SetStatus
  <2> QED BY <1>2, <2>1 DEF PollsTypeOK, Polls
<1> QED BY <1>1, <1>2

LEMMA StatementInTurn ==
    ASSUME PollsTypeOK, InTurn, NEW a \in Actors, Statement(a)
    PROVE  InTurn'
<1> USE DEF InTurn, Runs
<1>1. CASE Publish(a)
  <2>1. poll'.status = "published" /\ poll.status = "draft" /\ announced = 0
    BY <1>1, SetStatusEffect DEF Publish, StillTrue, AnnouncedLate, Statuses, Exists, PollsTypeOK
  <2>2. \A b \in Actors : pending[b] # "takedown" /\ pending'[b] = "none"
    BY <1>1, OnlyOne DEF Publish, Finish
  <2>3. report = "upheld" => "takedown" \in lost
    BY <2>1, <2>2 DEF UpheldComesDown
  <2> QED BY <1>1, <2>1, <2>2, <2>3 DEF Publish, Alone, StillTrue, AnnouncedLate, UpheldComesDown
<1>2. CASE Close(a)
  <2>1. Exists /\ poll.status = "published" /\ announced = 0
    BY <1>2 DEF Close, StillTrue, AnnouncedLate, PollsTypeOK, Exists
  <2>2. poll'.status = "closed"
    BY <1>2, <2>1, SetStatusEffect DEF Close, Statuses
  <2>3. \A b \in Actors : /\ pending[b] # "takedown"
                          /\ pending'[b] = IF b = a THEN "announce" ELSE "none"
    BY <1>2, <2>1, OnlyOne DEF Close
  <2>4. report = "upheld" => "takedown" \in lost
    BY <2>1, <2>3 DEF UpheldComesDown
  <2> QED BY <1>2, <2>1, <2>2, <2>3, <2>4 DEF Close, Alone, StillTrue, AnnouncedLate, UpheldComesDown
<1>3. CASE Archive(a)
  <2>1. poll'.status \in {"archived", "deleted"}
    BY <1>3, SetStatusEffect DEF Archive, Statuses
  <2>2. \A b \in Actors : pending'[b] = "none"
    BY <1>3, OnlyOne DEF Archive, Finish
  <2> QED BY <1>3, <2>1, <2>2 DEF Archive, Alone, StillTrue, AnnouncedLate, UpheldComesDown
<1>4. CASE Update(a)
  <2>1. poll'.status = poll.status
    BY <1>4 DEF Update, PollsTypeOK, Polls
  <2>2. \A b \in Actors : pending[b] # "takedown" /\ pending'[b] = "none"
    BY <1>4, OnlyOne DEF Update, Finish
  <2> QED BY <1>4, <2>1, <2>2 DEF Update, Alone, StillTrue, AnnouncedLate, UpheldComesDown
<1>5. CASE Delete(a)
  <2>1. poll'.status = "deleted"
    BY <1>5 DEF Delete, PollsTypeOK, Polls
  <2>2. \A b \in Actors : pending'[b] = "none"
    BY <1>5, OnlyOne DEF Delete, Finish
  <2> QED BY <1>5, <2>1, <2>2 DEF Delete, Alone, StillTrue, AnnouncedLate, UpheldComesDown
<1>6. CASE Announce(a)
  <2>1. poll.status = "closed" /\ announced = 0
    BY <1>6 DEF Announce, StillTrue
  <2>2. \A b \in Actors : pending[b] # "takedown" /\ pending'[b] = "none"
    BY <1>6, OnlyOne DEF Announce, Finish
  <2> QED BY <1>6, <2>1, <2>2 DEF Announce, Alone, StillTrue, AnnouncedLate, UpheldComesDown
<1> QED BY <1>1, <1>2, <1>3, <1>4, <1>5, <1>6 DEF Statement, RowUpdate

\* A handler whose statement fails leaves everything as it was, but for what it
\* owed.
LEMMA FailInTurn ==
    ASSUME PollsTypeOK, InTurn, NEW a \in Actors, Fail(a)
    PROVE  InTurn'
<1> USE DEF InTurn
<1>1. pending[a] # "none" /\ pending' = [pending EXCEPT ![a] = "none"]
  BY DEF Fail, Finish
<1>2. \A b \in Actors : (b # a => pending[b] = "none") /\ pending'[b] = "none"
  BY <1>1 DEF PollsTypeOK, Alone
<1>3. \A b \in Actors : pending[b] = "takedown" => "takedown" \in lost'
  BY <1>2 DEF Fail, Owed
<1> QED BY <1>2, <1>3 DEF Fail, Alone, StillTrue, AnnouncedLate, UpheldComesDown

\* A tick that closes the poll finds nothing else in flight, and leaves the
\* notice to its second step.
LEMMA CloseDueInTurn ==
    ASSUME PollsTypeOK, InTurn, ~overlap, CloseDue
    PROVE  InTurn'
<1> USE DEF InTurn
<1>1. Scheduler \in Actors
  BY DEF Actors
<1>2. \A b \in Actors : pending[b] = "none"
  BY DEF CloseDue, Begin, CanStart, Quiet
<1>3. \A b \in Actors : pending'[b] = IF b = Scheduler THEN "announce" ELSE "none"
  BY <1>2 DEF CloseDue, Begin, PollsTypeOK
<1>4. poll'.status = "closed" /\ poll.status = "published" /\ announced = 0
  BY DEF CloseDue, PollsTypeOK, Polls, AnnouncedLate
<1>5. report = "upheld" => "takedown" \in lost
  BY <1>2, <1>4 DEF UpheldComesDown
<1>6. UNCHANGED <<announced, report, lost>>
  BY DEF CloseDue
<1> QED BY <1>3, <1>4, <1>5, <1>6 DEF Alone, StillTrue, AnnouncedLate, UpheldComesDown

\* Reports, time and votes leave the status and the handlers alone; a crash
\* leaves no handler.
LEMMA EnvironmentInTurn ==
    ASSUME PollsTypeOK, InTurn, ~overlap, FileReport \/ Tick \/ CrashHandlers \/ BumpResponseCount
    PROVE  InTurn'
<1> USE DEF InTurn, Alone, StillTrue, AnnouncedLate, UpheldComesDown
<1>1. CASE FileReport
  BY <1>1 DEF FileReport
<1>2. CASE Tick
  <2>1. poll'.status = poll.status /\ poll'.count = poll.count
    BY <1>2 DEF Tick, PollsTypeOK, Polls
  <2> QED BY <1>2, <2>1 DEF Tick
<1>3. CASE CrashHandlers
  <2>1. \A b \in Actors : pending'[b] = "none"
    BY <1>3 DEF CrashHandlers
  <2>2. \A b \in Actors : pending[b] = "takedown" => "takedown" \in lost'
    BY <1>3 DEF CrashHandlers, Owed
  <2> QED BY <1>3, <2>1, <2>2 DEF CrashHandlers
<1>4. CASE BumpResponseCount
  <2>1. poll'.status = poll.status
    BY <1>4, BumpType
  <2>2. \A b \in Actors : pending[b] = "none"
    BY <1>4 DEF BumpResponseCount, Quiet
  <2> QED BY <1>4, <2>1, <2>2 DEF BumpResponseCount
<1> QED BY <1>1, <1>2, <1>3, <1>4

LEMMA PollIndStep ==
    ASSUME PollInd, [PollNext]_pollVars
    PROVE  PollInd'
<1>1. PollsTypeOK /\ PollsTypeOK'
  BY PollsTypeStep DEF PollInd
<1>2. overlap' = overlap
  BY DEF PollNext, pollVars, Start, BeginPublish, BeginClose, BeginArchive, BeginUpdate,
     BeginRemove, Uphold, Dismiss, Statement, RowUpdate, Publish, Close, Archive, Update,
     Delete, Announce, Fail, FileReport, CloseDue, Tick, CrashHandlers, BumpResponseCount
<1>3. ASSUME ~overlap PROVE InTurn'
  <2>1. InTurn
    BY <1>3 DEF PollInd, InTurn
  <2>2. CASE UNCHANGED pollVars
    BY <2>1, <2>2 DEF pollVars, InTurn, Alone, StillTrue, AnnouncedLate, UpheldComesDown
  <2> QED
    BY <1>1, <1>3, <2>1, <2>2, StartInTurn, StatementInTurn, FailInTurn, CloseDueInTurn, EnvironmentInTurn
    DEF PollNext, Actors
<1> QED BY <1>1, <1>2, <1>3 DEF PollInd, InTurn

LEMMA PollIndInit == PollInit => PollInd
<1> SUFFICES ASSUME PollInit PROVE PollInd
  OBVIOUS
<1>1. PollsTypeOK
  BY PollsTypeInit
<1>2. \A a \in Actors : pending[a] = "none"
  BY DEF PollInit
<1> QED BY <1>1, <1>2 DEF PollInit, PollInd, InTurn, Alone, StillTrue, AnnouncedLate, UpheldComesDown

\* The inductive invariant holds in every reachable state.
THEOREM PollInvariant == PollSpec => []PollInd
BY PollIndInit, PollIndStep, PTL DEF PollSpec

\* As long as handlers do not overlap, close() and the scheduler never both
\* announce one close.
THEOREM AnnouncedOnceInTurnHolds == PollSpec => []AnnouncedOnceInTurn
<1>1. PollInd => AnnouncedOnceInTurn
  BY DEF PollInd, InTurn, PollsTypeOK, AnnouncedLate, AnnouncedOnceInTurn, AnnouncedOnce
<1> QED BY <1>1, PollInvariant, PTL

\* As long as handlers do not overlap, a poll whose report was upheld is down
\* when they are done and no later handler brings it back, unless it was the
\* second statement of uphold that failed or died.
THEOREM UpheldStaysDownHolds == PollSpec => []UpheldStaysDown
<1>1. PollInd => UpheldStaysDown
  BY DEF PollInd, InTurn, UpheldComesDown, UpheldStaysDown, Quiet
<1> QED BY <1>1, PollInvariant, PTL

-----------------------------------------------------------------------------
(***************************************************************************)
(* Action properties.                                                      *)
(***************************************************************************)
\* Only a statement or a tick moves the status, and it moves it from the one
\* its handler read.
LEMMA LifecycleStep ==
    ASSUME PollInd, [PollNext]_pollVars, ~overlap, poll'.status # poll.status
    PROVE  poll'.status \in Lifecycle[poll.status]
<1> USE DEF PollInd, InTurn, Lifecycle
<1>1. poll.status \in Statuses
  BY DEF PollsTypeOK, Polls
<1>2. ASSUME NEW a \in Actors, Statement(a)
      PROVE  poll'.status \in Lifecycle[poll.status]
  <2>1. CASE Publish(a)
    BY <2>1, SetStatusEffect DEF Publish, Runs, StillTrue, Statuses, Exists
  <2>2. CASE Close(a)
    BY <2>2, SetStatusEffect DEF Close, Runs, StillTrue, Statuses, Exists
  <2>3. CASE Archive(a)
    BY <1>1, <2>3, SetStatusEffect DEF Archive, Statuses, Exists
  <2>4. CASE Update(a)
    BY <2>4 DEF Update, PollsTypeOK, Polls
  <2>5. CASE Delete(a)
    BY <2>5 DEF Delete, Runs, StillTrue, PollsTypeOK, Polls
  <2>6. CASE Announce(a)
    BY <2>6 DEF Announce
  <2> QED BY <1>2, <2>1, <2>2, <2>3, <2>4, <2>5, <2>6 DEF Statement, RowUpdate
<1>3. ASSUME NEW a \in Ops, Start(a)
      PROVE  FALSE
  BY <1>3, StartType DEF Actors
<1>4. CASE CloseDue
  BY <1>4 DEF CloseDue, PollsTypeOK, Polls
<1>5. CASE FileReport \/ Tick \/ CrashHandlers \/ \E a \in Actors : Fail(a)
  BY <1>5 DEF Fail, FileReport, Tick, CrashHandlers, PollsTypeOK, Polls
<1>6. CASE BumpResponseCount
  BY <1>6, BumpType
<1>7. CASE UNCHANGED pollVars
  BY <1>7 DEF pollVars
<1> QED BY <1>2, <1>3, <1>4, <1>5, <1>6, <1>7 DEF PollNext

\* As long as handlers do not overlap, the status moves along the documented
\* lifecycle only.
THEOREM LifecycleHolds == PollSpec => LifecycleEdges
<1>1. PollInd /\ [PollNext]_pollVars =>
        [~overlap /\ poll'.status # poll.status =>
            poll'.status \in Lifecycle[poll.status]]_pollVars
  BY LifecycleStep
<1> QED BY <1>1, PollInvariant, PTL DEF PollSpec, LifecycleEdges

\* A PATCH that is written when there are responses names no locked rule, for
\* none has committed since it was let through.
LEMMA RulesStep ==
    ASSUME PollInd, [PollNext]_pollVars, ~overlap
    PROVE  RulesKept
<1> USE DEF PollInd, InTurn, RulesKept
<1>1. ASSUME NEW a \in Actors, Statement(a)
      PROVE  RulesKept
  <2>1. CASE Publish(a) \/ Close(a) \/ Archive(a)
    BY <2>1, SetStatusEffect DEF Publish, Close, Archive, Statuses
  <2>2. CASE Update(a)
    <3> SUFFICES ASSUME poll.count > 0
                 PROVE  poll'.dedup = poll.dedup /\ poll'.identity = poll.identity
      OBVIOUS
    <3>1. patch[a].dedup = Null /\ patch[a].identity = Null
      BY <2>2 DEF Update, Runs, StillTrue, LocksRules
    <3> QED BY <2>2, <3>1 DEF Update, Patched, PollsTypeOK, Polls
  <2>3. CASE Delete(a)
    BY <2>3, DeleteType
  <2>4. CASE Announce(a)
    BY <2>4 DEF Announce
  <2> QED BY <1>1, <2>1, <2>2, <2>3, <2>4 DEF Statement, RowUpdate
<1>2. ASSUME NEW a \in Ops, Start(a)
      PROVE  RulesKept
  BY <1>2, StartType DEF Actors
<1>3. CASE CloseDue
  BY <1>3 DEF CloseDue, PollsTypeOK, Polls
<1>4. CASE FileReport \/ Tick \/ CrashHandlers \/ BumpResponseCount \/ \E a \in Actors : Fail(a)
  BY <1>4 DEF Fail, FileReport, Tick, CrashHandlers, BumpResponseCount, PollsTypeOK, Polls
<1>5. CASE UNCHANGED pollVars
  BY <1>5 DEF pollVars
<1> QED BY <1>1, <1>2, <1>3, <1>4, <1>5 DEF PollNext

\* As long as no response commits while a settings change is in flight, the
\* rules a response was collected under stay.
THEOREM RulesFrozen == PollSpec => RulesFrozenInTurn
<1>1. PollInd /\ [PollNext]_pollVars => [~overlap => RulesKept]_pollVars
  BY RulesStep
<1> QED BY <1>1, PollInvariant, PTL DEF PollSpec, RulesFrozenInTurn
=============================================================================
