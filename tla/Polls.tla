------------------------------- MODULE Polls -------------------------------
(***************************************************************************)
(* One row of table polls and the handlers that change it: publish, close, *)
(* archive, updateSettings and remove (polls.service.js), uphold and       *)
(* dismiss (moderation.routes.js) and the scheduler's closeDuePolls.       *)
(*                                                                         *)
(* Every owner or admin handler is two steps: it reads the row and decides *)
(* (Begin...), and after at least one await runs one SQL statement whose   *)
(* WHERE clause names the id alone (the actions of Statement).  Between    *)
(* the two any other handler may run.  The scheduler decides and writes in *)
(* a single UPDATE.  Any statement may also fail with the process alive    *)
(* (Fail): the request answers 500, or the error is logged and swallowed.  *)
(*                                                                         *)
(* A poll that repeats is not modelled here: nothing of rollSeries         *)
(* happens.  The tally mirror and the socket frames are not either.        *)
(***************************************************************************)
EXTENDS Integers, FiniteSets

CONSTANTS
    Ops,         \* concurrent owner and admin requests; each can be reused
    Scheduler,   \* the in-process cron job
    Handlers,    \* names of the handlers the instance exercises
    Modes,       \* dedup modes of the instance
    Identities,  \* identity modes of the instance
    Overlaps,    \* the instance's choices for overlap
    MaxCount,    \* bound: responses the environment may commit (PollSpec)
    MaxCrashes,  \* bound: process crashes
    Null         \* an absent column, field or key

ASSUME PollsAssumption ==
    /\ Scheduler \notin Ops
    /\ Modes \subseteq {"none", "cookie_device", "ip", "account", "invite_code"}
    /\ Identities \subseteq {"anonymous", "account_required"}
    /\ Overlaps \subseteq BOOLEAN
    /\ MaxCount \in Nat
    /\ MaxCrashes \in Nat
    /\ Null \notin Modes \cup Identities \cup {"before", "open", "past"}

VARIABLES
    poll,       \* the row; status "deleted" stands for no row
    pending,    \* the statement each handler is about to run
    patch,      \* the body of the PATCH a handler is about to write
    report,     \* the report filed against the poll
    announced,  \* results_ready notices sent to the owner
    lost,       \* what a handler owed after its first write and never did
    crashes,    \* process crashes so far
    overlap     \* handlers may start while others are in flight

pollVars == <<poll, pending, patch, report, announced, lost, crashes, overlap>>

Actors == Ops \cup {Scheduler}
Windows == {"before", "open", "past"}
Statuses == {"draft", "published", "closed", "archived", "deleted"}
Statements == {"none", "publish", "close", "archive", "takedown", "update", "delete", "announce"}
Owed == {"takedown", "announce"}  \* what follows a write of the same handler

Patches == [dedup : Modes \cup {Null}, identity : Identities \cup {Null},
            window : Windows \cup {Null}]
EmptyPatch == [dedup |-> Null, identity |-> Null, window |-> Null]

Polls == [status : Statuses, dedup : Modes, identity : Identities,
          window : Windows, wasOpen : BOOLEAN, count : Nat]

PollsTypeOK ==
    /\ poll \in Polls
    /\ pending \in [Actors -> Statements]
    /\ patch \in [Actors -> Patches]
    /\ report \in {"none", "open", "upheld", "dismissed"}
    /\ announced \in Nat
    /\ lost \subseteq Owed
    /\ crashes \in 0..MaxCrashes
    /\ overlap \in Overlaps

Exists == poll.status # "deleted"

\* account_required with dedup none: what createPollSchema refuses.
Footgun(p) == p.identity = "account_required" /\ p.dedup = "none"

\* A poll createPoll has just committed: any rules its schema lets through,
\* its window (opens_at, closes_at against now) not begun, open or over.
NewPolls == {p \in [status : {"draft"}, dedup : Modes, identity : Identities,
                    window : Windows, wasOpen : {FALSE}, count : {0}] : ~Footgun(p)}

PollInit ==
    /\ poll \in NewPolls
    /\ pending = [a \in Actors |-> "none"]
    /\ patch = [a \in Actors |-> EmptyPatch]
    /\ report = "none"
    /\ announced = 0
    /\ lost = {}
    /\ crashes = 0
    /\ overlap \in Overlaps

(***************************************************************************)
(* A handler reads the row, checks it and goes on to its statement.  A     *)
(* check that fails answers 4xx and changes nothing.                       *)
(***************************************************************************)
Quiet == \A a \in Actors : pending[a] = "none"
CanStart(a) == pending[a] = "none" /\ (overlap \/ Quiet)

Begin(a, handler, statement) ==
    /\ handler \in Handlers
    /\ CanStart(a)
    /\ pending' = [pending EXCEPT ![a] = statement]

\* Mutant: publish without looking at the status.
BeginPublishBug(a) ==
    /\ Begin(a, "publish", "publish")
    /\ Exists
    /\ UNCHANGED <<poll, patch, report, announced, lost, crashes, overlap>>

BeginPublish(a) ==
    /\ Begin(a, "publish", "publish")
    /\ poll.status = "draft"
    /\ UNCHANGED <<poll, patch, report, announced, lost, crashes, overlap>>

\* Mutant: close without looking at the status.
BeginCloseBug(a) ==
    /\ Begin(a, "close", "close")
    /\ Exists
    /\ UNCHANGED <<poll, patch, report, announced, lost, crashes, overlap>>

BeginClose(a) ==
    /\ Begin(a, "close", "close")
    /\ poll.status = "published"
    /\ UNCHANGED <<poll, patch, report, announced, lost, crashes, overlap>>

BeginArchive(a) ==
    /\ Begin(a, "archive", "archive")
    /\ Exists
    /\ UNCHANGED <<poll, patch, report, announced, lost, crashes, overlap>>

\* Mutant: identityMode left out of the locked settings.
LocksRulesBug(p) == p.dedup # Null

LocksRules(p) == p.dedup # Null \/ p.identity # Null

BeginUpdate(a, p) ==
    /\ Begin(a, "update", "update")
    /\ poll.status \notin {"archived", "deleted"}
    /\ poll.count > 0 => ~LocksRules(p)
    /\ patch' = [patch EXCEPT ![a] = p]
    /\ UNCHANGED <<poll, report, announced, lost, crashes, overlap>>

DeletableStatuses(role) ==
    IF role = "admin" THEN {"draft", "closed", "archived"} ELSE {"draft", "archived"}

BeginRemove(a, role) ==
    /\ Begin(a, "remove", "delete")
    /\ poll.status \in DeletableStatuses(role)
    /\ UNCHANGED <<poll, patch, report, announced, lost, crashes, overlap>>

(***************************************************************************)
(* Moderation.  Uphold resolves the report in one statement and archives   *)
(* the poll in another; it never reads the poll's status.                  *)
(***************************************************************************)
FileReport ==
    /\ "report" \in Handlers
    /\ report = "none" /\ Exists
    /\ report' = "open"
    /\ UNCHANGED <<poll, pending, patch, announced, lost, crashes, overlap>>

\* Mutant: uphold closes the poll where it should archive it.
UpholdBug(a) ==
    /\ Begin(a, "uphold", "close")
    /\ report = "open"
    /\ report' = "upheld"
    /\ UNCHANGED <<poll, patch, announced, lost, crashes, overlap>>

Uphold(a) ==
    /\ Begin(a, "uphold", "takedown")
    /\ report = "open"
    /\ report' = "upheld"
    /\ UNCHANGED <<poll, patch, announced, lost, crashes, overlap>>

Dismiss(a) ==
    /\ "dismiss" \in Handlers
    /\ CanStart(a)
    /\ report # "none"
    /\ report' = "dismissed"
    /\ UNCHANGED <<poll, pending, patch, announced, lost, crashes, overlap>>

(***************************************************************************)
(* The statements.  None of them looks at the status again: an UPDATE of a *)
(* row that is gone changes nothing and the handler answers 500.           *)
(***************************************************************************)
Runs(a, statement) == pending[a] = statement
Finish(a) == pending' = [pending EXCEPT ![a] = "none"]

SetStatus(status) ==
    poll' = IF Exists
            THEN [poll EXCEPT !.status = status,
                              !.wasOpen = @ \/ status = "published"]
            ELSE poll

Publish(a) ==
    /\ Runs(a, "publish") /\ Finish(a)
    /\ SetStatus("published")
    /\ UNCHANGED <<patch, report, announced, lost, crashes, overlap>>

\* Mutant: closing by hand sends nothing.
CloseBug(a) ==
    /\ Runs(a, "close") /\ Finish(a)
    /\ SetStatus("closed")
    /\ UNCHANGED <<patch, report, announced, lost, crashes, overlap>>

\* Whatever the status was, the owner is told the results are ready.
Close(a) ==
    /\ Runs(a, "close")
    /\ SetStatus("closed")
    /\ pending' = [pending EXCEPT ![a] = IF Exists THEN "announce" ELSE "none"]
    /\ UNCHANGED <<patch, report, announced, lost, crashes, overlap>>

\* The statement of archive() and the second one of uphold.
Archive(a) ==
    /\ Runs(a, "archive") \/ Runs(a, "takedown")
    /\ Finish(a)
    /\ SetStatus("archived")
    /\ UNCHANGED <<patch, report, announced, lost, crashes, overlap>>

Patched(old, new) == IF new = Null THEN old ELSE new

Update(a) ==
    /\ Runs(a, "update") /\ Finish(a)
    /\ poll' = IF Exists
               THEN [poll EXCEPT !.dedup = Patched(@, patch[a].dedup),
                                 !.identity = Patched(@, patch[a].identity),
                                 !.window = Patched(@, patch[a].window)]
               ELSE poll
    /\ patch' = [patch EXCEPT ![a] = EmptyPatch]
    /\ UNCHANGED <<report, announced, lost, crashes, overlap>>

\* ON DELETE CASCADE takes the reports with the poll.
Delete(a) ==
    /\ Runs(a, "delete") /\ Finish(a)
    /\ poll' = [poll EXCEPT !.status = "deleted", !.count = 0]
    /\ report' = "none"
    /\ UNCHANGED <<patch, announced, lost, crashes, overlap>>

\* notify(resultsReady): not awaited by close(), awaited by the scheduler.
Announce(a) ==
    /\ Runs(a, "announce") /\ Finish(a)
    /\ announced' = announced + 1
    /\ UNCHANGED <<poll, patch, report, lost, crashes, overlap>>

\* The statement fails: no connection comes free in time, the database errs,
\* or (for the notice) the SELECT of the owner does.  close() swallows that
\* one; the scheduler does not and leaves its loop, so a notice is also lost
\* to the failure of an earlier row's.  The handler ends and nothing is tried
\* again.  A write whose reply alone is lost is the write, then Fail.
Fail(a) ==
    /\ pending[a] # "none" /\ Finish(a)
    /\ patch' = [patch EXCEPT ![a] = EmptyPatch]
    /\ lost' = lost \cup ({pending[a]} \cap Owed)
    /\ UNCHANGED <<poll, report, announced, crashes, overlap>>

RowUpdate(a) == Publish(a) \/ Close(a) \/ Archive(a) \/ Update(a)
Statement(a) == RowUpdate(a) \/ Delete(a) \/ Announce(a)

(***************************************************************************)
(* The scheduler: one UPDATE selects and closes, then the owner is told.   *)
(***************************************************************************)
\* Mutant: the comparison of closes_at with now() turned round.
CloseDueBug ==
    /\ Begin(Scheduler, "tick", "announce")
    /\ poll.status = "published" /\ poll.window # "past"
    /\ poll' = [poll EXCEPT !.status = "closed"]
    /\ UNCHANGED <<patch, report, announced, lost, crashes, overlap>>

CloseDue ==
    /\ Begin(Scheduler, "tick", "announce")
    /\ poll.status = "published" /\ poll.window = "past"
    /\ poll' = [poll EXCEPT !.status = "closed"]
    /\ UNCHANGED <<patch, report, announced, lost, crashes, overlap>>

(***************************************************************************)
(* The environment: time passes, the process dies and is restarted, and    *)
(* (in PollSpec only) a vote that was let in commits.                      *)
(***************************************************************************)
Tick ==
    /\ poll.window # "past"
    /\ poll' = [poll EXCEPT !.window = IF @ = "before" THEN "open" ELSE "past"]
    /\ UNCHANGED <<pending, patch, report, announced, lost, crashes, overlap>>

CrashHandlers ==
    /\ crashes < MaxCrashes
    /\ crashes' = crashes + 1
    /\ pending' = [a \in Actors |-> "none"]
    /\ patch' = [a \in Actors |-> EmptyPatch]
    /\ lost' = lost \cup ({pending[a] : a \in Actors} \cap Owed)
    /\ UNCHANGED <<poll, report, announced, overlap>>

BumpResponseCount ==
    /\ Exists /\ poll.wasOpen /\ poll.count < MaxCount
    /\ overlap \/ Quiet
    /\ poll' = [poll EXCEPT !.count = @ + 1]
    /\ UNCHANGED <<pending, patch, report, announced, lost, crashes, overlap>>

Start(a) ==
    \/ BeginPublish(a) \/ BeginClose(a) \/ BeginArchive(a)
    \/ \E p \in Patches : BeginUpdate(a, p)
    \/ \E role \in {"admin", "creator"} : BeginRemove(a, role)
    \/ Uphold(a) \/ Dismiss(a)

PollNext ==
    \/ \E a \in Ops : Start(a)
    \/ \E a \in Actors : Statement(a) \/ Fail(a)
    \/ FileReport
    \/ CloseDue
    \/ Tick
    \/ CrashHandlers
    \/ BumpResponseCount

\* A statement that was sent is answered or fails, and the cron job fires
\* every minute until its UPDATE gets through.
PollFairness ==
    /\ \A a \in Actors : WF_pollVars(Statement(a) \/ Fail(a))
    /\ WF_pollVars(CloseDue)

PollSpec == PollInit /\ [][PollNext]_pollVars /\ PollFairness

-----------------------------------------------------------------------------
Lifecycle ==
    [draft |-> {"published", "archived", "deleted"}, published |-> {"closed", "archived"},
     closed |-> {"archived", "deleted"}, archived |-> {"deleted"}, deleted |-> {}]

\* Handled one at a time, requests and ticks move the status along the
\* documented lifecycle only: draft, published, closed, with archived
\* reachable from each and left by deletion alone.  The handlers enforce it by
\* reading the status before they write it (publish, close, archive, remove).
LifecycleEdges == [][
    ~overlap /\ poll'.status # poll.status => poll'.status \in Lifecycle[poll.status]]_pollVars

\* The owner hears at most once that the results are final: the claim that
\* close() and closeDuePolls cannot both announce one close.
AnnouncedOnce == announced <= 1

\* So it is as long as the two do not overlap.
AnnouncedOnceInTurn == ~overlap => AnnouncedOnce

\* The rules a response was collected under do not change afterwards, as long
\* as no response commits while a settings change is in flight: the freeze of
\* updateSettings.
RulesKept ==
    poll.count > 0 /\ poll'.count > 0 =>
        poll'.dedup = poll.dedup /\ poll'.identity = poll.identity
RulesFrozenInTurn == [][~overlap => RulesKept]_pollVars

\* Once a report has been upheld and the handlers are done, the poll is down
\* (uphold archives it), unless a handler that overlapped brought it back or it
\* was the second statement of uphold itself that failed or died: then the
\* report is resolved, a retry finds nothing to uphold and the poll stays up.
\* No other failure or crash undoes a takedown.
UpheldStaysDown ==
    ~overlap /\ report = "upheld" /\ Quiet =>
        poll.status \in {"archived", "deleted"} \/ "takedown" \in lost

\* A published poll past its deadline is closed by a later tick, unless its
\* deadline is moved, whatever the owner is doing meanwhile (closeDuePolls).
DeadlineEnforced ==
    (overlap /\ poll.status = "published" /\ poll.window = "past")
        ~> (poll.status # "published" \/ poll.window # "past")

\* Every poll that closes is announced to its owner, by hand or by deadline,
\* whatever else goes on, unless a notice itself failed or died on its way: it
\* is not stored anywhere and no later tick sends it (close, closeDuePolls).
CloseIsAnnounced ==
    (poll.status = "closed") ~> (announced > 0 \/ "announce" \in lost)

-----------------------------------------------------------------------------
(***************************************************************************)
(* The inductive invariant behind the safety properties.                   *)
(***************************************************************************)
\* In turn, a handler that has begun is alone until it is done.
Alone == \A a, b \in Actors : pending[a] # "none" /\ pending[b] # "none" => a = b

\* What a handler decided by is still so when its statement runs.
StillTrue ==
    \A a \in Actors :
        /\ pending[a] = "publish" => poll.status = "draft"
        /\ pending[a] = "close" => poll.status = "published"
        /\ pending[a] = "delete" => poll.status \in {"draft", "closed", "archived"}
        /\ pending[a] = "update" /\ poll.count > 0 => ~LocksRules(patch[a])
        /\ pending[a] = "announce" => poll.status = "closed" /\ announced = 0

\* Once the results are announced the poll has closed for good.
AnnouncedLate == announced > 0 => announced = 1 /\ poll.status \notin {"draft", "published"}

\* An upheld report has taken the poll down, or its second statement is to
\* come or lost.
UpheldComesDown ==
    report = "upheld" =>
        \/ poll.status \in {"archived", "deleted"}
        \/ "takedown" \in lost
        \/ \E a \in Actors : pending[a] = "takedown"

InTurn == Alone /\ StillTrue /\ AnnouncedLate /\ UpheldComesDown

PollInd == PollsTypeOK /\ (~overlap => InTurn)
=============================================================================
