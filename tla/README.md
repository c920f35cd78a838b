# PollHub in TLA+

A verification project for PollHub's API server: a Node process (Express, `ws`,
`node-cron`) over one Postgres database. Paths below are relative to the
repository's `src/` directory. The database arbitrates everything
(deduplication, tallies, rate limits); the process holds only sockets, the tally
mirror and whatever handlers are in flight. So the hard behaviour is what happens
between two `await`s: another handler, a scheduler tick, a vote, a deletion, a
statement that fails, a lost connection or the death of the process.

## Inventory

| Component | State | Operations | Interacts with | Hard behaviour | What makes it correct |
|---|---|---|---|---|---|
| Poll lifecycle (`modules/polls`) | `polls` row: status, rules, window, count | publish, close, archive, updateSettings, remove | scheduler, moderation, voting (same row), mirror | read the row, await, write by id alone | lifecycle edges, frozen rules, one notice per close, deadline enforced |
| Voting (`modules/responses`) | `responses`, `answers`, tallies, `response_count` | submit | lifecycle, invitations, limiter, pool, mirror | one read of the poll, then six awaits; row locks, unique indexes, deadlocks, lost COMMIT replies | tallies and count equal the stored responses; one ballot per identity; answers are true; every request is answered |
| Transactions and pool (`db`) | 10 connections | withTransaction | every writer | waits, timeouts, rollback | no wait that nothing ends |
| Invitations (`modules/invites`) | `invite_codes.used_at` | issue, claimCode | voting | claimed in its own commit, before the vote | one vote per code; a rejection keeps the code |
| Rate limiting (`middleware/rate-limit.js`) | `rate_events` | consumeDurable, hourly cleanup | voting | races for the last point, window rollover | no more than the quota per window |
| Live results (`realtime`) | mirror, channels, sockets | subscribe, snapshot, applyDelta, broadcast, evict | voting, lifecycle | a load overlapping votes, replies out of order or lost, loads that fail, options named twice, sockets that vanish | the mirror lags by exactly the unpublished votes, or is off in a known direction; watchers end up current |
| Scheduled jobs (`jobs`) | none of their own | closeDuePolls, warnClosingPolls, cleanup | lifecycle, series, limiter | race with the owner; crash or error between statement and notice | deadlines enforced, one warning per deadline |
| Repeating polls (`polls.service.js` rollSeries ...) | `series_id`, `round`, `repeat_interval` | createPoll, ensureSeries, rollSeries, endSeries, resolve | scheduler, lifecycle | three commits per roll, fire-and-forget, errors logged and forgotten | one poll per round number; a live series goes on unless a roll is broken off; an ended one stops |
| Moderation (`modules/moderation`) | `reports`, `users.suspended_at` | file, uphold, dismiss, suspend | lifecycle, sessions | two statements without a transaction | an upheld poll stays down unless the second one is lost |
| Accounts and sessions (`modules/auth`) | `users`, `refresh_tokens`, `email_tokens`, the cookies of browsers | signup, login, Google, refresh, logout, verify, reset | moderation | every statement commits alone; two tabs refresh at once, a reply is lost, a statement fails half way, sign-out and suspension race a refresh | one live token per sign-in; what is ended stays ended; nobody is signed out without cause; a link works once |
| Notifications (`modules/notifications`, `integrations`) | `push_tokens`, `notification_prefs`, `polls.closing_notified_at` | notify, register, revoke, setPrefs, warnClosingPolls | lifecycle, voting, jobs, email and push providers | preferences read before the sends; dead tokens revoked after them; ticks that overlap a moved deadline | one warning per deadline; an opt-out is obeyed by whatever is raised after it; dead devices are forgotten |
| Questions, answers and readings (`polls.schema.js`, `responses.service.js`, `modules/analytics`) | `questions`, `options`, `answers`, tallies | createPoll, validateAnswers, recompute, analytics, export, seriesReport | voting, repeating polls | the same facts kept in two tables and read back in four ways, matched by position; options without a label | tallies, answers, report and export agree where options have labels; rankings can be compared |
| Uploads, HTTP plumbing, migrations | none | stateless or start-up | | | not modelled |

`PROJECT.json` lists every component with its files and status, and every hazard
with its line and the properties that cover it, or why none does.

## Modules

| Module | What it is |
|---|---|
| `Polls` | one `polls` row and every handler that changes it, each as a read step and a write step |
| `Voting` | extends `Polls` with `submit()`, await by await, and the Postgres behaviour it relies on |
| `BallotBox` | what a poll promises: whole ballots, never twice for one identity, tallies that advance with the box |
| `PollsProofs` | the theorems about `Polls` |
| `VotingProofs` | the theorems about `Voting`: the tallies, the ballots, the refinement, and what requests are told and what it costs them |
| `LiveTally` | the tally mirror, the channel and the subscribe handler of one poll |
| `LiveTallyProofs` | the theorems about `LiveTally` |
| `Series` | the rounds of a repeating poll, the closes that roll it and the series link |
| `RoundLine` | what a repeating poll promises: one line of rounds without gaps, of which only the last is ever not over |
| `SeriesProofs` | the theorems about `Series` |
| `Accounts` | one person's account: sign-ins, refresh tokens, browsers' cookies, mailed links, statement by statement |
| `AccountsProofs` | the theorems about `Accounts` |
| `Notices` | the closing warning, `notify()` job by job, devices and preferences |
| `NoticesProofs` | the theorems about `Notices` |
| `Answers` | pure: which polls and submissions are accepted, the rows and tallies they become, what is read back |
| `Schedule` | pure: addInterval on a calendar and the walk to the next round |
| `Rounds` | extends `Answers` and `Schedule`: what the rounds of a poll hold, and the report that compares them |
| `AnswersProofs` | lemmas on finite sums and bags; the theorems about `Answers`: accepted submissions, and tallies that agree with responses |
| `RoundsProofs` | the theorems about `Schedule` (months, the walk, the slots) and about `Rounds` |
| `MCPolls`, `MCVoting`, `MCLiveTally`, `MCSeries`, `MCAccounts`, `MCNotices`, `MCRounds` | instances for TLC |

**Polls.** `Begin...` actions are the reads and checks (`getOwned` and the `if`s
after it); `pending[a]` is the statement the handler goes on to; `Publish`,
`Close`, `Archive`, `Update`, `Delete` are those statements, which name the id
alone in their WHERE clause and so overwrite whatever happened meanwhile.
`CloseDue` is the single UPDATE of the scheduler. `Fail` is a statement that fails
with the process alive, `CrashHandlers` the death of the process; `lost` remembers
which second statement of a handler (the takedown of uphold, the notice of a close)
went with either. Timestamps are abstracted to
`window` (before, open, past) and `Tick` moves it. The parameter `Overlaps` says
whether handlers may start while others are in flight (`overlap`, fixed for a
behaviour): most documented promises hold when they may not, and the runs of kind
"violation" show which fail when they may.

**Voting.** A request's `pc` is the await it stands at. `Read` is the only look
at the poll before the vote is stored; `Limit` and `Claim` commit on their own; `Connect` to `Commit` are
one Postgres transaction. `draft[r][o]` is the uncommitted version of a tally row
and, while it is above 0, the row's lock; a request at `commit` holds the poll's
row; a request past `Insert` holds a key-share lock on the poll, which is why
`OwnerDelete` waits. `Commit` may lose its reply, `ConnectionLost` and
`DeadlockVictim` roll back, and a statement outside the transaction may fail too
(`StatementFails`; a request lost at the limiter ends `dropped`). The owner's and the
scheduler's statements take connections of the same pool, so a vote may find it full
(`ConnectTimeout`). `Answer` reads the poll once more for the body of the 201: if that
fails, the vote stands and its client is told 500. Neither `rank_sum` nor the response's name and
metadata are told apart from the count and the row they are written with.

**LiveTally.** `CommitVote` is the transaction taking effect, `PublishVote` the
process learning of it: applyDelta and the broadcast; `LoseReply` is when it never
does. `pick[v]` says how often a vote names each option: the database counts it once,
the mirror every time. `LoadFails` leaves its socket registered and unserved
(`unanswered`). `skew` collects what has set the mirror and the tallies apart since the
last evict: a load that overlapped a vote, an option named twice, a lost reply.
`Ask`, `Subscribe`,
`ReadTallies`, `Load` are the awaits of `handleSubscribe`. The modes `live` and
`after_vote` are the same to the socket and appear as `live`. A deleted poll is
evicted as an archived one is.

**Series.** `task[o]` is the statement an owner request goes on to, `roll[h]` the
commit a `rollSeries` stands before: `RollCreate` (createPoll), `RollJoin`
(joinSeries), `RollPublish` (setStatus). `Close` starts a roll nobody awaits;
`CloseDue` closes whatever is due and `Find` reads each of those rows again, one
after the other, before rolling it. `RollFails` and `StatementFails` are errors that are
logged or answered, `LoopAborts` the one that nobody in `closeDuePolls` catches, `Crash`
the death of the process: what was under way is broken off, never taken up again, and
`broken` remembers it. `Resolved` is the ORDER BY of
`resolveRespondentSlug`. A tick of the scheduler waits for the one before: cron
would start another, whose rows are other rows. `RoundLine` is the series with all of this left out: the
numbers of the drafts, the running round and the rounds that are over. The dates of a round are its
`window`; a new one is not over yet.

**Accounts.** `req[r].at` is the statement a request is about to run; none of them
runs in a transaction with another. `live` are the tokens whose `revoked_at` is
null, `family` tells which sign-in a token descends from (the code does not store
it; the sweep revokes by user), and `late` and `ended` remember what the
properties are about: tokens issued after a suspension and sign-ins that were ended.
`barred` are tokens of requests that began after it. `jar` is the cookie of each browser,
changed by `Reply` and `Clear` when they arrive; `ReplyLost` and `Crash` are when they do
not, and `stranded` says that one of them left a browser with a spent token. An error
anywhere in a refresh clears the cookie (`RefreshFails`), even that of a live token; other
requests leave it alone (`StatementFails`). `signed` are the browsers that have no reason
of their own to be signed out. `tabs`
says whether a browser may send a request while another is in flight. Requests
that are refused before they write anything are left out.

**Notices.** One call of `notify()` is `Raise` (the event), `Read` (preferences and
tokens, in one `Promise.all`), then one job per channel (`SendEmail`, `Push`,
`Prune`) and `Finish`. A provider reports any part of the dead tokens. `on` and
`mine` are ghost fields: what was allowed since the notice was raised.
`WarnDue` is the one UPDATE that claims `closing_notified_at`; `MoveDeadline` any
PATCH that names `closesAt`, even with the same value.

**Answers, Schedule, Rounds.** Questions and options are their positions. A form
is a sequence of questions, a response the sequence of its `answers` rows, the
responses of a round a bag. In `Rounds` a request is one step; the order of the
statements within a roll is in `Series`. The calendar counts in days; the code
computes with milliseconds in the process's time zone, taken to be one without
daylight saving (the deployment sets none). `NextRound` is rollSeries with all
it loses: the images of options, which `questionsWithOptions` does not select. A
roll that a constraint refuses leaves the series without a next round
(`Insertable`); in `Series`, which has no forms or dates, that is a `RollFails`. A cell of
the export has a `Piece` for each row: the option, or `Blank` if it is only an image, for
which the code writes an empty string. Labels are taken to tell options apart.

## Runs

| Run | Question | Bounds |
|---|---|---|
| `polls` | does a poll keep its promises in turn, and its deadline overlapping? | one request actor (reused without limit), the scheduler, 2 responses, any number of failures, 1 crash |
| `polls_double_announce` | violation: "No double-send risk" | as above, overlapping |
| `voting_dedup` | three votes of two people on a pool of two | modes cookie, ip, account; ballots of 0 to 2 options; 1 crash |
| `voting_owner` | two votes against close, settings, scheduler; the inductive invariant | one owner actor |
| `voting_removed` | two votes with codes against archive, delete, failures, crash; the refinement; does every request get an answer? | two codes, a made-up one, none; a pool of two, which the owner and the scheduler help to fill |
| `live_tally` | two votes and two sockets in every order, with lost replies and failed loads | one poll that closes and is archived; a vote may name an option twice |
| `live_mirror_drift` | violation: "next load() picks it up" | one vote, one socket |
| `series` | in turn, are the rounds one line (the refinement of `RoundLine`)? the inductive invariant; does a live series go on, does an ended one stay ended, does the link show the right round? | one owner actor, the scheduler, three rows, any number of failures and crashes; in turn and overlapping |
| `series_not_ended` | violation: "Stop a repeating poll for good" | one request at a time, four rows |
| `accounts` | who is signed in after refreshes, sign-outs, suspensions, links, failures and lost replies in every order? | two requests (reused), two browsers, three tokens, two links, any number of losses and failures; five sets of handlers |
| `notices` | is each deadline warned about once and only to whom it may be, and are dead devices forgotten? | two notices, one device, the deadline set again once, two changes, one fault |
| `rounds` | do rounds keep their slot, and do tallies, answers, report and export agree? | seven polls, three rounds, two responses, fourteen ballots, seven days of six months |

Why these are enough. A vote interacts with another through a tally row, the
poll's row, a dedup key or a connection. Two votes reach every pairwise case;
three are needed for a third to find the pool full or to join a lock queue, which
is what `voting_dedup` is for. Two options give lock cycles.
The owner's actor is reused, so any sequence of handlers occurs; with the
scheduler there are two writers of the row, which is what a stale write needs.
`Points` is 2 in `voting_dedup`, so the limiter's boundary is met; so is that of the pool,
there and in `voting_removed`. Where crashes are counted one is enough, because after it
nothing of the first process survives; failures are never counted. In `live_tally`
two votes make replies overtake each other and two sockets make a load overlap
another socket's subscription. In `series` three rows are two rolls, so a round can
be rolled twice or be followed by another; the owner's actor and the scheduler
are the two closers that can race. Three rows are too few for two closes to race
*and* one of the two rounds they open to be ended; four make too many states for
`series`. Then the series goes on from the twin of the round that was ended, because
`endSeries` clears one row; `NothingOpensAfterEnd` is therefore about the only running
round, and `NothingOpensAfterEndHolds` proves it for any number of rows. In
`accounts` two requests race on one token,
or one is half way through a refresh while the other sweeps or signs out; the
third token is the successor of a successor or another sign-in. The handlers are
split into five sets that interact through the same rows: browsers, passwords and links,
and the three ways into an account that is suspended. In `notices` two
notices are two ticks or a tick and a close; two changes are a removal and a new
registration. In `rounds` two responses make averages and sums, three rounds let
a roll follow a roll, and the days are chosen around the end of January, where
months differ.

Deadlock is checked in `voting_*` alone (`Voting` has the explicit step `AllDone`).
Elsewhere the system may really stop: nothing ever happens to a deleted poll, in
`LiveTally` every connection is made once, in `Series` rows run out and in
`Accounts` tokens do, in `Notices` the poll has closed and everything is sent, and in
`Rounds` the days are over.

### What the violation runs show

- `polls_double_announce`: `close()` reads a published row, the scheduler closes
  the poll and announces it, `close()` writes and announces again.
- `live_mirror_drift`: the rows of `load()` predate a vote that was published
  before they arrived (or include one that is published after); nothing corrects
  the mirror until it is evicted.
- `series_not_ended`: rounds keep `repeat_interval` when they close, `endSeries`
  accepts any of them and clears that row alone; the running round rolls on.

### What else the models show

Facts met while modelling that have no run of their own, mostly as the conditions
under which a property holds:

- Polls: `updateSettings` saw no responses, one commits, and the rules change under
  it (`RulesFrozenInTurn` needs `~overlap`); a stale `publish` or `close` takes a
  poll out of the archive, and a stale `remove` deletes one that was published
  meanwhile (`LifecycleEdges` needs `~overlap`); a crash between the statements of
  uphold, or a failure of the second, leaves the poll up, and a retry is refused
  (`UpheldStaysDown` and its `lost`); a notice that fails is not sent again
  (`CloseIsAnnounced`). A PATCH can
  reach account_required with dedup none, which creation refuses as a footgun.
- Voting: a vote already past its read of the poll commits after a close or a
  deadline, and a milestone whose COMMIT reply is lost is never announced. A poll that is
  deleted right after the COMMIT makes the answer a 500.
- Answers: a multiple-choice answer may name one option twice. It leaves two
  `answers` rows and one increment, so the tallies no longer follow from the
  answers, and `recomputeFromAnswers` would change them (`RepairChangesNothing`
  is about responses without such an answer). The repair also leaves an option
  that no answer names as it was. An answer that chose an image-only option is an empty
  cell of the export, like a question that was not answered, while the tallies and the
  analytics count it (`ReadingsAgree` asks for labels).
- Rounds: a round loses the images of its options, and a series with an option that
  was only an image stops at its first roll; so does one whose closing time was
  moved to before its publication and that is then closed. A monthly series that
  opens on the 29th to 31st moves to another day for good. Analytics of a poll whose first question is optional can be
  beyond 100 per cent, or below zero (`ReadingsAgree` asks for a required one). The
  report's totals leave out rounds that have not opened; its table does not.
- LiveTally: a socket that closes during the await in `handleSubscribe` is
  registered afterwards and stays in the channel. One whose load failed stays registered
  without a snapshot. An option named twice puts the mirror ahead of the tallies, a
  COMMIT whose reply is lost puts it behind, until the next evict (`MirrorTracks`).
- Series: closes that race open two polls with one round number (`RoundsDistinct`
  needs `~overlap`). A roll that a failing statement, an error in the loop of
  `closeDuePolls` or a crash breaks off stops the series for good, since nothing looks
  for a closed round without a next one (`SeriesGoesOn` and its `broken`); the comment at
  `jobs/close-polls.js:39`, "never points at a closed poll for longer than a tick", does
  not hold then. Broken off between `joinSeries` and `setStatus`, the link points at a
  draft, which is answered 404 (`LinkAsExpected`). "Soonest first" among rounds waiting to
  open (`polls.repository.js:118`) is `round DESC` in the code, the latest; it takes two
  numbers waiting at once to tell, which `LinkAsExpected` leaves out and only raced
  closes bring about. When raced closes have left two rounds running, ending one of them
  leaves the other rolling.
- Accounts: a refresh that is between its claim and its insert survives a sweep and
  a sign-out with the token it has just superseded: its new token is live
  afterwards. `SignOutIsFinal` is about sign-ins ended while none of their refreshes
  was half done. The Google callback does not look at `suspended_at`, although
  `auth.service.js:65` says that a suspension "must take effect within the access token's
  lifetime": every Google sign-in is handed a token that holds until its first refresh, and
  a new sign-in gets the next (`SuspensionTakesEffect` states the exception). An error
  anywhere in a refresh, be it a pool that is full, clears the cookie and signs the browser
  out, also when its token has not been claimed (`NoSpuriousSignOut`).
  The loser of two sign-ups gets the unique violation unmapped.
- Notices: a revocation may arrive after the device has registered again, and
  silences it. A warning is lost with the process; nobody sends it again.

## Fairness

What is assumed is that a statement which has been sent is answered or fails. The code
does not enforce it: `db/pool.js` limits the wait for a connection
(`connectionTimeoutMillis`) but not that for an answer, so it is Postgres and the network
that are trusted here.

`PollFairness`: a handler that has begun runs on or fails (the event loop and Postgres
are not stopped by other handlers), and the cron job fires each minute. `CloseDue` is the
tick whose UPDATE gets through: with a database that fails every tick no deadline is
enforced. Nothing is assumed of owners, clocks or crashes. `Series!Fairness` is the
same for its requests, rolls and ticks.
`Voting!Fairness`: weak fairness on the progress of each request that has begun.
Weak is enough because a waiting request is released by progress of the one it
waits for, by Postgres's deadlock detection, which is `DeadlockVictim`, or by
the pool's timeout, which is `ConnectTimeout`; nothing is assumed of the handlers whose
statements hold the other connections, and no request is assumed to be sent.
`Notices!Fairness`: the job runs every five minutes of the hour in which a deadline
is near, and a call of `notify()` that has begun runs on. `Accounts` and `Rounds`
state safety alone and assume no fairness.

## Proofs

Eight modules hold theorems, checked by TLAPS for every value of the constants
under the named assumptions: sets of requests, rows, tokens and sockets of any
size, any quotas and any number of crashes. What the assumptions ask is what the
code has: the scheduler is not a request, requests, votes and rows are finitely many
(counts are cardinalities), ballots are sequences of options, the pool has a connection, the
null is none of the values it stands beside, months have 28 to 31 days, and the
calendar, which is finite in the model, goes beyond the dates that anyone names by as
much as the rounds can (`CalendarAssumption`). No theorem
assumes fairness. Each property that is not inductive rests on an inductive
invariant, stated at the end of the module it is about, that of `Rounds` in
`RoundsProofs`; TLC finds each to hold on the instances of the runs (`voting_owner`
and `series` name theirs).

### Polls (`PollsProofs`)

`PollTypeCorrect`, `PollInvariant`: `PollSpec => []PollInd`, and from it
`AnnouncedOnceInTurnHolds`, `UpheldStaysDownHolds` (invariants), `LifecycleHolds` and
`RulesFrozen` (action properties).

A statement of `polls.repository.js` does not look at what its handler read. In turn
that is harmless because of `StillTrue`: whatever a handler decided by is still so
when its statement runs, which needs `Alone`. An announcement is the only one
because the poll it belongs to has closed and closes once (`AnnouncedLate`); an
upheld report whose poll is still up has its archive pending or lost
(`UpheldComesDown`): a failure or a crash between the statements is the one way out, so
the theorem says that there is no other. All
but the types are about `~overlap`; the run `polls_double_announce` shows the need.

### Voting (`VotingProofs`)

- `TypeCorrect`, `Invariant`: `Spec => []IndInv`;
- `TallyAlwaysExact`, `OneBallotPerIdentityHolds`;
- `Refinement`: `Spec => ImplementsBox`;
- `AnswersInvariant`: `Spec => []AnswersInd`;
- `AnswersTrue`, `ConflictTrue`, `CodesSpentOnce`, `RejectedKeepCode`,
  `AttemptsAlwaysBounded`, `MilestonesOnce`.

`TallyExact` is not inductive. That a COMMIT installs `tally + 1` needs the draft
to be fresh and exclusive (`DraftsFresh`, `DraftsExclusive`: the row lock), that
it installs it for every chosen option needs `DraftsComplete` (the UPDATE
finished), and that the response is new needs `StoredStages`.
`OneBallotPerIdentity` speaks of committed rows, while the unique index also
makes an insert wait for uncommitted ones; `NoClash` covers both, and without it
two inserts could pass and both commit. `CountFresh` is the lock on the poll's
row and `PollKept` the key-share lock of the foreign key, which the refinement
needs so that a Cast happens while the poll exists. `IndInv` is their
conjunction; `voting_owner` checks it with TLC. The proof takes each action of
`Next` in turn, with lemmas for rollback, for the poll's own handlers (which
leave all of the requests' state alone) and for cardinalities of growing sets.

The refinement maps the stored responses to the box, `Chosen` to the choice and
`Key` to the identity. The identity of a request is not known before it reads the
poll's mode; `Identify` is that step.

`AnswersInd` is inductive relative to `IndInv`. `CodesFollow` says where a request
that has spent a code can be: never at a rejection, and the code stays spent while
the poll exists. `AttemptsCounted` relates the requests let past the limiter to the
counter, which the quota then bounds. `TotalsDistinct` is the milestone argument: the
`response_count` that RETURNING gave was taken under the row's lock, so no two
requests have the same one (`CountFresh`).

### Live results (`LiveTallyProofs`)

`LiveTypeCorrect`, `LiveInvariant`: `Spec => []LiveInd`, and from it `MirrorTracksHolds`,
`NothingShownEarlyHolds` and `WatchersUpToDateHolds`.

`MirrorTracks` speaks of an entry that is there; it is not inductive because a load
installs one. `LoadsTrack` says the same of the rows on their way. Each is two
inequalities, and each of the three causes in `skew` spoils its own: an option named twice
the upper, a lost reply the lower, a load that overlapped a vote both (which
`live_mirror_drift` shows necessary). A load that fails spoils neither.
`NothingShownEarly` needs that no RETURNING is ahead of the database
(`ResultsReached`), and `WatchersUpToDate`, which is about settled states, follows from
`WatchersTracked` at any moment: a watcher that is not waiting for its snapshot, and has
not missed one, has been sent what the mirror holds, which needs that an open poll is not
evicted (`OpenIsKept`).

### Repeating polls (`SeriesProofs`)

- `SeriesTypeCorrect`, `SeriesInvariant`: `Spec => []SeriesInd`;
- `RoundsDistinctHolds`, `NothingOpensAfterEndHolds`, `LinkAsExpectedHolds`;
- `LineRefinement`: `Spec => ImplementsLine`.

`TypeOK` already needs `Grounded`: statements and rolls name rows that exist.
`OverForGood` is what the end of a series leaves behind: every row that still
repeats is over, and no handler is on its way to publish or close it again; the
order of the two statements of `endSeries` is what establishes it. In turn,
`OneAtATime` and `StillTrue` are as in `Polls`, and `LastRuns` says that all rounds but the
last are over and that a roll goes on from the last, so the number it gives is
new. `FirstLeads` and `DraftsRoll` say when a round can be a draft, which the link
needs: `DraftsRoll` is where a roll that was broken off before `setStatus` has to be
excepted, and no other failure. `LinkAsExpectedHolds` also shows that the ORDER BY has a
first row, by the well-foundedness of strict subsets.

The refinement maps the rows to three sets of numbers: drafts, running, over. That
the next number is the one after all the others is `LineInd` (`NoGaps`, `RollsFollow`,
`DraftsJoin`), inductive relative to `SeriesInd`. A failure or a crash between the commits of
a roll maps to nothing, the row that is never joined to no round. `ImplementsLine` binds a
behaviour in which handlers do not overlap; when closes race there are two rounds
of one number and no such line.

### Questions, answers and rounds (`AnswersProofs`, `RoundsProofs`)

- `AcceptedTidy`: what validateAnswers lets through leaves tidy rows;
- `KeptMore`: tallies, answers and count that agree do so with one response more;
- `MonthOn`, `WalkEnds`, `WalkToSlot`, `NextRoundInv`: where a roll leads;
- `RoundsInvariant`: `Spec => []IInv`, and from it `RoundsTypeCorrect`,
  `RepairChangesNothingHolds`, `RankingComparableHolds`, `ReadingsAgreeHolds`
  (invariants) and `NextRoundOnTimeHolds` (an action property).

They hold for every form, every submission, any number of responses and rounds and
any calendar, and they are about sums: over options, over rows and over a bag of
responses. The library's induction rules take a predicate as an operator, which the
provers cannot instantiate, so `AnswersProofs` has rules of its own that take a *set*
of the good cases instead: `Counting` for numbers, `Growing` for finite sets. From
these, `SumDef` shows that the library's fold is a sum however its CHOOSE
picks (a fold exists and is unique), and `SumAdd`, `SumPlus`, `SumOrder`, `SumDrop` and
`SumMoved` are the algebra the rest needs. `FlattenFacts` does the same for the rows of a
submission, which are concatenated answer by answer.

`IInv` says of each round `Kept`: tallies, answers and count agree. None of the readings
is inductive alone: that everyone ranked every option needs that rows are `Tidy`, which
follows from the validation of the submission (`AcceptedTidy`); that the report's total
is a sum of counts needs the count of a required single choice to be the number of
responses in every round, hence that a round has the questions of the first one
(`Alike`: copying loses images only); that the tables can be rebuilt needs the
tallies to be the worth of the bag (`RepairKept`), from which it also follows that an
option with a label is read in the export as often as its tally says (`ExportAgrees`,
`CellsWritten`). `Kept` starts with the empty bag
(`KeptStart`) and grows with a response (`KeptMore`); no other request touches it.

The dates need a bound, because the calendar is finite: the n-th round opens at most 31
days times n - 1 after the last day anyone names, and is open for no more days than that
(`Dated`). Under it the recursion of `Walk` is well-founded (`WalkExists` builds the
function backwards from the last day to which a walk can lead) and ends (`WalkEnds`). A roll
with a negative length, which a deadline moved to before the opening gives, is
refused by the constraint (`NextOpening`). `NextRoundOnTime` then follows from
`NextSlot`: the interval after a slot leads to the next slot, with none between, in a
monthly series if the day is one that every month has. For the days 29 to 31 the theorem
keeps the length and that the round is not over, and says nothing of slots; `MonthOn` says
what happens then: as many days after the end of a month that is too short as are missing.

### Accounts (`AccountsProofs`)

Under `AccountsAssumption` (finite or infinite sets of requests, browsers, tokens and
links):

- `Invariant`: `Spec => []IndInv`;
- `OneTokenPerSignIn`, `SignedOutForGood`, `LinkWorksOnce`: properties that `IndInv`
  contains or implies; `SuspensionObeyed`: half of it in `IndInv`, half from `BarredInv`;
- `NobodySignedOut`: `Spec => []NoSpuriousSignOut`.

`OneLivePerSignIn` is not inductive: an `Issue` could add a second token. That it does
not is `RotationsAlone`: whoever has claimed a token of a sign-in is alone with it
until the insert, and the sign-in has no live token meanwhile. The same fact keeps
an ended sign-in from being issued a token. `SignInsAreNew` and `FamiliesRooted`
keep new sign-ins apart from old ones. `NothingAfterLate` says that nobody is past
the suspension check for a sign-in with a late token, and `BarredStop` how far a request
gets that begins after the suspension: to `CheckUser`, or to a token from Google.
`NobodySignedOut` has an invariant of its own, `TokensKept`, which follows each token from
the cookie to the request that presents it and to the reply that replaces it, and shows
that no request ever reaches the sweep; `SignedHoldCookies` adds that a browser in `signed`
has not lost its cookie, which a cleared one would otherwise satisfy.

### Notifications (`NoticesProofs`)

- `Invariant`: `Spec => []IndInv`;
- `WarnedOnce`: `Spec => []WarnedOncePerDeadline`, from `MarkerTells`, which relates
  the marker to the deadline that the poll has now;
- `DeadTokensRevoked`: `Spec => []DeadTokensPruned`, from `DeadAreHandled`: a dead token
  that is active has a job that is about to revoke it;
- `Consent`: `Spec => ConsentObeyed`, an action property, from `WaitingAllows`.

### Model-checked only

Liveness: `DeadlineEnforced`, `CloseIsAnnounced`, `EveryRequestAnswered`,
`SeriesGoesOn`, `EveryDeadlineWarned`. The provers installed do not handle ENABLED, in
terms of which fairness is defined. Every invariant and every action property
that a run checks is also a theorem.

## Plan

Built in this order: `Polls`, `Voting` with `BallotBox` and `VotingProofs`,
`LiveTally`, `Series`; then `Schedule`, `Answers` and `Rounds`, `Accounts` and
`Notices` with their proofs; then the proofs about `Polls`, the answers in `Voting`,
`LiveTally` and `Series`, with `RoundLine`; last those about `Answers`, `Schedule` and
`Rounds`. What would come next:

1. An abstract specification of a session (a sign-in has one holder until it ends)
   that `Accounts` implements.
2. `Series` and `Rounds` in one: a roll that a constraint refuses half way through its
   commits.

## Not modelled

Uploads (they sign a request for an external service), HTTP plumbing and
configuration, migrations and seeds, the in-memory rate limiters (a library) have no
state that anything else depends on. Listings, presentation, QR codes and CSV
quoting format what is stored. Issuing invite codes is one INSERT that nothing
races with. Access tokens are signed and not stored. Deleting one round of a series
is not in `Series`; deletion is in `Polls`.
