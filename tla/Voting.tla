------------------------------- MODULE Voting -------------------------------
(***************************************************************************)
(* Submitting a response to one poll: submit() of responses.service.js,    *)
(* the Postgres transaction it runs and the poll handlers it races with.   *)
(*                                                                         *)
(* A request goes through one await at a time:                             *)
(*   idle -> limit -> claim -> begin -> insert -> tally -> bump -> commit  *)
(*        -> publish -> created                                            *)
(* and may leave it as "refused" (a 4xx), "conflict" (409 already          *)
(* responded), or with an error or no answer at all: "dropped" before the  *)
(* limiter let it pass, "failed" after.  The poll is read in the first     *)
(* step and not again until the response is committed, so its status, its  *)
(* window and its rules may all have changed by then.                      *)
(*                                                                         *)
(* The database is Postgres at READ COMMITTED as the code uses it: a       *)
(* writer of a row waits for the transaction that wrote it last, a new row *)
(* that would break a unique index waits for the transaction that inserted *)
(* the other one, a child row keeps its parent from being deleted, and a   *)
(* cycle of waiting writers loses one of them.                             *)
(***************************************************************************)
EXTENDS Polls, Sequences

CONSTANTS
    Requests,    \* submissions; each is sent once
    Options,     \* options of the poll's questions
    Ballots,     \* the answers a submission may carry: option ids in order
    Voters,      \* the identities a submission may come with
    Codes,       \* invite codes issued for the poll
    Points,      \* attempts an address is allowed in a window
    PoolMax,     \* connections of the pool
    Milestones   \* response counts worth telling the owner about

ASSUME VotingAssumption ==
    /\ IsFiniteSet(Requests)
    /\ Ballots \subseteq Seq(Options)
    /\ \A v \in Voters : v = [device |-> v.device, ip |-> v.ip, user |-> v.user, code |-> v.code]
    /\ Null \notin Codes
    /\ Points \in Nat
    /\ PoolMax \in Nat \ {0}
    /\ Milestones \subseteq Nat \ {0}

VARIABLES
    who,        \* the identity each request comes with
    ballot,     \* the answers each request carries
    pc,         \* where each request has got to
    rules,      \* the dedup mode each request read with the poll
    tries,      \* rate_events: attempts counted against each address
    used,       \* invite_codes rows whose used_at is set
    claimed,    \* the code each request claimed
    responses,  \* requests whose responses and answers rows are committed
    tally,      \* tallies: the committed count of each option
    draft,      \* draft[r][o]: the count r has written to o's row, 0 if it has not
    counted,    \* the response_count r's bump returned, 0 before it
    notified    \* requests that raised a milestone event

requestVars == <<who, ballot, pc, rules, tries, used, claimed, responses,
                 tally, draft, counted, notified>>
vars == <<pollVars, requestVars>>

Stages == {"idle", "limit", "claim", "begin", "insert", "tally", "bump", "commit",
           "publish", "created", "conflict", "refused", "dropped", "failed"}
Finals == {"created", "conflict", "refused", "dropped", "failed"}
Inserted == {"tally", "bump", "commit"}  \* response row written, not committed
InTxn == {"insert"} \cup Inserted        \* holding a connection of the pool

Addresses == {v.ip : v \in Voters}
Chosen(r) == {ballot[r][i] : i \in DOMAIN ballot[r]}
Held(r) == {o \in Options : draft[r][o] > 0}
NoDraft == [o \in Options |-> 0]

TypeOK ==
    /\ PollsTypeOK
    /\ who \in [Requests -> Voters]
    /\ ballot \in [Requests -> Ballots]
    /\ pc \in [Requests -> Stages]
    /\ rules \in [Requests -> Modes \cup {Null}]
    /\ tries \in [Addresses -> Nat]
    /\ used \subseteq Codes
    /\ claimed \in [Requests -> Codes \cup {Null}]
    /\ responses \subseteq Requests
    /\ tally \in [Options -> Nat]
    /\ draft \in [Requests -> [Options -> Nat]]
    /\ counted \in [Requests -> Nat]
    /\ notified \subseteq Requests

RequestInit ==
    /\ who \in [Requests -> Voters]
    /\ ballot \in [Requests -> Ballots]
    /\ pc = [r \in Requests |-> "idle"]
    /\ rules = [r \in Requests |-> Null]
    /\ tries = [i \in Addresses |-> 0]
    /\ used = {}
    /\ claimed = [r \in Requests |-> Null]
    /\ responses = {}
    /\ tally = [o \in Options |-> 0]
    /\ draft = [r \in Requests |-> NoDraft]
    /\ counted = [r \in Requests |-> 0]
    /\ notified = {}

\* The poll has been published and nobody has voted yet.
OpenPolls == {[p EXCEPT !.status = "published", !.wasOpen = TRUE] : p \in NewPolls}

Init ==
    /\ poll \in OpenPolls
    /\ pending = [a \in Actors |-> "none"]
    /\ patch = [a \in Actors |-> EmptyPatch]
    /\ report = "none"
    /\ announced = 0
    /\ lost = {}
    /\ crashes = 0
    /\ overlap \in Overlaps
    /\ RequestInit

(***************************************************************************)
(* Deduplication.  buildDedupKeys fills the one column the poll's mode     *)
(* names; the partial unique indexes ignore a null.                        *)
(***************************************************************************)
\* Mutant: the user is not cleared for an invitation-only poll.
DedupKeysBug(mode, v) ==
    [fingerprint |-> IF mode = "cookie_device" THEN v.device ELSE Null,
     ip          |-> IF mode = "ip" THEN v.ip ELSE Null,
     user        |-> IF mode \in {"account", "invite_code"} THEN v.user ELSE Null]

DedupKeys(mode, v) ==
    [fingerprint |-> IF mode = "cookie_device" THEN v.device ELSE Null,
     ip          |-> IF mode = "ip" THEN v.ip ELSE Null,
     user        |-> IF mode = "account" THEN v.user ELSE Null]

Key(r) == DedupKeys(rules[r], who[r])

Clash(k, l) ==
    \/ k.fingerprint # Null /\ k.fingerprint = l.fingerprint
    \/ k.ip # Null /\ k.ip = l.ip
    \/ k.user # Null /\ k.user = l.user

(***************************************************************************)
(* Before the transaction.                                                 *)
(***************************************************************************)
Goto(r, stage) == pc' = [pc EXCEPT ![r] = stage]

Accepting == poll.status = "published" /\ poll.window = "open"
IdentityOK(r) == poll.identity = "account_required" => who[r].user # Null

\* resolveRespondentSlug, then assertAcceptingResponses and assertIdentity on
\* the row it returned.
Read(r) ==
    /\ pc[r] = "idle"
    /\ IF Accepting /\ IdentityOK(r)
       THEN /\ Goto(r, "limit")
            /\ rules' = [rules EXCEPT ![r] = poll.dedup]
       ELSE /\ Goto(r, "refused")
            /\ UNCHANGED rules
    /\ UNCHANGED <<pollVars, who, ballot, tries, used, claimed, responses,
                   tally, draft, counted, notified>>

\* verifyTurnstile says no, or validateAnswers or an account poll without a
\* user throws: nothing is held and nothing was written but the attempt.
Refuse(r) ==
    /\ pc[r] = "limit"
    /\ Goto(r, "refused")
    /\ \/ UNCHANGED tries
       \/ tries' = [tries EXCEPT ![who[r].ip] = @ + 1]
    /\ UNCHANGED <<pollVars, who, ballot, rules, used, claimed, responses,
                   tally, draft, counted, notified>>

\* Mutant: the count is compared before the attempt is added to it.
LimitBug(r) ==
    LET count == tries[who[r].ip] IN
    /\ pc[r] = "limit"
    /\ tries' = [tries EXCEPT ![who[r].ip] = count + 1]
    /\ IF \/ count > Points
          \/ rules[r] = "account" /\ who[r].user = Null
       THEN Goto(r, "refused")
       ELSE Goto(r, IF rules[r] = "invite_code" THEN "claim" ELSE "begin")
    /\ UNCHANGED <<pollVars, who, ballot, rules, used, claimed, responses,
                   tally, draft, counted, notified>>

\* voteLimiter: one upsert that counts the attempt and returns the count;
\* then buildDedupKeys and validateAnswers.
Limit(r) ==
    LET count == tries[who[r].ip] + 1 IN
    /\ pc[r] = "limit"
    /\ tries' = [tries EXCEPT ![who[r].ip] = count]
    /\ IF \/ count > Points
          \/ rules[r] = "account" /\ who[r].user = Null
       THEN Goto(r, "refused")
       ELSE Goto(r, IF rules[r] = "invite_code" THEN "claim" ELSE "begin")
    /\ UNCHANGED <<pollVars, who, ballot, rules, used, claimed, responses,
                   tally, draft, counted, notified>>

\* Mutant: used_at IS NULL missing from the WHERE clause.
ClaimableBug(code) == code \in Codes /\ Exists

\* claimCode: one UPDATE ... WHERE used_at IS NULL, committed on its own.  The
\* code goes with the poll when that is deleted.
Claimable(code) == code \in Codes /\ code \notin used /\ Exists

Claim(r) ==
    /\ pc[r] = "claim"
    /\ IF Claimable(who[r].code)
       THEN /\ used' = used \cup {who[r].code}
            /\ claimed' = [claimed EXCEPT ![r] = who[r].code]
            /\ Goto(r, "begin")
       ELSE /\ Goto(r, "refused")
            /\ UNCHANGED <<used, claimed>>
    /\ UNCHANGED <<pollVars, who, ballot, rules, tries, responses,
                   tally, draft, counted, notified>>

\* A statement before the transaction fails, or takes effect and its reply is
\* lost: a 500, with the attempt counted or the code spent all the same.  (A
\* first read that fails leaves nothing behind: it is the second that does.)
StatementFails(r) ==
    /\ pc[r] \in {"limit", "claim"}
    /\ Goto(r, IF pc[r] = "claim" THEN "failed" ELSE "dropped")
    /\ \/ UNCHANGED <<tries, used, claimed>>
       \/ /\ pc[r] = "limit"
          /\ tries' = [tries EXCEPT ![who[r].ip] = @ + 1]
          /\ UNCHANGED <<used, claimed>>
       \/ /\ pc[r] = "claim" /\ Claimable(who[r].code)
          /\ used' = used \cup {who[r].code}
          /\ claimed' = [claimed EXCEPT ![r] = who[r].code]
          /\ UNCHANGED tries
    /\ UNCHANGED <<pollVars, who, ballot, rules, responses, tally, draft, counted, notified>>

(***************************************************************************)
(* withTransaction.                                                        *)
(***************************************************************************)
Busy == {r \in Requests : pc[r] \in InTxn}

\* A handler's statement holds a connection until it is answered, also while it
\* waits for a row.
InUse == Cardinality(Busy) + Cardinality({a \in Actors : pending[a] # "none"})

Connect(r) ==
    /\ pc[r] = "begin"
    /\ InUse < PoolMax
    /\ Goto(r, "insert")
    /\ UNCHANGED <<pollVars, who, ballot, rules, tries, used, claimed, responses,
                   tally, draft, counted, notified>>

\* Mutant: connectionTimeoutMillis left at its default, which is no limit.
ConnectTimeoutBug(r) == FALSE

\* connectionTimeoutMillis runs out while every connection is taken.
ConnectTimeout(r) ==
    /\ pc[r] = "begin"
    /\ InUse >= PoolMax
    /\ Goto(r, "failed")
    /\ UNCHANGED <<pollVars, who, ballot, rules, tries, used, claimed, responses,
                   tally, draft, counted, notified>>

\* Mutant: withTransaction swallows the error it rolled back for.
RollbackBug(r, outcome) ==
    /\ Goto(r, "publish")
    /\ draft' = [draft EXCEPT ![r] = NoDraft]
    /\ counted' = [counted EXCEPT ![r] = 0]
    /\ UNCHANGED <<pollVars, who, ballot, rules, tries, used, claimed, responses,
                   tally, notified>>

\* ROLLBACK, or the server's own when the connection is gone.
Rollback(r, outcome) ==
    /\ Goto(r, outcome)
    /\ draft' = [draft EXCEPT ![r] = NoDraft]
    /\ counted' = [counted EXCEPT ![r] = 0]
    /\ UNCHANGED <<pollVars, who, ballot, rules, tries, used, claimed, responses,
                   tally, notified>>

Duplicate(r) == \E s \in responses : Clash(Key(r), Key(s))
WaitsForDuplicate(r) ==
    \E s \in Requests : s # r /\ pc[s] \in Inserted /\ Clash(Key(r), Key(s))

\* Mutant: a SELECT for duplicates before the INSERT, without a unique index.
InsertBug(r) ==
    /\ pc[r] = "insert"
    /\ Exists /\ ~Duplicate(r)
    /\ Goto(r, "tally")
    /\ UNCHANGED <<pollVars, who, ballot, rules, tries, used, claimed, responses,
                   tally, draft, counted, notified>>

\* insertResponse and insertAnswers.  The row references the poll, so from
\* here on the poll cannot be deleted.
Insert(r) ==
    /\ pc[r] = "insert"
    /\ Exists /\ ~Duplicate(r) /\ ~WaitsForDuplicate(r)
    /\ Goto(r, "tally")
    /\ UNCHANGED <<pollVars, who, ballot, rules, tries, used, claimed, responses,
                   tally, draft, counted, notified>>

\* Mutant: a key that is only being inserted counts as taken (NOWAIT).
AlreadyRespondedBug(r) ==
    /\ pc[r] = "insert"
    /\ Exists /\ (Duplicate(r) \/ WaitsForDuplicate(r))
    /\ Rollback(r, "conflict")

\* 23505: a response with the same key is there already.
AlreadyResponded(r) ==
    /\ pc[r] = "insert"
    /\ Exists /\ Duplicate(r)
    /\ Rollback(r, "conflict")

\* 23503: the poll was deleted after it was read.
PollGone(r) ==
    /\ pc[r] = "insert"
    /\ ~Exists
    /\ Rollback(r, "failed")

\* Mutant: the count is read, incremented in JavaScript and written back.
IncrementBug(r, o) ==
    /\ pc[r] = "tally"
    /\ o \in Chosen(r) \ Held(r)
    /\ draft' = [draft EXCEPT ![r][o] = tally[o] + 1]
    /\ UNCHANGED <<pollVars, who, ballot, pc, rules, tries, used, claimed, responses,
                   tally, counted, notified>>

\* incrementMany: one UPDATE over the chosen options.  It writes their rows in
\* an order nobody fixes, each on top of the last committed version and each
\* locked until the transaction ends.
Locked(o) == \E s \in Requests : o \in Held(s)

Increment(r, o) ==
    /\ pc[r] = "tally"
    /\ o \in Chosen(r) \ Held(r)
    /\ ~Locked(o)
    /\ draft' = [draft EXCEPT ![r][o] = tally[o] + 1]
    /\ UNCHANGED <<pollVars, who, ballot, pc, rules, tries, used, claimed, responses,
                   tally, counted, notified>>

\* Mutant: rows another vote has locked are skipped.
IncrementedBug(r) ==
    /\ pc[r] = "tally"
    /\ \A o \in Chosen(r) \ Held(r) : Locked(o)
    /\ Goto(r, "bump")
    /\ UNCHANGED <<pollVars, who, ballot, rules, tries, used, claimed, responses,
                   tally, draft, counted, notified>>

Incremented(r) ==
    /\ pc[r] = "tally"
    /\ Chosen(r) \subseteq Held(r)
    /\ Goto(r, "bump")
    /\ UNCHANGED <<pollVars, who, ballot, rules, tries, used, claimed, responses,
                   tally, draft, counted, notified>>

\* bumpResponseCount writes the poll's row, so one transaction at a time has
\* got this far.
PollRowFree == \A s \in Requests : pc[s] # "commit"

\* Mutant: the total is read, incremented in JavaScript and written back.
BumpBug(r) ==
    /\ pc[r] = "bump"
    /\ counted' = [counted EXCEPT ![r] = poll.count + 1]
    /\ Goto(r, "commit")
    /\ UNCHANGED <<pollVars, who, ballot, rules, tries, used, claimed, responses,
                   tally, draft, notified>>

Bump(r) ==
    /\ pc[r] = "bump"
    /\ PollRowFree
    /\ counted' = [counted EXCEPT ![r] = poll.count + 1]
    /\ Goto(r, "commit")
    /\ UNCHANGED <<pollVars, who, ballot, rules, tries, used, claimed, responses,
                   tally, draft, notified>>

\* COMMIT takes effect.  The client learns it ("publish") or the connection
\* breaks before it does ("failed").
Commit(r) ==
    /\ pc[r] = "commit"
    /\ \E outcome \in {"publish", "failed"} : Goto(r, outcome)
    /\ responses' = responses \cup {r}
    /\ tally' = [o \in Options |-> IF o \in Held(r) THEN draft[r][o] ELSE tally[o]]
    /\ draft' = [draft EXCEPT ![r] = NoDraft]
    /\ poll' = [poll EXCEPT !.count = counted[r]]
    /\ UNCHANGED <<pending, patch, report, announced, lost, crashes, overlap, who, ballot, rules,
                   tries, used, claimed, counted, notified>>

ConnectionLost(r) ==
    /\ pc[r] \in InTxn
    /\ Rollback(r, "failed")

\* r and s wait for each other's tally rows, possibly through others.
Waits(r, s) == r # s /\ pc[r] = "tally" /\ (Chosen(r) \ Held(r)) \cap Held(s) # {}
Deadlocked(r) ==
    \E S \in SUBSET Requests :
        r \in S /\ \A x \in S : (\E y \in S : Waits(x, y)) /\ (\E y \in S : Waits(y, x))

\* 40P01: Postgres aborts a transaction of the cycle.
DeadlockVictim(r) ==
    /\ Deadlocked(r)
    /\ Rollback(r, "failed")

\* The milestone event, after COMMIT; nobody waits for it.
NotifyMilestone(r) ==
    notified' = IF counted[r] \in Milestones THEN notified \cup {r} ELSE notified

\* After COMMIT: the delta is published, the milestone raised, and the poll read
\* once more for the body of the 201.  If it is gone, or that read fails, the
\* vote stands and the client is told 500.
Answer(r) ==
    /\ pc[r] = "publish"
    /\ \E outcome \in {"created", "failed"} :
          (outcome = "created" => Exists) /\ Goto(r, outcome)
    /\ NotifyMilestone(r)
    /\ UNCHANGED <<pollVars, who, ballot, rules, tries, used, claimed, responses,
                   tally, draft, counted>>

\* What ends each wait of a request: what it waits for, or a timeout.
Progress(r) ==
    \/ Read(r) \/ Limit(r) \/ Claim(r) \/ Connect(r) \/ ConnectTimeout(r)
    \/ Insert(r) \/ AlreadyResponded(r) \/ PollGone(r)
    \/ (\E o \in Options : Increment(r, o)) \/ Incremented(r)
    \/ Bump(r) \/ Commit(r) \/ DeadlockVictim(r) \/ Answer(r)

Break(r) == Refuse(r) \/ StatementFails(r) \/ ConnectionLost(r)

(***************************************************************************)
(* The poll's own handlers, and the process.                               *)
(***************************************************************************)
\* An UPDATE of the poll's row waits for a vote that has bumped it.
OwnerStep ==
    /\ \/ \E a \in Ops : Start(a)
       \/ \E a \in Actors : PollRowFree /\ RowUpdate(a)
       \/ \E a \in Actors : Announce(a) \/ Fail(a)
       \/ FileReport
       \/ PollRowFree /\ CloseDue
       \/ Tick
    /\ UNCHANGED requestVars

\* Mutant: responses do not reference the poll, so DELETE waits for no vote.
OwnerDeleteBug(a) ==
    /\ Delete(a)
    /\ responses' = {}
    /\ tally' = [o \in Options |-> 0]
    /\ used' = {}
    /\ UNCHANGED <<who, ballot, pc, rules, tries, claimed, draft, counted, notified>>

\* DELETE waits for every transaction that holds a key-share lock on the row,
\* then cascades to responses, answers, tallies and invite codes.
OwnerDelete(a) ==
    /\ Delete(a)
    /\ \A r \in Requests : pc[r] \notin Inserted
    /\ responses' = {}
    /\ tally' = [o \in Options |-> 0]
    /\ used' = {}
    /\ UNCHANGED <<who, ballot, pc, rules, tries, claimed, draft, counted, notified>>

\* The process dies: its connections close and Postgres rolls back.
Crash ==
    /\ CrashHandlers
    /\ pc' = [r \in Requests |->
                 IF pc[r] \in Finals \cup {"idle"} THEN pc[r]
                 ELSE IF pc[r] = "limit" THEN "dropped" ELSE "failed"]
    /\ draft' = [r \in Requests |-> NoDraft]
    /\ counted' = [r \in Requests |-> IF pc[r] \in InTxn THEN 0 ELSE counted[r]]
    /\ UNCHANGED <<who, ballot, rules, tries, used, claimed, responses, tally, notified>>

\* Every request has been answered and every handler is done.
AllDone ==
    /\ \A r \in Requests : pc[r] \in Finals
    /\ Quiet
    /\ UNCHANGED vars

Next ==
    \/ \E r \in Requests : Progress(r) \/ Break(r)
    \/ OwnerStep
    \/ \E a \in Actors : OwnerDelete(a)
    \/ Crash
    \/ AllDone

Spec == Init /\ [][Next]_vars

\* A request that is being served runs on: the event loop is fair to each await
\* and Postgres to each statement that waits for no row, Postgres breaks a
\* deadlock after deadlock_timeout, and the pool gives up on a connection after
\* connectionTimeoutMillis.  No statement has a timeout: that the server answers
\* it is an assumption.  Nothing is assumed of the owner's handlers.
Fairness == \A r \in Requests : WF_vars(pc[r] # "idle" /\ Progress(r))
FairSpec == Spec /\ Fairness

-----------------------------------------------------------------------------
\* The tally of an option is the number of stored responses that chose it:
\* "a counted vote is always a stored vote" (incrementMany in the transaction
\* of insertResponse, whatever rolls back).
TallyExact ==
    Exists => \A o \in Options : tally[o] = Cardinality({r \in responses : o \in Chosen(r)})

\* The poll's response_count is the number of stored responses
\* (bumpResponseCount).
CountExact == Exists => poll.count = Cardinality(responses)

\* No two stored responses came from one identity, as the mode each was
\* submitted under sees it (the partial unique indexes of 001_init.sql).
OneBallotPerIdentity ==
    \A r, s \in responses : r # s => ~Clash(Key(r), Key(s))

\* "You have already responded" is only said to an identity that has a stored
\* response, never to one whose other attempt is still in flight or failed.
ConflictMeansCounted ==
    \A r \in Requests : pc[r] = "conflict" /\ Exists => Duplicate(r)

\* A request answered 201 is stored, and one answered 4xx is not.
AnswerIsTrue ==
    \A r \in Requests :
        /\ pc[r] \in {"publish", "created"} /\ Exists => r \in responses
        /\ pc[r] \in {"refused", "conflict"} => r \notin responses

\* Two requests never both get in with one invite code (claimCode).
CodeSpentOnce ==
    \A r, s \in Requests : r # s /\ claimed[r] # Null => claimed[r] # claimed[s]

\* The code is claimed outside the vote's transaction, so a rollback does not
\* give it back; but it is a failure that loses it, never a rejection: whoever
\* is told 4xx still has the code.
RejectionKeepsCode ==
    \A r \in Requests : pc[r] \in {"refused", "conflict"} => claimed[r] = Null

\* No more requests of one address get past the durable limiter than it has
\* points, in the window, whatever becomes of them later (consumeDurable).
Admitted(i) ==
    {r \in Requests : who[r].ip = i /\ pc[r] \notin {"idle", "limit", "refused", "dropped"}}
AttemptsBounded == \A i \in Addresses : Cardinality(Admitted(i)) <= Points

\* A response count is announced as a milestone at most once (notifyMilestone).
MilestoneOnce ==
    \A r, s \in notified : r # s => counted[r] # counted[s]

\* Every submission comes to an end, however often Postgres has to break a
\* deadlock, and however long other statements keep the pool full: no vote
\* waits for a key, a row or a connection that nothing ends (withTransaction,
\* connectionTimeoutMillis).
EveryRequestAnswered ==
    \A r \in Requests : (pc[r] # "idle") ~> (pc[r] \in Finals)

\* The abstract poll this one implements.
Choices == [r \in Requests |-> Chosen(r)]
Keys == [r \in Requests |-> Key(r)]
ResponseCount == poll.count
Box == INSTANCE BallotBox WITH
    Casts <- Requests, Candidates <- Options, Same <- Clash, choice <- Choices,
    exists <- Exists, box <- responses, identity <- Keys, total <- ResponseCount

\* Every step of the system is a step of the ballot box or none.
ImplementsBox == Box!BoxSpec

-----------------------------------------------------------------------------
(***************************************************************************)
(* The inductive invariant behind the safety properties.                   *)
(***************************************************************************)
\* A tally row is written by one open transaction at a time, on top of the
\* committed count.
DraftsExclusive ==
    \A r, s \in Requests : \A o \in Options :
        draft[r][o] > 0 /\ draft[s][o] > 0 => r = s
DraftsFresh ==
    \A r \in Requests : \A o \in Options :
        draft[r][o] > 0 => /\ pc[r] \in Inserted
                           /\ o \in Chosen(r)
                           /\ draft[r][o] = tally[o] + 1
DraftsComplete ==
    \A r \in Requests : pc[r] \in {"bump", "commit"} =>
        \A o \in Chosen(r) : draft[r][o] > 0

\* One transaction at a time holds the poll's row, with the next total.
CountFresh ==
    /\ \A r, s \in Requests : pc[r] = "commit" /\ pc[s] = "commit" => r = s
    /\ \A r \in Requests : pc[r] = "commit" => counted[r] = poll.count + 1

\* A written response row keeps the poll from being deleted.
PollKept == \A r \in Requests : pc[r] \in Inserted => Exists

\* Only a request whose COMMIT took effect has a stored response.
StoredStages == \A r \in responses : pc[r] \in {"publish", "created", "failed"}

\* The unique indexes hold for stored and for written rows together.
NoClash ==
    \A r, s \in Requests :
        /\ r # s
        /\ r \in responses \/ pc[r] \in Inserted
        /\ s \in responses \/ pc[s] \in Inserted
        => ~Clash(Key(r), Key(s))

IndInv ==
    /\ TypeOK
    /\ DraftsExclusive /\ DraftsFresh /\ DraftsComplete
    /\ CountFresh /\ PollKept /\ StoredStages /\ NoClash
    /\ TallyExact /\ CountExact

(***************************************************************************)
(* What IndInv leaves out of the answers that requests get: their codes,   *)
(* attempts and totals.                                                    *)
(***************************************************************************)
\* A code is claimed by a submission of an invitation-only poll that has not
\* been turned away since, and is spent as long as there is a poll.
CodesFollow ==
    \A r \in Requests :
        /\ pc[r] = "claim" => rules[r] = "invite_code"
        /\ claimed[r] # Null =>
              /\ rules[r] = "invite_code"
              /\ pc[r] \notin {"idle", "limit", "claim", "refused", "conflict"}
              /\ Exists => claimed[r] \in used

\* Every admitted request has had its attempt counted.
AttemptsCounted ==
    \A i \in Addresses :
        Cardinality(Admitted(i)) <= tries[i] /\ Cardinality(Admitted(i)) <= Points

\* Totals are handed out once each, in the order of the commits; an announced
\* milestone is the total of a request that is over.
TotalsDistinct ==
    /\ \A r, s \in Requests : r # s /\ counted[r] > 0 => counted[r] # counted[s]
    /\ \A r \in Requests : pc[r] # "commit" /\ Exists => counted[r] <= poll.count
    /\ \A r \in notified : pc[r] \in {"created", "failed"} /\ counted[r] > 0

AnswersInd ==
    /\ ConflictMeansCounted /\ AnswerIsTrue
    /\ CodesFollow /\ CodeSpentOnce /\ AttemptsCounted /\ TotalsDistinct
=============================================================================
