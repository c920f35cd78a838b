----------------------------- MODULE LiveTally -----------------------------
(***************************************************************************)
(* Live results of one poll: the in-memory mirror of its tallies           *)
(* (tally-mirror.js), the channel of sockets watching it (channels.js), the *)
(* subscription handler (ws-server.js) and the part of submit() that runs  *)
(* after COMMIT.                                                           *)
(*                                                                         *)
(* The database and the process are two places.  A vote is in the database *)
(* from its COMMIT and in the mirror from the step in which the process    *)
(* learns of the COMMIT; the rows a load has read may be older than either *)
(* by the time they arrive.  What the process does between two awaits is   *)
(* one step: applyDelta with its broadcast, publishPollStatus with evict,  *)
(* subscribe with a snapshot the mirror already holds.                     *)
(*                                                                         *)
(* The database counts an option once for each vote that chose it; the     *)
(* mirror counts it once for each time the vote named it.  A COMMIT whose  *)
(* reply is lost is never published, and a load may fail and leave its     *)
(* socket registered without a snapshot.                                   *)
(*                                                                         *)
(* A frame sent to an open socket is taken to arrive: a socket keeps the   *)
(* last count it was sent for each option.  The response total that rides  *)
(* along in the frames is left out.                                        *)
(***************************************************************************)
EXTENDS Integers, FiniteSets

CONSTANTS
    Votes,     \* submissions
    Options,   \* options of the poll
    Picks,     \* what a submission may choose: how often it names each option
    Sockets,   \* connections; each is made at most once
    Null       \* no mirror entry, no count sent yet

ASSUME LiveAssumption ==
    /\ IsFiniteSet(Votes)
    /\ Picks \subseteq [Options -> Nat]
    /\ Null \notin Nat
    /\ Null \notin [Options -> Nat]

VARIABLES
    pick,      \* how often each vote names each option
    vote,      \* where each vote is
    result,    \* the counts RETURNING gave each committed vote
    stored,    \* the committed tallies
    status,    \* the poll's status
    mode,      \* the poll's results_mode
    retiring,  \* the status is written, the mirror not yet evicted
    mirror,    \* the mirror's entry for the poll, or Null
    conn,      \* each connection: new, open or closed
    channel,   \* the sockets registered for the poll
    handler,   \* where each socket's subscribe handler is
    rows,      \* the tally rows each load under way has read
    sent,      \* the last count each open socket was sent for each option
    unanswered, \* open sockets whose last load failed
    skew       \* what has set the mirror and the tallies apart since the last evict

voteVars == <<pick, vote, result, stored>>
pollVars == <<status, mode, retiring>>
socketVars == <<conn, channel, handler, rows, sent, unanswered>>
vars == <<voteVars, pollVars, mirror, socketVars, skew>>

Zero == [o \in Options |-> 0]
Unsent == [o \in Options |-> Null]
Counts == [Options -> Nat]

\* A load and a vote have overlapped; the mirror has counted an option twice for
\* one vote; the reply to a COMMIT has been lost.
Causes == {"overlap", "repeat", "lost"}

TypeOK ==
    /\ pick \in [Votes -> Picks]
    /\ vote \in [Votes -> {"open", "committed", "published", "lost"}]
    /\ result \in [Votes -> Counts]
    /\ stored \in Counts
    /\ status \in {"published", "closed", "archived"}
    /\ mode \in {"live", "after_close", "creator_only"}
    /\ retiring \in BOOLEAN
    /\ mirror \in Counts \cup {Null}
    /\ conn \in [Sockets -> {"new", "open", "closed"}]
    /\ channel \subseteq Sockets
    /\ handler \in [Sockets -> {"none", "allowed", "refused", "reading", "loading"}]
    /\ rows \in [Sockets -> Counts]
    /\ sent \in [Sockets -> [Options -> Nat \cup {Null}]]
    /\ unanswered \subseteq Sockets
    /\ skew \subseteq Causes

Init ==
    /\ pick \in [Votes -> Picks]
    /\ vote = [v \in Votes |-> "open"]
    /\ result = [v \in Votes |-> Zero]
    /\ stored = Zero
    /\ status = "published"
    /\ mode \in {"live", "after_close"}
    /\ retiring = FALSE
    /\ mirror = Null
    /\ conn = [s \in Sockets |-> "new"]
    /\ channel = {}
    /\ handler = [s \in Sockets |-> "none"]
    /\ rows = [s \in Sockets |-> Zero]
    /\ sent = [s \in Sockets |-> Unsent]
    /\ unanswered = {}
    /\ skew = {}

(***************************************************************************)
(* Votes.                                                                  *)
(***************************************************************************)
Chosen(v) == {o \in Options : pick[v][o] > 0}

Loading == \E s \in Sockets : handler[s] = "loading"

Cause(c, holds) == IF holds THEN {c} ELSE {}

\* The transaction of submit() takes effect in the database; it holds the
\* rows it incremented, so what it returns is what it leaves.
CommitVote(v) ==
    /\ vote[v] = "open"
    /\ vote' = [vote EXCEPT ![v] = "committed"]
    /\ stored' = [o \in Options |-> stored[o] + (IF o \in Chosen(v) THEN 1 ELSE 0)]
    /\ result' = [result EXCEPT ![v] = stored']
    /\ UNCHANGED <<pick, pollVars, mirror, socketVars, skew>>

\* What is broadcast for v when the mirror's entry is `entry`: the mirror's own
\* new counts or, with no entry, the counts the transaction returned.
DeltaBug(v, entry) == result[v]

Delta(v, entry) == IF entry = Null THEN result[v] ELSE entry

\* Mutant: an entry is made where there is none.
ApplyDeltaBug(v) ==
    [o \in Options |-> (IF mirror = Null THEN 0 ELSE mirror[o]) + pick[v][o]]

\* One more for every time the vote named the option.
ApplyDelta(v) ==
    IF mirror = Null THEN Null
    ELSE [o \in Options |-> mirror[o] + pick[v][o]]

Watching == {s \in channel : conn[s] = "open"}

\* Mutant: the delta is applied inside the transaction.
PublishableBug(v) == vote[v] \in {"open", "committed"}

Publishable(v) == vote[v] = "committed"

\* The reply to COMMIT arrives: the mirror takes the vote and the options it
\* chose go out to everyone watching.
PublishVote(v) ==
    /\ Publishable(v)
    /\ vote' = [vote EXCEPT ![v] = "published"]
    /\ mirror' = ApplyDelta(v)
    /\ sent' = [s \in Sockets |-> [o \in Options |->
                   IF s \in Watching /\ o \in Chosen(v) THEN Delta(v, mirror')[o]
                   ELSE sent[s][o]]]
    /\ skew' = skew \cup Cause("overlap", Loading)
                 \cup Cause("repeat", mirror # Null /\ \E o \in Options : pick[v][o] > 1)
    /\ result' = [result EXCEPT ![v] = Zero]
    /\ UNCHANGED <<pick, stored, pollVars, conn, channel, handler, rows, unanswered>>

\* The COMMIT took effect and its reply never arrives: submit() throws, and
\* nothing is applied or broadcast.
LoseReply(v) ==
    /\ vote[v] = "committed"
    /\ vote' = [vote EXCEPT ![v] = "lost"]
    /\ result' = [result EXCEPT ![v] = Zero]
    /\ skew' = skew \cup Cause("lost", mirror # Null \/ Loading)
    /\ UNCHANGED <<pick, stored, pollVars, mirror, socketVars>>

(***************************************************************************)
(* Sockets.                                                                *)
(***************************************************************************)
Connect(s) ==
    /\ conn[s] = "new"
    /\ conn' = [conn EXCEPT ![s] = "open"]
    /\ UNCHANGED <<voteVars, pollVars, mirror, channel, handler, rows, sent, unanswered, skew>>

Visible == mode # "creator_only" /\ (mode = "after_close" => status = "closed")

\* A subscribe message: the poll's row is read.  (Where that query fails nothing
\* has happened yet.)
Ask(s) ==
    /\ conn[s] = "open" /\ handler[s] = "none"
    /\ handler' = [handler EXCEPT ![s] = IF Visible THEN "allowed" ELSE "refused"]
    /\ UNCHANGED <<voteVars, pollVars, mirror, conn, channel, rows, sent, unanswered, skew>>

\* The row hides the results: an error frame.
Refuse(s) ==
    /\ handler[s] = "refused"
    /\ handler' = [handler EXCEPT ![s] = "none"]
    /\ UNCHANGED <<voteVars, pollVars, mirror, conn, channel, rows, sent, unanswered, skew>>

\* A snapshot replaces every count the socket was sent.
Send(s, counts) ==
    sent' = IF conn[s] = "open" THEN [sent EXCEPT ![s] = counts] ELSE sent

\* Mutant: the socket is registered only where the mirror has to be loaded.
RegisterBug(s) == IF mirror = Null THEN channel \cup {s} ELSE channel

Register(s) == channel \cup {s}

\* The row allows them: the socket is registered, and gets its snapshot at once
\* when the mirror has an entry.
Subscribe(s) ==
    /\ handler[s] = "allowed"
    /\ channel' = Register(s)
    /\ IF mirror = Null
       THEN /\ handler' = [handler EXCEPT ![s] = "reading"]
            /\ UNCHANGED <<sent, unanswered>>
       ELSE /\ handler' = [handler EXCEPT ![s] = "none"]
            /\ Send(s, mirror)
            /\ unanswered' = unanswered \ {s}
    /\ UNCHANGED <<voteVars, pollVars, mirror, conn, rows, skew>>

\* Mutant: the SELECT leaves count out, so every count is NaN.
RowsBug == Unsent

Rows == stored

\* The database answers the SELECT of load().
ReadTallies(s) ==
    /\ handler[s] = "reading"
    /\ handler' = [handler EXCEPT ![s] = "loading"]
    /\ rows' = [rows EXCEPT ![s] = Rows]
    /\ skew' = skew \cup Cause("overlap", \E v \in Votes : vote[v] = "committed")
    /\ UNCHANGED <<voteVars, pollVars, mirror, conn, channel, sent, unanswered>>

\* The rows arrive: they become the mirror's entry, whatever it was.
Load(s) ==
    /\ handler[s] = "loading"
    /\ handler' = [handler EXCEPT ![s] = "none"]
    /\ mirror' = rows[s]
    /\ Send(s, rows[s])
    /\ rows' = [rows EXCEPT ![s] = Zero]
    /\ unanswered' = unanswered \ {s}
    /\ UNCHANGED <<voteVars, pollVars, conn, channel, skew>>

\* The SELECT fails, or its rows never arrive: load() rejects, and the socket
\* stays registered without a snapshot.
LoadFails(s) ==
    /\ handler[s] \in {"reading", "loading"}
    /\ handler' = [handler EXCEPT ![s] = "none"]
    /\ rows' = [rows EXCEPT ![s] = Zero]
    /\ unanswered' = unanswered \cup ({s} \cap Watching)
    /\ UNCHANGED <<voteVars, pollVars, mirror, conn, channel, sent, skew>>

\* The socket closes or is terminated by the heartbeat; its handler runs on.
CloseSocket(s) ==
    /\ conn[s] = "open"
    /\ conn' = [conn EXCEPT ![s] = "closed"]
    /\ channel' = channel \ {s}
    /\ sent' = [sent EXCEPT ![s] = Unsent]
    /\ unanswered' = unanswered \ {s}
    /\ UNCHANGED <<voteVars, pollVars, mirror, handler, rows, skew>>

(***************************************************************************)
(* The poll.                                                               *)
(***************************************************************************)
\* The statement of close(), closeDuePolls, archive() or uphold.
Retire ==
    /\ ~retiring
    /\ \E new \in {"closed", "archived"} :
          /\ status # "archived"
          /\ new = "closed" => status = "published"
          /\ status' = new
    /\ retiring' = TRUE
    /\ UNCHANGED <<voteVars, mode, mirror, socketVars, skew>>

\* Mutant: the entry stays.
EvictedBug == mirror

Evicted == Null

\* The status frame, for a close, and evict().
Evict ==
    /\ retiring
    /\ retiring' = FALSE
    /\ mirror' = Evicted
    /\ skew' = IF Loading THEN skew ELSE {}
    /\ UNCHANGED <<voteVars, status, mode, socketVars>>

\* PATCH resultsMode.
ChangeMode ==
    /\ status # "archived"
    /\ \E new \in {"live", "after_close", "creator_only"} \ {mode} : mode' = new
    /\ UNCHANGED <<voteVars, status, retiring, mirror, socketVars, skew>>

Next ==
    \/ \E v \in Votes : CommitVote(v) \/ PublishVote(v) \/ LoseReply(v)
    \/ \E s \in Sockets :
          \/ Connect(s) \/ Ask(s) \/ Refuse(s) \/ Subscribe(s)
          \/ ReadTallies(s) \/ Load(s) \/ LoadFails(s) \/ CloseSocket(s)
    \/ Retire
    \/ Evict
    \/ ChangeMode

Spec == Init /\ [][Next]_vars

-----------------------------------------------------------------------------
Unpublished(o) == Cardinality({v \in Votes : vote[v] = "committed" /\ o \in Chosen(v)})

\* What keeps counts from being ahead of the tallies, and from falling behind.
NotAhead == "overlap" \notin skew /\ "repeat" \notin skew
NotBehind == "overlap" \notin skew /\ "lost" \notin skew

\* Counts lag the tallies by exactly the votes still to be published.
Tracks(counts) ==
    \A o \in Options :
        /\ NotAhead => counts[o] + Unpublished(o) <= stored[o]
        /\ NotBehind => counts[o] + Unpublished(o) >= stored[o]

\* Between COMMITs and their broadcasts the mirror lags the database by exactly
\* the votes still to be published, through evictions, reloads, failed loads and
\* replies that overtake each other (applyDelta, load and evict of
\* tally-mirror.js).  Three things alone set them apart until the next evict: a
\* load that overlaps a vote, either way; a vote that names an option twice,
\* which only puts the mirror ahead; a COMMIT whose reply is lost, which only
\* puts it behind.
MirrorTracks == mirror # Null => Tracks(mirror)

\* While the poll is open nobody is shown a count the database has not reached:
\* "applying it early would show a vote that a rollback then erased" (applyDelta
\* runs after COMMIT, never before).  Lost replies and failed loads do not change
\* that; a load that overlapped a vote and an option named twice do.
NothingShownEarly ==
    status = "published" /\ NotAhead => \A s \in Sockets : \A o \in Options :
        sent[s][o] # Null => sent[s][o] <= stored[o]

Settled ==
    /\ \A v \in Votes : vote[v] # "committed"
    /\ \A s \in Sockets : handler[s] = "none"
    /\ ~retiring

\* Once things settle, everyone watching an open poll has been sent its counts:
\* the snapshot and the deltas after it leave nothing out and nothing stale
\* behind, in whatever order the replies came (handleSubscribe, broadcast).  A
\* subscriber whose load failed is not served until it asks again, and what sets
\* the mirror and the tallies apart reaches everyone.
WatchersUpToDate ==
    Settled /\ status = "published" /\ skew = {} =>
        \A s \in Watching \ unanswered : sent[s] = stored

(***************************************************************************)
(* What a comment of the code says and the code does not do.               *)
(***************************************************************************)
\* "Nobody is watching; next load() picks it up" (applyDelta): once things
\* settle the mirror agrees with the database, where no vote named an option
\* twice and no reply was lost.
MirrorAgrees == Settled /\ mirror # Null /\ skew \subseteq {"overlap"} => mirror = stored

-----------------------------------------------------------------------------
(***************************************************************************)
(* The inductive invariant behind the safety properties.                   *)
(***************************************************************************)
\* Rows on their way into the mirror lag the database as the mirror does.
LoadsTrack == \A s \in Sockets : handler[s] = "loading" => Tracks(rows[s])

\* No transaction returned more than the database has.
ResultsReached ==
    \A v \in Votes : vote[v] = "committed" => \A o \in Options : result[v][o] <= stored[o]

\* A socket subscribes only after it has connected.
ConnectedFirst == \A s \in Sockets : conn[s] = "new" => s \notin channel /\ handler[s] = "none"

\* The mirror is evicted only once the poll is no longer open.
OpenIsKept == retiring => status # "published"

\* Until the poll closes, whoever watches it, is not waiting for a snapshot and
\* has not missed one has been sent what the mirror holds.
WatchersTracked ==
    status = "published" /\ skew = {} =>
        \A s \in Watching \ unanswered : handler[s] \notin {"reading", "loading"} =>
            mirror # Null /\ sent[s] = mirror

LiveInd ==
    /\ TypeOK
    /\ MirrorTracks /\ LoadsTrack /\ ResultsReached /\ ConnectedFirst /\ OpenIsKept
    /\ NothingShownEarly /\ WatchersTracked
=============================================================================
