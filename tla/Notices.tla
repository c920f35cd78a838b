------------------------------- MODULE Notices -------------------------------
(***************************************************************************)
(* Telling the owner of a poll: the job that warns of a deadline           *)
(* (warn-closing-polls.js), the fan-out that turns an event into email and *)
(* push (notify() of notifications.service.js) and what people do to their *)
(* devices and preferences meanwhile.                                      *)
(*                                                                         *)
(* A notice is one call of notify(): it is raised, reads preferences and   *)
(* tokens, then runs one job per channel, all at once.  A push job sends,  *)
(* and afterwards revokes the tokens the provider reported dead.  Nobody   *)
(* retries a send.  One poll and its owner are modelled, and another       *)
(* person who may sign in on one of the owner's devices.                   *)
(***************************************************************************)
EXTENDS Integers, FiniteSets

CONSTANTS
    Notices,     \* bound: calls of notify() in flight at the same time
    Tokens,      \* device tokens
    Provider,    \* the provider of each token
    PrefChoices, \* bound: the preferences that people save
    MaxMoves,    \* bound: times the deadline is set
    MaxChanges,  \* bound: things done to devices and preferences
    MaxFaults,   \* bound: revocations that fail and process crashes
    Null         \* no notice or preference

ASSUME NoticesAssumption ==
    /\ Provider \in [Tokens -> {"expo", "fcm_web"}]
    /\ PrefChoices \subseteq SUBSET {"email", "push_mobile", "push_web"}
    /\ MaxMoves \in Nat /\ MaxChanges \in Nat /\ MaxFaults \in Nat

VARIABLES
    poll,     \* status, deadline (how often it was set), how near it is, closing_notified_at
    raised,   \* warnings raised for each deadline
    token,    \* table push_tokens; a device that never registered is as good as a revoked one
    gone,     \* tokens whose app is uninstalled, until it registers again; from the
              \* start, since a send that still went through looks like one that failed
    pref,     \* table notification_prefs: the owner's channels for each event
    notice,   \* the calls of notify() in flight
    dead,     \* tokens last reported dead and not registered since
    changes,  \* things done to devices and preferences so far
    faults    \* revocations of dead tokens that failed and process crashes, so far

pollVars == <<poll, raised>>
deviceVars == <<token, gone, dead>>
vars == <<pollVars, deviceVars, pref, notice, changes, faults>>

People == {"owner", "other"}
Events == {"poll_closing", "results_ready"}
Channels == {"email", "push_mobile", "push_web"}
ProviderOf == [push_mobile |-> "expo", push_web |-> "fcm_web"]

\* A job is before its send, before its revocation, or done, as it is for a
\* channel that is not used; "tokens" are still to be sent to and "dead" to be
\* revoked.  "on" and "mine" are the channels and tokens that were allowed at
\* some time between the notice's being raised and its reading them.
Notice == [event : Events, at : {"read", "send"}, tokens : SUBSET Tokens,
           job : [Channels -> {"send", "prune", "done"}], dead : SUBSET Tokens,
           on : SUBSET Channels, mine : SUBSET Tokens]

ASSUME NullAssumption == Null \notin Notice /\ \A P \in SUBSET Channels : P # Null

TypeOK ==
    /\ poll \in [status : {"published", "closed"}, deadline : 0..MaxMoves,
                 phase : {"far", "near", "past"}, notified : BOOLEAN]
    /\ raised \in [0..MaxMoves -> Nat]
    /\ token \in [Tokens -> [user : People, active : BOOLEAN]]
    /\ gone \subseteq Tokens /\ dead \subseteq Tokens
    /\ pref \in [Events -> {Null} \cup SUBSET Channels]
    /\ notice \in [Notices -> Notice \cup {Null}]
    /\ changes \in 0..MaxChanges
    /\ faults \in 0..MaxFaults

Init ==
    /\ poll = [status |-> "published", deadline |-> 0, phase |-> "far", notified |-> FALSE]
    /\ raised = [d \in 0..MaxMoves |-> 0]
    /\ token = [t \in Tokens |-> [user |-> "owner", active |-> TRUE]]
    /\ gone \in SUBSET Tokens
    /\ dead = {}
    /\ pref = [e \in Events |-> Null]
    /\ notice = [n \in Notices |-> Null]
    /\ changes = 0 /\ faults = 0

InFlight == {n \in Notices : notice[n] # Null}

\* Mutant: a push token that was revoked is still sent to.
ActiveTokensBug == {t \in Tokens : token[t].user = "owner"}

ActiveTokens ==
    {t \in Tokens : token[t].user = "owner" /\ token[t].active}

\* Without a row every channel is on.
PrefsFor(e) == IF pref[e] = Null THEN Channels ELSE pref[e]

(***************************************************************************)
(* The poll.                                                               *)
(***************************************************************************)
\* An event is raised: notify() is called and about to read.
Raise(e) ==
    LET n == CHOOSE m \in Notices : notice[m] = Null IN
    /\ InFlight # Notices
    /\ notice' = [notice EXCEPT ![n] =
            [event |-> e, at |-> "read", tokens |-> {}, job |-> [c \in Channels |-> "done"],
             dead |-> {}, on |-> PrefsFor(e),
             mine |-> {t \in Tokens : token[t] = [user |-> "owner", active |-> TRUE]}]]

Due == poll.status = "published" /\ poll.phase = "near" /\ ~poll.notified

\* Mutant: the marker is left for after the send.
WarnDueBug ==
    /\ Due
    /\ raised' = [raised EXCEPT ![poll.deadline] = @ + 1]
    /\ Raise("poll_closing")
    /\ UNCHANGED <<poll, deviceVars, pref, changes, faults>>

\* warnClosingPolls: one UPDATE claims the marker and selects the work.
WarnDue ==
    /\ Due
    /\ poll' = [poll EXCEPT !.notified = TRUE]
    /\ raised' = [raised EXCEPT ![poll.deadline] = @ + 1]
    /\ Raise("poll_closing")
    /\ UNCHANGED <<deviceVars, pref, changes, faults>>

\* Mutant: the marker is not cleared.
MoveDeadlineBug ==
    /\ poll.deadline < MaxMoves
    /\ \E phase \in {"far", "near", "past"} :
          poll' = [poll EXCEPT !.deadline = @ + 1, !.phase = phase]
    /\ UNCHANGED <<raised, deviceVars, pref, notice, changes, faults>>

\* updatePoll with a closesAt, the same one or another: the marker is cleared.
MoveDeadline ==
    /\ poll.deadline < MaxMoves
    /\ \E phase \in {"far", "near", "past"} :
          poll' = [poll EXCEPT !.deadline = @ + 1, !.phase = phase, !.notified = FALSE]
    /\ UNCHANGED <<raised, deviceVars, pref, notice, changes, faults>>

\* close() or closeDuePolls, and the event both raise.
Close ==
    /\ poll.status = "published"
    /\ poll' = [poll EXCEPT !.status = "closed"]
    /\ Raise("results_ready")
    /\ UNCHANGED <<raised, deviceVars, pref, changes, faults>>

\* Nothing looks at the deadline of a closed poll.
Tick ==
    /\ poll.status = "published" /\ poll.phase # "past"
    /\ poll' = [poll EXCEPT !.phase = IF @ = "far" THEN "near" ELSE "past"]
    /\ UNCHANGED <<raised, deviceVars, pref, notice, changes, faults>>

(***************************************************************************)
(* notify().                                                               *)
(***************************************************************************)
ToSend(c, T) == {t \in T : Provider[t] = ProviderOf[c]}

\* prefsFor and activeTokens run together; no statement writes to both tables,
\* so reading them at one moment loses nothing.
Read(n) ==
    LET e == notice[n].event
        HasJob(c) == c \in PrefsFor(e) /\ (c = "email" \/ ToSend(c, ActiveTokens) # {}) IN
    /\ notice[n] # Null /\ notice[n].at = "read"
    /\ notice' = [notice EXCEPT ![n] =
            [notice[n] EXCEPT !.at = "send", !.tokens = ActiveTokens, !.on = {}, !.mine = {},
                      !.job = [c \in Channels |-> IF HasJob(c) THEN "send" ELSE "done"]]]
    /\ UNCHANGED <<pollVars, deviceVars, pref, changes, faults>>

\* sendEmail, sent or failed: it never throws.
SendEmail(n) ==
    /\ notice[n] # Null /\ notice[n].job["email"] = "send"
    /\ notice' = [notice EXCEPT ![n] = [notice[n] EXCEPT !.job["email"] = "done"]]
    /\ UNCHANGED <<pollVars, deviceVars, pref, changes, faults>>

\* sendExpoPush or sendWebPush: the providers report the dead tokens, but for
\* those whose call or batch fails.  Neither throws.
Push(n, c) ==
    LET reported == ToSend(c, notice[n].tokens) \cap gone IN
    /\ notice[n] # Null /\ notice[n].job[c] = "send"
    /\ \E D \in SUBSET reported :
          /\ notice' = [notice EXCEPT ![n] =
                [notice[n] EXCEPT !.job[c] = "prune", !.dead = @ \cup D, !.tokens = @ \ ToSend(c, @)]]
          /\ dead' = dead \cup D
    /\ UNCHANGED <<pollVars, token, gone, pref, changes, faults>>

Revoke(T) ==
    token' = [t \in Tokens |->
                 IF t \in T THEN [token[t] EXCEPT !.active = FALSE] ELSE token[t]]

\* revokeMany.
Prune(n, c) ==
    /\ notice[n] # Null /\ notice[n].job[c] = "prune"
    /\ notice' = [notice EXCEPT ![n] = [notice[n] EXCEPT !.job[c] = "done", !.dead = @ \ ToSend(c, @)]]
    /\ Revoke(ToSend(c, notice[n].dead))
    /\ UNCHANGED <<pollVars, gone, dead, pref, changes, faults>>

\* revokeMany fails: its job is rejected, the others are not.
PruneFails(n, c) ==
    /\ faults < MaxFaults
    /\ notice[n] # Null /\ notice[n].job[c] = "prune" /\ ToSend(c, notice[n].dead) # {}
    /\ notice' = [notice EXCEPT ![n] = [notice[n] EXCEPT !.job[c] = "done", !.dead = @ \ ToSend(c, @)]]
    /\ faults' = faults + 1
    /\ UNCHANGED <<pollVars, deviceVars, pref, changes>>

\* Mutant: Promise.race in place of Promise.allSettled, in a process that stops.
SettledBug(n) ==
    /\ notice[n] # Null /\ notice[n].at = "send"
    /\ \E c \in Channels : notice[n].job[c] = "done"

Settled(n) ==
    /\ notice[n] # Null /\ notice[n].at = "send"
    /\ \A c \in Channels : notice[n].job[c] = "done"

\* Promise.allSettled.
Finish(n) ==
    /\ Settled(n)
    /\ notice' = [notice EXCEPT ![n] = Null]
    /\ UNCHANGED <<pollVars, deviceVars, pref, changes, faults>>

(***************************************************************************)
(* Devices and preferences.                                                *)
(***************************************************************************)
Change ==
    /\ changes < MaxChanges
    /\ changes' = changes + 1
    /\ UNCHANGED <<pollVars, faults>>

\* What a notice in flight may still find, now that tokens and preferences are
\* the ones given.
Widen(T, P(_)) ==
    notice' = [n \in Notices |->
        IF notice[n] = Null \/ notice[n].at # "read" THEN notice[n]
        ELSE [notice[n] EXCEPT !.mine = @ \cup T, !.on = @ \cup P(notice[n].event)]]

\* registerToken: an upsert by token.
RegisterToken(p, t) ==
    /\ Change
    /\ token' = [token EXCEPT ![t] = [user |-> p, active |-> TRUE]]
    /\ gone' = gone \ {t}
    /\ dead' = dead \ {t}
    /\ Widen(IF p = "owner" THEN {t} ELSE {}, PrefsFor)
    /\ UNCHANGED pref

\* revokeToken.
RevokeToken(t) ==
    /\ Change
    /\ Revoke({t})
    /\ UNCHANGED <<gone, dead, pref, notice>>

\* setPrefs: an upsert by user and event.
SetPrefs(e, P) ==
    LET now(f) == IF f = e THEN P ELSE PrefsFor(f) IN
    /\ Change
    /\ pref' = [pref EXCEPT ![e] = P]
    /\ Widen({}, now)
    /\ UNCHANGED deviceVars

\* The process dies: what it was about to send is never sent.
Crash ==
    /\ faults < MaxFaults
    /\ InFlight # {}
    /\ faults' = faults + 1
    /\ notice' = [n \in Notices |-> Null]
    /\ UNCHANGED <<pollVars, deviceVars, pref, changes>>

PushChannels == {"push_mobile", "push_web"}
Work(n) ==
    \/ Read(n) \/ SendEmail(n) \/ Finish(n)
    \/ \E c \in PushChannels : Push(n, c) \/ Prune(n, c)

Next ==
    \/ WarnDue \/ MoveDeadline \/ Close \/ Tick
    \/ \E n \in Notices : Work(n) \/ \E c \in PushChannels : PruneFails(n, c)
    \/ \E t \in Tokens : (\E p \in People : RegisterToken(p, t)) \/ RevokeToken(t)
    \/ \E e \in Events : \E P \in PrefChoices : SetPrefs(e, P)
    \/ Crash

\* The job runs every five minutes of the hour a deadline is near, and a call
\* of notify() that has begun runs on.
Fairness == WF_vars(WarnDue) /\ \A n \in Notices : WF_vars(Work(n))
Spec == Init /\ [][Next]_vars /\ Fairness

-----------------------------------------------------------------------------
\* However ticks of the job overlap each other, a moved deadline or a crash, no
\* deadline is warned about twice ("UPDATE ... RETURNING lets exactly one of
\* them win the row").
WarnedOncePerDeadline == \A d \in 0..MaxMoves : raised[d] <= 1

\* A notice goes through a channel, and to a device, only if the owner had the
\* channel on and the device was active and the owner's at some time since it
\* was raised and before it read: an opt-out, a removed device or another
\* account on it is obeyed by whatever is raised after it (prefsFor,
\* activeTokens, registerToken).
FindsOnlyAllowed ==
    \A n \in InFlight :
        notice[n].at = "read" /\ notice'[n] # Null =>
            /\ notice'[n].tokens \subseteq notice[n].mine
            /\ \A c \in Channels : notice'[n].job[c] = "send" => c \in notice[n].on
ConsentObeyed == [][FindsOnlyAllowed]_vars

\* When nothing is in flight and nothing failed, no token that a provider
\* reported dead is active, unless it registered since: dead tokens are not sent
\* to for ever (revokeMany).
DeadTokensPruned ==
    InFlight = {} /\ faults = 0 =>
        \A t \in dead : ~token[t].active

\* A deadline that is near is warned about, unless it moves, passes or the poll
\* closes first (warnClosingPolls, startScheduler).
DueFor(d) == poll.status = "published" /\ poll.phase = "near" /\ poll.deadline = d
EveryDeadlineWarned ==
    \A d \in 0..MaxMoves :
        (DueFor(d) ~> (raised[d] > 0 \/ ~DueFor(d)))

-----------------------------------------------------------------------------
\* Why WarnedOncePerDeadline holds: the marker tells whether the deadline the
\* poll has now was warned about.
MarkerTells ==
    \A d \in 0..MaxMoves :
        /\ d < poll.deadline => raised[d] <= 1
        /\ d = poll.deadline => raised[d] = IF poll.notified THEN 1 ELSE 0
        /\ d > poll.deadline => raised[d] = 0

\* Why ConsentObeyed holds: what a notice that has not read yet would find now is
\* among what was allowed since it was raised.
WaitingAllows ==
    \A n \in InFlight : notice[n].at = "read" =>
        /\ notice[n].tokens = {} /\ \A c \in Channels : notice[n].job[c] = "done"
        /\ ActiveTokens \subseteq notice[n].mine
        /\ PrefsFor(notice[n].event) \subseteq notice[n].on

\* Why DeadTokensPruned holds: a dead token that is active has a job before its
\* revocation.
Pending(t) ==
    \E n \in InFlight : \E c \in {"push_mobile", "push_web"} :
        notice[n].job[c] = "prune" /\ t \in ToSend(c, notice[n].dead)
DeadAreHandled == faults = 0 => \A t \in dead : ~token[t].active \/ Pending(t)

IndInv == TypeOK /\ MarkerTells /\ WaitingAllows /\ DeadAreHandled
=============================================================================
