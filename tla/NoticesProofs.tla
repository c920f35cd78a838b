---------------------------- MODULE NoticesProofs ----------------------------
(***************************************************************************)
(* Proofs about Notices, for any number of notices, tokens, deadlines and  *)
(* faults.                                                                 *)
(***************************************************************************)
EXTENDS Notices, TLAPS

\* The types of what notify() holds.
LEMMA NoticeTypes ==
    ASSUME TypeOK, NEW n \in Notices, notice[n] # Null
    PROVE  /\ notice[n].event \in Events /\ notice[n].at \in {"read", "send"}
           /\ notice[n].tokens \subseteq Tokens /\ notice[n].dead \subseteq Tokens
           /\ notice[n].job \in [Channels -> {"send", "prune", "done"}]
           /\ notice[n].on \subseteq Channels /\ notice[n].mine \subseteq Tokens
           /\ notice[n] \in Notice
BY DEF TypeOK, Notice

LEMMA PrefsTypes ==
    ASSUME TypeOK, NEW e \in Events
    PROVE  PrefsFor(e) \subseteq Channels /\ ActiveTokens \subseteq Tokens
<1>1. pref[e] = Null \/ pref[e] \subseteq Channels
  BY DEF TypeOK
<1>2. PrefsFor(e) \subseteq Channels
  BY <1>1 DEF PrefsFor
<1> QED BY <1>2 DEF ActiveTokens

\* The record that Raise makes, and the place that it finds for it.
Raised(e) ==
    [event |-> e, at |-> "read", tokens |-> {}, job |-> [c \in Channels |-> "done"],
     dead |-> {}, on |-> PrefsFor(e),
     mine |-> {t \in Tokens : token[t] = [user |-> "owner", active |-> TRUE]}]

LEMMA RaiseFacts ==
    ASSUME TypeOK, NEW e \in Events, Raise(e)
    PROVE  /\ Raised(e) \in Notice
           /\ \E n \in Notices : notice[n] = Null /\ notice' = [notice EXCEPT ![n] = Raised(e)]
<1>1. \E m \in Notices : notice[m] = Null
  BY DEF Raise, InFlight
<1>2. Raised(e) \in Notice
  BY PrefsTypes DEF Raised, Notice
<1> QED BY <1>1, <1>2 DEF Raise, Raised

\* What Widen makes of the notices, whatever it is given.
Widened(T, Q) ==
    [n \in Notices |->
        IF notice[n] = Null \/ notice[n].at # "read" THEN notice[n]
        ELSE [notice[n] EXCEPT !.mine = @ \cup T, !.on = @ \cup Q[notice[n].event]]]

LEMMA WidenedType ==
    ASSUME TypeOK, NEW T \in SUBSET Tokens, NEW Q \in [Events -> SUBSET Channels]
    PROVE  Widened(T, Q) \in [Notices -> Notice \cup {Null}]
<1>1. ASSUME NEW n \in Notices, notice[n] # Null
      PROVE  [notice[n] EXCEPT !.mine = @ \cup T, !.on = @ \cup Q[notice[n].event]] \in Notice
  <2>1. notice[n] \in Notice /\ notice[n].event \in Events
    BY <1>1, NoticeTypes
  <2>2. Q[notice[n].event] \subseteq Channels
    BY <2>1
  <2> QED BY <2>1, <2>2 DEF Notice
<1> QED BY <1>1 DEF Widened, TypeOK

PrefsNow == [e \in Events |-> PrefsFor(e)]

LEMMA RegisterWidens ==
    ASSUME TypeOK, NEW p \in People, NEW t \in Tokens, RegisterToken(p, t)
    PROVE  notice' = Widened(IF p = "owner" THEN {t} ELSE {}, PrefsNow)
<1>1. \A n \in Notices : notice[n] # Null => PrefsNow[notice[n].event] = PrefsFor(notice[n].event)
  BY NoticeTypes DEF PrefsNow
<1> QED BY <1>1 DEF RegisterToken, Widen, Widened

PrefsThen(e, P) == [f \in Events |-> IF f = e THEN P ELSE PrefsFor(f)]

LEMMA SetPrefsWidens ==
    ASSUME TypeOK, NEW e \in Events, NEW P \in PrefChoices, SetPrefs(e, P)
    PROVE  notice' = Widened({}, PrefsThen(e, P))
<1>1. \A n \in Notices : notice[n] # Null =>
         PrefsThen(e, P)[notice[n].event] =
            IF notice[n].event = e THEN P ELSE PrefsFor(notice[n].event)
  BY NoticeTypes DEF PrefsThen
<1> QED BY <1>1 DEF SetPrefs, Widen, Widened

LEMMA RevokeType ==
    ASSUME TypeOK, NEW T \in SUBSET Tokens, Revoke(T)
    PROVE  /\ token' \in [Tokens -> [user : People, active : BOOLEAN]]
           /\ \A t \in Tokens :
                 IF t \in T THEN ~token'[t].active /\ token'[t].user = token[t].user
                 ELSE token'[t] = token[t]
<1>1. \A t \in Tokens : token[t] \in [user : People, active : BOOLEAN]
  BY DEF TypeOK
<1>2. \A t \in Tokens :
         /\ [token[t] EXCEPT !.active = FALSE] \in [user : People, active : BOOLEAN]
         /\ [token[t] EXCEPT !.active = FALSE].active = FALSE
         /\ [token[t] EXCEPT !.active = FALSE].user = token[t].user
  BY <1>1
<1> QED BY <1>1, <1>2 DEF Revoke

LEMMA TypeStep ==
    ASSUME TypeOK, [Next]_vars PROVE TypeOK'
<1> USE NoticesAssumption
<1>1. CASE WarnDue
  <2>1. notice' \in [Notices -> Notice \cup {Null}]
    BY <1>1, RaiseFacts DEF WarnDue, Events, TypeOK
  <2>2. poll' \in [status : {"published", "closed"}, deadline : 0..MaxMoves,
                   phase : {"far", "near", "past"}, notified : BOOLEAN]
    BY <1>1 DEF WarnDue, TypeOK
  <2>3. raised' \in [0..MaxMoves -> Nat]
    BY <1>1 DEF WarnDue, TypeOK
  <2> QED BY <1>1, <2>1, <2>2, <2>3 DEF WarnDue, TypeOK, deviceVars
<1>2. CASE MoveDeadline \/ Tick
  <2>1. poll' \in [status : {"published", "closed"}, deadline : 0..MaxMoves,
                   phase : {"far", "near", "past"}, notified : BOOLEAN]
    <3>2. CASE MoveDeadline
      <4>1. PICK phase \in {"far", "near", "past"} :
               poll' = [poll EXCEPT !.deadline = @ + 1, !.phase = phase, !.notified = FALSE]
        BY <3>2 DEF MoveDeadline
      <4>2. poll.deadline + 1 \in 0..MaxMoves
        BY <3>2 DEF MoveDeadline, TypeOK
      <4> QED BY <4>1, <4>2 DEF TypeOK
    <3>3. CASE Tick
      BY <3>3 DEF Tick, TypeOK
    <3> QED BY <1>2, <3>2, <3>3
  <2> QED BY <1>2, <2>1 DEF MoveDeadline, Tick, TypeOK, deviceVars
<1>3. CASE Close
  <2>1. notice' \in [Notices -> Notice \cup {Null}]
    BY <1>3, RaiseFacts DEF Close, Events, TypeOK
  <2>2. poll' \in [status : {"published", "closed"}, deadline : 0..MaxMoves,
                   phase : {"far", "near", "past"}, notified : BOOLEAN]
    BY <1>3 DEF Close, TypeOK
  <2> QED BY <1>3, <2>1, <2>2 DEF Close, TypeOK, deviceVars
<1>4. ASSUME NEW n \in Notices, Read(n) PROVE TypeOK'
  <2> DEFINE e == notice[n].event
             job == [c \in Channels |->
                        IF c \in PrefsFor(e) /\ (c = "email" \/ ToSend(c, ActiveTokens) # {})
                        THEN "send" ELSE "done"]
             new == [notice[n] EXCEPT !.at = "send", !.tokens = ActiveTokens, !.on = {},
                                      !.mine = {}, !.job = job]
  <2>1. notice[n] \in Notice /\ ActiveTokens \subseteq Tokens
    BY <1>4, NoticeTypes DEF Read, ActiveTokens
  <2>2. job \in [Channels -> {"send", "prune", "done"}]
    OBVIOUS
  <2> HIDE DEF job
  <2>3. new \in Notice
    BY <2>1, <2>2 DEF Notice
  <2>4. notice' = [notice EXCEPT ![n] = new]
    BY <1>4 DEF Read, job
  <2>5. notice' \in [Notices -> Notice \cup {Null}]
    BY <2>3, <2>4 DEF TypeOK
  <2> QED BY <1>4, <2>5 DEF Read, TypeOK, pollVars, deviceVars
<1>5. ASSUME NEW n \in Notices, SendEmail(n) \/ Finish(n) PROVE TypeOK'
  <2>1. notice' \in [Notices -> Notice \cup {Null}]
    <3>1. CASE SendEmail(n)
      <4>1. [notice[n] EXCEPT !.job["email"] = "done"] \in Notice
        BY <3>1, NoticeTypes DEF SendEmail, Notice
      <4> QED BY <3>1, <4>1 DEF SendEmail, TypeOK
    <3>2. CASE Finish(n)
      BY <3>2 DEF Finish, TypeOK
    <3> QED BY <1>5, <3>1, <3>2
  <2> QED BY <1>5, <2>1 DEF SendEmail, Finish, TypeOK, pollVars, deviceVars
<1>6. ASSUME NEW n \in Notices, NEW c \in PushChannels, Push(n, c) PROVE TypeOK'
  <2>1. PICK D \in SUBSET Tokens :
           /\ notice' = [notice EXCEPT ![n] =
                 [notice[n] EXCEPT !.job[c] = "prune", !.dead = @ \cup D, !.tokens = @ \ ToSend(c, @)]]
           /\ dead' = dead \cup D
    BY <1>6, NoticeTypes DEF Push, ToSend
  <2> DEFINE new == [notice[n] EXCEPT !.job[c] = "prune", !.dead = @ \cup D,
                                      !.tokens = @ \ ToSend(c, @)]
  <2>2. new \in Notice
    <3>1. /\ notice[n] \in Notice /\ notice[n].dead \cup D \subseteq Tokens
          /\ notice[n].tokens \ ToSend(c, notice[n].tokens) \subseteq Tokens
          /\ [notice[n].job EXCEPT ![c] = "prune"] \in [Channels -> {"send", "prune", "done"}]
      BY <1>6, NoticeTypes DEF Push
    <3> QED BY <3>1 DEF Notice
  <2>3. notice' \in [Notices -> Notice \cup {Null}]
    <3>1. notice' = [notice EXCEPT ![n] = new]
      BY <2>1
    <3> HIDE DEF new
    <3> QED BY <2>2, <3>1 DEF TypeOK
  <2> QED BY <1>6, <2>1, <2>3 DEF Push, TypeOK, pollVars
<1>7. ASSUME NEW n \in Notices, NEW c \in PushChannels, Prune(n, c) \/ PruneFails(n, c)
      PROVE  TypeOK'
  <2>1. notice' \in [Notices -> Notice \cup {Null}]
    <3> DEFINE new == [notice[n] EXCEPT !.job[c] = "done", !.dead = @ \ ToSend(c, @)]
    <3>1. new \in Notice
      <4>1. /\ notice[n] \in Notice
            /\ notice[n].dead \ ToSend(c, notice[n].dead) \subseteq Tokens
            /\ [notice[n].job EXCEPT ![c] = "done"] \in [Channels -> {"send", "prune", "done"}]
        BY <1>7, NoticeTypes DEF Prune, PruneFails
      <4> QED BY <4>1 DEF Notice
    <3>2. notice' = [notice EXCEPT ![n] = new]
      BY <1>7 DEF Prune, PruneFails
    <3> HIDE DEF new
    <3> QED BY <3>1, <3>2 DEF TypeOK
  <2>2. token' \in [Tokens -> [user : People, active : BOOLEAN]]
    <3>1. CASE Prune(n, c)
      <4>1. ToSend(c, notice[n].dead) \in SUBSET Tokens
        BY <3>1, NoticeTypes DEF Prune, ToSend
      <4> QED BY <3>1, <4>1, RevokeType DEF Prune
    <3>2. CASE PruneFails(n, c)
      BY <3>2 DEF PruneFails, TypeOK, deviceVars
    <3> QED BY <1>7, <3>1, <3>2
  <2> QED BY <1>7, <2>1, <2>2 DEF Prune, PruneFails, TypeOK, pollVars, deviceVars
<1>8. ASSUME NEW t \in Tokens, (\E p \in People : RegisterToken(p, t)) \/ RevokeToken(t)
      PROVE  TypeOK'
  <2>1. token' \in [Tokens -> [user : People, active : BOOLEAN]]
    <3>1. ASSUME NEW p \in People, RegisterToken(p, t)
          PROVE  token' \in [Tokens -> [user : People, active : BOOLEAN]]
      BY <3>1 DEF RegisterToken, TypeOK
    <3>2. CASE RevokeToken(t)
      BY <3>2, RevokeType DEF RevokeToken
    <3> QED BY <1>8, <3>1, <3>2
  <2>2. notice' \in [Notices -> Notice \cup {Null}]
    <3>1. ASSUME NEW p \in People, RegisterToken(p, t) PROVE notice' \in [Notices -> Notice \cup {Null}]
      <4>1. PrefsNow \in [Events -> SUBSET Channels]
        BY PrefsTypes DEF PrefsNow
      <4>2. (IF p = "owner" THEN {t} ELSE {}) \in SUBSET Tokens
        OBVIOUS
      <4>3. Widened(IF p = "owner" THEN {t} ELSE {}, PrefsNow) \in [Notices -> Notice \cup {Null}]
        BY <4>1, <4>2, WidenedType
      <4> QED BY <3>1, <4>3, RegisterWidens
    <3> QED BY <1>8, <3>1 DEF RevokeToken, TypeOK
  <2> QED BY <1>8, <2>1, <2>2 DEF RegisterToken, RevokeToken, Change, TypeOK, pollVars
<1>9. ASSUME NEW e \in Events, NEW P \in PrefChoices, SetPrefs(e, P) PROVE TypeOK'
  <2>1. P \subseteq Channels
    BY DEF Channels
  <2>2. notice' \in [Notices -> Notice \cup {Null}]
    <3>1. PrefsThen(e, P) \in [Events -> SUBSET Channels]
      BY <2>1, PrefsTypes DEF PrefsThen
    <3> QED BY <1>9, <3>1, SetPrefsWidens, WidenedType
  <2> QED BY <1>9, <2>1, <2>2 DEF SetPrefs, Change, TypeOK, pollVars, deviceVars
<1>10. CASE Crash
  BY <1>10 DEF Crash, TypeOK, pollVars, deviceVars
<1>11. CASE UNCHANGED vars
  BY <1>11 DEF vars, TypeOK, pollVars, deviceVars
<1> QED BY <1>1, <1>2, <1>3, <1>4, <1>5, <1>6, <1>7, <1>8, <1>9, <1>10, <1>11 DEF Next, Work

-----------------------------------------------------------------------------
\* Only a warning raises for a deadline, and only if its marker is not set.
LEMMA MarkerStep ==
    ASSUME TypeOK, MarkerTells, [Next]_vars PROVE MarkerTells'
<1> USE NoticesAssumption
<1>1. poll.deadline \in 0..MaxMoves /\ raised \in [0..MaxMoves -> Nat]
      /\ poll \in [status : {"published", "closed"}, deadline : 0..MaxMoves,
                   phase : {"far", "near", "past"}, notified : BOOLEAN]
  BY DEF TypeOK
<1>2. CASE WarnDue
  <2>1. /\ ~poll.notified /\ poll'.notified /\ poll'.deadline = poll.deadline
        /\ raised' = [raised EXCEPT ![poll.deadline] = @ + 1]
    BY <1>1, <1>2 DEF WarnDue, Due
  <2>2. raised[poll.deadline] = 0
    BY <1>1, <2>1 DEF MarkerTells
  <2> QED BY <1>1, <2>1, <2>2 DEF MarkerTells
<1>3. CASE MoveDeadline
  <2>1. PICK phase \in {"far", "near", "past"} :
           poll' = [poll EXCEPT !.deadline = @ + 1, !.phase = phase, !.notified = FALSE]
    BY <1>3 DEF MoveDeadline
  <2>2. poll'.deadline = poll.deadline + 1 /\ ~poll'.notified /\ raised' = raised
    BY <1>1, <1>3, <2>1 DEF MoveDeadline
  <2>3. raised[poll.deadline] <= 1
    BY <1>1 DEF MarkerTells
  <2> QED BY <1>1, <2>2, <2>3 DEF MarkerTells
<1>4. CASE Close \/ Tick
  <2>1. poll'.deadline = poll.deadline /\ poll'.notified = poll.notified /\ raised' = raised
    BY <1>1, <1>4 DEF Close, Tick
  <2> QED BY <2>1 DEF MarkerTells
<1>5. CASE UNCHANGED <<poll, raised>>
  BY <1>5 DEF MarkerTells
<1>6. \/ WarnDue \/ MoveDeadline \/ Close \/ Tick
      \/ UNCHANGED <<poll, raised>>
  BY DEF Next, Work, Read, SendEmail, Finish, Push, Prune, PruneFails, RegisterToken, RevokeToken,
         SetPrefs, Change, Crash, vars, pollVars
<1> QED BY <1>2, <1>3, <1>4, <1>5, <1>6

PrefsIn(q, e) == IF q[e] = Null THEN Channels ELSE q[e]

\* What a step does to the notices that have not read yet, and what it lets them
\* find: they see no more than what they may.
LEMMA WaitingStep ==
    ASSUME TypeOK, WaitingAllows, [Next]_vars PROVE WaitingAllows'
<1>1. ASSUME NEW e \in Events, Raise(e), UNCHANGED <<token, pref>> PROVE WaitingAllows'
  <2>1. PICK n \in Notices : notice[n] = Null /\ notice' = [notice EXCEPT ![n] = Raised(e)]
    BY <1>1, RaiseFacts
  <2>2. /\ notice'[n].event = e /\ notice'[n].tokens = {} /\ \A c \in Channels : notice'[n].job[c] = "done"
        /\ notice'[n].on = PrefsFor(e)
        /\ notice'[n].mine = {t \in Tokens : token[t] = [user |-> "owner", active |-> TRUE]}
    BY <2>1 DEF Raised, TypeOK
  <2>3. ActiveTokens \subseteq notice'[n].mine
    <3>1. \A t \in Tokens : token[t] \in [user : People, active : BOOLEAN]
      BY DEF TypeOK
    <3> QED BY <2>2, <3>1 DEF ActiveTokens
  <2>4. ActiveTokens' = ActiveTokens /\ \A f \in Events : PrefsIn(pref', f) = PrefsFor(f)
    BY <1>1 DEF ActiveTokens, PrefsFor, PrefsIn
  <2>5. ASSUME NEW m \in Notices, notice'[m] # Null, notice'[m].at = "read"
        PROVE  /\ notice'[m].tokens = {} /\ \A c \in Channels : notice'[m].job[c] = "done"
               /\ ActiveTokens' \subseteq notice'[m].mine
               /\ PrefsIn(pref', notice'[m].event) \subseteq notice'[m].on
    <3>1. CASE m = n
      BY <2>2, <2>3, <2>4, <3>1
    <3>2. CASE m # n
      <4>1. notice'[m] = notice[m] /\ m \in InFlight /\ notice[m].event \in Events
        BY <2>1, <2>5, <3>2, NoticeTypes DEF InFlight, TypeOK
      <4> QED BY <2>4, <2>5, <4>1 DEF WaitingAllows
    <3> QED BY <3>1, <3>2
  <2> QED BY <2>5 DEF WaitingAllows, InFlight, PrefsFor, PrefsIn
\* Notices that have read do not matter, and the others are as they were.
<1>2. ASSUME ActiveTokens' \subseteq ActiveTokens, UNCHANGED pref,
             \A n \in Notices : \/ notice'[n] = notice[n] \/ notice'[n] = Null
                                \/ notice'[n].at = "send"
      PROVE  WaitingAllows'
  <2>1. \A n \in Notices : notice[n] # Null => notice[n].event \in Events
    BY NoticeTypes
  <2>2. \A f \in Events : PrefsIn(pref', f) = PrefsFor(f)
    BY <1>2 DEF PrefsFor, PrefsIn
  <2>3. ASSUME NEW n \in Notices, notice'[n] # Null, notice'[n].at = "read"
        PROVE  /\ notice'[n].tokens = {} /\ \A c \in Channels : notice'[n].job[c] = "done"
               /\ ActiveTokens' \subseteq notice'[n].mine
               /\ PrefsIn(pref', notice'[n].event) \subseteq notice'[n].on
    <3>1. notice'[n] = notice[n] /\ n \in InFlight
      BY <1>2, <2>3 DEF InFlight
    <3> QED BY <1>2, <2>1, <2>2, <2>3, <3>1 DEF WaitingAllows, InFlight
  <2> QED BY <2>3 DEF WaitingAllows, InFlight, PrefsFor, PrefsIn
<1>3. CASE WarnDue \/ Close
  BY <1>1, <1>3 DEF WarnDue, Close, Events, deviceVars
<1>4. CASE MoveDeadline \/ Tick
  BY <1>2, <1>4 DEF MoveDeadline, Tick, deviceVars, ActiveTokens
\* A job is only under way once the notice has read.
<1>5. \A n \in InFlight : \A c \in Channels : notice[n].job[c] # "done" => notice[n].at = "send"
  BY NoticeTypes DEF WaitingAllows, InFlight
<1>6. ASSUME NEW n \in Notices, Work(n) PROVE WaitingAllows'
  <2>1. /\ notice[n] # Null /\ \A m \in Notices : m # n => notice'[m] = notice[m]
        /\ UNCHANGED pref
    BY <1>6 DEF Work, Read, SendEmail, Finish, Push, Prune, Settled, TypeOK
  <2>2. notice[n] \in Notice /\ notice \in [Notices -> Notice \cup {Null}]
    BY <2>1, NoticeTypes DEF TypeOK
  <2>3. notice'[n] = Null \/ notice'[n].at = "send"
    <3>1. CASE Read(n)
      BY <2>2, <3>1 DEF Read, Notice
    <3>2. CASE SendEmail(n)
      BY <1>5, <2>1, <2>2, <3>2 DEF SendEmail, InFlight, Channels, Notice
    <3>3. ASSUME NEW c \in PushChannels, Push(n, c) PROVE notice'[n].at = "send"
      <4>1. notice[n].at = "send"
        BY <1>5, <2>1, <3>3 DEF Push, InFlight, Channels, PushChannels
      <4> QED BY <2>2, <3>3, <4>1 DEF Push, Notice
    <3>4. ASSUME NEW c \in PushChannels, Prune(n, c) PROVE notice'[n].at = "send"
      <4>1. notice[n].at = "send"
        BY <1>5, <2>1, <3>4 DEF Prune, InFlight, Channels, PushChannels
      <4> QED BY <2>2, <3>4, <4>1 DEF Prune, Notice
    <3>5. CASE Finish(n)
      BY <2>2, <3>5 DEF Finish
    <3> QED BY <1>6, <3>1, <3>2, <3>3, <3>4, <3>5 DEF Work
  <2>4. ActiveTokens' \subseteq ActiveTokens
    <3>1. CASE UNCHANGED token
      BY <3>1 DEF ActiveTokens
    <3>2. ASSUME NEW c \in PushChannels, Prune(n, c) PROVE ActiveTokens' \subseteq ActiveTokens
      <4>1. ToSend(c, notice[n].dead) \in SUBSET Tokens
        BY <2>1, NoticeTypes DEF ToSend
      <4> QED BY <3>2, <4>1, RevokeType DEF Prune, ActiveTokens
    <3> QED BY <1>6, <3>1, <3>2 DEF Work, Read, SendEmail, Finish, Push, deviceVars
  <2> QED BY <1>2, <2>1, <2>3, <2>4
<1>7. ASSUME NEW n \in Notices, NEW c \in PushChannels, PruneFails(n, c) PROVE WaitingAllows'
  <2>1. notice[n] \in Notice /\ notice[n].at = "send" /\ notice \in [Notices -> Notice \cup {Null}]
    BY <1>5, <1>7, NoticeTypes DEF PruneFails, InFlight, Channels, PushChannels, TypeOK
  <2>2. notice'[n].at = "send" /\ \A m \in Notices : m # n => notice'[m] = notice[m]
    BY <1>7, <2>1 DEF PruneFails, Notice
  <2>3. UNCHANGED <<token, pref>>
    BY <1>7 DEF PruneFails, deviceVars
  <2> QED BY <1>2, <2>2, <2>3 DEF ActiveTokens
\* The sets that Widen adds are what the change lets a notice find.
<1>8. ASSUME NEW T \in SUBSET Tokens, NEW Q \in [Events -> SUBSET Channels],
             notice' = Widened(T, Q), ActiveTokens' \subseteq ActiveTokens \cup T,
             \A e \in Events : PrefsIn(pref', e) \subseteq PrefsFor(e) \cup Q[e]
      PROVE  WaitingAllows'
  <2> SUFFICES ASSUME NEW n \in Notices, notice'[n] # Null, notice'[n].at = "read"
               PROVE  /\ notice'[n].tokens = {} /\ \A c \in Channels : notice'[n].job[c] = "done"
                      /\ ActiveTokens' \subseteq notice'[n].mine
                      /\ PrefsIn(pref', notice'[n].event) \subseteq notice'[n].on
    BY DEF WaitingAllows, InFlight, PrefsFor, PrefsIn
  <2>1. notice[n] # Null
    BY <1>8 DEF Widened
  <2>2. notice[n] \in Notice /\ notice[n].event \in Events
    BY <2>1, NoticeTypes
  <2>3. notice[n].at = "read"
    BY <1>8 DEF Widened
  <2>4. notice'[n] = [notice[n] EXCEPT !.mine = @ \cup T, !.on = @ \cup Q[notice[n].event]]
    BY <1>8, <2>1, <2>3 DEF Widened
  <2>5. /\ notice'[n].event = notice[n].event /\ notice'[n].tokens = notice[n].tokens
        /\ notice'[n].job = notice[n].job
        /\ notice'[n].mine = notice[n].mine \cup T
        /\ notice'[n].on = notice[n].on \cup Q[notice[n].event]
    BY <2>2, <2>4 DEF Notice
  <2>6. /\ notice[n].tokens = {} /\ \A c \in Channels : notice[n].job[c] = "done"
        /\ ActiveTokens \subseteq notice[n].mine
        /\ PrefsFor(notice[n].event) \subseteq notice[n].on
    BY <2>1, <2>3 DEF WaitingAllows, InFlight
  <2> QED BY <1>8, <2>2, <2>5, <2>6
<1>9. ASSUME NEW t \in Tokens, NEW p \in People, RegisterToken(p, t) PROVE WaitingAllows'
  <2> DEFINE T == IF p = "owner" THEN {t} ELSE {}
  <2>1. ActiveTokens' \subseteq ActiveTokens \cup T
    BY <1>9 DEF RegisterToken, ActiveTokens, TypeOK
  <2>2. \A e \in Events : PrefsIn(pref', e) \subseteq PrefsFor(e) \cup PrefsNow[e]
    BY <1>9 DEF RegisterToken, PrefsFor, PrefsIn, PrefsNow
  <2>3. notice' = Widened(T, PrefsNow) /\ T \in SUBSET Tokens
    BY <1>9, RegisterWidens
  <2>4. PrefsNow \in [Events -> SUBSET Channels]
    BY PrefsTypes DEF PrefsNow
  <2> HIDE DEF T
  <2> QED BY <1>8, <2>1, <2>2, <2>3, <2>4
<1>10. ASSUME NEW t \in Tokens, RevokeToken(t) PROVE WaitingAllows'
  <2>1. ActiveTokens' \subseteq ActiveTokens
    BY <1>10, RevokeType DEF RevokeToken, ActiveTokens
  <2> QED BY <1>2, <1>10, <2>1 DEF RevokeToken
<1>11. ASSUME NEW e \in Events, NEW P \in PrefChoices, SetPrefs(e, P) PROVE WaitingAllows'
  <2>1. PrefsThen(e, P) \in [Events -> SUBSET Channels]
    BY PrefsTypes, NoticesAssumption DEF PrefsThen, Channels
  <2>2. \A f \in Events : PrefsIn(pref', f) \subseteq PrefsFor(f) \cup PrefsThen(e, P)[f]
    <3>1. \A f \in Events : PrefsIn(pref', f) = IF f = e THEN (IF P = Null THEN Channels ELSE P) ELSE PrefsFor(f)
      BY <1>11 DEF SetPrefs, PrefsFor, PrefsIn, TypeOK
    <3>2. P # Null
      BY NullAssumption, NoticesAssumption DEF Channels
    <3> QED BY <3>1, <3>2 DEF PrefsThen
  <2>3. ActiveTokens' = ActiveTokens
    BY <1>11 DEF SetPrefs, deviceVars, ActiveTokens
  <2> QED BY <1>8, <1>11, <2>1, <2>2, <2>3, SetPrefsWidens
<1>12. CASE Crash
  BY <1>2, <1>12 DEF Crash, deviceVars, ActiveTokens
<1>13. CASE UNCHANGED vars
  BY <1>2, <1>13 DEF vars, deviceVars, ActiveTokens
<1> QED BY <1>3, <1>4, <1>6, <1>7, <1>9, <1>10, <1>11, <1>12, <1>13 DEF Next

-----------------------------------------------------------------------------
\* A notice that is changed keeps its unrevoked dead tokens, as long as its jobs
\* before revocation keep theirs.
LEMMA PendingKept ==
    ASSUME NEW t \in Tokens, Pending(t),
           \A n \in InFlight : \A c \in PushChannels :
              notice[n].job[c] = "prune" /\ t \in ToSend(c, notice[n].dead) =>
                  notice'[n] # Null /\ notice'[n].job[c] = "prune" /\ t \in notice'[n].dead
    PROVE  Pending(t)'
BY DEF Pending, InFlight, ToSend, PushChannels

LEMMA DeadStep ==
    ASSUME TypeOK, WaitingAllows, DeadAreHandled, [Next]_vars PROVE DeadAreHandled'
<1>1. /\ notice \in [Notices -> Notice \cup {Null}] /\ dead \subseteq Tokens
      /\ faults \in Nat
      /\ \A t \in Tokens : token[t] \in [user : People, active : BOOLEAN]
  BY NoticesAssumption DEF TypeOK
<1>2. ASSUME NEW n \in InFlight, NEW c \in PushChannels, notice[n].job[c] = "prune"
      PROVE  notice[n].at = "send"
  BY <1>2, NoticeTypes DEF WaitingAllows, PushChannels, Channels, InFlight
\* Nobody registers and nothing is reported dead, and what was pending still is.
<1>3. ASSUME UNCHANGED faults, dead' = dead,
             \A t \in Tokens : token'[t].active => token[t].active,
             \A n \in InFlight : \A c \in PushChannels : notice[n].job[c] = "prune" =>
                 /\ notice'[n] # Null /\ notice'[n].job[c] = "prune"
                 /\ notice[n].dead \subseteq notice'[n].dead
      PROVE  DeadAreHandled'
  <2> SUFFICES ASSUME faults = 0, NEW t \in dead, token'[t].active PROVE Pending(t)'
    BY <1>3 DEF DeadAreHandled
  <2>1. t \in Tokens /\ Pending(t)
    BY <1>1, <1>3 DEF DeadAreHandled
  <2> QED BY <1>3, <2>1, PendingKept DEF ToSend
<1>4. ASSUME NEW e \in Events, Raise(e), UNCHANGED <<token, dead, faults>> PROVE DeadAreHandled'
  <2>1. PICK n \in Notices : notice[n] = Null /\ notice' = [notice EXCEPT ![n] = Raised(e)]
    BY <1>4, RaiseFacts
  <2>2. \A m \in InFlight : notice'[m] = notice[m] /\ notice[m] # Null
    BY <1>1, <2>1 DEF InFlight
  <2> QED BY <1>3, <1>4, <2>2
<1>5. CASE WarnDue \/ Close
  BY <1>4, <1>5 DEF WarnDue, Close, Events, deviceVars
<1>6. CASE MoveDeadline \/ Tick \/ UNCHANGED vars
  BY <1>3, <1>6 DEF MoveDeadline, Tick, vars, deviceVars, InFlight
<1>7. ASSUME NEW n \in Notices, Read(n) PROVE DeadAreHandled'
  <2>1. n \in InFlight /\ notice[n].at = "read" /\ \A m \in Notices : m # n => notice'[m] = notice[m]
    BY <1>7 DEF Read, InFlight, TypeOK
  <2>2. \A m \in InFlight : \A c \in PushChannels :
           notice[m].job[c] = "prune" => notice'[m] = notice[m] /\ notice[m] # Null
    BY <1>2, <2>1 DEF InFlight
  <2> QED BY <1>3, <1>7, <2>2 DEF Read, deviceVars
<1>8. ASSUME NEW n \in Notices, SendEmail(n) PROVE DeadAreHandled'
  <2>1. notice[n] \in Notice /\ [notice[n] EXCEPT !.job["email"] = "done"] \in Notice
    BY <1>8, NoticeTypes DEF SendEmail, Notice
  <2>2. /\ notice'[n] # Null /\ notice'[n].dead = notice[n].dead
        /\ \A c \in PushChannels : notice'[n].job[c] = notice[n].job[c]
        /\ \A m \in Notices : m # n => notice'[m] = notice[m]
    BY <1>1, <1>8, <2>1, NullAssumption DEF SendEmail, Notice, PushChannels, Channels
  <2> QED BY <1>3, <1>8, <2>2 DEF SendEmail, deviceVars, InFlight
<1>9. ASSUME NEW n \in Notices, Finish(n) PROVE DeadAreHandled'
  <2>1. \A m \in InFlight : \A c \in PushChannels : notice[m].job[c] = "prune" => m # n
    BY <1>9 DEF Finish, Settled, PushChannels, Channels
  <2>2. \A m \in Notices : m # n => notice'[m] = notice[m]
    BY <1>1, <1>9 DEF Finish
  <2> QED BY <1>3, <1>9, <2>1, <2>2 DEF Finish, deviceVars, InFlight
<1>10. ASSUME NEW n \in Notices, NEW c \in PushChannels, Push(n, c) PROVE DeadAreHandled'
  <2>1. PICK D \in SUBSET (ToSend(c, notice[n].tokens) \cap gone) :
           /\ notice' = [notice EXCEPT ![n] =
                 [notice[n] EXCEPT !.job[c] = "prune", !.dead = @ \cup D, !.tokens = @ \ ToSend(c, @)]]
           /\ dead' = dead \cup D
    BY <1>10 DEF Push
  <2>2. /\ notice[n] \in Notice /\ n \in InFlight /\ notice[n].job[c] = "send"
        /\ notice[n].job \in [Channels -> {"send", "prune", "done"}] /\ c \in Channels
        /\ D \subseteq ToSend(c, D) /\ D \subseteq Tokens
    BY <1>10, <2>1, NoticeTypes DEF Push, InFlight, ToSend, PushChannels, Channels
  <2> DEFINE new == [notice[n] EXCEPT !.job[c] = "prune", !.dead = @ \cup D,
                                      !.tokens = @ \ ToSend(c, @)]
  <2>3. /\ new.dead = notice[n].dead \cup D
        /\ new.job = [notice[n].job EXCEPT ![c] = "prune"]
    BY <2>2 DEF Notice
  <2>4. new \in Notice
    <3>1. /\ notice[n].dead \cup D \subseteq Tokens
          /\ notice[n].tokens \ ToSend(c, notice[n].tokens) \subseteq Tokens
          /\ [notice[n].job EXCEPT ![c] = "prune"] \in [Channels -> {"send", "prune", "done"}]
      BY <2>2, NoticeTypes DEF InFlight
    <3> QED BY <2>2, <3>1 DEF Notice
  <2>5. notice' = [notice EXCEPT ![n] = new]
    BY <2>1
  <2> HIDE DEF new
  <2>6. /\ notice'[n] # Null /\ notice'[n].dead = notice[n].dead \cup D
        /\ notice'[n].job[c] = "prune"
        /\ \A d \in PushChannels : notice[n].job[d] = "prune" => notice'[n].job[d] = "prune"
        /\ \A m \in Notices : m # n => notice'[m] = notice[m]
    BY <1>1, <2>2, <2>3, <2>4, <2>5, NullAssumption DEF PushChannels, Channels
  <2> SUFFICES ASSUME faults = 0, NEW t \in dead', token[t].active PROVE Pending(t)'
    BY <1>10 DEF DeadAreHandled, Push
  <2>7. CASE t \in D
    BY <2>2, <2>6, <2>7 DEF Pending, InFlight, PushChannels, ToSend
  <2>8. CASE t \in dead
    <3>1. t \in Tokens /\ Pending(t)
      BY <1>1, <2>8 DEF DeadAreHandled
    <3> QED BY <2>6, <3>1, PendingKept DEF InFlight, ToSend
  <2> QED BY <2>1, <2>7, <2>8
<1>11. ASSUME NEW n \in Notices, NEW c \in PushChannels, Prune(n, c) PROVE DeadAreHandled'
  <2> DEFINE T == ToSend(c, notice[n].dead)
             new == [notice[n] EXCEPT !.job[c] = "done", !.dead = @ \ ToSend(c, @)]
  <2>1. /\ notice[n] \in Notice /\ n \in InFlight
        /\ notice[n].job \in [Channels -> {"send", "prune", "done"}] /\ c \in Channels
        /\ T \in SUBSET Tokens
    BY <1>11, NoticeTypes DEF Prune, InFlight, ToSend, PushChannels, Channels
  <2>2. new.dead = notice[n].dead \ T /\ new.job = [notice[n].job EXCEPT ![c] = "done"]
    BY <2>1 DEF Notice
  <2>3. new \in Notice
    <3>1. /\ notice[n].dead \ T \subseteq Tokens
          /\ [notice[n].job EXCEPT ![c] = "done"] \in [Channels -> {"send", "prune", "done"}]
      BY <2>1, NoticeTypes DEF InFlight
    <3> QED BY <2>1, <3>1 DEF Notice
  <2>4. notice' = [notice EXCEPT ![n] = new] /\ Revoke(T) /\ UNCHANGED <<dead, faults>>
    BY <1>11 DEF Prune
  <2> HIDE DEF new
  <2>5. /\ notice'[n] # Null /\ notice'[n].dead = notice[n].dead \ T
        /\ \A d \in PushChannels \ {c} : notice'[n].job[d] = notice[n].job[d]
        /\ \A m \in Notices : m # n => notice'[m] = notice[m]
    BY <1>1, <2>1, <2>2, <2>3, <2>4, NullAssumption DEF PushChannels, Channels
  <2>6. \A t \in Tokens : token'[t].active => token[t].active /\ t \notin T
    BY <2>1, <2>4, RevokeType
  <2> SUFFICES ASSUME faults = 0, NEW t \in dead, token'[t].active PROVE Pending(t)'
    BY <2>4 DEF DeadAreHandled
  <2>7. t \in Tokens /\ Pending(t) /\ t \notin T
    BY <1>1, <2>6 DEF DeadAreHandled
  <2>8. \A d \in PushChannels : t \in ToSend(d, notice[n].dead) => d # c
    BY <2>7
  <2> HIDE DEF T
  <2> QED BY <2>5, <2>7, <2>8, PendingKept DEF InFlight, ToSend
<1>12. ASSUME NEW n \in Notices, NEW c \in PushChannels, PruneFails(n, c) PROVE DeadAreHandled'
  BY <1>1, <1>12 DEF PruneFails, DeadAreHandled
<1>13. CASE Crash
  BY <1>1, <1>13 DEF Crash, DeadAreHandled
\* Widen leaves jobs and dead tokens alone.
<1>14. ASSUME NEW T, NEW Q, notice' = Widened(T, Q)
       PROVE  \A n \in InFlight : \A c \in PushChannels : notice[n].job[c] = "prune" =>
                 notice'[n] = notice[n] /\ notice[n] # Null
  BY <1>2, <1>14 DEF Widened, InFlight
<1>15. ASSUME NEW t \in Tokens, NEW p \in People, RegisterToken(p, t) PROVE DeadAreHandled'
  <2>1. \A n \in InFlight : \A c \in PushChannels : notice[n].job[c] = "prune" =>
           notice'[n] = notice[n] /\ notice[n] # Null
    BY <1>14, <1>15, RegisterWidens
  <2> SUFFICES ASSUME faults = 0, NEW u \in dead', token'[u].active PROVE Pending(u)'
    BY <1>15 DEF RegisterToken, Change, DeadAreHandled
  <2>2. u \in dead /\ u # t /\ u \in Tokens /\ token'[u] = token[u]
    BY <1>1, <1>15 DEF RegisterToken, TypeOK
  <2>3. Pending(u)
    BY <2>2 DEF DeadAreHandled
  <2> QED BY <2>1, <2>2, <2>3, PendingKept DEF ToSend
<1>16. ASSUME NEW t \in Tokens, RevokeToken(t) PROVE DeadAreHandled'
  <2>1. \A u \in Tokens : token'[u].active => token[u].active
    BY <1>16, RevokeType DEF RevokeToken
  <2> QED BY <1>3, <1>16, <2>1 DEF RevokeToken, Change, InFlight
<1>17. ASSUME NEW e \in Events, NEW P \in PrefChoices, SetPrefs(e, P) PROVE DeadAreHandled'
  <2>1. \A n \in InFlight : \A c \in PushChannels : notice[n].job[c] = "prune" =>
           notice'[n] = notice[n] /\ notice[n] # Null
    BY <1>14, <1>17, SetPrefsWidens
  <2> QED BY <1>3, <1>17, <2>1 DEF SetPrefs, Change, deviceVars
<1> QED BY <1>5, <1>6, <1>7, <1>8, <1>9, <1>10, <1>11, <1>12, <1>13, <1>15, <1>16, <1>17
        DEF Next, Work

-----------------------------------------------------------------------------
LEMMA IndInit ==
    ASSUME Init PROVE IndInv
<1>1. InFlight = {} /\ dead = {}
  BY DEF Init, InFlight
<1>2. TypeOK
  BY NoticesAssumption DEF Init, TypeOK, People
<1>3. MarkerTells
  BY NoticesAssumption DEF Init, MarkerTells
<1> QED BY <1>1, <1>2, <1>3 DEF IndInv, WaitingAllows, DeadAreHandled

\* The inductive invariant: every value is of its kind, the marker tells of the
\* deadline, and what is in flight may find what it finds and revokes what is dead.
THEOREM Invariant == Spec => []IndInv
<1>1. Init => IndInv
  BY IndInit
<1>2. IndInv /\ [Next]_vars => IndInv'
  BY TypeStep, MarkerStep, WaitingStep, DeadStep DEF IndInv
<1> QED BY <1>1, <1>2, PTL DEF Spec

\* warnClosingPolls warns once of each deadline, for any number of overlapping
\* runs of the job.
THEOREM WarnedOnce == Spec => []WarnedOncePerDeadline
<1>1. IndInv => WarnedOncePerDeadline
  <2> SUFFICES ASSUME IndInv, NEW d \in 0..MaxMoves PROVE raised[d] <= 1
    BY DEF WarnedOncePerDeadline
  <2>1. poll.deadline \in 0..MaxMoves /\ MarkerTells
    BY DEF IndInv, TypeOK
  <2> QED BY <2>1, NoticesAssumption DEF MarkerTells
<1> QED BY <1>1, Invariant, PTL

\* A token that was reported dead is revoked by the job that heard of it, unless
\* the device registers again or the revocation fails.
THEOREM DeadTokensRevoked == Spec => []DeadTokensPruned
<1>1. IndInv => DeadTokensPruned
  BY DEF IndInv, TypeOK, DeadAreHandled, DeadTokensPruned, Pending
<1> QED BY <1>1, Invariant, PTL

\* Only Read gives a notice that waits its channels and tokens.
LEMMA ConsentStep ==
    ASSUME IndInv, [Next]_vars PROVE FindsOnlyAllowed
<1> SUFFICES ASSUME NEW n \in Notices, notice[n] # Null, notice[n].at = "read", notice'[n] # Null
             PROVE  /\ notice'[n].tokens \subseteq notice[n].mine
                    /\ \A c \in Channels : notice'[n].job[c] = "send" => c \in notice[n].on
  BY DEF FindsOnlyAllowed, InFlight
<1>1. /\ notice[n] \in Notice /\ notice[n].event \in Events
      /\ notice \in [Notices -> Notice \cup {Null}]
  BY NoticeTypes DEF IndInv, TypeOK
<1>2. /\ notice[n].tokens = {} /\ \A c \in Channels : notice[n].job[c] = "done"
      /\ ActiveTokens \subseteq notice[n].mine
      /\ PrefsFor(notice[n].event) \subseteq notice[n].on
  BY DEF IndInv, WaitingAllows, InFlight
<1>3. CASE Read(n)
  <2> DEFINE e == notice[n].event
             job == [c \in Channels |->
                        IF c \in PrefsFor(e) /\ (c = "email" \/ ToSend(c, ActiveTokens) # {})
                        THEN "send" ELSE "done"]
             new == [notice[n] EXCEPT !.at = "send", !.tokens = ActiveTokens, !.on = {},
                                      !.mine = {}, !.job = job]
  <2>1. \A c \in Channels : job[c] = "send" => c \in PrefsFor(e)
    OBVIOUS
  <2> HIDE DEF job
  <2>2. new.tokens = ActiveTokens /\ new.job = job
    BY <1>1 DEF Notice
  <2>3. notice'[n] = new
    BY <1>1, <1>3 DEF Read, job
  <2> QED BY <1>2, <2>1, <2>2, <2>3
<1>4. CASE notice'[n].tokens = notice[n].tokens /\ notice'[n].job = notice[n].job
  BY <1>2, <1>4
<1>5. ASSUME NEW e \in Events, Raise(e) PROVE notice'[n] = notice[n]
  <2>1. PICK m \in Notices : notice[m] = Null /\ notice' = [notice EXCEPT ![m] = Raised(e)]
    BY <1>5, RaiseFacts DEF IndInv
  <2> QED BY <1>1, <2>1
<1>6. ASSUME NEW T, NEW Q, notice' = Widened(T, Q)
      PROVE  notice'[n].tokens = notice[n].tokens /\ notice'[n].job = notice[n].job
  <2>1. notice'[n] = [notice[n] EXCEPT !.mine = @ \cup T, !.on = @ \cup Q[notice[n].event]]
    BY <1>6 DEF Widened
  <2> QED BY <1>1, <2>1 DEF Notice
<1>7. CASE WarnDue \/ Close
  BY <1>4, <1>5, <1>7 DEF WarnDue, Close, Events
<1>8. CASE MoveDeadline \/ Tick \/ UNCHANGED vars
  BY <1>4, <1>8 DEF MoveDeadline, Tick, vars
<1>9. ASSUME NEW m \in Notices, Work(m) \/ \E c \in PushChannels : PruneFails(m, c)
      PROVE  Read(n) \/ notice'[n] = notice[n]
  <2>1. CASE m # n
    BY <1>1, <1>9, <2>1 DEF Work, Read, SendEmail, Finish, Push, Prune, PruneFails
  <2>2. CASE m = n
    BY <1>2, <1>9, <2>2
       DEF Work, SendEmail, Finish, Settled, Push, Prune, PruneFails, PushChannels, Channels
  <2> QED BY <2>1, <2>2
<1>10. ASSUME NEW t \in Tokens, NEW p \in People, RegisterToken(p, t)
       PROVE  notice'[n].tokens = notice[n].tokens /\ notice'[n].job = notice[n].job
  BY <1>6, <1>10, RegisterWidens DEF IndInv
<1>11. ASSUME NEW t \in Tokens, RevokeToken(t) PROVE notice'[n] = notice[n]
  BY <1>11 DEF RevokeToken
<1>12. ASSUME NEW e \in Events, NEW P \in PrefChoices, SetPrefs(e, P)
       PROVE  notice'[n].tokens = notice[n].tokens /\ notice'[n].job = notice[n].job
  BY <1>6, <1>12, SetPrefsWidens DEF IndInv
<1>13. ~Crash
  BY DEF Crash
<1> QED BY <1>3, <1>4, <1>7, <1>8, <1>9, <1>10, <1>11, <1>12, <1>13 DEF Next

\* A notice uses a channel or a device only if it was allowed at some time since
\* the notice was raised: prefsFor and activeTokens are read once, and nothing
\* else gives it any.
THEOREM Consent == Spec => ConsentObeyed
<1>1. IndInv /\ [Next]_vars => [FindsOnlyAllowed]_vars
  BY ConsentStep
<1> QED BY <1>1, Invariant, PTL DEF Spec, ConsentObeyed
=============================================================================
