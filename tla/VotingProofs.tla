---------------------------- MODULE VotingProofs ----------------------------
(***************************************************************************)
(* Proofs about Voting, for any number of requests, options, voters, codes *)
(* and concurrent handlers: the inductive invariant, what follows from it, *)
(* and that every step is a step of the ballot box.                        *)
(***************************************************************************)
EXTENDS Voting, PollsProofs, FiniteSetTheorems, TLAPS

(***************************************************************************)
(* Small facts.                                                            *)
(***************************************************************************)
\* Two keys clash in either order.
LEMMA ClashSymmetric == \A k, l : Clash(k, l) => Clash(l, k)
BY DEF Clash

\* A set of requests is finite, and grows in size by one with a new request.
LEMMA RequestSets ==
    ASSUME NEW R \in SUBSET Requests
    PROVE  /\ IsFiniteSet(R)
           /\ Cardinality(R) \in Nat
           /\ \A r \in Requests : r \notin R => Cardinality(R \cup {r}) = Cardinality(R) + 1
<1>1. IsFiniteSet(R)
  BY VotingAssumption, FS_Subset
<1>2. Cardinality(R) \in Nat
  BY <1>1, FS_CardinalityType
<1>3. \A r \in Requests : r \notin R => Cardinality(R \cup {r}) = Cardinality(R) + 1
  BY <1>1, FS_AddElement
<1> QED BY <1>1, <1>2, <1>3

\* What a voter may choose are options of the poll.
LEMMA ChosenOptions ==
    ASSUME ballot \in [Requests -> Ballots], NEW r \in Requests
    PROVE  Chosen(r) \subseteq Options
<1>1. ballot[r] \in Seq(Options)
  BY VotingAssumption
<1> QED BY <1>1 DEF Chosen

(***************************************************************************)
(* Types.  The handlers' share is in PollsProofs.                          *)
(***************************************************************************)
\* A request's rollback keeps the types.
LEMMA RollbackType ==
    ASSUME TypeOK, NEW r \in Requests, NEW outcome \in Stages, Rollback(r, outcome)
    PROVE  TypeOK'
BY DEF TypeOK, Rollback, Goto, NoDraft, PollsTypeOK, pollVars

\* A step of a request keeps the types.
LEMMA RequestType ==
    ASSUME TypeOK, NEW r \in Requests, Progress(r) \/ Break(r)
    PROVE  TypeOK'
<1> USE DEF TypeOK, PollsTypeOK, pollVars, Goto
<1>1. CASE Read(r)
  BY <1>1 DEF Read, Stages, Polls
<1>2. CASE Limit(r)
  <2>1. who[r].ip \in Addresses
    BY DEF Addresses
  <2> QED BY <1>2, <2>1 DEF Limit, Stages
<1>3. CASE Claim(r)
  BY <1>3 DEF Claim, Claimable, Stages
<1>4. CASE Connect(r)
  BY <1>4 DEF Connect, Stages
<1>5. CASE Insert(r)
  BY <1>5 DEF Insert, Stages
<1>6. CASE AlreadyResponded(r)
  BY <1>6, RollbackType DEF AlreadyResponded, Stages
<1>7. CASE PollGone(r)
  BY <1>7, RollbackType DEF PollGone, Stages
<1>8. ASSUME NEW o \in Options, Increment(r, o)
      PROVE  TypeOK'
  BY <1>8 DEF Increment, Stages
<1>9. CASE Incremented(r)
  BY <1>9 DEF Incremented, Stages
<1>10. CASE Bump(r)
  BY <1>10 DEF Bump, Stages, Polls
<1>11. CASE Commit(r)
  <2>1. poll' \in Polls
    BY <1>11 DEF Commit, Polls
  <2>2. tally' \in [Options -> Nat]
    BY <1>11 DEF Commit
  <2> QED BY <1>11, <2>1, <2>2 DEF Commit, Stages, NoDraft
<1>12. CASE DeadlockVictim(r)
  BY <1>12, RollbackType DEF DeadlockVictim, Stages
<1>13. CASE Answer(r)
  BY <1>13 DEF Answer, NotifyMilestone, Stages
<1>14. CASE Refuse(r)
  <2>1. who[r].ip \in Addresses
    BY DEF Addresses
  <2> QED BY <1>14, <2>1 DEF Refuse, Stages
<1>15. CASE ConnectTimeout(r)
  BY <1>15 DEF ConnectTimeout, Stages
<1>16. CASE ConnectionLost(r)
  BY <1>16, RollbackType DEF ConnectionLost, Stages
<1>17. CASE StatementFails(r)
  <2>1. who[r].ip \in Addresses
    BY DEF Addresses
  <2> QED BY <1>17, <2>1 DEF StatementFails, Claimable, Stages
<1> QED
  BY <1>1, <1>2, <1>3, <1>4, <1>5, <1>6, <1>7, <1>8, <1>9, <1>10, <1>11, <1>12,
     <1>13, <1>14, <1>15, <1>16, <1>17 DEF Progress, Break

\* What the owner's side does while votes are in flight, other than deleting
\* the poll: it never touches the count, nor brings a poll into being, and
\* updates the row only when no vote holds it.
LEMMA OwnerStepType ==
    ASSUME TypeOK, OwnerStep
    PROVE  TypeOK' /\ poll'.count = poll.count /\ (Exists' <=> Exists)
<1>1. PollsTypeOK' /\ poll'.count = poll.count /\ (Exists' <=> Exists)
  <2>1. PollsTypeOK
    BY DEF TypeOK
  <2>2. ASSUME NEW a \in Ops, Start(a)
        PROVE  PollsTypeOK' /\ poll'.count = poll.count /\ (Exists' <=> Exists)
    BY <2>1, <2>2, StartType DEF Actors, Exists
  <2>3. ASSUME NEW a \in Actors, RowUpdate(a)
        PROVE  PollsTypeOK' /\ poll'.count = poll.count /\ (Exists' <=> Exists)
    BY <2>1, <2>3, RowUpdateType
  <2>4. ASSUME (\E a \in Actors : Announce(a) \/ Fail(a)) \/ FileReport \/ CloseDue \/ Tick
        PROVE  PollsTypeOK' /\ poll'.count = poll.count /\ (Exists' <=> Exists)
    BY <2>1, <2>4, OtherPollType
  <2> QED BY <2>2, <2>3, <2>4 DEF OwnerStep
<1> QED BY <1>1 DEF OwnerStep, TypeOK, requestVars

\* Deleting the poll and everything under it keeps the types.
LEMMA OwnerDeleteType ==
    ASSUME TypeOK, NEW a \in Actors, OwnerDelete(a)
    PROVE  TypeOK' /\ ~Exists' /\ poll'.count = 0
<1>1. PollsTypeOK' /\ ~Exists' /\ poll'.count = 0
  BY DeleteType DEF TypeOK, OwnerDelete
<1> QED BY <1>1 DEF TypeOK, OwnerDelete

\* A crash keeps the types, and the poll's row.
LEMMA CrashType ==
    ASSUME TypeOK, Crash
    PROVE  TypeOK' /\ poll' = poll
<1>1. PollsTypeOK'
  BY OtherPollType DEF TypeOK, Crash
<1>2. draft' \in [Requests -> [Options -> Nat]]
  BY DEF Crash, NoDraft
<1> QED BY <1>1, <1>2 DEF TypeOK, Crash, CrashHandlers, Stages

\* Every step keeps the types.
LEMMA TypeStep ==
    ASSUME TypeOK, [Next]_vars
    PROVE  TypeOK'
<1>1. CASE UNCHANGED vars
  BY <1>1 DEF vars, pollVars, requestVars, TypeOK, PollsTypeOK
<1>2. CASE AllDone
  BY <1>1, <1>2 DEF AllDone
<1> QED
  BY <1>1, <1>2, RequestType, OwnerStepType, OwnerDeleteType, CrashType DEF Next

\* The system starts well typed.
LEMMA TypeInit == Init => TypeOK
<1> SUFFICES ASSUME Init PROVE TypeOK
  OBVIOUS
<1>1. poll \in Polls
  <2>1. PICK p \in NewPolls : poll = [p EXCEPT !.status = "published", !.wasOpen = TRUE]
    BY DEF Init, OpenPolls
  <2>2. p \in [status : {"draft"}, dedup : Modes, identity : Identities,
               window : Windows, wasOpen : {FALSE}, count : {0}]
    BY DEF NewPolls
  <2>3. poll = [status |-> "published", dedup |-> p.dedup, identity |-> p.identity,
                window |-> p.window, wasOpen |-> TRUE, count |-> p.count]
    BY <2>1, <2>2
  <2> QED BY <2>2, <2>3 DEF Polls, Statuses
<1>2. PollsTypeOK
  BY <1>1, PollsAssumption DEF Init, PollsTypeOK, EmptyPatch, Patches, Statements
<1> QED BY <1>2 DEF Init, RequestInit, TypeOK, NoDraft, Stages

\* Every variable keeps its type: the type invariant of the voting runs.
THEOREM TypeCorrect == Spec => []TypeOK
BY TypeInit, TypeStep, PTL DEF Spec

-----------------------------------------------------------------------------
(***************************************************************************)
(* The inductive invariant.  One lemma per kind of step: those that touch  *)
(* neither a tally nor a response row, a rollback, each statement of the   *)
(* transaction, its COMMIT, the owner's side, a deletion and a crash.      *)
(***************************************************************************)
Stored == <<who, ballot, responses, tally>>
Written == <<draft, counted>>

\* As long as the poll, the stored rows and the ballots stay, the counts do.
LEMMA CountsKept ==
    ASSUME TallyExact, CountExact, UNCHANGED Stored,
           poll'.count = poll.count, Exists' <=> Exists
    PROVE  TallyExact' /\ CountExact'
<1>1. \A r : Chosen(r)' = Chosen(r)
  BY DEF Stored, Chosen
<1>2. TallyExact'
  BY <1>1 DEF TallyExact, Stored
<1>3. CountExact'
  BY DEF CountExact, Stored
<1> QED BY <1>2, <1>3

\* A request that has not written its response row yet, or whose transaction
\* is over, moves on.  It may read its rules if it had none.
LEMMA QuietRequest ==
    ASSUME IndInv, TypeOK', NEW r \in Requests, NEW stage \in Stages,
           Goto(r, stage), UNCHANGED <<poll, Stored, Written>>,
           pc[r] \notin Inserted, stage \notin Inserted,
           \A s \in Requests \ {r} : rules'[s] = rules[s],
           \/ pc[r] \in {"idle", "limit", "claim", "begin"}
           \/ pc[r] = "insert" /\ UNCHANGED rules
           \/ pc[r] = "publish" /\ stage \in {"created", "failed"} /\ UNCHANGED rules
    PROVE  IndInv'
<1> USE DEF IndInv, TypeOK, Goto, Stored, Written
<1>1. \A s \in Requests : pc'[s] = IF s = r THEN stage ELSE pc[s]
  OBVIOUS
<1>2. \A s \in Requests : pc'[s] \in Inserted => s # r /\ pc[s] \in Inserted
  BY <1>1
<1>3. \A s \in Requests : Chosen(s)' = Chosen(s)
  BY DEF Chosen
<1>4. Exists' <=> Exists
  BY DEF Exists
<1>5. r \in responses => pc[r] = "publish" /\ stage \in {"created", "failed"} /\ rules' = rules
  BY DEF StoredStages
<1>6. DraftsExclusive' /\ DraftsFresh' /\ DraftsComplete'
  <2>1. DraftsExclusive'
    BY DEF DraftsExclusive
  <2>2. DraftsFresh'
    BY <1>1, <1>3 DEF DraftsFresh
  <2>3. DraftsComplete'
    BY <1>1, <1>3 DEF DraftsComplete, Inserted
  <2> QED BY <2>1, <2>2, <2>3
<1>7. CountFresh' /\ PollKept'
  BY <1>1, <1>2, <1>4 DEF CountFresh, PollKept, Inserted
<1>8. StoredStages'
  BY <1>1, <1>5 DEF StoredStages
<1>9. NoClash'
  <2>1. \A s \in Requests : (s \in responses \/ pc'[s] \in Inserted) =>
             /\ s \in responses \/ pc[s] \in Inserted
             /\ Key(s)' = Key(s)
    BY <1>2, <1>5 DEF Key
  <2> QED BY <2>1 DEF NoClash
<1>10. TallyExact' /\ CountExact'
  BY <1>4, CountsKept
<1> QED BY <1>6, <1>7, <1>8, <1>9, <1>10

\* A transaction is rolled back: its drafts go, its key is free again.
LEMMA RollbackInv ==
    ASSUME IndInv, TypeOK', NEW r \in Requests, NEW outcome \in {"conflict", "failed"},
           pc[r] \in InTxn, Rollback(r, outcome)
    PROVE  IndInv'
<1> USE DEF IndInv, TypeOK, Goto, Rollback
<1>1. \A s \in Requests : /\ pc'[s] = IF s = r THEN outcome ELSE pc[s]
                          /\ counted'[s] = IF s = r THEN 0 ELSE counted[s]
  OBVIOUS
<1>2. \A s \in Requests : \A o \in Options : draft'[s][o] = IF s = r THEN 0 ELSE draft[s][o]
  BY DEF NoDraft
<1>3. \A s \in Requests : Chosen(s)' = Chosen(s)
  BY DEF Chosen
<1>4. (Exists' <=> Exists) /\ poll' = poll
  BY DEF Exists, pollVars
<1>5. outcome \notin Inserted /\ r \notin responses
  BY DEF StoredStages, Inserted, InTxn
<1>6. DraftsExclusive' /\ DraftsFresh'
  BY <1>1, <1>2, <1>3 DEF DraftsExclusive, DraftsFresh
<1>7. DraftsComplete'
  BY <1>1, <1>2, <1>3, ChosenOptions DEF DraftsComplete
<1>8. CountFresh' /\ PollKept' /\ StoredStages'
  BY <1>1, <1>4, <1>5 DEF CountFresh, PollKept, StoredStages
<1>9. NoClash'
  <2>1. \A s \in Requests : (s \in responses \/ pc'[s] \in Inserted) =>
             s \in responses \/ pc[s] \in Inserted
    BY <1>1, <1>5
  <2>2. \A s \in Requests : Key(s)' = Key(s)
    BY DEF Key
  <2> QED BY <2>1, <2>2 DEF NoClash
<1>10. TallyExact' /\ CountExact'
  BY <1>4, CountsKept DEF Stored
<1> QED BY <1>6, <1>7, <1>8, <1>9, <1>10

\* The response row is written: the poll is there, and no stored or written
\* row has its key.
LEMMA InsertInv ==
    ASSUME IndInv, TypeOK', NEW r \in Requests, Insert(r)
    PROVE  IndInv'
<1> USE DEF IndInv, TypeOK, Goto, Insert
<1>1. \A s \in Requests : pc'[s] = IF s = r THEN "tally" ELSE pc[s]
  OBVIOUS
<1>2. \A s \in Requests : Chosen(s)' = Chosen(s)
  BY DEF Chosen
<1>3. (Exists' <=> Exists) /\ poll' = poll
  BY DEF Exists, pollVars
<1>4. r \notin responses
  BY DEF StoredStages
<1>5. DraftsExclusive' /\ DraftsFresh' /\ DraftsComplete'
  BY <1>1, <1>2 DEF DraftsExclusive, DraftsFresh, DraftsComplete, Inserted
<1>6. CountFresh' /\ PollKept' /\ StoredStages'
  BY <1>1, <1>3, <1>4 DEF CountFresh, PollKept, StoredStages, Inserted
<1>7. NoClash'
  <2>1. \A s \in Requests : s # r /\ (s \in responses \/ pc'[s] \in Inserted) =>
             /\ s \in responses \/ pc[s] \in Inserted
             /\ ~Clash(Key(r), Key(s))
    BY <1>1 DEF Duplicate, WaitsForDuplicate
  <2>2. \A s \in Requests : Key(s)' = Key(s)
    BY DEF Key
  <2> QED BY <2>1, <2>2, ClashSymmetric DEF NoClash
<1>8. TallyExact' /\ CountExact'
  BY <1>3, CountsKept DEF Stored
<1> QED BY <1>5, <1>6, <1>7, <1>8

\* One tally row is locked and written.
LEMMA IncrementInv ==
    ASSUME IndInv, TypeOK', NEW r \in Requests, NEW o \in Options, Increment(r, o)
    PROVE  IndInv'
<1> USE DEF IndInv, TypeOK, Increment
<1>1. \A s \in Requests : \A q \in Options :
         draft'[s][q] = IF s = r /\ q = o THEN tally[o] + 1 ELSE draft[s][q]
  OBVIOUS
<1>2. \A s \in Requests : Chosen(s)' = Chosen(s)
  BY DEF Chosen
<1>3. (Exists' <=> Exists) /\ poll' = poll
  BY DEF Exists, pollVars
<1>4. \A s \in Requests : ~(draft[s][o] > 0)
  BY DEF Locked, Held
<1>5. DraftsExclusive'
  BY <1>1, <1>4 DEF DraftsExclusive
<1>6. DraftsFresh'
  BY <1>1, <1>2 DEF DraftsFresh, Inserted
<1>7. DraftsComplete'
  BY <1>1, <1>2, ChosenOptions DEF DraftsComplete
<1>8. CountFresh' /\ PollKept' /\ StoredStages'
  BY <1>3 DEF CountFresh, PollKept, StoredStages
<1>9. NoClash'
  BY DEF NoClash, Key
<1>10. TallyExact' /\ CountExact'
  BY <1>3, CountsKept DEF Stored
<1> QED BY <1>5, <1>6, <1>7, <1>8, <1>9, <1>10

\* Every chosen row has been written, or the poll's row is.
LEMMA IncrementedInv ==
    ASSUME IndInv, TypeOK', NEW r \in Requests, Incremented(r) \/ Bump(r)
    PROVE  IndInv'
<1> USE DEF IndInv, TypeOK, Goto, Incremented, Bump
<1>1. \A s \in Requests : s # r => pc'[s] = pc[s] /\ counted'[s] = counted[s]
  OBVIOUS
<1>2. /\ pc[r] \in Inserted /\ pc'[r] \in {"bump", "commit"}
      /\ pc'[r] = "commit" => PollRowFree /\ counted'[r] = poll.count + 1
  BY DEF Inserted
<1>3. \A s \in Requests : Chosen(s)' = Chosen(s)
  BY DEF Chosen
<1>4. (Exists' <=> Exists) /\ poll' = poll
  BY DEF Exists, pollVars
<1>5. DraftsExclusive' /\ DraftsFresh'
  BY <1>1, <1>2, <1>3 DEF DraftsExclusive, DraftsFresh, Inserted
<1>6. DraftsComplete'
  <2>1. \A o \in Chosen(r) : draft[r][o] > 0
    BY DEF DraftsComplete, Held
  <2> QED BY <1>1, <1>3, <2>1 DEF DraftsComplete
<1>7. CountFresh' /\ PollKept' /\ StoredStages'
  <2>1. CountFresh'
    BY <1>1, <1>2, <1>4 DEF CountFresh, PollRowFree
  <2>2. PollKept'
    BY <1>1, <1>2, <1>4 DEF PollKept
  <2>3. StoredStages'
    BY <1>1, <1>2 DEF StoredStages, Inserted
  <2> QED BY <2>1, <2>2, <2>3
<1>8. NoClash'
  <2>1. \A s \in Requests : Key(s)' = Key(s)
    BY DEF Key
  <2> QED BY <1>1, <1>2, <2>1 DEF NoClash
<1>9. TallyExact' /\ CountExact'
  BY <1>4, CountsKept DEF Stored
<1> QED BY <1>5, <1>6, <1>7, <1>8, <1>9

\* What COMMIT writes, as the ballot box sees it: the options chosen go up by
\* one and so does the total.
LEMMA CommitEffect ==
    ASSUME IndInv, NEW r \in Requests, Commit(r)
    PROVE  /\ Exists /\ Exists'
           /\ r \notin responses /\ responses' = responses \cup {r}
           /\ tally' = [o \in Options |-> IF o \in Chosen(r) THEN tally[o] + 1 ELSE tally[o]]
           /\ poll'.count = poll.count + 1
           /\ \A s \in responses : ~Clash(Key(r), Key(s))
<1> USE DEF IndInv, TypeOK, Commit
<1>1. Exists /\ Exists' /\ poll'.count = poll.count + 1
  <2>1. poll.status # "deleted" /\ counted[r] = poll.count + 1
    BY DEF PollKept, CountFresh, Inserted, Exists
  <2> QED BY <2>1 DEF Exists, PollsTypeOK, Polls
<1>2. r \notin responses
  BY DEF StoredStages
<1>3. tally' = [o \in Options |-> IF o \in Chosen(r) THEN tally[o] + 1 ELSE tally[o]]
  <2>1. \A o \in Options : o \in Held(r) <=> o \in Chosen(r)
    BY DEF DraftsFresh, DraftsComplete, Held
  <2>2. \A o \in Held(r) : draft[r][o] = tally[o] + 1
    BY DEF DraftsFresh, Held
  <2> QED BY <2>1, <2>2
<1>4. \A s \in responses : ~Clash(Key(r), Key(s))
  BY <1>2 DEF NoClash, Inserted
<1> QED BY <1>1, <1>2, <1>3, <1>4

\* COMMIT.
LEMMA CommitInv ==
    ASSUME IndInv, TypeOK', NEW r \in Requests, Commit(r)
    PROVE  IndInv'
<1> USE DEF IndInv, TypeOK
<1>1. \A s \in Requests : /\ s # r => pc'[s] = pc[s]
                          /\ pc'[r] \in {"publish", "failed"}
                          /\ counted'[s] = counted[s]
  BY DEF Commit, Goto
<1>2. \A s \in Requests : \A o \in Options : draft'[s][o] = IF s = r THEN 0 ELSE draft[s][o]
  BY DEF Commit, NoDraft
<1>3. \A s \in Requests : Chosen(s)' = Chosen(s) /\ Key(s)' = Key(s)
  BY DEF Commit, Chosen, Key
<1>4. pc[r] = "commit"
  BY DEF Commit
<1>5. DraftsExclusive'
  <2>1. DraftsExclusive
    OBVIOUS
  <2>2. ASSUME NEW s \in Requests, NEW o \in Options, draft'[s][o] > 0
        PROVE  draft[s][o] > 0
    <3>1. s # r
      BY <1>2, <2>2
    <3> QED BY <1>2, <2>2, <3>1
  <2> HIDE DEF IndInv, TypeOK
  <2> QED BY <2>1, <2>2 DEF DraftsExclusive
<1>6. DraftsFresh'
  <2> SUFFICES ASSUME NEW s \in Requests, NEW o \in Options, draft'[s][o] > 0
               PROVE  /\ pc'[s] \in Inserted
                      /\ o \in Chosen(s)
                      /\ draft'[s][o] = tally'[o] + 1
    BY <1>3 DEF DraftsFresh
  <2>1. s # r /\ draft[s][o] > 0
    BY <1>2
  <2>2. o \notin Chosen(r)
    BY <1>4, <2>1 DEF DraftsComplete, DraftsExclusive
  <2>3. tally'[o] = tally[o]
    BY <2>2, CommitEffect
  <2> QED BY <1>1, <1>2, <2>1, <2>3 DEF DraftsFresh
<1>7. DraftsComplete'
  <2>1. DraftsComplete /\ \A s \in Requests : Chosen(s) \subseteq Options
    BY ChosenOptions
  <2>2. \A s \in Requests : pc'[s] \in {"bump", "commit"} => s # r /\ pc'[s] = pc[s]
    BY <1>1
  <2> HIDE DEF IndInv, TypeOK
  <2> QED BY <1>2, <1>3, <2>1, <2>2 DEF DraftsComplete
<1>8. CountFresh' /\ PollKept' /\ StoredStages'
  <2>1. \A s \in Requests : s # r => pc[s] # "commit"
    BY <1>4 DEF CountFresh
  <2>2. CountFresh'
    BY <1>1, <2>1 DEF CountFresh
  <2>3. PollKept'
    BY CommitEffect DEF PollKept
  <2>4. StoredStages'
    BY <1>1, CommitEffect DEF StoredStages
  <2> QED BY <2>2, <2>3, <2>4
<1>9. NoClash'
  <2>1. responses' = responses \cup {r} /\ pc[r] \in Inserted
    BY <1>4, CommitEffect DEF Inserted
  <2>2. \A s \in Requests : s \in responses' \/ pc'[s] \in Inserted =>
             s \in responses \/ pc[s] \in Inserted
    BY <1>1, <2>1
  <2> QED BY <1>3, <2>2 DEF NoClash
<1>10. TallyExact'
  <2>1. /\ Exists /\ r \notin responses /\ responses' = responses \cup {r}
        /\ tally' = [o \in Options |->
                        IF o \in Chosen(r) THEN tally[o] + 1 ELSE tally[o]]
    BY CommitEffect
  <2>2. TallyExact /\ responses \subseteq Requests
    OBVIOUS
  <2> HIDE DEF IndInv, TypeOK
  <2> SUFFICES ASSUME NEW o \in Options
               PROVE  tally'[o] = Cardinality({s \in responses' : o \in Chosen(s)'})
    BY DEF TallyExact
  <2> DEFINE C == {s \in responses : o \in Chosen(s)}
             D == {s \in responses' : o \in Chosen(s)}
  <2>3. {s \in responses' : o \in Chosen(s)'} = D
    BY <1>3, <2>1, <2>2
  <2>4. tally[o] = Cardinality(C)
    BY <2>1, <2>2 DEF TallyExact
  <2>5. CASE o \in Chosen(r)
    <3>1. D = C \cup {r} /\ r \notin C /\ C \in SUBSET Requests
      BY <2>1, <2>2, <2>5
    <3>2. Cardinality(D) = Cardinality(C) + 1
      BY <3>1, RequestSets
    <3>3. tally'[o] = tally[o] + 1
      BY <2>1, <2>5
    <3> HIDE DEF C, D
    <3> QED BY <2>3, <2>4, <3>2, <3>3
  <2>6. CASE o \notin Chosen(r)
    <3>1. D = C
      BY <2>1, <2>6
    <3>2. tally'[o] = tally[o]
      BY <2>1, <2>6
    <3> HIDE DEF C, D
    <3> QED BY <2>3, <2>4, <3>1, <3>2
  <2> QED BY <2>5, <2>6
<1>11. CountExact'
  <2>1. Cardinality(responses \cup {r}) = Cardinality(responses) + 1
    BY CommitEffect, RequestSets
  <2> QED BY <2>1, CommitEffect DEF CountExact
<1> QED BY <1>5, <1>6, <1>7, <1>8, <1>9, <1>10, <1>11

\* The owner's side leaves the stored rows, the count and the requests alone.
LEMMA OwnerStepInv ==
    ASSUME IndInv, OwnerStep
    PROVE  IndInv'
<1>1. TypeOK' /\ poll'.count = poll.count /\ (Exists' <=> Exists)
  BY OwnerStepType DEF IndInv
<1>2. UNCHANGED requestVars
  BY DEF OwnerStep
<1>3. DraftsExclusive' /\ DraftsFresh' /\ DraftsComplete'
  BY <1>2 DEF IndInv, requestVars, DraftsExclusive, DraftsFresh, DraftsComplete, Chosen
<1>4. CountFresh' /\ PollKept' /\ StoredStages' /\ NoClash'
  BY <1>1, <1>2 DEF IndInv, requestVars, CountFresh, PollKept, StoredStages, NoClash, Key
<1>5. TallyExact' /\ CountExact'
  BY <1>1, <1>2, CountsKept DEF IndInv, requestVars, Stored
<1> QED BY <1>1, <1>3, <1>4, <1>5 DEF IndInv

\* With the poll gone there is nothing to count, and no vote had its row
\* written when it went.
LEMMA OwnerDeleteInv ==
    ASSUME IndInv, NEW a \in Actors, OwnerDelete(a)
    PROVE  IndInv'
<1>1. TypeOK' /\ ~Exists'
  BY OwnerDeleteType DEF IndInv
<1>2. /\ UNCHANGED <<pc, draft, ballot>>
      /\ responses' = {}
      /\ \A r \in Requests : pc[r] \notin Inserted
  BY DEF OwnerDelete
<1>3. \A r \in Requests : \A o \in Options : ~(draft[r][o] > 0)
  BY <1>2 DEF IndInv, DraftsFresh
<1>4. DraftsExclusive' /\ DraftsFresh' /\ DraftsComplete'
  BY <1>2, <1>3 DEF DraftsExclusive, DraftsFresh, DraftsComplete, Inserted
<1>5. CountFresh' /\ PollKept' /\ StoredStages' /\ NoClash'
  BY <1>2 DEF CountFresh, PollKept, StoredStages, NoClash, Inserted
<1>6. TallyExact' /\ CountExact'
  BY <1>1 DEF TallyExact, CountExact
<1> QED BY <1>1, <1>4, <1>5, <1>6 DEF IndInv

\* A crash rolls back every open transaction and stores nothing.
LEMMA CrashInv ==
    ASSUME IndInv, Crash
    PROVE  IndInv'
<1>1. TypeOK' /\ poll' = poll
  BY CrashType DEF IndInv
<1>2. /\ UNCHANGED <<who, ballot, rules, responses, tally>>
      /\ \A r \in Requests : /\ pc'[r] \notin Inserted
                             /\ pc[r] \in {"publish", "created", "failed"} =>
                                    pc'[r] \in {"publish", "created", "failed"}
  BY DEF Crash, Inserted, Finals, IndInv, TypeOK
<1>3. \A r \in Requests : \A o \in Options : ~(draft'[r][o] > 0)
  BY DEF Crash, NoDraft
<1>4. DraftsExclusive' /\ DraftsFresh' /\ DraftsComplete'
  BY <1>2, <1>3 DEF DraftsExclusive, DraftsFresh, DraftsComplete, Inserted
<1>5. CountFresh' /\ PollKept' /\ StoredStages'
  BY <1>2 DEF IndInv, TypeOK, CountFresh, PollKept, StoredStages, Inserted
<1>6. NoClash'
  BY <1>2 DEF IndInv, NoClash, Key
<1>7. TallyExact' /\ CountExact'
  BY <1>1, <1>2, CountsKept DEF IndInv, Stored, Exists
<1> QED BY <1>1, <1>4, <1>5, <1>6, <1>7 DEF IndInv

\* Every step of a request keeps the invariant.
LEMMA RequestInv ==
    ASSUME IndInv, NEW r \in Requests, Progress(r) \/ Break(r)
    PROVE  IndInv'
<1>1. TypeOK'
  BY RequestType DEF IndInv
<1>2. IndInv /\ pc \in [Requests -> Stages] /\ rules \in [Requests -> Modes \cup {Null}]
  BY DEF IndInv, TypeOK
<1> USE DEF Stored, Written, pollVars, Stages, Inserted
<1>3. CASE Read(r)
  <2> DEFINE stage == IF Accepting /\ IdentityOK(r) THEN "limit" ELSE "refused"
  <2>1. Goto(r, stage) /\ stage \in Stages
    BY <1>3 DEF Read
  <2>2. \A s \in Requests \ {r} : rules'[s] = rules[s]
    BY <1>2, <1>3 DEF Read
  <2> QED BY <1>1, <1>2, <1>3, <2>1, <2>2, QuietRequest DEF Read
<1>4. CASE Limit(r)
  <2>1. PICK stage \in {"refused", "claim", "begin"} : Goto(r, stage)
    BY <1>4 DEF Limit
  <2> QED BY <1>1, <1>2, <1>4, <2>1, QuietRequest DEF Limit
<1>5. CASE Claim(r)
  <2>1. PICK stage \in {"refused", "begin"} : Goto(r, stage)
    BY <1>5 DEF Claim
  <2> QED BY <1>1, <1>2, <1>5, <2>1, QuietRequest DEF Claim
<1>6. CASE Connect(r)
  BY <1>1, <1>2, <1>6, QuietRequest DEF Connect
<1>7. CASE Answer(r)
  <2>1. PICK stage \in {"created", "failed"} : Goto(r, stage)
    BY <1>7 DEF Answer
  <2> QED BY <1>1, <1>2, <1>7, <2>1, QuietRequest DEF Answer
<1>8. CASE Refuse(r)
  BY <1>1, <1>2, <1>8, QuietRequest DEF Refuse
<1>9. CASE ConnectTimeout(r)
  BY <1>1, <1>2, <1>9, QuietRequest DEF ConnectTimeout
<1>12. CASE StatementFails(r)
  <2>1. PICK stage \in {"dropped", "failed"} : Goto(r, stage)
    BY <1>12 DEF StatementFails
  <2> QED BY <1>1, <1>2, <1>12, <2>1, QuietRequest DEF StatementFails
<1>10. CASE AlreadyResponded(r) \/ PollGone(r)
  <2>1. pc[r] \in InTxn /\ \E outcome \in {"conflict", "failed"} : Rollback(r, outcome)
    BY <1>10 DEF AlreadyResponded, PollGone, InTxn
  <2> QED BY <1>1, <1>2, <2>1, RollbackInv
<1>11. CASE DeadlockVictim(r) \/ ConnectionLost(r)
  <2>1. pc[r] \in InTxn /\ Rollback(r, "failed")
    BY <1>11 DEF DeadlockVictim, Deadlocked, Waits, ConnectionLost, InTxn
  <2> QED BY <1>1, <1>2, <2>1, RollbackInv
<1> QED
  BY <1>1, <1>2, <1>3, <1>4, <1>5, <1>6, <1>7, <1>8, <1>9, <1>10, <1>11, <1>12,
     InsertInv, IncrementInv, IncrementedInv, CommitInv DEF Progress, Break

\* The invariant holds at the start.
LEMMA InvInit == Init => IndInv
<1> SUFFICES ASSUME Init PROVE IndInv
  OBVIOUS
<1>1. TypeOK
  BY TypeInit
<1>2. /\ pc = [r \in Requests |-> "idle"]
      /\ draft = [r \in Requests |-> NoDraft]
      /\ responses = {}
      /\ tally = [o \in Options |-> 0]
  BY DEF Init, RequestInit
<1>3. DraftsExclusive /\ DraftsFresh /\ DraftsComplete
  BY <1>2 DEF DraftsExclusive, DraftsFresh, DraftsComplete, NoDraft
<1>4. CountFresh /\ PollKept /\ StoredStages /\ NoClash
  BY <1>2 DEF CountFresh, PollKept, StoredStages, NoClash, Inserted
<1>5. TallyExact
  <2>1. \A o \in Options : {r \in responses : o \in Chosen(r)} = {}
    BY <1>2
  <2> QED BY <1>2, <2>1, FS_EmptySet DEF TallyExact
<1>6. CountExact
  <2>1. poll.count = 0
    BY DEF Init, OpenPolls, NewPolls
  <2> QED BY <1>2, <2>1, FS_EmptySet DEF CountExact
<1> QED BY <1>1, <1>3, <1>4, <1>5, <1>6 DEF IndInv

\* Every step of the system keeps the invariant.
LEMMA InvStep == IndInv /\ [Next]_vars => IndInv'
<1> SUFFICES ASSUME IndInv, [Next]_vars PROVE IndInv'
  OBVIOUS
<1>1. CASE UNCHANGED vars
  <2>1. UNCHANGED requestVars /\ poll' = poll /\ TypeOK'
    BY <1>1, TypeStep DEF vars, pollVars, IndInv
  <2>2. (DraftsExclusive /\ DraftsFresh /\ DraftsComplete)'
    BY <2>1 DEF IndInv, requestVars, DraftsExclusive, DraftsFresh, DraftsComplete, Chosen
  <2>3. (CountFresh /\ PollKept /\ StoredStages /\ NoClash)'
    BY <2>1 DEF IndInv, requestVars, CountFresh, PollKept, StoredStages, NoClash, Key, Exists
  <2>4. TallyExact' /\ CountExact'
    BY <2>1, CountsKept DEF IndInv, requestVars, Stored, Exists
  <2> QED BY <2>1, <2>2, <2>3, <2>4 DEF IndInv
<1>2. CASE AllDone
  BY <1>1, <1>2 DEF AllDone
<1> QED
  BY <1>1, <1>2, RequestInv, OwnerStepInv, OwnerDeleteInv, CrashInv DEF Next

\* The inductive invariant holds in every reachable state.
THEOREM Invariant == Spec => []IndInv
BY InvInit, InvStep, PTL DEF Spec

\* A counted vote is a stored vote, and a stored vote is counted, once for each
\* option it chose.
THEOREM TallyAlwaysExact == Spec => []TallyExact
<1>1. IndInv => TallyExact
  BY DEF IndInv
<1> QED BY <1>1, Invariant, PTL

\* No identity has two stored responses, under whatever mode each was
\* submitted and however often the mode was changed between them.
THEOREM OneBallotPerIdentityHolds == Spec => []OneBallotPerIdentity
<1>1. IndInv => OneBallotPerIdentity
  BY DEF IndInv, TypeOK, NoClash, OneBallotPerIdentity
<1> QED BY <1>1, Invariant, PTL

-----------------------------------------------------------------------------
(***************************************************************************)
(* The ballot box.  A vote is cast by its COMMIT, identified when it reads *)
(* the poll, and the box is thrown away by the DELETE; nothing else shows. *)
(***************************************************************************)
BoxView == <<ballot, rules, who, responses, tally>>

\* A step that leaves what the box shows alone is a stutter of the box.
LEMMA BoxStutter ==
    ASSUME UNCHANGED BoxView, poll'.count = poll.count, Exists' <=> Exists
    PROVE  UNCHANGED Box!boxVars
<1>1. \A r : Chosen(r)' = Chosen(r) /\ Key(r)' = Key(r)
  BY DEF BoxView, Chosen, Key
<1>2. Choices' = Choices /\ Keys' = Keys
  BY <1>1 DEF Choices, Keys
<1>3. Exists' = Exists /\ ResponseCount' = ResponseCount
  BY DEF Exists, ResponseCount
<1> QED BY <1>2, <1>3 DEF BoxView, Box!boxVars

\* The first states agree.
LEMMA BoxStart == Init => Box!BoxInit
<1> SUFFICES ASSUME Init PROVE Box!BoxInit
  OBVIOUS
<1>1. Choices \in [Requests -> SUBSET Options]
  BY ChosenOptions DEF Choices, Init, RequestInit
<1>2. Exists = TRUE /\ ResponseCount = 0
  BY DEF Exists, ResponseCount, Init, OpenPolls, NewPolls
<1> QED BY <1>1, <1>2 DEF Box!BoxInit, Init, RequestInit

\* A request's step is an Identify, a Cast or nothing.
LEMMA RequestBox ==
    ASSUME IndInv, NEW r \in Requests, Progress(r) \/ Break(r)
    PROVE  [Box!BoxNext]_(Box!boxVars)
<1>1. CASE Read(r)
  <2>1. r \notin responses
    BY <1>1 DEF IndInv, StoredStages, Read
  <2>2. \A s \in Requests \ {r} : Keys'[s] = Keys[s]
    BY <1>1 DEF IndInv, TypeOK, Read, Keys, Key
  <2>3. Choices' = Choices /\ Exists' = Exists /\ ResponseCount' = ResponseCount
    BY <1>1 DEF Read, Choices, Chosen, Exists, ResponseCount, pollVars
  <2>4. Box!Identify(r)
    BY <1>1, <2>1, <2>2, <2>3 DEF Box!Identify, Read
  <2> QED BY <2>4 DEF Box!BoxNext
<1>2. CASE Commit(r)
  <2>1. UNCHANGED <<ballot, rules, who>>
    BY <1>2 DEF Commit
  <2>2. Choices' = Choices /\ Keys' = Keys
    BY <2>1 DEF Choices, Keys, Chosen, Key
  <2>3. /\ r \notin responses /\ responses' = responses \cup {r}
        /\ tally' = [o \in Options |-> IF o \in Choices[r] THEN tally[o] + 1 ELSE tally[o]]
        /\ ResponseCount' = ResponseCount + 1
        /\ Exists /\ Exists' = Exists
    <3>1. Choices[r] = Chosen(r) /\ (Exists /\ Exists' => Exists' = Exists)
      BY DEF Choices, Exists
    <3> QED BY <1>2, <3>1, CommitEffect DEF ResponseCount
  <2>4. \A s \in responses : ~Clash(Keys[r], Keys[s])
    BY <1>2, CommitEffect DEF Keys, IndInv, TypeOK
  <2>5. Box!Cast(r)
    BY <2>2, <2>3, <2>4 DEF Box!Cast
  <2> QED BY <2>5 DEF Box!BoxNext
<1>3. CASE ~Read(r) /\ ~Commit(r)
  <2>1. UNCHANGED BoxView /\ poll' = poll
    BY <1>3 DEF Progress, Break, BoxView, pollVars, Rollback, Limit, Claim, Connect, Insert,
       AlreadyResponded, PollGone, Increment, Incremented, Bump, DeadlockVictim, Answer,
       Refuse, StatementFails, ConnectTimeout, ConnectionLost
  <2> QED BY <2>1, BoxStutter DEF Exists
<1> QED BY <1>1, <1>2, <1>3

\* When the poll has gone, so have its responses, its tally and its count.
GoneIsEmpty ==
    ~Exists => /\ responses = {}
               /\ tally = [o \in Options |-> 0]
               /\ poll.count = 0

\* The step a COMMIT takes needs the poll; the DELETE empties everything; and
\* nothing else touches the stored rows or brings a poll back.
LEMMA GoneStep ==
    ASSUME IndInv, GoneIsEmpty, [Next]_vars
    PROVE  GoneIsEmpty'
<1>1. ASSUME UNCHANGED <<responses, tally>>, poll'.count = poll.count, Exists' <=> Exists
      PROVE  GoneIsEmpty'
  BY <1>1 DEF GoneIsEmpty
<1>2. ASSUME NEW r \in Requests, Progress(r) \/ Break(r)
      PROVE  GoneIsEmpty'
  <2>1. CASE Commit(r)
    BY <2>1, CommitEffect DEF GoneIsEmpty
  <2>2. CASE ~Commit(r)
    <3>1. UNCHANGED <<responses, tally>> /\ poll' = poll
      BY <1>2, <2>2 DEF Progress, Break, pollVars, Rollback, Read, Limit, Claim, Connect,
         Insert, AlreadyResponded, PollGone, Increment, Incremented, Bump, DeadlockVictim,
         Answer, Refuse, StatementFails, ConnectTimeout, ConnectionLost
    <3> QED BY <1>1, <3>1 DEF Exists
  <2> QED BY <2>1, <2>2
<1>3. CASE OwnerStep
  BY <1>1, <1>3, OwnerStepType DEF IndInv, OwnerStep, requestVars
<1>4. ASSUME NEW a \in Actors, OwnerDelete(a)
      PROVE  GoneIsEmpty'
  BY <1>4, OwnerDeleteType DEF IndInv, GoneIsEmpty, OwnerDelete
<1>5. CASE Crash
  BY <1>1, <1>5, CrashType DEF IndInv, Crash, Exists
<1>6. CASE UNCHANGED vars
  BY <1>1, <1>6 DEF vars, pollVars, requestVars, Exists
<1> QED BY <1>2, <1>3, <1>4, <1>5, <1>6 DEF Next, AllDone

\* The owner's DELETE throws the box away; a second one finds nothing.
LEMMA OwnerDeleteBox ==
    ASSUME IndInv, GoneIsEmpty, NEW a \in Actors, OwnerDelete(a)
    PROVE  [Box!BoxNext]_(Box!boxVars)
<1>1. ~Exists' /\ poll'.count = 0 /\ UNCHANGED <<ballot, rules, who>>
  BY OwnerDeleteType DEF IndInv, OwnerDelete
<1>2. responses' = {} /\ tally' = [o \in Options |-> 0]
  BY DEF OwnerDelete
<1>3. Choices' = Choices /\ Keys' = Keys
  BY <1>1 DEF Choices, Keys, Chosen, Key
<1>4. CASE Exists
  <2>1. Exists' = FALSE /\ ResponseCount' = 0
    BY <1>1 DEF Exists, ResponseCount
  <2>2. Box!Discard
    BY <1>2, <1>3, <1>4, <2>1 DEF Box!Discard
  <2> QED BY <2>2 DEF Box!BoxNext
<1>5. CASE ~Exists
  <2>1. responses' = responses /\ tally' = tally /\ poll'.count = poll.count
    BY <1>1, <1>2, <1>5 DEF GoneIsEmpty
  <2> QED BY <1>1, <1>5, <2>1, BoxStutter DEF BoxView
<1> QED BY <1>4, <1>5

\* Every step of the system is a step of the box, or none.
LEMMA BoxStep ==
    ASSUME IndInv, GoneIsEmpty, [Next]_vars
    PROVE  [Box!BoxNext]_(Box!boxVars)
<1>1. CASE OwnerStep
  BY <1>1, OwnerStepType, BoxStutter DEF IndInv, OwnerStep, requestVars, BoxView
<1>2. CASE Crash
  BY <1>2, CrashType, BoxStutter DEF IndInv, Crash, BoxView, Exists
<1>3. CASE UNCHANGED vars
  BY <1>3, BoxStutter DEF vars, pollVars, requestVars, BoxView, Exists
<1> QED BY <1>1, <1>2, <1>3, RequestBox, OwnerDeleteBox DEF Next, AllDone

\* Voting implements the ballot box: a ballot goes in whole and once, under an
\* identity nobody else in the box has, and the counts advance with it.
THEOREM Refinement == Spec => ImplementsBox
<1>1. Init => GoneIsEmpty
  BY BoxStart DEF Box!BoxInit, ResponseCount, GoneIsEmpty
<1>2. IndInv /\ GoneIsEmpty /\ [Next]_vars => GoneIsEmpty'
  BY GoneStep
<1>3. IndInv /\ GoneIsEmpty /\ [Next]_vars => [Box!BoxNext]_(Box!boxVars)
  BY BoxStep
<1> QED BY <1>1, <1>2, <1>3, Invariant, BoxStart, PTL DEF Spec, ImplementsBox, Box!BoxSpec

-----------------------------------------------------------------------------
(***************************************************************************)
(* What submissions are told and what it costs them: the properties that   *)
(* rest on IndInv and on the codes, attempts and totals of the requests.   *)
(* Each part of AnswersInd is shown to survive every step on its own.      *)
(***************************************************************************)

(***************************************************************************)
(* What every step has in common.                                          *)
(***************************************************************************)
\* The shape of a step of one request.
LEMMA RequestFacts ==
    ASSUME TypeOK, NEW r \in Requests, Progress(r) \/ Break(r)
    PROVE  /\ UNCHANGED <<who, ballot>> /\ (Exists' <=> Exists)
           /\ responses \subseteq responses' /\ responses' \subseteq responses \cup {r}
           /\ used \subseteq used'
           /\ \A s \in Requests \ {r} : /\ pc'[s] = pc[s] /\ rules'[s] = rules[s]
                                        /\ claimed'[s] = claimed[s] /\ counted'[s] = counted[s]
           /\ pc[r] # "idle" => rules'[r] = rules[r]
<1> USE DEF TypeOK, pollVars, Goto, Exists
<1>1. CASE Read(r)
  BY <1>1 DEF Read
<1>2. CASE Limit(r) \/ Refuse(r)
  BY <1>2 DEF Limit, Refuse
<1>3. CASE Claim(r)
  BY <1>3 DEF Claim
<1>4. CASE StatementFails(r) \/ Connect(r) \/ ConnectTimeout(r) \/ Insert(r)
  BY <1>4 DEF StatementFails, Connect, ConnectTimeout, Insert
<1>5. CASE \E outcome \in Stages : Rollback(r, outcome)
  BY <1>5 DEF Rollback
<1>6. CASE AlreadyResponded(r) \/ PollGone(r) \/ DeadlockVictim(r) \/ ConnectionLost(r)
  BY <1>5, <1>6 DEF AlreadyResponded, PollGone, DeadlockVictim, ConnectionLost, Stages
<1>7. CASE Incremented(r) \/ \E o \in Options : Increment(r, o)
  BY <1>7 DEF Incremented, Increment
<1>8. CASE Bump(r)
  BY <1>8 DEF Bump
<1>9. CASE Commit(r)
  <2>1. poll'.status = poll.status
    BY <1>9 DEF Commit, PollsTypeOK, Polls
  <2> QED BY <1>9, <2>1 DEF Commit
<1>10. CASE Answer(r)
  BY <1>10 DEF Answer
<1> QED
  BY <1>1, <1>2, <1>3, <1>4, <1>6, <1>7, <1>8, <1>9, <1>10 DEF Progress, Break

\* The shape of a step of the owner's side or of nobody.
LEMMA OwnerFacts ==
    ASSUME TypeOK, OwnerStep \/ UNCHANGED vars
    PROVE  UNCHANGED requestVars /\ (Exists' <=> Exists) /\ poll'.count = poll.count
BY OwnerStepType DEF OwnerStep, vars, pollVars, Exists

LEMMA CrashFacts ==
    ASSUME TypeOK, Crash
    PROVE  /\ UNCHANGED <<who, ballot, rules, tries, used, claimed, responses, notified>>
           /\ UNCHANGED poll
           /\ \A r \in Requests :
                 /\ pc'[r] = IF pc[r] \in Finals \cup {"idle"} THEN pc[r]
                             ELSE IF pc[r] = "limit" THEN "dropped" ELSE "failed"
                 /\ counted'[r] = IF pc[r] \in InTxn THEN 0 ELSE counted[r]
BY CrashType DEF Crash

LEMMA DeleteFacts ==
    ASSUME TypeOK, NEW a \in Actors, OwnerDelete(a)
    PROVE  /\ UNCHANGED <<who, ballot, pc, rules, tries, claimed, counted, notified>>
           /\ responses' = {} /\ used' = {} /\ ~Exists'
BY OwnerDeleteType DEF OwnerDelete, Delete

-----------------------------------------------------------------------------
(***************************************************************************)
(* Answers.                                                                *)
(***************************************************************************)
LEMMA AnswerStep ==
    ASSUME IndInv, IndInv', AnswerIsTrue, [Next]_vars
    PROVE  AnswerIsTrue'
<1> USE DEF AnswerIsTrue
<1>1. \A r \in Requests : pc'[r] \in {"refused", "conflict"} => r \notin responses'
  BY DEF IndInv, StoredStages
<1>2. SUFFICES ASSUME NEW r \in Requests, pc'[r] \in {"publish", "created"}, Exists'
               PROVE  r \in responses'
  BY <1>1
<1>3. ASSUME NEW s \in Requests, Progress(s) \/ Break(s)
      PROVE  r \in responses'
  <2>1. responses \subseteq responses' /\ Exists
    BY <1>2, <1>3, RequestFacts DEF IndInv
  <2>2. CASE pc[r] \in {"publish", "created"}
    BY <2>1, <2>2
  <2>3. CASE pc[r] \notin {"publish", "created"}
    <3>1. r = s
      BY <1>2, <1>3, <2>3, RequestFacts DEF IndInv
    <3>2. pc'[r] \in {"publish", "created"} => Commit(r)
      BY <1>3, <2>3, <3>1 DEF Progress, Break, Goto, IndInv, TypeOK, Read, Limit, Refuse,
         Claim, StatementFails, Connect, ConnectTimeout, Insert, AlreadyResponded, PollGone, Rollback,
         DeadlockVictim, ConnectionLost, Incremented, Increment, Bump, Answer
    <3> QED BY <1>2, <3>2 DEF Commit
  <2> QED BY <2>2, <2>3
<1>4. CASE Crash
  BY <1>2, <1>4, CrashFacts DEF IndInv, Exists, Finals
<1>5. CASE OwnerStep \/ UNCHANGED vars
  BY <1>2, <1>5, OwnerFacts DEF IndInv, requestVars
<1>6. ASSUME NEW a \in Actors, OwnerDelete(a)
      PROVE  FALSE
  BY <1>2, <1>6, DeleteFacts DEF IndInv
<1> QED BY <1>3, <1>4, <1>5, <1>6 DEF Next, AllDone

\* A stored response keeps the key it was stored under.
LEMMA KeysKept ==
    ASSUME IndInv, IndInv', [Next]_vars, NEW r \in Requests, pc[r] # "idle"
    PROVE  Key(r)' = Key(r)
<1>1. rules'[r] = rules[r] /\ who' = who
  <2>1. ASSUME NEW s \in Requests, Progress(s) \/ Break(s)
        PROVE  rules'[r] = rules[r] /\ who' = who
    BY <2>1, RequestFacts DEF IndInv
  <2> QED BY <2>1, CrashFacts, OwnerFacts, DeleteFacts DEF Next, AllDone, IndInv, requestVars
<1> QED BY <1>1 DEF Key

\* Whoever is told of a conflict has had one with a stored response, and that
\* stays as long as the poll does.
LEMMA ConflictStep ==
    ASSUME IndInv, IndInv', ConflictMeansCounted, [Next]_vars
    PROVE  ConflictMeansCounted'
<1> SUFFICES ASSUME NEW r \in Requests, pc'[r] = "conflict", Exists'
             PROVE  Duplicate(r)'
  BY DEF ConflictMeansCounted
<1>1. ASSUME Duplicate(r), responses \subseteq responses', pc[r] # "idle"
      PROVE  Duplicate(r)'
  <2>1. PICK s \in responses : Clash(Key(r), Key(s))
    BY <1>1 DEF Duplicate
  <2>2. s \in Requests /\ pc[s] # "idle"
    BY <2>1 DEF IndInv, TypeOK, StoredStages
  <2>3. Key(r)' = Key(r) /\ Key(s)' = Key(s)
    BY <1>1, <2>2, KeysKept
  <2>4. Clash(Key(r)', Key(s)')
    BY <2>1, <2>3
  <2> QED BY <1>1, <2>1, <2>4 DEF Duplicate, Clash
<1>2. ASSUME NEW s \in Requests, Progress(s) \/ Break(s)
      PROVE  Duplicate(r)'
  <2>1. responses \subseteq responses' /\ Exists
    BY <1>2, RequestFacts DEF IndInv
  <2>2. CASE pc[r] = "conflict"
    BY <1>1, <2>1, <2>2 DEF ConflictMeansCounted
  <2>3. CASE pc[r] # "conflict"
    <3>1. r = s
      BY <1>2, <2>3, RequestFacts DEF IndInv
    <3>2. AlreadyResponded(r)
      BY <1>2, <2>3, <3>1 DEF Progress, Break, Goto, IndInv, TypeOK, Read, Limit, Refuse,
         Claim, StatementFails, Connect, ConnectTimeout, Insert, PollGone, Rollback, Commit,
         DeadlockVictim, ConnectionLost, Incremented, Increment, Bump, Answer
    <3> QED BY <1>1, <2>1, <3>2 DEF AlreadyResponded
  <2> QED BY <2>2, <2>3
<1>3. CASE Crash
  BY <1>1, <1>3, CrashFacts DEF IndInv, Exists, Finals, ConflictMeansCounted
<1>4. CASE OwnerStep \/ UNCHANGED vars
  BY <1>1, <1>4, OwnerFacts DEF IndInv, requestVars, ConflictMeansCounted
<1>5. ASSUME NEW a \in Actors, OwnerDelete(a)
      PROVE  FALSE
  BY <1>5, DeleteFacts DEF IndInv
<1> QED BY <1>2, <1>3, <1>4, <1>5 DEF Next, AllDone

-----------------------------------------------------------------------------
(***************************************************************************)
(* Invite codes.                                                           *)
(***************************************************************************)
\* Under an invitation no column of the key is set, so it clashes with none.
LEMMA InvitedNeverClash ==
    ASSUME NEW r \in Requests, rules[r] = "invite_code"
    PROVE  ~Duplicate(r)
BY DEF Duplicate, Clash, Key, DedupKeys

\* A request that has not been let in has claimed nothing, and stays so when it
\* is turned away.
LEMMA CodesRequest ==
    ASSUME IndInv, CodesFollow, CodeSpentOnce, NEW r \in Requests, Progress(r) \/ Break(r)
    PROVE  CodesFollow' /\ CodeSpentOnce'
<1> USE DEF CodesFollow, CodeSpentOnce
<1>1. TypeOK
  BY DEF IndInv
<1>2. /\ \A s \in Requests \ {r} : /\ pc'[s] = pc[s] /\ rules'[s] = rules[s]
                                   /\ claimed'[s] = claimed[s]
      /\ used \subseteq used' /\ (Exists' <=> Exists)
  BY <1>1, RequestFacts
<1> DEFINE Takes == /\ pc[r] = "claim" /\ Claimable(who[r].code)
                    /\ rules' = rules
                    /\ used' = used \cup {who[r].code}
                    /\ claimed' = [claimed EXCEPT ![r] = who[r].code]
                    /\ pc'[r] \in {"begin", "failed"}
<1>3. CASE Takes
  <2>1. claimed[r] = Null /\ rules[r] = "invite_code"
    BY <1>3
  <2>2. claimed'[r] = who[r].code
    BY <1>1, <1>3 DEF TypeOK
  <2>3. \A s \in Requests : claimed[s] # Null => claimed[s] # who[r].code
    BY <1>3 DEF Claimable
  <2>4. who[r].code # Null
    BY <1>3, VotingAssumption DEF Claimable
  <2> QED BY <1>2, <1>3, <2>1, <2>2, <2>3, <2>4
<1>4. CASE ~Takes
  <2>5. CASE Claim(r) \/ StatementFails(r)
    <3>1. claimed' = claimed /\ rules' = rules
      BY <1>1, <1>4, <2>5 DEF Claim, StatementFails, Goto, TypeOK
    <3>2. claimed[r] = Null /\ pc'[r] # "claim"
      BY <1>1, <2>5 DEF Claim, StatementFails, Goto, TypeOK
    <3> QED BY <1>2, <3>1, <3>2
  <2>6. CASE ~Claim(r) /\ ~StatementFails(r)
    <3>1. claimed' = claimed
      BY <2>6 DEF Progress, Break, Read, Limit, Refuse, Connect, ConnectTimeout, Insert,
         AlreadyResponded, PollGone, Rollback, DeadlockVictim, ConnectionLost, Incremented,
         Increment, Bump, Commit, Answer
    <3>2. ASSUME claimed[r] # Null
          PROVE  pc'[r] \notin {"idle", "limit", "claim", "refused", "conflict"}
      <4>1. rules[r] = "invite_code" /\ pc[r] \notin {"idle", "limit", "claim", "refused", "conflict"}
        BY <3>2
      <4>2. ~AlreadyResponded(r)
        BY <4>1, InvitedNeverClash DEF AlreadyResponded
      <4> QED
        BY <1>1, <2>6, <4>1, <4>2 DEF Progress, Break, Goto, TypeOK, Read, Limit, Refuse,
           Connect, ConnectTimeout, Insert, PollGone, Rollback, DeadlockVictim, ConnectionLost,
           Incremented, Increment, Bump, Commit, Answer
    <3>3. pc'[r] = "claim" => rules'[r] = "invite_code"
      BY <1>1, <2>6 DEF Progress, Break, Goto, TypeOK, Read, Limit, Refuse, Connect,
         ConnectTimeout, Insert, AlreadyResponded, PollGone, Rollback, DeadlockVictim,
         ConnectionLost, Incremented, Increment, Bump, Commit, Answer
    <3>4. claimed[r] # Null => rules'[r] = rules[r]
      BY <1>1, RequestFacts
    <3> QED BY <1>2, <3>1, <3>2, <3>3, <3>4
  <2> QED BY <2>5, <2>6
<1> QED BY <1>3, <1>4

LEMMA CodesStep ==
    ASSUME IndInv, CodesFollow, CodeSpentOnce, [Next]_vars
    PROVE  CodesFollow' /\ CodeSpentOnce'
<1> USE DEF CodesFollow, CodeSpentOnce
<1>1. TypeOK
  BY DEF IndInv
<1>2. CASE Crash
  BY <1>1, <1>2, CrashFacts DEF Exists, Finals, TypeOK
<1>3. CASE OwnerStep \/ UNCHANGED vars
  BY <1>1, <1>3, OwnerFacts DEF requestVars
<1>4. ASSUME NEW a \in Actors, OwnerDelete(a)
      PROVE  CodesFollow' /\ CodeSpentOnce'
  BY <1>1, <1>4, DeleteFacts
<1> QED BY <1>2, <1>3, <1>4, CodesRequest DEF Next, AllDone

-----------------------------------------------------------------------------
(***************************************************************************)
(* Attempts.                                                               *)
(***************************************************************************)
LEMMA AdmittedSets ==
    ASSUME NEW i
    PROVE  /\ Admitted(i) \in SUBSET Requests /\ Admitted(i)' \in SUBSET Requests
           /\ IsFiniteSet(Admitted(i)) /\ Cardinality(Admitted(i)) \in Nat
           /\ Cardinality(Admitted(i)') \in Nat
<1>1. Admitted(i) \in SUBSET Requests /\ Admitted(i)' \in SUBSET Requests
  BY DEF Admitted
<1> QED BY <1>1, RequestSets

\* A step that lets nobody in and forgets no attempt.
LEMMA NobodyAdmitted ==
    ASSUME TypeOK, TypeOK', AttemptsCounted, who' = who,
           \A j \in Addresses : tries'[j] >= tries[j],
           \A j \in Addresses : Admitted(j)' \subseteq Admitted(j)
    PROVE  AttemptsCounted'
<1>1. Addresses' = Addresses
  BY DEF Addresses
<1>2. ASSUME NEW i \in Addresses
      PROVE  Cardinality(Admitted(i)') <= tries'[i] /\ Cardinality(Admitted(i)') <= Points
  <2>1. Cardinality(Admitted(i)') <= Cardinality(Admitted(i))
    BY AdmittedSets, FS_Subset
  <2>2. Cardinality(Admitted(i)) <= tries[i] /\ Cardinality(Admitted(i)) <= Points
    BY DEF AttemptsCounted
  <2>3. /\ Cardinality(Admitted(i)') \in Nat /\ Cardinality(Admitted(i)) \in Nat
        /\ tries[i] \in Nat /\ tries'[i] \in Nat /\ Points \in Nat
        /\ tries'[i] >= tries[i]
    BY <1>1, AdmittedSets, VotingAssumption DEF TypeOK
  <2> QED BY <2>1, <2>2, <2>3
<1> QED BY <1>1, <1>2 DEF AttemptsCounted

\* The limiter counts the attempt before it lets one more in.
LEMMA LimitCounts ==
    ASSUME IndInv, IndInv', AttemptsCounted, NEW r \in Requests, Limit(r)
    PROVE  AttemptsCounted'
<1> USE DEF IndInv, TypeOK
<1>1. UNCHANGED <<who, responses>> /\ r \notin responses
  BY DEF Limit, pollVars, StoredStages
<1>2. \A s \in Requests \ {r} : pc'[s] = pc[s]
  BY DEF Limit, Goto
<1>3. PICK i \in Addresses : i = who[r].ip
  BY DEF Addresses
<1>4. tries' = [tries EXCEPT ![i] = tries[i] + 1] /\ Addresses' = Addresses
  BY <1>1, <1>3 DEF Limit, Addresses
<1>5. \A j \in Addresses : j # i => Admitted(j)' \subseteq Admitted(j)
  BY <1>1, <1>2, <1>3 DEF Admitted
<1>6. CASE tries[i] + 1 > Points
  <2>1. pc'[r] = "refused"
    BY <1>3, <1>6 DEF Limit, Goto
  <2>2. \A j \in Addresses : Admitted(j)' \subseteq Admitted(j)
    BY <1>1, <1>2, <2>1 DEF Admitted
  <2>3. \A j \in Addresses : tries'[j] >= tries[j]
    BY <1>3, <1>4
  <2> QED BY <1>1, <2>2, <2>3, NobodyAdmitted
<1>7. CASE ~(tries[i] + 1 > Points)
  <2>1. Admitted(i)' \subseteq Admitted(i) \cup {r}
    BY <1>1, <1>2 DEF Admitted
  <2>2. /\ IsFiniteSet(Admitted(i) \cup {r})
        /\ Cardinality(Admitted(i) \cup {r}) <= Cardinality(Admitted(i)) + 1
    <3>1. IsFiniteSet(Admitted(i)) /\ Cardinality(Admitted(i)) \in Nat
      BY AdmittedSets
    <3>2. /\ IsFiniteSet(Admitted(i) \cup {r})
          /\ Cardinality(Admitted(i) \cup {r}) =
                IF r \in Admitted(i) THEN Cardinality(Admitted(i)) ELSE Cardinality(Admitted(i)) + 1
      BY <3>1, FS_AddElement
    <3> HIDE DEF IndInv, TypeOK
    <3> QED BY <3>1, <3>2
  <2>3. Cardinality(Admitted(i)') <= Cardinality(Admitted(i) \cup {r})
    BY <2>1, <2>2, FS_Subset
  <2>4. Cardinality(Admitted(i) \cup {r}) \in Nat
    BY <2>2, FS_CardinalityType
  <2>5. Cardinality(Admitted(i)) <= tries[i] /\ tries'[i] = tries[i] + 1 /\ tries[i] \in Nat
    BY <1>3, <1>4 DEF AttemptsCounted
  <2>6. Cardinality(Admitted(i)') <= tries'[i] /\ Cardinality(Admitted(i)') <= Points
    BY <1>7, <2>2, <2>3, <2>4, <2>5, AdmittedSets, VotingAssumption
  <2>7. ASSUME NEW j \in Addresses, j # i
        PROVE  Cardinality(Admitted(j)') <= tries'[j] /\ Cardinality(Admitted(j)') <= Points
    <3>1. Cardinality(Admitted(j)') <= Cardinality(Admitted(j))
      BY <1>5, <2>7, AdmittedSets, FS_Subset
    <3>2. Cardinality(Admitted(j)) <= tries[j] /\ Cardinality(Admitted(j)) <= Points
      BY DEF AttemptsCounted
    <3>3. tries'[j] = tries[j] /\ tries[j] \in Nat
      BY <1>3, <1>4, <2>7
    <3> QED BY <3>1, <3>2, <3>3, AdmittedSets, VotingAssumption
  <2> QED BY <1>4, <2>6, <2>7 DEF AttemptsCounted
<1> QED BY <1>6, <1>7

LEMMA AttemptsStep ==
    ASSUME IndInv, IndInv', AttemptsCounted, [Next]_vars
    PROVE  AttemptsCounted'
<1>1. TypeOK /\ TypeOK' /\ StoredStages
  BY DEF IndInv
<1>2. ASSUME NEW r \in Requests, Progress(r) \/ Break(r), ~Limit(r)
      PROVE  AttemptsCounted'
  <2>1. /\ who' = who /\ responses' \subseteq responses \cup {r}
        /\ \A s \in Requests \ {r} : pc'[s] = pc[s]
    BY <1>1, <1>2, RequestFacts
  <2>2. \A j \in Addresses : tries'[j] >= tries[j]
    BY <1>1, <1>2 DEF TypeOK, Progress, Break, Read, Refuse, Claim, StatementFails, Connect, ConnectTimeout,
       Insert, AlreadyResponded, PollGone, Rollback, DeadlockVictim, ConnectionLost,
       Incremented, Increment, Bump, Commit, Answer
  <2>3. pc[r] \in {"idle", "limit", "refused", "dropped"} =>
           pc'[r] \in {"limit", "refused", "dropped"}
    BY <1>1, <1>2 DEF TypeOK, Goto, Progress, Break, Read, Refuse, Claim, StatementFails,
       Connect, ConnectTimeout, Insert, AlreadyResponded, PollGone, Rollback, DeadlockVictim,
       ConnectionLost, Incremented, Increment, Bump, Commit, Answer, InTxn, Inserted,
       Deadlocked, Waits
  <2>4. \A j \in Addresses : Admitted(j)' \subseteq Admitted(j)
    BY <2>1, <2>3 DEF Admitted
  <2> QED BY <1>1, <2>1, <2>2, <2>4, NobodyAdmitted
<1>3. CASE Crash
  <2>1. /\ who' = who /\ tries' = tries /\ responses' = responses
        /\ \A s \in Requests : pc'[s] = IF pc[s] \in Finals \cup {"idle"} THEN pc[s]
                                      ELSE IF pc[s] = "limit" THEN "dropped" ELSE "failed"
    BY <1>1, <1>3, CrashFacts
  <2>2. \A j \in Addresses : Admitted(j)' \subseteq Admitted(j)
    BY <2>1 DEF Admitted, Finals
  <2>3. \A j \in Addresses : tries'[j] >= tries[j]
    BY <1>1, <2>1 DEF TypeOK
  <2> QED BY <1>1, <2>1, <2>2, <2>3, NobodyAdmitted
<1>4. CASE OwnerStep \/ UNCHANGED vars
  <2>1. UNCHANGED <<who, pc, tries, responses>>
    BY <1>1, <1>4, OwnerFacts DEF requestVars
  <2> QED BY <1>1, <2>1, NobodyAdmitted DEF Admitted, TypeOK
<1>5. ASSUME NEW a \in Actors, OwnerDelete(a)
      PROVE  AttemptsCounted'
  <2>1. UNCHANGED <<who, pc, tries>> /\ responses' = {}
    BY <1>1, <1>5, DeleteFacts
  <2> QED BY <1>1, <2>1, NobodyAdmitted DEF Admitted, TypeOK
<1> QED BY <1>2, <1>3, <1>4, <1>5, LimitCounts DEF Next, AllDone

-----------------------------------------------------------------------------
(***************************************************************************)
(* Totals.                                                                 *)
(***************************************************************************)
\* A bump hands out the next total, and only one at a time is not committed.
LEMMA BumpTotals ==
    ASSUME IndInv, TotalsDistinct, NEW r \in Requests, Bump(r)
    PROVE  TotalsDistinct'
<1>1. /\ PollsTypeOK /\ poll.count \in Nat /\ counted \in [Requests -> Nat]
      /\ pc \in [Requests -> Stages] /\ poll' = poll /\ notified' = notified
  BY DEF IndInv, TypeOK, PollsTypeOK, Polls, Bump, pollVars
<1>2. Exists /\ (Exists' <=> Exists)
  BY <1>1 DEF IndInv, PollKept, Inserted, Bump, Exists
<1>3. \A s \in Requests : /\ counted'[s] = IF s = r THEN poll.count + 1 ELSE counted[s]
                          /\ pc'[s] = IF s = r THEN "commit" ELSE pc[s]
  BY <1>1 DEF Bump, Goto
<1>4. \A s \in Requests : counted[s] <= poll.count
  BY <1>2 DEF TotalsDistinct, Bump, PollRowFree
<1>5. \A s \in notified : s # r
  BY DEF Bump, TotalsDistinct
<1>6. notified \subseteq Requests
  BY DEF IndInv, TypeOK
<1>7. \A s, t \in Requests : s # t /\ counted'[s] > 0 => counted'[s] # counted'[t]
  BY <1>1, <1>3, <1>4 DEF TotalsDistinct
<1>8. \A s \in Requests : pc'[s] # "commit" => counted'[s] <= poll'.count
  BY <1>1, <1>3, <1>4
<1>9. \A s \in notified : pc'[s] \in {"created", "failed"} /\ counted'[s] > 0
  BY <1>3, <1>5, <1>6 DEF TotalsDistinct
<1> QED BY <1>1, <1>7, <1>8, <1>9 DEF TotalsDistinct

\* A rollback gives the total back.
LEMMA RollbackTotals ==
    ASSUME IndInv, TotalsDistinct, NEW r \in Requests, NEW outcome \in {"conflict", "failed"},
           pc[r] \in InTxn, Rollback(r, outcome)
    PROVE  TotalsDistinct'
<1>1. /\ poll.count \in Nat /\ counted \in [Requests -> Nat] /\ notified \subseteq Requests
      /\ pc \in [Requests -> Stages] /\ poll' = poll /\ notified' = notified
      /\ (Exists' <=> Exists)
  BY DEF IndInv, TypeOK, PollsTypeOK, Polls, Rollback, pollVars, Exists
<1>2. \A s \in Requests : /\ counted'[s] = IF s = r THEN 0 ELSE counted[s]
                          /\ pc'[s] = IF s = r THEN outcome ELSE pc[s]
  BY <1>1 DEF Rollback, Goto
<1>3. \A s \in notified : s # r
  BY DEF TotalsDistinct, InTxn, Inserted
<1> QED BY <1>1, <1>2, <1>3 DEF TotalsDistinct

\* The total that a COMMIT installs is the one it was handed.
LEMMA CommitTotals ==
    ASSUME IndInv, TotalsDistinct, NEW r \in Requests, Commit(r)
    PROVE  TotalsDistinct'
<1>1. /\ poll.count \in Nat /\ counted \in [Requests -> Nat] /\ notified \subseteq Requests
      /\ pc \in [Requests -> Stages] /\ notified' = notified /\ counted' = counted
  BY DEF IndInv, TypeOK, PollsTypeOK, Polls, Commit
<1>2. /\ Exists /\ poll'.count = poll.count + 1 /\ counted[r] = poll.count + 1
      /\ \A s \in Requests : s # r => pc[s] # "commit"
  BY CommitEffect DEF IndInv, CountFresh, Commit
<1>3. \A s \in Requests : /\ s # r => pc'[s] = pc[s]
                          /\ pc'[r] # "commit"
  BY <1>1 DEF Commit, Goto
<1>4. \A s \in notified : s # r
  BY DEF TotalsDistinct, Commit
<1>5. \A s \in Requests : counted'[s] <= poll'.count
  BY <1>1, <1>2 DEF TotalsDistinct
<1>6. \A s \in notified : pc'[s] \in {"created", "failed"} /\ counted'[s] > 0
  BY <1>1, <1>3, <1>4 DEF TotalsDistinct
<1> QED BY <1>1, <1>5, <1>6 DEF TotalsDistinct

\* Nobody is announced a total of its own making.
LEMMA AnswerTotals ==
    ASSUME IndInv, TotalsDistinct, NEW r \in Requests, Answer(r)
    PROVE  TotalsDistinct'
<1>1. /\ counted \in [Requests -> Nat] /\ notified \subseteq Requests
      /\ pc \in [Requests -> Stages] /\ poll' = poll /\ counted' = counted
      /\ (Exists' <=> Exists)
  BY DEF IndInv, TypeOK, Answer, NotifyMilestone, pollVars, Exists
<1>2. \A s \in Requests : /\ s # r => pc'[s] = pc[s]
                          /\ pc'[r] \in {"created", "failed"}
  BY <1>1 DEF Answer, Goto
<1>3. \A s \in notified' : s \in notified \/ (s = r /\ counted[r] > 0)
  BY VotingAssumption, <1>1 DEF Answer, NotifyMilestone
<1>4. pc[r] # "commit"
  BY DEF Answer
<1> QED BY <1>1, <1>2, <1>3, <1>4 DEF TotalsDistinct

LEMMA TotalsStep ==
    ASSUME IndInv, TotalsDistinct, [Next]_vars
    PROVE  TotalsDistinct'
<1>1. TypeOK /\ notified \subseteq Requests /\ counted \in [Requests -> Nat] /\ poll.count \in Nat
  BY DEF IndInv, TypeOK, PollsTypeOK, Polls
<1>2. ASSUME NEW r \in Requests, Progress(r) \/ Break(r)
      PROVE  TotalsDistinct'
  <2>1. CASE AlreadyResponded(r) \/ PollGone(r) \/ DeadlockVictim(r) \/ ConnectionLost(r)
    BY <2>1, RollbackTotals DEF AlreadyResponded, PollGone, DeadlockVictim, Deadlocked, Waits,
       ConnectionLost, InTxn, Inserted
  <2>2. CASE Bump(r) \/ Commit(r) \/ Answer(r)
    BY <2>2, BumpTotals, CommitTotals, AnswerTotals
  <2>3. ASSUME UNCHANGED <<poll, counted, notified>>, pc[r] \notin {"commit", "created", "failed"},
               \A s \in Requests \ {r} : pc'[s] = pc[s]
        PROVE  TotalsDistinct'
    <3>1. \A s \in Requests : pc'[s] # "commit" => pc[s] # "commit"
      BY <2>3
    <3>2. \A s \in notified : pc'[s] \in {"created", "failed"}
      BY <1>1, <2>3 DEF TotalsDistinct
    <3> QED BY <2>3, <3>1, <3>2 DEF TotalsDistinct, Exists
  <2>4. CASE /\ ~(AlreadyResponded(r) \/ PollGone(r) \/ DeadlockVictim(r) \/ ConnectionLost(r))
             /\ ~(Bump(r) \/ Commit(r) \/ Answer(r))
    <3>1. /\ UNCHANGED <<poll, counted, notified>>
          /\ pc[r] \notin {"commit", "created", "failed"}
      BY <1>2, <2>4 DEF pollVars, Progress, Break, Read, Limit, Refuse, Claim, StatementFails,
         Connect, ConnectTimeout, Insert, Incremented, Increment
    <3>2. \A s \in Requests \ {r} : pc'[s] = pc[s]
      BY <1>1, <1>2, RequestFacts
    <3> QED BY <2>3, <3>1, <3>2
  <2> QED BY <2>1, <2>2, <2>4
<1>3. CASE Crash
  <2>1. /\ poll' = poll /\ notified' = notified /\ (Exists' <=> Exists)
        /\ \A s \in Requests : /\ counted'[s] \in {counted[s], 0}
                               /\ pc[s] \in {"created", "failed"} =>
                                     pc'[s] = pc[s] /\ counted'[s] = counted[s]
                               /\ pc[s] = "commit" => counted'[s] = 0
    BY <1>1, <1>3, CrashFacts DEF Finals, InTxn, Inserted, Exists
  <2> QED BY <1>1, <2>1 DEF TotalsDistinct
<1>4. CASE OwnerStep \/ UNCHANGED vars
  BY <1>1, <1>4, OwnerFacts DEF requestVars, TotalsDistinct
<1>5. ASSUME NEW a \in Actors, OwnerDelete(a)
      PROVE  TotalsDistinct'
  BY <1>1, <1>5, DeleteFacts DEF TotalsDistinct
<1> QED BY <1>2, <1>3, <1>4, <1>5 DEF Next, AllDone

-----------------------------------------------------------------------------
LEMMA AnswersInit == Init => AnswersInd
<1> SUFFICES ASSUME Init PROVE AnswersInd
  OBVIOUS
<1>1. /\ pc = [r \in Requests |-> "idle"] /\ claimed = [r \in Requests |-> Null]
      /\ counted = [r \in Requests |-> 0] /\ notified = {} /\ responses = {}
      /\ tries = [i \in Addresses |-> 0]
  BY DEF Init, RequestInit
<1>2. ConflictMeansCounted /\ AnswerIsTrue /\ CodesFollow /\ CodeSpentOnce
  BY <1>1 DEF ConflictMeansCounted, AnswerIsTrue, CodesFollow, CodeSpentOnce
<1>3. AttemptsCounted
  <2>1. \A i \in Addresses : Admitted(i) = {}
    BY <1>1 DEF Admitted
  <2>2. \A i \in Addresses : Cardinality(Admitted(i)) = 0
    BY <2>1, FS_EmptySet
  <2>3. 0 <= Points /\ \A i \in Addresses : 0 <= tries[i]
    BY <1>1, VotingAssumption
  <2> HIDE DEF Init
  <2> QED BY <2>2, <2>3 DEF AttemptsCounted
<1>4. TotalsDistinct
  <2>1. poll.count = 0
    BY DEF Init, OpenPolls, NewPolls
  <2> QED BY <1>1, <2>1 DEF TotalsDistinct
<1> QED BY <1>2, <1>3, <1>4 DEF AnswersInd

\* What requests are told, and what it costs them, holds in every reachable
\* state.
THEOREM AnswersInvariant == Spec => []AnswersInd
<1>1. IndInv /\ IndInv' /\ AnswersInd /\ [Next]_vars => AnswersInd'
  BY ConflictStep, AnswerStep, CodesStep, AttemptsStep, TotalsStep DEF AnswersInd
<1> QED BY <1>1, AnswersInit, Invariant, PTL DEF Spec

\* A request answered 201 is stored as long as the poll is, and one answered 4xx
\* never was (submit, withTransaction).
THEOREM AnswersTrue == Spec => []AnswerIsTrue
<1>1. AnswersInd => AnswerIsTrue
  BY DEF AnswersInd
<1> QED BY <1>1, AnswersInvariant, PTL

\* "You have already responded" is said only to an identity that has a stored
\* response (the mapping of 23505 in submit).
THEOREM ConflictTrue == Spec => []ConflictMeansCounted
<1>1. AnswersInd => ConflictMeansCounted
  BY DEF AnswersInd
<1> QED BY <1>1, AnswersInvariant, PTL

\* No two requests get in with one invite code (claimCode).
THEOREM CodesSpentOnce == Spec => []CodeSpentOnce
<1>1. AnswersInd => CodeSpentOnce
  BY DEF AnswersInd
<1> QED BY <1>1, AnswersInvariant, PTL

\* Whoever is turned away with a 4xx has not lost a code by it.
THEOREM RejectedKeepCode == Spec => []RejectionKeepsCode
<1>1. AnswersInd => RejectionKeepsCode
  BY DEF AnswersInd, CodesFollow, RejectionKeepsCode
<1> QED BY <1>1, AnswersInvariant, PTL

\* No address gets more requests past the limiter than it has points, however
\* they interleave and whatever fails after it (consumeDurable).
THEOREM AttemptsAlwaysBounded == Spec => []AttemptsBounded
<1>1. AnswersInd => AttemptsBounded
  BY DEF AnswersInd, AttemptsCounted, AttemptsBounded
<1> QED BY <1>1, AnswersInvariant, PTL

\* No total is announced as a milestone twice (notifyMilestone).
THEOREM MilestonesOnce == Spec => []MilestoneOnce
<1>1. IndInv /\ AnswersInd => MilestoneOnce
  BY DEF IndInv, TypeOK, AnswersInd, TotalsDistinct, MilestoneOnce
<1> QED BY <1>1, Invariant, AnswersInvariant, PTL
=============================================================================
