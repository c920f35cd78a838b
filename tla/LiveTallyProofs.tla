-------------------------- MODULE LiveTallyProofs --------------------------
(***************************************************************************)
(* Proofs about LiveTally, for any number of votes, options and sockets.   *)
(***************************************************************************)
EXTENDS LiveTally, FiniteSetTheorems, TLAPS

(***************************************************************************)
(* The votes between their COMMIT and their broadcast.                     *)
(***************************************************************************)
One(v, o) == IF o \in Chosen(v) THEN 1 ELSE 0
Behind(o) == {v \in Votes : vote[v] = "committed" /\ o \in Chosen(v)}

LEMMA VoteSets ==
    ASSUME NEW S, S \subseteq Votes
    PROVE  IsFiniteSet(S) /\ Cardinality(S) \in Nat
BY LiveAssumption, FS_Subset, FS_CardinalityType

LEMMA BehindSets ==
    ASSUME NEW o
    PROVE  /\ IsFiniteSet(Behind(o)) /\ Unpublished(o) = Cardinality(Behind(o))
           /\ Unpublished(o) \in Nat
<1>1. Behind(o) \subseteq Votes
  BY DEF Behind
<1>2. IsFiniteSet(Behind(o)) /\ Cardinality(Behind(o)) \in Nat
  BY <1>1, VoteSets
<1> QED BY <1>2 DEF Behind, Unpublished

LEMMA UnpublishedNext ==
    ASSUME NEW o
    PROVE  Unpublished(o)' \in Nat
<1>1. Behind(o)' \subseteq Votes
  BY DEF Behind
<1>2. Cardinality(Behind(o)') \in Nat
  BY <1>1, VoteSets
<1> QED BY <1>2 DEF Behind, Unpublished

LEMMA UnpublishedKept ==
    ASSUME UNCHANGED <<vote, pick>>, NEW o
    PROVE  Unpublished(o)' = Unpublished(o)
BY DEF Unpublished, Chosen

\* Nothing is unpublished when no vote is between the two.
LEMMA UnpublishedNone ==
    ASSUME \A v \in Votes : vote[v] # "committed", NEW o
    PROVE  Unpublished(o) = 0
<1>1. Behind(o) = {}
  BY DEF Behind
<1> QED BY <1>1, BehindSets, FS_EmptySet

LEMMA UnpublishedGrows ==
    ASSUME TypeOK, NEW v \in Votes, CommitVote(v), NEW o
    PROVE  Unpublished(o)' = Unpublished(o) + One(v, o)
<1>1. \A w \in Votes : vote'[w] = IF w = v THEN "committed" ELSE vote[w]
  BY DEF CommitVote, TypeOK
<1>2. vote[v] = "open" /\ \A w \in Votes : Chosen(w)' = Chosen(w)
  BY DEF CommitVote, Chosen
<1>3. Unpublished(o)' = Cardinality(Behind(o)')
  BY DEF Unpublished, Behind
<1>4. CASE o \in Chosen(v)
  <2>1. Behind(o)' = Behind(o) \cup {v} /\ v \notin Behind(o)
    BY <1>1, <1>2, <1>4 DEF Behind
  <2>2. Cardinality(Behind(o) \cup {v}) = Cardinality(Behind(o)) + 1
    BY <2>1, BehindSets, FS_AddElement
  <2> QED BY <1>3, <1>4, <2>1, <2>2, BehindSets DEF One
<1>5. CASE o \notin Chosen(v)
  <2>1. Behind(o)' = Behind(o)
    BY <1>1, <1>2, <1>5 DEF Behind
  <2> QED BY <1>3, <1>5, <2>1, BehindSets DEF One
<1> QED BY <1>4, <1>5

LEMMA UnpublishedShrinks ==
    ASSUME TypeOK, NEW v \in Votes, PublishVote(v) \/ LoseReply(v), NEW o
    PROVE  Unpublished(o)' + One(v, o) = Unpublished(o)
<1>1. PICK where \in {"published", "lost"} :
         \A w \in Votes : vote'[w] = IF w = v THEN where ELSE vote[w]
  BY DEF PublishVote, LoseReply, TypeOK
<1>2. vote[v] = "committed" /\ \A w \in Votes : Chosen(w)' = Chosen(w)
  BY DEF PublishVote, LoseReply, Publishable, Chosen
<1>3. Unpublished(o)' = Cardinality(Behind(o)')
  BY DEF Unpublished, Behind
<1>4. CASE o \in Chosen(v)
  <2>1. Behind(o)' = Behind(o) \ {v} /\ v \in Behind(o)
    BY <1>1, <1>2, <1>4 DEF Behind
  <2>2. Cardinality(Behind(o) \ {v}) = Cardinality(Behind(o)) - 1
    BY <2>1, BehindSets, FS_RemoveElement
  <2> QED BY <1>3, <1>4, <2>1, <2>2, BehindSets DEF One
<1>5. CASE o \notin Chosen(v)
  <2>1. Behind(o)' = Behind(o)
    BY <1>1, <1>2, <1>5 DEF Behind
  <2> QED BY <1>3, <1>5, <2>1, BehindSets DEF One
<1> QED BY <1>4, <1>5

\* A vote names an option it chose at least once.
LEMMA Times ==
    ASSUME TypeOK, NEW v \in Votes, NEW o \in Options
    PROVE  /\ pick[v][o] \in Nat /\ One(v, o) \in Nat
           /\ pick[v][o] >= One(v, o)
           /\ ~(pick[v][o] > 1) => pick[v][o] = One(v, o)
<1>1. pick[v] \in Picks
  BY DEF TypeOK
<1>2. pick[v][o] \in Nat
  BY <1>1, LiveAssumption
<1>3. o \in Chosen(v) <=> pick[v][o] > 0
  BY DEF Chosen
<1> QED BY <1>2, <1>3 DEF One

(***************************************************************************)
(* Types.                                                                  *)
(***************************************************************************)
\* A commit adds at most one to each count.
LEMMA CountsType ==
    ASSUME NEW counts \in Counts, NEW v
    PROVE  [o \in Options |-> counts[o] + One(v, o)] \in Counts
BY DEF Counts, One

LEMMA SentType ==
    ASSUME TypeOK, NEW s \in Sockets, NEW counts \in Counts, Send(s, counts)
    PROVE  sent' \in [Sockets -> [Options -> Nat \cup {Null}]]
BY DEF Send, TypeOK, Counts

LEMMA VoteType ==
    ASSUME TypeOK, NEW v \in Votes, CommitVote(v) \/ PublishVote(v) \/ LoseReply(v)
    PROVE  TypeOK'
<1> USE DEF TypeOK
<1>1. CASE CommitVote(v)
  <2>1. stored' = [o \in Options |-> stored[o] + One(v, o)]
    BY <1>1 DEF CommitVote, One
  <2>2. stored' \in Counts
    BY <2>1, CountsType
  <2> QED BY <1>1, <2>2 DEF CommitVote, pollVars, socketVars
<1>2. CASE PublishVote(v)
  <2>1. mirror' \in Counts \cup {Null}
    <3>1. CASE mirror = Null
      BY <1>2, <3>1 DEF PublishVote, ApplyDelta
    <3>2. CASE mirror # Null
      <4>1. mirror' = [o \in Options |-> mirror[o] + pick[v][o]]
        BY <1>2, <3>2 DEF PublishVote, ApplyDelta
      <4>2. \A o \in Options : mirror[o] + pick[v][o] \in Nat
        BY <3>2, Times DEF Counts
      <4> QED BY <4>1, <4>2 DEF Counts
    <3> QED BY <3>1, <3>2
  <2>2. Delta(v, mirror') \in Counts
    BY <2>1 DEF Delta
  <2>3. sent' \in [Sockets -> [Options -> Nat \cup {Null}]]
    BY <1>2, <2>2 DEF PublishVote, Counts
  <2>4. result' \in [Votes -> Counts]
    BY <1>2 DEF PublishVote, Zero, Counts
  <2> QED BY <1>2, <2>1, <2>3, <2>4 DEF PublishVote, pollVars, Cause, Causes
<1>3. CASE LoseReply(v)
  <2>1. result' \in [Votes -> Counts]
    BY <1>3 DEF LoseReply, Zero, Counts
  <2> QED BY <1>3, <2>1 DEF LoseReply, pollVars, socketVars, Cause, Causes
<1> QED BY <1>1, <1>2, <1>3

LEMMA SocketType ==
    ASSUME TypeOK, NEW s \in Sockets,
           \/ Connect(s) \/ Ask(s) \/ Refuse(s) \/ Subscribe(s)
           \/ ReadTallies(s) \/ Load(s) \/ LoadFails(s) \/ CloseSocket(s)
    PROVE  TypeOK'
<1> USE DEF TypeOK, voteVars, pollVars
<1>1. CASE Connect(s) \/ Ask(s) \/ Refuse(s)
  BY <1>1 DEF Connect, Ask, Refuse
<1>2. CASE Subscribe(s)
  <2>1. sent' \in [Sockets -> [Options -> Nat \cup {Null}]]
    BY <1>2, SentType DEF Subscribe
  <2> QED BY <1>2, <2>1 DEF Subscribe, Register
<1>3. CASE ReadTallies(s)
  BY <1>3 DEF ReadTallies, Rows, Cause, Causes
<1>4. CASE Load(s)
  <2>1. sent' \in [Sockets -> [Options -> Nat \cup {Null}]]
    BY <1>4, SentType DEF Load
  <2>2. rows' \in [Sockets -> Counts]
    BY <1>4 DEF Load, Zero, Counts
  <2> QED BY <1>4, <2>1, <2>2 DEF Load
<1>5. CASE LoadFails(s)
  <2>1. rows' \in [Sockets -> Counts]
    BY <1>5 DEF LoadFails, Zero, Counts
  <2> QED BY <1>5, <2>1 DEF LoadFails
<1>6. CASE CloseSocket(s)
  <2>1. sent' \in [Sockets -> [Options -> Nat \cup {Null}]]
    BY <1>6 DEF CloseSocket, Unsent
  <2> QED BY <1>6, <2>1 DEF CloseSocket
<1> QED BY <1>1, <1>2, <1>3, <1>4, <1>5, <1>6

LEMMA LiveTypeStep ==
    ASSUME TypeOK, [Next]_vars
    PROVE  TypeOK'
<1>1. CASE Retire \/ Evict \/ ChangeMode
  BY <1>1 DEF Retire, Evict, ChangeMode, Evicted, TypeOK, voteVars, socketVars
<1>2. CASE UNCHANGED vars
  BY <1>2 DEF vars, voteVars, pollVars, socketVars, TypeOK
<1> QED BY <1>1, <1>2, VoteType, SocketType DEF Next

LEMMA LiveTypeInit == Init => TypeOK
<1> SUFFICES ASSUME Init PROVE TypeOK
  OBVIOUS
<1>1. Zero \in Counts /\ Unsent \in [Options -> Nat \cup {Null}]
  BY DEF Zero, Unsent, Counts
<1>2. /\ pick \in [Votes -> Picks]
      /\ vote \in [Votes -> {"open", "committed", "published"}]
      /\ result \in [Votes -> Counts] /\ stored \in Counts /\ mirror \in Counts \cup {Null}
  BY <1>1 DEF Init
<1>3. rows \in [Sockets -> Counts] /\ sent \in [Sockets -> [Options -> Nat \cup {Null}]]
  BY <1>1 DEF Init
<1>4. /\ conn \in [Sockets -> {"new", "open", "closed"}]
      /\ handler \in [Sockets -> {"none", "allowed", "refused", "reading", "loading"}]
      /\ channel \subseteq Sockets
  BY DEF Init
<1>5. /\ status \in {"published", "closed", "archived"}
      /\ mode \in {"live", "after_close", "creator_only"}
      /\ retiring \in BOOLEAN /\ unanswered \subseteq Sockets /\ skew \subseteq Causes
  BY DEF Init
<1> QED BY <1>2, <1>3, <1>4, <1>5 DEF TypeOK

\* Every variable keeps its type.
THEOREM LiveTypeCorrect == Spec => []TypeOK
BY LiveTypeInit, LiveTypeStep, PTL DEF Spec

-----------------------------------------------------------------------------
(***************************************************************************)
(* Votes.                                                                  *)
(***************************************************************************)
\* A COMMIT moves the database and what is unpublished by the same.
LEMMA CommitLive ==
    ASSUME LiveInd, TypeOK', NEW v \in Votes, CommitVote(v)
    PROVE  LiveInd'
<1> USE DEF LiveInd
<1>1. \A o \in Options : stored'[o] = stored[o] + One(v, o)
  BY DEF CommitVote, One
<1>2. \A o \in Options : Unpublished(o)' = Unpublished(o) + One(v, o)
  BY UnpublishedGrows
<1>3. \A o \in Options : /\ One(v, o) \in Nat /\ stored[o] \in Nat
                         /\ Unpublished(o) \in Nat
  BY BehindSets DEF One, TypeOK, Counts
<1>4. UNCHANGED <<pick, pollVars, mirror, socketVars, skew>>
  BY DEF CommitVote
<1>t. \A counts \in Counts : Tracks(counts) => Tracks(counts)'
  BY <1>1, <1>2, <1>3, <1>4 DEF Tracks, NotAhead, NotBehind, Counts
<1>5. MirrorTracks'
  BY <1>4, <1>t DEF MirrorTracks, TypeOK
<1>6. LoadsTrack'
  BY <1>4, <1>t DEF LoadsTrack, TypeOK, socketVars
<1>7. ResultsReached'
  <2> SUFFICES ASSUME NEW w \in Votes, vote'[w] = "committed", NEW o \in Options
               PROVE  result'[w][o] <= stored'[o]
    BY DEF ResultsReached
  <2>1. CASE w = v
    BY <1>1, <1>3, <2>1 DEF CommitVote, TypeOK, Counts
  <2>2. CASE w # v
    <3>1. vote[w] = "committed" /\ result'[w] = result[w] /\ result[w][o] \in Nat
      BY <2>2 DEF CommitVote, TypeOK, Counts
    <3> QED BY <1>1, <1>3, <3>1 DEF ResultsReached
  <2> QED BY <2>1, <2>2
<1>8. ConnectedFirst' /\ OpenIsKept' /\ WatchersTracked'
  BY <1>4 DEF ConnectedFirst, OpenIsKept, WatchersTracked, Watching, pollVars, socketVars
<1>9. NothingShownEarly'
  <2> SUFFICES ASSUME status' = "published", NotAhead', NEW s \in Sockets, NEW o \in Options,
                      sent'[s][o] # Null
               PROVE  sent'[s][o] <= stored'[o]
    BY DEF NothingShownEarly
  <2>1. sent[s][o] \in Nat /\ sent[s][o] <= stored[o] /\ sent'[s][o] = sent[s][o]
    BY <1>4 DEF NothingShownEarly, NotAhead, pollVars, socketVars, TypeOK
  <2> QED BY <1>1, <1>3, <2>1
<1> QED BY <1>5, <1>6, <1>7, <1>8, <1>9

\* A broadcast moves the mirror and what is unpublished by the same, and shows
\* what the mirror then holds.
LEMMA PublishLive ==
    ASSUME LiveInd, TypeOK', NEW v \in Votes, PublishVote(v)
    PROVE  LiveInd'
<1> USE DEF LiveInd
<1>1. \A o \in Options : Unpublished(o)' + One(v, o) = Unpublished(o)
  BY UnpublishedShrinks
<1>2. \A o \in Options : /\ One(v, o) \in Nat /\ stored[o] \in Nat /\ pick[v][o] \in Nat
                         /\ Unpublished(o) \in Nat /\ Unpublished(o)' \in Nat
                         /\ pick[v][o] >= One(v, o)
                         /\ ~(pick[v][o] > 1) => pick[v][o] = One(v, o)
  BY BehindSets, UnpublishedNext, Times DEF TypeOK, Counts
<1>3. UNCHANGED <<pick, stored, pollVars, conn, channel, handler, rows, unanswered>>
  BY DEF PublishVote
<1>4. /\ (mirror' = Null) <=> (mirror = Null)
      /\ mirror # Null => \A o \in Options : mirror'[o] = mirror[o] + pick[v][o]
  <2>1. CASE mirror = Null
    BY <2>1 DEF PublishVote, ApplyDelta
  <2>2. CASE mirror # Null
    <3>1. mirror' = [o \in Options |-> mirror[o] + pick[v][o]]
      BY <2>2 DEF PublishVote, ApplyDelta
    <3>2. mirror' \in [Options -> Nat]
      <4>1. \A o \in Options : mirror[o] \in Nat
        BY <2>2 DEF TypeOK, Counts
      <4>2. \A o \in Options : mirror[o] + pick[v][o] \in Nat
        BY <1>2, <4>1
      <4> QED BY <3>1, <4>2
    <3> QED BY <2>2, <3>1, <3>2, LiveAssumption
  <2> QED BY <2>1, <2>2
<1>5. /\ skew' = skew \cup Cause("overlap", Loading)
                   \cup Cause("repeat", mirror # Null /\ \E o \in Options : pick[v][o] > 1)
      /\ "overlap" \notin skew' => "overlap" \notin skew /\ ~Loading
      /\ "repeat" \notin skew' =>
            "repeat" \notin skew /\ (mirror # Null => \A o \in Options : ~(pick[v][o] > 1))
      /\ "lost" \notin skew' => "lost" \notin skew
  BY DEF PublishVote, Cause
<1>6. MirrorTracks'
  <2> SUFFICES ASSUME mirror # Null, NEW o \in Options
               PROVE  /\ NotAhead' => mirror'[o] + Unpublished(o)' <= stored'[o]
                      /\ NotBehind' => mirror'[o] + Unpublished(o)' >= stored'[o]
    BY <1>4 DEF MirrorTracks, Tracks
  <2>1. /\ NotAhead => mirror[o] + Unpublished(o) <= stored[o]
        /\ NotBehind => mirror[o] + Unpublished(o) >= stored[o]
        /\ mirror[o] \in Nat /\ mirror'[o] = mirror[o] + pick[v][o] /\ stored' = stored
    BY <1>3, <1>4 DEF MirrorTracks, Tracks, TypeOK, Counts
  <2>2. NotAhead' => NotAhead /\ pick[v][o] = One(v, o)
    BY <1>2, <1>5 DEF NotAhead
  <2>3. NotBehind' => NotBehind
    BY <1>5 DEF NotBehind
  <2>4. Unpublished(o)' + One(v, o) = Unpublished(o) /\ pick[v][o] >= One(v, o)
    BY <1>1, <1>2
  <2>5. ASSUME NotAhead' PROVE mirror'[o] + Unpublished(o)' <= stored'[o]
    BY <1>2, <2>1, <2>2, <2>4, <2>5
  <2>6. ASSUME NotBehind' PROVE mirror'[o] + Unpublished(o)' >= stored'[o]
    BY <1>2, <2>1, <2>3, <2>4, <2>6
  <2> QED BY <2>5, <2>6
<1>7. LoadsTrack'
  BY <1>3, <1>5 DEF LoadsTrack, Tracks, NotAhead, NotBehind, Loading
<1>8. ResultsReached'
  BY <1>3 DEF PublishVote, ResultsReached, TypeOK
<1>9. ConnectedFirst' /\ OpenIsKept'
  BY <1>3 DEF ConnectedFirst, OpenIsKept, pollVars
<1>10. \A s \in Sockets : \A o \in Options :
          sent'[s][o] = IF s \in Watching /\ o \in Chosen(v) THEN Delta(v, mirror')[o] ELSE sent[s][o]
  BY DEF PublishVote
<1>11. NothingShownEarly'
  <2> SUFFICES ASSUME status' = "published", NotAhead', NEW s \in Sockets, NEW o \in Options,
                      sent'[s][o] # Null
               PROVE  sent'[s][o] <= stored'[o]
    BY DEF NothingShownEarly
  <2>1. status = "published" /\ NotAhead /\ stored' = stored
    BY <1>3, <1>5 DEF pollVars, NotAhead
  <2>2. CASE ~(s \in Watching /\ o \in Chosen(v))
    BY <1>10, <2>1, <2>2 DEF NothingShownEarly
  <2>3. CASE s \in Watching /\ o \in Chosen(v) /\ mirror # Null
    <3>1. sent'[s][o] = mirror'[o]
      BY <1>4, <1>10, <2>3 DEF Delta
    <3>2. mirror'[o] \in Nat /\ mirror'[o] + Unpublished(o)' <= stored'[o]
      BY <1>4, <1>6, <2>1, <2>3 DEF MirrorTracks, Tracks, TypeOK, Counts
    <3> QED BY <1>2, <2>1, <3>1, <3>2
  <2>4. CASE s \in Watching /\ o \in Chosen(v) /\ mirror = Null
    <3>1. sent'[s][o] = result[v][o]
      BY <1>4, <1>10, <2>4 DEF Delta
    <3> QED BY <2>1, <3>1 DEF ResultsReached, PublishVote, Publishable
  <2> QED BY <2>2, <2>3, <2>4
<1>12. WatchersTracked'
  <2> SUFFICES ASSUME status' = "published", skew' = {}, NEW s \in (Watching \ unanswered)',
                      handler'[s] \notin {"reading", "loading"}
               PROVE  mirror' # Null /\ sent'[s] = mirror'
    BY DEF WatchersTracked
  <2>1. /\ s \in Watching \ unanswered /\ s \in Sockets
        /\ handler[s] \notin {"reading", "loading"} /\ skew = {}
    BY <1>3, <1>5 DEF Watching, TypeOK
  <2>2. mirror # Null /\ sent[s] = mirror
    BY <1>3, <2>1 DEF WatchersTracked, pollVars
  <2>3. mirror' # Null /\ Delta(v, mirror') = mirror'
    BY <1>4, <2>2 DEF Delta
  <2>4. \A o \in Options : sent'[s][o] = mirror'[o]
    <3> TAKE o \in Options
    <3>1. CASE o \in Chosen(v)
      BY <1>10, <2>1, <2>3, <3>1
    <3>2. CASE o \notin Chosen(v)
      <4>1. sent'[s][o] = mirror[o] /\ pick[v][o] = 0 /\ mirror[o] \in Nat
        BY <1>2, <1>10, <2>1, <2>2, <3>2 DEF Chosen, TypeOK, Counts
      <4> QED BY <1>4, <2>2, <4>1
    <3> QED BY <3>1, <3>2
  <2>5. sent'[s] \in [Options -> Nat \cup {Null}] /\ mirror' \in [Options -> Nat]
    BY <2>1, <2>3 DEF TypeOK, Counts
  <2>6. sent'[s] = mirror'
    BY <2>4, <2>5
  <2> QED BY <2>3, <2>6
<1> QED BY <1>6, <1>7, <1>8, <1>9, <1>11, <1>12

\* A lost reply leaves the mirror behind, and shows nothing.
LEMMA LoseLive ==
    ASSUME LiveInd, TypeOK', NEW v \in Votes, LoseReply(v)
    PROVE  LiveInd'
<1> USE DEF LiveInd
<1>1. \A o \in Options : /\ Unpublished(o)' <= Unpublished(o)
                         /\ Unpublished(o) \in Nat /\ Unpublished(o)' \in Nat
  <2> TAKE o \in Options
  <2>1. Unpublished(o)' + One(v, o) = Unpublished(o) /\ One(v, o) \in Nat
    BY UnpublishedShrinks, Times
  <2>2. Unpublished(o) \in Nat /\ Unpublished(o)' \in Nat
    BY BehindSets, UnpublishedNext
  <2> QED BY <2>1, <2>2
<1>2. UNCHANGED <<pick, stored, pollVars, mirror, socketVars>>
  BY DEF LoseReply
<1>3. /\ skew \subseteq skew'
      /\ NotAhead' => NotAhead
      /\ NotBehind' => mirror = Null /\ ~Loading
  BY DEF LoseReply, Cause, NotAhead, NotBehind
<1>4. \A counts \in Counts : Tracks(counts) /\ ~NotBehind' => Tracks(counts)'
  <2> SUFFICES ASSUME NEW counts \in Counts, Tracks(counts), NotAhead', NEW o \in Options
               PROVE  counts[o] + Unpublished(o)' <= stored'[o]
    BY DEF Tracks
  <2>1. counts[o] + Unpublished(o) <= stored[o] /\ counts[o] \in Nat /\ stored[o] \in Nat
    BY <1>3 DEF Tracks, TypeOK, Counts
  <2> QED BY <1>1, <1>2, <2>1
<1>5. MirrorTracks'
  BY <1>2, <1>3, <1>4 DEF MirrorTracks, TypeOK
<1>6. LoadsTrack'
  BY <1>2, <1>3, <1>4 DEF LoadsTrack, Loading, TypeOK, socketVars
<1>7. ResultsReached'
  BY <1>2 DEF LoseReply, ResultsReached, TypeOK
<1>8. ConnectedFirst' /\ OpenIsKept' /\ NothingShownEarly'
  BY <1>2, <1>3 DEF ConnectedFirst, OpenIsKept, NothingShownEarly, pollVars, socketVars
<1>9. WatchersTracked'
  BY <1>2, <1>3 DEF WatchersTracked, Watching, pollVars, socketVars
<1> QED BY <1>5, <1>6, <1>7, <1>8, <1>9

-----------------------------------------------------------------------------
(***************************************************************************)
(* Sockets.                                                                *)
(***************************************************************************)
LEMMA TracksKept ==
    ASSUME UNCHANGED <<vote, pick, stored, skew>>, NEW counts
    PROVE  Tracks(counts)' = Tracks(counts)
BY UnpublishedKept DEF Tracks, NotAhead, NotBehind

\* Neither the database, nor the poll, nor what anyone connected was sent.
LEMMA QuietLive ==
    ASSUME LiveInd, TypeOK', NEW s \in Sockets,
           Connect(s) \/ Ask(s) \/ Refuse(s) \/ CloseSocket(s)
    PROVE  LiveInd'
<1> USE DEF LiveInd
<1>1. UNCHANGED <<voteVars, pollVars, mirror, rows, skew>>
  BY DEF Connect, Ask, Refuse, CloseSocket
<1>2. \A counts : Tracks(counts)' = Tracks(counts)
  BY <1>1, TracksKept DEF voteVars
<1>3. \A t \in Sockets :
         /\ (handler'[t] = "loading") <=> (handler[t] = "loading")
         /\ (handler'[t] \in {"reading", "loading"}) <=> (handler[t] \in {"reading", "loading"})
         /\ handler'[t] # "none" => handler[t] # "none" \/ conn[t] # "new"
         /\ conn'[t] = "new" => conn[t] = "new" /\ handler'[t] = handler[t]
  BY DEF Connect, Ask, Refuse, CloseSocket, TypeOK, ConnectedFirst
<1>4. /\ Watching' \subseteq Watching /\ channel' \subseteq channel
      /\ \A t \in Watching' : sent'[t] = sent[t] /\ (t \in unanswered' <=> t \in unanswered)
      /\ \A t \in Sockets : sent'[t] = sent[t] \/ sent'[t] = Unsent
  <2>1. CASE Connect(s)
    BY <2>1 DEF Connect, Watching, TypeOK, ConnectedFirst
  <2>2. CASE Ask(s) \/ Refuse(s)
    BY <2>2 DEF Ask, Refuse, Watching
  <2>3. CASE CloseSocket(s)
    BY <2>3 DEF CloseSocket, Watching, TypeOK
  <2> QED BY <2>1, <2>2, <2>3
<1>5. MirrorTracks' /\ LoadsTrack' /\ ResultsReached' /\ OpenIsKept'
  BY <1>1, <1>2, <1>3 DEF MirrorTracks, LoadsTrack, ResultsReached, OpenIsKept,
                          voteVars, pollVars
<1>6. ConnectedFirst'
  BY <1>3, <1>4 DEF ConnectedFirst
<1>7. NothingShownEarly'
  BY <1>1, <1>4 DEF NothingShownEarly, NotAhead, Unsent, voteVars, pollVars
<1>8. WatchersTracked'
  <2> SUFFICES ASSUME status' = "published", skew' = {}, NEW t \in (Watching \ unanswered)',
                      handler'[t] \notin {"reading", "loading"}
               PROVE  mirror' # Null /\ sent'[t] = mirror'
    BY DEF WatchersTracked
  <2>1. t \in Watching \ unanswered /\ t \in Sockets /\ sent'[t] = sent[t]
    BY <1>4 DEF Watching, TypeOK
  <2> QED BY <1>1, <1>3, <2>1 DEF WatchersTracked, pollVars
<1> QED BY <1>5, <1>6, <1>7, <1>8

\* A snapshot out of the mirror.
LEMMA SubscribeLive ==
    ASSUME LiveInd, TypeOK', NEW s \in Sockets, Subscribe(s)
    PROVE  LiveInd'
<1> USE DEF LiveInd
<1>1. UNCHANGED <<voteVars, pollVars, mirror, conn, rows, skew>>
  BY DEF Subscribe
<1>2. \A counts : Tracks(counts)' = Tracks(counts)
  BY <1>1, TracksKept DEF voteVars
<1>3. /\ handler[s] = "allowed" /\ handler'[s] \in {"none", "reading"}
      /\ \A t \in Sockets \ {s} : /\ handler'[t] = handler[t] /\ sent'[t] = sent[t]
                                  /\ t \in unanswered' <=> t \in unanswered
      /\ channel' = channel \cup {s} /\ conn[s] # "new"
  BY DEF Subscribe, Register, Send, TypeOK, ConnectedFirst
<1>4. MirrorTracks' /\ LoadsTrack' /\ ResultsReached' /\ OpenIsKept'
  BY <1>1, <1>2, <1>3 DEF MirrorTracks, LoadsTrack, ResultsReached, OpenIsKept,
                          voteVars, pollVars
<1>5. ConnectedFirst'
  BY <1>1, <1>3 DEF ConnectedFirst
<1>6. /\ mirror = Null => sent' = sent /\ handler'[s] = "reading"
      /\ mirror # Null /\ conn[s] = "open" => sent'[s] = mirror
      /\ conn[s] # "open" => sent' = sent
  BY DEF Subscribe, Send, TypeOK
<1>7. NothingShownEarly'
  <2> SUFFICES ASSUME status' = "published", NotAhead', NEW t \in Sockets, NEW o \in Options,
                      sent'[t][o] # Null
               PROVE  sent'[t][o] <= stored'[o]
    BY DEF NothingShownEarly
  <2>1. status = "published" /\ NotAhead /\ stored' = stored
    BY <1>1 DEF pollVars, voteVars, NotAhead
  <2>2. CASE sent'[t] = sent[t]
    BY <2>1, <2>2 DEF NothingShownEarly
  <2>3. CASE sent'[t] = mirror /\ mirror # Null
    <3>1. mirror[o] + Unpublished(o) <= stored[o] /\ mirror[o] \in Nat /\ Unpublished(o) \in Nat
          /\ stored[o] \in Nat
      BY <2>1, <2>3, BehindSets DEF MirrorTracks, Tracks, TypeOK, Counts
    <3> QED BY <2>1, <2>3, <3>1
  <2> QED BY <1>3, <1>6, <2>2, <2>3
<1>8. WatchersTracked'
  <2> SUFFICES ASSUME status' = "published", skew' = {}, NEW t \in (Watching \ unanswered)',
                      handler'[t] \notin {"reading", "loading"}
               PROVE  mirror' # Null /\ sent'[t] = mirror'
    BY DEF WatchersTracked
  <2>1. t \in Sockets /\ conn[t] = "open" /\ status = "published" /\ skew = {} /\ mirror' = mirror
    BY <1>1 DEF Watching, TypeOK, pollVars
  <2>2. CASE t = s
    BY <1>6, <2>1, <2>2
  <2>3. CASE t # s
    <3>1. t \in Watching \ unanswered /\ handler[t] = handler'[t] /\ sent'[t] = sent[t]
      BY <1>1, <1>3, <2>1, <2>3 DEF Watching
    <3> QED BY <2>1, <3>1 DEF WatchersTracked
  <2> QED BY <2>2, <2>3
<1> QED BY <1>4, <1>5, <1>7, <1>8

\* The rows a load reads are the database's; unless a vote is then between its
\* COMMIT and its broadcast, none of them is missing a vote.
LEMMA ReadLive ==
    ASSUME LiveInd, TypeOK', NEW s \in Sockets, ReadTallies(s)
    PROVE  LiveInd'
<1> USE DEF LiveInd
<1>1. UNCHANGED <<voteVars, pollVars, mirror, conn, channel, sent, unanswered>>
  BY DEF ReadTallies
<1>2. \A o \in Options : Unpublished(o)' = Unpublished(o)
  BY <1>1, UnpublishedKept DEF voteVars
<1>3. /\ handler[s] = "reading" /\ handler'[s] = "loading" /\ rows'[s] = stored
      /\ \A t \in Sockets \ {s} : handler'[t] = handler[t] /\ rows'[t] = rows[t]
  BY DEF ReadTallies, Rows, TypeOK
<1>4. /\ skew \subseteq skew'
      /\ NotAhead' => NotAhead
      /\ NotBehind' => NotBehind
      /\ NotAhead' \/ NotBehind' => \A v \in Votes : vote[v] # "committed"
  BY DEF ReadTallies, Cause, NotAhead, NotBehind
<1>5. \A counts : Tracks(counts) => Tracks(counts)'
  BY <1>1, <1>2, <1>4 DEF Tracks, voteVars
<1>6. MirrorTracks' /\ ResultsReached' /\ OpenIsKept' /\ NothingShownEarly'
  BY <1>1, <1>4, <1>5 DEF MirrorTracks, ResultsReached, OpenIsKept, NothingShownEarly,
                          voteVars, pollVars
<1>7. LoadsTrack'
  <2> SUFFICES ASSUME NEW t \in Sockets, handler'[t] = "loading"
               PROVE  Tracks(rows[t])'
    BY DEF LoadsTrack
  <2>1. CASE t = s
    <3> SUFFICES ASSUME NotAhead' \/ NotBehind', NEW o \in Options
                 PROVE  stored'[o] + Unpublished(o)' = stored'[o] /\ stored'[o] \in Nat
      BY <1>1, <1>3, <2>1 DEF Tracks, voteVars
    <3>1. Unpublished(o)' = 0
      BY <1>2, <1>4, UnpublishedNone
    <3> QED BY <1>1, <3>1 DEF voteVars, TypeOK, Counts
  <2>2. CASE t # s
    <3>1. Tracks(rows[t]) /\ rows'[t] = rows[t]
      BY <1>3, <2>2 DEF LoadsTrack
    <3> QED BY <1>5, <3>1
  <2> QED BY <2>1, <2>2
<1>8. ConnectedFirst'
  BY <1>1, <1>3 DEF ConnectedFirst
<1>9. WatchersTracked'
  BY <1>1, <1>3, <1>4 DEF WatchersTracked, Watching, pollVars, TypeOK
<1> QED BY <1>6, <1>7, <1>8, <1>9

\* Rows nothing has set apart from the tallies are what the mirror would hold:
\* whoever was tracking the entry they replace tracks the new one.
LEMMA LoadLive ==
    ASSUME LiveInd, TypeOK', NEW s \in Sockets, Load(s)
    PROVE  LiveInd'
<1> USE DEF LiveInd
<1>1. UNCHANGED <<voteVars, pollVars, conn, channel, skew>>
  BY DEF Load
<1>2. \A counts : Tracks(counts)' = Tracks(counts)
  BY <1>1, TracksKept DEF voteVars
<1>3. /\ handler[s] = "loading" /\ handler'[s] = "none" /\ mirror' = rows[s]
      /\ conn[s] = "open" => sent'[s] = rows[s]
      /\ conn[s] # "open" => sent'[s] = sent[s]
      /\ \A t \in Sockets \ {s} :
            /\ handler'[t] = handler[t] /\ rows'[t] = rows[t] /\ sent'[t] = sent[t]
            /\ t \in unanswered' <=> t \in unanswered
  BY DEF Load, Send, TypeOK
<1>4. rows[s] \in [Options -> Nat] /\ rows[s] # Null
  BY LiveAssumption DEF TypeOK, Counts
<1>5. Tracks(rows[s])
  BY <1>3 DEF LoadsTrack
<1>6. MirrorTracks' /\ ResultsReached' /\ OpenIsKept'
  BY <1>1, <1>2, <1>3, <1>5 DEF MirrorTracks, ResultsReached, OpenIsKept, voteVars, pollVars
<1>7. LoadsTrack'
  <2> SUFFICES ASSUME NEW t \in Sockets, handler'[t] = "loading"
               PROVE  Tracks(rows[t])'
    BY DEF LoadsTrack
  <2>1. Tracks(rows[t]) /\ rows'[t] = rows[t]
    BY <1>3 DEF LoadsTrack
  <2> QED BY <1>2, <2>1
<1>8. ConnectedFirst'
  BY <1>1, <1>3 DEF ConnectedFirst
<1>9. NothingShownEarly'
  <2> SUFFICES ASSUME status' = "published", NotAhead', NEW t \in Sockets, NEW o \in Options,
                      sent'[t][o] # Null
               PROVE  sent'[t][o] <= stored'[o]
    BY DEF NothingShownEarly
  <2>1. status = "published" /\ NotAhead /\ stored' = stored
    BY <1>1 DEF pollVars, voteVars, NotAhead
  <2>2. CASE sent'[t] = sent[t]
    BY <2>1, <2>2 DEF NothingShownEarly
  <2>3. CASE sent'[t] = rows[s]
    <3>1. rows[s][o] + Unpublished(o) <= stored[o] /\ rows[s][o] \in Nat /\ Unpublished(o) \in Nat
          /\ stored[o] \in Nat
      BY <1>4, <1>5, <2>1, BehindSets DEF Tracks, TypeOK, Counts
    <3> QED BY <2>1, <2>3, <3>1
  <2> QED BY <1>3, <2>2, <2>3
<1>10. WatchersTracked'
  <2> SUFFICES ASSUME status' = "published", skew' = {}, NEW t \in (Watching \ unanswered)',
                      handler'[t] \notin {"reading", "loading"}
               PROVE  mirror' # Null /\ sent'[t] = mirror'
    BY DEF WatchersTracked
  <2>1. /\ t \in Sockets /\ t \in Watching /\ conn[t] = "open"
        /\ status = "published" /\ skew = {} /\ NotAhead /\ NotBehind
    BY <1>1 DEF Watching, TypeOK, pollVars, NotAhead, NotBehind
  <2>2. CASE t = s
    BY <1>3, <1>4, <2>1, <2>2
  <2>3. CASE t # s
    <3>1. mirror # Null /\ sent[t] = mirror /\ sent'[t] = sent[t]
      BY <1>3, <2>1, <2>3 DEF WatchersTracked
    <3>2. mirror \in [Options -> Nat]
      BY <3>1 DEF TypeOK, Counts
    <3>3. \A o \in Options : mirror[o] = rows[s][o]
      <4> TAKE o \in Options
      <4>1. /\ mirror[o] + Unpublished(o) <= stored[o] /\ mirror[o] + Unpublished(o) >= stored[o]
            /\ rows[s][o] + Unpublished(o) <= stored[o] /\ rows[s][o] + Unpublished(o) >= stored[o]
        BY <1>5, <2>1, <3>1 DEF MirrorTracks, Tracks
      <4>2. /\ mirror[o] \in Nat /\ rows[s][o] \in Nat /\ stored[o] \in Nat
            /\ Unpublished(o) \in Nat
        BY <1>4, <3>2, BehindSets DEF TypeOK, Counts
      <4> QED BY <4>1, <4>2
    <3>4. mirror = rows[s]
      BY <1>4, <3>2, <3>3
    <3> QED BY <1>3, <1>4, <3>1, <3>4
  <2> QED BY <2>2, <2>3
<1> QED BY <1>6, <1>7, <1>8, <1>9, <1>10

\* A load that fails leaves the mirror alone, and its socket unanswered.
LEMMA LoadFailsLive ==
    ASSUME LiveInd, TypeOK', NEW s \in Sockets, LoadFails(s)
    PROVE  LiveInd'
<1> USE DEF LiveInd
<1>1. UNCHANGED <<voteVars, pollVars, mirror, conn, channel, sent, skew>>
  BY DEF LoadFails
<1>2. \A counts : Tracks(counts)' = Tracks(counts)
  BY <1>1, TracksKept DEF voteVars
<1>3. /\ handler'[s] = "none" /\ handler[s] # "none"
      /\ \A t \in Sockets \ {s} : /\ handler'[t] = handler[t] /\ rows'[t] = rows[t]
                                  /\ t \in unanswered' <=> t \in unanswered
      /\ s \in Watching => s \in unanswered'
  BY DEF LoadFails, TypeOK
<1>4. MirrorTracks' /\ ResultsReached' /\ OpenIsKept' /\ NothingShownEarly'
  BY <1>1, <1>2 DEF MirrorTracks, ResultsReached, OpenIsKept, NothingShownEarly, NotAhead,
                    voteVars, pollVars
<1>5. LoadsTrack'
  <2> SUFFICES ASSUME NEW t \in Sockets, handler'[t] = "loading"
               PROVE  Tracks(rows[t])'
    BY DEF LoadsTrack
  <2>1. Tracks(rows[t]) /\ rows'[t] = rows[t]
    BY <1>3 DEF LoadsTrack
  <2> QED BY <1>2, <2>1
<1>6. ConnectedFirst'
  BY <1>1, <1>3 DEF ConnectedFirst
<1>7. WatchersTracked'
  <2> SUFFICES ASSUME status' = "published", skew' = {}, NEW t \in (Watching \ unanswered)',
                      handler'[t] \notin {"reading", "loading"}
               PROVE  mirror' # Null /\ sent'[t] = mirror'
    BY DEF WatchersTracked
  <2>1. t \in Watching /\ t # s /\ t \in Sockets
    BY <1>1, <1>3 DEF Watching, TypeOK
  <2>2. t \in Watching \ unanswered /\ handler'[t] = handler[t]
    BY <1>3, <2>1
  <2> QED BY <1>1, <2>2 DEF WatchersTracked, pollVars
<1> QED BY <1>4, <1>5, <1>6, <1>7

-----------------------------------------------------------------------------
(***************************************************************************)
(* The poll.                                                               *)
(***************************************************************************)
\* A poll that has closed never opens again, so an eviction takes the entry
\* from nobody who may still watch it count.
LEMMA RetireLive ==
    ASSUME LiveInd, TypeOK', Retire \/ Evict \/ ChangeMode
    PROVE  LiveInd'
<1> USE DEF LiveInd
<1>1. UNCHANGED <<voteVars, socketVars>>
  BY DEF Retire, Evict, ChangeMode
<1>2. \A o \in Options : Unpublished(o)' = Unpublished(o)
  BY <1>1, UnpublishedKept DEF voteVars
<1>3. /\ status' = "published" => status = "published"
      /\ mirror' = mirror \/ (mirror' = Null /\ status' # "published")
      /\ Loading => skew' = skew
      /\ retiring' => status' # "published"
  <2>1. CASE Retire
    <3>1. status' \in {"closed", "archived"} /\ mirror' = mirror /\ skew' = skew
      BY <2>1 DEF Retire
    <3> QED BY <3>1
  <2>2. CASE Evict
    BY <2>2 DEF Evict, Evicted, OpenIsKept
  <2>3. CASE ChangeMode
    BY <2>3 DEF ChangeMode, OpenIsKept
  <2> QED BY <2>1, <2>2, <2>3
<1>4. /\ mirror' # Null => mirror' = mirror /\ skew' = skew
      /\ status' = "published" => mirror' = mirror /\ skew' = skew
  BY DEF Retire, Evict, ChangeMode, Evicted, OpenIsKept
<1>5. \A counts : Tracks(counts) /\ skew' = skew => Tracks(counts)'
  BY <1>1, TracksKept DEF voteVars
<1>6. MirrorTracks'
  BY <1>4, <1>5 DEF MirrorTracks
<1>7. LoadsTrack'
  BY <1>1, <1>3, <1>5 DEF LoadsTrack, Loading, socketVars
<1>8. ResultsReached' /\ ConnectedFirst' /\ OpenIsKept'
  BY <1>1, <1>3 DEF ResultsReached, ConnectedFirst, OpenIsKept, voteVars, socketVars
<1>9. NothingShownEarly' /\ WatchersTracked'
  BY <1>1, <1>3, <1>4 DEF NothingShownEarly, NotAhead, WatchersTracked, Watching,
                          voteVars, socketVars
<1> QED BY <1>6, <1>7, <1>8, <1>9

LEMMA StutterLive ==
    ASSUME LiveInd, UNCHANGED vars
    PROVE  LiveInd'
<1>1. \A counts : Tracks(counts)' = Tracks(counts)
  BY TracksKept DEF vars, voteVars
<1>2. MirrorTracks' /\ LoadsTrack'
  BY <1>1 DEF LiveInd, MirrorTracks, LoadsTrack, vars, socketVars
<1> QED BY <1>2 DEF LiveInd, TypeOK, ResultsReached, ConnectedFirst, OpenIsKept,
                    NothingShownEarly, NotAhead, WatchersTracked, Watching,
                    vars, voteVars, pollVars, socketVars

-----------------------------------------------------------------------------
LEMMA LiveIndStep ==
    ASSUME LiveInd, [Next]_vars
    PROVE  LiveInd'
<1>1. TypeOK'
  BY LiveTypeStep DEF LiveInd
<1> QED BY <1>1, CommitLive, PublishLive, LoseLive, QuietLive, SubscribeLive, ReadLive,
           LoadLive, LoadFailsLive, RetireLive, StutterLive DEF Next

LEMMA LiveIndInit == Init => LiveInd
<1> SUFFICES ASSUME Init PROVE LiveInd
  OBVIOUS
<1>1. TypeOK
  BY LiveTypeInit
<1>2. MirrorTracks /\ LoadsTrack /\ ResultsReached /\ ConnectedFirst /\ OpenIsKept
  BY DEF Init, MirrorTracks, LoadsTrack, ResultsReached, ConnectedFirst, OpenIsKept
<1>3. NothingShownEarly /\ WatchersTracked
  BY DEF Init, NothingShownEarly, WatchersTracked, Watching, Unsent
<1> QED BY <1>1, <1>2, <1>3 DEF LiveInd

\* The strengthening of the three properties below is inductive.
THEOREM LiveInvariant == Spec => []LiveInd
BY LiveIndInit, LiveIndStep, PTL DEF Spec

\* The mirror lags the database by exactly the votes still to be broadcast, but
\* for a load that overlapped a vote, an option named twice (ahead only) and a
\* lost reply (behind only) (applyDelta, load and evict).
THEOREM MirrorTracksHolds == Spec => []MirrorTracks
<1>1. LiveInd => MirrorTracks
  BY DEF LiveInd
<1> QED BY <1>1, LiveInvariant, PTL

\* As long as no load overlapped a vote and no vote named an option twice, nobody
\* is shown a count of an open poll the database has not reached (applyDelta after
\* COMMIT, load); lost replies and failed loads do not matter.
THEOREM NothingShownEarlyHolds == Spec => []NothingShownEarly
<1>1. LiveInd => NothingShownEarly
  BY DEF LiveInd
<1> QED BY <1>1, LiveInvariant, PTL

\* As long as nothing set the mirror and the tallies apart, everyone watching an
\* open poll whose load did not fail has been sent its counts once things settle
\* (handleSubscribe, broadcast).
THEOREM WatchersUpToDateHolds == Spec => []WatchersUpToDate
<1>1. ASSUME LiveInd PROVE WatchersUpToDate
  <2> SUFFICES ASSUME Settled, status = "published", skew = {}, NEW s \in Watching \ unanswered
               PROVE  sent[s] = stored
    BY DEF WatchersUpToDate
  <2>1. s \in Sockets /\ handler[s] = "none" /\ NotAhead /\ NotBehind
    BY <1>1 DEF Settled, Watching, LiveInd, TypeOK, NotAhead, NotBehind
  <2>2. mirror # Null /\ sent[s] = mirror
    BY <1>1, <2>1 DEF LiveInd, WatchersTracked
  <2>3. mirror \in [Options -> Nat] /\ stored \in [Options -> Nat]
    BY <1>1, <2>2 DEF LiveInd, TypeOK, Counts
  <2>4. \A o \in Options : mirror[o] = stored[o]
    <3> TAKE o \in Options
    <3>1. Unpublished(o) = 0
      BY UnpublishedNone DEF Settled
    <3>2. mirror[o] + Unpublished(o) <= stored[o] /\ mirror[o] + Unpublished(o) >= stored[o]
      BY <1>1, <2>1, <2>2 DEF LiveInd, MirrorTracks, Tracks
    <3>3. mirror[o] \in Nat /\ stored[o] \in Nat
      BY <2>3
    <3> QED BY <3>1, <3>2, <3>3
  <2> QED BY <2>2, <2>3, <2>4
<1> QED BY <1>1, LiveInvariant, PTL
=============================================================================
