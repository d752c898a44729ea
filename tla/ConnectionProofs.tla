-------------------------- MODULE ConnectionProofs --------------------------
(***************************************************************************)
(* For any envelopes and any number of disconnections, failed attempts and *)
(* reconnects: the client always has a stream or an attempt on its way,    *)
(* never more of them than it was asked for, and the queue is called empty *)
(* only when it is.                                                        *)
(***************************************************************************)
EXTENDS Connection, FiniteSetTheorems, TLAPS

\* Attempts that do not overlap: one at a time, the stream they replace is
\* gone, and the stream there is belongs to the latest connection.
LatestOnly ==
    ~overlapped =>
        /\ connecting <= 1
        /\ connecting > 0 => streams = {}
        /\ streams \subseteq {handle} /\ streams \subseteq {last}

\* What the link keeps between two handlers.
LinkInv ==
    /\ AttemptNeverLost
    /\ OneAttempt
    /\ ConnectedIsLive
    /\ StaleSocketIsReplaced
    /\ LatestOnly

\* How the state machine of the queue relates to what was received: what is
\* not handled yet is expected, and nothing is left when it is done.
QueueInv ==
    /\ queueEmpty => queueState.phase = "Done"
    /\ queueState.phase = "Starting" => backlog = {}
    /\ queueState.phase \in {"Processing", "SignalSeen"} =>
           backlog \ handled \subseteq queueState.expected
    /\ queueState.phase = "Done" => backlog \subseteq handled
    /\ queueState.phase \in {"SignalSeen", "Done"} /\ ~overlapped => last \in drained

Inv == TypeOK /\ LinkInv /\ QueueInv

-----------------------------------------------------------------------------
(* The steps, by what they change.                                         *)

\* A step of the migrations.
StartupStep ==
    \/ WhoAmISucceeds \/ WhoAmIFails
    \/ \E gate \in Gates : LocalMigration(gate)
    \/ RefreshOwnProfile \/ RequestUpload \/ UpdateProfile
    \/ \E u \in Uploads : UploadProfile(u)

\* A step of the queue.
QueueStep ==
    \/ \E c \in Connections : QueueEmpty(c)
    \/ \E c \in Connections, e \in Guids : Receive(c, e) \/ Processed(c, e)

LEMMA StartupFrame ==
    ASSUME StartupStep
    PROVE  UNCHANGED <<link, queue, envelopes, last, history, counters>>
BY DEF StartupStep, WhoAmISucceeds, WhoAmIFails, LocalMigration, RefreshOwnProfile,
       RequestUpload, UpdateProfile, UploadProfile

LEMMA QueueFrame ==
    ASSUME QueueStep
    PROVE  UNCHANGED <<startup, link, last, overlapped, counters>>
BY DEF QueueStep, QueueEmpty, Receive, Processed, history

LEMMA NextSplit ==
    ASSUME Next
    PROVE  \/ StartupStep \/ QueueStep
           \/ HandleRestart \/ Connect \/ ConnectFails \/ Reconnect
           \/ \E c \in Connections : Finished(c)
BY DEF Next, StartupStep, QueueStep

\* The state machine stays one.
LEMMA QueueStateType ==
    ASSUME NEW s \in QueueStates, NEW e \in Guids
    PROVE  /\ ObserveGuid(s, e) \in QueueStates
           /\ ProcessedGuid(s, e) \in QueueStates
<1>1. ObserveGuid(s, e) \in QueueStates
  BY DEF QueueStates, ObserveGuid
<1>2. ProcessedGuid(s, e) \in QueueStates
  <2>1. s.expected \ {e} \in SUBSET Guids
    BY DEF QueueStates
  <2> QED
    BY <2>1 DEF QueueStates, ProcessedGuid
<1> QED
  BY <1>1, <1>2

LEMMA SignalStateType ==
    ASSUME NEW s \in QueueStates
    PROVE  ObserveSignal(s) \in QueueStates
BY DEF QueueStates, ObserveSignal

\* The streams are finitely many.
LEMMA StreamsFinite ==
    ASSUME TypeOK
    PROVE  IsFiniteSet(streams) /\ Cardinality(streams) \in Nat
<1>1. IsFiniteSet(1..last)
  BY FS_Interval DEF TypeOK
<1>2. IsFiniteSet(streams)
  BY <1>1, FS_Subset DEF TypeOK
<1> QED
  BY <1>2, FS_CardinalityType

-----------------------------------------------------------------------------
(* The invariant.                                                          *)

LEMMA InitInv == Init => Inv
<1> SUFFICES ASSUME Init PROVE Inv
  OBVIOUS
<1>1. TypeOK
  <2>1. 0 \in 0..MaxDisconnects /\ 0 \in 0..MaxFailures /\ 0 \in 0..MaxReconnects
    BY BoundsAssumption
  <2>2. queueState \in QueueStates
    BY DEF Init, Starting, QueueStates
  <2>3. sent \in [Connections -> SUBSET Guids]
    BY DEF Init
  <2>4. streams \subseteq 1..last /\ handle \in 0..last /\ socket \in 0..last
    BY DEF Init
  <2> QED
    BY <2>1, <2>2, <2>3, <2>4 DEF Init, TypeOK
<1>2. Cardinality(streams) = 0
  BY FS_EmptySet DEF Init
<1>3. LinkInv
  BY <1>2 DEF Init, LinkInv, AttemptNeverLost, OneAttempt, ConnectedIsLive,
              StaleSocketIsReplaced, LatestOnly
<1>4. QueueInv
  BY DEF Init, QueueInv, Starting
<1> QED
  BY <1>1, <1>3, <1>4 DEF Inv

LEMMA TypeStep == TypeOK /\ [Next]_vars => TypeOK'
<1> SUFFICES ASSUME TypeOK, [Next]_vars PROVE TypeOK'
  OBVIOUS
<1> USE DEF TypeOK, startup, link, queue, envelopes, history, counters
<1>1. CASE StartupStep
  <2>1. UNCHANGED <<link, queue, envelopes, last, history, counters>>
    BY <1>1, StartupFrame
  <2>2. /\ migrations' \subseteq Gates
        /\ whoami' \in {"running", "done", "failed"}
        /\ profile' \in {"running", "uploading", "done"}
        /\ uploads' \subseteq Uploads
        /\ hasKey' \in BOOLEAN
    BY <1>1 DEF StartupStep, WhoAmISucceeds, WhoAmIFails, LocalMigration, RefreshOwnProfile,
                RequestUpload, UpdateProfile, UploadProfile, ProfileReported, Gates, Uploads
  <2> QED
    BY <2>1, <2>2
<1>2. CASE QueueStep
  <2>1. UNCHANGED <<startup, link, last, overlapped, counters>>
    BY <1>2, QueueFrame
  <2>2. ASSUME NEW c \in Connections, QueueEmpty(c)
        PROVE  queueState' \in QueueStates /\ queueEmpty' \in BOOLEAN
               /\ drained' \subseteq Connections /\ UNCHANGED <<backlog, envelopes>>
    BY <2>2, SignalStateType DEF QueueEmpty, SetQueueState
  <2>3. ASSUME NEW c \in Connections, NEW e \in Guids, Receive(c, e)
        PROVE  /\ queueState' \in QueueStates
               /\ sent' \in [Connections -> SUBSET Guids]
               /\ opening' \subseteq Connections \X Guids
               /\ backlog' \subseteq Guids
               /\ UNCHANGED <<queueEmpty, handled, drained>>
    BY <2>3, QueueStateType DEF Receive
  <2>4. ASSUME NEW c \in Connections, NEW e \in Guids, Processed(c, e)
        PROVE  /\ queueState' \in QueueStates /\ queueEmpty' \in BOOLEAN
               /\ opening' \subseteq Connections \X Guids
               /\ handled' \subseteq Guids
               /\ UNCHANGED <<sent, backlog, drained>>
    BY <2>4, QueueStateType DEF Processed, SetQueueState
  <2> QED
    BY <1>2, <2>1, <2>2, <2>3, <2>4 DEF QueueStep
<1>3. CASE HandleRestart
  <2>1. restarts' \in Nat /\ connecting' \in Nat
    BY <1>3 DEF HandleRestart
  <2>2. connected' \in BOOLEAN
    BY <1>3 DEF HandleRestart, Disconnected
  <2>3. streams' \subseteq 1..last /\ handle' \in 0..last
    BY <1>3 DEF HandleRestart, Cancelled
  <2> QED
    BY <1>3, <2>1, <2>2, <2>3 DEF HandleRestart
<1>4. CASE Connect
  <2>1. connecting' \in Nat /\ last' \in Nat
    BY <1>4 DEF Connect
  <2>2. streams' \subseteq 1..last' /\ handle' \in 0..last' /\ socket' \in 0..last'
    BY <1>4 DEF Connect
  <2>3. queueState' \in QueueStates /\ queueEmpty' \in BOOLEAN /\ connected' \in BOOLEAN
    BY <1>4 DEF Connect, QueueReset, Starting, QueueStates
  <2> QED
    BY <1>4, <2>1, <2>2, <2>3 DEF Connect
<1>5. CASE ConnectFails
  BY <1>5, BoundsAssumption DEF ConnectFails, RestartNotified
<1>6. CASE Reconnect
  BY <1>6, BoundsAssumption DEF Reconnect
<1>7. ASSUME NEW c \in Connections, Finished(c) PROVE TypeOK'
  <2>1. disconnects' \in 0..MaxDisconnects /\ restarts' \in Nat
    BY <1>7, BoundsAssumption DEF Finished, RestartNotified
  <2>2. connected' \in BOOLEAN
    BY <1>7 DEF Finished, Disconnected
  <2>3. streams' \subseteq 1..last /\ socket' \in 0..last
    BY <1>7 DEF Finished
  <2> QED
    BY <1>7, <2>1, <2>2, <2>3 DEF Finished
<1>8. CASE UNCHANGED vars
  BY <1>8 DEF vars
<1> QED
  BY <1>1, <1>2, <1>3, <1>4, <1>5, <1>6, <1>7, <1>8, NextSplit

\* The count of streams and attempts, and the shape of what is connected.
LEMMA LinkStep == TypeOK /\ LinkInv /\ [Next]_vars => LinkInv'
<1> SUFFICES ASSUME TypeOK, LinkInv, [Next]_vars PROVE LinkInv'
  OBVIOUS
<1> USE DEF history
<1>c. IsFiniteSet(streams) /\ Cardinality(streams) \in Nat
  BY StreamsFinite
<1>t. /\ restarts \in Nat /\ connecting \in Nat /\ reconnects \in Nat
      /\ last \in Nat /\ streams \subseteq 1..last /\ handle \in 0..last
      /\ socket \in 0..last /\ connected \in BOOLEAN
  BY DEF TypeOK
<1> DEFINE kept == UNCHANGED <<link, last, reconnects, overlapped>>
<1>0. ASSUME kept PROVE LinkInv'
  BY <1>0 DEF LinkInv, AttemptNeverLost, OneAttempt, ConnectedIsLive, StaleSocketIsReplaced,
              LatestOnly, link
<1>1. CASE StartupStep
  BY <1>0, <1>1, StartupFrame DEF counters
<1>2. CASE QueueStep
  BY <1>0, <1>2, QueueFrame DEF counters
<1>3. CASE HandleRestart
  <2> USE <1>3 DEF HandleRestart, Cancelled, Disconnected, counters
  <2>1. Cardinality(streams') \in Nat /\ Cardinality(streams') <= Cardinality(streams)
    BY <1>c, FS_Subset, FS_CardinalityType
  <2>2. restarts' + connecting' = restarts + connecting /\ connecting' > 0 /\ restarts' \in Nat
    BY <1>t
  <2>3. OneAttempt'
    BY <1>c, <1>t, <2>1, <2>2 DEF LinkInv, OneAttempt
  <2>4. AttemptNeverLost' /\ StaleSocketIsReplaced' /\ ConnectedIsLive'
    BY <1>t, <2>2 DEF LinkInv, AttemptNeverLost, StaleSocketIsReplaced, ConnectedIsLive
  <2>5. ~overlapped' => ~overlapped /\ ~(connecting > 0)
    OBVIOUS
  <2>6. ASSUME ~overlapped' PROVE connecting' <= 1 /\ streams' = {}
    BY <1>t, <2>5, <2>6 DEF LinkInv, LatestOnly
  <2>7. LatestOnly'
    BY <2>6 DEF LatestOnly
  <2> QED
    BY <2>3, <2>4, <2>7 DEF LinkInv
<1>4. CASE Connect
  <2> USE <1>4 DEF Connect, counters
  <2>1. last + 1 \notin streams
    BY <1>t
  <2>2. Cardinality(streams') = Cardinality(streams) + 1
    BY <1>c, <2>1, FS_AddElement
  <2>3. OneAttempt'
    BY <1>c, <1>t, <2>2 DEF LinkInv, OneAttempt
  <2>4. AttemptNeverLost' /\ StaleSocketIsReplaced' /\ ConnectedIsLive'
    BY DEF AttemptNeverLost, StaleSocketIsReplaced, ConnectedIsLive
  <2>6. LatestOnly'
    BY <1>t DEF LinkInv, LatestOnly
  <2> QED
    BY <2>3, <2>4, <2>6 DEF LinkInv
<1>5. CASE ConnectFails
  BY <1>5, <1>c, <1>t DEF ConnectFails, RestartNotified, LinkInv, AttemptNeverLost, OneAttempt,
       ConnectedIsLive, StaleSocketIsReplaced, LatestOnly
<1>6. CASE Reconnect
  BY <1>6, <1>c, <1>t DEF Reconnect, LinkInv, AttemptNeverLost, OneAttempt,
       ConnectedIsLive, StaleSocketIsReplaced, LatestOnly
<1>7. ASSUME NEW c \in Connections, Finished(c) PROVE LinkInv'
  <2> USE <1>7 DEF Finished, Disconnected, RestartNotified
  <2>1. Cardinality(streams') = Cardinality(streams) - 1
    BY <1>c, FS_RemoveElement
  <2>2. OneAttempt'
    BY <1>c, <1>t, <2>1 DEF LinkInv, OneAttempt
  <2>3. AttemptNeverLost' /\ StaleSocketIsReplaced' /\ ConnectedIsLive' /\ LatestOnly'
    BY <1>t DEF LinkInv, AttemptNeverLost, StaleSocketIsReplaced, ConnectedIsLive, LatestOnly
  <2> QED
    BY <2>2, <2>3 DEF LinkInv
<1>8. CASE UNCHANGED vars
  BY <1>0, <1>8 DEF vars, counters
<1> QED
  BY <1>1, <1>2, <1>3, <1>4, <1>5, <1>6, <1>7, <1>8, NextSplit

\* The state machine of the queue.
LEMMA QueueStepInv == TypeOK /\ LinkInv /\ QueueInv /\ [Next]_vars => QueueInv'
<1> SUFFICES ASSUME TypeOK, LinkInv, QueueInv, [Next]_vars PROVE QueueInv'
  OBVIOUS
<1> USE DEF history
<1>t. /\ queueState \in QueueStates /\ queueEmpty \in BOOLEAN
      /\ backlog \subseteq Guids /\ handled \subseteq Guids
      /\ reconnects \in Nat
  BY DEF TypeOK
<1> DEFINE kept == UNCHANGED <<queue, handled, last, drained>>
<1>0. ASSUME kept, ~overlapped' => ~overlapped PROVE QueueInv'
  BY <1>0 DEF QueueInv, queue
<1>1. CASE StartupStep
  BY <1>0, <1>1, StartupFrame DEF envelopes, counters
<1>2. ASSUME NEW c \in Connections, QueueEmpty(c) PROVE QueueInv'
  <2> USE <1>2 DEF QueueEmpty, SetQueueState, counters, envelopes
  <2>1. ~overlapped => last \in drained'
    BY DEF LinkInv, LatestOnly
  <2>2. CASE queueState.phase = "Starting"
    BY <1>t, <2>1, <2>2 DEF QueueInv, ObserveSignal, QueueStates
  <2>3. CASE queueState.phase = "Processing"
    BY <1>t, <2>1, <2>3 DEF QueueInv, ObserveSignal, QueueStates
  <2>4. CASE queueState.phase \in {"SignalSeen", "Done"}
    BY <1>t, <2>1, <2>4 DEF QueueInv, ObserveSignal, QueueStates
  <2> QED
    BY <1>t, <2>2, <2>3, <2>4 DEF QueueStates
<1>3. ASSUME NEW c \in Connections, NEW e \in Guids, Receive(c, e) PROVE QueueInv'
  <2> USE <1>3 DEF Receive, counters
  <2>1. CASE queueState.phase = "Starting"
    BY <1>t, <2>1 DEF QueueInv, ObserveGuid, QueueStates
  <2>2. CASE queueState.phase = "Processing"
    BY <1>t, <2>2 DEF QueueInv, ObserveGuid, QueueStates
  <2>3. CASE queueState.phase \in {"SignalSeen", "Done"}
    BY <1>t, <2>3 DEF QueueInv, ObserveGuid, QueueStates
  <2> QED
    BY <1>t, <2>1, <2>2, <2>3 DEF QueueStates
<1>4. ASSUME NEW c \in Connections, NEW e \in Guids, Processed(c, e) PROVE QueueInv'
  <2> USE <1>4 DEF Processed, SetQueueState, counters
  <2>1. CASE queueState.phase = "SignalSeen"
    BY <1>t, <2>1 DEF QueueInv, ProcessedGuid, QueueStates
  <2>2. CASE queueState.phase = "Processing"
    BY <1>t, <2>2 DEF QueueInv, ProcessedGuid, QueueStates
  <2>3. CASE queueState.phase \in {"Starting", "Done"}
    BY <1>t, <2>3 DEF QueueInv, ProcessedGuid, QueueStates
  <2> QED
    BY <1>t, <2>1, <2>2, <2>3 DEF QueueStates
<1>5. CASE HandleRestart
  <2>1. ~overlapped' => ~overlapped
    BY <1>5 DEF HandleRestart
  <2> QED
    BY <1>0, <1>5, <2>1 DEF HandleRestart, envelopes, counters
<1>6. CASE Connect
  BY <1>6 DEF Connect, QueueReset, Starting, QueueInv
<1>7. CASE ConnectFails
  BY <1>0, <1>7 DEF ConnectFails, envelopes
<1>8. CASE Reconnect
  BY <1>8, <1>t DEF Reconnect, QueueInv, queue, envelopes
<1>9. ASSUME NEW c \in Connections, Finished(c) PROVE QueueInv'
  BY <1>0, <1>9 DEF Finished, envelopes
<1>10. CASE UNCHANGED vars
  BY <1>0, <1>10 DEF vars, envelopes, counters
<1> QED
  BY <1>1, <1>2, <1>3, <1>4, <1>5, <1>6, <1>7, <1>8, <1>9, <1>10, NextSplit DEF QueueStep

\* The inductive invariant holds of every behaviour.
THEOREM InvHolds == Spec => []Inv
<1>1. Inv /\ [Next]_vars => Inv'
  BY TypeStep, LinkStep, QueueStepInv DEF Inv
<1> QED
  BY <1>1, InitInv, PTL DEF Spec

\* Type correctness.
THEOREM TypeCorrect == Spec => []TypeOK
<1>1. Inv => TypeOK
  BY DEF Inv
<1> QED
  BY <1>1, InvHolds, PTL

\* ClientActor never ends up without a stream and without a Restart on its way.
THEOREM AttemptIsNeverLost == Spec => []AttemptNeverLost
<1>1. Inv => AttemptNeverLost
  BY DEF Inv, LinkInv
<1> QED
  BY <1>1, InvHolds, PTL

\* Streams and attempts to connect multiply by presses of Reconnect only.
THEOREM AttemptsAreBounded == Spec => []OneAttempt
<1>1. Inv => OneAttempt
  BY DEF Inv, LinkInv
<1> QED
  BY <1>1, InvHolds, PTL

\* `connected` means a live stream, `identified_websocket` is stale only while
\* a Restart is due.
THEOREM SocketIsLive == Spec => [](ConnectedIsLive /\ StaleSocketIsReplaced)
<1>1. Inv => ConnectedIsLive /\ StaleSocketIsReplaced
  BY DEF Inv, LinkInv
<1> QED
  BY <1>1, InvHolds, PTL

\* QML's queueEmpty follows the last envelope received before the signal.
THEOREM EmptyIsEarned == Spec => []QueueEmptyIsEarned
<1>1. Inv => QueueEmptyIsEarned
  BY DEF Inv, QueueInv, QueueEmptyIsEarned
<1> QED
  BY <1>1, InvHolds, PTL

\* A stream without a handle is left by overlapping attempts only.
THEOREM ReplacedStreamsEnd == Spec => []StreamsAreReplaced
<1>1. Inv => StreamsAreReplaced
  BY DEF Inv, LinkInv, LatestOnly, StreamsAreReplaced
<1> QED
  BY <1>1, InvHolds, PTL

\* And it is about the present connection unless attempts overlapped.
THEOREM EmptyIsCurrent == Spec => []DrainedByOwnStream
<1>1. Inv => DrainedByOwnStream
  BY DEF Inv, QueueInv, DrainedByOwnStream
<1> QED
  BY <1>1, InvHolds, PTL
=============================================================================
