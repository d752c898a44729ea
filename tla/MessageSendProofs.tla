-------------------------- MODULE MessageSendProofs --------------------------
(***************************************************************************)
(* For any messages, recipients, retries and restarts: MessageSend keeps   *)
(* its invariants, does not transmit what is sent, and implements Outbox.  *)
(***************************************************************************)
EXTENDS MessageSend, TLAPS

\* What is known of a message: nothing before its row exists; a task whose
\* results are all Ok has delivered to everyone; the transmissions made and
\* still to be made are counted, and a message in the resize queue will be
\* requested once.
Sound(m) ==
    /\ m \notin stored =>
           /\ requests[m] = 0 /\ sending[m] = 0 /\ succeeded[m] = 0 /\ failing[m] = 0
           /\ transmitted[m] = 0 /\ retries[m] = 0
    /\ succeeded[m] > 0 \/ m \in sent => received[m] = Recipients
    /\ Queued(m) => Underway(m) \/ m \in refused
    /\ transmitted[m] + requests[m] + sending[m] <= 1 + retries[m]
    /\ m \in resizing => transmitted[m] + requests[m] + sending[m] <= retries[m]

\* A message without a row has no task.
UntouchedBefore ==
    \A m \in Messages \ stored :
        requests[m] = 0 /\ sending[m] = 0 /\ succeeded[m] = 0 /\ failing[m] = 0

Inv == TypeOK /\ \A m \in Messages : Sound(m)

-----------------------------------------------------------------------------
(* Counters.                                                               *)

LEMMA MoreLess ==
    ASSUME NEW f \in Counts, NEW m \in Messages
    PROVE  /\ More(f, m) \in Counts
           /\ More(f, m)[m] = f[m] + 1
           /\ \A n \in Messages : n # m => More(f, m)[n] = f[n]
           /\ f[m] > 0 => /\ Less(f, m) \in Counts
                          /\ Less(f, m)[m] = f[m] - 1
                          /\ \A n \in Messages : n # m => Less(f, m)[n] = f[n]
BY DEF Counts, More, Less

LEMMA NoneType == None \in Counts /\ \A m \in Messages : None[m] = 0
BY DEF None, Counts

-----------------------------------------------------------------------------
(* The invariant.                                                          *)

LEMMA InitInv == Init => Inv
<1> SUFFICES ASSUME Init PROVE Inv
  OBVIOUS
<1>1. 0 \in 0..MaxCrashes
  BY BoundsAssumption
<1>2. received \in [Messages -> SUBSET Recipients]
  BY DEF Init
<1> QED
  BY <1>1, <1>2, NoneType
  DEF Init, Inv, TypeOK, Sound, Queued

LEMMA TypeStep == TypeOK /\ UntouchedBefore /\ [Next]_vars => TypeOK'
<1> SUFFICES ASSUME TypeOK, UntouchedBefore, [Next]_vars PROVE TypeOK'
  OBVIOUS
<1> USE DEF TypeOK, rows, tasks, network
<1>1. ASSUME NEW m \in Messages, QueueMessage(m) PROVE TypeOK'
  BY <1>1, MoreLess DEF QueueMessage
<1>2. ASSUME NEW m \in Messages, AttachmentsResized(m) PROVE TypeOK'
  BY <1>2, MoreLess DEF AttachmentsResized
<1>3. ASSUME NEW m \in Messages, RetrySending(m) PROVE TypeOK'
  BY <1>3, MoreLess DEF RetrySending
<1>4. ASSUME NEW m \in Messages, SendMessage(m) PROVE TypeOK'
  BY <1>4, MoreLess DEF SendMessage
<1>5. ASSUME NEW m \in Messages, GiveUp(m) PROVE TypeOK'
  <2>1. m \in stored
    BY <1>5 DEF GiveUp, UntouchedBefore
  <2> QED
    BY <1>5, <2>1, MoreLess DEF GiveUp
<1>6. ASSUME NEW m \in Messages, NEW ok \in SUBSET Recipients, DeliverMessage(m, ok) PROVE TypeOK'
  BY <1>6, MoreLess DEF DeliverMessage
<1>7. ASSUME NEW m \in Messages, WriteSuccess(m) PROVE TypeOK'
  <2>1. m \in stored
    BY <1>7 DEF WriteSuccess, UntouchedBefore
  <2> QED
    BY <1>7, <2>1, MoreLess DEF WriteSuccess, DequeueMessage
<1>8. ASSUME NEW m \in Messages, WriteFailure(m) PROVE TypeOK'
  <2>1. m \in stored
    BY <1>8 DEF WriteFailure, UntouchedBefore
  <2> QED
    BY <1>8, <2>1, MoreLess DEF WriteFailure, FailMessage
<1>9. CASE Restart
  <2>1. crashes' \in 0..MaxCrashes
    BY <1>9, BoundsAssumption DEF Restart
  <2> QED
    BY <1>9, <2>1, NoneType DEF Restart, MarkPendingMessagesFailed
<1>10. CASE UNCHANGED vars
  BY <1>10 DEF vars
<1> QED
  BY <1>1, <1>2, <1>3, <1>4, <1>5, <1>6, <1>7, <1>8, <1>9, <1>10 DEF Next

\* A step that leaves everything about a message alone.
Untouched(m) ==
    /\ m \in stored' <=> m \in stored
    /\ m \in sent' <=> m \in sent
    /\ m \in failed' <=> m \in failed
    /\ m \in resizing' <=> m \in resizing
    /\ m \in refused' <=> m \in refused
    /\ requests'[m] = requests[m] /\ sending'[m] = sending[m]
    /\ succeeded'[m] = succeeded[m] /\ failing'[m] = failing[m]
    /\ transmitted'[m] = transmitted[m] /\ retries'[m] = retries[m]
    /\ received'[m] = received[m]

LEMMA Frame ==
    ASSUME NEW m \in Messages, Untouched(m), Sound(m)
    PROVE  Sound(m)'
BY DEF Untouched, Sound, Queued, Underway

\* A step of one message leaves the others alone.
LEMMA OthersUntouched ==
    ASSUME TypeOK, UntouchedBefore, NEW m \in Messages, NEW n \in Messages, m # n,
           \/ QueueMessage(n) \/ AttachmentsResized(n) \/ RetrySending(n)
           \/ SendMessage(n) \/ GiveUp(n) \/ WriteSuccess(n) \/ WriteFailure(n)
           \/ \E ok \in SUBSET Recipients : DeliverMessage(n, ok)
    PROVE  Untouched(m)
<1> USE DEF Untouched, rows, tasks, network
<1>c. /\ requests \in Counts /\ sending \in Counts /\ succeeded \in Counts
      /\ failing \in Counts /\ transmitted \in Counts /\ retries \in Counts
      /\ received \in [Messages -> SUBSET Recipients]
  BY DEF TypeOK
<1>1. CASE QueueMessage(n)
  BY <1>1, <1>c, MoreLess DEF QueueMessage
<1>2. CASE AttachmentsResized(n)
  BY <1>2, <1>c, MoreLess DEF AttachmentsResized
<1>3. CASE RetrySending(n)
  BY <1>3, <1>c, MoreLess DEF RetrySending
<1>4. CASE SendMessage(n)
  BY <1>4, <1>c, MoreLess DEF SendMessage
<1>5. CASE GiveUp(n)
  BY <1>5, <1>c, MoreLess DEF GiveUp
<1>6. CASE WriteSuccess(n)
  BY <1>6, <1>c, MoreLess DEF WriteSuccess, DequeueMessage
<1>7. CASE WriteFailure(n)
  BY <1>7, <1>c, MoreLess DEF WriteFailure, FailMessage
<1>8. ASSUME NEW ok \in SUBSET Recipients, DeliverMessage(n, ok) PROVE Untouched(m)
  <2>1. received'[m] = received[m]
    BY <1>8, <1>c DEF DeliverMessage
  <2> QED
    BY <1>8, <2>1, <1>c, MoreLess DEF DeliverMessage
<1> QED
  BY <1>1, <1>2, <1>3, <1>4, <1>5, <1>6, <1>7, <1>8

\* The step of a message keeps what is known of it.
LEMMA OwnStep ==
    ASSUME TypeOK, NEW m \in Messages, Sound(m),
           \/ QueueMessage(m) \/ AttachmentsResized(m) \/ RetrySending(m)
           \/ SendMessage(m) \/ GiveUp(m) \/ WriteSuccess(m) \/ WriteFailure(m)
           \/ \E ok \in SUBSET Recipients : DeliverMessage(m, ok)
    PROVE  Sound(m)'
<1> USE DEF Sound, Queued, Underway, rows, tasks, network
<1>c. /\ requests \in Counts /\ sending \in Counts /\ succeeded \in Counts
      /\ failing \in Counts /\ transmitted \in Counts /\ retries \in Counts
      /\ received \in [Messages -> SUBSET Recipients]
      /\ sent \subseteq stored /\ failed \subseteq stored /\ resizing \subseteq stored
  BY DEF TypeOK
<1>n. /\ requests[m] \in Nat /\ sending[m] \in Nat /\ succeeded[m] \in Nat
      /\ failing[m] \in Nat /\ transmitted[m] \in Nat /\ retries[m] \in Nat
  BY <1>c DEF Counts
<1>1. CASE QueueMessage(m)
  BY <1>1, <1>c, <1>n, MoreLess DEF QueueMessage
<1>2. CASE AttachmentsResized(m)
  BY <1>2, <1>c, <1>n, MoreLess DEF AttachmentsResized
<1>3. CASE RetrySending(m)
  BY <1>3, <1>c, <1>n, MoreLess DEF RetrySending
<1>4. CASE SendMessage(m)
  BY <1>4, <1>c, <1>n, MoreLess DEF SendMessage, NotYetSent
<1>5. CASE GiveUp(m)
  <2>1. /\ sending[m] > 0 /\ sending'[m] = sending[m] - 1
        /\ m \in refused'
        /\ UNCHANGED <<stored, sent, failed, resizing, requests, succeeded, failing,
                       received, transmitted, retries>>
    BY <1>5, <1>c, MoreLess DEF GiveUp
  <2>2. m \in stored
    BY <2>1, <1>n
  <2> QED
    BY <2>1, <2>2, <1>n
<1>6. CASE WriteSuccess(m)
  BY <1>6, <1>c, <1>n, MoreLess DEF WriteSuccess, DequeueMessage
<1>7. CASE WriteFailure(m)
  BY <1>7, <1>c, <1>n, MoreLess DEF WriteFailure, FailMessage
<1>8. ASSUME NEW ok \in SUBSET Recipients, DeliverMessage(m, ok) PROVE Sound(m)'
  <2>1. received'[m] = received[m] \cup ok
    BY <1>8, <1>c DEF DeliverMessage
  <2>2. received[m] \subseteq Recipients
    BY <1>c
  <2> QED
    BY <1>8, <2>1, <2>2, <1>c, <1>n, MoreLess DEF DeliverMessage, AllOk
<1> QED
  BY <1>1, <1>2, <1>3, <1>4, <1>5, <1>6, <1>7, <1>8

LEMMA InvStep == Inv /\ [Next]_vars => Inv'
<1> SUFFICES ASSUME Inv, [Next]_vars PROVE Inv'
  OBVIOUS
<1>t. TypeOK /\ UntouchedBefore /\ \A m \in Messages : Sound(m)
  BY DEF Inv, UntouchedBefore, Sound
<1>1. TypeOK'
  BY <1>t, TypeStep
<1>2. ASSUME NEW m \in Messages PROVE Sound(m)'
  <2>s. Sound(m)
    BY <1>t
  <2>1. ASSUME NEW n \in Messages,
               \/ QueueMessage(n) \/ AttachmentsResized(n) \/ RetrySending(n)
               \/ SendMessage(n) \/ GiveUp(n) \/ WriteSuccess(n) \/ WriteFailure(n)
               \/ \E ok \in SUBSET Recipients : DeliverMessage(n, ok)
        PROVE  Sound(m)'
    <3>1. CASE n = m
      BY <2>1, <2>s, <1>t, <3>1, OwnStep
    <3>2. CASE n # m
      <4>1. Untouched(m)
        BY <2>1, <1>t, <3>2, OthersUntouched
      <4> QED
        BY <4>1, <2>s, Frame
    <3> QED
      BY <3>1, <3>2
  <2>2. CASE Restart
    <3>1. /\ requests'[m] = 0 /\ sending'[m] = 0 /\ succeeded'[m] = 0 /\ failing'[m] = 0
          /\ resizing' = {} /\ stored' = stored /\ sent' = sent
          /\ failed' = failed \cup (stored \ sent)
          /\ transmitted' = transmitted /\ retries' = retries /\ received' = received
          /\ refused' = refused
      BY <2>2, NoneType DEF Restart, MarkPendingMessagesFailed, network
    <3>2. /\ requests[m] \in Nat /\ sending[m] \in Nat
          /\ transmitted[m] \in Nat /\ retries[m] \in Nat
      BY <1>t DEF TypeOK, Counts
    <3> QED
      BY <3>1, <3>2, <2>s DEF Sound, Queued, Underway
  <2>3. CASE UNCHANGED vars
    <3>1. Untouched(m)
      BY <2>3 DEF vars, rows, tasks, network, Untouched
    <3> QED
      BY <3>1, <2>s, Frame
  <2> QED
    BY <2>1, <2>2, <2>3 DEF Next
<1> QED
  BY <1>1, <1>2 DEF Inv

\* The inductive invariant holds of every behaviour.
THEOREM InvHolds == Spec => []Inv
BY InitInv, InvStep, PTL DEF Spec

\* Type correctness.
THEOREM TypeCorrect == Spec => []TypeOK
<1>1. Inv => TypeOK
  BY DEF Inv
<1> QED
  BY <1>1, InvHolds, PTL

\* A message with the clock icon is on its way, or a task gave up on it.
THEOREM QueuedMeansUnderway == Spec => []QueuedIsUnderway
<1>1. Inv => QueuedIsUnderway
  BY DEF Inv, Sound, QueuedIsUnderway
<1> QED
  BY <1>1, InvHolds, PTL

\* A message marked as sent has reached all its recipients.
THEOREM SentMeansReceived == Spec => []SentWasReceived
<1>1. Inv => SentWasReceived
  BY DEF Inv, TypeOK, Sound, SentWasReceived
<1> QED
  BY <1>1, InvHolds, PTL

\* One transmission, and one for each press of "Retry sending".
THEOREM TransmissionsAreRequested == Spec => []TransmittedOnRequest
<1>1. Inv => TransmittedOnRequest
  <2> SUFFICES ASSUME Inv, NEW m \in Messages PROVE transmitted[m] <= 1 + retries[m]
    BY DEF TransmittedOnRequest
  <2>1. /\ requests[m] \in Nat /\ sending[m] \in Nat
        /\ transmitted[m] \in Nat /\ retries[m] \in Nat
    BY DEF Inv, TypeOK, Counts
  <2> QED
    BY <2>1 DEF Inv, Sound
<1> QED
  BY <1>1, InvHolds, PTL

-----------------------------------------------------------------------------
(* Steps.                                                                  *)

\* No task starts on a message that is sent.
LEMMA NoTaskOnceSent ==
    ASSUME TypeOK, [Next]_vars, NEW m \in Messages, m \in sent, sending[m] = 0
    PROVE  sending'[m] = 0
<1> USE DEF rows, tasks, network
<1>c. sending \in Counts
  BY DEF TypeOK
<1>1. ASSUME NEW n \in Messages,
             QueueMessage(n) \/ AttachmentsResized(n) \/ RetrySending(n)
               \/ WriteSuccess(n) \/ WriteFailure(n)
      PROVE  sending' = sending
  BY <1>1 DEF QueueMessage, AttachmentsResized, RetrySending, WriteSuccess, WriteFailure
<1>2. ASSUME NEW n \in Messages, SendMessage(n) PROVE sending'[m] = 0
  BY <1>2, <1>c, MoreLess DEF SendMessage, NotYetSent
<1>3. ASSUME NEW n \in Messages, GiveUp(n) PROVE sending'[m] = 0
  BY <1>3, <1>c, MoreLess DEF GiveUp
<1>4. ASSUME NEW n \in Messages, NEW ok \in SUBSET Recipients, DeliverMessage(n, ok)
      PROVE  sending'[m] = 0
  BY <1>4, <1>c, MoreLess DEF DeliverMessage
<1>5. CASE Restart
  BY <1>5, NoneType DEF Restart
<1>6. CASE UNCHANGED vars
  BY <1>6 DEF vars
<1> QED
  BY <1>1, <1>2, <1>3, <1>4, <1>5, <1>6 DEF Next

\* "Message already sent, refusing to retransmit" holds of every message whose
\* tasks have ended.
THEOREM SentStaysPut == Spec => SentIsNotRetransmitted
<1> DEFINE A == \A m \in Messages : m \in sent /\ sending[m] = 0 => sending'[m] = 0
<1>1. TypeOK /\ [Next]_vars => A
  BY NoTaskOnceSent
<1>2. A => [A]_vars
  OBVIOUS
<1>3. TypeOK /\ [Next]_vars => [A]_vars
  BY <1>1, <1>2
<1> HIDE DEF A
<1>4. Spec => [][A]_vars
  BY <1>3, TypeCorrect, PTL DEF Spec
<1> QED
  BY <1>4 DEF A, SentIsNotRetransmitted

-----------------------------------------------------------------------------
(* MessageSend implements Outbox.                                          *)

\* What a row stands for.
Shows(m, status) ==
    /\ m \in sent => status = "sent"
    /\ m \in failed \ sent => status = "failed"
    /\ Queued(m) => status = "queued"
    /\ m \notin stored => status = "none"

LEMMA StatusShows ==
    ASSUME TypeOK
    PROVE  \A m \in Messages : Shows(m, Status[m])
BY DEF TypeOK, Status, Shows, Queued

LEMMA StatusShowsNext ==
    ASSUME TypeOK'
    PROVE  \A m \in Messages : Shows(m, Status[m])'
BY DEF TypeOK, Status, Shows, Queued

\* Rows that do not change show the same.
LEMMA SameRows == UNCHANGED rows => UNCHANGED Status
BY DEF rows, Status, Queued

LEMMA InitImplements == Init => Promise!Init
BY DEF Init, Promise!Init, Status, Queued

\* Every step is one of Outbox's, or changes nothing the user sees.
LEMMA StepImplements ==
    ASSUME Inv, Inv', [Next]_vars
    PROVE  [Promise!Next]_<<Status, received>>
<1> USE DEF tasks, network
<1>t. /\ TypeOK /\ TypeOK'
      /\ UntouchedBefore
      /\ \A m \in Messages : succeeded[m] > 0 => received[m] = Recipients
  BY DEF Inv, Sound, UntouchedBefore
<1>s. \A m \in Messages : Shows(m, Status[m]) /\ Shows(m, Status[m])'
  BY <1>t, StatusShows, StatusShowsNext
<1>f. /\ DOMAIN Status = Messages
      /\ Status = [m \in Messages |-> Status[m]]
      /\ Status' = [m \in Messages |-> Status'[m]]
  BY DEF Status
<1>0. ASSUME UNCHANGED <<rows, received>> PROVE UNCHANGED <<Status, received>>
  BY <1>0, SameRows
<1>1. ASSUME NEW m \in Messages, QueueMessage(m) PROVE Promise!Submit(m)
  <2>1. /\ m \notin stored /\ stored' = stored \cup {m}
        /\ sent' = sent /\ failed' = failed /\ received' = received
        /\ m \notin sent /\ m \notin failed
    BY <1>1, <1>t DEF QueueMessage, TypeOK
  <2>2. Status[m] = "none" /\ Status'[m] = "queued"
    BY <2>1, <1>s DEF Shows, Queued
  <2>3. \A n \in Messages : n # m => Status'[n] = Status[n]
    BY <2>1 DEF Status, Queued
  <2>4. Status' = [Status EXCEPT ![m] = "queued"]
    BY <2>2, <2>3, <1>f
  <2> QED
    BY <2>1, <2>2, <2>4 DEF Promise!Submit
<1>2. ASSUME NEW m \in Messages,
             AttachmentsResized(m) \/ RetrySending(m) \/ SendMessage(m) \/ GiveUp(m)
      PROVE  UNCHANGED <<Status, received>>
  BY <1>2, <1>0 DEF AttachmentsResized, RetrySending, SendMessage, GiveUp
<1>3. ASSUME NEW m \in Messages, NEW ok \in SUBSET Recipients, DeliverMessage(m, ok)
      PROVE  Promise!Deliver(m, ok)
  <2>1. m \in stored
    BY <1>3, <1>t DEF DeliverMessage, UntouchedBefore
  <2>2. Status[m] # "none"
    BY <2>1, <1>s DEF Shows, Queued
  <2>3. UNCHANGED Status
    BY <1>3, SameRows DEF DeliverMessage
  <2> QED
    BY <1>3, <2>2, <2>3 DEF DeliverMessage, Promise!Deliver
<1>4. ASSUME NEW m \in Messages, WriteSuccess(m)
      PROVE  Promise!Succeed(m) \/ UNCHANGED <<Status, received>>
  <2>1. /\ m \in stored /\ received[m] = Recipients /\ received' = received
        /\ sent' = sent \cup {m} /\ failed' = failed \ {m} /\ stored' = stored
    BY <1>4, <1>t DEF WriteSuccess, DequeueMessage, UntouchedBefore, TypeOK, Counts
  <2>2. \A n \in Messages : n # m => Status'[n] = Status[n]
    BY <2>1 DEF Status, Queued
  <2>3. Status'[m] = "sent"
    BY <2>1, <1>s DEF Shows
  <2>4. Status' = [Status EXCEPT ![m] = "sent"]
    BY <2>2, <2>3, <1>f
  <2>5. CASE m \in sent
    <3>1. Status[m] = "sent"
      BY <2>5, <1>s DEF Shows
    <3> QED
      BY <3>1, <2>1, <2>4, <1>f
  <2>6. CASE m \notin sent
    <3>1. Status[m] \in {"queued", "failed"}
      BY <2>1, <2>6, <1>s DEF Shows, Queued
    <3> QED
      BY <3>1, <2>1, <2>4 DEF Promise!Succeed
  <2> QED
    BY <2>5, <2>6
<1>5. ASSUME NEW m \in Messages, WriteFailure(m)
      PROVE  Promise!Fail({m}) \/ UNCHANGED <<Status, received>>
  <2>1. /\ m \in stored /\ received' = received
        /\ failed' = failed \cup {m} /\ sent' = sent /\ stored' = stored
    BY <1>5, <1>t DEF WriteFailure, FailMessage, UntouchedBefore, TypeOK, Counts
  <2>2. \A n \in Messages : n # m => Status'[n] = Status[n]
    BY <2>1 DEF Status, Queued
  <2>3. CASE Queued(m)
    <3>1. Status[m] = "queued" /\ Status'[m] = "failed"
      BY <2>1, <2>3, <1>s DEF Shows, Queued
    <3> QED
      BY <3>1, <2>1, <2>2, <1>f DEF Promise!Fail
  <2>4. CASE ~Queued(m)
    <3>1. Status'[m] = Status[m]
      BY <2>1, <2>4, <1>s DEF Shows, Queued
    <3> QED
      BY <3>1, <2>1, <2>2, <1>f
  <2> QED
    BY <2>3, <2>4
<1>6. CASE Restart
  <2> DEFINE ms == {m \in Messages : Queued(m)}
  <2>1. /\ failed' = failed \cup (stored \ sent) /\ sent' = sent
        /\ stored' = stored /\ received' = received
    BY <1>6 DEF Restart, MarkPendingMessagesFailed
  <2>2. \A m \in ms : Status[m] = "queued"
    BY <1>s DEF Shows
  <2>3. ASSUME NEW m \in Messages
        PROVE  Status'[m] = IF m \in ms THEN "failed" ELSE Status[m]
    BY <2>1, <1>s DEF Shows, Queued
  <2>4. Promise!Fail(ms)
    BY <2>1, <2>2, <2>3, <1>f DEF Promise!Fail
  <2> QED
    BY <2>4 DEF Promise!Next
<1>7. CASE UNCHANGED vars
  BY <1>7, <1>0 DEF vars
<1> QED
  BY <1>1, <1>2, <1>3, <1>4, <1>5, <1>6, <1>7 DEF Next, Promise!Next

\* What the user sees follows Outbox.
THEOREM OutboxImplemented == Spec => ImplementsOutbox
<1>1. Inv /\ Inv' /\ [Next]_vars => [Promise!Next]_<<Status, received>>
  BY StepImplements
<1> QED
  BY <1>1, InitImplements, InvHolds, PTL DEF Spec, ImplementsOutbox, Promise!Spec
=============================================================================
