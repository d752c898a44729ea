----------------------------- MODULE MessageSend -----------------------------
(***************************************************************************)
(* How ClientActor sends a message.                                        *)
(*                                                                         *)
(* QueueMessage stores a row and asks for it to be sent, by way of the     *)
(* image resizing thread when it has pictures.  SendMessage looks at the   *)
(* row, then spawns a task: it waits for a connection, uploads what is     *)
(* attached, has DeliverMessage talk to every recipient and writes the     *)
(* outcome to the row.  Nothing ties the tasks of one message together:    *)
(* the row they looked at may be another one when they write.  The rows    *)
(* survive the end of the process, everything else is lost with it.        *)
(*                                                                         *)
(* Messages waiting in the mailbox and tasks are counted per message: they *)
(* differ in nothing else.  The recipients are those DeliverMessage sends  *)
(* to: a session's other, registered members.                              *)
(***************************************************************************)
EXTENDS Integers, FiniteSets

CONSTANTS
    Messages,    \* ids of outgoing messages
    Recipients,  \* whom every message is for
    MaxRetries,  \* bound: presses of "Retry sending", per message
    MaxCrashes   \* bound: ends of the process

ASSUME BoundsAssumption == MaxRetries \in Nat /\ MaxCrashes \in Nat

VARIABLES
    stored,      \* the rows of `messages` with is_outbound
    sent,        \* rows whose sent_timestamp is set
    failed,      \* rows whose sending_has_failed is set
    resizing,    \* messages in the resize queue or its threads
    requests,    \* SendMessage messages in the mailbox
    sending,     \* tasks that have not got the results of DeliverMessage
    succeeded,   \* tasks whose results are all Ok and not yet written
    failing,     \* tasks with another result, not yet written
    received,    \* who received each message
    transmitted, \* history: how often each message was transmitted
    refused,     \* history: messages a task gave up on before transmitting
    retries,     \* history: how often "Retry sending" was pressed
    crashes

rows == <<stored, sent, failed>>
tasks == <<requests, sending, succeeded, failing>>
network == <<received, transmitted>>
vars == <<rows, resizing, tasks, network, refused, retries, crashes>>

None == [m \in Messages |-> 0]

More(f, m) == [f EXCEPT ![m] = @ + 1]
Less(f, m) == [f EXCEPT ![m] = @ - 1]

\* Message::queued, what the clock icon stands for.
Queued(m) == m \in stored \ (sent \cup failed)

Init ==
    /\ stored = {} /\ sent = {} /\ failed = {}
    /\ resizing = {}
    /\ requests = None /\ sending = None /\ succeeded = None /\ failing = None
    /\ received = [m \in Messages |-> {}]
    /\ transmitted = None
    /\ refused = {}
    /\ retries = None
    /\ crashes = 0

-----------------------------------------------------------------------------
(* The store.                                                              *)

DequeueMessage(m) == sent' = sent \cup {m} /\ failed' = failed \ {m}

\* A failure that takes the timestamp back.
FailMessageUnsent(m) == failed' = failed \cup {m} /\ sent' = sent \ {m}

FailMessage(m) == failed' = failed \cup {m} /\ UNCHANGED sent

\* Any row without a timestamp, outbound or not.
MarkAnyRowFailed == failed' = failed \cup (Messages \ sent)

\* Only what failed to send before.
MarkNoneFailed == UNCHANGED failed

MarkPendingMessagesFailed == failed' = failed \cup (stored \ sent)

-----------------------------------------------------------------------------
(* ClientActor.                                                            *)

\* Handler<QueueMessage>, Handler<QueueExpiryUpdate>: without pictures the
\* message is sent at once.
QueueMessage(m) ==
    /\ m \notin stored
    /\ stored' = stored \cup {m}
    /\ \/ requests' = More(requests, m) /\ UNCHANGED resizing
       \/ resizing' = resizing \cup {m} /\ UNCHANGED requests
    /\ UNCHANGED <<sent, failed, sending, succeeded, failing, network, refused, retries, crashes>>

\* The resize queue lets its messages go in any order: current_job, which
\* would make them wait for each other, is never set.
AttachmentsResized(m) ==
    /\ m \in resizing
    /\ resizing' = resizing \ {m}
    /\ requests' = More(requests, m)
    /\ UNCHANGED <<rows, sending, succeeded, failing, network, refused, retries, crashes>>

\* "Retry sending", shown for a message whose row says failed.
RetrySending(m) ==
    /\ m \in failed
    /\ retries[m] < MaxRetries
    /\ retries' = More(retries, m)
    /\ requests' = More(requests, m)
    /\ UNCHANGED <<rows, resizing, sending, succeeded, failing, network, refused, crashes>>

\* What SendMessage looks at before it spawns the task.
NotYetSent(m) == m \notin sent

\* Handler<SendMessage> up to its future.
SendMessage(m) ==
    /\ requests[m] > 0
    /\ requests' = Less(requests, m)
    /\ sending' = IF NotYetSent(m) THEN More(sending, m) ELSE sending
    /\ UNCHANGED <<rows, resizing, succeeded, failing, network, refused, retries, crashes>>

\* The future ends before DeliverMessage: not a member, not an administrator
\* of an announcement group, an attachment that cannot be read or uploaded, no
\* sender.  QML gets messageNotSent, the row stays as it is.
GiveUp(m) ==
    /\ sending[m] > 0
    /\ sending' = Less(sending, m)
    /\ refused' = refused \cup {m}
    /\ UNCHANGED <<rows, resizing, requests, succeeded, failing, network, retries, crashes>>

\* Success is the success of one recipient.
AnyOk(ok) == ok # {}

AllOk(ok) == ok = Recipients

\* A task that stays where it is: it will deliver the message once more.
DeliverMessageRepeatedly(m, ok) ==
    /\ sending[m] > 0
    /\ received' = [received EXCEPT ![m] = @ \cup ok]
    /\ transmitted' = More(transmitted, m)
    /\ IF AllOk(ok)
       THEN succeeded' = More(succeeded, m) /\ UNCHANGED failing
       ELSE failing' = More(failing, m) /\ UNCHANGED succeeded
    /\ UNCHANGED <<rows, resizing, requests, sending, refused, retries, crashes>>

\* DeliverMessage: the message reaches `ok` and the results come back.  An
\* error instead of results is the failure of all.
DeliverMessage(m, ok) ==
    /\ sending[m] > 0
    /\ sending' = Less(sending, m)
    /\ received' = [received EXCEPT ![m] = @ \cup ok]
    /\ transmitted' = More(transmitted, m)
    /\ IF AllOk(ok)
       THEN succeeded' = More(succeeded, m) /\ UNCHANGED failing
       ELSE failing' = More(failing, m) /\ UNCHANGED succeeded
    /\ UNCHANGED <<rows, resizing, requests, refused, retries, crashes>>

\* The rest of the future, on success and on failure.
WriteSuccess(m) ==
    /\ succeeded[m] > 0
    /\ succeeded' = Less(succeeded, m)
    /\ DequeueMessage(m)
    /\ UNCHANGED <<stored, resizing, requests, sending, failing, network, refused, retries, crashes>>

\* A failure that reaches QML and not the row.
WriteNothing(m) ==
    /\ failing[m] > 0
    /\ failing' = Less(failing, m)
    /\ UNCHANGED <<rows, resizing, requests, sending, succeeded, network, refused, retries, crashes>>

WriteFailure(m) ==
    /\ failing[m] > 0
    /\ failing' = Less(failing, m)
    /\ FailMessage(m)
    /\ UNCHANGED <<stored, resizing, requests, sending, succeeded, network, refused, retries, crashes>>

\* The process ends, starts again and StorageReady runs.
Restart ==
    /\ crashes < MaxCrashes
    /\ crashes' = crashes + 1
    /\ resizing' = {}
    /\ requests' = None /\ sending' = None /\ succeeded' = None /\ failing' = None
    /\ MarkPendingMessagesFailed
    /\ UNCHANGED <<stored, sent, network, refused, retries>>

Next ==
    \/ \E m \in Messages :
          \/ QueueMessage(m) \/ AttachmentsResized(m) \/ RetrySending(m)
          \/ SendMessage(m) \/ GiveUp(m) \/ WriteSuccess(m) \/ WriteFailure(m)
          \/ \E ok \in SUBSET Recipients : DeliverMessage(m, ok)
    \/ Restart

Spec == Init /\ [][Next]_vars

\* Messages in the mailbox are handled, threads end, and a task gets its
\* connection and its answers in the end: a pending request times out, a lost
\* connection comes back.
Fairness ==
    \A m \in Messages :
        /\ WF_vars(AttachmentsResized(m))
        /\ WF_vars(SendMessage(m))
        /\ WF_vars(GiveUp(m) \/ \E ok \in SUBSET Recipients : DeliverMessage(m, ok))
        /\ WF_vars(WriteSuccess(m))
        /\ WF_vars(WriteFailure(m))

FairSpec == Spec /\ Fairness

-----------------------------------------------------------------------------
(* Properties.                                                             *)

Counts == [Messages -> Nat]

\* The types; what was sent or failed is in the store.
TypeOK ==
    /\ stored \subseteq Messages
    /\ sent \subseteq stored /\ failed \subseteq stored
    /\ resizing \subseteq stored
    /\ requests \in Counts /\ sending \in Counts
    /\ succeeded \in Counts /\ failing \in Counts
    /\ received \in [Messages -> SUBSET Recipients]
    /\ transmitted \in Counts
    /\ refused \subseteq stored
    /\ retries \in Counts
    /\ crashes \in 0..MaxCrashes

Underway(m) ==
    \/ m \in resizing
    \/ requests[m] > 0 \/ sending[m] > 0 \/ succeeded[m] > 0 \/ failing[m] > 0

\* A message shown as queued is on its way: no order of resizing, retries,
\* failures and restarts leaves it queued with nothing to send it, unless a
\* task gave up on it.
QueuedIsUnderway == \A m \in Messages : Queued(m) => Underway(m) \/ m \in refused

\* A message is marked as sent when every recipient has it, although other
\* tasks may have failed on it meanwhile.
SentWasReceived == \A m \in sent : received[m] = Recipients

\* The client transmits a message once, and once more per press of "Retry
\* sending".
TransmittedOnRequest == \A m \in Messages : transmitted[m] <= 1 + retries[m]

\* A message that is sent, and has no task in flight, is not transmitted
\* again: "Message already sent, refusing to retransmit."
SentIsNotRetransmitted ==
    [][\A m \in Messages : m \in sent /\ sending[m] = 0 => sending'[m] = 0]_vars

\* A queued message ends up sent or failed, or was given up on.
QueuedIsSettled == \A m \in Messages : Queued(m) ~> (~Queued(m) \/ m \in refused)

\* What the rows say of each message.
Status ==
    [m \in Messages |-> IF m \in sent THEN "sent"
                       ELSE IF m \in failed THEN "failed"
                       ELSE IF m \in stored THEN "queued" ELSE "none"]

\* What the user is promised: the rows only change the way Outbox lets them.
Promise == INSTANCE Outbox WITH status <- Status

ImplementsOutbox == Promise!Spec
=============================================================================
