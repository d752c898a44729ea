----------------------------- MODULE Connection -----------------------------
(***************************************************************************)
(* From StorageReady to an open message stream, and the first drain of the *)
(* server's queue.                                                         *)
(*                                                                         *)
(* ClientActor is single threaded, but a handler that returns a future     *)
(* does not hold its mailbox: several Restarts may be connecting at once,  *)
(* streams outlive the handler that opened them and every envelope is      *)
(* decrypted by a task of its own, which a cancelled stream leaves         *)
(* running.  A connection is open once the startup migrations have         *)
(* reported; some of these need the network themselves.                    *)
(*                                                                         *)
(* Connections are numbered in the order they are established.  Envelopes  *)
(* are known by their server GUID: the server sends each of them at most   *)
(* once per connection and again on a later one.  Envelopes for another    *)
(* account and errors pushed by the pipe return early and change nothing.  *)
(***************************************************************************)
EXTENDS Integers, FiniteSets

CONSTANTS
    Guids,          \* the envelopes
    MaxDisconnects, \* bound: streams the server ends
    MaxFailures,    \* bound: failed attempts to connect
    MaxReconnects   \* bound: presses of the Reconnect button

ASSUME BoundsAssumption ==
    /\ MaxDisconnects \in Nat
    /\ MaxFailures \in Nat
    /\ MaxReconnects \in Nat

VARIABLES
    migrations,   \* MigrationState: the gates of connectable() passed so far
    whoami,       \* the one WhoAmI request: "running", "done" or "failed"
    profile,      \* RefreshOwnProfile: "running", "uploading" or "done"
    uploads,      \* UploadProfile requests: of RefreshOwnProfile, and later ones
    hasKey,       \* the store holds our own profile key
    restarts,     \* Restart messages in the mailbox or on a timer
    connecting,   \* Restart handlers whose future is not resolved
    streams,      \* the connections whose stream is attached to the actor
    handle,       \* message_stream_handle: a connection, 0 for None
    socket,       \* identified_websocket: a connection, 0 for None
    connected,    \* the property QML shows
    queueEmpty,   \* the property QML shows
    queueState,   \* initial_queue_process_state
    opening,      \* the envelopes being opened, with their connection
    last,         \* history: the number of the latest connection
    sent,         \* history: the envelopes received on the latest connections
    drained,      \* history: connections that delivered QueueEmpty
    backlog,      \* history: envelopes observed from reset to QueueEmpty
    handled,      \* history: envelopes processed
    overlapped,   \* history: a Restart was handled while another was connecting
    disconnects, failures, reconnects

startup == <<migrations, whoami, profile, uploads, hasKey>>
link == <<restarts, connecting, streams, handle, socket, connected>>
queue == <<queueEmpty, queueState, backlog>>
envelopes == <<opening, sent, handled>>
counters == <<disconnects, failures, reconnects>>
history == <<drained, overlapped>>
vars == <<startup, link, queue, envelopes, last, history, counters>>

Gates == {"whoami", "protocol_store_in_db", "gv2_expected_ids", "self_profile_ready"}

Uploads == {"startup", "later"}

Connectable == migrations = Gates

\* The numbers that connections may get.
Connections == 1..(1 + MaxDisconnects + MaxReconnects)

QueueStates ==
    [phase : {"Starting", "Processing", "SignalSeen", "Done"}, expected : SUBSET Guids]

Starting == [phase |-> "Starting", expected |-> {}]

\* StorageReady has queued the migrations and a first Restart.
Init ==
    /\ migrations = {}
    /\ whoami = "running"
    /\ profile = "running"
    /\ uploads = {}
    /\ hasKey \in BOOLEAN
    /\ restarts = 1
    /\ connecting = 0
    /\ streams = {}
    /\ handle = 0
    /\ socket = 0
    /\ connected = FALSE
    /\ queueEmpty = FALSE
    /\ queueState = Starting
    /\ opening = {}
    /\ last = 0
    /\ sent = [c \in Connections |-> {}]
    /\ drained = {}
    /\ backlog = {}
    /\ handled = {}
    /\ overlapped = FALSE
    /\ disconnects = 0 /\ failures = 0 /\ reconnects = 0

-----------------------------------------------------------------------------
(* The migrations that gate the connection.                                *)

\* WhoAmI opens a websocket of its own, even when ACI and PNI are known.
WhoAmISucceeds ==
    /\ whoami = "running"
    /\ whoami' = "done"
    /\ migrations' = migrations \cup {"whoami"}
    /\ UNCHANGED <<profile, uploads, hasKey, link, queue, envelopes, last, history, counters>>

\* The error is logged; nothing asks again.
WhoAmIFails ==
    /\ whoami = "running"
    /\ whoami' = "failed"
    /\ UNCHANGED <<migrations, profile, uploads, hasKey, link, queue, envelopes, last, history, counters>>

\* Local migrations that notify another condition.
LocalMigrationMisreported(gate) ==
    /\ gate \in {"protocol_store_in_db", "gv2_expected_ids"} \ migrations
    /\ migrations' = migrations \cup {"reactions_ready"}
    /\ UNCHANGED <<whoami, profile, uploads, hasKey, link, queue, envelopes, last, history, counters>>

\* MoveSessionsToDatabase and ComputeGroupV2ExpectedIds, both local.
LocalMigration(gate) ==
    /\ gate \in {"protocol_store_in_db", "gv2_expected_ids"} \ migrations
    /\ migrations' = migrations \cup {gate}
    /\ UNCHANGED <<whoami, profile, uploads, hasKey, link, queue, envelopes, last, history, counters>>

\* The future of RefreshOwnProfile resolves, whichever way it took.
ProfileReportedNowhere == profile' = "done" /\ UNCHANGED migrations

ProfileReported ==
    /\ profile' = "done"
    /\ migrations' = migrations \cup {"self_profile_ready"}

\* RefreshOwnProfile with a profile key: without a connection there is no
\* profile to fetch, and the error counts as up to date.
RefreshOwnProfile ==
    /\ profile = "running" /\ hasKey
    /\ ProfileReported
    /\ UNCHANGED <<whoami, uploads, hasKey, link, queue, envelopes, last, history, counters>>

\* Without one it sends UploadProfile and waits for the answer.
RequestUpload ==
    /\ profile = "running" /\ ~hasKey
    /\ profile' = "uploading"
    /\ uploads' = uploads \cup {"startup"}
    /\ UNCHANGED <<migrations, whoami, hasKey, link, queue, envelopes, last, history, counters>>

\* The user edits the profile.
UpdateProfile ==
    /\ uploads' = uploads \cup {"later"}
    /\ UNCHANGED <<migrations, whoami, profile, hasKey, link, queue, envelopes, last,
                   history, counters>>

\* UploadProfile waits for the identified websocket.  A key is kept once the
\* upload succeeds; a failed one is tried again later, and answers all the
\* same.
UploadProfile(u) ==
    /\ u \in uploads
    /\ socket # 0
    /\ \/ hasKey' = TRUE /\ uploads' = uploads \ {u}
       \/ hasKey' = hasKey /\ uploads' = (uploads \ {u}) \cup {"later"}
    /\ IF u = "startup" THEN ProfileReported ELSE UNCHANGED <<profile, migrations>>
    /\ UNCHANGED <<whoami, link, queue, envelopes, last, history, counters>>

-----------------------------------------------------------------------------
(* Restart and the stream.                                                 *)

\* The streams left once the handle is cancelled, which does not call
\* `finished`.
Cancelled == streams \ {handle}

\* QML is told that the client is offline.
StillConnected == UNCHANGED connected

Disconnected == connected' = FALSE

\* What `finished` and a failed attempt leave behind: another Restart.
RestartForgotten == restarts

RestartNotified == restarts + 1

\* A new connection starts the drain of the queue over.
QueueKept == UNCHANGED <<queueEmpty, queueState>>

QueueReset == queueEmpty' = FALSE /\ queueState' = Starting

\* Handler<Restart> up to its future.
HandleRestart ==
    /\ restarts > 0
    /\ restarts' = restarts - 1
    /\ connecting' = connecting + 1
    /\ streams' = Cancelled
    /\ handle' = 0
    /\ Disconnected
    /\ overlapped' = (overlapped \/ connecting > 0)
    /\ UNCHANGED <<startup, socket, queue, envelopes, last, drained, counters>>

\* The future resolves: the pipe is open, its stream replaces the handle.
Connect ==
    /\ connecting > 0
    /\ Connectable
    /\ last' = last + 1
    /\ connecting' = connecting - 1
    /\ streams' = streams \cup {last + 1}
    /\ handle' = last + 1
    /\ socket' = last + 1
    /\ connected' = TRUE
    /\ QueueReset
    /\ backlog' = {}
    /\ UNCHANGED <<startup, restarts, envelopes, history, counters>>

\* Or it fails, and another Restart is due in ten seconds.
ConnectFails ==
    /\ connecting > 0
    /\ Connectable
    /\ failures < MaxFailures
    /\ failures' = failures + 1
    /\ connecting' = connecting - 1
    /\ restarts' = RestartNotified
    /\ UNCHANGED <<startup, streams, handle, socket, connected, queue, envelopes, last,
                   history, disconnects, reconnects>>

\* A stream ends and `finished` runs, whichever stream it is.
Finished(c) ==
    /\ c \in streams
    /\ disconnects < MaxDisconnects
    /\ disconnects' = disconnects + 1
    /\ streams' = streams \ {c}
    /\ socket' = 0
    /\ Disconnected
    /\ restarts' = RestartNotified
    /\ UNCHANGED <<startup, connecting, handle, queue, envelopes, last, history,
                   failures, reconnects>>

\* ClientWorker::reconnect, from the settings or the main page.
Reconnect ==
    /\ reconnects < MaxReconnects
    /\ reconnects' = reconnects + 1
    /\ restarts' = restarts + 1
    /\ UNCHANGED <<startup, connecting, streams, handle, socket, connected, queue, envelopes,
                   last, history, disconnects, failures>>

-----------------------------------------------------------------------------
(* QueueProcessState.                                                      *)

ObserveGuid(s, e) ==
    IF s.phase \in {"Starting", "Processing"}
    THEN [phase |-> "Processing", expected |-> s.expected \cup {e}]
    ELSE s

\* The first envelope processed after the signal ends the drain.
ProcessedGuidAtOnce(s, e) ==
    CASE s.phase = "SignalSeen" -> [phase |-> "Done", expected |-> s.expected \ {e}]
      [] s.phase = "Processing" -> [s EXCEPT !.expected = @ \ {e}]
      [] OTHER -> s

\* The last envelope is forgotten but does not end the drain.
ProcessedGuidNeverDone(s, e) ==
    IF s.phase \in {"Processing", "SignalSeen"} THEN [s EXCEPT !.expected = @ \ {e}] ELSE s

ProcessedGuid(s, e) ==
    CASE s.phase = "SignalSeen" ->
            [phase |-> IF s.expected \subseteq {e} THEN "Done" ELSE "SignalSeen",
             expected |-> s.expected \ {e}]
      [] s.phase = "Processing" -> [s EXCEPT !.expected = @ \ {e}]
      [] OTHER -> s

ObserveSignal(s) ==
    CASE s.phase = "Processing" -> [s EXCEPT !.phase = "SignalSeen"]
      [] s.phase = "Starting" -> [s EXCEPT !.phase = "Done"]
      [] OTHER -> s

\* Both set queueEmpty when the state machine is done.
SetQueueState(s) ==
    /\ queueState' = s
    /\ queueEmpty' = (queueEmpty \/ s.phase = "Done")

\* StreamHandler::handle for an envelope: it is observed and a task opens it.
Receive(c, e) ==
    /\ c \in streams
    /\ e \notin sent[c]
    /\ sent' = [sent EXCEPT ![c] = @ \cup {e}]
    /\ queueState' = ObserveGuid(queueState, e)
    /\ backlog' = IF queueState.phase \in {"Starting", "Processing"}
                  THEN backlog \cup {e} ELSE backlog
    /\ opening' = opening \cup {<<c, e>>}
    /\ UNCHANGED <<startup, link, queueEmpty, handled, last, history, counters>>

\* StreamHandler::handle for Incoming::QueueEmpty, once per connection.
QueueEmpty(c) ==
    /\ c \in streams \ drained
    /\ drained' = drained \cup {c}
    /\ UNCHANGED overlapped
    /\ SetQueueState(ObserveSignal(queueState))
    /\ UNCHANGED <<startup, link, backlog, envelopes, last, counters>>

\* The task ends, with or without content; process_envelope runs, then the
\* state machine hears of it.
Processed(c, e) ==
    /\ <<c, e>> \in opening
    /\ opening' = opening \ {<<c, e>>}
    /\ handled' = handled \cup {e}
    /\ SetQueueState(ProcessedGuid(queueState, e))
    /\ UNCHANGED <<startup, link, backlog, sent, last, history, counters>>

Next ==
    \/ WhoAmISucceeds \/ WhoAmIFails
    \/ \E gate \in Gates : LocalMigration(gate)
    \/ RefreshOwnProfile \/ RequestUpload \/ UpdateProfile
    \/ \E u \in Uploads : UploadProfile(u)
    \/ HandleRestart \/ Connect \/ ConnectFails \/ Reconnect
    \/ \E c \in Connections : Finished(c) \/ QueueEmpty(c)
    \/ \E c \in Connections, e \in Guids : Receive(c, e) \/ Processed(c, e)

Spec == Init /\ [][Next]_vars

\* The executor runs the tasks that are ready: migrations end, messages are
\* handled, envelopes are opened.  An attempt to connect that may succeed
\* does so in the end: the network fails a bounded number of times.
Fairness ==
    /\ WF_vars(WhoAmISucceeds \/ WhoAmIFails)
    /\ \A gate \in Gates : WF_vars(LocalMigration(gate))
    /\ WF_vars(RefreshOwnProfile)
    /\ WF_vars(RequestUpload)
    /\ \A u \in Uploads : WF_vars(UploadProfile(u))
    /\ WF_vars(HandleRestart)
    /\ WF_vars(Connect)
    /\ \A c \in Connections, e \in Guids : WF_vars(Processed(c, e))

FairSpec == Spec /\ Fairness

-----------------------------------------------------------------------------
(* Properties.                                                             *)

\* The types; the numbers of connections never pass the latest one.
TypeOK ==
    /\ migrations \subseteq Gates
    /\ whoami \in {"running", "done", "failed"}
    /\ profile \in {"running", "uploading", "done"}
    /\ uploads \subseteq Uploads
    /\ hasKey \in BOOLEAN
    /\ restarts \in Nat /\ connecting \in Nat
    /\ last \in Nat
    /\ streams \subseteq 1..last
    /\ handle \in 0..last /\ socket \in 0..last
    /\ connected \in BOOLEAN /\ queueEmpty \in BOOLEAN
    /\ queueState \in QueueStates
    /\ opening \subseteq Connections \X Guids
    /\ sent \in [Connections -> SUBSET Guids]
    /\ drained \subseteq Connections /\ overlapped \in BOOLEAN
    /\ backlog \subseteq Guids /\ handled \subseteq Guids
    /\ disconnects \in 0..MaxDisconnects
    /\ failures \in 0..MaxFailures
    /\ reconnects \in 0..MaxReconnects

\* A client without a stream has a Restart on its way: no order of ends,
\* failures, cancellations and reconnects loses the last attempt.
AttemptNeverLost == streams = {} => restarts + connecting > 0

\* The automatic reconnects never multiply: every stream beyond the first,
\* and every attempt beside it, goes back to a press of the Reconnect button.
OneAttempt == restarts + connecting + Cardinality(streams) <= 1 + reconnects

\* `connected` is shown only while the websocket handed to the senders is that
\* of an attached stream, the one the next Restart will cancel.
ConnectedIsLive == connected => socket = handle /\ socket \in streams

\* A websocket whose stream is gone is replaced or cleared soon: a Restart is
\* on its way whenever `identified_websocket` holds one.
StaleSocketIsReplaced == socket \in streams \cup {0} \/ restarts + connecting > 0

\* QML hears that the queue is empty only when every envelope received since
\* the connection was established, up to the server's signal, is processed:
\* envelopes finish in any order, and copies of them may be left over from an
\* earlier connection.
QueueEmptyIsEarned == queueEmpty => backlog \subseteq handled

\* Reconnecting cancels what it replaces: a stream the actor does not hold the
\* handle of is left behind only by attempts to connect that overlapped.
StreamsAreReplaced == ~overlapped => streams \subseteq {handle}

\* The queue is not called empty on account of an earlier connection, unless
\* attempts that overlapped left several streams behind.
DrainedByOwnStream == queueEmpty /\ ~overlapped => last \in drained

\* Once our identity is known, a client that has its profile key connects, and
\* connects again after every disconnection.
Connects == ("whoami" \in migrations /\ hasKey) ~> connected

\* Envelopes outstanding when the signal comes end the drain when they are
\* processed, if no new connection starts it over.
DrainEnds ==
    (queueState.phase = "SignalSeen" /\ queueState.expected # {})
        ~> queueState.phase # "SignalSeen"

\* "UploadProfile will generate a profile key if needed": an account without a
\* key gets one once the client knows who it is.
KeyIsGenerated == "whoami" \in migrations ~> hasKey
=============================================================================
