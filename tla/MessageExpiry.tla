---------------------------- MODULE MessageExpiry ----------------------------
(***************************************************************************)
(* Disappearing messages: from the start of a timer to the deletion.       *)
(*                                                                         *)
(* ExpiredMessagesStream sleeps until the next deadline.  ClientActor      *)
(* polls it with its other streams whenever it runs at all; the code that  *)
(* creates messages or starts timers sends a notification into the         *)
(* stream's channel, so that it looks at the deadlines again.  A poll      *)
(* takes one notification, and only a poll that found none leaves a waker  *)
(* with the channel.  Most handlers run inside the actor's poll; the       *)
(* future of MarkMessagesRead is a task of its own.                        *)
(*                                                                         *)
(* Ids are those of SQLite: a new row gets the largest id plus one, so the *)
(* id of a deleted message may come back.  Time is in seconds, the         *)
(* resolution of DATETIME; the last instant stands for all later ones.     *)
(* The sleep and the wall clock run at one pace.  Edits are not modelled.  *)
(***************************************************************************)
EXTENDS Integers, FiniteSets

CONSTANTS
    MaxId,       \* bound: ids of messages
    Timeouts,    \* the values of expires_in, other than null
    MaxTime,     \* bound: the last instant
    MaxNotes,    \* bound: notifications at once
    MaxCrashes   \* bound: ends of the process

ASSUME ConstantsAssumption ==
    /\ MaxId \in Nat /\ MaxTime \in Nat \ {0} /\ MaxNotes \in Nat /\ MaxCrashes \in Nat
    /\ Timeouts \subseteq Nat \ {0}

VARIABLES
    now,         \* the wall clock
    rows,        \* the ids in `messages`
    expires,     \* expires_in of each id, 0 for null
    started,     \* expiry_started of each id, 0 for null
    typed,       \* ids whose message_type is set: stickers, timer updates, ...
    stream,      \* the actor has an ExpiredMessagesStream
    nextWake,    \* next_wake: when its sleep elapses, 0 for None
    notes,       \* notifications in the channel
    registered,  \* the channel holds the waker of the actor
    scheduled,   \* the actor is going to be polled
    reading,     \* the lists of MarkMessagesRead futures that have not run
    crashes

table == <<rows, expires, started, typed>>
actor == <<stream, nextWake, notes, registered, scheduled>>
vars == <<now, table, actor, reading, crashes>>

Ids == 1..MaxId

Passed(t) == t <= now \/ now = MaxTime

Deadline(m) == started[m] + expires[m]

\* The filter of the queries on deadlines.
Expiring(m) == m \in rows \ typed /\ started[m] # 0 /\ expires[m] # 0

Init ==
    /\ now = 1
    /\ rows = {} /\ typed = {}
    /\ expires = [m \in Ids |-> 0]
    /\ started = [m \in Ids |-> 0]
    /\ stream = FALSE
    /\ nextWake = 0
    /\ notes = 0
    /\ registered = FALSE
    /\ scheduled = TRUE
    /\ reading = {}
    /\ crashes = 0

-----------------------------------------------------------------------------
(* The channel and the wake-ups of the actor.                              *)

\* A handler in the actor's mailbox: the streams are polled right after it.
Handled == scheduled' = TRUE

\* send(()): the waker of the channel, if there is one, is taken and woken.
Notify ==
    /\ notes' = IF stream THEN notes + 1 ELSE notes
    /\ registered' = FALSE
    /\ UNCHANGED <<stream, nextWake>>

RoomForNotes == notes < MaxNotes

-----------------------------------------------------------------------------
(* The store.                                                              *)

\* create_message, and the defaults of the columns.
Insert(timeout, start, isTyped) ==
    \E m \in Ids \ rows :
        /\ \A r \in rows : r < m
        /\ m = 1 \/ m - 1 \in rows
        /\ rows' = rows \cup {m}
        /\ expires' = [expires EXCEPT ![m] = timeout]
        /\ started' = [started EXCEPT ![m] = start]
        /\ typed' = IF isTyped THEN typed \cup {m} ELSE typed

\* The deletion of the rows alone.
RemoveRowsOnly(ms) == rows' = rows \ ms /\ UNCHANGED <<typed, expires, started>>

\* The rows without `ms`; what the columns said is forgotten.
Remove(ms) ==
    /\ rows' = rows \ ms
    /\ typed' = typed \ ms
    /\ expires' = [m \in Ids |-> IF m \in ms THEN 0 ELSE expires[m]]
    /\ started' = [m \in Ids |-> IF m \in ms THEN 0 ELSE started[m]]

\* mark_messages_read_in_ui: timers start once.
TimersStart(ms) ==
    started' = [m \in Ids |->
        IF m \in (ms \cap rows) \ typed /\ expires[m] # 0 /\ started[m] = 0
        THEN now ELSE started[m]]

-----------------------------------------------------------------------------
(* ClientActor.                                                            *)

\* A Restart is handled for the first time: the channel and the stream are
\* made.
HandleRestart ==
    /\ ~stream
    /\ stream' = TRUE
    /\ Handled
    /\ UNCHANGED <<now, table, nextWake, notes, registered, reading, crashes>>

\* handle_message: the message comes with the session's timer; a transcript of
\* a linked device says when the timer started.  An envelope may be processed
\* after the stream in one poll of the actor.  ProcessCachedReceipts then has
\* the stream polled again, except for the transcript of a group message: for
\* that one only the channel's waker does.
ReceiveMessage(timeout, start, isTyped) ==
    /\ RoomForNotes
    /\ Insert(timeout, start, isTyped)
    /\ Notify
    /\ scheduled' \in IF start # 0 THEN {scheduled \/ registered, TRUE} ELSE {TRUE}
    /\ UNCHANGED <<now, reading, crashes>>

\* Handler<QueueMessage>.
QueueMessage(timeout) ==
    /\ RoomForNotes
    /\ Insert(timeout, 0, FALSE)
    /\ Notify
    /\ Handled
    /\ UNCHANGED <<now, reading, crashes>>

\* Handler<QueueExpiryUpdate> stores a typed message and does not notify.
QueueExpiryUpdate(timeout) ==
    /\ Insert(timeout, 0, TRUE)
    /\ Handled
    /\ UNCHANGED <<now, stream, nextWake, notes, registered, reading, crashes>>

\* Handler<MarkMessagesRead>: the messages on the screen; the work is left to
\* a task.
MarkMessagesRead(ms) ==
    /\ stream
    /\ reading' = reading \cup {ms}
    /\ Handled
    /\ UNCHANGED <<now, table, stream, nextWake, notes, registered, crashes>>

\* That task, outside the actor.
MarkedRead(ms) ==
    /\ ms \in reading
    /\ RoomForNotes
    /\ reading' = reading \ {ms}
    /\ TimersStart(ms)
    /\ Notify
    /\ scheduled' = (scheduled \/ registered)
    /\ UNCHANGED <<now, rows, expires, typed, crashes>>

\* Handler<StartMessageExpiry>.
StartMessageExpiry(m) ==
    /\ stream
    /\ m \in rows
    /\ RoomForNotes
    /\ started' = IF m \notin typed /\ started[m] = 0
                  THEN [started EXCEPT ![m] = now] ELSE started
    /\ Notify
    /\ Handled
    /\ UNCHANGED <<now, rows, expires, typed, reading, crashes>>

\* delete_session: the cascade takes the session's messages.
DeleteSession(ms) ==
    /\ Remove(ms)
    /\ Handled
    /\ UNCHANGED <<now, stream, nextWake, notes, registered, reading, crashes>>

\* Anything else the actor does.
Busy ==
    /\ ~scheduled
    /\ Handled
    /\ UNCHANGED <<now, table, stream, nextWake, notes, registered, reading, crashes>>

-----------------------------------------------------------------------------
(* ExpiredMessagesStream.                                                  *)

\* The newest deadline first.
UpdateNextWakeLatest(due) ==
    IF due = {}
    THEN nextWake' = 0 /\ scheduled' = FALSE
    ELSE /\ \E m \in due :
              /\ \A o \in due : Deadline(o) <= Deadline(m)
              /\ nextWake' = IF Deadline(m) > now THEN Deadline(m) ELSE now + 1
         /\ scheduled' = TRUE

\* No sleep if the first deadline has passed: the duration is negative.
UpdateNextWakeFuture(due) ==
    IF due = {} \/ \E m \in due : Deadline(m) <= now
    THEN nextWake' = 0 /\ scheduled' = FALSE
    ELSE /\ \E m \in due :
              /\ \A o \in due : Deadline(m) <= Deadline(o)
              /\ nextWake' = Deadline(m)
         /\ scheduled' = TRUE

\* update_next_wake: sleep until the first deadline, or a second if it has
\* passed, and have the actor polled again.
UpdateNextWake(due) ==
    IF due = {}
    THEN nextWake' = 0 /\ scheduled' = FALSE
    ELSE /\ \E m \in due :
              /\ \A o \in due : Deadline(m) <= Deadline(o)
              /\ nextWake' = IF Deadline(m) > now THEN Deadline(m) ELSE now + 1
         /\ scheduled' = TRUE

\* poll_next, with the deletion of delete_expired_messages and the second poll
\* that follows an item.
Poll ==
    /\ stream /\ scheduled
    /\ LET fired == nextWake # 0 /\ Passed(nextWake)
           dead == IF fired THEN {m \in rows : Expiring(m) /\ Passed(Deadline(m))} ELSE {}
           sleeping == nextWake # 0 /\ ~fired
       IN  /\ Remove(dead)
           /\ notes' = IF notes > 0 THEN notes - 1 ELSE 0
           /\ registered' = (notes = 0)
           /\ IF notes > 0 \/ ~sleeping
              THEN UpdateNextWake({m \in rows : Expiring(m)} \ dead)
              ELSE nextWake' = nextWake /\ scheduled' = FALSE
    /\ UNCHANGED <<now, stream, reading, crashes>>

\* The sleep elapses and wakes the actor.
Elapse ==
    /\ nextWake # 0 /\ Passed(nextWake)
    /\ ~scheduled
    /\ scheduled' = TRUE
    /\ UNCHANGED <<now, table, stream, nextWake, notes, registered, reading, crashes>>

Tick ==
    /\ now < MaxTime
    /\ now' = now + 1
    /\ UNCHANGED <<table, actor, reading, crashes>>

\* The process dies and starts again.
Crash ==
    /\ crashes < MaxCrashes
    /\ crashes' = crashes + 1
    /\ stream' = FALSE /\ nextWake' = 0 /\ notes' = 0 /\ registered' = FALSE
    /\ scheduled' = TRUE
    /\ reading' = {}
    /\ UNCHANGED <<now, table>>

Next ==
    \/ HandleRestart \/ Busy \/ Poll \/ Elapse \/ Tick \/ Crash
    \/ \E timeout \in Timeouts \cup {0} :
          \/ QueueMessage(timeout) \/ QueueExpiryUpdate(timeout)
          \/ \E start \in 0..now, isTyped \in BOOLEAN : ReceiveMessage(timeout, start, isTyped)
    \/ \E ms \in (SUBSET rows) \ {{}} : MarkMessagesRead(ms) \/ DeleteSession(ms)
    \/ \E ms \in reading : MarkedRead(ms)
    \/ \E m \in Ids : StartMessageExpiry(m)

Spec == Init /\ [][Next]_vars

\* The executor polls what was woken, timers elapse, the clock goes on, and a
\* started client handles its first Restart.
Fairness ==
    /\ WF_vars(HandleRestart)
    /\ WF_vars(Poll)
    /\ WF_vars(Elapse)
    /\ WF_vars(Tick)

FairSpec == Spec /\ Fairness

-----------------------------------------------------------------------------
(* Properties.                                                             *)

\* The types.
TypeOK ==
    /\ now \in 1..MaxTime
    /\ rows \subseteq Ids /\ typed \subseteq rows
    /\ expires \in [Ids -> Timeouts \cup {0}]
    /\ started \in [Ids -> Nat]
    /\ stream \in BOOLEAN /\ registered \in BOOLEAN /\ scheduled \in BOOLEAN
    /\ nextWake \in Nat
    /\ notes \in 0..MaxNotes
    /\ reading \subseteq SUBSET Ids
    /\ crashes \in 0..MaxCrashes

\* An actor at rest, with nothing left in the channel, sleeps no longer than
\* the first deadline, or a second if that one has passed: no order of new
\* messages, started timers, deletions and polls makes it oversleep.
WakesInTime ==
    (stream /\ ~scheduled /\ notes = 0) =>
        \A m \in Ids : Expiring(m) =>
            nextWake # 0 /\ (nextWake <= Deadline(m) \/ nextWake <= now + 1)

\* Notifications lie in the channel, or the next one will, and nothing polls
\* the stream for them.
Deaf == ~scheduled /\ ~registered

\* The stream goes deaf only while it knows of no deadline: once it sleeps
\* towards one, no later notification is lost.
DeafOnlyWhenIdle == Deaf => nextWake = 0

\* Seeing a message again, or on another device, does not prolong its life.
StartedOnce ==
    [][\A m \in rows \cap rows' : started[m] # 0 => started'[m] = started[m]]_vars

\* A message whose timer runs is deleted, whatever happens to the client,
\* unless the stream is deaf.
ExpiringIsDeleted == \A m \in Ids : Expiring(m) ~> (~Expiring(m) \/ Deaf)

=============================================================================
