------------------------- MODULE MessageExpiryProofs -------------------------
(***************************************************************************)
(* The safety properties of MessageExpiry, for any number of messages,     *)
(* notifications and restarts.                                             *)
(*                                                                         *)
(* WakesInTime speaks of an actor at rest.  What makes it inductive is that *)
(* a sleep covers every deadline also while the actor is scheduled         *)
(* (SleepCovers), and that the sleep goes with the stream (SleepHasStream). *)
(***************************************************************************)
EXTENDS MessageExpiry, TLAPS

SleepCovers ==
    (notes = 0 /\ nextWake # 0) =>
        \A m \in Ids : Expiring(m) => nextWake <= Deadline(m) \/ nextWake <= now + 1

SleepHasStream == ~stream => nextWake = 0

Inv == TypeOK /\ WakesInTime /\ SleepCovers /\ SleepHasStream /\ DeafOnlyWhenIdle

-----------------------------------------------------------------------------
(* What the helpers preserve.                                              *)

\* A new row keeps the columns well typed.
LEMMA InsertTyped ==
    ASSUME TypeOK,
           NEW timeout \in Timeouts \cup {0}, NEW start \in Nat, NEW isTyped \in BOOLEAN,
           Insert(timeout, start, isTyped)
    PROVE  /\ rows' \subseteq Ids /\ typed' \subseteq rows'
           /\ expires' \in [Ids -> Timeouts \cup {0}]
           /\ started' \in [Ids -> Nat]
<1>1. PICK m \in Ids \ rows :
         /\ rows' = rows \cup {m}
         /\ expires' = [expires EXCEPT ![m] = timeout]
         /\ started' = [started EXCEPT ![m] = start]
         /\ typed' = IF isTyped THEN typed \cup {m} ELSE typed
  BY DEF Insert
<1>2. rows' \subseteq Ids /\ typed' \subseteq rows'
  BY <1>1 DEF TypeOK
<1>3. expires' \in [Ids -> Timeouts \cup {0}]
  BY <1>1 DEF TypeOK
<1>4. started' \in [Ids -> Nat]
  BY <1>1 DEF TypeOK
<1> QED
  BY <1>2, <1>3, <1>4

\* A new row with a message type has no deadline, and moves no other one.
LEMMA InsertQuiet ==
    ASSUME TypeOK, NEW timeout \in Timeouts \cup {0}, Insert(timeout, 0, TRUE),
           NEW m \in Ids, Expiring(m)'
    PROVE  Expiring(m) /\ Deadline(m)' = Deadline(m)
<1>1. PICK n \in Ids \ rows :
         /\ rows' = rows \cup {n}
         /\ expires' = [expires EXCEPT ![n] = timeout]
         /\ started' = [started EXCEPT ![n] = 0]
         /\ typed' = typed \cup {n}
  BY DEF Insert
<1>2. m # n
  BY <1>1 DEF Expiring
<1> QED
  BY <1>1, <1>2 DEF Expiring, Deadline, TypeOK

\* Removing rows keeps the columns well typed, and leaves no new deadline.
LEMMA RemoveTyped ==
    ASSUME TypeOK, NEW ms, Remove(ms)
    PROVE  /\ rows' \subseteq Ids /\ typed' \subseteq rows'
           /\ expires' \in [Ids -> Timeouts \cup {0}]
           /\ started' \in [Ids -> Nat]
BY DEF Remove, TypeOK

LEMMA RemoveQuiet ==
    ASSUME TypeOK, NEW ms, Remove(ms), NEW m \in Ids, Expiring(m)'
    PROVE  m \notin ms /\ Expiring(m) /\ Deadline(m)' = Deadline(m)
<1>1. m \notin ms
  BY DEF Remove, Expiring
<1> QED
  BY <1>1 DEF Remove, Expiring, Deadline, TypeOK

\* A timer that starts has a time.
LEMMA StartTyped ==
    ASSUME TypeOK, NEW ms, TimersStart(ms)
    PROVE  started' \in [Ids -> Nat]
BY DEF TimersStart, TypeOK

\* The deadline of an id is a time.
LEMMA DeadlineTyped ==
    ASSUME TypeOK, NEW m \in Ids
    PROVE  Deadline(m) \in Nat
<1>1. started[m] \in Nat
  BY DEF TypeOK
<1>2. expires[m] \in Nat
  <2>1. expires[m] \in Timeouts \cup {0}
    BY DEF TypeOK
  <2>2. \A t \in Timeouts : t \in Nat
    BY ConstantsAssumption DEF ConstantsAssumption
  <2> QED
    BY <2>1, <2>2
<1> QED
  BY <1>1, <1>2 DEF Deadline

\* What update_next_wake leaves: no sleep if there is no deadline, otherwise
\* one that covers them all, and an actor that will poll it.
LEMMA UpdateCovers ==
    ASSUME TypeOK, NEW due \in SUBSET Ids, UpdateNextWake(due)
    PROVE  \/ due = {} /\ nextWake' = 0 /\ scheduled' = FALSE
           \/ /\ due # {} /\ nextWake' \in Nat \ {0} /\ scheduled' = TRUE
              /\ \A m \in due : nextWake' <= Deadline(m) \/ nextWake' <= now + 1
<1>1. CASE due = {}
  <2>1. nextWake' = 0 /\ scheduled' = FALSE
    BY <1>1, Zenon DEF UpdateNextWake
  <2> QED
    BY <1>1, <2>1
<1>2. CASE due # {}
  <2>1. PICK m \in due :
           /\ \A o \in due : Deadline(m) <= Deadline(o)
           /\ nextWake' = IF Deadline(m) > now THEN Deadline(m) ELSE now + 1
    BY <1>2 DEF UpdateNextWake
  <2>2. now \in Nat
    BY DEF TypeOK
  <2>3. \A o \in due : Deadline(o) \in Nat
    BY DeadlineTyped
  <2>4. nextWake' \in Nat \ {0}
    BY <2>1, <2>2, <2>3
  <2>5. \A o \in due : nextWake' <= Deadline(o) \/ nextWake' <= now + 1
    BY <2>1, <2>2, <2>3
  <2>6. scheduled' = TRUE
    BY <1>2 DEF UpdateNextWake
  <2> QED
    BY <1>2, <2>4, <2>5, <2>6
<1> QED
  BY <1>1, <1>2

LEMMA UpdateTyped ==
    ASSUME TypeOK, NEW due \in SUBSET Ids, UpdateNextWake(due)
    PROVE  nextWake' \in Nat /\ scheduled' \in BOOLEAN
<1>1. \/ nextWake' = 0 /\ scheduled' = FALSE
      \/ nextWake' \in Nat /\ scheduled' = TRUE
  BY UpdateCovers
<1>2. nextWake' \in Nat
  BY <1>1
<1>3. scheduled' \in BOOLEAN
  BY <1>1
<1> QED
  BY <1>2, <1>3

\* The channel keeps its bound.
LEMMA NotifyTyped ==
    ASSUME TypeOK, RoomForNotes, Notify
    PROVE  /\ notes' \in 0..MaxNotes
           /\ registered' \in BOOLEAN
           /\ UNCHANGED <<stream, nextWake>>
<1>1. notes' \in 0..MaxNotes
  BY ConstantsAssumption DEF ConstantsAssumption, TypeOK, RoomForNotes, Notify
<1> QED
  BY <1>1 DEF Notify

-----------------------------------------------------------------------------
(* Type correctness.                                                       *)

LEMMA InitTyped == Init => TypeOK
<1> SUFFICES ASSUME Init PROVE TypeOK
  OBVIOUS
<1>1. now \in 1..MaxTime /\ notes \in 0..MaxNotes /\ crashes \in 0..MaxCrashes
         /\ nextWake \in Nat
  BY ConstantsAssumption DEF ConstantsAssumption, Init
<1>2. rows \subseteq Ids /\ typed \subseteq rows /\ reading \subseteq SUBSET Ids
  BY DEF Init
<1>3. expires \in [Ids -> Timeouts \cup {0}]
  BY DEF Init
<1>4. started \in [Ids -> Nat]
  BY DEF Init
<1>5. stream \in BOOLEAN /\ registered \in BOOLEAN /\ scheduled \in BOOLEAN
  BY DEF Init
<1> QED
  BY <1>1, <1>2, <1>3, <1>4, <1>5 DEF TypeOK

LEMMA NextTyped == TypeOK /\ [Next]_vars => TypeOK'
<1> SUFFICES ASSUME TypeOK, [Next]_vars PROVE TypeOK'
  OBVIOUS
<1> USE ConstantsAssumption DEF ConstantsAssumption
<1>1. CASE HandleRestart
  BY <1>1 DEF HandleRestart, Handled, table, TypeOK
<1>2. CASE Busy
  BY <1>2 DEF Busy, Handled, table, TypeOK
<1>3. CASE Poll
  <2> DEFINE fired == nextWake # 0 /\ Passed(nextWake)
             dead == IF fired THEN {m \in rows : Expiring(m) /\ Passed(Deadline(m))} ELSE {}
             due == {m \in rows : Expiring(m)} \ dead
  <2>1. rows' \subseteq Ids /\ typed' \subseteq rows'
           /\ expires' \in [Ids -> Timeouts \cup {0}] /\ started' \in [Ids -> Nat]
    BY <1>3, RemoveTyped DEF Poll
  <2>2. nextWake' \in Nat /\ scheduled' \in BOOLEAN
    <3>1. CASE UpdateNextWake(due)
      <4> due \subseteq Ids
        BY DEF TypeOK
      <4> QED
        BY <3>1, UpdateTyped
    <3>2. CASE nextWake' = nextWake /\ scheduled' = FALSE
      BY <3>2 DEF TypeOK
    <3> QED
      BY <1>3, <3>1, <3>2 DEF Poll
  <2>3. notes' \in 0..MaxNotes
    BY <1>3 DEF Poll, TypeOK
  <2>4. registered' \in BOOLEAN
    BY <1>3 DEF Poll
  <2> QED
    BY <1>3, <2>1, <2>2, <2>3, <2>4 DEF Poll, TypeOK
<1>4. CASE Elapse
  BY <1>4 DEF Elapse, table, TypeOK
<1>5. CASE Tick
  BY <1>5 DEF Tick, table, actor, TypeOK
<1>6. CASE Crash
  <2>1. crashes' \in 0..MaxCrashes
    BY <1>6 DEF Crash, TypeOK
  <2>2. notes' \in 0..MaxNotes /\ nextWake' \in Nat
    BY <1>6 DEF Crash
  <2> QED
    BY <1>6, <2>1, <2>2 DEF Crash, table, TypeOK
<1>7. ASSUME NEW timeout \in Timeouts \cup {0}, QueueMessage(timeout) PROVE TypeOK'
  <2>1. Insert(timeout, 0, FALSE)
    BY <1>7 DEF QueueMessage
  <2> QED
    BY <1>7, <2>1, InsertTyped, NotifyTyped DEF QueueMessage, Handled, TypeOK
<1>8. ASSUME NEW timeout \in Timeouts \cup {0}, QueueExpiryUpdate(timeout) PROVE TypeOK'
  <2>1. Insert(timeout, 0, TRUE)
    BY <1>8 DEF QueueExpiryUpdate
  <2> QED
    BY <1>8, <2>1, InsertTyped DEF QueueExpiryUpdate, Handled, TypeOK
<1>9. ASSUME NEW timeout \in Timeouts \cup {0}, NEW start \in 0..now, NEW isTyped \in BOOLEAN,
             ReceiveMessage(timeout, start, isTyped)
      PROVE TypeOK'
  <2>1. Insert(timeout, start, isTyped) /\ start \in Nat
    BY <1>9 DEF ReceiveMessage, TypeOK
  <2>2. scheduled' \in BOOLEAN
    BY <1>9 DEF ReceiveMessage, TypeOK
  <2> QED
    BY <1>9, <2>1, <2>2, InsertTyped, NotifyTyped DEF ReceiveMessage, TypeOK
<1>10. ASSUME NEW ms \in SUBSET rows, MarkMessagesRead(ms) PROVE TypeOK'
  BY <1>10 DEF MarkMessagesRead, Handled, table, TypeOK
<1>11. ASSUME NEW ms \in SUBSET rows, DeleteSession(ms) PROVE TypeOK'
  BY <1>11, RemoveTyped DEF DeleteSession, Handled, TypeOK
<1>12. ASSUME NEW ms \in reading, MarkedRead(ms) PROVE TypeOK'
  <2>1. started' \in [Ids -> Nat]
    BY <1>12, StartTyped DEF MarkedRead
  <2>2. scheduled' \in BOOLEAN
    BY <1>12 DEF MarkedRead
  <2> QED
    BY <1>12, <2>1, <2>2, NotifyTyped DEF MarkedRead, TypeOK
<1>13. ASSUME NEW m \in Ids, StartMessageExpiry(m) PROVE TypeOK'
  <2>1. started' \in [Ids -> Nat]
    BY <1>13 DEF StartMessageExpiry, TypeOK
  <2> QED
    BY <1>13, <2>1, NotifyTyped DEF StartMessageExpiry, Handled, TypeOK
<1>14. CASE UNCHANGED vars
  BY <1>14 DEF vars, table, actor, TypeOK
<1> QED
  BY <1>1, <1>2, <1>3, <1>4, <1>5, <1>6, <1>7, <1>8, <1>9, <1>10, <1>11, <1>12, <1>13, <1>14
     DEF Next

\* The state stays well typed: typed messages have rows, the channel holds a
\* bounded number of notifications.
THEOREM TypeCorrect == Spec => []TypeOK
BY InitTyped, NextTyped, PTL DEF Spec

-----------------------------------------------------------------------------
(* The invariant.                                                          *)

LEMMA InitInv == Init => Inv
<1> SUFFICES ASSUME Init PROVE Inv
  OBVIOUS
<1>1. \A m \in Ids : ~Expiring(m)
  BY DEF Init, Expiring
<1> QED
  BY <1>1, InitTyped DEF Init, Inv, WakesInTime, SleepCovers, SleepHasStream, DeafOnlyWhenIdle, Deaf

\* A notification: something is left in the channel of a stream, and an actor
\* at rest either was deaf already or is woken.
LEMMA NotifyInv ==
    ASSUME Inv, TypeOK', Notify,
           \/ scheduled' = TRUE
           \/ scheduled' = (scheduled \/ registered)
    PROVE  Inv'
<1>1. nextWake' = nextWake /\ stream' = stream
  BY DEF Notify
<1>2. stream => notes' # 0
  BY DEF Notify, Inv, TypeOK
<1>3. WakesInTime'
  BY <1>1, <1>2 DEF WakesInTime
<1>4. SleepCovers' /\ SleepHasStream'
  BY <1>1, <1>2 DEF Inv, SleepCovers, SleepHasStream
<1>5. DeafOnlyWhenIdle'
  <2>1. CASE scheduled' = TRUE
    BY <2>1 DEF DeafOnlyWhenIdle, Deaf
  <2>2. CASE scheduled' = (scheduled \/ registered)
    BY <1>1, <2>2 DEF Inv, DeafOnlyWhenIdle, Deaf
  <2> QED
    BY <2>1, <2>2
<1> QED
  BY <1>3, <1>4, <1>5 DEF Inv

\* A handler that leaves the stream alone and adds no deadline.
LEMMA HandledInv ==
    ASSUME Inv, TypeOK', scheduled' = TRUE,
           stream' = stream, nextWake' = nextWake, notes' = notes, now' = now,
           \A m \in Ids : Expiring(m)' => Expiring(m) /\ Deadline(m)' = Deadline(m)
    PROVE  Inv'
<1>1. WakesInTime'
  BY DEF WakesInTime
<1>2. SleepCovers'
  BY DEF Inv, SleepCovers
<1>3. SleepHasStream' /\ DeafOnlyWhenIdle'
  BY DEF Inv, SleepHasStream, DeafOnlyWhenIdle, Deaf
<1> QED
  BY <1>1, <1>2, <1>3 DEF Inv

LEMMA PollInv ==
    ASSUME Inv, TypeOK', Poll
    PROVE  Inv'
<1> DEFINE fired == nextWake # 0 /\ Passed(nextWake)
           dead == IF fired THEN {m \in rows : Expiring(m) /\ Passed(Deadline(m))} ELSE {}
           sleeping == nextWake # 0 /\ ~fired
           due == {m \in rows : Expiring(m)} \ dead
<1>1. Remove(dead) /\ now' = now /\ stream /\ stream' /\ registered' = (notes = 0)
         /\ notes' = IF notes > 0 THEN notes - 1 ELSE 0
  BY DEF Poll
<1>2. ASSUME NEW m \in Ids, Expiring(m)'
      PROVE  m \in due /\ Expiring(m) /\ Deadline(m)' = Deadline(m)
  <2>1. m \notin dead /\ Expiring(m) /\ Deadline(m)' = Deadline(m)
    BY <1>1, <1>2, RemoveQuiet DEF Inv
  <2> QED
    BY <2>1 DEF Expiring
<1>3. CASE UpdateNextWake(due)
  <2> due \in SUBSET Ids
    BY DEF Inv, TypeOK
  <2>1. CASE due = {} /\ nextWake' = 0 /\ scheduled' = FALSE
    BY <1>1, <1>2, <2>1
       DEF Inv, WakesInTime, SleepCovers, SleepHasStream, DeafOnlyWhenIdle
  <2>2. CASE /\ due # {} /\ nextWake' \in Nat \ {0} /\ scheduled' = TRUE
             /\ \A m \in due : nextWake' <= Deadline(m) \/ nextWake' <= now + 1
    <3>1. SleepCovers'
      BY <1>1, <1>2, <2>2 DEF SleepCovers
    <3>2. WakesInTime' /\ SleepHasStream' /\ DeafOnlyWhenIdle'
      BY <1>1, <2>2 DEF WakesInTime, SleepHasStream, DeafOnlyWhenIdle, Deaf
    <3> QED
      BY <3>1, <3>2 DEF Inv
  <2> QED
    BY <1>3, <2>1, <2>2, UpdateCovers DEF Inv
<1>4. CASE notes = 0 /\ sleeping /\ nextWake' = nextWake /\ scheduled' = FALSE
  <2>1. SleepCovers'
    BY <1>1, <1>2, <1>4 DEF Inv, SleepCovers
  <2>2. WakesInTime'
    BY <1>4, <2>1 DEF WakesInTime, SleepCovers
  <2>3. SleepHasStream' /\ DeafOnlyWhenIdle'
    BY <1>1, <1>4 DEF SleepHasStream, DeafOnlyWhenIdle, Deaf
  <2> QED
    BY <2>1, <2>2, <2>3 DEF Inv
<1>5. \/ UpdateNextWake(due)
      \/ notes = 0 /\ sleeping /\ nextWake' = nextWake /\ scheduled' = FALSE
  <2>1. notes \in Nat
    BY ConstantsAssumption DEF ConstantsAssumption, Inv, TypeOK
  <2>2. IF notes > 0 \/ ~sleeping
        THEN UpdateNextWake(due)
        ELSE nextWake' = nextWake /\ scheduled' = FALSE
    BY DEF Poll
  <2> QED
    BY <2>1, <2>2
<1> QED
  BY <1>3, <1>4, <1>5

LEMMA NextInv == Inv /\ [Next]_vars => Inv'
<1> SUFFICES ASSUME Inv, [Next]_vars PROVE Inv'
  OBVIOUS
<1> TypeOK /\ TypeOK'
  BY NextTyped DEF Inv
<1>1. CASE HandleRestart
  BY <1>1 DEF HandleRestart, Handled, table, Inv, WakesInTime, SleepCovers, SleepHasStream,
              DeafOnlyWhenIdle, Deaf, Expiring, Deadline
<1>2. CASE Busy
  BY <1>2, HandledInv DEF Busy, Handled, table, Expiring, Deadline
<1>3. CASE Poll
  BY <1>3, PollInv
<1>4. CASE Elapse
  BY <1>4, HandledInv DEF Elapse, table, Expiring, Deadline
<1>5. CASE Tick
  <2>1. UNCHANGED <<table, actor>> /\ now' = now + 1 /\ now \in Nat
    BY <1>5 DEF Tick, TypeOK
  <2>2. \A m \in Ids : /\ Expiring(m)' <=> Expiring(m)
                       /\ Deadline(m)' = Deadline(m)
                       /\ nextWake <= now + 1 => nextWake <= now' + 1
    BY <2>1 DEF table, Expiring, Deadline, TypeOK
  <2>3. WakesInTime'
    BY <2>1, <2>2 DEF actor, Inv, WakesInTime
  <2>4. SleepCovers'
    BY <2>1, <2>2 DEF actor, Inv, SleepCovers
  <2>5. SleepHasStream' /\ DeafOnlyWhenIdle'
    BY <2>1 DEF actor, Inv, SleepHasStream, DeafOnlyWhenIdle, Deaf
  <2> QED
    BY <2>3, <2>4, <2>5 DEF Inv
<1>6. CASE Crash
  BY <1>6 DEF Crash, Inv, WakesInTime, SleepCovers, SleepHasStream, DeafOnlyWhenIdle, Deaf
<1>7. ASSUME NEW timeout \in Timeouts \cup {0}, QueueMessage(timeout) PROVE Inv'
  BY <1>7, NotifyInv DEF QueueMessage, Handled
<1>8. ASSUME NEW timeout \in Timeouts \cup {0}, QueueExpiryUpdate(timeout) PROVE Inv'
  BY <1>8, HandledInv, InsertQuiet DEF QueueExpiryUpdate, Handled
<1>9. ASSUME NEW timeout \in Timeouts \cup {0}, NEW start \in 0..now, NEW isTyped \in BOOLEAN,
             ReceiveMessage(timeout, start, isTyped)
      PROVE Inv'
  <2>1. \/ scheduled' = TRUE
        \/ scheduled' = (scheduled \/ registered)
    BY <1>9 DEF ReceiveMessage
  <2> QED
    BY <1>9, <2>1, NotifyInv DEF ReceiveMessage
<1>10. ASSUME NEW ms \in SUBSET rows, MarkMessagesRead(ms) PROVE Inv'
  BY <1>10, HandledInv DEF MarkMessagesRead, Handled, table, Expiring, Deadline
<1>11. ASSUME NEW ms \in SUBSET rows, DeleteSession(ms) PROVE Inv'
  BY <1>11, HandledInv, RemoveQuiet DEF DeleteSession, Handled
<1>12. ASSUME NEW ms \in reading, MarkedRead(ms) PROVE Inv'
  BY <1>12, NotifyInv DEF MarkedRead
<1>13. ASSUME NEW m \in Ids, StartMessageExpiry(m) PROVE Inv'
  BY <1>13, NotifyInv DEF StartMessageExpiry, Handled
<1>14. CASE UNCHANGED vars
  BY <1>14 DEF vars, table, actor, Inv, WakesInTime, SleepCovers, SleepHasStream,
               DeafOnlyWhenIdle, Deaf, Expiring, Deadline
<1> QED
  BY <1>1, <1>2, <1>3, <1>4, <1>5, <1>6, <1>7, <1>8, <1>9, <1>10, <1>11, <1>12, <1>13, <1>14
     DEF Next

LEMMA Invariance == Spec => []Inv
BY InitInv, NextInv, PTL DEF Spec

\* An actor at rest with an empty channel never oversleeps a deadline.
THEOREM NeverOversleeps == Spec => []WakesInTime
<1>1. Inv => WakesInTime
  BY DEF Inv
<1> QED
  BY <1>1, Invariance, PTL

\* A stream that sleeps towards a deadline hears every later notification.
THEOREM OnlyIdleIsDeaf == Spec => []DeafOnlyWhenIdle
<1>1. Inv => DeafOnlyWhenIdle
  BY DEF Inv
<1> QED
  BY <1>1, Invariance, PTL

-----------------------------------------------------------------------------
(* Timers start once.                                                      *)

LEMMA NextKeepsStarted ==
    ASSUME TypeOK, [Next]_vars, NEW m \in rows \cap rows', started[m] # 0
    PROVE  started'[m] = started[m]
<1> m \in Ids
  BY DEF TypeOK
<1>1. ASSUME NEW ms, Remove(ms) PROVE started'[m] = started[m]
  BY <1>1 DEF Remove
<1>2. ASSUME NEW timeout, NEW start, NEW isTyped, Insert(timeout, start, isTyped)
      PROVE  started'[m] = started[m]
  <2>1. PICK n \in Ids \ rows : started' = [started EXCEPT ![n] = start]
    BY <1>2 DEF Insert
  <2> QED
    BY <2>1 DEF TypeOK
<1>3. ASSUME NEW ms, TimersStart(ms) PROVE started'[m] = started[m]
  BY <1>3 DEF TimersStart
<1>4. ASSUME NEW n \in Ids, StartMessageExpiry(n) PROVE started'[m] = started[m]
  BY <1>4 DEF StartMessageExpiry, TypeOK
<1>5. CASE HandleRestart \/ Busy \/ Elapse \/ Tick \/ Crash \/ UNCHANGED vars
  BY <1>5 DEF HandleRestart, Busy, Elapse, Tick, Crash, vars, table
<1>6. CASE Poll
  BY <1>1, <1>6 DEF Poll
<1>7. CASE \E timeout \in Timeouts \cup {0} :
             \/ QueueMessage(timeout) \/ QueueExpiryUpdate(timeout)
             \/ \E start \in 0..now, isTyped \in BOOLEAN : ReceiveMessage(timeout, start, isTyped)
  BY <1>2, <1>7 DEF QueueMessage, QueueExpiryUpdate, ReceiveMessage
<1>8. CASE \E ms \in (SUBSET rows) \ {{}} : MarkMessagesRead(ms) \/ DeleteSession(ms)
  BY <1>1, <1>8 DEF MarkMessagesRead, DeleteSession, table
<1>9. CASE \E ms \in reading : MarkedRead(ms)
  BY <1>3, <1>9 DEF MarkedRead
<1> QED
  BY <1>4, <1>5, <1>6, <1>7, <1>8, <1>9 DEF Next

\* A timer that runs is never set anew.
THEOREM TimersStartOnce == Spec => StartedOnce
<1>1. TypeOK /\ [Next]_vars =>
        [\A m \in rows \cap rows' : started[m] # 0 => started'[m] = started[m]]_vars
  BY NextKeepsStarted
<1> QED
  BY <1>1, TypeCorrect, PTL DEF Spec, StartedOnce
=============================================================================
