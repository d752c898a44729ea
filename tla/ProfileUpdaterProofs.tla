------------------------ MODULE ProfileUpdaterProofs ------------------------
(***************************************************************************)
(* The safety properties of ProfileUpdater, for any number of recipients,  *)
(* updaters and websockets and any batch size.                             *)
(*                                                                         *)
(* AskedAfterDelay is about steps; what makes it hold is that the ignore   *)
(* map covers every recipient a batch took up less than the delay ago.     *)
(***************************************************************************)
EXTENDS ProfileUpdater, TLAPS

Ignoring ==
    \A u \in Updaters, r \in Recipients :
        DelayPassed(u, r) \/ ignored[u][r] >= asked[u][r][Len(asked[u][r])] + Delay

Inv == TypeOK /\ OneWakeScheduled /\ Ignoring

-----------------------------------------------------------------------------
(* The schedule.                                                           *)

\* The instant of a wake-up is a positive time.
LEMMA WakeDueTyped ==
    ASSUME now' \in Nat \ {0}, fetched' \in [Recipients -> Nat],
           backOff' \in [Updaters -> Nat],
           NEW u \in Updaters, NEW r \in Recipients
    PROVE  WakeDue(u, r)' \in Nat \ {0}
<1>1. now' \in Nat /\ now' > 0 /\ fetched'[r] \in Nat /\ backOff'[u] \in Nat
  OBVIOUS
<1>2. NextWake(u, r)' \in Nat
  BY <1>1 DEF NextWake
<1> QED
  BY <1>1, <1>2 DEF WakeDue

\* Whatever is scheduled before, update_scheduled_wake leaves typed timers.
LEMMA ScheduleTyped ==
    ASSUME TypeOK, now' \in Nat \ {0}, fetched' \in [Recipients -> Nat],
           backOff' \in [Updaters -> Nat],
           NEW u \in Updaters, NEW pending \in SUBSET (Nat \ {0}),
           UpdateScheduledWake(u, pending)
    PROVE  /\ handle' \in [Updaters -> Nat]
           /\ timers' \in [Updaters -> SUBSET (Nat \ {0})]
<1>1. CASE CancelWake(u, pending)
  BY <1>1 DEF CancelWake, TypeOK
<1>2. CASE ~CancelWake(u, pending)
  <2>1. PICK r \in Recipients :
           /\ handle' = [handle EXCEPT ![u] = WakeDue(u, r)']
           /\ timers' = [timers EXCEPT ![u] = (pending \ {handle[u]}) \cup {WakeDue(u, r)'}]
    BY <1>2 DEF UpdateScheduledWake, NextInLine
  <2>2. WakeDue(u, r)' \in Nat \ {0}
    BY WakeDueTyped
  <2> QED
    BY <2>1, <2>2 DEF TypeOK
<1> QED
  BY <1>1, <1>2

\* And one of them at most.
LEMMA ScheduleOne ==
    ASSUME TypeOK, OneWakeScheduled, now' \in Nat \ {0}, fetched' \in [Recipients -> Nat],
           backOff' \in [Updaters -> Nat],
           NEW u \in Updaters, NEW pending \in SUBSET timers[u],
           UpdateScheduledWake(u, pending)
    PROVE  OneWakeScheduled'
<1>1. pending \ {handle[u]} = {}
  BY DEF OneWakeScheduled
<1>2. CASE CancelWake(u, pending)
  BY <1>1, <1>2 DEF CancelWake, TypeOK, OneWakeScheduled
<1>3. CASE ~CancelWake(u, pending)
  <2>1. PICK r \in Recipients :
           /\ handle' = [handle EXCEPT ![u] = WakeDue(u, r)']
           /\ timers' = [timers EXCEPT ![u] = (pending \ {handle[u]}) \cup {WakeDue(u, r)'}]
    BY <1>3 DEF UpdateScheduledWake, NextInLine
  <2>2. WakeDue(u, r)' # 0
    BY WakeDueTyped
  <2>3. \A v \in Updaters \ {u} : timers'[v] = timers[v] /\ handle'[v] = handle[v]
    BY <2>1 DEF TypeOK
  <2>4. timers'[u] = {WakeDue(u, r)'} /\ handle'[u] = WakeDue(u, r)'
    BY <1>1, <2>1 DEF TypeOK
  <2> QED
    BY <2>2, <2>3, <2>4 DEF OneWakeScheduled
<1> QED
  BY <1>2, <1>3

\* The same when the wake-up is cancelled and no other one takes its place.
LEMMA CancelQuiet ==
    ASSUME TypeOK, OneWakeScheduled, NEW u \in Updaters, NEW pending \in SUBSET timers[u],
           CancelWake(u, pending)
    PROVE  /\ handle' \in [Updaters -> Nat]
           /\ timers' \in [Updaters -> SUBSET (Nat \ {0})]
           /\ OneWakeScheduled'
<1>1. handle' \in [Updaters -> Nat]
  BY DEF CancelWake, TypeOK
<1>2. timers' \in [Updaters -> SUBSET (Nat \ {0})]
  BY DEF CancelWake, TypeOK
<1>3. OneWakeScheduled'
  BY DEF CancelWake, TypeOK, OneWakeScheduled
<1> QED
  BY <1>1, <1>2, <1>3

\* The end of a batch, for which the clock stands still.
LEMMA EndBatchQuiet ==
    ASSUME TypeOK, OneWakeScheduled, now' = now, fetched' \in [Recipients -> Nat],
           NEW u \in Updaters, NEW pending \in SUBSET timers[u], NEW until \in Nat,
           EndBatch(u, pending, until)
    PROVE  /\ backOff' \in [Updaters -> Nat]
           /\ handle' \in [Updaters -> Nat]
           /\ timers' \in [Updaters -> SUBSET (Nat \ {0})]
           /\ OneWakeScheduled'
<1>1. now' \in Nat \ {0}
  BY ConstantsAssumption DEF TypeOK, ConstantsAssumption
<1>2. backOff' \in [Updaters -> Nat]
  BY <1>1 DEF EndBatch, TypeOK, Delay
<1>3. pending \in SUBSET (Nat \ {0})
  BY DEF TypeOK
<1>4. UpdateScheduledWake(u, pending)
  BY DEF EndBatch
<1> QED
  BY <1>1, <1>2, <1>3, <1>4, ScheduleTyped, ScheduleOne

-----------------------------------------------------------------------------
(* Answers and batches.                                                    *)

\* What an answer leaves is of the type of the store.
LEMMA AnswerTyped ==
    ASSUME TypeOK, NEW u \in Updaters, NEW r \in Recipients,
           NEW answer \in ProfileFetched(u, r)
    PROVE  /\ answer.fetch \in Nat /\ answer.until \in Nat
           /\ answer.reg \subseteq Recipients /\ answer.avatar \subseteq Recipients
<1>1. now \in Nat /\ fetched[r] \in Nat /\ backOff[u] \in Nat /\ registered \subseteq Recipients
  BY ConstantsAssumption DEF TypeOK, ConstantsAssumption
<1>2. \A retry \in 0..MaxRetry \cup {Delay} : now + retry \in Nat
  BY <1>1, ConstantsAssumption DEF Delay, ConstantsAssumption
<1> QED
  BY <1>1, <1>2 DEF ProfileFetched, Answer

\* The store stays typed.
LEMMA StoreTyped ==
    ASSUME TypeOK, NEW u \in Updaters, NEW r \in Recipients,
           NEW answer \in ProfileFetched(u, r), Store(u, r, answer)
    PROVE  /\ fetched' \in [Recipients -> Nat] /\ registered' \subseteq Recipients
           /\ avatars' \in [Updaters -> SUBSET Recipients]
BY AnswerTyped DEF Store, TypeOK

\* A batch on its way has somebody left.
LEMMA UnlessDoneTyped ==
    ASSUME NEW since \in Nat, NEW left \in SUBSET Recipients
    PROVE  UnlessDone(since, left) \subseteq Nat \X ((SUBSET Recipients) \ {{}})
BY DEF UnlessDone

-----------------------------------------------------------------------------
(* Starting an updater.                                                    *)

LEMMA StartKeeps ==
    ASSUME TypeOK, OneWakeScheduled, now' = now, fetched' \in [Recipients -> Nat],
           NEW letters \in SUBSET {"WakeUp", "Reconnected", "FetchProfile"}, Start(letters)
    PROVE  /\ starts' \in 0..MaxStarts /\ starts' = starts + 1
           /\ ws' \in [Updaters -> 0..last]
           /\ mail' \in [Updaters -> SUBSET {"WakeUp", "Reconnected", "FetchProfile"}]
           /\ backOff' \in [Updaters -> Nat]
           /\ handle' \in [Updaters -> Nat]
           /\ timers' \in [Updaters -> SUBSET (Nat \ {0})]
           /\ registered' = registered /\ ignored' = ignored
           /\ OneWakeScheduled'
<1>1. PICK u \in Updaters :
         /\ u = starts + 1 /\ starts' = u
         /\ ws' = [ws EXCEPT ![u] = socket]
         /\ mail' = [mail EXCEPT ![u] = letters]
         /\ backOff' = [backOff EXCEPT ![u] = now + Delay]
         /\ UNCHANGED <<registered, ignored>>
         /\ UpdateScheduledWake(u, {})
  BY DEF Start
<1>2. now' \in Nat \ {0}
  BY ConstantsAssumption DEF TypeOK, ConstantsAssumption
<1>3. backOff' \in [Updaters -> Nat]
  BY <1>1, <1>2 DEF TypeOK, Delay
<1>4. handle' \in [Updaters -> Nat] /\ timers' \in [Updaters -> SUBSET (Nat \ {0})]
  BY <1>1, <1>2, <1>3, ScheduleTyped
<1>5. OneWakeScheduled'
  BY <1>1, <1>2, <1>3, ScheduleOne
<1>6. starts' \in 0..MaxStarts
  BY <1>1, ConstantsAssumption DEF Updaters, ConstantsAssumption
<1>7. ws' \in [Updaters -> 0..last]
  BY <1>1 DEF TypeOK
<1>8. mail' \in [Updaters -> SUBSET {"WakeUp", "Reconnected", "FetchProfile"}]
  BY <1>1 DEF TypeOK
<1> QED
  BY <1>1, <1>3, <1>4, <1>5, <1>6, <1>7, <1>8
-----------------------------------------------------------------------------
(* Taking up a batch.                                                      *)

\* The longest of the delays has passed, or the recipient is still ignored.
LEMMA StillIgnoring ==
    ASSUME TypeOK, Ignoring, NEW u \in Updaters, NEW r \in Recipients,
           StillIgnored(u)[r] = 0
    PROVE  DelayPassed(u, r)
<1>1. ignored[u][r] \in Nat /\ now \in Nat /\ now > 0
  BY ConstantsAssumption DEF TypeOK, ConstantsAssumption
<1>2. ~(ignored[u][r] > now)
  BY <1>1 DEF StillIgnored
<1>3. CASE ignored[u][r] >= asked[u][r][Len(asked[u][r])] + Delay
  <2>1. CASE asked[u][r] = <<>>
    BY <2>1 DEF DelayPassed
  <2>2. CASE asked[u][r] # <<>>
    <3>1. asked[u][r] \in Seq(Nat)
      BY DEF TypeOK
    <3>2. asked[u][r][Len(asked[u][r])] \in Nat
      BY <2>2, <3>1
    <3> QED
      BY <1>1, <1>2, <1>3, <3>2 DEF DelayPassed, Delay
  <2> QED
    BY <2>1, <2>2
<1> QED
  BY <1>3 DEF Ignoring

\* The last instant of a history that was extended.
LEMMA LastAppended ==
    ASSUME NEW s \in Seq(Nat), NEW t \in Nat
    PROVE  /\ Append(s, t) \in Seq(Nat)
           /\ Append(s, t)[Len(Append(s, t))] = t
OBVIOUS

\* A wake-up takes up whom the delay has passed for, and ignores them.
LEMMA WakeUpIgnores ==
    ASSUME TypeOK, Ignoring, NEW u \in Updaters, NEW pending, HandleWakeUp(u, pending),
           now' = now
    PROVE  /\ ignored' \in [Updaters -> [Recipients -> Nat]]
           /\ asked' \in [Updaters -> [Recipients -> Seq(Nat)]]
           /\ Ignoring'
           /\ \A v \in Updaters, r \in Recipients :
                 asked'[v][r] # asked[v][r] => v = u /\ DelayPassed(u, r)
<1> DEFINE kept == StillIgnored(u)
<1>0. now \in Nat
  BY DEF TypeOK
<1>1. kept \in [Recipients -> Nat]
  BY DEF StillIgnored, TypeOK
<1>2. PICK b \in SUBSET Recipients :
         /\ \A r \in b : kept[r] = 0
         /\ ignored' = [ignored EXCEPT ![u] =
                            [r \in Recipients |-> IF r \in b THEN now + Delay ELSE kept[r]]]
         /\ asked' = [asked EXCEPT ![u] =
                          [r \in Recipients |-> IF r \in b THEN Append(@[r], now) ELSE @[r]]]
  <2>1. CASE ~Live(ws[u])
    <3>1. ignored' = [ignored EXCEPT ![u] = kept] /\ asked' = asked
      BY <2>1 DEF HandleWakeUp
    <3>2. kept = [r \in Recipients |-> IF r \in {} THEN now + Delay ELSE kept[r]]
      BY <1>1
    <3>3. asked = [asked EXCEPT ![u] =
                       [r \in Recipients |-> IF r \in {} THEN Append(@[r], now) ELSE @[r]]]
      <4>1. asked[u] = [r \in Recipients |-> asked[u][r]]
        BY DEF TypeOK
      <4> QED
        BY <4>1 DEF TypeOK
    <3>4. \A r \in {} : kept[r] = 0
      OBVIOUS
    <3>5. ignored' = [ignored EXCEPT ![u] =
                          [r \in Recipients |-> IF r \in {} THEN now + Delay ELSE kept[r]]]
      BY <3>1, <3>2, Zenon
    <3> WITNESS {} \in SUBSET Recipients
    <3> QED
      BY <3>1, <3>3, <3>4, <3>5, Zenon
  <2>2. CASE Live(ws[u])
    <3>1. PICK b \in Batches(kept) :
             /\ ignored' = [ignored EXCEPT ![u] =
                                [r \in Recipients |-> IF r \in b THEN now + Delay ELSE kept[r]]]
             /\ asked' = [asked EXCEPT ![u] =
                              [r \in Recipients |-> IF r \in b THEN Append(@[r], now) ELSE @[r]]]
      BY <2>2, Zenon DEF HandleWakeUp
    <3>2. b \subseteq {r \in Recipients : Outdated(r) /\ kept[r] = 0}
      BY DEF Batches
    <3>3. b \in SUBSET Recipients /\ \A r \in b : kept[r] = 0
      BY <3>2
    <3> QED
      BY <3>1, <3>3
  <2> QED
    BY <2>1, <2>2
<1>3. ignored' \in [Updaters -> [Recipients -> Nat]]
  BY <1>0, <1>1, <1>2 DEF TypeOK, Delay
<1>4. \A r \in Recipients : asked[u][r] \in Seq(Nat) /\ Append(asked[u][r], now) \in Seq(Nat)
  BY <1>0, LastAppended DEF TypeOK
<1>5. asked' \in [Updaters -> [Recipients -> Seq(Nat)]]
  BY <1>2, <1>4 DEF TypeOK
<1>6. \A v \in Updaters \ {u} : asked'[v] = asked[v] /\ ignored'[v] = ignored[v]
  BY <1>2 DEF TypeOK
<1>7. \A r \in Recipients :
         /\ asked'[u][r] = IF r \in b THEN Append(asked[u][r], now) ELSE asked[u][r]
         /\ ignored'[u][r] = IF r \in b THEN now + Delay ELSE kept[r]
  BY <1>2 DEF TypeOK
<1>8. ASSUME NEW v \in Updaters, NEW r \in Recipients
      PROVE  \/ DelayPassed(v, r)'
             \/ ignored'[v][r] >= asked'[v][r][Len(asked'[v][r])] + Delay
  <2>1. CASE v # u
    BY <1>6, <2>1 DEF Ignoring, DelayPassed
  <2>2. CASE v = u /\ r \in b
    <3>1. asked'[u][r][Len(asked'[u][r])] = now
      <4>1. asked[u][r] \in Seq(Nat)
        BY <1>4
      <4>2. Append(asked[u][r], now)[Len(Append(asked[u][r], now))] = now
        BY <1>0, <4>1, LastAppended
      <4>3. asked'[u][r] = Append(asked[u][r], now)
        BY <1>7, <2>2
      <4> QED
        BY <4>2, <4>3, Zenon
    <3>2. ignored'[u][r] = now + Delay
      BY <1>7, <2>2
    <3> QED
      BY <1>0, <2>2, <3>1, <3>2 DEF Delay
  <2>3. CASE v = u /\ r \notin b
    <3>1. asked'[u][r] = asked[u][r] /\ ignored'[u][r] = kept[r]
      BY <1>7, <2>3
    <3>2. CASE kept[r] = 0
      <4>1. DelayPassed(u, r)
        BY <3>2, StillIgnoring
      <4> QED
        BY <2>3, <3>1, <4>1 DEF DelayPassed
    <3>3. CASE kept[r] # 0
      <4>1. kept[r] = ignored[u][r]
        BY <3>3 DEF StillIgnored
      <4> QED
        BY <2>3, <3>1, <4>1 DEF Ignoring, DelayPassed
    <3> QED
      BY <3>2, <3>3
  <2> QED
    BY <2>1, <2>2, <2>3
<1>9. Ignoring'
  BY <1>8 DEF Ignoring
<1>10. ASSUME NEW v \in Updaters, NEW r \in Recipients, asked'[v][r] # asked[v][r]
       PROVE  v = u /\ DelayPassed(u, r)
  <2>1. v = u /\ r \in b
    BY <1>6, <1>7, <1>10
  <2> QED
    BY <1>2, <2>1, StillIgnoring
<1> QED
  BY <1>3, <1>5, <1>9, <1>10

\* A step that leaves the ignore map, the history and the clock alone.
LEMMA IgnoringStays ==
    ASSUME Ignoring, UNCHANGED <<now, ignored, asked>>
    PROVE  Ignoring'
BY DEF Ignoring, DelayPassed

\* The rest of a wake-up: its schedule and its batches.
LEMMA WakeUpSchedules ==
    ASSUME TypeOK, OneWakeScheduled, UNCHANGED <<now, fetched>>,
           NEW u \in Updaters, NEW pending \in SUBSET timers[u], HandleWakeUp(u, pending)
    PROVE  /\ backOff' \in [Updaters -> Nat]
           /\ handle' \in [Updaters -> Nat]
           /\ timers' \in [Updaters -> SUBSET (Nat \ {0})]
           /\ batches' \in [Updaters -> SUBSET (Nat \X ((SUBSET Recipients) \ {{}}))]
           /\ OneWakeScheduled'
<1>0. fetched' \in [Recipients -> Nat] /\ backOff[u] \in Nat /\ now \in Nat
  BY DEF TypeOK
<1>1. CASE ~Live(ws[u])
  <2>1. CancelWake(u, pending) /\ backOff' = backOff /\ batches' = batches
    BY <1>1 DEF HandleWakeUp
  <2> QED
    BY <2>1, CancelQuiet DEF TypeOK
<1>2. CASE Live(ws[u])
  <2>1. PICK b \in Batches(StillIgnored(u)) :
           /\ batches' = [batches EXCEPT ![u] = @ \cup UnlessDone(now, b)]
           /\ IF b = {}
              THEN EndBatch(u, pending, backOff[u])
              ELSE CancelWake(u, pending) /\ UNCHANGED backOff
    BY <1>2, Zenon DEF HandleWakeUp
  <2>2. UnlessDone(now, b) \subseteq Nat \X ((SUBSET Recipients) \ {{}})
    <3>1. b \in SUBSET Recipients
      BY DEF Batches
    <3> QED
      BY <1>0, <3>1, UnlessDoneTyped
  <2>3. batches' \in [Updaters -> SUBSET (Nat \X ((SUBSET Recipients) \ {{}}))]
    BY <2>1, <2>2 DEF TypeOK
  <2>4. CASE b = {}
    <3>1. EndBatch(u, pending, backOff[u])
      BY <2>1, <2>4
    <3> QED
      BY <1>0, <2>3, <3>1, EndBatchQuiet
  <2>5. CASE b # {}
    <3>1. CancelWake(u, pending) /\ backOff' = backOff
      BY <2>1, <2>5
    <3>2. backOff' \in [Updaters -> Nat]
      BY <3>1 DEF TypeOK
    <3> QED
      BY <2>3, <3>1, <3>2, CancelQuiet
  <2> QED
    BY <2>4, <2>5
<1> QED
  BY <1>1, <1>2

-----------------------------------------------------------------------------
(* The invariant.                                                          *)

LEMMA InitInv == Init => Inv
<1> SUFFICES ASSUME Init PROVE Inv
  OBVIOUS
<1>1. TypeOK
  BY ConstantsAssumption DEF Init, TypeOK, ConstantsAssumption
<1>2. OneWakeScheduled
  BY DEF Init, OneWakeScheduled
<1>3. Ignoring
  BY DEF Init, Ignoring, DelayPassed
<1> QED
  BY <1>1, <1>2, <1>3 DEF Inv

\* Every step of ClientActor keeps the invariant.
LEMMA ClientKeepsInv ==
    ASSUME Inv,
           \/ HandleRestart \/ RefreshOwnProfile \/ Disconnected
           \/ \E r \in Recipients : RefreshProfile(r)
           \/ \E u \in Updaters : OpenPipe(u) \/ Connected(u)
    PROVE  Inv'
<1>0. TypeOK /\ OneWakeScheduled /\ Ignoring
  BY DEF Inv
<1>1. CASE HandleRestart
  <2>1. /\ now' = now /\ fetched' = fetched /\ Start({})
        /\ connecting' = connecting \cup {starts'}
        /\ UNCHANGED <<last, socket, announced, batches, avatars, asked>>
    BY <1>1 DEF HandleRestart
  <2>2. /\ starts' \in 0..MaxStarts /\ starts' = starts + 1
        /\ ws' \in [Updaters -> 0..last]
        /\ mail' \in [Updaters -> SUBSET {"WakeUp", "Reconnected", "FetchProfile"}]
        /\ backOff' \in [Updaters -> Nat] /\ handle' \in [Updaters -> Nat]
        /\ timers' \in [Updaters -> SUBSET (Nat \ {0})]
        /\ registered' = registered /\ ignored' = ignored
        /\ OneWakeScheduled'
    BY <1>0, <2>1, StartKeeps DEF TypeOK
  <2>3. connecting' \subseteq 1..starts'
    <3>1. starts' \in 1..starts' /\ 1..starts \subseteq 1..starts'
      BY <1>0, <2>2 DEF TypeOK
    <3>2. connecting \subseteq 1..starts
      BY <1>0 DEF TypeOK
    <3> QED
      BY <2>1, <3>1, <3>2
  <2>4. TypeOK'
    BY <1>0, <2>1, <2>2, <2>3 DEF TypeOK
  <2> QED
    BY <1>0, <2>1, <2>2, <2>4, IgnoringStays DEF Inv
<1>2. CASE RefreshOwnProfile
  <2>1. PICK letters \in {{}, {"FetchProfile"}} : Start(letters)
    BY <1>2 DEF RefreshOwnProfile
  <2>2. now' = now /\ fetched' = fetched /\ UNCHANGED <<sockets, batches, avatars, asked>>
    BY <1>2 DEF RefreshOwnProfile
  <2>3. /\ starts' \in 0..MaxStarts /\ starts' = starts + 1
        /\ ws' \in [Updaters -> 0..last]
        /\ mail' \in [Updaters -> SUBSET {"WakeUp", "Reconnected", "FetchProfile"}]
        /\ backOff' \in [Updaters -> Nat] /\ handle' \in [Updaters -> Nat]
        /\ timers' \in [Updaters -> SUBSET (Nat \ {0})]
        /\ registered' = registered /\ ignored' = ignored
        /\ OneWakeScheduled'
    BY <1>0, <2>1, <2>2, StartKeeps DEF TypeOK
  <2>4. connecting' \subseteq 1..starts'
    BY <1>0, <2>2, <2>3 DEF TypeOK, sockets
  <2>5. TypeOK'
    BY <1>0, <2>2, <2>3, <2>4 DEF TypeOK, sockets
  <2> QED
    BY <1>0, <2>2, <2>3, <2>5, IgnoringStays DEF Inv
<1>3. CASE Disconnected
  <2>1. connecting' \subseteq connecting /\ (socket' = socket \/ socket' = 0)
    BY <1>3 DEF Disconnected
  <2>2. UNCHANGED <<now, store, last, announced, starts, ws, mail, ignored, schedule,
                    batches, avatars, asked>>
    BY <1>3 DEF Disconnected
  <2>3. TypeOK'
    <3>1. socket' \in 0..last' /\ connecting' \subseteq 1..starts'
      BY <1>0, <2>1, <2>2 DEF TypeOK
    <3>2. UNCHANGED <<now, fetched, registered, last, announced, starts, ws, mail, ignored,
                      backOff, handle, timers, batches, avatars, asked>>
      BY <2>2 DEF store, schedule
    <3> QED
      BY <1>0, <3>1, <3>2 DEF TypeOK
  <2>4. OneWakeScheduled'
    BY <1>0, <2>2 DEF OneWakeScheduled, schedule
  <2> QED
    BY <1>0, <2>2, <2>3, <2>4, IgnoringStays DEF Inv
<1>4. ASSUME NEW r \in Recipients, RefreshProfile(r)
      PROVE  Inv'
  <2>1. /\ now' = now /\ fetched' = [fetched EXCEPT ![r] = 0] /\ Start({"WakeUp"})
        /\ UNCHANGED <<sockets, batches, avatars, asked>>
    BY <1>4 DEF RefreshProfile
  <2>2. fetched' \in [Recipients -> Nat]
    BY <1>0, <2>1 DEF TypeOK
  <2>3. /\ starts' \in 0..MaxStarts /\ starts' = starts + 1
        /\ ws' \in [Updaters -> 0..last]
        /\ mail' \in [Updaters -> SUBSET {"WakeUp", "Reconnected", "FetchProfile"}]
        /\ backOff' \in [Updaters -> Nat] /\ handle' \in [Updaters -> Nat]
        /\ timers' \in [Updaters -> SUBSET (Nat \ {0})]
        /\ registered' = registered /\ ignored' = ignored
        /\ OneWakeScheduled'
    BY <1>0, <2>1, <2>2, StartKeeps
  <2>4. connecting' \subseteq 1..starts'
    BY <1>0, <2>1, <2>3 DEF TypeOK, sockets
  <2>5. TypeOK'
    BY <1>0, <2>1, <2>2, <2>3, <2>4 DEF TypeOK, sockets
  <2> QED
    BY <1>0, <2>1, <2>3, <2>5, IgnoringStays DEF Inv
<1>5. ASSUME NEW u \in Updaters, OpenPipe(u)
      PROVE  Inv'
  <2>1. /\ connecting' = connecting \ {u} /\ last' = last + 1
        /\ announced' = [announced EXCEPT ![u] = last + 1]
        /\ mail' = [mail EXCEPT ![u] = @ \cup {"Reconnected"}]
        /\ UNCHANGED <<now, store, socket, starts, ws, ignored, schedule, batches,
                       avatars, asked>>
    BY <1>5 DEF OpenPipe
  <2>2. last' \in Nat /\ socket' \in 0..last' /\ ws' \in [Updaters -> 0..last']
    <3>1. last' \in Nat /\ 0..last \subseteq 0..last'
      BY <1>0, <2>1 DEF TypeOK
    <3> QED
      BY <1>0, <2>1, <3>1 DEF TypeOK
  <2>3. announced' \in [Updaters -> 0..last']
    <3>1. last + 1 \in 0..last' /\ 0..last \subseteq 0..last'
      BY <1>0, <2>1 DEF TypeOK
    <3> QED
      BY <1>0, <2>1, <3>1 DEF TypeOK
  <2>4. mail' \in [Updaters -> SUBSET {"WakeUp", "Reconnected", "FetchProfile"}]
    BY <1>0, <2>1 DEF TypeOK
  <2>5. TypeOK'
    BY <1>0, <2>1, <2>2, <2>3, <2>4 DEF TypeOK, store, schedule
  <2>6. OneWakeScheduled'
    BY <1>0, <2>1 DEF OneWakeScheduled, schedule
  <2> QED
    BY <1>0, <2>1, <2>5, <2>6, IgnoringStays DEF Inv
<1>6. ASSUME NEW u \in Updaters, Connected(u)
      PROVE  Inv'
  <2>1. /\ socket' = announced[u] /\ announced' = [announced EXCEPT ![u] = 0]
        /\ UNCHANGED <<now, store, last, connecting, starts, ws, mail, ignored, schedule,
                       batches, avatars, asked>>
    BY <1>6 DEF Connected
  <2>2. socket' \in 0..last /\ announced' \in [Updaters -> 0..last]
    BY <1>0, <2>1 DEF TypeOK
  <2>3. TypeOK'
    BY <1>0, <2>1, <2>2 DEF TypeOK, store, schedule
  <2>4. OneWakeScheduled'
    BY <1>0, <2>1 DEF OneWakeScheduled, schedule
  <2> QED
    BY <1>0, <2>1, <2>3, <2>4, IgnoringStays DEF Inv
<1> QED
  BY <1>1, <1>2, <1>3, <1>4, <1>5, <1>6

\* The wake-ups, of either kind, with what is left of the mail.
LEMMA WakeUpKeepsInv ==
    ASSUME Inv, NEW u \in Updaters, NEW pending \in SUBSET timers[u],
           HandleWakeUp(u, pending),
           UNCHANGED <<now, store, sockets, starts, ws, avatars>>,
           mail' \in [Updaters -> SUBSET {"WakeUp", "Reconnected", "FetchProfile"}]
    PROVE  Inv'
<1>0. TypeOK /\ OneWakeScheduled /\ Ignoring
  BY DEF Inv
<1>1. /\ ignored' \in [Updaters -> [Recipients -> Nat]]
      /\ asked' \in [Updaters -> [Recipients -> Seq(Nat)]]
      /\ Ignoring'
  BY <1>0, WakeUpIgnores
<1>2. /\ backOff' \in [Updaters -> Nat] /\ handle' \in [Updaters -> Nat]
      /\ timers' \in [Updaters -> SUBSET (Nat \ {0})]
      /\ batches' \in [Updaters -> SUBSET (Nat \X ((SUBSET Recipients) \ {{}}))]
      /\ OneWakeScheduled'
  BY <1>0, WakeUpSchedules DEF store
<1>3. TypeOK'
  BY <1>0, <1>1, <1>2 DEF TypeOK, store, sockets
<1> QED
  BY <1>1, <1>2, <1>3 DEF Inv

\* Every step of an updater, and the passage of time, keeps the invariant.
LEMMA UpdaterKeepsInv ==
    ASSUME Inv,
           \/ Tick
           \/ \E u \in Updaters :
                 \/ UpdaterStep(u) \/ OwnProfileFetched(u)
                 \/ \E r \in avatars[u] : AvatarFetched(u, r)
    PROVE  Inv'
<1>0. TypeOK /\ OneWakeScheduled /\ Ignoring
  BY DEF Inv
<1>1. CASE Tick
  <2>1. now \in Nat /\ now' = now + 1 /\ now < MaxTime
    BY <1>0, <1>1 DEF Tick, TypeOK
  <2>2. UNCHANGED <<store, sockets, starts, ws, mail, ignored, schedule, batches,
                    avatars, asked>>
    BY <1>1 DEF Tick
  <2>3. now' \in 1..MaxTime
    BY <2>1, ConstantsAssumption DEF ConstantsAssumption
  <2>4. TypeOK'
    BY <1>0, <2>2, <2>3 DEF TypeOK, store, sockets, schedule
  <2>5. OneWakeScheduled'
    BY <1>0, <2>2 DEF OneWakeScheduled, schedule
  <2>6. ASSUME NEW u \in Updaters, NEW r \in Recipients, DelayPassed(u, r)
        PROVE  DelayPassed(u, r)'
    <3>1. CASE asked[u][r] = <<>>
      BY <2>2, <3>1 DEF DelayPassed
    <3>2. CASE asked[u][r] # <<>>
      <4>1. asked[u][r] \in Seq(Nat)
        BY <1>0 DEF TypeOK
      <4>2. asked[u][r][Len(asked[u][r])] \in Nat
        BY <3>2, <4>1
      <4>3. now >= asked[u][r][Len(asked[u][r])] + Delay
        BY <2>6, <3>2 DEF DelayPassed
      <4>4. now' >= asked[u][r][Len(asked[u][r])] + Delay
        BY <2>1, <4>2, <4>3 DEF Delay
      <4> QED
        BY <2>2, <4>4 DEF DelayPassed
    <3> QED
      BY <3>1, <3>2
  <2>7. Ignoring'
    BY <1>0, <2>2, <2>6 DEF Ignoring
  <2> QED
    BY <2>4, <2>5, <2>7 DEF Inv
<1>2. ASSUME NEW u \in Updaters, Reconnected(u)
      PROVE  Inv'
  <2>1. /\ mail' = [mail EXCEPT ![u] = @ \ {"Reconnected"}]
        /\ ws' = [ws EXCEPT ![u] = announced[u]]
        /\ UNCHANGED <<now, store, sockets, starts, ignored, backOff, batches, avatars,
                       asked>>
        /\ UpdateScheduledWake(u, timers[u])
    BY <1>2 DEF Reconnected
  <2>2. /\ now' \in Nat \ {0} /\ fetched' \in [Recipients -> Nat]
        /\ backOff' \in [Updaters -> Nat] /\ timers[u] \in SUBSET (Nat \ {0})
    BY <1>0, <2>1, ConstantsAssumption DEF TypeOK, store, ConstantsAssumption
  <2>3. handle' \in [Updaters -> Nat] /\ timers' \in [Updaters -> SUBSET (Nat \ {0})]
    BY <1>0, <2>1, <2>2, ScheduleTyped
  <2>4. OneWakeScheduled'
    BY <1>0, <2>1, <2>2, ScheduleOne
  <2>5. mail' \in [Updaters -> SUBSET {"WakeUp", "Reconnected", "FetchProfile"}]
    BY <1>0, <2>1 DEF TypeOK
  <2>6. ws' \in [Updaters -> 0..last]
    BY <1>0, <2>1 DEF TypeOK
  <2>7. TypeOK'
    BY <1>0, <2>1, <2>3, <2>5, <2>6 DEF TypeOK, store, sockets
  <2> QED
    BY <1>0, <2>1, <2>4, <2>7, IgnoringStays DEF Inv
<1>3. ASSUME NEW u \in Updaters, WakeUpElapses(u)
      PROVE  Inv'
  <2>1. PICK t \in timers[u] : HandleWakeUp(u, timers[u] \ {t})
    BY <1>3 DEF WakeUpElapses
  <2>2. UNCHANGED <<now, store, sockets, starts, ws, mail, avatars>>
    BY <1>3 DEF WakeUpElapses
  <2>3. mail' \in [Updaters -> SUBSET {"WakeUp", "Reconnected", "FetchProfile"}]
    BY <1>0, <2>2 DEF TypeOK
  <2> QED
    BY <2>1, <2>2, <2>3, WakeUpKeepsInv
<1>4. ASSUME NEW u \in Updaters, WakeUpRequested(u)
      PROVE  Inv'
  <2>1. /\ HandleWakeUp(u, timers[u])
        /\ UNCHANGED <<now, store, sockets, starts, ws, avatars>>
        /\ mail' = [mail EXCEPT ![u] = @ \ {"WakeUp"}]
    BY <1>4 DEF WakeUpRequested
  <2>2. mail' \in [Updaters -> SUBSET {"WakeUp", "Reconnected", "FetchProfile"}]
    BY <1>0, <2>1 DEF TypeOK
  <2> QED
    BY <2>1, <2>2, WakeUpKeepsInv
<1>5. ASSUME NEW u \in Updaters, NEW batch \in batches[u], NEW r \in batch[2],
             BatchFetch(u, batch[1], batch[2], r)
      PROVE  Inv'
  <2>1. batch[1] \in Nat /\ batch[2] \in SUBSET Recipients /\ r \in Recipients
    BY <1>0 DEF TypeOK
  <2>2. PICK answer \in ProfileFetched(u, r) :
           /\ Store(u, r, answer)
           /\ IF batch[2] = {r}
              THEN EndBatch(u, timers[u], answer.until)
              ELSE backOff' = [backOff EXCEPT ![u] = answer.until] /\ UNCHANGED <<handle, timers>>
    BY <1>5 DEF BatchFetch
  <2>3. /\ UNCHANGED <<now, sockets, starts, ws, mail, ignored, asked>>
        /\ batches' = [batches EXCEPT ![u] = (@ \ {<<batch[1], batch[2]>>})
                                             \cup UnlessDone(batch[1], batch[2] \ {r})]
    BY <1>5 DEF BatchFetch
  <2>4. /\ fetched' \in [Recipients -> Nat] /\ registered' \subseteq Recipients
        /\ avatars' \in [Updaters -> SUBSET Recipients]
    BY <1>0, <2>1, <2>2, StoreTyped
  <2>5. batches' \in [Updaters -> SUBSET (Nat \X ((SUBSET Recipients) \ {{}}))]
    <3>1. UnlessDone(batch[1], batch[2] \ {r}) \subseteq Nat \X ((SUBSET Recipients) \ {{}})
      BY <2>1, UnlessDoneTyped
    <3> QED
      BY <1>0, <2>3, <3>1 DEF TypeOK
  <2>6. answer.until \in Nat
    BY <1>0, <2>1, AnswerTyped
  <2>7. /\ backOff' \in [Updaters -> Nat] /\ handle' \in [Updaters -> Nat]
        /\ timers' \in [Updaters -> SUBSET (Nat \ {0})]
        /\ OneWakeScheduled'
    <3>1. CASE batch[2] = {r}
      <4>1. EndBatch(u, timers[u], answer.until)
        BY <2>2, <3>1
      <4> QED
        BY <1>0, <2>3, <2>4, <2>6, <4>1, EndBatchQuiet
    <3>2. CASE batch[2] # {r}
      <4>1. backOff' = [backOff EXCEPT ![u] = answer.until] /\ UNCHANGED <<handle, timers>>
        BY <2>2, <3>2
      <4> QED
        BY <1>0, <2>6, <4>1 DEF TypeOK, OneWakeScheduled
    <3> QED
      BY <3>1, <3>2
  <2>8. TypeOK'
    BY <1>0, <2>3, <2>4, <2>5, <2>7 DEF TypeOK, sockets
  <2> QED
    BY <1>0, <2>3, <2>7, <2>8, IgnoringStays DEF Inv
<1>6. ASSUME NEW u \in Updaters, OwnProfileFetched(u)
      PROVE  Inv'
  <2>1. PICK answer \in ProfileFetched(u, Own) :
           Store(u, Own, answer) /\ backOff' = [backOff EXCEPT ![u] = answer.until]
    BY <1>6 DEF OwnProfileFetched
  <2>2. /\ mail' = [mail EXCEPT ![u] = @ \ {"FetchProfile"}]
        /\ UNCHANGED <<now, sockets, starts, ws, ignored, handle, timers, batches, asked>>
    BY <1>6 DEF OwnProfileFetched
  <2>3. Own \in Recipients
    BY ConstantsAssumption DEF ConstantsAssumption
  <2>4. /\ fetched' \in [Recipients -> Nat] /\ registered' \subseteq Recipients
        /\ avatars' \in [Updaters -> SUBSET Recipients]
    BY <1>0, <2>1, <2>3, StoreTyped
  <2>5. backOff' \in [Updaters -> Nat]
    <3>1. answer.until \in Nat
      BY <1>0, <2>3, AnswerTyped
    <3> QED
      BY <1>0, <2>1, <3>1 DEF TypeOK
  <2>6. mail' \in [Updaters -> SUBSET {"WakeUp", "Reconnected", "FetchProfile"}]
    BY <1>0, <2>2 DEF TypeOK
  <2>7. TypeOK'
    BY <1>0, <2>2, <2>4, <2>5, <2>6 DEF TypeOK, sockets
  <2>8. OneWakeScheduled'
    BY <1>0, <2>2 DEF OneWakeScheduled
  <2> QED
    BY <1>0, <2>2, <2>7, <2>8, IgnoringStays DEF Inv
<1>7. ASSUME NEW u \in Updaters, NEW r \in avatars[u], AvatarFetched(u, r)
      PROVE  Inv'
  <2>1. /\ avatars' = [avatars EXCEPT ![u] = @ \ {r}]
        /\ fetched' = [fetched EXCEPT ![r] = now]
        /\ UNCHANGED <<now, registered, sockets, starts, ws, mail, ignored, schedule,
                       batches, asked>>
    BY <1>7 DEF AvatarFetched
  <2>2. fetched' \in [Recipients -> Nat] /\ avatars' \in [Updaters -> SUBSET Recipients]
    BY <1>0, <2>1 DEF TypeOK
  <2>3. TypeOK'
    BY <1>0, <2>1, <2>2 DEF TypeOK, sockets, schedule
  <2>4. OneWakeScheduled'
    BY <1>0, <2>1 DEF OneWakeScheduled, schedule
  <2> QED
    BY <1>0, <2>1, <2>3, <2>4, IgnoringStays DEF Inv
<1> QED
  BY <1>1, <1>2, <1>3, <1>4, <1>5, <1>6, <1>7 DEF UpdaterStep

LEMMA StutterKeepsInv ==
    ASSUME Inv, UNCHANGED vars
    PROVE  Inv'
BY DEF Inv, TypeOK, OneWakeScheduled, Ignoring, DelayPassed, vars, store, sockets, schedule

LEMMA StepKeepsInv == Inv /\ [Next]_vars => Inv'
<1>1. ASSUME Inv, Next PROVE Inv'
  BY <1>1, ClientKeepsInv, UpdaterKeepsInv DEF Next
<1> QED
  BY <1>1, StutterKeepsInv

\* A step takes up only whom the delay has passed for.
LEMMA StepAsksAfterDelay ==
    ASSUME Inv, [Next]_vars,
           NEW u \in Updaters, NEW r \in Recipients, asked'[u][r] # asked[u][r]
    PROVE  DelayPassed(u, r)
<1>0. TypeOK /\ Ignoring
  BY DEF Inv
<1>1. PICK v \in Updaters : WakeUpElapses(v) \/ WakeUpRequested(v)
  <2>1. asked' # asked
    OBVIOUS
  <2>2. Next
    BY <2>1 DEF vars
  <2>3. ~HandleRestart /\ ~RefreshOwnProfile /\ ~Disconnected /\ ~Tick
    BY <2>1 DEF HandleRestart, RefreshOwnProfile, Disconnected, Tick
  <2>4. \A s \in Recipients : ~RefreshProfile(s)
    BY <2>1 DEF RefreshProfile
  <2>5. \A v \in Updaters :
           /\ ~OpenPipe(v) /\ ~Connected(v) /\ ~OwnProfileFetched(v) /\ ~Reconnected(v)
           /\ \A s \in avatars[v] : ~AvatarFetched(v, s)
           /\ \A batch \in batches[v] : \A s \in batch[2] :
                 ~BatchFetch(v, batch[1], batch[2], s)
    BY <2>1 DEF OpenPipe, Connected, OwnProfileFetched, Reconnected, AvatarFetched, BatchFetch
  <2> QED
    BY <2>2, <2>3, <2>4, <2>5 DEF Next, UpdaterStep
<1>2. now' = now /\ \E pending \in SUBSET timers[v] : HandleWakeUp(v, pending)
  BY <1>1 DEF WakeUpElapses, WakeUpRequested
<1> QED
  BY <1>0, <1>2, WakeUpIgnores

-----------------------------------------------------------------------------
(* The theorems.                                                           *)

THEOREM Invariant == Spec => []Inv
<1> QED
  BY InitInv, StepKeepsInv, PTL DEF Spec

\* Whatever the server answers and whichever websocket is lost, the state of
\* every updater stays well typed.
THEOREM TypeCorrect == Spec => []TypeOK
<1>1. Inv => TypeOK
  BY DEF Inv
<1> QED
  BY <1>1, Invariant, PTL

\* However often an updater reconnects, and however many of its batches
\* overlap, it has one wake-up scheduled at most.
THEOREM OneWake == Spec => []OneWakeScheduled
<1>1. Inv => OneWakeScheduled
  BY DEF Inv
<1> QED
  BY <1>1, Invariant, PTL

\* An updater takes up a recipient again after the delay at the earliest.
THEOREM AsksAfterDelay == Spec => AskedAfterDelay
<1>1. Inv /\ [Next]_vars =>
         [\A u \in Updaters, r \in Recipients :
             asked'[u][r] # asked[u][r] => DelayPassed(u, r)]_vars
  BY StepAsksAfterDelay
<1> QED
  BY <1>1, Invariant, PTL DEF Spec, AskedAfterDelay
=============================================================================
