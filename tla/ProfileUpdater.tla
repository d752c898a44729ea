--------------------------- MODULE ProfileUpdater ---------------------------
(***************************************************************************)
(* Keeping the profiles of recipients up to date.                          *)
(*                                                                         *)
(* A ProfileUpdater is an actor of its own.  It fetches outdated profiles  *)
(* in batches, ignores for a while whom it has asked, backs off when the   *)
(* server says so and schedules its next wake-up.  ClientActor's           *)
(* profile_updater() has a field for the actor but never fills it: every   *)
(* call starts another one, with an empty ignore map.  An actor that has   *)
(* nothing scheduled, no mail, no future and no address left stops; here   *)
(* it just takes no more steps.                                            *)
(*                                                                         *)
(* Time is in units of REYIELD_DELAY, five minutes; the last instant       *)
(* stands for all later ones.  Recipients are those with an ACI and a      *)
(* valid profile key.  A batch asks one after the other, in an order that  *)
(* is left open.                                                           *)
(***************************************************************************)
EXTENDS Integers, FiniteSets, Sequences

CONSTANTS
    Recipients,  \* whose profiles are looked after
    Own,         \* local_aci: our own
    Pictured,    \* those whose profile has an avatar
    BatchSize,   \* MAX_CONCURRENT_UPDATES
    Threshold,   \* LAST_PROFILE_FETCH_THRESHOLD
    MaxRetry,    \* bound: what the server asks for in Retry-After
    MaxTime,     \* bound: the last instant
    MaxStarts    \* bound: updaters started

ASSUME ConstantsAssumption ==
    /\ IsFiniteSet(Recipients) /\ Own \in Recipients /\ Pictured \subseteq Recipients
    /\ BatchSize \in Nat \ {0} /\ Threshold \in Nat /\ MaxRetry \in Nat
    /\ MaxTime \in Nat \ {0} /\ MaxStarts \in Nat

Updaters == 1..MaxStarts

\* REYIELD_DELAY
Delay == 1

VARIABLES
    now,         \* the wall clock
    fetched,     \* last_profile_fetch of each recipient, 0 for null
    registered,  \* recipients with is_registered
    last,        \* the number of the latest websocket
    socket,      \* identified_websocket, 0 for None
    announced,   \* the websocket an updater's Restart is telling it of, or 0
    connecting,  \* updaters whose Restart waits for its message pipe
    starts,      \* updaters started so far
    ws,          \* i_ws of each updater, 0 for none
    mail,        \* its mailbox
    ignored,     \* ignore_map: until when each recipient is ignored, or 0
    backOff,     \* back_off_until
    handle,      \* next_wake_handle: when that wake-up is due, 0 for None
    timers,      \* the wake-ups that are scheduled
    batches,     \* the batches on their way: since when, and who is left
    avatars,     \* FetchAvatar on their way
    asked        \* history: the instants at which a batch took up each recipient

store == <<fetched, registered>>
sockets == <<last, socket, announced, connecting>>
schedule == <<backOff, handle, timers>>
vars == <<now, store, sockets, starts, ws, mail, ignored, schedule, batches,
          avatars, asked>>

\* A websocket the weak reference of an updater can be upgraded to; tasks that
\* hold a replaced one for a moment are left out.
Live(c) == c # 0 /\ (c = socket \/ \E u \in Updaters : announced[u] = c)

Passed(t) == t <= now \/ now = MaxTime

Init ==
    /\ now = 1
    /\ fetched = [r \in Recipients |-> 0]
    /\ registered = Recipients
    /\ last = 0 /\ socket = 0 /\ connecting = {} /\ starts = 0
    /\ announced = [u \in Updaters |-> 0]
    /\ ws = [u \in Updaters |-> 0]
    /\ mail = [u \in Updaters |-> {}]
    /\ ignored = [u \in Updaters |-> [r \in Recipients |-> 0]]
    /\ backOff = [u \in Updaters |-> 0]
    /\ handle = [u \in Updaters |-> 0]
    /\ timers = [u \in Updaters |-> {}]
    /\ batches = [u \in Updaters |-> {}]
    /\ avatars = [u \in Updaters |-> {}]
    /\ asked = [u \in Updaters |-> [r \in Recipients |-> <<>>]]

-----------------------------------------------------------------------------
(* Which profile is next, and when.                                        *)

\* The filter of recipients_filtered!, without the ignore map.
Outdated(r) ==
    \/ fetched[r] = 0
    \/ fetched[r] + Threshold <= now /\ r \in registered

\* compute_next_wake: the recipients the query may return first.
NextInLine(u) ==
    {r \in Recipients :
        /\ Outdated(r) /\ ignored[u][r] = 0
        /\ \A other \in Recipients :
              Outdated(other) /\ ignored[u][other] = 0 => fetched[r] <= fetched[other]}

\* And the instant it computes for one of them.
NextWake(u, r) ==
    LET time == IF fetched[r] = 0 THEN now ELSE fetched[r]
    IN  IF time < backOff[u] THEN backOff[u] ELSE time

\* When the wake-up is due: the time that has passed since the computed
\* instant is waited for once more, an instant to come is not waited for.
WakeDue(u, r) ==
    IF NextWake(u, r) <= now THEN now + (now - NextWake(u, r)) ELSE now

\* The wake-up scheduled before stays.
RescheduleAnother(u, pending) ==
    \/ /\ NextInLine(u)' = {}
       /\ handle' = [handle EXCEPT ![u] = 0]
       /\ timers' = [timers EXCEPT ![u] = pending]
    \/ \E r \in NextInLine(u)' :
       /\ handle' = [handle EXCEPT ![u] = WakeDue(u, r)']
       /\ timers' = [timers EXCEPT ![u] = pending \cup {WakeDue(u, r)'}]

\* The wake-up is cancelled and none is scheduled.
CancelWake(u, pending) ==
    /\ handle' = [handle EXCEPT ![u] = 0]
    /\ timers' = [timers EXCEPT ![u] = pending \ {handle[u]}]

\* update_scheduled_wake: the wake-up among `pending` that the updater knows
\* of is cancelled; the next one depends on what the step leaves behind.
UpdateScheduledWake(u, pending) ==
    \/ /\ NextInLine(u)' = {}
       /\ CancelWake(u, pending)
    \/ \E r \in NextInLine(u)' :
       /\ handle' = [handle EXCEPT ![u] = WakeDue(u, r)']
       /\ timers' = [timers EXCEPT ![u] = (pending \ {handle[u]}) \cup {WakeDue(u, r)'}]

\* Nothing is scheduled after a batch.
EndBatchForGood(u, pending, until) ==
    /\ backOff' = [backOff EXCEPT ![u] = IF until < now + Delay THEN now + Delay ELSE until]
    /\ CancelWake(u, pending)

\* The end of a batch.
EndBatch(u, pending, until) ==
    /\ backOff' = [backOff EXCEPT ![u] = IF until < now + Delay THEN now + Delay ELSE until]
    /\ UpdateScheduledWake(u, pending)

-----------------------------------------------------------------------------
(* ClientActor.                                                            *)

\* profile_updater(): an actor starts, knowing the websocket of the moment.
Start(letters) ==
    \E u \in Updaters :
        /\ u = starts + 1
        /\ starts' = u
        /\ ws' = [ws EXCEPT ![u] = socket]
        /\ mail' = [mail EXCEPT ![u] = letters]
        /\ backOff' = [backOff EXCEPT ![u] = now + Delay]
        /\ UNCHANGED <<registered, ignored>>
        /\ UpdateScheduledWake(u, {})

\* Handler<Restart> up to its future.
HandleRestart ==
    /\ UNCHANGED <<now, fetched>>
    /\ Start({})
    /\ connecting' = connecting \cup {starts'}
    /\ UNCHANGED <<last, socket, announced, batches, avatars, asked>>

\* The message pipe is open and Reconnected is sent.
OpenPipe(u) ==
    /\ u \in connecting
    /\ connecting' = connecting \ {u}
    /\ last' = last + 1
    /\ announced' = [announced EXCEPT ![u] = last + 1]
    /\ mail' = [mail EXCEPT ![u] = @ \cup {"Reconnected"}]
    /\ UNCHANGED <<now, store, socket, starts, ws, ignored, schedule, batches,
                   avatars, asked>>

\* It is answered, and the websocket becomes the identified one.
Connected(u) ==
    /\ announced[u] # 0 /\ "Reconnected" \notin mail[u]
    /\ socket' = announced[u]
    /\ announced' = [announced EXCEPT ![u] = 0]
    /\ UNCHANGED <<now, store, last, connecting, starts, ws, mail, ignored, schedule,
                   batches, avatars, asked>>

\* Handler<Restart> fails to open the pipe, or `finished`: another Restart
\* comes, and starts an updater of its own.
Disconnected ==
    /\ \/ \E u \in connecting : connecting' = connecting \ {u} /\ UNCHANGED socket
       \/ socket # 0 /\ socket' = 0 /\ UNCHANGED connecting
    /\ UNCHANGED <<now, store, last, announced, starts, ws, mail, ignored, schedule,
                   batches, avatars, asked>>

\* Handler<RefreshProfile>: the user asks for it, or a new profile key came.
RefreshProfile(r) ==
    /\ fetched' = [fetched EXCEPT ![r] = 0]
    /\ now' = now
    /\ Start({"WakeUp"})
    /\ UNCHANGED <<sockets, batches, avatars, asked>>

\* Handler<RefreshOwnProfile>: our profile is fetched unless it is fresh.
RefreshOwnProfile ==
    /\ UNCHANGED <<now, fetched>>
    /\ \E letters \in {{}, {"FetchProfile"}} : Start(letters)
    /\ UNCHANGED <<sockets, batches, avatars, asked>>

-----------------------------------------------------------------------------
(* The updater.                                                            *)

\* Handler<Reconnected>.
Reconnected(u) ==
    /\ "Reconnected" \in mail[u]
    /\ mail' = [mail EXCEPT ![u] = @ \ {"Reconnected"}]
    /\ ws' = [ws EXCEPT ![u] = announced[u]]
    /\ UNCHANGED <<now, store, sockets, starts, ignored, backOff, batches, avatars,
                   asked>>
    /\ UpdateScheduledWake(u, timers[u])

\* Nobody is remembered.
StillIgnoredNobody(u) == [r \in Recipients |-> 0]

\* update_ignore_set.
StillIgnored(u) == [r \in Recipients |-> IF ignored[u][r] > now THEN ignored[u][r] ELSE 0]

\* The recipients of a batch: at most BatchSize, the longest unfetched first.
Batches(kept) ==
    LET due == {r \in Recipients : Outdated(r) /\ kept[r] = 0}
    IN  {b \in SUBSET due :
            /\ Cardinality(b) <= BatchSize
            /\ b # due => Cardinality(b) = BatchSize
            /\ \A r \in b, other \in due \ b : fetched[r] <= fetched[other]}

\* The end of a batch is missed.
NeverDone(since, left) == {<<since, left>>}

\* The batch `left` is on its way, or it is done.
UnlessDone(since, left) == IF left = {} THEN {} ELSE {<<since, left>>}

\* Handler<WakeUp>, with the wake-ups still scheduled.  Without a websocket
\* nothing is scheduled any more; a batch of nobody ends at once.
HandleWakeUp(u, pending) ==
    LET kept == StillIgnored(u)
    IN  \/ /\ ~Live(ws[u])
           /\ ignored' = [ignored EXCEPT ![u] = kept]
           /\ CancelWake(u, pending)
           /\ UNCHANGED <<backOff, batches, asked>>
        \/ \E b \in Batches(kept) :
           /\ Live(ws[u])
           /\ ignored' = [ignored EXCEPT ![u] =
                              [r \in Recipients |-> IF r \in b THEN now + Delay ELSE kept[r]]]
           /\ asked' = [asked EXCEPT ![u] =
                            [r \in Recipients |-> IF r \in b THEN Append(@[r], now) ELSE @[r]]]
           /\ batches' = [batches EXCEPT ![u] = @ \cup UnlessDone(now, b)]
           /\ IF b = {}
              THEN EndBatch(u, pending, backOff[u])
              ELSE CancelWake(u, pending) /\ UNCHANGED backOff

\* A scheduled wake-up.
WakeUpElapses(u) ==
    /\ UNCHANGED <<now, store, sockets, starts, ws, mail, avatars>>
    /\ \E t \in timers[u] : Passed(t) /\ HandleWakeUp(u, timers[u] \ {t})

\* The one RefreshProfile sends.
WakeUpRequested(u) ==
    /\ "WakeUp" \in mail[u]
    /\ mail' = [mail EXCEPT ![u] = @ \ {"WakeUp"}]
    /\ UNCHANGED <<now, store, sockets, starts, ws, avatars>>
    /\ HandleWakeUp(u, timers[u])

\* handle_profile_fetched and its early returns, for recipient r: what becomes
\* of last_profile_fetch, is_registered, the avatar and back_off_until.
Answer(f, reg, pictured, until) ==
    [fetch |-> f, reg |-> reg, avatar |-> pictured, until |-> until]

ProfileFetched(u, r) ==
    LET others == registered \ ({r} \ {Own})
    IN  {Answer(now, registered \cup {r}, {r} \cap Pictured, backOff[u]),
         Answer(now, others, {}, backOff[u]),                  \* not found
         Answer(IF r = Own THEN fetched[r] ELSE now,           \* unauthorized,
                registered, {}, backOff[u]),                   \* other errors
         Answer(fetched[r], registered, {}, backOff[u])}       \* undecryptable, no websocket
        \cup {Answer(fetched[r], registered, {}, now + retry) : \* rate limit
                  retry \in 0..MaxRetry \cup {Delay}}

\* Its effects on the store, and the avatar it sends for.
Store(u, r, answer) ==
    /\ fetched' = [fetched EXCEPT ![r] = answer.fetch]
    /\ registered' = answer.reg
    /\ avatars' = [avatars EXCEPT ![u] = @ \cup answer.avatar]

\* Handler<FetchProfile> for a batch, its answer, and the next of the batch.
BatchFetch(u, since, b, r) ==
    /\ r \in b
    /\ UNCHANGED <<now, sockets, starts, ws, mail, ignored, asked>>
    /\ batches' = [batches EXCEPT ![u] = (@ \ {<<since, b>>}) \cup UnlessDone(since, b \ {r})]
    /\ \E answer \in ProfileFetched(u, r) :
          /\ Store(u, r, answer)
          /\ IF b = {r}
             THEN EndBatch(u, timers[u], answer.until)
             ELSE backOff' = [backOff EXCEPT ![u] = answer.until] /\ UNCHANGED <<handle, timers>>

\* Handler<FetchProfile> for RefreshOwnProfile; the letter stands for the
\* request until it is answered.
OwnProfileFetched(u) ==
    /\ "FetchProfile" \in mail[u]
    /\ mail' = [mail EXCEPT ![u] = @ \ {"FetchProfile"}]
    /\ \E answer \in ProfileFetched(u, Own) :
          /\ Store(u, Own, answer)
          /\ backOff' = [backOff EXCEPT ![u] = answer.until]
    /\ UNCHANGED <<now, sockets, starts, ws, ignored, handle, timers, batches, asked>>

\* Handler<FetchAvatar>, with or without an avatar in the end.
AvatarFetched(u, r) ==
    /\ r \in avatars[u]
    /\ avatars' = [avatars EXCEPT ![u] = @ \ {r}]
    /\ fetched' = [fetched EXCEPT ![r] = now]
    /\ UNCHANGED <<now, registered, sockets, starts, ws, mail, ignored, schedule, batches,
                   asked>>

Tick ==
    /\ now < MaxTime
    /\ now' = now + 1
    /\ UNCHANGED <<store, sockets, starts, ws, mail, ignored, schedule, batches,
                   avatars, asked>>

UpdaterStep(u) ==
    \/ Reconnected(u) \/ WakeUpElapses(u) \/ WakeUpRequested(u)
    \/ \E batch \in batches[u] : \E r \in batch[2] : BatchFetch(u, batch[1], batch[2], r)

Next ==
    \/ HandleRestart \/ RefreshOwnProfile \/ Disconnected \/ Tick
    \/ \E r \in Recipients : RefreshProfile(r)
    \/ \E u \in Updaters :
          \/ OpenPipe(u) \/ Connected(u) \/ UpdaterStep(u) \/ OwnProfileFetched(u)
          \/ \E r \in avatars[u] : AvatarFetched(u, r)

Spec == Init /\ [][Next]_vars

\* An updater with mail, an elapsed timer or a request that was answered or
\* timed out goes on with one of them, and so does the clock.
Fairness ==
    /\ WF_vars(Tick)
    /\ \A u \in Updaters : WF_vars(UpdaterStep(u))

FairSpec == Spec /\ Fairness

-----------------------------------------------------------------------------
(* Properties.                                                             *)

\* The types; what has not started has nothing to do.
TypeOK ==
    /\ now \in 1..MaxTime
    /\ fetched \in [Recipients -> Nat] /\ registered \subseteq Recipients
    /\ starts \in 0..MaxStarts
    /\ last \in Nat /\ socket \in 0..last
    /\ announced \in [Updaters -> 0..last] /\ connecting \subseteq 1..starts
    /\ ws \in [Updaters -> 0..last]
    /\ mail \in [Updaters -> SUBSET {"WakeUp", "Reconnected", "FetchProfile"}]
    /\ ignored \in [Updaters -> [Recipients -> Nat]]
    /\ backOff \in [Updaters -> Nat]
    /\ handle \in [Updaters -> Nat]
    /\ timers \in [Updaters -> SUBSET (Nat \ {0})]
    /\ batches \in [Updaters -> SUBSET (Nat \X ((SUBSET Recipients) \ {{}}))]
    /\ avatars \in [Updaters -> SUBSET Recipients]
    /\ asked \in [Updaters -> [Recipients -> Seq(Nat)]]

\* An updater has one wake-up scheduled at most, the one it can cancel:
\* reconnecting during a batch, or while a wake-up is due, adds none.
OneWakeScheduled == \A u \in Updaters : timers[u] \subseteq {handle[u]} \ {0}

\* A batch of the updater has not taken up the recipient within the delay.
DelayPassed(u, r) ==
    asked[u][r] = <<>> \/ now >= asked[u][r][Len(asked[u][r])] + Delay

\* An updater takes up a recipient again after five minutes at the earliest,
\* whatever became of the first request, and with several batches on their way.
AskedAfterDelay ==
    [][\A u \in Updaters, r \in Recipients :
          asked'[u][r] # asked[u][r] => DelayPassed(u, r)]_vars

\* Something is going to wake the updater or its batches.
Stirring(u) ==
    mail[u] \cap {"WakeUp", "Reconnected"} # {} \/ timers[u] # {} \/ batches[u] # {}

Waiting(u) == {r \in Recipients : Outdated(r) /\ ignored[u][r] = 0 /\ Live(ws[u])}

\* The outdated profiles that an updater with a websocket has not taken up get
\* their turn, however small the batches: every batch leads to the next one
\* until nobody is left.
TakenUp == \A u \in Updaters : (Stirring(u) /\ Waiting(u) # {}) ~> Waiting(u) = {}

\* "Wait at least five minutes for the next batch": an updater that has taken
\* up a batch takes up another one five minutes later at the earliest.
NextBatchWaits ==
    [][\A u \in Updaters : asked'[u] # asked[u] =>
          \A r \in Recipients : DelayPassed(u, r)]_vars

=============================================================================
