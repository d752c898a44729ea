---------------------------- MODULE EarlyReceipts ----------------------------
(***************************************************************************)
(* Delivery and read receipts that overtake the message they are about.    *)
(*                                                                         *)
(* A message sent from a linked device reaches this device as a sync       *)
(* transcript, on its own schedule: receipts from its readers may come     *)
(* first.  ClientActor keeps them in an in-memory EarlyReceiptCache, and   *)
(* when a message is created it notifies itself to apply what the cache    *)
(* holds for the message's timestamp.  The job runs later, as one of the   *)
(* items of the actor that are polled in no fixed order: envelopes that    *)
(* were being decrypted meanwhile may be handled in between.               *)
(*                                                                         *)
(* Timestamps stand for messages.  An id list of the code's index is the   *)
(* set of its ids: `add` pushes growing ids, so the list's order is the    *)
(* order of the ids.  A receipt naming a timestamp twice is not modelled.  *)
(* The entries expired by age are a prefix of the ids, any prefix: the     *)
(* time between two receipts is arbitrary.                                 *)
(***************************************************************************)
EXTENDS Integers, Sequences, FiniteSets

CONSTANTS
    Timestamps,    \* the messages receipts may be about
    Direct,        \* those whose creation queues a ProcessCachedReceipts job
    Peers,         \* the senders of receipts
    MaxCache,      \* MAX_CACHE_SIZE
    MaxReceipts    \* bound: receipts heard in a behaviour

ASSUME ConstantsAssumption ==
    /\ Direct \subseteq Timestamps
    /\ MaxCache \in Nat \ {0}
    /\ MaxReceipts \in Nat

VARIABLES
    index,        \* timestamp_index: the ids cached under each timestamp
    receipts,     \* receipts: id |-> cached receipt
    nextId,       \* next_id
    messages,     \* the timestamps of the rows of `messages`
    delivered,    \* receipts.delivered of each message and peer, 0 for null
    read,         \* receipts.read of each message and peer, 0 for null
    jobs,         \* the messages whose ProcessCachedReceipts is not yet handled
    readReceipts, \* the setting enable_read_receipts
    log,          \* history: every receipt heard, in order
    forgotten,    \* history: positions of `log` the cache gave up on
    raced         \* history: messages matched while their job was queued

cache == <<index, receipts, nextId>>
store == <<messages, delivered, read>>
history == <<log, forgotten, raced>>
vars == <<cache, store, jobs, readReceipts, history>>

Kinds == {"delivery", "read", "viewed"}

\* A receipt: `at`, its position in the log, stands for the client timestamp.
Receipt == [from : Peers, kind : Kinds, stamps : SUBSET Timestamps, at : Nat \ {0}]

Init ==
    /\ index = [ts \in Timestamps |-> {}]
    /\ receipts = [i \in {} |-> {}]
    /\ nextId = 1
    /\ messages = {}
    /\ delivered = [ts \in Timestamps |-> [p \in Peers |-> 0]]
    /\ read = [ts \in Timestamps |-> [p \in Peers |-> 0]]
    /\ jobs = {}
    /\ readReceipts \in BOOLEAN
    /\ log = <<>>
    /\ forgotten = {}
    /\ raced = {}

-----------------------------------------------------------------------------
(* The store: mark_messages_delivered and mark_messages_read.              *)

\* mark_messages_delivered for every receipt, whatever its type.
StampedIgnoringKind(column, kind, rs) ==
    [ts \in Timestamps |-> [p \in Peers |->
        LET relevant == {r \in rs : r.from = p /\ ts \in r.stamps}
        IN  IF column[ts][p] # 0 \/ ts \notin messages \/ relevant = {}
            THEN column[ts][p]
            ELSE (CHOOSE r \in relevant : \A s \in relevant : r.at <= s.at).at]]

\* Applies a set of receipts, oldest first, to one column: rows of existing
\* messages only, and only where the column is null.
Stamped(column, kind, rs) ==
    [ts \in Timestamps |-> [p \in Peers |->
        LET relevant == {r \in rs : r.kind = kind /\ r.from = p /\ ts \in r.stamps}
        IN  IF column[ts][p] # 0 \/ ts \notin messages \/ relevant = {}
            THEN column[ts][p]
            ELSE (CHOOSE r \in relevant : \A s \in relevant : r.at <= s.at).at]]

\* The insert alone, without the update of a row a read receipt created.
MarkDeliveredInsertOnly(rs) ==
    delivered' = [ts \in Timestamps |-> [p \in Peers |->
        IF read[ts][p] # 0 THEN delivered[ts][p]
        ELSE Stamped(delivered, "delivery", rs)[ts][p]]]

MarkDelivered(rs) == delivered' = Stamped(delivered, "delivery", rs)
MarkRead(rs) == read' = Stamped(read, "read", rs)

-----------------------------------------------------------------------------
(* EarlyReceiptCache.                                                      *)

\* What trim_to_size may keep: the youngest MaxCache entries.
Youngest(ids) ==
    {kept \in SUBSET ids :
        /\ Cardinality(kept) <= MaxCache
        /\ kept # ids => Cardinality(kept) = MaxCache
        /\ \A old \in ids \ kept, young \in kept : old < young}

\* The index once the entries outside `kept` left the storage.
Reindexed(idx, kept) == [ts \in Timestamps |-> idx[ts] \cap kept]

\* No new id.
NextIdStuck == nextId

\* The id after this one.
NextId == nextId + 1

\* Ids left once the entries past their time to live and those over the
\* limit are gone.
Survivors(ids) ==
    UNION {Youngest({i \in ids : oldest <= i}) : oldest \in 1..nextId}

\* add: the caches it may leave.  The receipt is stored under a fresh id and
\* indexed under each of its timestamps; then come the evictions.
AfterAdd(r) ==
    LET stored == [i \in DOMAIN receipts \cup {nextId} |->
                      IF i = nextId THEN r ELSE receipts[i]]
        indexed == [ts \in Timestamps |->
                      IF ts \in r.stamps THEN index[ts] \cup {nextId} ELSE index[ts]]
    IN  IF r.stamps = {}
        THEN {[index |-> index, receipts |-> receipts, nextId |-> nextId]}
        ELSE {[index |-> Reindexed(indexed, kept),
               receipts |-> [i \in kept |-> stored[i]],
               nextId |-> NextId] : kept \in Survivors(DOMAIN stored)}

\* The other timestamps are not looked at.
WasLastAlways(ts) == TRUE

\* take(ts): the ids of the timestamp leave the index.  If no other timestamp
\* lists any of them they leave the storage too, all of them, as the iterator
\* `take` returns is consumed; otherwise all of them stay.
WasLast(ts) ==
    \A other \in Timestamps \ {ts} : index[other] \cap index[ts] = {}

Take(ts) ==
    /\ index' = [index EXCEPT ![ts] = {}]
    /\ receipts' = IF WasLast(ts)
                   THEN [i \in DOMAIN receipts \ index[ts] |-> receipts[i]]
                   ELSE receipts
    /\ UNCHANGED nextId

-----------------------------------------------------------------------------
(* ClientActor.                                                            *)

\* Every timestamp of the receipt, found or not.
MatchedUnchecked(r) ==
    IF r.kind = "delivery" \/ (r.kind = "read" /\ readReceipts)
    THEN r.stamps
    ELSE {}

\* The messages that a receipt finds in the store.
Matched(r) ==
    IF r.kind = "delivery" \/ (r.kind = "read" /\ readReceipts)
    THEN r.stamps \cap messages
    ELSE {}

\* process_envelope, ReceiptMessage: cache the receipt, mark the messages it
\* finds, then take their timestamps.  These takes drop their iterators
\* unconsumed: the index loses the timestamps, the storage keeps the receipts.
ReceiveReceipt(p, kind, stamps) ==
    LET r == [from |-> p, kind |-> kind, stamps |-> stamps, at |-> Len(log) + 1]
    IN  /\ Len(log) < MaxReceipts
        /\ log' = Append(log, r)
        /\ \E c \in AfterAdd(r) :
            /\ index' = [ts \in Timestamps |->
                            IF ts \in Matched(r) THEN {} ELSE c.index[ts]]
            /\ receipts' = c.receipts
            /\ nextId' = c.nextId
            /\ forgotten' = forgotten \cup
                   (({receipts[i].at : i \in DOMAIN receipts} \cup {r.at})
                      \ {c.receipts[i].at : i \in DOMAIN c.receipts})
        /\ IF kind = "delivery" THEN MarkDelivered({r}) ELSE UNCHANGED delivered
        /\ IF kind = "read" /\ readReceipts THEN MarkRead({r}) ELSE UNCHANGED read
        /\ raced' = raced \cup (Matched(r) \cap jobs)
        /\ UNCHANGED <<messages, jobs, readReceipts>>

\* handle_message up to create_message and the notification that follows.
CreateMessage(ts) ==
    /\ ts \notin messages
    /\ messages' = messages \cup {ts}
    /\ jobs' = jobs \cup ({ts} \cap Direct)
    /\ UNCHANGED <<cache, delivered, read, readReceipts, history>>

\* Handler<ProcessCachedReceipts>: every receipt cached under the timestamp is
\* applied, to all of its timestamps, whatever the setting says.
ProcessCachedReceipts(ts) ==
    /\ ts \in jobs
    /\ jobs' = jobs \ {ts}
    /\ Take(ts)
    /\ LET taken == {receipts[i] : i \in index[ts]}
       IN  MarkDelivered(taken) /\ MarkRead(taken)
    /\ UNCHANGED <<messages, readReceipts, history>>

\* The settings page.
ToggleReadReceipts ==
    /\ readReceipts' = ~readReceipts
    /\ UNCHANGED <<cache, store, jobs, history>>

\* The process dies and starts again: the cache and the actor's queue are in
\* memory only.
Restart ==
    /\ index' = [ts \in Timestamps |-> {}]
    /\ receipts' = [i \in {} |-> {}]
    /\ nextId' = 1
    /\ jobs' = {}
    /\ forgotten' = 1..Len(log)
    /\ UNCHANGED <<store, readReceipts, log, raced>>

Next ==
    \/ \E p \in Peers, kind \in Kinds, stamps \in SUBSET Timestamps :
           ReceiveReceipt(p, kind, stamps)
    \/ \E ts \in Timestamps : CreateMessage(ts) \/ ProcessCachedReceipts(ts)
    \/ ToggleReadReceipts
    \/ Restart

Spec == Init /\ [][Next]_vars

-----------------------------------------------------------------------------
(* Properties.                                                             *)

\* The types, and ids below next_id.
TypeOK ==
    /\ index \in [Timestamps -> SUBSET (1..(nextId - 1))]
    /\ nextId \in Nat \ {0}
    /\ DOMAIN receipts \subseteq 1..(nextId - 1)
    /\ \A i \in DOMAIN receipts : receipts[i] \in Receipt
    /\ messages \subseteq Timestamps
    /\ delivered \in [Timestamps -> [Peers -> Nat]]
    /\ read \in [Timestamps -> [Peers -> Nat]]
    /\ jobs \subseteq Direct
    /\ readReceipts \in BOOLEAN
    /\ log \in Seq(Receipt)
    /\ forgotten \subseteq 1..Len(log)
    /\ raced \subseteq Timestamps

\* The index never lists a receipt the storage has dropped: the
\* expect("receipt unavailable - stale index") of `take` cannot fire, although
\* expiry, the size limit and takes through other timestamps all delete from
\* the storage.
NoStaleIndex ==
    \A ts \in Timestamps : \A i \in index[ts] :
        i \in DOMAIN receipts /\ ts \in receipts[i].stamps

\* The cache holds MAX_CACHE_SIZE receipts at most between two handlers.
CacheBounded == Cardinality(DOMAIN receipts) <= MaxCache

\* A receipt for a message not created yet stays indexed under it, whatever
\* happens to the other messages it is about, until the cache gives up on it.
EarlyReceiptKept ==
    \A a \in 1..Len(log) \ forgotten : \A ts \in log[a].stamps \ messages :
        \E i \in index[ts] : receipts[i] = log[a]

\* Once the job of a message has run, every delivery receipt heard for it is
\* in the store, early or late, unless the cache gave up on the receipt or
\* another receipt matched the message while the job was still queued.
DeliveryRecorded ==
    \A a \in 1..Len(log) \ forgotten : \A ts \in log[a].stamps :
        (/\ log[a].kind = "delivery"
         /\ ts \in (messages \cap Direct) \ raced
         /\ ts \notin jobs)
        => delivered[ts][log[a].from] # 0

\* A recorded time is that of a receipt of this type, from this peer, about
\* this message, and the message exists.
RecordedWasHeard ==
    \A ts \in Timestamps, p \in Peers :
        \A column \in {<<"delivery", delivered[ts][p]>>, <<"read", read[ts][p]>>} :
            column[2] # 0 =>
                /\ ts \in messages
                /\ column[2] \in 1..Len(log)
                /\ LET r == log[column[2]]
                   IN  r.kind = column[1] /\ r.from = p /\ ts \in r.stamps

\* The first receipt wins: a recorded time never changes, not even when an
\* older receipt is taken from the cache later.
FirstReceiptWins ==
    [][\A ts \in Timestamps, p \in Peers :
          /\ delivered[ts][p] # 0 => delivered'[ts][p] = delivered[ts][p]
          /\ read[ts][p] # 0 => read'[ts][p] = read[ts][p]]_vars

\* What "only remove if messages were matched" promises of the receipts
\* cached earlier: as DeliveryRecorded, also for the messages matched by
\* another receipt before their job ran.
EveryDeliveryRecorded ==
    \A a \in 1..Len(log) \ forgotten : \A ts \in log[a].stamps :
        (/\ log[a].kind = "delivery"
         /\ ts \in messages \cap Direct
         /\ ts \notin jobs)
        => delivered[ts][log[a].from] # 0
=============================================================================
