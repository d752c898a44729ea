------------------------- MODULE EarlyReceiptsProofs -------------------------
(***************************************************************************)
(* For every set of timestamps and of peers, every cache size and every    *)
(* number of receipts: the types of EarlyReceipts, the soundness of its    *)
(* index and the truth of what the store records.                          *)
(***************************************************************************)
EXTENDS EarlyReceipts, FiniteSetTheorems, WellFoundedInduction, TLAPS

\* A receipt in the cache is one that was heard.
CachedWasHeard ==
    \A i \in DOMAIN receipts :
        receipts[i].at \in 1..Len(log) /\ receipts[i] = log[receipts[i].at]

\* A receipt of the log says where it stands in it.
LogNumbered == \A a \in 1..Len(log) : log[a].at = a

Inv == TypeOK /\ NoStaleIndex /\ CachedWasHeard /\ LogNumbered /\ RecordedWasHeard

-----------------------------------------------------------------------------
(* The operators.                                                          *)

\* Receipts have an oldest one.
LEMMA OldestExists ==
    ASSUME NEW rs \in SUBSET Receipt, rs # {}
    PROVE  \E r \in rs : \A s \in rs : r.at <= s.at
<1> DEFINE ats == {r.at : r \in rs}
<1>1. ats \subseteq Nat /\ ats # {}
  BY DEF Receipt
<1>2. \E n \in ats : \A m \in ats : ~(<<m, n>> \in OpToRel(<, Nat))
  BY <1>1, NatLessThanWellFounded, WFMin
<1>3. \A m, n \in Nat : <<m, n>> \in OpToRel(<, Nat) <=> m < n
  BY DEF OpToRel
<1>4. PICK n \in ats : \A m \in ats : ~(m < n)
  BY <1>1, <1>2, <1>3
<1>5. PICK r \in rs : r.at = n
  OBVIOUS
<1>6. \A s \in rs : s.at \in ats /\ s.at \in Nat
  BY DEF Receipt
<1> HIDE DEF ats
<1> QED
  BY <1>1, <1>4, <1>5, <1>6

\* What Stamped records is what the column held, or the time of one of the
\* receipts, of this type, from this peer and about this existing message.
LEMMA StampedRecords ==
    ASSUME NEW column, NEW kind, NEW rs \in SUBSET Receipt,
           NEW ts \in Timestamps, NEW p \in Peers
    PROVE  \/ Stamped(column, kind, rs)[ts][p] = column[ts][p]
           \/ /\ ts \in messages
              /\ \E r \in rs : /\ Stamped(column, kind, rs)[ts][p] = r.at
                               /\ r.kind = kind /\ r.from = p /\ ts \in r.stamps
<1> DEFINE relevant == {r \in rs : r.kind = kind /\ r.from = p /\ ts \in r.stamps}
           oldest == CHOOSE r \in relevant : \A s \in relevant : r.at <= s.at
<1>1. CASE column[ts][p] # 0 \/ ts \notin messages \/ relevant = {}
  BY <1>1 DEF Stamped
<1>2. CASE ~(column[ts][p] # 0 \/ ts \notin messages \/ relevant = {})
  <2>1. relevant \in SUBSET Receipt
    OBVIOUS
  <2>2. oldest \in relevant
    BY <1>2, <2>1, OldestExists
  <2>3. Stamped(column, kind, rs)[ts][p] = oldest.at
    BY <1>2 DEF Stamped
  <2> QED
    BY <1>2, <2>2, <2>3
<1> QED
  BY <1>1, <1>2

\* Stamped keeps the shape of a column.
LEMMA StampedType ==
    ASSUME NEW column \in [Timestamps -> [Peers -> Nat]], NEW kind,
           NEW rs \in SUBSET Receipt
    PROVE  Stamped(column, kind, rs) \in [Timestamps -> [Peers -> Nat]]
<1>1. \A ts \in Timestamps, p \in Peers : Stamped(column, kind, rs)[ts][p] \in Nat
  BY StampedRecords DEF Receipt
<1>2. \A ts \in Timestamps : 
        /\ Stamped(column, kind, rs)[ts] = [p \in Peers |-> Stamped(column, kind, rs)[ts][p]]
  BY DEF Stamped
<1>3. Stamped(column, kind, rs) = [ts \in Timestamps |-> Stamped(column, kind, rs)[ts]]
  BY DEF Stamped
<1> QED
  BY <1>1, <1>2, <1>3

\* What add leaves, when there is something to add.
LEMMA AddShape ==
    ASSUME NEW r, r.stamps # {}, NEW c \in AfterAdd(r)
    PROVE  /\ c.nextId = nextId + 1
           /\ DOMAIN c.receipts \subseteq DOMAIN receipts \cup {nextId}
           /\ Cardinality(DOMAIN c.receipts) <= MaxCache
           /\ \A i \in DOMAIN c.receipts :
                 c.receipts[i] = IF i = nextId THEN r ELSE receipts[i]
           /\ c.index = [ts \in Timestamps |->
                            (IF ts \in r.stamps THEN index[ts] \cup {nextId} ELSE index[ts])
                              \cap DOMAIN c.receipts]
<1> DEFINE stored == [i \in DOMAIN receipts \cup {nextId} |->
                         IF i = nextId THEN r ELSE receipts[i]]
           indexed == [ts \in Timestamps |->
                         IF ts \in r.stamps THEN index[ts] \cup {nextId} ELSE index[ts]]
<1>1. PICK kept \in Survivors(DOMAIN stored) :
        c = [index |-> Reindexed(indexed, kept),
             receipts |-> [i \in kept |-> stored[i]],
             nextId |-> NextId]
  BY DEF AfterAdd
<1>2. kept \subseteq DOMAIN stored /\ Cardinality(kept) <= MaxCache
  BY DEF Survivors, Youngest
<1>3. c.receipts = [i \in kept |-> stored[i]]
  BY <1>1
<1>4. c.nextId = nextId + 1 /\ c.index = [ts \in Timestamps |-> indexed[ts] \cap kept]
  BY <1>1 DEF NextId, Reindexed
<1>5. \A i \in kept : c.receipts[i] = IF i = nextId THEN r ELSE receipts[i]
  BY <1>2, <1>3
<1>6. DOMAIN c.receipts = kept
  BY <1>3
<1> QED
  BY <1>2, <1>4, <1>5, <1>6

\* add leaves an index that lists stored receipts only, under their own
\* timestamps, and stores nothing but the new receipt and old ones.
LEMMA AddIsSound ==
    ASSUME Inv, NEW r \in Receipt, NEW c \in AfterAdd(r)
    PROVE  /\ c.nextId \in Nat \ {0}
           /\ c.index \in [Timestamps -> SUBSET (1..(c.nextId - 1))]
           /\ DOMAIN c.receipts \subseteq 1..(c.nextId - 1)
           /\ \A i \in DOMAIN c.receipts :
                 \/ c.receipts[i] = r
                 \/ i \in DOMAIN receipts /\ c.receipts[i] = receipts[i]
           /\ \A ts \in Timestamps : \A i \in c.index[ts] :
                 i \in DOMAIN c.receipts /\ ts \in c.receipts[i].stamps
<1> USE DEF Inv, TypeOK, NoStaleIndex
<1>1. CASE r.stamps = {}
  BY <1>1 DEF AfterAdd
<1>2. CASE r.stamps # {}
  <2>1. /\ c.nextId = nextId + 1
        /\ DOMAIN c.receipts \subseteq DOMAIN receipts \cup {nextId}
        /\ \A i \in DOMAIN c.receipts :
              c.receipts[i] = IF i = nextId THEN r ELSE receipts[i]
        /\ c.index = [ts \in Timestamps |->
                         (IF ts \in r.stamps THEN index[ts] \cup {nextId} ELSE index[ts])
                           \cap DOMAIN c.receipts]
    <3> HIDE DEF Inv, TypeOK, NoStaleIndex
    <3> QED
      BY <1>2, AddShape, Zenon
  <2>2. c.nextId \in Nat \ {0} /\ DOMAIN c.receipts \subseteq 1..(c.nextId - 1)
    <3>1. DOMAIN receipts \cup {nextId} \subseteq 1..nextId
      OBVIOUS
    <3>2. c.nextId = nextId + 1 /\ DOMAIN c.receipts \subseteq DOMAIN receipts \cup {nextId}
      BY <2>1
    <3> QED
      BY <3>1, <3>2
  <2>3. c.index \in [Timestamps -> SUBSET (1..(c.nextId - 1))]
    BY <2>1, <2>2
  <2>4. \A i \in DOMAIN c.receipts :
             \/ c.receipts[i] = r
             \/ i \in DOMAIN receipts /\ c.receipts[i] = receipts[i]
    BY <2>1
  <2>5. ASSUME NEW ts \in Timestamps, NEW i \in c.index[ts]
        PROVE  i \in DOMAIN c.receipts /\ ts \in c.receipts[i].stamps
    <3>1. /\ i \in DOMAIN c.receipts
          /\ i \in IF ts \in r.stamps THEN index[ts] \cup {nextId} ELSE index[ts]
      BY <2>1
    <3>2. nextId \notin index[ts]
      OBVIOUS
    <3> QED
      BY <2>1, <3>1, <3>2
  <2> HIDE DEF Inv, TypeOK, NoStaleIndex
  <2> QED
    BY <2>2, <2>3, <2>4, <2>5
<1> QED
  BY <1>1, <1>2
-----------------------------------------------------------------------------
(* The invariant.                                                          *)

LEMMA InitInv == Init => Inv
BY DEF Init, Inv, TypeOK, NoStaleIndex, CachedWasHeard, LogNumbered, RecordedWasHeard,
       Receipt

\* Recording receipts of the log keeps the record true.
LEMMA RecordingKeepsTruth ==
    ASSUME Inv, NEW rs \in SUBSET Receipt,
           log' \in Seq(Receipt), Len(log) <= Len(log'),
           \A a \in 1..Len(log) : log'[a] = log[a],
           \A r \in rs : r.at \in 1..Len(log') /\ log'[r.at] = r,
           messages' = messages,
           delivered' \in {delivered, Stamped(delivered, "delivery", rs)},
           read' \in {read, Stamped(read, "read", rs)}
    PROVE  RecordedWasHeard'
<1> SUFFICES ASSUME NEW ts \in Timestamps, NEW p \in Peers
             PROVE  /\ delivered'[ts][p] # 0 =>
                          /\ ts \in messages'
                          /\ delivered'[ts][p] \in 1..Len(log')
                          /\ log'[delivered'[ts][p]].kind = "delivery"
                          /\ log'[delivered'[ts][p]].from = p
                          /\ ts \in log'[delivered'[ts][p]].stamps
                    /\ read'[ts][p] # 0 =>
                          /\ ts \in messages'
                          /\ read'[ts][p] \in 1..Len(log')
                          /\ log'[read'[ts][p]].kind = "read"
                          /\ log'[read'[ts][p]].from = p
                          /\ ts \in log'[read'[ts][p]].stamps
  BY DEF RecordedWasHeard
<1>1. /\ delivered[ts][p] # 0 =>
            /\ ts \in messages
            /\ delivered[ts][p] \in 1..Len(log)
            /\ log[delivered[ts][p]].kind = "delivery"
            /\ log[delivered[ts][p]].from = p
            /\ ts \in log[delivered[ts][p]].stamps
      /\ read[ts][p] # 0 =>
            /\ ts \in messages
            /\ read[ts][p] \in 1..Len(log)
            /\ log[read[ts][p]].kind = "read"
            /\ log[read[ts][p]].from = p
            /\ ts \in log[read[ts][p]].stamps
  BY DEF Inv, RecordedWasHeard
<1>2. Len(log) \in Nat /\ Len(log') \in Nat
  BY DEF Inv, TypeOK
<1>3. \/ delivered'[ts][p] = delivered[ts][p]
      \/ /\ ts \in messages
         /\ \E r \in rs : /\ delivered'[ts][p] = r.at
                          /\ r.kind = "delivery" /\ r.from = p /\ ts \in r.stamps
  BY StampedRecords
<1>4. \/ read'[ts][p] = read[ts][p]
      \/ /\ ts \in messages
         /\ \E r \in rs : /\ read'[ts][p] = r.at
                          /\ r.kind = "read" /\ r.from = p /\ ts \in r.stamps
  BY StampedRecords
<1> QED
  BY <1>1, <1>2, <1>3, <1>4

LEMMA ReceiveReceiptInv ==
    ASSUME Inv, NEW p \in Peers, NEW kind \in Kinds, NEW stamps \in SUBSET Timestamps,
           ReceiveReceipt(p, kind, stamps)
    PROVE  Inv'
<1> DEFINE r == [from |-> p, kind |-> kind, stamps |-> stamps, at |-> Len(log) + 1]
<1>1. Len(log) \in Nat /\ r \in Receipt
  BY DEF Inv, TypeOK, Receipt
<1>2. PICK c \in AfterAdd(r) :
        /\ index' = [ts \in Timestamps |-> IF ts \in Matched(r) THEN {} ELSE c.index[ts]]
        /\ receipts' = c.receipts
        /\ nextId' = c.nextId
        /\ forgotten' = forgotten \cup
               (({receipts[i].at : i \in DOMAIN receipts} \cup {r.at})
                  \ {c.receipts[i].at : i \in DOMAIN c.receipts})
  BY DEF ReceiveReceipt
<1>3. /\ log' = Append(log, r)
      /\ delivered' \in {delivered, Stamped(delivered, "delivery", {r})}
      /\ read' \in {read, Stamped(read, "read", {r})}
      /\ raced' = raced \cup (Matched(r) \cap jobs)
      /\ UNCHANGED <<messages, jobs, readReceipts>>
  BY DEF ReceiveReceipt, MarkDelivered, MarkRead
<1>4. /\ c.nextId \in Nat \ {0}
      /\ c.index \in [Timestamps -> SUBSET (1..(c.nextId - 1))]
      /\ DOMAIN c.receipts \subseteq 1..(c.nextId - 1)
      /\ \A i \in DOMAIN c.receipts :
            \/ c.receipts[i] = r
            \/ i \in DOMAIN receipts /\ c.receipts[i] = receipts[i]
      /\ \A ts \in Timestamps : \A i \in c.index[ts] :
            i \in DOMAIN c.receipts /\ ts \in c.receipts[i].stamps
  BY <1>1, AddIsSound
<1>5. /\ log \in Seq(Receipt)
      /\ log' \in Seq(Receipt)
      /\ Len(log') = Len(log) + 1
      /\ \A a \in 1..Len(log) : log'[a] = log[a]
      /\ log'[r.at] = r
      /\ r.at = Len(log) + 1
  BY <1>1, <1>3 DEF Inv, TypeOK
<1> HIDE DEF r
<1>6. TypeOK'
  <2>1. index' \in [Timestamps -> SUBSET (1..(nextId' - 1))]
    BY <1>2, <1>4
  <2>2. \A i \in DOMAIN receipts' : receipts'[i] \in Receipt
    BY <1>1, <1>2, <1>4 DEF Inv, TypeOK
  <2>3. /\ delivered' \in [Timestamps -> [Peers -> Nat]]
        /\ read' \in [Timestamps -> [Peers -> Nat]]
    <3>1. /\ Stamped(delivered, "delivery", {r}) \in [Timestamps -> [Peers -> Nat]]
          /\ Stamped(read, "read", {r}) \in [Timestamps -> [Peers -> Nat]]
      BY <1>1, StampedType DEF Inv, TypeOK
    <3> QED
      BY <1>3, <3>1 DEF Inv, TypeOK
  <2>4. forgotten' \subseteq 1..Len(log')
    <3>1. {receipts[i].at : i \in DOMAIN receipts} \subseteq 1..Len(log)
      BY DEF Inv, CachedWasHeard
    <3>2. forgotten \subseteq 1..Len(log)
      BY DEF Inv, TypeOK
    <3>3. forgotten' \subseteq 1..Len(log) \cup {r.at}
      BY <1>2, <3>1, <3>2
    <3> QED
      BY <1>1, <1>5, <3>3
  <2>5. raced' \subseteq Timestamps
    BY <1>1, <1>3 DEF Matched, Inv, TypeOK, Receipt
  <2> QED
    BY <1>2, <1>3, <1>4, <1>5, <2>1, <2>2, <2>3, <2>4, <2>5 DEF Inv, TypeOK
<1>7. NoStaleIndex'
  BY <1>2, <1>4 DEF NoStaleIndex
<1>8. CachedWasHeard'
  BY <1>1, <1>2, <1>4, <1>5 DEF Inv, CachedWasHeard
<1>9. LogNumbered'
  BY <1>1, <1>5 DEF Inv, LogNumbered
<1>10. RecordedWasHeard'
  <2>1. /\ messages' = messages
        /\ delivered' \in {delivered, Stamped(delivered, "delivery", {r})}
        /\ read' \in {read, Stamped(read, "read", {r})}
    BY <1>3
  <2>2. /\ {r} \in SUBSET Receipt
        /\ log' \in Seq(Receipt) /\ Len(log) <= Len(log')
        /\ \A a \in 1..Len(log) : log'[a] = log[a]
    BY <1>1, <1>5
  <2>3. \A s \in {r} : s.at \in 1..Len(log') /\ log'[s.at] = s
    BY <1>1, <1>5
  <2> QED
    BY <2>1, <2>2, <2>3, RecordingKeepsTruth
<1> QED
  BY <1>6, <1>7, <1>8, <1>9, <1>10 DEF Inv

LEMMA ProcessCachedReceiptsInv ==
    ASSUME Inv, NEW ts \in Timestamps, ProcessCachedReceipts(ts)
    PROVE  Inv'
<1> DEFINE taken == {receipts[i] : i \in index[ts]}
<1>1. /\ jobs' = jobs \ {ts}
      /\ Take(ts)
      /\ delivered' = Stamped(delivered, "delivery", taken)
      /\ read' = Stamped(read, "read", taken)
      /\ UNCHANGED <<messages, readReceipts, history>>
  BY DEF ProcessCachedReceipts, MarkDelivered, MarkRead
<1>2. jobs' \subseteq Direct
  BY <1>1 DEF Inv, TypeOK
<1>3. taken \in SUBSET Receipt
      /\ \A r \in taken : r.at \in 1..Len(log) /\ log[r.at] = r
  BY <1>2 DEF Inv, TypeOK, NoStaleIndex, CachedWasHeard
<1>4. /\ delivered' \in [Timestamps -> [Peers -> Nat]]
      /\ read' \in [Timestamps -> [Peers -> Nat]]
  BY <1>1, <1>3, StampedType DEF Inv, TypeOK
<1> HIDE DEF taken
<1>5. index' = [index EXCEPT ![ts] = {}] /\ nextId' = nextId
  BY <1>1 DEF Take
<1>6. /\ DOMAIN receipts' \subseteq DOMAIN receipts
      /\ \A i \in DOMAIN receipts' : receipts'[i] = receipts[i]
      /\ \A other \in Timestamps \ {ts} : index[other] \subseteq DOMAIN receipts'
  BY <1>1 DEF Take, WasLast, Inv, TypeOK, NoStaleIndex
<1>7. TypeOK'
  BY <1>1, <1>2, <1>4, <1>5, <1>6 DEF Inv, TypeOK, history
<1>8. NoStaleIndex'
  BY <1>2, <1>5, <1>6 DEF Inv, TypeOK, NoStaleIndex
<1>9. CachedWasHeard' /\ LogNumbered'
  BY <1>1, <1>6 DEF Inv, CachedWasHeard, LogNumbered, history
<1>10. RecordedWasHeard'
  <2>1. log' = log /\ log \in Seq(Receipt) /\ Len(log) \in Nat
    BY <1>1 DEF history, Inv, TypeOK
  <2>2. /\ messages' = messages
        /\ delivered' \in {delivered, Stamped(delivered, "delivery", taken)}
        /\ read' \in {read, Stamped(read, "read", taken)}
    BY <1>1
  <2>3. /\ log' \in Seq(Receipt) /\ Len(log) <= Len(log')
        /\ \A a \in 1..Len(log) : log'[a] = log[a]
        /\ \A r \in taken : r.at \in 1..Len(log') /\ log'[r.at] = r
    BY <1>3, <2>1
  <2> QED
    BY <1>3, <2>2, <2>3, RecordingKeepsTruth
<1> QED
  BY <1>7, <1>8, <1>9, <1>10 DEF Inv

LEMMA NextInv == Inv /\ [Next]_vars => Inv'
<1> SUFFICES ASSUME Inv, [Next]_vars PROVE Inv'
  OBVIOUS
<1> USE DEF cache, store, history
<1>1. ASSUME NEW p \in Peers, NEW kind \in Kinds, NEW stamps \in SUBSET Timestamps,
             ReceiveReceipt(p, kind, stamps)
      PROVE  Inv'
  BY <1>1, ReceiveReceiptInv
<1>2. ASSUME NEW ts \in Timestamps, CreateMessage(ts)
      PROVE  Inv'
  <2>1. TypeOK'
    BY <1>2 DEF Inv, TypeOK, CreateMessage
  <2>2. NoStaleIndex' /\ CachedWasHeard' /\ LogNumbered'
    BY <1>2 DEF Inv, NoStaleIndex, CachedWasHeard, LogNumbered, CreateMessage
  <2>3. RecordedWasHeard'
    BY <1>2 DEF Inv, RecordedWasHeard, CreateMessage
  <2> QED
    BY <2>1, <2>2, <2>3 DEF Inv
<1>3. CASE \E ts \in Timestamps : ProcessCachedReceipts(ts)
  BY <1>3, ProcessCachedReceiptsInv
<1>4. CASE ToggleReadReceipts
  BY <1>4 DEF ToggleReadReceipts, Inv, TypeOK, NoStaleIndex, CachedWasHeard, LogNumbered,
              RecordedWasHeard
<1>5. CASE Restart
  BY <1>5 DEF Restart, Inv, TypeOK, NoStaleIndex, CachedWasHeard, LogNumbered,
              RecordedWasHeard
<1>6. CASE UNCHANGED vars
  BY <1>6 DEF vars, Inv, TypeOK, NoStaleIndex, CachedWasHeard, LogNumbered,
              RecordedWasHeard
<1> QED
  BY <1>1, <1>2, <1>3, <1>4, <1>5, <1>6 DEF Next

\* Every reachable state of the receipt handling satisfies the invariant.
THEOREM InvHolds == Spec => []Inv
<1>1. Init => Inv
  BY InitInv
<1>2. Inv /\ [Next]_vars => Inv'
  BY NextInv
<1> QED
  BY <1>1, <1>2, PTL DEF Spec

\* The types.
THEOREM TypeCorrect == Spec => []TypeOK
<1>1. Inv => TypeOK
  BY DEF Inv
<1> QED
  BY <1>1, InvHolds, PTL

\* `take` never meets an id its storage lost: expiry, the size limit and takes
\* of other timestamps keep the index sound, for any number of receipts.
THEOREM IndexNeverStale == Spec => []NoStaleIndex
<1>1. Inv => NoStaleIndex
  BY DEF Inv
<1> QED
  BY <1>1, InvHolds, PTL

\* The store records nothing that was not heard.
THEOREM RecordIsTrue == Spec => []RecordedWasHeard
<1>1. Inv => RecordedWasHeard
  BY DEF Inv
<1> QED
  BY <1>1, InvHolds, PTL

-----------------------------------------------------------------------------
(* What recorded receipts become.                                          *)

\* A time that is recorded stays as it is.
THEOREM FirstWins == Spec => FirstReceiptWins
<1>1. Inv /\ [Next]_vars =>
        [\A ts \in Timestamps, p \in Peers :
            /\ delivered[ts][p] # 0 => delivered'[ts][p] = delivered[ts][p]
            /\ read[ts][p] # 0 => read'[ts][p] = read[ts][p]]_vars
  <2> SUFFICES ASSUME Inv, Next, NEW ts \in Timestamps, NEW p \in Peers
               PROVE  /\ delivered[ts][p] # 0 => delivered'[ts][p] = delivered[ts][p]
                      /\ read[ts][p] # 0 => read'[ts][p] = read[ts][p]
    OBVIOUS
  <2>1. ASSUME NEW column, NEW kind, NEW rs, column[ts][p] # 0
        PROVE  Stamped(column, kind, rs)[ts][p] = column[ts][p]
    BY <2>1 DEF Stamped
  <2>2. CASE \E q \in Peers, kind \in Kinds, stamps \in SUBSET Timestamps :
                 ReceiveReceipt(q, kind, stamps)
    BY <2>1, <2>2 DEF ReceiveReceipt, MarkDelivered, MarkRead
  <2>3. CASE \E t \in Timestamps : ProcessCachedReceipts(t)
    BY <2>1, <2>3 DEF ProcessCachedReceipts, MarkDelivered, MarkRead
  <2>4. CASE UNCHANGED <<delivered, read>>
    BY <2>4
  <2> QED
    BY <2>2, <2>3, <2>4 DEF Next, CreateMessage, ToggleReadReceipts, Restart, store
<1> QED
  BY <1>1, InvHolds, PTL DEF Spec, FirstReceiptWins

\* The limit holds after every handler.
THEOREM CacheIsBounded == Spec => []CacheBounded
<1>1. Init => CacheBounded
  BY FS_EmptySet, ConstantsAssumption DEF Init, CacheBounded
<1>2. Inv /\ CacheBounded /\ [Next]_vars => CacheBounded'
  <2> SUFFICES ASSUME Inv, CacheBounded, [Next]_vars PROVE CacheBounded'
    OBVIOUS
  <2>1. ASSUME NEW p \in Peers, NEW kind \in Kinds, NEW stamps \in SUBSET Timestamps,
               ReceiveReceipt(p, kind, stamps)
        PROVE  CacheBounded'
    <3> DEFINE r == [from |-> p, kind |-> kind, stamps |-> stamps, at |-> Len(log) + 1]
    <3>1. PICK c \in AfterAdd(r) : receipts' = c.receipts
      BY <2>1 DEF ReceiveReceipt
    <3>2. CASE r.stamps = {}
      BY <3>1, <3>2 DEF AfterAdd, CacheBounded
    <3>3. CASE r.stamps # {}
      BY <3>1, <3>3, AddShape DEF CacheBounded
    <3> QED
      BY <3>2, <3>3
  <2>2. CASE \E ts \in Timestamps : ProcessCachedReceipts(ts)
    <3>1. DOMAIN receipts' \in SUBSET (DOMAIN receipts)
      BY <2>2 DEF ProcessCachedReceipts, Take
    <3>2. IsFiniteSet(DOMAIN receipts)
      <4>1. IsFiniteSet(1..(nextId - 1))
        BY FS_Interval DEF Inv, TypeOK
      <4> QED
        BY <4>1, FS_Subset DEF Inv, TypeOK
    <3>3. /\ Cardinality(DOMAIN receipts') <= Cardinality(DOMAIN receipts)
          /\ Cardinality(DOMAIN receipts') \in Nat
          /\ Cardinality(DOMAIN receipts) \in Nat
      BY <3>1, <3>2, FS_Subset, FS_CardinalityType
    <3> QED
      BY <3>3, ConstantsAssumption DEF CacheBounded
  <2>3. CASE Restart
    BY <2>3, FS_EmptySet, ConstantsAssumption DEF Restart, CacheBounded
  <2>4. CASE UNCHANGED receipts
    BY <2>4 DEF CacheBounded
  <2>5. \/ \E p \in Peers, kind \in Kinds, stamps \in SUBSET Timestamps :
               ReceiveReceipt(p, kind, stamps)
        \/ \E ts \in Timestamps : ProcessCachedReceipts(ts)
        \/ Restart \/ UNCHANGED receipts
    BY DEF Next, CreateMessage, ToggleReadReceipts, vars, cache
  <2> QED
    BY <2>1, <2>2, <2>3, <2>4, <2>5
<1> QED
  BY <1>1, <1>2, InvHolds, PTL DEF Spec

-----------------------------------------------------------------------------
(* No delivery receipt is lost, but for the three ways DeliveryRecorded    *)
(* names.                                                                  *)

\* The storage holds a receipt once, and jobs are about created messages.
CachedOnce ==
    \A i, j \in DOMAIN receipts : receipts[i].at = receipts[j].at => i = j

JobsCreated == jobs \subseteq messages

\* A receipt the store does not show yet is indexed under the message, and a
\* job is on its way if the message exists.
KeptUntilApplied ==
    \A a \in 1..Len(log) \ forgotten : \A ts \in log[a].stamps :
        (\/ ts \notin messages
         \/ /\ log[a].kind = "delivery"
            /\ ts \in (messages \cap Direct) \ raced
            /\ delivered[ts][log[a].from] = 0)
        => /\ \E i \in index[ts] : receipts[i] = log[a]
           /\ ts \in messages => ts \in jobs

KeepInv == Inv /\ CachedOnce /\ JobsCreated /\ KeptUntilApplied

\* An indexed receipt that survives `add` is indexed as before, and the new
\* one under each of its timestamps.
LEMMA AddKeepsIndexed ==
    ASSUME Inv, CachedOnce, NEW r \in Receipt, r.at = Len(log) + 1,
           NEW c \in AfterAdd(r), NEW x \in Receipt,
           \E j \in DOMAIN c.receipts : c.receipts[j].at = x.at,
           NEW ts \in x.stamps,
           x = r \/ \E i \in index[ts] : receipts[i] = x
    PROVE  \E i \in c.index[ts] : c.receipts[i] = x
<1>1. /\ Len(log) \in Nat /\ ts \in Timestamps /\ nextId \notin DOMAIN receipts
      /\ \A i \in DOMAIN receipts : receipts[i].at \in 1..Len(log)
      /\ \A i \in index[ts] : i \in DOMAIN receipts
  BY DEF Inv, TypeOK, NoStaleIndex, CachedWasHeard, Receipt
<1>2. CASE r.stamps = {}
  <2>1. c.index = index /\ c.receipts = receipts
    BY <1>2 DEF AfterAdd
  <2>2. x # r
    BY <1>2
  <2> QED
    BY <2>1, <2>2
<1>3. CASE r.stamps # {}
  <2>1. /\ DOMAIN c.receipts \subseteq DOMAIN receipts \cup {nextId}
        /\ \A i \in DOMAIN c.receipts :
              c.receipts[i] = IF i = nextId THEN r ELSE receipts[i]
        /\ c.index = [t \in Timestamps |->
                         (IF t \in r.stamps THEN index[t] \cup {nextId} ELSE index[t])
                           \cap DOMAIN c.receipts]
    BY <1>3, AddShape
  <2>2. PICK j \in DOMAIN c.receipts : c.receipts[j].at = x.at
    OBVIOUS
  <2>3. CASE x = r
    <3>1. j = nextId
      <4>1. j \in DOMAIN receipts => receipts[j].at # r.at
        BY <1>1
      <4>2. j \in DOMAIN receipts /\ j # nextId => c.receipts[j] = receipts[j]
        BY <2>1
      <4> QED
        BY <2>1, <2>2, <2>3, <4>1, <4>2
    <3>2. c.receipts[j] = x
      BY <2>1, <2>3, <3>1
    <3>3. j \in c.index[ts]
      BY <1>1, <2>1, <2>3, <3>1
    <3> QED
      BY <3>2, <3>3
  <2>4. CASE x # r
    <3>1. PICK i \in index[ts] : receipts[i] = x
      BY <2>4
    <3>2. i = j
      BY <1>1, <2>1, <2>2, <3>1 DEF CachedOnce
    <3> QED
      BY <1>1, <2>1, <2>2, <3>1, <3>2
  <2> QED
    BY <2>3, <2>4
<1> QED
  BY <1>2, <1>3

\* Receipts of a column leave their mark on every message they find.
LEMMA StampedMarks ==
    ASSUME NEW column \in [Timestamps -> [Peers -> Nat]], NEW kind,
           NEW rs \in SUBSET Receipt, NEW x \in rs, x.kind = kind,
           NEW ts \in x.stamps, ts \in messages
    PROVE  Stamped(column, kind, rs)[ts][x.from] # 0
<1> DEFINE p == x.from
           relevant == {r \in rs : r.kind = kind /\ r.from = p /\ ts \in r.stamps}
           oldest == CHOOSE r \in relevant : \A s \in relevant : r.at <= s.at
<1>1. ts \in Timestamps /\ p \in Peers /\ relevant \in SUBSET Receipt /\ x \in relevant
  BY DEF Receipt
<1>2. CASE column[ts][p] # 0
  BY <1>1, <1>2 DEF Stamped
<1>3. CASE column[ts][p] = 0
  <2>1. oldest \in relevant
    BY <1>1, OldestExists
  <2>2. oldest.at # 0
    BY <1>1, <2>1 DEF Receipt
  <2>3. ~(column[ts][p] # 0 \/ ts \notin messages \/ relevant = {})
    BY <1>1, <1>3
  <2>4. Stamped(column, kind, rs)[ts][p] = oldest.at
    BY <1>1, <2>3 DEF Stamped
  <2> QED
    BY <2>2, <2>4
<1> QED
  BY <1>2, <1>3

LEMMA ReceiveReceiptKeeps ==
    ASSUME KeepInv, Inv', NEW p \in Peers, NEW kind \in Kinds,
           NEW stamps \in SUBSET Timestamps, ReceiveReceipt(p, kind, stamps)
    PROVE  KeepInv'
<1> DEFINE r == [from |-> p, kind |-> kind, stamps |-> stamps, at |-> Len(log) + 1]
<1>1. Len(log) \in Nat /\ r \in Receipt
  BY DEF KeepInv, Inv, TypeOK, Receipt
<1>2. PICK c \in AfterAdd(r) :
        /\ index' = [ts \in Timestamps |-> IF ts \in Matched(r) THEN {} ELSE c.index[ts]]
        /\ receipts' = c.receipts
        /\ forgotten' = forgotten \cup
               (({receipts[i].at : i \in DOMAIN receipts} \cup {r.at})
                  \ {c.receipts[i].at : i \in DOMAIN c.receipts})
  BY DEF ReceiveReceipt
<1>3. /\ log' = Append(log, r)
      /\ raced' = raced \cup (Matched(r) \cap jobs)
      /\ UNCHANGED <<messages, jobs>>
      /\ delivered' \in {delivered, Stamped(delivered, "delivery", {r})}
      /\ r.kind = "delivery" => delivered' = Stamped(delivered, "delivery", {r})
  BY DEF ReceiveReceipt, MarkDelivered
<1>4. /\ Len(log') = Len(log) + 1
      /\ \A a \in 1..Len(log) : log'[a] = log[a]
      /\ log'[r.at] = r
      /\ r.at = Len(log) + 1
      /\ log' \in Seq(Receipt)
  BY <1>1, <1>3 DEF KeepInv, Inv, TypeOK
<1>5. \A i \in DOMAIN c.receipts :
            \/ c.receipts[i] = r
            \/ i \in DOMAIN receipts /\ c.receipts[i] = receipts[i]
  BY <1>1, AddIsSound DEF KeepInv
<1> HIDE DEF r
<1>6. CachedOnce'
  <2> SUFFICES ASSUME NEW i \in DOMAIN c.receipts, NEW j \in DOMAIN c.receipts,
                      c.receipts[i].at = c.receipts[j].at
               PROVE  i = j
    BY <1>2 DEF CachedOnce
  <2>1. \A k \in DOMAIN receipts : receipts[k].at \in 1..Len(log)
    BY DEF KeepInv, Inv, CachedWasHeard
  <2>2. ASSUME NEW k \in DOMAIN c.receipts, c.receipts[k] = r, k # nextId
        PROVE  k \in DOMAIN receipts /\ receipts[k] = r
    <3>1. CASE r.stamps = {}
      BY <2>2, <3>1 DEF AfterAdd
    <3>2. CASE r.stamps # {}
      <4>1. /\ DOMAIN c.receipts \subseteq DOMAIN receipts \cup {nextId}
            /\ \A n \in DOMAIN c.receipts :
                  c.receipts[n] = IF n = nextId THEN r ELSE receipts[n]
        BY <3>2, AddShape, Zenon
      <4> QED
        BY <2>2, <4>1
    <3> QED
      BY <3>1, <3>2
  <2>3. \A k \in DOMAIN c.receipts : c.receipts[k] = r => k = nextId
    BY <1>1, <1>4, <2>1, <2>2
  <2> QED
    BY <1>1, <1>4, <1>5, <2>1, <2>3 DEF KeepInv, CachedOnce
<1>7. JobsCreated'
  BY <1>3 DEF KeepInv, JobsCreated
<1>8. KeptUntilApplied'
  <2> SUFFICES ASSUME NEW a \in 1..Len(log') \ forgotten', NEW ts \in log'[a].stamps,
                      \/ ts \notin messages
                      \/ /\ log'[a].kind = "delivery"
                         /\ ts \in (messages \cap Direct) \ raced'
                         /\ delivered'[ts][log'[a].from] = 0
               PROVE  /\ \E i \in index'[ts] : receipts'[i] = log'[a]
                      /\ ts \in messages => ts \in jobs
    BY <1>3 DEF KeptUntilApplied
  <2>1. log'[a] \in Receipt /\ ts \in Timestamps
    <3>1. log'[a] \in Receipt
      BY <1>4
    <3> QED
      BY <3>1 DEF Receipt
  <2>2. CASE a = r.at
    <3>1. ts \notin messages
      <4>1. ts \in messages /\ r.kind = "delivery" => delivered'[ts][r.from] # 0
        <5>1. delivered \in [Timestamps -> [Peers -> Nat]] /\ ts \in r.stamps
          BY <1>4, <2>2 DEF KeepInv, Inv, TypeOK
        <5>2. {r} \in SUBSET Receipt /\ r \in {r}
          BY <1>1
        <5> QED
          BY <1>3, <5>1, <5>2, StampedMarks
      <4> QED
        BY <1>4, <2>2, <4>1
    <3>2. \E j \in DOMAIN c.receipts : c.receipts[j].at = r.at
      BY <1>2, <2>2
    <3>3. \E i \in c.index[ts] : c.receipts[i] = r
      BY <1>1, <1>4, <2>2, <3>2, AddKeepsIndexed DEF KeepInv
    <3>4. ts \notin Matched(r)
      BY <3>1 DEF Matched
    <3> QED
      BY <1>2, <1>4, <2>1, <2>2, <3>1, <3>3, <3>4
  <2>3. CASE a # r.at
    <3>1. a \in 1..Len(log) \ forgotten /\ log'[a] = log[a]
      BY <1>1, <1>2, <1>4, <2>3
    <3>2. /\ log[a].kind = "delivery" /\ ts \in messages =>
                delivered[ts][log[a].from] = 0 /\ ts \notin raced
      <4>1. ASSUME delivered[ts][log[a].from] # 0
            PROVE  delivered'[ts][log[a].from] = delivered[ts][log[a].from]
        BY <1>3, <2>1, <3>1, <4>1 DEF Stamped, Receipt
      <4> QED
        BY <1>3, <3>1, <4>1
    <3>3. PICK i \in index[ts] : receipts[i] = log[a]
      BY <3>1, <3>2 DEF KeepInv, KeptUntilApplied
    <3>4. ts \in messages => ts \in jobs
      BY <3>1, <3>2 DEF KeepInv, KeptUntilApplied
    <3>5. log[a].at = a /\ i \in DOMAIN receipts
      BY <2>1, <3>1, <3>3 DEF KeepInv, Inv, LogNumbered, NoStaleIndex
    <3>6. \E j \in DOMAIN c.receipts : c.receipts[j].at = log[a].at
      BY <1>2, <3>1, <3>3, <3>5
    <3>7. \E k \in c.index[ts] : c.receipts[k] = log[a]
      BY <1>1, <1>4, <2>1, <3>1, <3>3, <3>6, AddKeepsIndexed DEF KeepInv
    <3>8. ts \notin Matched(r)
      BY <1>3, <3>4 DEF Matched
    <3> QED
      BY <1>2, <2>1, <3>1, <3>4, <3>7, <3>8
  <2> QED
    BY <2>2, <2>3
<1> QED
  BY <1>6, <1>7, <1>8 DEF KeepInv

LEMMA CreateMessageKeeps ==
    ASSUME KeepInv, Inv', NEW new \in Timestamps, CreateMessage(new)
    PROVE  KeepInv'
<1>1. /\ messages' = messages \cup {new}
      /\ jobs' = jobs \cup ({new} \cap Direct)
      /\ UNCHANGED <<index, receipts, delivered, log, forgotten, raced>>
  BY DEF CreateMessage, cache, history, KeepInv, Inv, TypeOK
<1>2. jobs \subseteq jobs'
  BY <1>1
<1>3. new \in Direct => new \in jobs'
  BY <1>1
<1>4. CachedOnce'
  BY <1>1 DEF KeepInv, CachedOnce
<1>5. JobsCreated'
  BY <1>1 DEF KeepInv, JobsCreated
<1>6. KeptUntilApplied'
  <2> SUFFICES ASSUME NEW a \in 1..Len(log) \ forgotten, NEW ts \in log[a].stamps,
                      \/ ts \notin messages'
                      \/ /\ log[a].kind = "delivery"
                         /\ ts \in (messages' \cap Direct) \ raced
                         /\ delivered[ts][log[a].from] = 0
               PROVE  /\ \E i \in index[ts] : receipts[i] = log[a]
                      /\ ts \in messages' => ts \in jobs'
    BY <1>1 DEF KeptUntilApplied
  <2>1. CASE ts = new /\ ts \notin messages
    BY <1>1, <1>3, <2>1 DEF KeepInv, KeptUntilApplied
  <2>2. CASE ts # new \/ ts \in messages
    BY <1>1, <1>2, <2>2 DEF KeepInv, KeptUntilApplied
  <2> QED
    BY <2>1, <2>2
<1> QED
  BY <1>4, <1>5, <1>6 DEF KeepInv

LEMMA ProcessCachedReceiptsKeeps ==
    ASSUME KeepInv, Inv', NEW done \in Timestamps, ProcessCachedReceipts(done)
    PROVE  KeepInv'
<1> DEFINE taken == {receipts[i] : i \in index[done]}
<1>1. /\ done \in jobs /\ jobs' = jobs \ {done}
      /\ Take(done)
      /\ delivered' = Stamped(delivered, "delivery", taken)
      /\ UNCHANGED <<messages, log, forgotten, raced>>
  BY DEF ProcessCachedReceipts, MarkDelivered, history, KeepInv, Inv, TypeOK
<1>2. done \in messages /\ done \in Timestamps
  BY <1>1 DEF KeepInv, JobsCreated
<1>3. taken \in SUBSET Receipt /\ delivered \in [Timestamps -> [Peers -> Nat]]
  BY <1>2 DEF KeepInv, Inv, TypeOK, NoStaleIndex
<1>4. \A i \in index[done] : receipts[i] \in taken
  OBVIOUS
<1>5. \A ts \in jobs \ {done} : ts \in jobs'
  BY <1>1
<1> HIDE DEF taken
<1>6. /\ index' = [index EXCEPT ![done] = {}]
      /\ DOMAIN receipts' \subseteq DOMAIN receipts
      /\ \A i \in DOMAIN receipts' : receipts'[i] = receipts[i]
      /\ \A other \in Timestamps \ {done} : index[other] \subseteq DOMAIN receipts'
  BY <1>1 DEF Take, WasLast, KeepInv, Inv, TypeOK, NoStaleIndex
<1>7. CachedOnce'
  BY <1>6 DEF KeepInv, CachedOnce
<1>8. JobsCreated'
  BY <1>1 DEF KeepInv, JobsCreated
<1>9. KeptUntilApplied'
  <2> SUFFICES ASSUME NEW a \in 1..Len(log) \ forgotten, NEW ts \in log[a].stamps,
                      \/ ts \notin messages
                      \/ /\ log[a].kind = "delivery"
                         /\ ts \in (messages \cap Direct) \ raced
                         /\ delivered'[ts][log[a].from] = 0
               PROVE  /\ \E i \in index'[ts] : receipts'[i] = log[a]
                      /\ ts \in messages => ts \in jobs'
    BY <1>1 DEF KeptUntilApplied
  <2>1. log[a] \in Receipt /\ ts \in Timestamps
    <3>1. log[a] \in Receipt
      BY DEF KeepInv, Inv, TypeOK
    <3> QED
      BY <3>1 DEF Receipt
  <2>2. ts \in messages => delivered[ts][log[a].from] = 0
    BY <1>1, <2>1 DEF Stamped, Receipt
  <2>3. PICK i \in index[ts] : receipts[i] = log[a]
    BY <2>2 DEF KeepInv, KeptUntilApplied
  <2>4. ts \in messages => ts \in jobs
    BY <2>2 DEF KeepInv, KeptUntilApplied
  <2>5. ts # done
    <3> SUFFICES ASSUME ts = done PROVE FALSE
      OBVIOUS
    <3>1. log[a] \in taken /\ log[a].kind = "delivery"
      BY <1>2, <1>4, <2>3
    <3>2. delivered'[ts][log[a].from] # 0
      BY <1>1, <1>2, <1>3, <3>1, StampedMarks
    <3> QED
      BY <1>2, <3>2
  <2>6. i \in index'[ts] /\ receipts'[i] = log[a]
    BY <1>6, <2>1, <2>3, <2>5 DEF KeepInv, Inv, TypeOK
  <2> QED
    BY <1>5, <2>4, <2>5, <2>6
<1> QED
  BY <1>7, <1>8, <1>9 DEF KeepInv

LEMMA KeepInvHolds == Spec => []KeepInv
<1>1. Init => KeepInv
  BY InitInv DEF Init, KeepInv, CachedOnce, JobsCreated, KeptUntilApplied
<1>2. KeepInv /\ Inv' /\ [Next]_vars => KeepInv'
  <2> SUFFICES ASSUME KeepInv, Inv', [Next]_vars PROVE KeepInv'
    OBVIOUS
  <2> USE DEF cache, store, history
  <2>1. CASE \E p \in Peers, kind \in Kinds, stamps \in SUBSET Timestamps :
                 ReceiveReceipt(p, kind, stamps)
    BY <2>1, ReceiveReceiptKeeps
  <2>2. CASE \E ts \in Timestamps : CreateMessage(ts)
    BY <2>2, CreateMessageKeeps
  <2>3. CASE \E ts \in Timestamps : ProcessCachedReceipts(ts)
    BY <2>3, ProcessCachedReceiptsKeeps
  <2>4. CASE ToggleReadReceipts
    BY <2>4 DEF ToggleReadReceipts, KeepInv, CachedOnce, JobsCreated, KeptUntilApplied
  <2>5. CASE Restart
    BY <2>5 DEF Restart, KeepInv, CachedOnce, JobsCreated, KeptUntilApplied
  <2>6. CASE UNCHANGED vars
    BY <2>6 DEF vars, KeepInv, CachedOnce, JobsCreated, KeptUntilApplied
  <2> QED
    BY <2>1, <2>2, <2>3, <2>4, <2>5, <2>6 DEF Next
<1> QED
  BY <1>1, <1>2, InvHolds, PTL DEF Spec

\* A receipt that is early stays findable until its message comes, whatever
\* happens to the other messages it is about.
THEOREM EarlyIsKept == Spec => []EarlyReceiptKept
<1>1. KeepInv => EarlyReceiptKept
  BY DEF KeepInv, KeptUntilApplied, EarlyReceiptKept
<1> QED
  BY <1>1, KeepInvHolds, PTL

\* Every delivery receipt reaches the store once the message's job has run,
\* unless the cache gave up on it or another receipt got in between.
THEOREM DeliveryIsRecorded == Spec => []DeliveryRecorded
<1>1. KeepInv => DeliveryRecorded
  BY DEF KeepInv, KeptUntilApplied, DeliveryRecorded
<1> QED
  BY <1>1, KeepInvHolds, PTL
=============================================================================
