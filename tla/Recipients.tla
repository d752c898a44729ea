----------------------------- MODULE Recipients -----------------------------
(***************************************************************************)
(* The recipients table and the lookup that merges its rows                *)
(* (store/recipient_merge.rs, and its callers in store.rs).                *)
(*                                                                         *)
(* A person is known by up to three identifiers, the ACI, the PNI and the  *)
(* phone number (E.164), which the client learns separately and in any     *)
(* order.  A lookup names some of them, decides from the rows it finds     *)
(* what has to be moved, and runs those operations on the database in one  *)
(* transaction.  The operations are all decided before the first of them   *)
(* runs: here [ByAci], [ByPni], [ByE164] and the rows they name are those  *)
(* of the state before the step, whereas every operation works on the      *)
(* table its predecessors left, the first argument t.                      *)
(*                                                                         *)
(* A table keeps, besides the rows, the row whose conversation each        *)
(* message is in, and whether every statement so far succeeded: a failing  *)
(* one (a second row with the same ACI or number, a row that is not there) *)
(* rolls the transaction back, and the caller's expect() panics.           *)
(*                                                                         *)
(* Left out: profile data, group v1 memberships, reactions and receipts,   *)
(* which a merge moves as it moves messages; the observers; the trust      *)
(* level only where the code reads it.                                     *)
(***************************************************************************)
EXTENDS FiniteSets

CONSTANTS Acis, Pnis, E164s,   \* identifiers in use, disjoint sets
          None,                \* an identifier that is not known
          SelfAci, SelfPni, SelfE164,  \* the identifiers in the settings
          Ids,                 \* row numbers: bounds the rows ever alive at once
          Messages             \* messages of one-to-one conversations

ASSUME IdentifierAssumption ==
  /\ None \notin Acis \cup Pnis \cup E164s \cup Ids
  /\ SelfAci \in Acis /\ SelfPni \in Pnis /\ SelfE164 \in E164s
  /\ Acis \cap Pnis = {} /\ Acis \cap E164s = {} /\ Pnis \cap E164s = {}

VARIABLES rows,      \* the recipients table: row number -> identifiers
          held,      \* message -> the row whose conversation holds it, or None
          members,   \* rows the memberships of v2 groups refer to
          panicked   \* the process ended in a panic

vars == <<rows, held, members, panicked>>

Row == [aci : Acis \cup {None}, pni : Pnis \cup {None}, e164 : E164s \cup {None}]

(***************************************************************************)
(* The lookups the program makes.  Messages and sync transcripts name an   *)
(* optional number and one service identifier; the promotion of a pending  *)
(* group member names an ACI and a PNI and is not trusted; the user's own  *)
(* row is looked up with everything the settings hold.  What belongs to    *)
(* the user comes with nobody else's identifiers.                          *)
(***************************************************************************)
Own(l) == {l.aci, l.pni, l.e164} \cap {SelfAci, SelfPni, SelfE164}
Named(l) == {l.aci, l.pni, l.e164} \ {None}

MessageLookups ==
  {l \in [aci : Acis \cup {None}, pni : Pnis \cup {None},
          e164 : E164s \cup {None}, certain : {TRUE}] :
     l.aci = None \/ l.pni = None}

PromotionLookups ==
  [aci : Acis, pni : Pnis, e164 : {None}, certain : {FALSE}]

SelfLookups ==
  {[aci |-> SelfAci, pni |-> SelfPni, e164 |-> SelfE164, certain |-> TRUE]}

Lookups ==
  {l \in MessageLookups \cup PromotionLookups \cup SelfLookups :
     Named(l) # {} /\ (Own(l) = {} \/ Own(l) = Named(l))}

-----------------------------------------------------------------------------
(* Single statements.                                                      *)

With(r, f, x) == {i \in DOMAIN r : r[i][f] = x}

\* The row of r with value x in column f: None if x is not given or not there.
Find(r, f, x) ==
  IF x = None \/ With(r, f, x) = {} THEN None
  ELSE CHOOSE i \in With(r, f, x) : TRUE

Present(t, i) == i \in DOMAIN t.rows

SetPni(t, i, p) ==
  IF t.ok /\ Present(t, i) THEN [t EXCEPT !.rows[i].pni = p]
  ELSE [t EXCEPT !.ok = FALSE]

\* uuid and e164 are UNIQUE columns.
SetAci(t, i, a) ==
  IF t.ok /\ Present(t, i) /\ With(t.rows, "aci", a) \ {i} = {}
  THEN [t EXCEPT !.rows[i].aci = a]
  ELSE [t EXCEPT !.ok = FALSE]

SetE164(t, i, e) ==
  IF t.ok /\ Present(t, i) /\ (e = None \/ With(t.rows, "e164", e) \ {i} = {})
  THEN [t EXCEPT !.rows[i].e164 = e]
  ELSE [t EXCEPT !.ok = FALSE]

\* The columns of the row in reverse.
InsertRowSwapped(r, i, new) ==
  [j \in DOMAIN r \cup {i} |->
     IF j = i THEN [aci |-> new.e164, pni |-> new.pni, e164 |-> new.aci] ELSE r[j]]

InsertRow(r, i, new) == [j \in DOMAIN r \cup {i} |-> IF j = i THEN new ELSE r[j]]

Create(t, i, a, p, e) ==
  IF /\ t.ok
     /\ a = None \/ With(t.rows, "aci", a) = {}
     /\ e = None \/ With(t.rows, "e164", e) = {}
  THEN [t EXCEPT !.rows = InsertRow(t.rows, i, [aci |-> a, pni |-> p, e164 |-> e])]
  ELSE [t EXCEPT !.ok = FALSE]

\* The source goes, and takes what refers to it along.
MergeDropping(t, s, d) ==
  IF t.ok /\ Present(t, s)
  THEN [t EXCEPT !.rows = [i \in DOMAIN t.rows \ {s} |-> t.rows[i]]]
  ELSE [t EXCEPT !.ok = FALSE]

\* Move everything from row s to row d, and drop s if nothing identifies it.
Merge(t, s, d) ==
  IF t.ok /\ Present(t, s)
  THEN [t EXCEPT
          !.held = [m \in Messages |-> IF t.held[m] = s THEN d ELSE t.held[m]],
          !.rows = IF t.rows[s] = [aci |-> None, pni |-> None, e164 |-> None]
                   THEN [i \in DOMAIN t.rows \ {s} |-> t.rows[i]]
                   ELSE t.rows]
  ELSE [t EXCEPT !.ok = FALSE]

Unwrap(t, x) == [t EXCEPT !.ok = t.ok /\ x # None]

When(c, new, t) == IF c THEN new ELSE t

-----------------------------------------------------------------------------
(* The lookup, block by block.                                             *)

ByAci(l) == Find(rows, "aci", l.aci)
ByPni(l) == Find(rows, "pni", l.pni)
ByE164(l) == Find(rows, "e164", l.e164)
Matches(l) == {ByAci(l), ByPni(l), ByE164(l)} \ {None}

\* Nothing matches: a new row, with the number only if it can be trusted.
CreateNew(t, l, n) ==
  When(Matches(l) = {},
       Create(t, n, l.aci, l.pni, IF l.certain \/ l.aci = None THEN l.e164 ELSE None),
       t)

\* The row keeps its PNI.
SplitCommonPniKept(t, l, n, c) ==
  LET stolen == l.e164 # None /\ l.e164 = rows[c].e164
  IN  Create(When(stolen, SetE164(t, c, None), t), n, None, l.pni, l.e164)

\* One row c matches, and has another ACI: it gives the rest to a new row.
SplitCommon(t, l, n, c) ==
  LET stolen == l.e164 # None /\ l.e164 = rows[c].e164
      lostPni == stolen \/ (l.pni # None /\ l.pni = rows[c].pni)
      t1 == When(stolen, SetE164(t, c, None), t)
      t2 == When(lostPni, SetPni(t1, c, None), t1)
  IN  Create(t2, n, None, l.pni, l.e164)

\* One row c matches, and takes what it does not have yet.
AmendCommon(t, l, c) ==
  LET t1 == When(l.e164 # None /\ l.e164 # rows[c].e164 /\ l.certain,
                 SetE164(t, c, l.e164), t)
      t2 == When(l.pni # None /\ l.pni # rows[c].pni, SetPni(t1, c, l.pni), t1)
  IN  When(l.aci # None /\ rows[c].aci = None, SetAci(t2, c, l.aci), t2)

\* Another ACI replaces the one the row has.
UpdateCommonReplacing(t, l, n) ==
  IF Cardinality(Matches(l)) # 1 THEN t
  ELSE LET c == CHOOSE i \in Matches(l) : TRUE
       IN  When(l.aci # None /\ rows[c].aci # l.aci, SetAci(AmendCommon(t, l, c), c, l.aci),
                AmendCommon(t, l, c))

UpdateCommon(t, l, n) ==
  IF Cardinality(Matches(l)) # 1 THEN t
  ELSE LET c == CHOOSE i \in Matches(l) : TRUE
       IN  IF l.aci # None /\ rows[c].aci # None /\ l.aci # rows[c].aci
           THEN SplitCommon(t, l, n, c)
           ELSE AmendCommon(t, l, c)

MergePniIntoE164(t, l) ==
  LET e == ByE164(l)
      p == ByPni(l)
  IN  IF e = None \/ p = None \/ e = p THEN t
      ELSE IF rows[p].aci = None /\ rows[p].e164 = None
           THEN Merge(SetPni(t, e, None), p, e)
           ELSE SetPni(SetPni(t, p, None), e, l.pni)

MergePniIntoAci(t, l) ==
  LET a == ByAci(l)
      p == ByPni(l)
      number == IF rows[p].e164 # None THEN rows[p].e164 ELSE l.e164
      cleared == SetPni(t, a, None)
      swapped == SetPni(SetPni(t, p, None), a, l.pni)
      freed == When(rows[p].e164 = l.e164, SetE164(swapped, p, None), swapped)
  IN  IF a = None \/ p = None \/ a = p THEN t
      ELSE IF rows[p].aci = None /\ rows[p].e164 = None
           THEN Merge(When(rows[a].pni # None, cleared, t), p, a)
      ELSE IF rows[p].aci = None /\ (l.e164 = None \/ rows[p].e164 = l.e164)
           THEN Merge(When(number # None /\ rows[a].e164 = None,
                           SetE164(cleared, a, None), cleared), p, a)
      ELSE When(l.e164 # None /\ rows[a].e164 # l.e164,
                SetE164(freed, a, l.e164), swapped)

\* The ACI's row takes the number before the other row gives it up.
MergeE164IntoAciAtOnce(t, l) ==
  LET a == ByAci(l)
      e == ByE164(l)
  IN  IF a = None \/ e = None \/ a = e THEN t
      ELSE SetE164(SetE164(t, a, l.e164), e, None)

\* The number is left where it is.
MergeE164IntoAciNever(t, l) ==
  LET a == ByAci(l)
      e == ByE164(l)
  IN  IF a = None \/ e = None \/ a = e \/ rows[e].aci # None \/ rows[e].pni # None THEN t
      ELSE Merge(SetE164(SetE164(t, e, None), a, l.e164), e, a)

MergeE164IntoAci(t, l) ==
  LET a == ByAci(l)
      e == ByE164(l)
      moved(u) == SetE164(SetE164(u, e, None), a, l.e164)
      emptied == When(rows[a].e164 # None, SetE164(t, a, None), t)
      cleared == When(rows[a].pni # None, SetPni(t, a, None), t)
      checked == Unwrap(cleared, rows[a].e164)
  IN  IF a = None \/ e = None \/ a = e THEN t
      ELSE IF rows[e].aci = None /\ rows[e].pni = None
           THEN Merge(moved(emptied), e, a)
      ELSE IF l.pni # None /\ rows[e].pni # l.pni
           THEN Merge(When(rows[a].e164 # l.e164, SetE164(checked, a, None), checked), e, a)
      ELSE When(l.certain, moved(t), t)

\* The row a lookup returns: ACI before number before PNI.
Result(r, l) ==
  LET a == Find(r, "aci", l.aci)
      e == Find(r, "e164", l.e164)
  IN  IF a # None THEN a ELSE IF e # None THEN e ELSE Find(r, "pni", l.pni)

\* The result takes the identifiers that no row has.
Complete(t, l) ==
  LET c == Result(t.rows, l)
      missing(f, x) == x # None /\ Find(t.rows, f, x) = None
      t1 == When(missing("aci", l.aci), SetAci(t, c, l.aci), t)
      t2 == When(missing("e164", l.e164), SetE164(t1, c, l.e164), t1)
      t3 == When(missing("pni", l.pni), SetPni(t2, c, l.pni), t2)
  IN  IF c = None THEN [t EXCEPT !.ok = FALSE] ELSE t3

Looked(l, n) ==
  LET t0 == [rows |-> rows, held |-> held, ok |-> TRUE]
      t1 == UpdateCommon(CreateNew(t0, l, n), l, n)
      t2 == MergePniIntoE164(t1, l)
      t3 == MergePniIntoAci(t2, l)
      t4 == MergeE164IntoAci(t3, l)
  IN  Complete(t4, l)

\* Foreign keys are checked when the transaction commits.
Commits(t) == t.ok /\ members \subseteq DOMAIN t.rows

-----------------------------------------------------------------------------
Init ==
  /\ rows = [i \in {} |-> None]
  /\ held = [m \in Messages |-> None]
  /\ members = {}
  /\ panicked = FALSE

MergeAndFetch(l, n) ==
  /\ ~panicked
  /\ LET t == Looked(l, n)
     IN  IF Commits(t)
         THEN rows' = t.rows /\ held' = t.held /\ UNCHANGED <<members, panicked>>
         ELSE panicked' = TRUE /\ UNCHANGED <<rows, held, members>>

\* fetch_or_insert_recipient_by_address and _by_phonenumber.
FetchOrInsert(f, x, n) ==
  /\ ~panicked
  /\ With(rows, f, x) = {}
  /\ rows' = InsertRow(rows, n, [[aci |-> None, pni |-> None, e164 |-> None] EXCEPT ![f] = x])
  /\ UNCHANGED <<held, members, panicked>>

\* A message is stored in the conversation with row i.
CreateMessage(m, i) ==
  /\ ~panicked
  /\ held[m] = None
  /\ held' = [held EXCEPT ![m] = i]
  /\ UNCHANGED <<rows, members, panicked>>

\* A group's member, fetched by its ACI.
AddGroupMember(a) ==
  /\ ~panicked
  /\ members' = members \cup With(rows, "aci", a)
  /\ UNCHANGED <<rows, held, panicked>>

Next ==
  \/ \E l \in Lookups, n \in Ids \ DOMAIN rows : MergeAndFetch(l, n)
  \/ \E n \in Ids \ DOMAIN rows :
       \/ \E a \in Acis : FetchOrInsert("aci", a, n)
       \/ \E p \in Pnis : FetchOrInsert("pni", p, n)
       \/ \E e \in E164s : FetchOrInsert("e164", e, n)
  \/ \E m \in Messages, i \in DOMAIN rows : CreateMessage(m, i)
  \/ \E a \in Acis : AddGroupMember(a)

Spec == Init /\ [][Next]_vars

-----------------------------------------------------------------------------
\* A row holds an identifier of each kind, or none; messages and memberships
\* refer to row numbers.
TypeOK ==
  /\ \E D \in SUBSET Ids : rows \in [D -> Row]
  /\ held \in [Messages -> Ids \cup {None}]
  /\ members \subseteq Ids
  /\ panicked \in BOOLEAN

\* No lookup fails: whatever was learned before, no statement that it decides
\* on meets a second row with the same ACI or number, or a row that an earlier
\* statement removed, and no group is left with a member that is gone.
NeverPanics == ~panicked

\* Two rows never have the same PNI, although the table does not demand it.
PniUnique ==
  \A i, j \in DOMAIN rows : rows[i].pni = rows[j].pni /\ rows[i].pni # None => i = j

\* A row that has an ACI keeps it, and stays: numbers and PNIs that change
\* hands move between rows, and never make a contact another one.
AciStays ==
  [][\A i \in DOMAIN rows : rows[i].aci # None =>
       i \in DOMAIN rows' /\ rows'[i].aci = rows[i].aci]_vars

\* No merge loses a message: its conversation is that of a row that is still
\* there, and while that row has an ACI it is the same conversation.
HistoryStays ==
  [][\A m \in Messages : held[m] # None =>
       /\ held'[m] \in DOMAIN rows'
       /\ rows[held[m]].aci # None => held'[m] = held[m]]_vars

\* What is known for certain is stored: after a lookup of an ACI and a number
\* the ACI's row has the number, whichever rows had either before.
NumberFollowsAci ==
  [][\A l \in Lookups, n \in Ids \ DOMAIN rows :
       l.certain /\ l.aci # None /\ l.e164 # None /\ MergeAndFetch(l, n)
         => \E i \in DOMAIN rows' : rows'[i].aci = l.aci /\ rows'[i].e164 = l.e164]_vars
=============================================================================
