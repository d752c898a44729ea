---------------------------- MODULE ThreadProofs ----------------------------
(***************************************************************************)
(* Proofs about Thread for any members, emoji and number of messages.      *)
(*                                                                         *)
(* Whatever edits name, the tables keep their types and nobody changes     *)
(* another member's rows (AnyInv).  When edits name the first version of a *)
(* message, one of its versions is shown, the newest, every reaction is    *)
(* one that was sent about it (IInv), and the page follows Conversation    *)
(* (PageInv).                                                              *)
(*                                                                         *)
(* That an edit finds the first version is a matter of times: a row with   *)
(* the editor as its author and the time of his text is the row of that    *)
(* text, because his times are all different (Sending), and the row of a   *)
(* text never names another (FromText).  The versions of a message then    *)
(* all name one first row and one latest row (Linked).                     *)
(***************************************************************************)
EXTENDS Thread, WellFoundedInduction, TLAPS

Sending ==
  /\ \A e, f \in sent : e.author = f.author /\ e.at = f.at => e = f
  /\ \A e \in sent : e.kind = "edit" =>
       \E f \in sent : f.kind = "text" /\ f.author = e.author /\ f.at = e.about

FromText ==
  \A i \in Ids : \E e \in handled :
    /\ e.author = rows[i].author
    /\ e.at = rows[i].at
    /\ e.kind = "text" => rows[i].original \in {NULL, i}

\* Row i of table t, the row o that it names, and the latest row of o.
LinkedTo(t, i, o) ==
  /\ o \in DOMAIN t /\ t[o].original = o
  /\ t[i].author = t[o].author
  /\ t[i].latest = t[o].latest
  /\ t[o].latest \in DOMAIN t
  /\ t[t[o].latest].original = o
  /\ i # t[o].latest => t[i].revision < t[t[o].latest].revision

Linked ==
  \A i \in Ids :
    IF rows[i].original = NULL THEN rows[i].latest = NULL
    ELSE LinkedTo(rows, i, rows[i].original)

IInv == TypeOK /\ Sending /\ FromText /\ Linked

-----------------------------------------------------------------------------
(* Edits.                                                                  *)

\* The row that an edit finds is the first version.
LEMMA FindsFirst ==
  ASSUME IInv, NEW e \in sent, e.kind = "edit",
         NEW i \in Found(e.about), rows[i].author = e.author
  PROVE  i \in Ids /\ rows[i].original \in {NULL, i} /\ Orig(i) = i
<1>1. PICK f \in sent : f.kind = "text" /\ f.author = e.author /\ f.at = e.about
  BY DEF IInv, Sending
<1>2. i \in Ids /\ rows[i].at = e.about
  BY DEF Found
<1>3. PICK g \in handled : /\ g.author = rows[i].author
                           /\ g.at = rows[i].at
                           /\ g.kind = "text" => rows[i].original \in {NULL, i}
  BY <1>2 DEF IInv, FromText
<1>4. g = f
  BY <1>1, <1>2, <1>3 DEF IInv, TypeOK, Sending
<1> QED
  BY <1>1, <1>2, <1>3, <1>4 DEF Orig

\* A first version's revision, and those of the rows that name it, have a
\* greatest: the one of the row shown.
LEMMA NextRevisionIsGreater ==
  ASSUME IInv, NEW i \in Ids, rows[i].original \in {NULL, i}
  PROVE  /\ NextRevision(i) \in Nat
         /\ \A j \in Series(i) : rows[j].revision < NextRevision(i)
<1> DEFINE S == {rows[j].revision : j \in Series(i)}
           top == IF rows[i].original = NULL THEN i ELSE rows[i].latest
<1>1. \A j \in Ids : rows[j].revision \in Nat
  <2>1. \A j \in Ids : rows[j] \in Row
    BY DEF IInv, TypeOK, Ids
  <2> QED
    BY <2>1 DEF Row
<1>2. S \subseteq Nat
  BY <1>1 DEF Series
<1>3. i # NULL
  BY DEF Ids, NULL, IInv, TypeOK
<1>4. top \in Series(i) /\ \A j \in Series(i) : rows[j].revision <= rows[top].revision
  <2>1. CASE rows[i].original = NULL
    <3>1. \A j \in Series(i) : j = i
      BY <1>3, <2>1 DEF Series, IInv, Linked, LinkedTo, Ids
    <3> QED
      BY <1>1, <2>1, <3>1 DEF Series
  <2>2. CASE rows[i].original = i
    <3>1. LinkedTo(rows, i, i)
      BY <1>3, <2>2 DEF IInv, Linked
    <3>2. top = rows[i].latest /\ top \in Ids /\ rows[top].original = i
      BY <1>3, <2>2, <3>1 DEF LinkedTo, Ids
    <3>3. \A j \in Series(i) : LinkedTo(rows, j, i)
      BY <1>3, <2>2 DEF IInv, Linked, Series
    <3> QED
      BY <1>1, <3>2, <3>3 DEF LinkedTo, Ids, Series
  <2> QED
    BY <2>1, <2>2
<1>5. \E n \in S : \A j \in Series(i) : rows[j].revision <= n
  BY <1>4
<1> DEFINE m == CHOOSE n \in S : \A j \in Series(i) : rows[j].revision <= n
<1>6. m \in S /\ \A j \in Series(i) : rows[j].revision <= m
  BY <1>5
<1>7. NextRevision(i) = 1 + m
  BY DEF NextRevision
<1> HIDE DEF m
<1>8. m \in Nat /\ NextRevision(i) \in Nat
  BY <1>2, <1>6, <1>7
<1>9. \A j \in Series(i) : rows[j].revision < NextRevision(i)
  BY <1>1, <1>6, <1>7, <1>8 DEF Series
<1> QED
  BY <1>8, <1>9

\* Table t is the one after an edit e of the first version i.
Edited(t, e, i) ==
  /\ t \in Seq(Row)
  /\ DOMAIN t = Ids \cup {NewId}
  /\ t[NewId] = [at |-> e.at, author |-> e.author, original |-> i, latest |-> NewId,
                 revision |-> NextRevision(i), deleted |-> FALSE]
  /\ \A j \in Ids : t[j] = IF j = i \/ rows[j].original = i
                          THEN [rows[j] EXCEPT !.original = i, !.latest = NewId]
                          ELSE rows[j]

LEMMA RevisedShape ==
  ASSUME IInv, NEW e \in Changing, NEW i \in Ids, rows[i].original \in {NULL, i}
  PROVE  Edited(Revised(e, i), e, i)
<1> DEFINE new == NewRow(e, i, NextRevision(i))
           r == Revised(e, i)
<1>1. rows \in Seq(Row) /\ Ids = 1..Len(rows) /\ Len(rows) \in Nat
  BY DEF IInv, TypeOK, Ids
<1>2. NewId \in Nat \ {0} /\ NewId \notin Ids /\ 1..NewId = Ids \cup {NewId}
      /\ NewId \in 1..NewId /\ i \in Nat \ {0}
  BY <1>1 DEF NewId
<1>3. Orig(i) = i
  BY DEF Orig
<1>4. new \in Row /\ new.original = i
  BY <1>2, NextRevisionIsGreater DEF NewRow, Row, Changing, NULL
<1>5. new = [at |-> e.at, author |-> e.author, original |-> i, latest |-> NULL,
             revision |-> NextRevision(i), deleted |-> FALSE]
  BY DEF NewRow
<1> HIDE DEF new
<1>6. /\ Append(rows, new)[NewId] = new
      /\ \A j \in Ids : Append(rows, new)[j] = rows[j]
  BY <1>1, <1>4 DEF NewId
<1>7. r = [j \in 1..NewId |->
             IF j = i \/ Append(rows, new)[j].original = i
             THEN [Append(rows, new)[j] EXCEPT !.original = i, !.latest = NewId]
             ELSE Append(rows, new)[j]]
  BY <1>3 DEF Revised, new
<1>8. \A j \in Ids : r[j] =
        IF j = i \/ rows[j].original = i
        THEN [rows[j] EXCEPT !.original = i, !.latest = NewId]
        ELSE rows[j]
  BY <1>2, <1>6, <1>7
<1> DEFINE all == Append(rows, new)
<1>9. r[NewId] = [new EXCEPT !.original = i, !.latest = NewId]
  <2>1. r[NewId] = IF NewId = i \/ all[NewId].original = i
                   THEN [all[NewId] EXCEPT !.original = i, !.latest = NewId]
                   ELSE all[NewId]
    BY <1>2, <1>7
  <2> QED
    BY <1>4, <1>6, <2>1
<1>10. r \in [1..NewId -> Row]
  <2> SUFFICES ASSUME NEW j \in 1..NewId
               PROVE  r[j] \in Row
    BY <1>7
  <2>1. CASE j = NewId
    BY <2>1, <1>2, <1>4, <1>9 DEF Row
  <2>2. CASE j \in Ids
    <3>1. rows[j] \in Row
      BY <1>1, <2>2
    <3> QED
      BY <1>2, <1>8, <2>2, <3>1 DEF Row
  <2> QED
    BY <1>2, <2>1, <2>2
<1>11. r \in Seq(Row) /\ DOMAIN r = Ids \cup {NewId}
  BY <1>2, <1>10
<1>12. r[NewId] = [at |-> e.at, author |-> e.author, original |-> i, latest |-> NewId,
                   revision |-> NextRevision(i), deleted |-> FALSE]
  BY <1>5, <1>9
<1> HIDE DEF r
<1>13. Edited(r, e, i)
  BY <1>8, <1>11, <1>12 DEF Edited
<1> QED
  BY <1>13 DEF r

-----------------------------------------------------------------------------
(* What each way to change the table preserves.                            *)

RowsTyped ==
  /\ rows \in Seq(Row)
  /\ \A i \in Ids : {rows[i].original, rows[i].latest} \subseteq Ids \cup {NULL}

\* Rows may only be appended: NULL is none of them.
LEMMA IdsFacts ==
  ASSUME RowsTyped
  PROVE  /\ Ids = 1..Len(rows) /\ Len(rows) \in Nat /\ NULL \notin Ids
         /\ NewId \in Nat \ {0} /\ NewId \notin Ids
         /\ \A i \in Ids : rows[i] \in Row /\ i \in Nat
  BY DEF RowsTyped, Ids, NewId, NULL

LEMMA InsertNewPreserves ==
  ASSUME IInv, NEW e \in sent, e.kind \in {"text", "edit"}, InsertNew(e),
         handled' = handled \cup {e}
  PROVE  /\ RowsTyped' /\ FromText' /\ Linked' /\ Ids \subseteq Ids'
         /\ \A j \in Ids : rows'[j] = rows[j]
         /\ Ids' = Ids \cup {NewId} /\ rows'[NewId] = NewRow(e, NULL, 0)
<1> DEFINE new == NewRow(e, NULL, 0)
<1>1. RowsTyped
  BY DEF IInv, TypeOK, RowsTyped
<1>2. rows' = Append(rows, new)
  BY DEF InsertNew
<1>3. e.at \in Times /\ e.author \in Authors
  BY DEF IInv, TypeOK, Envelope, Plain, Changing, Reacting
<1>4. /\ new \in Row /\ new.original = NULL /\ new.latest = NULL
      /\ new.at = e.at /\ new.author = e.author
  BY <1>3 DEF NewRow, Row, NULL
<1> HIDE DEF new
<1>5. /\ rows' \in Seq(Row) /\ Ids' = Ids \cup {NewId}
      /\ rows'[NewId] = new /\ \A j \in Ids : rows'[j] = rows[j]
  BY <1>1, <1>2, <1>4, IdsFacts DEF RowsTyped, Ids, NewId
<1>6. RowsTyped'
  BY <1>1, <1>4, <1>5 DEF RowsTyped
<1>7. FromText'
  BY <1>4, <1>5, IdsFacts, <1>1 DEF IInv, FromText
<1>8. Linked'
  <2>1. \A j \in Ids : rows'[j].original # NULL => LinkedTo(rows', j, rows[j].original)
    BY <1>5 DEF IInv, Linked, LinkedTo, Ids
  <2>2. \A j \in Ids : rows'[j].original = NULL => rows'[j].latest = NULL
    BY <1>5 DEF IInv, Linked
  <2>3. \A j \in Ids : rows'[j].original = rows[j].original
    BY <1>5
  <2> QED
    BY <1>4, <1>5, <2>1, <2>2, <2>3 DEF Linked, LinkedTo, Ids
<1> QED
  BY <1>5, <1>6, <1>7, <1>8 DEF new

LEMMA RevisedPreserves ==
  ASSUME IInv, NEW e \in sent, e.kind = "edit",
         NEW i \in Found(e.about), rows[i].author = e.author,
         Edited(rows', e, i), handled' = handled \cup {e}
  PROVE  /\ RowsTyped' /\ FromText' /\ Linked' /\ Ids \subseteq Ids'
         /\ \A j \in Ids : rows[j].author # e.author => rows'[j] = rows[j]
         /\ \A j \in Ids :
              /\ rows'[j].at = rows[j].at /\ rows'[j].author = rows[j].author
              /\ IF j \in Series(i)
                 THEN rows'[j].original = i /\ rows'[j].latest = NewId
                 ELSE rows'[j] = rows[j]
<1>1. RowsTyped /\ i \in Ids /\ rows[i].original \in {NULL, i}
  BY FindsFirst DEF IInv, TypeOK, RowsTyped
<1>2. e \in Changing
  BY DEF IInv, TypeOK, Envelope, Plain, Changing, Reacting
<1>3. /\ rows' \in Seq(Row) /\ Ids' = Ids \cup {NewId} /\ NewId \notin Ids
      /\ NewId \in Nat \ {0} /\ i \in Nat \ {0}
  <2>1. rows' \in Seq(Row) /\ Ids' = Ids \cup {NewId}
    BY Zenon DEF Edited, Ids
  <2> QED
    BY <1>1, <2>1, IdsFacts
<1>4. \A j \in Ids :
        /\ rows'[j].at = rows[j].at /\ rows'[j].author = rows[j].author
        /\ rows'[j].revision = rows[j].revision
        /\ IF j \in Series(i)
           THEN rows'[j].original = i /\ rows'[j].latest = NewId
           ELSE rows'[j] = rows[j]
  <2> SUFFICES ASSUME NEW j \in Ids
               PROVE  /\ rows'[j].at = rows[j].at /\ rows'[j].author = rows[j].author
                      /\ rows'[j].revision = rows[j].revision
                      /\ IF j \in Series(i)
                         THEN rows'[j].original = i /\ rows'[j].latest = NewId
                         ELSE rows'[j] = rows[j]
    OBVIOUS
  <2>1. rows[j] \in Row
    BY <1>1, IdsFacts
  <2>2. rows'[j] = IF j = i \/ rows[j].original = i
                   THEN [rows[j] EXCEPT !.original = i, !.latest = NewId]
                   ELSE rows[j]
    BY Zenon DEF Edited
  <2>3. j \in Series(i) <=> j = i \/ rows[j].original = i
    BY DEF Series
  <2> QED
    BY <2>1, <2>2, <2>3 DEF Row
<1>5. /\ rows'[NewId].at = e.at /\ rows'[NewId].author = e.author
      /\ rows'[NewId].original = i /\ rows'[NewId].latest = NewId
      /\ rows'[NewId].revision = NextRevision(i)
  <2>1. rows'[NewId] = [at |-> e.at, author |-> e.author, original |-> i, latest |-> NewId,
                        revision |-> NextRevision(i), deleted |-> FALSE]
    BY Zenon DEF Edited
  <2> QED
    BY <2>1
<1>6. \A j \in Ids : j \in Series(i) <=> j = i \/ rows[j].original = i
  BY DEF Series
<1>7. \A j \in Series(i) : j \in Ids /\ rows[j].author = e.author
  BY <1>1, <1>6, IdsFacts DEF IInv, Linked, LinkedTo, Ids, Series
<1>8. RowsTyped'
  BY <1>1, <1>3, <1>4, <1>5 DEF RowsTyped
<1>9. FromText'
  <2> SUFFICES ASSUME NEW j \in Ids'
               PROVE  \E f \in handled' : /\ f.author = rows'[j].author
                                          /\ f.at = rows'[j].at
                                          /\ f.kind = "text" => rows'[j].original \in {NULL, j}
    BY DEF FromText
  <2>1. CASE j = NewId
    BY <1>5, <2>1
  <2>2. CASE j \in Ids
    <3>1. PICK f \in handled : /\ f.author = rows[j].author
                               /\ f.at = rows[j].at
                               /\ f.kind = "text" => rows[j].original \in {NULL, j}
      BY <2>2 DEF IInv, FromText
    <3>2. rows[j].original = i /\ rows[j].original \in {NULL, j} => j = i
      BY <1>1, IdsFacts
    <3> QED
      BY <1>4, <1>6, <2>2, <3>1, <3>2
  <2> QED
    BY <1>3, <2>1, <2>2
<1>10. Linked'
  <2> SUFFICES ASSUME NEW j \in Ids'
               PROVE  IF rows'[j].original = NULL THEN rows'[j].latest = NULL
                      ELSE LinkedTo(rows', j, rows'[j].original)
    BY DEF Linked
  <2>1. i \in Series(i) /\ rows'[i].original = i /\ rows'[i].latest = NewId /\ i # NULL
    BY <1>1, <1>4, <1>6, IdsFacts
  <2>2. CASE j \in Series(i) \/ j = NewId
    <3>1. rows'[j].original = i /\ rows'[j].latest = NewId /\ rows'[j].author = rows'[i].author
      BY <1>1, <1>4, <1>5, <1>7, <2>1, <2>2
    <3>2. j # NewId => rows'[j].revision < rows'[NewId].revision
      BY <1>1, <1>4, <1>5, <1>7, <2>2, NextRevisionIsGreater
    <3> QED
      BY <1>1, <1>3, <1>5, <2>1, <3>1, <3>2 DEF LinkedTo, Ids
  <2>3. CASE j \notin Series(i) /\ j # NewId
    <3>1. j \in Ids /\ rows'[j] = rows[j]
      BY <1>3, <1>4, <2>3
    <3>2. CASE rows[j].original = NULL
      BY <3>1, <3>2 DEF IInv, Linked
    <3>3. CASE rows[j].original # NULL
      <4> DEFINE o == rows[j].original
                 l == rows[o].latest
      <4>1. LinkedTo(rows, j, o) /\ o # i
        BY <1>6, <2>3, <3>1, <3>3 DEF IInv, Linked
      <4>2. o \in Ids /\ rows[o].original = o /\ l \in Ids /\ rows[l].original = o
        BY <4>1 DEF LinkedTo, Ids
      <4>3. o \notin Series(i)
        BY <1>6, <4>1, <4>2
      <4>4. l \notin Series(i)
        BY <1>1, <1>6, <4>1, <4>2, IdsFacts
      <4>5. rows'[o] = rows[o] /\ rows'[l] = rows[l]
        BY <1>4, <4>2, <4>3, <4>4
      <4> QED
        BY <1>3, <3>1, <3>3, <4>1, <4>2, <4>5 DEF LinkedTo, Ids
    <3> QED
      BY <3>2, <3>3
  <2> QED
    BY <2>2, <2>3
<1>11. \A j \in Ids : rows[j].author # e.author => rows'[j] = rows[j]
  BY <1>4, <1>7
<1> QED
  BY <1>3, <1>4, <1>8, <1>9, <1>10, <1>11

\* A row that is blanked keeps its place.
LEMMA BlankPreserves ==
  ASSUME IInv, NEW i \in Ids, Blank(i), handled \subseteq handled'
  PROVE  /\ RowsTyped' /\ FromText' /\ Linked' /\ Ids' = Ids
         /\ \A j \in Ids \ {i} : rows'[j] = rows[j]
         /\ rows'[i] = [rows[i] EXCEPT !.deleted = TRUE]
<1>1. RowsTyped
  BY DEF IInv, TypeOK, RowsTyped
<1>2. rows' = [rows EXCEPT ![i].deleted = TRUE]
  BY DEF Blank
<1>3. Ids' = Ids /\ rows' \in Seq(Row)
  <2>1. rows' = [k \in Ids |-> IF k = i THEN [rows[k] EXCEPT !.deleted = TRUE] ELSE rows[k]]
    BY <1>1, <1>2, IdsFacts DEF Ids
  <2>2. Ids' = Ids
    BY <2>1 DEF Ids
  <2>3. rows' \in [1..Len(rows) -> Row]
    <3> SUFFICES ASSUME NEW k \in Ids
                 PROVE  rows'[k] \in Row
      BY <1>1, <2>1, IdsFacts
    <3>1. rows[k] \in Row /\ [rows[k] EXCEPT !.deleted = TRUE] \in Row
      BY <1>1, IdsFacts DEF Row
    <3> QED
      BY <2>1, <3>1
  <2> QED
    BY <1>1, <2>2, <2>3, IdsFacts
<1>4. \A j \in Ids :
        /\ j # i => rows'[j] = rows[j]
        /\ rows'[j].at = rows[j].at /\ rows'[j].author = rows[j].author
        /\ rows'[j].original = rows[j].original /\ rows'[j].latest = rows[j].latest
        /\ rows'[j].revision = rows[j].revision
  BY <1>1, <1>2, IdsFacts DEF Row, Ids
<1>5. RowsTyped'
  BY <1>1, <1>3, <1>4 DEF RowsTyped
<1>6. FromText'
  BY <1>3, <1>4 DEF IInv, FromText
<1>7. Linked'
  <2>1. \A j, o \in Ids : LinkedTo(rows, j, o) => LinkedTo(rows', j, o)
    BY <1>3, <1>4 DEF LinkedTo, Ids
  <2>2. \A j \in Ids : rows[j].original # NULL => rows[j].original \in Ids
    BY DEF IInv, Linked, LinkedTo, Ids
  <2> QED
    BY <1>3, <1>4, <2>1, <2>2 DEF IInv, Linked
<1>8. rows'[i] = [rows[i] EXCEPT !.deleted = TRUE]
  BY <1>1, <1>2, IdsFacts DEF Ids
<1> QED
  BY <1>3, <1>4, <1>5, <1>6, <1>7, <1>8

-----------------------------------------------------------------------------
(* The steps.                                                              *)

ReactionsTyped ==
  /\ DOMAIN reactions \subseteq Ids \X Authors
  /\ \A r \in DOMAIN reactions : reactions[r] \in Emoji

LEMMA TypeParts ==
  /\ TypeOK <=> sent \subseteq Envelope /\ handled \subseteq sent /\ RowsTyped /\ ReactionsTyped
  /\ TypeOK' <=> /\ sent' \subseteq Envelope /\ handled' \subseteq sent'
                 /\ RowsTyped' /\ ReactionsTyped'
  BY DEF TypeOK, RowsTyped, ReactionsTyped

\* A copy is on the new row, under an author who reacted to row i.
LEMMA CopiesTyped ==
  ASSUME TypeOK, NEW i \in Ids, reactions' = WithCopies(i), Ids' = Ids \cup {NewId}
  PROVE  ReactionsTyped'
<1> DEFINE those == {a \in Authors : <<i, a>> \in DOMAIN reactions}
           copies == {<<NewId, b>> : b \in those}
<1>1. /\ DOMAIN reactions' = DOMAIN reactions \cup copies
      /\ \A r \in DOMAIN reactions' :
           reactions'[r] = IF r \in copies THEN reactions[<<i, r[2]>>] ELSE reactions[r]
  BY DEF WithCopies
<1>2. \A a \in those : a \in Authors /\ <<i, a>> \in DOMAIN reactions
  OBVIOUS
<1> HIDE DEF those
<1>3. \A r \in copies : r \in Ids' \X Authors /\ <<i, r[2]>> \in DOMAIN reactions
  BY <1>2
<1> HIDE DEF copies
<1> QED
  BY <1>1, <1>3 DEF TypeOK, ReactionsTyped

\* An author's envelopes have different times, and his edits name his texts.
LEMMA SendPreserves ==
  ASSUME IInv, EditsOfEdits = FALSE, NEW e \in Envelope, Send(e)
  PROVE  IInv'
<1>1. sent' = sent \cup {e} /\ UNCHANGED <<handled, rows, reactions>>
  BY DEF Send
<1>2. \A f \in sent' : f.at \in Nat
  BY <1>1 DEF IInv, TypeOK, Envelope, Plain, Changing, Reacting, Times
<1>3. \A f \in sent : f.author = e.author => f.at < e.at
  BY DEF Send, SentBy
<1>4. \A f, g \in sent' : f.author = g.author /\ f.at = g.at => f = g
  BY <1>1, <1>2, <1>3 DEF IInv, Sending
<1>5. e.kind = "edit" => \E f \in sent : f.kind = "text" /\ f.author = e.author /\ f.at = e.about
  BY DEF Send, Editable, TimesOf, SentBy
<1>6. Sending'
  BY <1>1, <1>4, <1>5 DEF IInv, Sending
<1>7. TypeOK' /\ FromText' /\ Linked'
  BY <1>1 DEF IInv, TypeOK, FromText, Linked, Ids
<1> QED
  BY <1>6, <1>7 DEF IInv

\* What an envelope changes: handled keeps the rest of the invariant.
LEMMA StepPreserves ==
  ASSUME IInv, NEW e \in sent, Handle(e), RowsTyped', FromText', Linked', ReactionsTyped'
  PROVE  IInv'
<1>1. sent' = sent /\ handled' = handled \cup {e}
  BY DEF Handle
<1>2. Sending'
  BY <1>1 DEF IInv, Sending
<1>3. TypeOK'
  BY <1>1, TypeParts DEF IInv
<1> QED
  BY <1>2, <1>3 DEF IInv

LEMMA HandleNew ==
  ASSUME IInv, NEW e \in sent, e.kind \in {"text", "edit"}, Handle(e), InsertNew(e)
  PROVE  IInv'
<1>1. handled' = handled \cup {e} /\ reactions' = reactions
  BY DEF Handle, InsertNew
<1>2. /\ RowsTyped' /\ FromText' /\ Linked' /\ Ids \subseteq Ids'
      /\ \A j \in Ids : rows'[j] = rows[j]
  BY <1>1, InsertNewPreserves
<1>3. ReactionsTyped'
  BY <1>1, <1>2 DEF IInv, TypeOK, ReactionsTyped
<1> QED
  BY <1>2, <1>3, StepPreserves

LEMMA HandleRevision ==
  ASSUME IInv, NEW e \in sent, e.kind = "edit", Handle(e),
         NEW i \in Found(e.about), rows[i].author = e.author, InsertRevision(e, i)
  PROVE  IInv'
<1>1. handled' = handled \cup {e} /\ rows' = Revised(e, i)
  BY DEF Handle, InsertRevision
<1>2. e \in Changing /\ e.author \in Authors
  BY DEF IInv, TypeOK, Envelope, Plain, Changing, Reacting
<1>3. i \in Ids /\ rows[i].original \in {NULL, i}
  BY FindsFirst
<1>4. Edited(rows', e, i)
  BY <1>1, <1>2, <1>3, RevisedShape
<1>5. /\ RowsTyped' /\ FromText' /\ Linked' /\ Ids \subseteq Ids'
      /\ \A j \in Ids : rows[j].author # e.author => rows'[j] = rows[j]
  BY <1>1, <1>4, RevisedPreserves
<1>6. Ids' = Ids \cup {NewId}
  BY <1>4, Zenon DEF Edited, Ids
<1>7. ReactionsTyped'
  <2>1. CASE reactions' = reactions
    BY <1>5, <2>1 DEF IInv, TypeOK, ReactionsTyped
  <2>2. CASE reactions' = WithCopies(i)
    BY <1>3, <1>6, <2>2, CopiesTyped DEF IInv
  <2> QED
    BY <2>1, <2>2 DEF InsertRevision
<1> QED
  BY <1>5, <1>7, StepPreserves

LEMMA HandleBlank ==
  ASSUME IInv, NEW e \in sent, Handle(e), NEW i \in Ids, Blank(i)
  PROVE  IInv'
<1>1. handled' = handled \cup {e}
  BY DEF Handle
<1>2. /\ RowsTyped' /\ FromText' /\ Linked' /\ Ids' = Ids
      /\ \A j \in Ids \ {i} : rows'[j] = rows[j]
  BY <1>1, BlankPreserves
<1>3. ReactionsTyped'
  BY <1>2 DEF IInv, TypeOK, ReactionsTyped, Blank
<1> QED
  BY <1>2, <1>3, StepPreserves

\* Reactions, and envelopes that are ignored.
LEMMA HandleRest ==
  ASSUME IInv, NEW e \in sent, Handle(e), rows' = rows, ReactionsTyped'
  PROVE  IInv'
<1>1. handled' = handled \cup {e}
  BY DEF Handle
<1>2. RowsTyped' /\ FromText' /\ Linked'
  BY <1>1 DEF IInv, TypeOK, RowsTyped, FromText, Linked, Ids
<1> QED
  BY <1>2, StepPreserves

LEMMA HandlePreserves ==
  ASSUME IInv, NEW e \in sent, Handle(e)
  PROVE  IInv'
<1>0. ReactionsTyped /\ e \in Envelope
  BY DEF IInv, TypeOK, ReactionsTyped
<1>1. CASE HandleText(e)
  BY <1>1, HandleNew DEF HandleText
<1>2. CASE HandleEdit(e)
  <2>1. CASE InsertNew(e)
    BY <1>2, <2>1, HandleNew DEF HandleEdit
  <2>2. CASE ~InsertNew(e)
    <3>1. PICK i \in Found(e.about) : rows[i].author = e.author /\ InsertRevision(e, i)
      BY <1>2, <2>2 DEF HandleEdit
    <3> QED
      BY <1>2, <3>1, HandleRevision DEF HandleEdit
  <2> QED
    BY <2>1, <2>2
<1>3. CASE HandleDelete(e)
  <2>1. CASE UNCHANGED <<rows, reactions>>
    <3>1. ReactionsTyped'
      BY <1>0, <2>1 DEF ReactionsTyped, Ids
    <3> QED
      BY <2>1, <3>1, HandleRest
  <2>2. CASE ~UNCHANGED <<rows, reactions>>
    <3>1. PICK i \in Found(e.about) : (e.author = Own \/ rows[i].author = e.author) /\ Blank(i)
      BY <1>3, <2>2 DEF HandleDelete
    <3> QED
      BY <3>1, HandleBlank DEF Found
  <2> QED
    BY <2>1, <2>2
<1>4. CASE HandleReaction(e)
  <2>1. rows' = rows /\ Ids' = Ids
    BY <1>4 DEF HandleReaction, Ids
  <2>2. ReactionsTyped'
    <3>1. CASE reactions' = reactions
      BY <1>0, <2>1, <3>1 DEF ReactionsTyped
    <3>2. CASE reactions' # reactions
      <4>1. PICK i \in Found(e.about) :
              reactions' =
                IF e.kind = "react"
                THEN [r \in DOMAIN reactions \cup {<<i, e.author>>} |->
                        IF r = <<i, e.author>> THEN e.emoji ELSE reactions[r]]
                ELSE [r \in DOMAIN reactions \ {<<i, e.author>>} |-> reactions[r]]
        BY <1>4, <3>2 DEF HandleReaction
      <4>2. <<i, e.author>> \in Ids \X Authors
        BY <1>0 DEF Found, Envelope, Plain, Changing, Reacting
      <4>3. e.kind = "react" => e.emoji \in Emoji
        BY <1>0 DEF Envelope, Plain, Changing, Reacting
      <4> QED
        BY <1>0, <2>1, <4>1, <4>2, <4>3 DEF ReactionsTyped
    <3> QED
      BY <3>1, <3>2
  <2> QED
    BY <2>1, <2>2, HandleRest
<1> QED
  BY <1>1, <1>2, <1>3, <1>4 DEF Handle

-----------------------------------------------------------------------------
(* Reactions.  A row keeps its time and its first row, and a copy of a      *)
(* reaction is about the same first row as the reaction.                    *)

\* Some envelope put emoji x on row i, or on a row with the same first row.
Reacted(i, a, x) ==
  \E e \in handled :
    /\ e.kind = "react" /\ e.author = a /\ e.emoji = x
    /\ \E j \in Found(e.about) : Orig(j) = Orig(i)

\* The rows that are there keep what Reacted reads.
PlacesStay ==
  /\ Ids \subseteq Ids' /\ handled \subseteq handled'
  /\ \A j \in Ids : rows'[j].at = rows[j].at /\ Orig(j)' = Orig(j)

LEMMA ReactedStays ==
  ASSUME PlacesStay, NEW i \in Ids, NEW k \in Ids', Orig(k)' = Orig(i),
         NEW a, NEW x, Reacted(i, a, x)
  PROVE  \E e \in handled' :
           /\ e.kind = "react" /\ e.author = a /\ e.emoji = x
           /\ \E j \in Ids' : rows'[j].at = e.about /\ Orig(j)' = Orig(k)'
<1>1. PICK e \in handled, j \in Ids :
        /\ e.kind = "react" /\ e.author = a /\ e.emoji = x
        /\ rows[j].at = e.about /\ Orig(j) = Orig(i)
  BY DEF Reacted, Found
<1>2. j \in Ids' /\ rows'[j].at = e.about /\ Orig(j)' = Orig(k)' /\ e \in handled'
  BY <1>1 DEF PlacesStay
<1> QED
  BY <1>1, <1>2

\* It is enough that each reaction after the step was there before it, with the
\* same first row, or is the one that the envelope brings.
LEMMA ReactionsCarried ==
  ASSUME TypeOK, ReactionsWereSent, PlacesStay,
         \A r \in DOMAIN reactions' : r[1] \in Ids',
         \A r \in DOMAIN reactions' :
           \/ \E q \in DOMAIN reactions :
                q[2] = r[2] /\ reactions[q] = reactions'[r] /\ Orig(r[1])' = Orig(q[1])
           \/ \E e \in handled' :
                /\ e.kind = "react" /\ e.author = r[2] /\ e.emoji = reactions'[r]
                /\ r[1] \in Ids' /\ rows'[r[1]].at = e.about
  PROVE  ReactionsWereSent'
<1> SUFFICES ASSUME NEW r \in DOMAIN reactions'
             PROVE  \E e \in handled' :
                      /\ e.kind = "react" /\ e.author = r[2] /\ e.emoji = reactions'[r]
                      /\ \E j \in Ids' : rows'[j].at = e.about /\ Orig(j)' = Orig(r[1])'
  BY DEF ReactionsWereSent, Found
<1>1. ASSUME NEW q \in DOMAIN reactions,
             q[2] = r[2], reactions[q] = reactions'[r], Orig(r[1])' = Orig(q[1])
      PROVE  \E e \in handled' :
                      /\ e.kind = "react" /\ e.author = r[2] /\ e.emoji = reactions'[r]
                      /\ \E j \in Ids' : rows'[j].at = e.about /\ Orig(j)' = Orig(r[1])'
  <2>1. q[1] \in Ids
    BY DEF TypeOK
  <2>2. Reacted(q[1], q[2], reactions[q])
    BY DEF ReactionsWereSent, Reacted
  <2> QED
    BY <1>1, <2>1, <2>2, ReactedStays
<1> QED
  BY <1>1

\* A step that leaves rows where they are.
LEMMA SameRows ==
  ASSUME Ids' = Ids, handled \subseteq handled',
         \A j \in Ids : rows'[j].at = rows[j].at /\ rows'[j].original = rows[j].original
  PROVE  PlacesStay
  BY DEF PlacesStay, Orig

LEMMA RevisionKeepsPlaces ==
  ASSUME IInv, NEW e \in sent, e.kind = "edit",
         NEW i \in Found(e.about), rows[i].author = e.author,
         rows' = Revised(e, i), handled \subseteq handled'
  PROVE  /\ PlacesStay /\ Ids' = Ids \cup {NewId} /\ NewId \notin Ids
         /\ \A k \in Ids' \ Ids : Orig(k)' = Orig(i)
<1>1. e \in Changing /\ RowsTyped
  BY DEF IInv, TypeOK, RowsTyped, Envelope, Plain, Changing, Reacting
<1>2. i \in Ids /\ rows[i].original \in {NULL, i} /\ Orig(i) = i /\ i # NULL
  BY <1>1, FindsFirst, IdsFacts
<1>3. Edited(rows', e, i)
  BY <1>1, <1>2, RevisedShape
<1>4. Ids' = Ids \cup {NewId}
  BY <1>3, Zenon DEF Edited, Ids
<1>5. rows'[NewId].original = i
  <2>1. rows'[NewId] = [at |-> e.at, author |-> e.author, original |-> i, latest |-> NewId,
                        revision |-> NextRevision(i), deleted |-> FALSE]
    BY <1>3, Zenon DEF Edited
  <2> QED
    BY <2>1
<1>6. ASSUME NEW j \in Ids
      PROVE  rows'[j].at = rows[j].at /\ Orig(j)' = Orig(j)
  <2>1. rows[j] \in Row
    BY <1>1, IdsFacts
  <2>2. rows'[j] = IF j = i \/ rows[j].original = i
                   THEN [rows[j] EXCEPT !.original = i, !.latest = NewId]
                   ELSE rows[j]
    BY <1>3, Zenon DEF Edited
  <2>3. /\ rows'[j].at = rows[j].at
        /\ rows'[j].original = IF j = i \/ rows[j].original = i THEN i ELSE rows[j].original
    BY <2>1, <2>2 DEF Row
  <2> QED
    BY <1>2, <2>3 DEF Orig
<1>7. \A k \in Ids' \ Ids : rows'[k].original = i
  BY <1>4, <1>5
<1>8. \A k \in Ids' \ Ids : Orig(k)' = Orig(i)
  BY <1>2, <1>7 DEF Orig
<1> QED
  BY <1>1, <1>4, <1>6, <1>8, IdsFacts DEF PlacesStay

LEMMA NewRowKeepsPlaces ==
  ASSUME IInv, NEW e \in sent, InsertNew(e), e.kind \in {"text", "edit"},
         handled' = handled \cup {e}
  PROVE  PlacesStay
  BY InsertNewPreserves DEF PlacesStay, Orig

LEMMA CopiesCarried ==
  ASSUME IInv, ReactionsWereSent, NEW e \in sent, e.kind = "edit",
         NEW i \in Found(e.about), rows[i].author = e.author,
         rows' = Revised(e, i), handled \subseteq handled', reactions' = WithCopies(i),
         IInv'
  PROVE  ReactionsWereSent'
<1>1. /\ PlacesStay /\ Ids' = Ids \cup {NewId} /\ NewId \notin Ids
      /\ \A k \in Ids' \ Ids : Orig(k)' = Orig(i)
  BY RevisionKeepsPlaces
<1> DEFINE those == {a \in Authors : <<i, a>> \in DOMAIN reactions}
           copies == {<<NewId, b>> : b \in those}
<1>2. /\ DOMAIN reactions' = DOMAIN reactions \cup copies
      /\ \A r \in DOMAIN reactions' :
           reactions'[r] = IF r \in copies THEN reactions[<<i, r[2]>>] ELSE reactions[r]
  BY DEF WithCopies
<1>3. \A a \in those : <<i, a>> \in DOMAIN reactions
  OBVIOUS
<1>4. DOMAIN reactions \subseteq Ids \X Authors
  BY DEF IInv, TypeOK
<1> HIDE DEF those
<1>5. \A r \in copies : r[1] = NewId /\ <<i, r[2]>> \in DOMAIN reactions
  BY <1>3
<1> HIDE DEF copies
<1>6. ASSUME NEW r \in DOMAIN reactions'
      PROVE  \E q \in DOMAIN reactions :
               q[2] = r[2] /\ reactions[q] = reactions'[r] /\ Orig(r[1])' = Orig(q[1])
  <2>1. CASE r \in copies
    <3> DEFINE q == <<i, r[2]>>
    <3>1. q \in DOMAIN reactions /\ q[2] = r[2] /\ q[1] = i /\ reactions[q] = reactions'[r]
      BY <1>2, <1>5, <2>1
    <3>2. Orig(r[1])' = Orig(i)
      BY <1>1, <1>5, <2>1
    <3> QED
      BY <3>1, <3>2
  <2>2. CASE r \notin copies
    <3>1. r \in DOMAIN reactions /\ reactions'[r] = reactions[r] /\ r[1] \in Ids
      BY <1>2, <1>4, <2>2
    <3> QED
      BY <1>1, <3>1 DEF PlacesStay
  <2> QED
    BY <2>1, <2>2
<1>7. \A r \in DOMAIN reactions' : r[1] \in Ids'
  BY DEF IInv, TypeOK
<1> QED
  BY <1>1, <1>6, <1>7, ReactionsCarried DEF IInv

LEMMA HandleCarries ==
  ASSUME IInv, ReactionsWereSent, NEW e \in sent, Handle(e)
  PROVE  ReactionsWereSent'
<1>1. handled' = handled \cup {e} /\ IInv'
  BY HandlePreserves DEF Handle
<1>2. \A r \in DOMAIN reactions' : r[1] \in Ids'
  BY <1>1 DEF IInv, TypeOK
<1>3. ASSUME PlacesStay, reactions' = reactions
      PROVE  ReactionsWereSent'
  <2>1. \A r \in DOMAIN reactions : r[1] \in Ids
    BY DEF IInv, TypeOK
  <2>2. \A r \in DOMAIN reactions' :
          \E q \in DOMAIN reactions :
            q[2] = r[2] /\ reactions[q] = reactions'[r] /\ Orig(r[1])' = Orig(q[1])
    BY <1>3, <2>1 DEF PlacesStay
  <2> QED
    BY <1>2, <1>3, <2>2, ReactionsCarried DEF IInv
<1>4. rows' = rows => PlacesStay
  BY <1>1, SameRows DEF Ids
<1>5. CASE HandleText(e)
  BY <1>1, <1>3, <1>5, NewRowKeepsPlaces DEF HandleText, InsertNew
<1>6. CASE HandleEdit(e)
  <2>1. CASE InsertNew(e)
    BY <1>1, <1>3, <1>6, <2>1, NewRowKeepsPlaces DEF HandleEdit, InsertNew
  <2>2. CASE ~InsertNew(e)
    <3>1. PICK i \in Found(e.about) : rows[i].author = e.author /\ InsertRevision(e, i)
      BY <1>6, <2>2 DEF HandleEdit
    <3>2. e.kind = "edit" /\ handled \subseteq handled' /\ rows' = Revised(e, i)
      BY <1>1, <1>6, <3>1 DEF HandleEdit, InsertRevision
    <3>3. CASE reactions' = reactions
      BY <1>3, <3>1, <3>2, <3>3, RevisionKeepsPlaces
    <3>4. CASE reactions' = WithCopies(i)
      BY <1>1, <3>1, <3>2, <3>4, CopiesCarried
    <3> QED
      BY <3>1, <3>3, <3>4 DEF InsertRevision
  <2> QED
    BY <2>1, <2>2
<1>7. CASE HandleDelete(e)
  <2>1. CASE UNCHANGED <<rows, reactions>>
    BY <1>3, <1>4, <2>1
  <2>2. CASE ~UNCHANGED <<rows, reactions>>
    <3>1. PICK i \in Ids : Blank(i)
      BY <1>7, <2>2 DEF HandleDelete, Found
    <3>2. PlacesStay
      <4>1. RowsTyped /\ Ids' = Ids
        BY <1>1, <3>1, BlankPreserves DEF IInv, TypeOK, RowsTyped
      <4>2. \A j \in Ids : rows'[j].at = rows[j].at /\ rows'[j].original = rows[j].original
        BY <3>1, <4>1, IdsFacts DEF Blank, Row, Ids
      <4> QED
        BY <1>1, <4>1, <4>2, SameRows
    <3>3. \A r \in DOMAIN reactions' :
            r \in DOMAIN reactions /\ reactions'[r] = reactions[r] /\ r[1] \in Ids
      BY <3>1 DEF Blank, IInv, TypeOK
    <3>4. \A r \in DOMAIN reactions' :
            \E q \in DOMAIN reactions :
              q[2] = r[2] /\ reactions[q] = reactions'[r] /\ Orig(r[1])' = Orig(q[1])
      BY <3>2, <3>3 DEF PlacesStay
    <3> QED
      BY <1>2, <3>2, <3>4, ReactionsCarried DEF IInv
  <2> QED
    BY <2>1, <2>2
<1>8. CASE HandleReaction(e)
  <2>1. PlacesStay
    BY <1>4, <1>8 DEF HandleReaction
  <2>2. CASE reactions' = reactions
    BY <1>3, <2>1, <2>2
  <2>3. CASE reactions' # reactions
    <3>1. PICK i \in Found(e.about) :
            reactions' =
              IF e.kind = "react"
              THEN [r \in DOMAIN reactions \cup {<<i, e.author>>} |->
                      IF r = <<i, e.author>> THEN e.emoji ELSE reactions[r]]
              ELSE [r \in DOMAIN reactions \ {<<i, e.author>>} |-> reactions[r]]
      BY <1>8, <2>3 DEF HandleReaction
    <3> DEFINE key == <<i, e.author>>
    <3>2. i \in Ids' /\ rows'[i].at = e.about /\ e \in handled' /\ key[1] = i /\ key[2] = e.author
      BY <1>1, <1>8 DEF HandleReaction, Found, Ids
    <3>3. \A r \in DOMAIN reactions' :
            \/ r \in DOMAIN reactions /\ reactions'[r] = reactions[r]
            \/ r = key /\ e.kind = "react" /\ reactions'[r] = e.emoji
      BY <3>1
    <3> HIDE DEF key
    <3>4. \A r \in DOMAIN reactions : r[1] \in Ids
      BY DEF IInv, TypeOK
    <3>5. \A r \in DOMAIN reactions' :
            \/ \E q \in DOMAIN reactions :
                 q[2] = r[2] /\ reactions[q] = reactions'[r] /\ Orig(r[1])' = Orig(q[1])
            \/ \E f \in handled' :
                 /\ f.kind = "react" /\ f.author = r[2] /\ f.emoji = reactions'[r]
                 /\ r[1] \in Ids' /\ rows'[r[1]].at = f.about
      BY <2>1, <3>2, <3>3, <3>4 DEF PlacesStay
    <3> QED
      BY <1>2, <2>1, <3>5, ReactionsCarried DEF IInv
  <2> QED
    BY <2>2, <2>3
<1> QED
  BY <1>5, <1>6, <1>7, <1>8 DEF Handle

-----------------------------------------------------------------------------
(* The page.  A row is known by its author and time, and comes from a text *)
(* or an edit of that author, so that an entry of the page is one row's.   *)

Sourced ==
  \A i \in Ids : \E f \in handled :
    f.kind \in {"text", "edit"} /\ f.author = rows[i].author /\ f.at = rows[i].at

Distinct ==
  \A i, j \in Ids : rows[i].author = rows[j].author /\ rows[i].at = rows[j].at => i = j

PageInv == IInv /\ Sourced /\ Distinct

LEMMA FirstRow ==
  ASSUME IInv, NEW i \in Ids
  PROVE  Orig(i) \in Ids /\ rows[Orig(i)].author = rows[i].author
<1>1. NULL \notin Ids
  BY IdsFacts DEF IInv, TypeOK, RowsTyped
<1> QED
  BY <1>1 DEF IInv, Linked, LinkedTo, Orig, Ids

\* Of an author's rows none has the time of an envelope that is yet to be handled.
LEMMA NewSource ==
  ASSUME PageInv, NEW e \in sent \ handled, e.kind \in {"text", "edit"},
         handled' = handled \cup {e}, NEW n, Ids' = Ids \cup {n},
         \A j \in Ids : rows'[j].at = rows[j].at /\ rows'[j].author = rows[j].author,
         rows'[n].at = e.at, rows'[n].author = e.author
  PROVE  /\ Sourced' /\ Distinct'
         /\ \A j \in Ids : rows[j].author = e.author => rows[j].at # e.at
<1>1. ASSUME NEW j \in Ids, rows[j].author = e.author, rows[j].at = e.at
      PROVE  FALSE
  <2>1. PICK f \in handled : f.author = e.author /\ f.at = e.at
    BY <1>1 DEF PageInv, Sourced
  <2>2. f \in sent
    BY DEF PageInv, IInv, TypeOK
  <2> QED
    BY <2>1, <2>2 DEF PageInv, IInv, Sending
<1>2. Sourced'
  BY DEF PageInv, Sourced
<1>3. Distinct'
  BY <1>1 DEF PageInv, Distinct
<1> QED
  BY <1>1, <1>2, <1>3

\* Two rows of one time are of two authors.
LEMMA SameTime ==
  ASSUME PageInv, NEW i \in Ids, NEW j \in Ids, i # j, NEW t, rows[i].at = t, rows[j].at = t
  PROVE  Promise!Ambiguous(t)
<1>1. rows[i].author # rows[j].author
  BY DEF PageInv, Distinct
<1>2. PICK f \in handled : f.kind \in {"text", "edit"} /\ f.author = rows[i].author /\ f.at = t
  BY DEF PageInv, Sourced
<1>3. PICK g \in handled : g.kind \in {"text", "edit"} /\ g.author = rows[j].author /\ g.at = t
  BY DEF PageInv, Sourced
<1> QED
  BY <1>1, <1>2, <1>3 DEF Promise!Ambiguous

LEMMA NewAppears ==
  ASSUME PageInv, NEW e \in sent \ handled, e.kind \in {"text", "edit"}, InsertNew(e),
         handled' = handled \cup {e}
  PROVE  Promise!Appear(e) /\ Sourced' /\ Distinct'
<1> DEFINE new == [author |-> e.author, first |-> e.at, at |-> e.at, deleted |-> FALSE]
<1>0. PICK n : n = NewId
  OBVIOUS
<1>1. /\ Ids' = Ids \cup {n} /\ rows'[n] = NewRow(e, NULL, 0)
      /\ \A j \in Ids : rows'[j] = rows[j]
  BY <1>0, InsertNewPreserves DEF PageInv
<1>2. /\ rows'[n].at = e.at /\ rows'[n].author = e.author
      /\ rows'[n].original = NULL /\ rows'[n].latest = NULL
      /\ rows'[n].deleted = FALSE
  BY <1>1 DEF NewRow
<1>3. /\ Sourced' /\ Distinct'
      /\ \A j \in Ids : rows[j].author = e.author => rows[j].at # e.at
  BY <1>1, <1>2, NewSource
<1>4. \A j \in Ids : Orig(j) \in Ids /\ rows[Orig(j)].author = rows[j].author
  BY FirstRow DEF PageInv
<1>5. \A m \in Screen : m.author = e.author => e.at \notin {m.first, m.at}
  BY <1>3, <1>4 DEF Screen, Entry
<1>6. \A j \in Ids : Entry(j)' = Entry(j) /\ (Shown(j)' <=> Shown(j))
  <2> SUFFICES ASSUME NEW j \in Ids
               PROVE  Entry(j)' = Entry(j) /\ (Shown(j)' <=> Shown(j))
    OBVIOUS
  <2>1. rows'[j] = rows[j] /\ Orig(j)' = Orig(j) /\ rows'[Orig(j)] = rows[Orig(j)]
    BY <1>1, <1>4 DEF Orig
  <2> QED
    BY <2>1 DEF Entry, Shown
<1>7. Entry(n)' = new /\ Shown(n)'
  <2>1. Orig(n)' = n
    BY <1>2 DEF Orig
  <2> QED
    BY <1>2, <2>1 DEF Entry, Shown
<1>8. Screen' = Screen \cup {new}
  BY <1>1, <1>6, <1>7 DEF Screen
<1> QED
  BY <1>3, <1>5, <1>8 DEF Promise!Appear, Promise!Message

\* A row that is shown makes way for another, or for itself, changed.
LEMMA EntryReplaced ==
  ASSUME PageInv, NEW k \in Ids, Shown(k), NEW n, n = k \/ n \notin Ids,
         Ids' = Ids \cup {n}, Shown(n)', n # k => ~Shown(k)',
         \A j \in Ids \ {k} : Shown(j)' <=> Shown(j),
         \A j \in Ids \ {k} : Shown(j) => Entry(j)' = Entry(j)
  PROVE  Screen' = (Screen \ {Entry(k)}) \cup {Entry(n)'}
<1>1. \A j \in Ids \ {k} : Entry(j) # Entry(k)
  BY DEF PageInv, Distinct, Entry
<1>2. ASSUME NEW x \in Screen'
      PROVE  x \in (Screen \ {Entry(k)}) \cup {Entry(n)'}
  <2>1. PICK j \in Ids' : Shown(j)' /\ x = Entry(j)'
    BY DEF Screen
  <2>2. CASE j = n
    BY <2>1, <2>2
  <2>3. CASE j # n
    <3>1. j \in Ids \ {k}
      BY <2>1, <2>3
    <3>2. x = Entry(j) /\ Shown(j)
      BY <2>1, <3>1
    <3> QED
      BY <1>1, <3>1, <3>2 DEF Screen
  <2> QED
    BY <2>2, <2>3
<1>3. ASSUME NEW x \in (Screen \ {Entry(k)}) \cup {Entry(n)'}
      PROVE  x \in Screen'
  <2>1. CASE x = Entry(n)'
    BY <2>1 DEF Screen
  <2>2. CASE x \in Screen /\ x # Entry(k)
    <3>1. PICK j \in Ids : Shown(j) /\ x = Entry(j)
      BY <2>2 DEF Screen
    <3>2. j \in Ids \ {k} /\ Shown(j)' /\ x = Entry(j)'
      BY <2>2, <3>1
    <3> QED
      BY <3>2 DEF Screen
  <2> QED
    BY <2>1, <2>2
<1> QED
  BY <1>2, <1>3

\* Of the rows of a message that was edited, or not yet, one is shown.
LEMMA ShownOfSeries ==
  ASSUME IInv, NEW i \in Ids, rows[i].original \in {NULL, i}
  PROVE  \E k \in Series(i) :
           /\ Shown(k) /\ Orig(k) = i /\ rows[k].author = rows[i].author
           /\ \A j \in Series(i) : Shown(j) => j = k
<1>1. NULL \notin Ids
  BY IdsFacts DEF IInv, TypeOK, RowsTyped
<1>2. CASE rows[i].original = NULL
  <2>1. \A j \in Series(i) : j = i
    BY <1>1, <1>2 DEF Series, IInv, Linked, LinkedTo
  <2>2. i \in Series(i) /\ Shown(i) /\ Orig(i) = i
    BY <1>2 DEF Series, Shown, Orig, IInv, Linked
  <2> QED
    BY <2>1, <2>2
<1>3. CASE rows[i].original = i
  <2> DEFINE k == rows[i].latest
  <2>1. \A j \in Series(i) : j \in Ids /\ rows[j].original = i
    BY <1>3 DEF Series
  <2>2. \A j \in Series(i) : LinkedTo(rows, j, i)
    BY <1>1, <2>1 DEF IInv, Linked
  <2>3. k \in Series(i)
    <3>1. LinkedTo(rows, i, i)
      BY <1>1, <1>3 DEF IInv, Linked
    <3> QED
      BY <3>1 DEF LinkedTo, Series, Ids
  <2>4. \A j \in Series(i) : rows[j].latest = k /\ rows[j].author = rows[i].author
    BY <2>2 DEF LinkedTo
  <2>5. \A j \in Series(i) : Shown(j) <=> j = k
    BY <1>1, <2>3, <2>4 DEF Shown, Series
  <2>6. Orig(k) = i
    BY <1>1, <2>1, <2>3 DEF Orig
  <2> QED
    BY <2>3, <2>4, <2>5, <2>6
<1> QED
  BY <1>2, <1>3

LEMMA EditReplaces ==
  ASSUME PageInv, NEW e \in sent \ handled, e.kind = "edit",
         NEW i \in Found(e.about), rows[i].author = e.author,
         rows' = Revised(e, i), handled' = handled \cup {e}
  PROVE  /\ Sourced' /\ Distinct'
         /\ \E m \in Promise!Editable(e) :
              Promise!Replace(m, Promise!Message(m.author, m.first, e.at, FALSE))
<1>0. PICK n : n = NewId
  OBVIOUS
<1>1. IInv /\ RowsTyped /\ e \in Changing
  BY DEF PageInv, IInv, TypeOK, RowsTyped, Envelope, Plain, Changing, Reacting
<1>2. /\ i \in Ids /\ rows[i].original \in {NULL, i} /\ Orig(i) = i /\ i # NULL
      /\ rows[i].at = e.about
  BY <1>1, FindsFirst, IdsFacts DEF Found
<1>3. Edited(rows', e, i)
  BY <1>1, <1>2, RevisedShape
<1>4. /\ Ids' = Ids \cup {n} /\ n \notin Ids
      /\ rows'[n] = [at |-> e.at, author |-> e.author, original |-> i, latest |-> n,
                     revision |-> NextRevision(i), deleted |-> FALSE]
  <2>1. Ids' = Ids \cup {NewId}
    BY <1>3, Zenon DEF Edited, Ids
  <2>2. rows'[NewId] = [at |-> e.at, author |-> e.author, original |-> i, latest |-> NewId,
                        revision |-> NextRevision(i), deleted |-> FALSE]
    BY <1>3, Zenon DEF Edited
  <2> QED
    BY <1>0, <1>1, <2>1, <2>2, IdsFacts
<1>5. /\ rows'[n].at = e.at /\ rows'[n].author = e.author /\ rows'[n].original = i
      /\ rows'[n].latest = n /\ rows'[n].deleted = FALSE
  BY <1>4
<1>6. \A j \in Ids :
        /\ rows'[j].at = rows[j].at /\ rows'[j].author = rows[j].author
        /\ IF j \in Series(i) THEN rows'[j].latest = n ELSE rows'[j] = rows[j]
  BY <1>0, <1>1, <1>3, RevisedPreserves
<1>7. Sourced' /\ Distinct'
  BY <1>4, <1>5, <1>6, NewSource
<1>8. PlacesStay
  BY <1>1, RevisionKeepsPlaces
<1>9. PICK k \in Series(i) :
        /\ Shown(k) /\ Orig(k) = i /\ rows[k].author = rows[i].author
        /\ \A j \in Series(i) : Shown(j) => j = k
  BY <1>1, <1>2, ShownOfSeries
<1>10. k \in Ids
  BY DEF Series
<1>11. \A j \in Series(i) : j \in Ids /\ ~Shown(j)'
  BY <1>0, <1>1, <1>2, <1>4, <1>6, IdsFacts DEF Shown, Series, NULL
<1>12. ASSUME NEW j \in Ids \ {k}
       PROVE  (Shown(j)' <=> Shown(j)) /\ (Shown(j) => Entry(j)' = Entry(j))
  <2>1. CASE j \in Series(i)
    BY <1>9, <1>11, <2>1
  <2>2. CASE j \notin Series(i)
    <3>1. rows'[j] = rows[j]
      BY <1>6, <2>2
    <3>2. Orig(j) \in Ids
      BY <1>1, FirstRow
    <3>3. Orig(j)' = Orig(j) /\ rows'[Orig(j)].at = rows[Orig(j)].at
      BY <1>8, <3>2 DEF PlacesStay
    <3> QED
      BY <3>1, <3>3 DEF Entry, Shown
  <2> QED
    BY <2>1, <2>2
<1>13. Shown(n)' /\ ~Shown(k)'
  BY <1>5, <1>9, <1>11 DEF Shown
<1>14. Screen' = (Screen \ {Entry(k)}) \cup {Entry(n)'}
  BY <1>4, <1>9, <1>10, <1>12, <1>13, EntryReplaced
<1>15. Entry(k) \in Promise!Editable(e)
  BY <1>2, <1>9, <1>10 DEF Promise!Editable, Screen, Entry
<1>16. Entry(n)' = Promise!Message(Entry(k).author, Entry(k).first, e.at, FALSE)
  <2>1. Orig(n)' = i /\ rows'[i].at = rows[i].at
    BY <1>2, <1>5, <1>6 DEF Orig
  <2> QED
    BY <1>5, <1>9, <2>1 DEF Entry, Promise!Message
<1> QED
  BY <1>7, <1>14, <1>15, <1>16 DEF Promise!Replace

LEMMA BlankReplaces ==
  ASSUME PageInv, NEW i \in Ids, Blank(i), handled \subseteq handled'
  PROVE  /\ Sourced' /\ Distinct'
         /\ Shown(i) => LET m == Entry(i)
                        IN  Promise!Replace(m, Promise!Message(m.author, m.first, m.at, TRUE))
         /\ ~Shown(i) => UNCHANGED Screen
<1>1. /\ Ids' = Ids /\ \A j \in Ids \ {i} : rows'[j] = rows[j]
      /\ rows'[i] = [rows[i] EXCEPT !.deleted = TRUE]
  BY BlankPreserves DEF PageInv
<1>2. rows[i] \in Row
  BY IdsFacts DEF PageInv, IInv, TypeOK, RowsTyped
<1>3. /\ rows'[i].at = rows[i].at /\ rows'[i].author = rows[i].author
      /\ rows'[i].original = rows[i].original /\ rows'[i].latest = rows[i].latest
      /\ rows'[i].deleted = TRUE
  BY <1>1, <1>2 DEF Row
<1>4. \A j \in Ids :
        /\ rows'[j].at = rows[j].at /\ rows'[j].author = rows[j].author
        /\ rows'[j].original = rows[j].original /\ rows'[j].latest = rows[j].latest
        /\ j # i => rows'[j].deleted = rows[j].deleted
  BY <1>1, <1>3
<1>5. Sourced' /\ Distinct'
  BY <1>1, <1>4 DEF PageInv, Sourced, Distinct
<1>6. \A j \in Ids : Orig(j) \in Ids /\ Orig(j)' = Orig(j) /\ (Shown(j)' <=> Shown(j))
  BY <1>4, FirstRow DEF Orig, Shown, PageInv
<1>7. \A j \in Ids \ {i} : Entry(j)' = Entry(j)
  BY <1>4, <1>6 DEF Entry
<1>8. Entry(i)' = Promise!Message(Entry(i).author, Entry(i).first, Entry(i).at, TRUE)
  BY <1>3, <1>4, <1>6 DEF Entry, Promise!Message
<1>9. Shown(i) => Screen' = (Screen \ {Entry(i)}) \cup {Entry(i)'}
  BY <1>1, <1>6, <1>7, EntryReplaced
<1>10. ~Shown(i) => Screen' = Screen
  BY <1>1, <1>6, <1>7 DEF Screen
<1> QED
  BY <1>5, <1>8, <1>9, <1>10 DEF Promise!Replace

\* Every envelope that is handled does to the page what Conversation says.
LEMMA HandleFollows ==
  ASSUME PageInv, NEW e \in sent, Handle(e)
  PROVE  PageInv' /\ Promise!Hear(e)
<1>1. /\ handled' = handled \cup {e} /\ e \in sent \ handled /\ IInv' /\ IInv
      /\ \A i \in Ids : Orig(i) \in Ids /\ rows[Orig(i)].author = rows[i].author
  BY HandlePreserves, FirstRow DEF Handle, PageInv
<1>2. ASSUME Sourced' /\ Distinct',
             \/ Promise!Write(e) \/ Promise!Edit(e) \/ Promise!Delete(e) \/ Promise!React(e)
      PROVE  PageInv' /\ Promise!Hear(e)
  BY <1>1, <1>2 DEF PageInv, Promise!Hear
<1>3. ASSUME rows' = rows
      PROVE  Sourced' /\ Distinct' /\ UNCHANGED Screen
  BY <1>1, <1>3 DEF PageInv, Sourced, Distinct, Screen, Entry, Shown, Orig, Ids
<1>4. CASE HandleText(e)
  <2>1. Promise!Appear(e) /\ Sourced' /\ Distinct'
    BY <1>1, <1>4, NewAppears DEF HandleText
  <2> QED
    BY <1>2, <1>4, <2>1 DEF HandleText, Promise!Write
\* The edit finds the version shown, or no row of its author, or the row of
\* another author with the same time.
<1>5. CASE HandleEdit(e)
  <2>1. CASE ~ \E i \in Found(e.about) : rows[i].author = e.author /\ InsertRevision(e, i)
    <3>1. Promise!Appear(e) /\ Sourced' /\ Distinct'
      BY <1>1, <1>5, <2>1, NewAppears DEF HandleEdit
    <3>2. ASSUME NEW m \in Promise!Editable(e)
          PROVE  Promise!Ambiguous(e.about)
      <4>1. PICK k \in Ids : rows[k].author = e.author /\ rows[Orig(k)].at = e.about
        BY DEF Promise!Editable, Screen, Entry
      <4>2. Orig(k) \in Found(e.about) /\ rows[Orig(k)].author = e.author
        BY <1>1, <4>1 DEF Found
      <4>3. PICK i \in Found(e.about) : rows[i].author # e.author
        BY <1>5, <2>1, <4>2 DEF HandleEdit
      <4> QED
        BY <4>2, <4>3, SameTime DEF Found
    <3> QED
      BY <1>2, <1>5, <3>1, <3>2 DEF HandleEdit, Promise!Edit
  <2>2. CASE \E i \in Found(e.about) : rows[i].author = e.author /\ InsertRevision(e, i)
    <3>1. PICK i \in Found(e.about) : rows[i].author = e.author /\ rows' = Revised(e, i)
      BY <2>2 DEF InsertRevision
    <3>2. /\ Sourced' /\ Distinct'
          /\ \E m \in Promise!Editable(e) :
               Promise!Replace(m, Promise!Message(m.author, m.first, e.at, FALSE))
      BY <1>1, <1>5, <3>1, EditReplaces DEF HandleEdit
    <3> QED
      BY <1>2, <1>5, <3>2 DEF HandleEdit, Promise!Edit
  <2> QED
    BY <2>1, <2>2
\* The delete finds what it names, or no row, or another author's.
<1>6. CASE HandleDelete(e)
  <2>1. ASSUME NEW i \in Found(e.about), NEW m \in Promise!Deletable(e),
               ~(Shown(i) /\ m = Entry(i))
        PROVE  Promise!Ambiguous(e.about)
    <3>1. PICK k \in Ids : Shown(k) /\ m = Entry(k) /\ rows[k].at = e.about
      BY DEF Promise!Deletable, Screen, Entry
    <3> QED
      BY <2>1, <3>1, SameTime DEF Found
  <2>2. CASE \E i \in Found(e.about) : (e.author = Own \/ rows[i].author = e.author) /\ Blank(i)
    <3>1. PICK i \in Found(e.about) : (e.author = Own \/ rows[i].author = e.author) /\ Blank(i)
      BY <2>2
    <3>2. i \in Ids /\ rows[i].at = e.about
      BY DEF Found
    <3>3. /\ Sourced' /\ Distinct'
          /\ Shown(i) => LET m == Entry(i)
                         IN  Promise!Replace(m, Promise!Message(m.author, m.first, m.at, TRUE))
          /\ ~Shown(i) => UNCHANGED Screen
      BY <1>1, <3>1, <3>2, BlankReplaces
    <3>4. CASE Shown(i)
      <4>1. Entry(i) \in Promise!Deletable(e)
        BY <3>1, <3>2, <3>4 DEF Promise!Deletable, Screen, Entry
      <4>2. Promise!Delete(e)
        BY <1>6, <3>3, <3>4, <4>1 DEF HandleDelete, Promise!Delete
      <4> QED
        BY <1>2, <3>3, <4>2
    <3>5. CASE ~Shown(i)
      <4>1. Promise!Deletable(e) = {} \/ Promise!Ambiguous(e.about)
        BY <2>1, <3>1, <3>5
      <4>2. Promise!Delete(e)
        BY <1>6, <3>3, <3>5, <4>1 DEF HandleDelete, Promise!Delete
      <4> QED
        BY <1>2, <3>3, <4>2
    <3> QED
      BY <3>4, <3>5
  <2>3. CASE /\ UNCHANGED rows
             /\ \/ Found(e.about) = {}
                \/ \E i \in Found(e.about) : e.author # Own /\ rows[i].author # e.author
    <3>1. Promise!Deletable(e) = {} \/ Promise!Ambiguous(e.about)
      <4>1. CASE Found(e.about) = {}
        BY <4>1 DEF Found, Promise!Deletable, Screen, Entry
      <4>2. CASE \E i \in Found(e.about) : e.author # Own /\ rows[i].author # e.author
        <5>1. PICK i \in Found(e.about) : e.author # Own /\ rows[i].author # e.author
          BY <4>2
        <5>2. \A m \in Promise!Deletable(e) : m # Entry(i)
          BY <5>1 DEF Promise!Deletable, Entry
        <5> QED
          BY <2>1, <5>2
      <4> QED
        BY <2>3, <4>1, <4>2
    <3>2. Promise!Delete(e)
      BY <1>3, <1>6, <2>3, <3>1 DEF HandleDelete, Promise!Delete
    <3> QED
      BY <1>2, <1>3, <2>3, <3>2
  <2> QED
    BY <1>6, <2>2, <2>3 DEF HandleDelete
<1>7. CASE HandleReaction(e)
  BY <1>2, <1>3, <1>7 DEF HandleReaction, Promise!React
<1> QED
  BY <1>4, <1>5, <1>6, <1>7 DEF Handle

-----------------------------------------------------------------------------
(* Whatever edits name, an edit of an edit included.  The rows of a series  *)
(* are one author's, and no revision is greater than the number of rows, so *)
(* that there is a next one.                                                *)

OneAuthor ==
  \A i \in Ids : rows[i].original # NULL => rows[rows[i].original].author = rows[i].author

RevisionsBounded == \A i \in Ids : rows[i].revision <= Len(rows)

AnyInv == TypeOK /\ OneAuthor /\ RevisionsBounded

LEMMA GreatestExists ==
  ASSUME NEW S \in SUBSET Nat, S # {}, NEW b \in Nat, \A n \in S : n <= b
  PROVE  \E m \in S : \A n \in S : n <= m
<1> DEFINE Gaps == {b - n : n \in S}
<1>1. Gaps \subseteq Nat /\ Gaps # {}
  <2>1. \A n \in S : n \in Nat /\ b - n \in Nat
    OBVIOUS
  <2>2. PICK n \in S : TRUE
    OBVIOUS
  <2>3. b - n \in Gaps
    BY <2>2
  <2> QED
    BY <2>1, <2>3
<1>2. \E g \in Gaps : \A h \in Gaps : ~(<<h, g>> \in OpToRel(<, Nat))
  BY <1>1, NatLessThanWellFounded, WFMin
<1>3. \A m, n \in Nat : <<m, n>> \in OpToRel(<, Nat) <=> m < n
  BY DEF OpToRel
<1>4. PICK g \in Gaps : \A h \in Gaps : ~(h < g)
  BY <1>1, <1>2, <1>3
<1>5. PICK m \in S : g = b - m
  OBVIOUS
<1>6. \A n \in S : ~(b - n < b - m)
  BY <1>4, <1>5
<1> QED
  BY <1>6

\* The revision of an edit of row o or of one that names it.
LEMMA NextRevisionExists ==
  ASSUME AnyInv, NEW o \in Ids
  PROVE  NextRevision(o) \in Nat /\ NextRevision(o) <= Len(rows) + 1
<1> DEFINE S == {rows[j].revision : j \in Series(o)}
<1>1. RowsTyped
  BY DEF AnyInv, TypeOK, RowsTyped
<1>2. \A j \in Ids : rows[j].revision \in Nat
  BY <1>1, IdsFacts DEF Row
<1>3. S \subseteq Nat /\ \A n \in S : n <= Len(rows)
  BY <1>2 DEF Series, AnyInv, RevisionsBounded
<1>4. o \in Series(o)
  BY DEF Series
<1>5. S # {}
  BY <1>4
<1>6. \A m \in S : (\A n \in S : n <= m) <=> (\A j \in Series(o) : rows[j].revision <= m)
  OBVIOUS
<1> HIDE DEF S
<1>7. \E m \in S : \A n \in S : n <= m
  BY <1>1, <1>3, <1>5, IdsFacts, GreatestExists
<1>8. \E m \in S : \A j \in Series(o) : rows[j].revision <= m
  BY <1>6, <1>7
<1> DEFINE top == CHOOSE m \in S : \A j \in Series(o) : rows[j].revision <= m
<1>9. top \in S
  BY <1>8
<1>10. NextRevision(o) = 1 + top
  BY DEF NextRevision, S
<1> HIDE DEF top
<1> QED
  BY <1>1, <1>3, <1>9, <1>10, IdsFacts

\* The table after an edit of row i: the rows of the series have new links.
LEMMA RevisedRows ==
  ASSUME AnyInv, NEW e \in Changing, NEW i \in Ids
  PROVE  LET t == Revised(e, i)
             o == Orig(i)
         IN  /\ o \in Ids
             /\ t \in Seq(Row) /\ DOMAIN t = Ids \cup {NewId} /\ Len(t) = Len(rows) + 1
             /\ \A j \in Ids : t[j] = IF j = o \/ rows[j].original = o
                                     THEN [rows[j] EXCEPT !.original = o, !.latest = NewId]
                                     ELSE rows[j]
             /\ t[NewId].author = e.author /\ t[NewId].revision = NextRevision(o)
             /\ t[NewId].original \in {i, o} /\ t[NewId].latest \in {NULL, NewId}
<1> DEFINE t == Revised(e, i)
           o == Orig(i)
           new == NewRow(e, i, NextRevision(o))
           all == Append(rows, new)
<1>1. RowsTyped /\ rows \in Seq(Row) /\ Ids = 1..Len(rows) /\ Len(rows) \in Nat
  BY IdsFacts DEF AnyInv, TypeOK, RowsTyped
<1>2. /\ NewId \in Nat \ {0} /\ NewId \notin Ids /\ 1..NewId = Ids \cup {NewId}
      /\ NewId \in 1..NewId /\ i \in Nat \ {0}
  BY <1>1 DEF NewId
<1>3. o \in Ids /\ o \in Nat
  BY <1>1, <1>2 DEF Orig, RowsTyped
<1>4. /\ new \in Row /\ new.original = i /\ new.latest = NULL
      /\ new.author = e.author /\ new.revision = NextRevision(o)
  BY <1>2, <1>3, NextRevisionExists DEF NewRow, Row, Changing, NULL
<1>5. t = [j \in 1..NewId |-> IF j = o \/ all[j].original = o
                              THEN [all[j] EXCEPT !.original = o, !.latest = NewId]
                              ELSE all[j]]
  BY DEF Revised
<1> HIDE DEF t, o, new
<1>6. all[NewId] = new /\ \A j \in Ids : all[j] = rows[j]
  BY <1>1, <1>4 DEF NewId
<1> HIDE DEF all
<1>7. \A j \in Ids : t[j] = IF j = o \/ rows[j].original = o
                           THEN [rows[j] EXCEPT !.original = o, !.latest = NewId]
                           ELSE rows[j]
  BY <1>2, <1>5, <1>6
<1>8. t[NewId] = IF i = o THEN [new EXCEPT !.original = o, !.latest = NewId] ELSE new
  BY <1>2, <1>3, <1>4, <1>5, <1>6
<1>9. /\ t[NewId] \in Row
      /\ t[NewId].author = e.author /\ t[NewId].revision = NextRevision(o)
      /\ t[NewId].original \in {i, o} /\ t[NewId].latest \in {NULL, NewId}
  BY <1>2, <1>3, <1>4, <1>8 DEF Row
<1>10. \A j \in Ids : t[j] \in Row
  <2> SUFFICES ASSUME NEW j \in Ids
               PROVE  t[j] \in Row
    OBVIOUS
  <2>1. rows[j] \in Row
    BY <1>1, IdsFacts
  <2> QED
    BY <1>2, <1>3, <1>7, <2>1 DEF Row
<1>11. t \in [1..NewId -> Row]
  BY <1>2, <1>5, <1>9, <1>10
<1>12. t \in Seq(Row) /\ DOMAIN t = Ids \cup {NewId} /\ Len(t) = Len(rows) + 1
  BY <1>1, <1>2, <1>11 DEF NewId
<1> QED
  BY <1>3, <1>7, <1>9, <1>12 DEF t, o

\* Steps that leave the rows where they are and as they are but for being blank.
LEMMA AnyInvBlank ==
  ASSUME AnyInv, NEW i \in Ids, Blank(i), sent' = sent, handled' \subseteq sent
  PROVE  AnyInv' /\ \A j \in Ids \ {i} : rows'[j] = rows[j]
<1>1. RowsTyped /\ rows \in Seq(Row) /\ Ids = 1..Len(rows) /\ Len(rows) \in Nat
  BY IdsFacts DEF AnyInv, TypeOK, RowsTyped
<1>2. rows' = [k \in 1..Len(rows) |-> IF k = i THEN [rows[k] EXCEPT !.deleted = TRUE] ELSE rows[k]]
  BY <1>1 DEF Blank, Ids
<1>3. \A j \in Ids :
        /\ j # i => rows'[j] = rows[j]
        /\ rows'[j] \in Row
        /\ rows'[j].author = rows[j].author /\ rows'[j].revision = rows[j].revision
        /\ rows'[j].original = rows[j].original /\ rows'[j].latest = rows[j].latest
  <2> SUFFICES ASSUME NEW j \in Ids
               PROVE  /\ j # i => rows'[j] = rows[j]
                      /\ rows'[j] \in Row
                      /\ rows'[j].author = rows[j].author /\ rows'[j].revision = rows[j].revision
                      /\ rows'[j].original = rows[j].original /\ rows'[j].latest = rows[j].latest
    OBVIOUS
  <2>1. rows[j] \in Row
    BY <1>1, IdsFacts
  <2> QED
    BY <1>1, <1>2, <2>1 DEF Row
<1>4. rows' \in Seq(Row) /\ Ids' = Ids /\ Len(rows') = Len(rows)
  <2>1. rows' \in [1..Len(rows) -> Row]
    BY <1>1, <1>2, <1>3
  <2> QED
    BY <1>1, <2>1 DEF Ids
<1>5. RowsTyped'
  BY <1>1, <1>3, <1>4 DEF RowsTyped
<1>6. ReactionsTyped'
  BY <1>4 DEF Blank, AnyInv, TypeOK, ReactionsTyped
<1>7. OneAuthor'
  BY <1>1, <1>3, <1>4 DEF AnyInv, OneAuthor, RowsTyped
<1>8. RevisionsBounded'
  BY <1>3, <1>4 DEF AnyInv, RevisionsBounded
<1> QED
  BY <1>3, <1>5, <1>6, <1>7, <1>8, TypeParts DEF AnyInv

LEMMA AnyInvNew ==
  ASSUME AnyInv, NEW e \in sent, InsertNew(e), sent' = sent, handled' \subseteq sent
  PROVE  AnyInv' /\ \A j \in Ids : rows'[j] = rows[j]
<1> DEFINE new == NewRow(e, NULL, 0)
<1>1. RowsTyped /\ rows \in Seq(Row) /\ Ids = 1..Len(rows) /\ Len(rows) \in Nat
  BY IdsFacts DEF AnyInv, TypeOK, RowsTyped
<1>2. rows' = Append(rows, new) /\ reactions' = reactions
  BY DEF InsertNew
<1>3. e.at \in Times /\ e.author \in Authors
  BY DEF AnyInv, TypeOK, Envelope, Plain, Changing, Reacting
<1>4. new \in Row /\ new.original = NULL /\ new.latest = NULL /\ new.revision = 0
  BY <1>3 DEF NewRow, Row, NULL
<1> HIDE DEF new
<1>5. /\ rows' \in Seq(Row) /\ Ids' = Ids \cup {NewId} /\ Len(rows') = Len(rows) + 1
      /\ rows'[NewId] = new /\ \A j \in Ids : rows'[j] = rows[j]
  BY <1>1, <1>2, <1>4 DEF Ids, NewId
<1>6. RowsTyped'
  BY <1>1, <1>4, <1>5 DEF RowsTyped
<1>7. ReactionsTyped'
  BY <1>2, <1>5 DEF AnyInv, TypeOK, ReactionsTyped
<1>8. OneAuthor'
  <2>1. \A j \in Ids : rows[j].original # NULL => rows[j].original \in Ids
    BY <1>1 DEF RowsTyped
  <2> QED
    BY <1>1, <1>4, <1>5, <2>1 DEF AnyInv, OneAuthor
<1>9. RevisionsBounded'
  <2>1. \A j \in Ids : rows[j].revision \in Nat
    BY <1>1, IdsFacts DEF Row
  <2> QED
    BY <1>1, <1>4, <1>5, <2>1 DEF AnyInv, RevisionsBounded
<1> QED
  BY <1>5, <1>6, <1>7, <1>8, <1>9, TypeParts DEF AnyInv

\* What an envelope of e's author may not do to the others.
OthersUntouched(e) == \A j \in Ids : rows[j].author # e.author => rows'[j] = rows[j]

LEMMA AnyInvRevision ==
  ASSUME AnyInv, NEW e \in sent, e.kind = "edit", NEW i \in Ids,
         rows[i].author = e.author, InsertRevision(e, i),
         sent' = sent, handled' \subseteq sent
  PROVE  AnyInv' /\ OthersUntouched(e)
<1> DEFINE o == Orig(i)
<1>1. RowsTyped /\ rows \in Seq(Row) /\ Ids = 1..Len(rows) /\ Len(rows) \in Nat
  BY DEF AnyInv, TypeOK, RowsTyped, Ids
<1>2. e \in Changing
  BY DEF AnyInv, TypeOK, Envelope, Plain, Changing, Reacting
<1>3. /\ o \in Ids
      /\ rows' \in Seq(Row) /\ Ids' = Ids \cup {NewId} /\ Len(rows') = Len(rows) + 1
      /\ \A j \in Ids : rows'[j] = IF j = o \/ rows[j].original = o
                                  THEN [rows[j] EXCEPT !.original = o, !.latest = NewId]
                                  ELSE rows[j]
      /\ rows'[NewId].author = e.author /\ rows'[NewId].revision = NextRevision(o)
      /\ rows'[NewId].original \in {i, o} /\ rows'[NewId].latest \in {NULL, NewId}
  <2> DEFINE t == Revised(e, i)
  <2>1. /\ o \in Ids
        /\ t \in Seq(Row) /\ DOMAIN t = Ids \cup {NewId} /\ Len(t) = Len(rows) + 1
        /\ \A j \in Ids : t[j] = IF j = o \/ rows[j].original = o
                                THEN [rows[j] EXCEPT !.original = o, !.latest = NewId]
                                ELSE rows[j]
        /\ t[NewId].author = e.author /\ t[NewId].revision = NextRevision(o)
        /\ t[NewId].original \in {i, o} /\ t[NewId].latest \in {NULL, NewId}
    BY <1>2, RevisedRows, Zenon
  <2>2. rows' = t /\ Ids' = DOMAIN t
    BY DEF InsertRevision, Ids
  <2> HIDE DEF t, o
  <2> QED
    BY <2>1, <2>2
<1>4. /\ o \in Ids
      /\ rows' \in Seq(Row) /\ Ids' = Ids \cup {NewId} /\ Len(rows') = Len(rows) + 1
      /\ rows'[NewId].author = e.author /\ rows'[NewId].revision = NextRevision(o)
      /\ rows'[NewId].original \in {i, o} /\ rows'[NewId].latest \in {NULL, NewId}
  BY <1>3
<1>5. rows[o].author = e.author /\ o # NULL
  BY <1>1, <1>3, IdsFacts DEF AnyInv, OneAuthor, Orig
<1> HIDE DEF o
<1>6. ASSUME NEW j \in Ids
      PROVE  /\ rows'[j].author = rows[j].author /\ rows'[j].revision = rows[j].revision
             /\ IF j = o \/ rows[j].original = o
                THEN rows'[j].original = o /\ rows'[j].latest = NewId
                ELSE rows'[j] = rows[j]
  <2>1. rows[j] \in Row
    BY <1>1, IdsFacts
  <2> QED
    BY <1>3, <2>1 DEF Row
<1>7. \A j \in Ids : j = o \/ rows[j].original = o => rows[j].author = e.author
  BY <1>5 DEF AnyInv, OneAuthor
<1>8. OthersUntouched(e)
  BY <1>6, <1>7 DEF OthersUntouched
<1>9. RowsTyped'
  <2>1. \A j \in Ids : {rows'[j].original, rows'[j].latest} \subseteq Ids' \cup {NULL}
    BY <1>1, <1>4, <1>6 DEF RowsTyped
  <2>2. {rows'[NewId].original, rows'[NewId].latest} \subseteq Ids' \cup {NULL}
    BY <1>4
  <2> QED
    BY <1>4, <2>1, <2>2 DEF RowsTyped
<1>10. ReactionsTyped'
  <2>1. CASE reactions' = reactions
    BY <1>3, <2>1 DEF AnyInv, TypeOK, ReactionsTyped
  <2> QED
    BY <1>3, <2>1, CopiesTyped DEF AnyInv, InsertRevision
<1>11. OneAuthor'
  <2> SUFFICES ASSUME NEW j \in Ids', rows'[j].original # NULL
               PROVE  rows'[rows'[j].original].author = rows'[j].author
    BY DEF OneAuthor
  <2>1. \A k \in Ids : rows'[k].author = rows[k].author
    BY <1>6
  <2>2. CASE j = NewId
    BY <1>3, <1>5, <2>1, <2>2
  <2>3. CASE j \in Ids /\ (j = o \/ rows[j].original = o)
    BY <1>3, <1>5, <1>6, <1>7, <2>1, <2>3
  <2>4. CASE j \in Ids /\ ~(j = o \/ rows[j].original = o)
    BY <1>1, <1>6, <2>1, <2>4 DEF AnyInv, OneAuthor, RowsTyped
  <2> QED
    BY <1>3, <2>2, <2>3, <2>4
<1>12. RevisionsBounded'
  <2>1. NextRevision(o) <= Len(rows) + 1
    BY <1>3, NextRevisionExists
  <2>2. \A j \in Ids : rows[j].revision \in Nat
    BY <1>1, IdsFacts DEF Row
  <2> QED
    BY <1>1, <1>4, <1>6, <2>1, <2>2 DEF AnyInv, RevisionsBounded
<1> QED
  BY <1>8, <1>9, <1>10, <1>11, <1>12, TypeParts DEF AnyInv

LEMMA AnyInvHandle ==
  ASSUME AnyInv, NEW e \in sent, Handle(e)
  PROVE  AnyInv' /\ (e.author # Own => OthersUntouched(e))
<1>1. sent' = sent /\ handled' \subseteq sent
  BY DEF Handle, AnyInv, TypeOK
<1>2. e \in Envelope
  BY DEF AnyInv, TypeOK
<1>3. ASSUME rows' = rows, ReactionsTyped'
      PROVE  AnyInv' /\ OthersUntouched(e)
  BY <1>1, <1>3, TypeParts DEF AnyInv, RowsTyped, OneAuthor, RevisionsBounded, Ids, OthersUntouched
<1>4. ReactionsTyped
  BY TypeParts DEF AnyInv
<1>5. CASE HandleText(e)
  BY <1>1, <1>5, AnyInvNew DEF HandleText, OthersUntouched
<1>6. CASE HandleEdit(e)
  <2>1. CASE InsertNew(e)
    BY <1>1, <2>1, AnyInvNew DEF OthersUntouched
  <2>2. CASE ~InsertNew(e)
    <3>1. PICK i \in Found(e.about) : rows[i].author = e.author /\ InsertRevision(e, i)
      BY <1>6, <2>2 DEF HandleEdit
    <3> QED
      BY <1>1, <1>6, <3>1, AnyInvRevision DEF HandleEdit, Found
  <2> QED
    BY <2>1, <2>2
<1>7. CASE HandleDelete(e)
  <2>1. CASE UNCHANGED <<rows, reactions>>
    BY <1>3, <1>4, <2>1 DEF ReactionsTyped, Ids
  <2>2. CASE ~UNCHANGED <<rows, reactions>>
    <3>1. PICK i \in Found(e.about) : (e.author = Own \/ rows[i].author = e.author) /\ Blank(i)
      BY <1>7, <2>2 DEF HandleDelete
    <3> QED
      BY <1>1, <3>1, AnyInvBlank DEF Found, OthersUntouched
  <2> QED
    BY <2>1, <2>2
<1>8. CASE HandleReaction(e)
  <2>1. rows' = rows /\ Ids' = Ids
    BY <1>8 DEF HandleReaction, Ids
  <2>2. CASE reactions' = reactions
    BY <1>3, <1>4, <2>1, <2>2 DEF ReactionsTyped
  <2>3. CASE reactions' # reactions
    <3>1. PICK i \in Found(e.about) :
            reactions' =
              IF e.kind = "react"
              THEN [r \in DOMAIN reactions \cup {<<i, e.author>>} |->
                      IF r = <<i, e.author>> THEN e.emoji ELSE reactions[r]]
              ELSE [r \in DOMAIN reactions \ {<<i, e.author>>} |-> reactions[r]]
      BY <1>8, <2>3 DEF HandleReaction
    <3>2. <<i, e.author>> \in Ids \X Authors
      BY <1>2 DEF Found, Envelope, Plain, Changing, Reacting
    <3>3. e.kind = "react" => e.emoji \in Emoji
      BY <1>2 DEF Envelope, Plain, Changing, Reacting
    <3>4. ReactionsTyped'
      BY <1>4, <2>1, <3>1, <3>2, <3>3 DEF ReactionsTyped
    <3> QED
      BY <1>3, <2>1, <3>4
  <2> QED
    BY <2>2, <2>3
<1> QED
  BY <1>5, <1>6, <1>7, <1>8 DEF Handle

-----------------------------------------------------------------------------
LEMMA InitInv == Init => IInv
<1> SUFFICES ASSUME Init
             PROVE  IInv
  OBVIOUS
<1>1. Ids = {} /\ DOMAIN reactions = {} /\ rows \in Seq(Row)
  BY DEF Init, Ids
<1> QED
  BY <1>1 DEF Init, IInv, TypeOK, Sending, FromText, Linked

LEMMA Invariance == ASSUME EditsOfEdits = FALSE PROVE Spec => []IInv
<1>1. IInv /\ [Next]_vars => IInv'
  <2> SUFFICES ASSUME IInv, [Next]_vars
               PROVE  IInv'
    OBVIOUS
  <2>1. CASE \E e \in Envelope : Send(e)
    BY <2>1, SendPreserves
  <2>2. CASE \E e \in sent : Handle(e)
    BY <2>2, HandlePreserves
  <2>3. CASE UNCHANGED vars
    BY <2>3 DEF vars, IInv, TypeOK, Sending, FromText, Linked, Ids
  <2> QED
    BY <2>1, <2>2, <2>3 DEF Next
<1> QED
  BY <1>1, InitInv, PTL DEF Spec

LEMMA AnyInvariance == Spec => []AnyInv
<1>1. Init => AnyInv
  BY InitInv DEF Init, IInv, AnyInv, OneAuthor, RevisionsBounded, Ids
<1>2. AnyInv /\ [Next]_vars => AnyInv'
  <2> SUFFICES ASSUME AnyInv, [Next]_vars
               PROVE  AnyInv'
    OBVIOUS
  <2>1. ASSUME NEW e \in Envelope, Send(e)
        PROVE  AnyInv'
    BY <2>1 DEF Send, AnyInv, TypeOK, OneAuthor, RevisionsBounded, Ids
  <2>2. ASSUME NEW e \in sent, Handle(e)
        PROVE  AnyInv'
    BY <2>2, AnyInvHandle
  <2>3. CASE UNCHANGED vars
    BY <2>3 DEF vars, AnyInv, TypeOK, OneAuthor, RevisionsBounded, Ids
  <2> QED
    BY <2>1, <2>2, <2>3 DEF Next
<1> QED
  BY <1>1, <1>2, PTL DEF Spec

\* The tables keep their types, whatever edits name: there is always a next
\* revision, and a link is to a row.
THEOREM TypeCorrect == Spec => []TypeOK
<1>1. AnyInv => TypeOK
  BY DEF AnyInv
<1> QED
  BY <1>1, AnyInvariance, PTL

\* However edits, deletes and texts are ordered, one version of a message is shown.
THEOREM OneVersionIsShown == ASSUME EditsOfEdits = FALSE PROVE Spec => []OneShown
<1>1. IInv => OneShown
  <2> SUFFICES ASSUME IInv, NEW i \in Ids, NEW j \in Ids, Shown(i), Shown(j),
                      Orig(Orig(i)) = Orig(Orig(j))
               PROVE  i = j
    BY DEF OneShown
  <2>1. NULL \notin Ids
    BY DEF IInv, TypeOK, Ids, NULL
  <2>2. \A k \in Ids : rows[k].original = NULL => Orig(Orig(k)) = k
    BY DEF Orig
  <2>3. \A k \in Ids : rows[k].original # NULL =>
          LinkedTo(rows, k, rows[k].original) /\ Orig(Orig(k)) = rows[k].original
    BY <2>1 DEF IInv, Linked, LinkedTo, Orig, Ids
  <2>4. CASE rows[i].original = NULL
    BY <2>1, <2>2, <2>3, <2>4 DEF LinkedTo, Ids
  <2>5. CASE rows[j].original = NULL
    BY <2>1, <2>2, <2>3, <2>5 DEF LinkedTo, Ids
  <2>6. CASE rows[i].original # NULL /\ rows[j].original # NULL
    <3>1. rows[i].latest = rows[j].latest /\ rows[i].latest \in Ids
      BY <2>3, <2>6 DEF LinkedTo, Ids
    <3> QED
      BY <2>1, <3>1 DEF Shown
  <2> QED
    BY <2>4, <2>5, <2>6
<1> QED
  BY <1>1, Invariance, PTL

\* It is the newest, and the same author's as the others.
THEOREM ShownIsNewest == ASSUME EditsOfEdits = FALSE PROVE Spec => []NewestIsShown
<1>1. IInv => NewestIsShown
  <2> SUFFICES ASSUME IInv, NEW i \in Ids, rows[i].latest # NULL
               PROVE  /\ rows[i].latest \in Ids
                      /\ Shown(rows[i].latest)
                      /\ i # rows[i].latest => rows[i].revision < rows[rows[i].latest].revision
                      /\ rows[i].author = rows[rows[i].latest].author
    BY DEF NewestIsShown
  <2> DEFINE o == rows[i].original
             l == rows[i].latest
  <2>1. NULL \notin Ids
    BY DEF IInv, TypeOK, Ids, NULL
  <2>2. LinkedTo(rows, i, o) /\ o \in Ids
    BY DEF IInv, Linked, LinkedTo, Ids
  <2>3. l \in Ids /\ rows[l].original = o /\ o # NULL
    BY <2>1, <2>2 DEF LinkedTo, Ids
  <2>4. LinkedTo(rows, l, o)
    BY <2>3 DEF IInv, Linked
  <2> QED
    BY <2>2, <2>3, <2>4 DEF LinkedTo, Shown
<1> QED
  BY <1>1, Invariance, PTL

\* Nobody but the user changes another member's rows, whatever edits name: the
\* rows that an edit updates are linked to the one it finds, so of one author.
THEOREM OthersAreLeftAlone == Spec => OthersStay
<1>1. AnyInv /\ [Next]_vars =>
        [\A e \in Envelope : Handle(e) /\ e.author # Own =>
           \A i \in Ids : rows[i].author # e.author => rows'[i] = rows[i]]_vars
  <2> SUFFICES ASSUME AnyInv, NEW e \in Envelope, Handle(e), e.author # Own
               PROVE  OthersUntouched(e)
    BY DEF OthersUntouched
  <2> QED
    BY AnyInvHandle DEF Handle
<1> QED
  BY <1>1, AnyInvariance, PTL DEF Spec, OthersStay

\* A reaction is shown with the author and the emoji of one that was sent, on the
\* message that it was sent about.
THEOREM NoReactionIsMadeUp == ASSUME EditsOfEdits = FALSE PROVE Spec => []ReactionsWereSent
<1>1. Init => ReactionsWereSent
  BY DEF Init, ReactionsWereSent
<1>2. IInv /\ ReactionsWereSent /\ [Next]_vars => ReactionsWereSent'
  <2> SUFFICES ASSUME IInv, ReactionsWereSent, [Next]_vars
               PROVE  ReactionsWereSent'
    OBVIOUS
  <2>1. CASE UNCHANGED <<handled, rows, reactions>>
    BY <2>1 DEF ReactionsWereSent, Found, Orig, Ids
  <2>2. CASE \E e \in sent : Handle(e)
    BY <2>2, HandleCarries
  <2> QED
    BY <2>1, <2>2 DEF Next, Send, vars
<1> QED
  BY <1>1, <1>2, Invariance, PTL DEF Spec

\* What the page shows follows Conversation, in whatever order envelopes come: a
\* message appears once, an edit or a delete changes the message it names, and is
\* missed only if that is not shown or its time is another member's as well.
THEOREM ConversationImplemented == ASSUME EditsOfEdits = FALSE PROVE Spec => ImplementsConversation
<1>1. Init => PageInv /\ Promise!Init
  BY InitInv DEF Init, PageInv, Sourced, Distinct, Screen, Ids, Promise!Init
<1>2. PageInv /\ [Next]_vars => PageInv' /\ [Promise!Next]_<<handled, Screen>>
  <2> SUFFICES ASSUME PageInv, [Next]_vars
               PROVE  PageInv' /\ [Promise!Next]_<<handled, Screen>>
    OBVIOUS
  <2>1. CASE \E e \in Envelope : Send(e)
    <3>1. IInv'
      BY <2>1, SendPreserves DEF PageInv
    <3>2. UNCHANGED <<handled, rows>>
      BY <2>1 DEF Send
    <3>3. Sourced' /\ Distinct' /\ UNCHANGED Screen
      BY <3>2 DEF PageInv, Sourced, Distinct, Screen, Entry, Shown, Orig, Ids
    <3> QED
      BY <3>1, <3>2, <3>3 DEF PageInv
  <2>2. CASE \E e \in sent : Handle(e)
    <3>1. PICK e \in sent : Handle(e)
      BY <2>2
    <3>2. e \in Envelope
      BY DEF PageInv, IInv, TypeOK
    <3> QED
      BY <3>1, <3>2, HandleFollows DEF Promise!Next
  <2>3. CASE UNCHANGED vars
    <3>1. IInv'
      BY <2>3 DEF vars, PageInv, IInv, TypeOK, Sending, FromText, Linked, Ids
    <3>2. Sourced' /\ Distinct' /\ UNCHANGED <<handled, Screen>>
      BY <2>3 DEF vars, PageInv, Sourced, Distinct, Screen, Entry, Shown, Orig, Ids
    <3> QED
      BY <3>1, <3>2 DEF PageInv
  <2> QED
    BY <2>1, <2>2, <2>3 DEF Next
<1> QED
  BY <1>1, <1>2, PTL DEF Spec, ImplementsConversation, Promise!Spec
==============================================================================
