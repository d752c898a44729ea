------------------------------- MODULE Thread -------------------------------
(***************************************************************************)
(* The messages of one conversation: new messages, edits, remote deletes   *)
(* and reactions as handle_message (worker/client.rs) applies them to the  *)
(* tables messages and reactions (store.rs).                               *)
(*                                                                         *)
(* An envelope refers to an earlier message by the time it was sent at.    *)
(* The client looks that time up among the rows it has, whoever sent them. *)
(* Envelopes are opened by concurrent tasks, so they are handled in any    *)
(* order.  An edit is a row of its own; the rows of a message name the     *)
(* first of them in original_message_id and the newest, the only one that  *)
(* is shown, in latest_revision_id.                                        *)
(*                                                                         *)
(* The conversation is a group: a message has its sender's row, and one    *)
(* that the user sent from another device, which arrives as a transcript,  *)
(* has none: its author is Own.                                            *)
(*                                                                         *)
(* Left out: the text (a row is blanked or not), attachments, quotes,      *)
(* timers, receipts, notifications, and messages sent from this device.    *)
(***************************************************************************)
EXTENDS Naturals, Sequences, FiniteSets

CONSTANTS Peers,         \* the other members
          Own,           \* the user
          Emoji,
          EditsOfEdits,  \* whether an edit may name a message that is an edit
          MaxTime,       \* bound: the times messages are sent at are 1..MaxTime
          MaxSent        \* bound: envelopes

ASSUME ThreadAssumption ==
  Own \notin Peers /\ EditsOfEdits \in BOOLEAN /\ MaxTime \in Nat /\ MaxSent \in Nat

Authors == Peers \cup {Own}
Times == 1..MaxTime
NULL == 0            \* no row

VARIABLES sent,        \* envelopes the authors have sent
          handled,     \* those the client has handled
          rows,        \* the table messages: row id -> row
          reactions    \* the table reactions: <<row, author>> -> emoji

vars == <<sent, handled, rows, reactions>>

Row == [at : Times, author : Authors, original : Nat, latest : Nat,
        revision : Nat, deleted : BOOLEAN]

(* An envelope: about names the message that an edit, a delete or a        *)
(* reaction is about, by its time.                                         *)
Plain == [kind : {"text"}, at : Times, author : Authors]
Changing == [kind : {"edit", "delete", "unreact"}, at : Times, author : Authors,
             about : Times]
Reacting == [kind : {"react"}, at : Times, author : Authors, about : Times,
             emoji : Emoji]
Envelope == Plain \cup Changing \cup Reacting

-----------------------------------------------------------------------------
(* What the authors send.                                                  *)

SentBy(a) == {e \in sent : e.author = a}

\* The times of an author's messages of these kinds.
TimesOf(a, kinds) == {e.at : e \in {e \in SentBy(a) : e.kind \in kinds}}
Texts(a) == TimesOf(a, {"text", "edit"})
Editable(a) == IF EditsOfEdits THEN Texts(a) ELSE TimesOf(a, {"text"})

\* An author's clock does not run backwards; two authors may send at one time.
Send(e) ==
  /\ Cardinality(sent) < MaxSent
  /\ \A f \in SentBy(e.author) : f.at < e.at
  /\ e.kind = "edit" => e.about \in Editable(e.author)
  /\ e.kind = "delete" => e.about \in Texts(e.author)
  /\ e.kind \in {"react", "unreact"} => \E a \in Authors : e.about \in Texts(a)
  /\ sent' = sent \cup {e}
  /\ UNCHANGED <<handled, rows, reactions>>

-----------------------------------------------------------------------------
(* What the client does with them.                                         *)

Ids == DOMAIN rows
NewId == Len(rows) + 1

\* fetch_message_by_timestamp takes one row with that time.
Found(t) == {i \in Ids : rows[i].at = t}

Orig(i) == IF rows[i].original = NULL THEN i ELSE rows[i].original
Series(o) == {i \in Ids : i = o \/ rows[i].original = o}
Shown(i) == rows[i].latest \in {NULL, i}

NewRow(e, original, revision) ==
  [at |-> e.at, author |-> e.author, original |-> original, latest |-> NULL,
   revision |-> revision, deleted |-> FALSE]

InsertNew(e) ==
  /\ rows' = Append(rows, NewRow(e, NULL, 0))
  /\ UNCHANGED reactions

\* The revision after that of the row edited.
NextRevisionOfFirst(o) == rows[o].revision + 1

NextRevision(o) ==
  1 + (CHOOSE n \in {rows[j].revision : j \in Series(o)} :
         \A j \in Series(o) : rows[j].revision <= n)

\* The series' older revisions keep the latest they name.
RevisedFirstOnly(e, i) ==
  LET o == Orig(i)
  IN  [Append(rows, NewRow(e, i, NextRevision(o))) EXCEPT
         ![o].original = o, ![o].latest = NewId, ![NewId].original = o,
         ![NewId].latest = NewId]

\* One row too far.
RevisedBeyond(e, i) ==
  LET o == Orig(i)
  IN  [Append(rows, NewRow(e, i, NextRevision(o))) EXCEPT
         ![o].original = o, ![o].latest = NewId + 1]

\* The row of the edit names row i; then each row of the series, which the new
\* one belongs to if i is the first, names its first row and the new row.
Revised(e, i) ==
  LET o == Orig(i)
      inserted == Append(rows, NewRow(e, i, NextRevision(o)))
  IN  [j \in 1..NewId |->
         IF j = o \/ inserted[j].original = o
         THEN [inserted[j] EXCEPT !.original = o, !.latest = NewId]
         ELSE inserted[j]]

\* The reactions of the whole conversation.
WithAllCopies(i) ==
  LET copies == {<<NewId, r[2]>> : r \in DOMAIN reactions}
  IN  [r \in DOMAIN reactions \cup copies |->
         IF r \in copies
         THEN reactions[CHOOSE q \in DOMAIN reactions : q[2] = r[2]]
         ELSE reactions[r]]

\* The reactions to row i are copied to the edit, if the user is notified of it.
WithCopies(i) ==
  LET copies == {<<NewId, b>> : b \in {a \in Authors : <<i, a>> \in DOMAIN reactions}}
  IN  [r \in DOMAIN reactions \cup copies |->
         IF r \in copies THEN reactions[<<i, r[2]>>] ELSE reactions[r]]

InsertRevision(e, i) ==
  /\ rows' = Revised(e, i)
  /\ \/ UNCHANGED reactions
     \/ e.author # Own /\ reactions' = WithCopies(i)

HandleText(e) ==
  /\ e.kind = "text"
  /\ InsertNew(e)

\* Whoever sent the row.
HandleAnyEdit(e) ==
  /\ e.kind = "edit"
  /\ \/ /\ Found(e.about) = {}
        /\ InsertNew(e)
     \/ \E i \in Found(e.about) : InsertRevision(e, i)

\* An edit of a row that is not there, or is somebody else's, is a new message.
HandleEdit(e) ==
  /\ e.kind = "edit"
  /\ \/ /\ Found(e.about) = {}
        /\ InsertNew(e)
     \/ \E i \in Found(e.about) :
          IF rows[i].author = e.author THEN InsertRevision(e, i) ELSE InsertNew(e)

Blank(i) ==
  /\ rows' = [rows EXCEPT ![i].deleted = TRUE]
  /\ reactions' = [r \in {r \in DOMAIN reactions : r[1] # i} |-> reactions[r]]

\* Only the sender's own.
HandleSendersDelete(e) ==
  /\ e.kind = "delete"
  /\ \/ /\ Found(e.about) = {}
        /\ UNCHANGED <<rows, reactions>>
     \/ \E i \in Found(e.about) :
          IF rows[i].author = e.author
          THEN Blank(i)
          ELSE UNCHANGED <<rows, reactions>>

HandleDelete(e) ==
  /\ e.kind = "delete"
  /\ \/ /\ Found(e.about) = {}
        /\ UNCHANGED <<rows, reactions>>
     \/ \E i \in Found(e.about) :
          IF e.author = Own \/ rows[i].author = e.author
          THEN Blank(i)
          ELSE UNCHANGED <<rows, reactions>>

\* One reaction per author and row: the one that was handled last.
HandleReaction(e) ==
  /\ e.kind \in {"react", "unreact"}
  /\ UNCHANGED rows
  /\ \/ /\ Found(e.about) = {}
        /\ UNCHANGED reactions
     \/ \E i \in Found(e.about) :
          LET key == <<i, e.author>>
          IN  reactions' =
                IF e.kind = "react"
                THEN [r \in DOMAIN reactions \cup {key} |->
                        IF r = key THEN e.emoji ELSE reactions[r]]
                ELSE [r \in DOMAIN reactions \ {key} |-> reactions[r]]

Handle(e) ==
  /\ e \in sent \ handled
  /\ handled' = handled \cup {e}
  /\ UNCHANGED sent
  /\ HandleText(e) \/ HandleEdit(e) \/ HandleDelete(e) \/ HandleReaction(e)

-----------------------------------------------------------------------------
Init ==
  /\ sent = {}
  /\ handled = {}
  /\ rows = <<>>
  /\ reactions = [r \in {} |-> NULL]

Next ==
  \/ \E e \in Envelope : Send(e)
  \/ \E e \in sent : Handle(e)

Spec == Init /\ [][Next]_vars

\* The messages of fetch_all_messages, which the page shows.
Entry(i) ==
  [author |-> rows[i].author, first |-> rows[Orig(i)].at, at |-> rows[i].at,
   deleted |-> rows[i].deleted]

Screen == {Entry(i) : i \in {j \in Ids : Shown(j)}}

-----------------------------------------------------------------------------
\* The tables and the envelopes have the shape that the columns and the
\* messages give them: a row's links are row numbers or NULL, a reaction is
\* on a row that is there.
TypeOK ==
  /\ sent \subseteq Envelope
  /\ handled \subseteq sent
  /\ rows \in Seq(Row)
  /\ \A i \in Ids : {rows[i].original, rows[i].latest} \subseteq Ids \cup {NULL}
  /\ DOMAIN reactions \subseteq Ids \X Authors
  /\ \A r \in DOMAIN reactions : reactions[r] \in Emoji

\* Of the rows that lead to one first row by their original_message_id, one
\* at most is shown: create_message moves latest_revision_id of all of them
\* whenever it inserts a revision, whatever order the edits come in.
OneShown ==
  \A i, j \in Ids :
    Shown(i) /\ Shown(j) /\ Orig(Orig(i)) = Orig(Orig(j)) => i = j

\* The row that an edited row names as its latest is shown, has the greatest
\* revision number of the rows that name it, and is the same author's, so that
\* the history of a message never holds another member's words.
NewestIsShown ==
  \A i \in Ids : rows[i].latest # NULL =>
    /\ rows[i].latest \in Ids
    /\ Shown(rows[i].latest)
    /\ i # rows[i].latest => rows[i].revision < rows[rows[i].latest].revision
    /\ rows[i].author = rows[rows[i].latest].author

\* What a member sends never changes a row of another member, although his
\* edits and deletes name rows only by a time, which may be another's, and an
\* edit updates every row that is linked to the one it finds.
OthersStay ==
  [][\A e \in Envelope : Handle(e) /\ e.author # Own =>
       \A i \in Ids : rows[i].author # e.author => rows'[i] = rows[i]]_vars

\* Every reaction of a row was sent by the author it is shown with, about a
\* row with the same first row: the copies that follow an edit included.
ReactionsWereSent ==
  \A r \in DOMAIN reactions :
    \E e \in handled :
      /\ e.kind = "react" /\ e.author = r[2] /\ e.emoji = reactions[r]
      /\ \E j \in Found(e.about) : Orig(j) = Orig(r[1])

\* What the page shows follows Conversation: every envelope does to it what the
\* members are promised, and nothing more, in whatever order they are handled.
Promise == INSTANCE Conversation WITH
  Envelopes <- Envelope, heard <- handled, screen <- Screen

ImplementsConversation == Promise!Spec
=============================================================================
