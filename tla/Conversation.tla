---------------------------- MODULE Conversation ----------------------------
(***************************************************************************)
(* What the members of a conversation are promised of what the client      *)
(* shows, in whatever order it hears of what they sent: a message appears  *)
(* once; an edit replaces the version that is shown, for its author only;  *)
(* a delete blanks it, for its author and the user only; nothing else      *)
(* changes and nothing disappears.  An edit or a delete may be missed if   *)
(* its message is not there yet, or was sent at the same time as another   *)
(* member's: messages are named by their times.                            *)
(***************************************************************************)
CONSTANTS
  Envelopes,   \* what may be sent: texts, edits, deletes and reactions
  Own          \* the user

VARIABLES
  heard,       \* the envelopes that were handled
  screen       \* the messages shown: author, time of the first version, time
               \* of this one, whether it was deleted

Init ==
  /\ heard = {}
  /\ screen = {}

\* Two members sent something to be shown at time t.
Ambiguous(t) ==
  \E f, g \in {h \in heard : h.kind \in {"text", "edit"} /\ h.at = t} : f.author # g.author

Message(author, first, at, deleted) ==
  [author |-> author, first |-> first, at |-> at, deleted |-> deleted]

Appear(e) ==
  /\ \A m \in screen : m.author = e.author => e.at \notin {m.first, m.at}
  /\ screen' = screen \cup {Message(e.author, e.at, e.at, FALSE)}

Replace(m, n) == screen' = (screen \ {m}) \cup {n}

Editable(e) == {m \in screen : m.author = e.author /\ m.first = e.about}
Deletable(e) == {m \in screen : m.at = e.about /\ (e.author = Own \/ m.author = e.author)}

Write(e) ==
  /\ e.kind = "text"
  /\ Appear(e)

Edit(e) ==
  /\ e.kind = "edit"
  /\ \/ \E m \in Editable(e) : Replace(m, Message(m.author, m.first, e.at, FALSE))
     \/ /\ Editable(e) = {} \/ Ambiguous(e.about)
        /\ Appear(e)

Delete(e) ==
  /\ e.kind = "delete"
  /\ \/ \E m \in Deletable(e) : Replace(m, Message(m.author, m.first, m.at, TRUE))
     \/ /\ Deletable(e) = {} \/ Ambiguous(e.about)
        /\ UNCHANGED screen

React(e) ==
  /\ e.kind \in {"react", "unreact"}
  /\ UNCHANGED screen

Hear(e) ==
  /\ e \notin heard
  /\ heard' = heard \cup {e}
  /\ Write(e) \/ Edit(e) \/ Delete(e) \/ React(e)

Next == \E e \in Envelopes : Hear(e)

Spec == Init /\ [][Next]_<<heard, screen>>
=============================================================================
