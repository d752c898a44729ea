\* Envelopes of one member and of the user, edits of the first version only.
SPECIFICATION Spec
CONSTANTS
  Peers = {bob}
  Own = me
  Emoji = {heart, thumb}
  EditsOfEdits = FALSE
  MaxTime = 4
  MaxSent = 4
INVARIANTS TypeOK OneShown NewestIsShown ReactionsWereSent
PROPERTIES OthersStay ImplementsConversation

\* Everything may have been sent and handled.
CHECK_DEADLOCK FALSE
