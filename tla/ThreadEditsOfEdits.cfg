\* An edit may name another edit.
SPECIFICATION Spec
CONSTANTS
  Peers = {bob}
  Own = me
  Emoji = {}
  EditsOfEdits = TRUE
  MaxTime = 4
  MaxSent = 4
INVARIANT OneShown

\* Everything may have been sent and handled.
CHECK_DEADLOCK FALSE
