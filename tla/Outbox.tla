------------------------------- MODULE Outbox -------------------------------
(***************************************************************************)
(* What the user is promised of an outgoing message, whatever its road:    *)
(* it is queued, then shown as sent or as failed; a failed one may be sent *)
(* after all; it is sent only when every recipient has it, and sent is     *)
(* final.  The network may deliver a message to some of them and not tell. *)
(***************************************************************************)
CONSTANTS
    Messages,    \* outgoing messages
    Recipients   \* those each message is for

VARIABLES
    status,      \* what the user sees of each message
    received     \* who has it

Statuses == {"none", "queued", "failed", "sent"}

Init ==
    /\ status = [m \in Messages |-> "none"]
    /\ received = [m \in Messages |-> {}]

Submit(m) ==
    /\ status[m] = "none"
    /\ status' = [status EXCEPT ![m] = "queued"]
    /\ UNCHANGED received

Deliver(m, rs) ==
    /\ status[m] # "none"
    /\ received' = [received EXCEPT ![m] = @ \cup rs]
    /\ UNCHANGED status

Succeed(m) ==
    /\ status[m] \in {"queued", "failed"}
    /\ received[m] = Recipients
    /\ status' = [status EXCEPT ![m] = "sent"]
    /\ UNCHANGED received

\* Attempts fail, several at once when they are given up together.
Fail(ms) ==
    /\ \A m \in ms : status[m] = "queued"
    /\ status' = [m \in Messages |-> IF m \in ms THEN "failed" ELSE status[m]]
    /\ UNCHANGED received

Next ==
    \/ \E m \in Messages : Submit(m) \/ Succeed(m)
    \/ \E m \in Messages, rs \in SUBSET Recipients : Deliver(m, rs)
    \/ \E ms \in SUBSET Messages : Fail(ms)

Spec == Init /\ [][Next]_<<status, received>>
=============================================================================
