-------------------------- MODULE MessageHandover --------------------------
(* What a caller may expect of EventPublisher.publish_event, and all that   *)
(* OrderPipeline takes for granted: a call returns or raises, and either    *)
(* way the broker has been given at most one copy of the one message.       *)
EXTENDS Naturals

CONSTANTS
    Messages,
    None        \* no call is going on

VARIABLES
    message,    \* the message of the call
    result,     \* how the last call ended, "none" before the first
    copies      \* the copies the broker was given, by message

handover == <<message, result, copies>>

HandoverInit == message = None /\ result = "none" /\ copies = [m \in Messages |-> 0]

Call == /\ message = None
        /\ message' \in Messages /\ result' = "none"
        /\ UNCHANGED copies

Return == /\ message # None
          /\ message' = None /\ result' \in {"ok", "error"}
          /\ copies' \in {copies, [copies EXCEPT ![message] = @ + 1]}

\* The process is started again, or the call was given up.
Restart == message' = None /\ result' = "none" /\ UNCHANGED copies

HandoverNext == Call \/ Return \/ Restart

HandoverSpec == HandoverInit /\ [][HandoverNext]_handover
=============================================================================
