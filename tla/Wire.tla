-------------------------------- MODULE Wire --------------------------------
(***************************************************************************)
(* Both kinds of channel, one in each behaviour: a StreamChannel in one of *)
(* its directions, or the ZMQChannel of a sender with those of its         *)
(* receivers.  What travels is the same, and so is what it is to arrive    *)
(* as.                                                                     *)
(***************************************************************************)
EXTENDS StreamChannel, ZMQChannel

VARIABLE medium   \* "stream" or "zmq"

vars == <<medium, streamVars, zmqVars>>

\* The channel that is not in use has but one initial state.
Init == /\ medium \in {"stream", "zmq"}
        /\ StreamInit /\ ZmqInit
        /\ medium = "stream" => version = [c \in Clients |-> ThisVersion]
        /\ medium = "zmq" => setup = [direction |-> "up", piped |-> TRUE, version |-> ThisVersion]

Next == /\ UNCHANGED medium
        /\ \/ medium = "stream" /\ StreamNext /\ UNCHANGED zmqVars
           \/ medium = "zmq" /\ ZmqNext /\ UNCHANGED streamVars

Spec == Init /\ [][Next]_vars

\* What is received, over either channel, is what was sent.
InOrder == StreamInOrder /\ ZmqInOrder
\* What a call may take it returns.
GoesThrough == StreamGoesThrough /\ ZmqGoesThrough
\* A rejected header costs one more call.
Realigned == [][Realigns]_streamVars
=============================================================================
