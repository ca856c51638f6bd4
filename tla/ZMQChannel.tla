----------------------------- MODULE ZMQChannel -----------------------------
(***************************************************************************)
(* common/apsi/network/zmq/zmq_channel.cpp: the ROUTER socket of a sender  *)
(* and the DEALER sockets of its receivers.  A message is one multipart    *)
(* unit; the router puts the routing id of the dealer in front of what it  *)
(* receives and takes it off what it sends.  Messages are taken from a     *)
(* socket under a lock and parsed without it.                              *)
(***************************************************************************)
EXTENDS Messages

CONSTANTS Clients,               \* the receivers' channels, each with a random id
          MaxAsked, MaxReplies   \* bounds: operations of a client, and replies

VARIABLES
    router,       \* the sender's channel: end_point_ and socket
    dealer,       \* client -> its channel
    version,      \* client -> its serialization version
    up, down,     \* client -> messages on the way
    held,         \* ZMQSenderOperations received and not answered for good
    asked,        \* history: client -> operations sent
    replied,      \* history: replies sent, each with the operation it answers
    taken,        \* history: client -> replies received
    rejected,     \* history: messages a receive call has rejected
    takes         \* number of receive calls, for the bound

zmqVars == <<router, dealer, version, up, down, held, asked, replied, taken, rejected, takes>>

\* end_point_ is set before bind() or connect() is tried.
ChannelStates == {"new", "open", "failed", "closed"}

ZmqInit ==
    /\ router = "new" /\ dealer = [c \in Clients |-> "new"]
    /\ version \in [Clients -> Versions]
    /\ up = [c \in Clients |-> <<>>] /\ down = [c \in Clients |-> <<>>]
    /\ held = {} /\ asked = [c \in Clients |-> <<>>] /\ replied = <<>>
    /\ taken = [c \in Clients |-> <<>>] /\ rejected = {} /\ takes = 0

History == <<asked, replied, taken, rejected, takes>>

Bind ==
    /\ router = "new" /\ router' \in {"open", "failed"}
    /\ UNCHANGED <<dealer, version, up, down, held>> /\ UNCHANGED History

Connect(c) ==
    /\ dealer[c] = "new" /\ \E s \in {"open", "failed"} : dealer' = [dealer EXCEPT ![c] = s]
    /\ UNCHANGED <<router, version, up, down, held>> /\ UNCHANGED History

\* What the client has sent still arrives; what is on the way to it does not.
Disconnect(c) ==
    /\ dealer[c] \in {"open", "failed"} /\ dealer' = [dealer EXCEPT ![c] = "closed"]
    /\ down' = [down EXCEPT ![c] = <<>>]
    /\ UNCHANGED <<router, version, up, held>> /\ UNCHANGED History

DisconnectRouter ==
    /\ router \in {"open", "failed"} /\ router' = "closed"
    /\ UNCHANGED <<dealer, version, up, down, held>> /\ UNCHANGED History

Message(msg, v, n) ==
    [header |-> IF msg.kind = "result" THEN [kind |-> "none"] ELSE SaveHeader(msg.type, v),
     body |-> With(SaveBody(msg), "n", n)]

SendOperation(c, msg) ==
    /\ dealer[c] = "open" /\ Len(asked[c]) < MaxAsked
    /\ asked' = [asked EXCEPT ![c] = Append(@, msg)]
    /\ up' = [up EXCEPT ![c] = Append(@, Message(msg, version[c], Len(asked'[c])))]
    /\ UNCHANGED <<router, dealer, version, down, held, replied, taken, rejected, takes>>

HeaderFits(h, expected) ==
    h.version = ThisVersion /\ expected \in {"unknown", h.type}

Refuse(fn, c, m, expected, context) ==
    rejected' = rejected \cup {[fn |-> fn, client |-> c, n |-> m.body.n, expected |-> expected,
                                context |-> context]}

\* Bug variant: the replies go to whoever sent the latest operation.
Bug_Hold(c, msg) == {[client_id |-> c, n |-> h.n, asker |-> h.asker] : h \in held}
                        \cup {[client_id |-> c, n |-> msg.n, asker |-> c]}

\* A ZMQSenderOperation; the client_id is the first part of the message.
Hold(c, msg) == held \cup {[client_id |-> c, n |-> msg.n, asker |-> c]}

\* Of several clients the router takes any.
ReceiveOperation(expected, context) ==
    /\ router = "open" /\ takes < MaxReceives /\ takes' = takes + 1
    /\ IF ~ValidContext(context) /\ expected \in {"unknown", "query"}
       THEN UNCHANGED <<up, held, rejected>>
       ELSE \/ (\A c \in Clients : up[c] = <<>>) /\ UNCHANGED <<up, held, rejected>>
            \/ \E c \in Clients :
                 /\ up[c] # <<>> /\ up' = [up EXCEPT ![c] = Tail(@)]
                 /\ LET m == Head(up[c])
                        r == LoadOperation(m.body, m.header.type, context)
                    IN  IF HeaderFits(m.header, expected) /\ r.ok
                        THEN held' = Hold(c, r.value) /\ UNCHANGED rejected
                        ELSE Refuse("operation", c, m, expected, context) /\ UNCHANGED held
    /\ UNCHANGED <<router, dealer, version, down, asked, replied, taken>>

\* A router drops what it has no route for, without an error.
Reply(h, msg) ==
    /\ router = "open" /\ Len(replied) < MaxReplies
    /\ replied' = Append(replied, [asker |-> h.asker, msg |-> msg])
    /\ down' = IF dealer[h.client_id] = "open"
               THEN [down EXCEPT ![h.client_id] = Append(@, Message(msg, ThisVersion, Len(replied')))]
               ELSE down
    /\ UNCHANGED <<router, dealer, version, up, held, asked, taken, rejected, takes>>

Take(c) == dealer[c] = "open" /\ takes < MaxReceives /\ takes' = takes + 1
Untouched == UNCHANGED <<router, dealer, version, up, held, asked, replied>>

\* receive_response and receive_result: a message with another number of parts
\* throws, and is gone as well.
ReceiveResponse(c, expected) ==
    /\ Take(c) /\ down[c] # <<>> /\ down' = [down EXCEPT ![c] = Tail(@)]
    /\ LET m == Head(down[c])
           r == LoadResponse(m.body, m.header.type)
       IN  IF m.body.kind # "result" /\ HeaderFits(m.header, expected) /\ r.ok
           THEN taken' = [taken EXCEPT ![c] = Append(@, r.value)] /\ UNCHANGED rejected
           ELSE Refuse("response", c, m, expected, NoContext) /\ UNCHANGED taken
    /\ Untouched

ReceiveResult(c, context) ==
    /\ Take(c)
    /\ IF ~ValidContext(context) THEN UNCHANGED <<down, taken, rejected>>
       ELSE /\ down[c] # <<>> /\ down' = [down EXCEPT ![c] = Tail(@)]
            /\ LET m == Head(down[c])
                   r == LoadResult(m.body, context)
               IN  IF m.body.kind = "result" /\ r.ok
                   THEN taken' = [taken EXCEPT ![c] = Append(@, r.value)] /\ UNCHANGED rejected
                   ELSE Refuse("result", c, m, "unknown", context) /\ UNCHANGED taken
    /\ Untouched

ExpectedTypes == {"unknown", "parms", "oprf", "query"}

ZmqNext ==
    \/ Bind \/ DisconnectRouter
    \/ \E c \in Clients :
          \/ Connect(c) \/ Disconnect(c)
          \/ \E msg \in Operations : SendOperation(c, msg)
          \/ \E e \in ExpectedTypes : ReceiveResponse(c, e)
          \/ \E x \in Callers \cup {NoContext} : ReceiveResult(c, x)
    \/ \E e \in ExpectedTypes, x \in Callers \cup {NoContext} : ReceiveOperation(e, x)
    \/ \E h \in held, msg \in Replies : Reply(h, msg)

ZmqSpec == ZmqInit /\ [][ZmqNext]_zmqVars
-----------------------------------------------------------------------------
\* Each receiver gets what the sender has sent, unchanged, in order and none of
\* it twice, and the sender holds what receivers have asked for.
ZmqInOrder ==
    /\ \A c \in Clients : \A i, j \in DOMAIN taken[c] : i < j => taken[c][i].n < taken[c][j].n
    /\ \A c \in Clients : \A i \in DOMAIN taken[c] :
          taken[c][i] = With(Delivered(replied[taken[c][i].n].msg), "n", taken[c][i].n)
    /\ \A h \in held : h.n \in DOMAIN asked[h.asker]

\* A receiver gets the replies to its own operations only, whichever other
\* receivers the sender serves meanwhile.
AnswersReachAsker ==
    \A c \in Clients : \A i \in DOMAIN taken[c] : replied[taken[c][i].n].asker = c

\* A call that takes a message it may take from the socket returns it.
ZmqGoesThrough ==
    \A r \in rejected :
        IF r.fn = "operation"
        THEN ~Acceptable(asked[r.client][r.n], r) \/ version[r.client] # ThisVersion
        ELSE ~Acceptable(replied[r.n].msg, r)
=============================================================================
