--------------------------- MODULE StreamChannel ---------------------------
(***************************************************************************)
(* common/apsi/network/stream_channel.cpp: one direction of a channel over *)
(* a stream, from the threads of one end to those of the other.  Every     *)
(* buffer is a unit of the stream.  A header and the body it announces are *)
(* written under one lock and read under one lock, but a receive that      *)
(* rejects the header leaves the body in the stream.                       *)
(*                                                                         *)
(* The stream is a pipe, whose reader waits for the writer, or a           *)
(* stringstream used by both ends in turn, which ends where its content    *)
(* ends now.  A stream that has once come to its end stays failed: nobody  *)
(* clears its state.                                                       *)
(***************************************************************************)
EXTENDS Messages

CONSTANTS Writers, Readers, NoThread,   \* threads at the ends of the stream
          MaxSent                       \* bound: messages

ASSUME StreamAssumption == NoThread \notin Writers \cup Readers

VARIABLES
    setup,          \* direction, kind of stream and version of the writer
    stream,         \* the units written and not yet read
    ended,          \* no more will be written
    failed,         \* failbit of the reader's stream
    send_mutex, receive_mutex,   \* their owners
    todo,           \* writer -> units of its message still to be written
    call,           \* reader -> the receive call it is in
    sent, got,      \* history: messages sent, and returned by receive calls
    refused,        \* history: calls that failed, with the unit they began at
    receives        \* number of receive calls, for the bound

streamVars == <<setup, stream, ended, failed, send_mutex, receive_mutex, todo, call, sent, got,
                refused, receives>>

NoCall == [fn |-> "none"]

Sendable == IF setup.direction = "up" THEN Operations ELSE Replies

\* The units of message n.
Units(msg, n) ==
    LET body == With(SaveBody(msg), "n", n)
    IN  IF msg.kind = "result" THEN <<body>>
        ELSE <<With(SaveHeader(msg.type, setup.version), "n", n), body>>

StartsMessage(u) == u.kind \in {"header", "result"}

StreamInit ==
    /\ setup \in [direction : {"up", "down"}, piped : BOOLEAN, version : Versions]
    /\ stream = <<>> /\ ended = FALSE /\ failed = FALSE
    /\ send_mutex = NoThread /\ receive_mutex = NoThread
    /\ todo = [w \in Writers |-> <<>>] /\ call = [k \in Readers |-> NoCall]
    /\ sent = <<>> /\ got = <<>> /\ refused = {} /\ receives = 0

\* With a stringstream calls come one after the other.
MayBegin == setup.piped \/ ((\A w \in Writers : todo[w] = <<>>) /\ (\A k \in Readers : call[k] = NoCall))
-----------------------------------------------------------------------------
(***************************************************************************)
(* send                                                                    *)
(***************************************************************************)
\* Bug variant: send does not lock.
Bug_SendMutexFree(owner) == TRUE

SendMutexFree(owner) == owner = NoThread

SendBegin(w, msg) ==
    /\ ~ended /\ todo[w] = <<>> /\ MayBegin /\ Len(sent) < MaxSent
    /\ SendMutexFree(send_mutex) /\ send_mutex' = w
    /\ sent' = Append(sent, msg)
    /\ todo' = [todo EXCEPT ![w] = Units(msg, Len(sent) + 1)]
    /\ UNCHANGED <<setup, stream, ended, failed, receive_mutex, call, got, refused, receives>>

\* Bug variant: the lock covers the header only.
Bug_Unlocked(rest) == TRUE

Unlocked(rest) == rest = <<>>

WriteUnit(w) ==
    /\ ~ended /\ todo[w] # <<>>
    /\ stream' = Append(stream, Head(todo[w]))
    /\ todo' = [todo EXCEPT ![w] = Tail(@)]
    /\ send_mutex' = IF Unlocked(Tail(todo[w])) /\ send_mutex = w THEN NoThread ELSE send_mutex
    /\ UNCHANGED <<setup, ended, failed, receive_mutex, call, sent, got, refused, receives>>

\* The writing process ends, perhaps within a unit: too early in it for the
\* buffer to be verified, or so late that only the end of its data is missing.
WriterEnds ==
    /\ ~ended /\ setup.piped /\ ended' = TRUE
    /\ \/ UNCHANGED stream
       \/ \E w \in Writers, cut \in {"early", "late"} :
             /\ todo[w] # <<>>
             /\ stream' = Append(stream, With(Head(todo[w]), "cut", cut))
    /\ UNCHANGED <<setup, failed, send_mutex, receive_mutex, todo, call, sent, got, refused, receives>>
-----------------------------------------------------------------------------
(***************************************************************************)
(* receive_operation, receive_response, receive_result                     *)
(***************************************************************************)
Cut(u) == IF "cut" \in DOMAIN u THEN u.cut ELSE "no"

\* A header cut late has lost its version; other units their last data.
AsRead(u) == IF Cut(u) # "late" THEN u
             ELSE IF u.kind = "header" THEN [u EXCEPT !.version = 0] ELSE Damaged(u)

Nothing == [kind |-> "nothing"]

\* What read_from_stream finds.
NextUnit == IF failed \/ stream = <<>> \/ Cut(Head(stream)) = "early" THEN Nothing
            ELSE AsRead(Head(stream))

\* A pipe makes the reader wait.
CanRead == failed \/ stream # <<>> \/ ended \/ ~setup.piped

Consume ==
    /\ CanRead
    /\ failed' = (failed \/ stream = <<>> \/ Cut(Head(stream)) # "no")
    /\ stream' = IF failed \/ stream = <<>> THEN stream ELSE Tail(stream)

\* A call and whether it began at the first unit of a message.
Call(fn, expected, context) ==
    [fn |-> fn, expected |-> expected, context |-> context,
     header |-> Nothing, began |-> Nothing]

NeedsContext(c) ==
    \/ c.fn = "result"
    \/ c.fn = "operation" /\ c.expected \in {"unknown", "query"}

\* Without the context it needs a call returns at once and reads nothing.
ReceiveBegin(k, c) ==
    /\ call[k] = NoCall /\ MayBegin /\ receives < MaxReceives
    /\ receives' = receives + 1
    /\ IF NeedsContext(c) /\ ~ValidContext(c.context)
       THEN UNCHANGED <<call, receive_mutex>>
       ELSE /\ receive_mutex = NoThread /\ receive_mutex' = k
            /\ call' = [call EXCEPT ![k] = c]
    /\ UNCHANGED <<setup, stream, ended, failed, send_mutex, todo, sent, got, refused>>

EndCall(k) == call' = [call EXCEPT ![k] = NoCall] /\ receive_mutex' = NoThread

Fails(k, began, what) ==
    EndCall(k) /\ got' = got
    /\ refused' = refused \cup {[began |-> began, expected |-> call[k].expected, fn |-> call[k].fn,
                                context |-> call[k].context, outcome |-> what]}

Returns(k, msg) == EndCall(k) /\ got' = Append(got, msg) /\ UNCHANGED refused

HeaderAccepted(h, expected) ==
    /\ h.version = ThisVersion
    /\ expected \in {"unknown", h.type}
    /\ h.type \in {"parms", "oprf", "query"}

ReadHeader(k) ==
    /\ call[k] # NoCall /\ call[k].fn # "result" /\ call[k].header = Nothing
    /\ Consume
    /\ LET u == NextUnit
           h == IF u = Nothing THEN Throws("runtime_error") ELSE LoadHeader(u)
       IN  IF h.ok /\ HeaderAccepted(h.value, call[k].expected)
           THEN /\ call' = [call EXCEPT ![k].header = h.value, ![k].began = u]
                /\ UNCHANGED <<receive_mutex, got, refused>>
           ELSE Fails(k, u, "null")
    /\ UNCHANGED <<setup, ended, send_mutex, todo, sent, receives>>

LoadBody(c, u) ==
    CASE c.fn = "operation" -> LoadOperation(u, c.header.type, c.context)
      [] c.fn = "response"  -> LoadResponse(u, c.header.type)
      [] OTHER              -> LoadResult(u, c.context)

\* receive_response lets an invalid_argument through.
ReadBody(k) ==
    /\ call[k] # NoCall /\ (call[k].fn = "result" \/ call[k].header # Nothing)
    /\ Consume
    /\ LET u == NextUnit
           r == IF u = Nothing THEN Throws("runtime_error") ELSE LoadBody(call[k], u)
           began == IF call[k].fn = "result" THEN u ELSE call[k].began
       IN  IF r.ok THEN Returns(k, r.value)
           ELSE Fails(k, began, IF call[k].fn = "response" /\ r.what = "invalid_argument"
                                THEN "threw" ELSE "null")
    /\ UNCHANGED <<setup, ended, send_mutex, todo, sent, receives>>

\* What the readers of either direction call.
Calls ==
    IF setup.direction = "up"
    THEN {Call("operation", e, x) : e \in {"unknown", "parms", "oprf", "query"},
                                    x \in Callers \cup {NoContext}}
    ELSE {Call("response", e, NoContext) : e \in {"unknown", "parms", "oprf", "query"}}
         \cup {Call("result", "unknown", x) : x \in Callers \cup {NoContext}}

StreamNext ==
    \/ \E w \in Writers : WriteUnit(w) \/ \E msg \in Sendable : SendBegin(w, msg)
    \/ WriterEnds
    \/ \E k \in Readers : ReadHeader(k) \/ ReadBody(k) \/ \E c \in Calls : ReceiveBegin(k, c)

StreamSpec == StreamInit /\ [][StreamNext]_streamVars
-----------------------------------------------------------------------------
\* Receive calls return what was sent, unchanged, in order and none of it twice;
\* only the last message of a writer that ended within it may come damaged
\* (read_from_stream does not look at the state of the stream, utils.cpp:67).
StreamInOrder ==
    /\ \A i, j \in DOMAIN got : i < j => got[i].n < got[j].n
    /\ \A i \in DOMAIN got :
         IF IsDamaged(got[i]) THEN ended /\ got[i].n = Len(sent)
         ELSE got[i] = With(Delivered(sent[got[i].n]), "n", got[i].n)

\* A call that finds a message it may take at the head of the stream returns
\* it, whatever other threads send and receive meanwhile.
StreamGoesThrough ==
    \A r \in refused :
        setup.version = ThisVersion /\ StartsMessage(r.began) /\ Acceptable(sent[r.began.n], r) => ended

Misaligned == stream # <<>> /\ ~StartsMessage(Head(stream))

\* A receive that begins at the body of a message an earlier one has rejected
\* fails, and leaves the stream at the next message.
Realigns ==
    \A k \in Readers :
        call[k] # NoCall /\ call[k].header = Nothing /\ Misaligned /\ call'[k] # call[k]
            => call'[k] = NoCall /\ got' = got /\ ~Misaligned'
=============================================================================
