----------------------------- MODULE WireProofs -----------------------------
(***************************************************************************)
(* Theorems about Wire and the channels it is made of, for any traffic:    *)
(* first about StreamChannel with any number of writing and reading        *)
(* threads, where messages are neither mixed up nor reordered and are read *)
(* as they were written; then about ZMQChannel with any number of          *)
(* receivers, where replies are routed to the receiver that asked and      *)
(* arrive in the order in which they were sent; and then about both.       *)
(***************************************************************************)
EXTENDS Wire, TLAPS

(***************************************************************************)
(* The units of a message, and what is read of its body: the whole of it,  *)
(* or what a writer has left of it that ended late within it.              *)
(***************************************************************************)
Traffic == Operations \cup Replies

Header(msg, n) == With(SaveHeader(msg.type, setup.version), "n", n)
Body(msg, n)   == With(SaveBody(msg), "n", n)
ReadAs(msg, n) == With(Delivered(msg), "n", n)
Torn(msg, n)   == Damaged(With(Body(msg, n), "cut", "late"))

Numbers == Nat \ {0}
Headers == {Header(msg, n) : msg \in Traffic, n \in Numbers}
Bodies  == {Body(msg, n) : msg \in Traffic, n \in Numbers}
Cuts    == {With(u, "cut", cut) : u \in Headers \cup Bodies, cut \in {"early", "late"}}
Pieces  == Headers \cup Bodies \cup Cuts

LEMMA MessageFields ==
    ASSUME NEW msg \in Traffic
    PROVE  /\ {"n", "cut", "damaged"} \cap DOMAIN msg = {} /\ "kind" \in DOMAIN msg
           /\ msg.kind \in {"operation", "response", "result"}
           /\ msg.kind # "result" => "type" \in DOMAIN msg /\ msg.type \in {"parms", "oprf", "query"}
           /\ msg.kind = "operation" => WellFormedOperation(msg)
           /\ msg.kind # "operation" => msg \in Responses \cup Results
<1>1. CASE msg \in Operations
    <2>1. WellFormedOperation(msg)
        BY <1>1, TrafficAssumption, Zenon
    <2>2. msg.kind = "operation" /\ msg.type \in {"parms", "oprf", "query"}
        BY <2>1, Zenon DEF WellFormedOperation
    <2>3. DOMAIN msg = OperationFields(msg.type)
        BY <2>1 DEF WellFormedOperation
    <2>4. {"n", "cut", "damaged"} \cap DOMAIN msg = {} /\ "kind" \in DOMAIN msg /\ "type" \in DOMAIN msg
        BY <2>2, <2>3 DEF OperationFields
    <2> QED
        BY <2>1, <2>2, <2>4
<1>2. CASE msg \in Replies
    <2>1. msg \in Responses \cup Results
        BY <1>2, TrafficAssumption, Zenon
    <2> QED
        BY <2>1 DEF Responses, Results
<1> QED
    BY <1>1, <1>2 DEF Traffic

LEMMA SavedFields ==
    ASSUME NEW msg \in Traffic
    PROVE  /\ DOMAIN SaveBody(msg) = DOMAIN msg /\ SaveBody(msg).kind = msg.kind
           /\ msg.kind # "result" => SaveBody(msg).type = msg.type
           /\ DOMAIN Delivered(msg) = DOMAIN msg
<1>1. DOMAIN SaveBody(msg) = DOMAIN msg /\ SaveBody(msg).kind = msg.kind
    BY MessageFields DEF SaveBody
<1>2. msg.kind # "result" => SaveBody(msg).type = msg.type
    BY MessageFields DEF SaveBody
<1>3. DOMAIN Delivered(msg) = DOMAIN msg
    BY DEF Delivered
<1> QED
    BY <1>1, <1>2, <1>3

LEMMA BodyFields ==
    ASSUME NEW msg \in Traffic, NEW n
    PROVE  /\ DOMAIN Body(msg, n) = DOMAIN msg \cup {"n"} /\ Body(msg, n).n = n
           /\ Body(msg, n).kind = msg.kind
           /\ msg.kind # "result" => Body(msg, n).type = msg.type
           /\ ReadAs(msg, n).n = n /\ ~IsDamaged(ReadAs(msg, n))
<1>1. DOMAIN Body(msg, n) = DOMAIN msg \cup {"n"} /\ Body(msg, n).n = n
    BY SavedFields DEF Body, With
<1>2. Body(msg, n).kind = msg.kind /\ (msg.kind # "result" => Body(msg, n).type = msg.type)
    BY SavedFields, MessageFields DEF Body, With
<1>3. ReadAs(msg, n).n = n /\ DOMAIN ReadAs(msg, n) = DOMAIN msg \cup {"n"}
    BY SavedFields DEF ReadAs, With
<1> QED
    BY <1>1, <1>2, <1>3, MessageFields DEF IsDamaged

LEMMA HeaderFields ==
    ASSUME NEW msg, NEW n
    PROVE  /\ DOMAIN Header(msg, n) = {"kind", "type", "version", "n"}
           /\ Header(msg, n).n = n /\ Header(msg, n).kind = "header"
BY DEF Header, SaveHeader, With

LEMMA PieceKinds ==
    ASSUME NEW msg \in Traffic, NEW n
    PROVE  Header(msg, n).kind = "header" /\ Body(msg, n).kind = msg.kind /\ msg.kind # "header"
<1>1. Header(msg, n).kind = "header"
    BY HeaderFields, Zenon
<1>2. Body(msg, n).kind = msg.kind
    BY BodyFields, Zenon
<1>3. msg.kind \in {"operation", "response", "result"}
    BY MessageFields, Zenon
<1> QED
    BY <1>1, <1>2, <1>3

LEMMA TornFields ==
    ASSUME NEW msg \in Traffic, NEW n
    PROVE  /\ Torn(msg, n).n = n /\ IsDamaged(Torn(msg, n)) /\ Torn(msg, n).kind = msg.kind
           /\ msg.kind # "result" => Torn(msg, n).type = msg.type
<1> DEFINE u == With(Body(msg, n), "cut", "late")
<1>1. /\ DOMAIN u = DOMAIN msg \cup {"n", "cut"} /\ u.n = n /\ u.kind = msg.kind
      /\ msg.kind # "result" => u.type = msg.type
    <2> DEFINE b == Body(msg, n)
    <2>1. DOMAIN b = DOMAIN msg \cup {"n"} /\ b.n = n /\ b.kind = msg.kind
        BY BodyFields
    <2>2. msg.kind # "result" => b.type = msg.type /\ "type" \in DOMAIN b
        BY <2>1, BodyFields, MessageFields
    <2>3. "kind" \in DOMAIN b
        BY <2>1, MessageFields
    <2> HIDE DEF b
    <2>4. /\ DOMAIN With(b, "cut", "late") = DOMAIN b \cup {"cut"}
          /\ \A x \in DOMAIN b : x # "cut" => With(b, "cut", "late")[x] = b[x]
        BY DEF With
    <2>5. With(b, "cut", "late") = u
        BY DEF b
    <2> QED
        BY <2>1, <2>2, <2>3, <2>4, <2>5
<1> HIDE DEF u
<1>2. /\ DOMAIN Damaged(u) = DOMAIN u \cup {"damaged"}
      /\ \A x \in DOMAIN u : x # "damaged" => Damaged(u)[x] = u[x]
    BY DEF Damaged, With
<1>3. Damaged(u) = Torn(msg, n)
    BY DEF u, Torn
<1> QED
    BY <1>1, <1>2, <1>3, MessageFields DEF IsDamaged

(***************************************************************************)
(* Loading the body of a message: if it loads it is what was sent.         *)
(***************************************************************************)
LEMMA DataLoads ==
    ASSUME NEW d, d = [e \in DOMAIN d |-> d[e]]
    PROVE  LoadQueryParts(SavedParts(d)).ok /\ LoadQueryParts(SavedParts(d)).value = d
<1> DEFINE parts == SavedParts(d)
<1>1. \A p \in parts : p[1] \in DOMAIN d /\ p[2] = d[p[1]] /\ p = <<p[1], d[p[1]]>>
    BY DEF SavedParts
<1>2. \A e \in DOMAIN d : <<e, d[e]>> \in parts /\ <<e, d[e]>>[1] = e
    BY DEF SavedParts
<1> HIDE DEF parts
<1>3. \A p, q \in parts : p[1] = q[1] => p = q
    BY <1>1
<1>4. {p[1] : p \in parts} = DOMAIN d
    BY <1>1, <1>2
<1>5. \A e \in DOMAIN d : (CHOOSE p \in parts : p[1] = e)[2] = d[e]
    BY <1>1, <1>2
<1>6. [e \in {p[1] : p \in parts} |-> (CHOOSE p \in parts : p[1] = e)[2]] = d
    BY <1>4, <1>5
<1> QED
    BY <1>3, <1>6 DEF LoadQueryParts, Ok, parts

LEMMA BodyRead ==
    ASSUME NEW msg \in Traffic, NEW n, NEW c, LoadBody(c, Body(msg, n)).ok
    PROVE  LoadBody(c, Body(msg, n)).value = ReadAs(msg, n)
<1> DEFINE u == Body(msg, n)
<1>0. u.kind = msg.kind /\ (msg.kind # "result" => u.type = msg.type)
    BY BodyFields
<1>1. CASE c.fn = "operation" /\ c.header.type = "query"
    <2>1. LoadBody(c, u) = LoadQuery(u, c.context)
        BY <1>1 DEF LoadBody, LoadOperation
    <2>2. msg.kind = "operation" /\ msg.type = "query"
        BY <1>0, <2>1, MessageFields DEF LoadQuery, Throws
    <2>3. LoadQuery(u, c.context).value = [u EXCEPT !.data = LoadQueryParts(u.data).value]
        BY <2>1 DEF LoadQuery, Throws, Ok
    <2>4. /\ DOMAIN msg = {"kind", "type", "relin_keys", "data"} /\ msg = [f \in DOMAIN msg |-> msg[f]]
          /\ msg.data = [e \in DOMAIN msg.data |-> msg.data[e]]
        BY <2>2, MessageFields DEF WellFormedOperation, OperationFields
    <2>5. SaveBody(msg) = [msg EXCEPT !.data = SavedParts(msg.data)]
        BY <2>2 DEF SaveBody
    <2>6. u.data = SavedParts(msg.data)
        BY <2>4, <2>5 DEF Body, With
    <2>7. LoadQueryParts(u.data).value = msg.data
        BY <2>4, <2>6, DataLoads
    <2>8. Delivered(msg) = msg
        BY <2>2 DEF Delivered
    <2>9. [u EXCEPT !.data = msg.data] = With(msg, "n", n)
        BY <2>4, <2>5 DEF Body, With
    <2> QED
        BY <2>1, <2>3, <2>7, <2>8, <2>9 DEF ReadAs
<1>2. CASE c.fn = "operation" /\ c.header.type # "query"
    <2>1. LoadBody(c, u) = LoadPlainOperation(u, c.header.type, NoContext)
        BY <1>2 DEF LoadBody, LoadOperation
    <2>2. msg.kind = "operation" /\ msg.type # "query" /\ LoadBody(c, u).value = u
        BY <1>0, <1>2, <2>1 DEF LoadPlainOperation, Throws, Ok
    <2> QED
        BY <2>2 DEF ReadAs, Delivered, Body, SaveBody
<1>3. CASE c.fn = "response"
    <2>1. LoadBody(c, u) = LoadResponse(u, c.header.type)
        BY <1>3 DEF LoadBody
    <2>2. msg.kind = "response" /\ LoadBody(c, u).value = u
        BY <1>0, <2>1 DEF LoadResponse, Throws, Ok
    <2> QED
        BY <2>2 DEF ReadAs, Delivered, Body, SaveBody
<1>4. CASE c.fn \notin {"operation", "response"}
    <2>1. LoadBody(c, u) = LoadResult(u, c.context)
        BY <1>4 DEF LoadBody
    <2>2. /\ msg.kind = "result"
          /\ LoadBody(c, u).value
               = [u EXCEPT !.nonce_byte_count = IF u.label_byte_count = 0 THEN 0 ELSE @]
        BY <1>0, <2>1 DEF LoadResult, Throws, Ok
    <2>3. msg \in Results
        BY <2>2, MessageFields DEF Responses
    <2>4. SaveBody(msg) = msg /\ u.label_byte_count = msg.label_byte_count
        BY <2>2, <2>3 DEF SaveBody, Body, With, Results
    <2>5. CASE msg.label_byte_count = 0
        <3>1. [With(msg, "n", n) EXCEPT !.nonce_byte_count = 0]
                = With([msg EXCEPT !.nonce_byte_count = 0], "n", n)
            BY DEF With
        <3> QED
            BY <2>2, <2>4, <2>5, <3>1 DEF ReadAs, Delivered, Body
    <2>6. CASE msg.label_byte_count # 0
        <3>1. [u EXCEPT !.nonce_byte_count = @] = u
            BY DEF Body, With
        <3> QED
            BY <2>2, <2>4, <2>6, <3>1 DEF ReadAs, Delivered, Body
    <2> QED
        BY <2>5, <2>6
<1> QED
    BY <1>1, <1>2, <1>3, <1>4

LEMMA TornRead ==
    ASSUME NEW msg \in Traffic, NEW n, NEW c, LoadBody(c, Torn(msg, n)).ok
    PROVE  LoadBody(c, Torn(msg, n)).value = Torn(msg, n)
<1> DEFINE u == Torn(msg, n)
<1>1. IsDamaged(u)
    BY TornFields
<1> HIDE DEF u
<1>2. CASE c.fn = "operation"
    BY <1>1, <1>2 DEF u, LoadBody, LoadOperation, LoadQuery, LoadPlainOperation, Throws, Ok
<1>3. CASE c.fn = "response"
    BY <1>1, <1>3 DEF u, LoadBody, LoadResponse, Throws, Ok
<1>4. CASE c.fn \notin {"operation", "response"}
    BY <1>1, <1>4 DEF u, LoadBody, LoadResult, Throws, Ok
<1> QED
    BY <1>2, <1>3, <1>4

LEMMA HeaderFails ==
    ASSUME NEW u, NEW c, u.kind = "header" PROVE ~LoadBody(c, u).ok
BY DEF LoadBody, LoadOperation, LoadQuery, LoadPlainOperation, LoadResponse, LoadResult, Throws, Ok
-----------------------------------------------------------------------------
(***************************************************************************)
(* The invariant.  Numbers never decrease along the stream, and no unit    *)
(* follows the body of its own message; a unit that is cut is the last     *)
(* there will be.  A writer that has units left holds the lock, they are   *)
(* those of the last message, and its body is not in the stream yet.       *)
(***************************************************************************)
IsBody(u) == u.kind # "header"

OfSent(u) ==
    /\ u.n \in DOMAIN sent
    /\ u \in {Header(sent[u.n], u.n), Body(sent[u.n], u.n)}

Rest(w) == LET n == Len(sent) IN
    {<<Header(sent[n], n), Body(sent[n], n)>>, <<Body(sent[n], n)>>}

Whole(u) == OfSent(u) /\ u \in Headers \cup Bodies

CutShort(u) ==
    /\ ended /\ u.n = Len(sent)
    /\ \E v \in Headers \cup Bodies, cut \in {"early", "late"} : Whole(v) /\ u = With(v, "cut", cut)

Last == Len(sent)

Values == {ReadAs(msg, n) : msg \in Traffic, n \in Numbers} \cup {Torn(msg, n) : msg \in Traffic, n \in Numbers}

Rightly(g) ==
    /\ g.n \in DOMAIN sent
    /\ \/ g = ReadAs(sent[g.n], g.n)
       \/ g = Torn(sent[g.n], g.n) /\ ended /\ g.n = Last

Waiting == {w \in Writers : todo[w] # <<>>}

StreamInv ==
    /\ sent \in Seq(Traffic) /\ stream \in Seq(Pieces) /\ got \in Seq(Values)
    /\ todo = [w \in Writers |-> todo[w]]
    /\ \A w \in Waiting : send_mutex = w /\ sent # <<>> /\ todo[w] \in Rest(w)
    /\ \A i \in DOMAIN stream : Whole(stream[i]) \/ CutShort(stream[i])
    /\ \A i, j \in DOMAIN stream : i < j =>
          stream[i].n <= stream[j].n /\ (IsBody(stream[i]) => stream[i].n < stream[j].n)
    /\ \A i \in DOMAIN got : Rightly(got[i])
    /\ \A i, j \in DOMAIN got : i < j => got[i].n < got[j].n
    /\ \A i \in DOMAIN got, j \in DOMAIN stream : got[i].n < stream[j].n
    /\ ~ended /\ Waiting # {} =>
          /\ \A i \in DOMAIN got : got[i].n < Last
          /\ \A j \in DOMAIN stream : IsBody(stream[j]) => stream[j].n < Last

LEMMA StreamInvInit == StreamInit => StreamInv
BY DEF StreamInit, StreamInv, Waiting

LEMMA PieceNumber ==
    ASSUME NEW u \in Headers \cup Bodies
    PROVE  /\ u.n \in Numbers /\ {"n", "kind"} \subseteq DOMAIN u
           /\ "cut" \notin DOMAIN u /\ "damaged" \notin DOMAIN u
           /\ u \in Headers => u.kind = "header" /\ DOMAIN u = {"kind", "type", "version", "n"}
           /\ u \in Bodies => u.kind # "header"
<1>1. CASE u \in Headers
    <2>1. PICK msg \in Traffic, n \in Numbers : u = Header(msg, n)
        BY <1>1 DEF Headers
    <2>2. DOMAIN u = {"kind", "type", "version", "n"} /\ u.n = n /\ u.kind = "header"
        BY <2>1, HeaderFields
    <2>3. u \notin Bodies
        <3>1. ASSUME NEW m \in Traffic, NEW k \in Numbers, u = Body(m, k) PROVE FALSE
            <4>1. m.kind # "header"
                BY MessageFields
            <4>2. u.kind = m.kind
                BY <3>1, BodyFields
            <4> QED
                BY <2>2, <4>1, <4>2
        <3> QED
            BY <3>1 DEF Bodies
    <2> QED
        BY <2>2, <2>3
<1>2. CASE u \in Bodies
    <2>1. PICK msg \in Traffic, n \in Numbers : u = Body(msg, n)
        BY <1>2 DEF Bodies
    <2>2. /\ DOMAIN u = DOMAIN msg \cup {"n"} /\ u.n = n /\ u.kind = msg.kind
          /\ msg.kind \in {"operation", "response", "result"}
          /\ {"n", "cut", "damaged"} \cap DOMAIN msg = {} /\ "kind" \in DOMAIN msg
        BY <2>1, BodyFields, MessageFields
    <2>3. u \notin Headers
        <3>1. ASSUME NEW m \in Traffic, NEW k \in Numbers, u = Header(m, k) PROVE FALSE
            BY <2>2, <3>1, HeaderFields
        <3> QED
            BY <3>1 DEF Headers
    <2> QED
        BY <2>2, <2>3
<1> QED
    BY <1>1, <1>2

LEMMA CutNumber ==
    ASSUME NEW v \in Headers \cup Bodies, NEW cut
    PROVE  /\ With(v, "cut", cut).n = v.n /\ With(v, "cut", cut).kind = v.kind
           /\ DOMAIN With(v, "cut", cut) = DOMAIN v \cup {"cut"} /\ With(v, "cut", cut).cut = cut
BY PieceNumber DEF With

\* Every unit in the stream has the number of a message.
LEMMA UnitNumber ==
    ASSUME StreamInv, NEW i \in DOMAIN stream
    PROVE  stream[i].n \in Numbers /\ stream[i].n <= Last /\ Last \in Nat
<1>1. stream[i].n \in DOMAIN sent
    <2>1. CASE Whole(stream[i])
        BY <2>1 DEF Whole, OfSent
    <2>2. CASE CutShort(stream[i])
        BY <2>2, CutNumber DEF CutShort, Whole, OfSent
    <2> QED
        BY <2>1, <2>2 DEF StreamInv
<1> QED
    BY <1>1 DEF StreamInv, Last, Numbers

(***************************************************************************)
(* Writers.                                                                *)
(***************************************************************************)
\* One more message does not change those before.
LEMMA SentGrows ==
    ASSUME StreamInv, ~ended, NEW msg \in Traffic, sent' = Append(sent, msg),
           UNCHANGED <<setup, ended>>
    PROVE  /\ \A u : Whole(u) => Whole(u)'
           /\ \A u : ~CutShort(u)
           /\ \A g : Rightly(g) => Rightly(g)' /\ g.n < Last'
           /\ Last' = Last + 1 /\ Last \in Nat
<1>1. sent \in Seq(Traffic)
    BY DEF StreamInv
<1>2. /\ Last' = Last + 1 /\ Last \in Nat /\ DOMAIN sent = 1 .. Last
      /\ \A k \in DOMAIN sent : k \in DOMAIN sent' /\ sent'[k] = sent[k]
    BY <1>1 DEF Last
<1>3. \A u : Whole(u) => Whole(u)'
    BY <1>2 DEF Whole, OfSent, Header, Body, Headers, Bodies
<1>4. \A u : ~CutShort(u)
    BY DEF CutShort
<1>5. \A g : Rightly(g) => Rightly(g)' /\ g.n < Last'
    BY <1>2 DEF Rightly, ReadAs, Torn
<1> QED
    BY <1>2, <1>3, <1>4, <1>5

LEMMA SamePieces ==
    ASSUME UNCHANGED setup
    PROVE  Headers' = Headers /\ Bodies' = Bodies /\ Pieces' = Pieces
<1>1. Headers' = Headers /\ Bodies' = Bodies
    BY DEF Headers, Bodies, Header, Body
<1> QED
    BY <1>1 DEF Pieces, Cuts

\* As long as the messages are the same, so are their units.
LEMMA SameUnits ==
    ASSUME UNCHANGED <<setup, sent>>
    PROVE  /\ Headers' = Headers /\ Bodies' = Bodies /\ Pieces' = Pieces /\ Last' = Last
           /\ \A u : Whole(u)' <=> Whole(u)
           /\ \A w : Rest(w)' = Rest(w)
<1>1. Headers' = Headers /\ Bodies' = Bodies /\ Pieces' = Pieces
    BY SamePieces
<1>3. \A u : OfSent(u)' <=> OfSent(u)
    BY DEF OfSent, Header, Body
<1>4. \A u : Whole(u)' <=> Whole(u)
    BY <1>1, <1>3 DEF Whole
<1>5. \A w : Rest(w)' = Rest(w)
    BY DEF Rest, Header, Body
<1> QED
    BY <1>1, <1>4, <1>5 DEF Last

LEMMA SendBeginInv ==
    ASSUME StreamInv, NEW w \in Writers, NEW msg \in Sendable, SendBegin(w, msg)
    PROVE  StreamInv'
<1>0. msg \in Traffic
    BY DEF Sendable, Traffic
<1>1. /\ ~ended /\ send_mutex = NoThread /\ send_mutex' = w /\ sent' = Append(sent, msg)
      /\ todo' = [todo EXCEPT ![w] = Units(msg, Len(sent) + 1)]
      /\ UNCHANGED <<setup, stream, ended, got>>
    BY DEF SendBegin, SendMutexFree
<1>2. Waiting = {}
    BY <1>1, StreamAssumption DEF StreamInv, Waiting
<1>3. /\ \A u : Whole(u) => Whole(u)'
      /\ \A u : ~CutShort(u)
      /\ \A g : Rightly(g) => Rightly(g)' /\ g.n < Last'
      /\ Last' = Last + 1 /\ Last \in Nat
    BY <1>0, <1>1, SentGrows
<1>4. sent' \in Seq(Traffic) /\ sent' # <<>> /\ sent'[Last + 1] = msg /\ Len(sent') = Last + 1
    BY <1>0, <1>1 DEF StreamInv, Last
<1>5. todo'[w] \in Rest(w)'
    <2>1. Units(msg, Last + 1) \in Rest(w)'
        BY <1>1, <1>4 DEF Rest, Units, Header, Body
    <2>2. todo'[w] = Units(msg, Last + 1)
        BY <1>1 DEF StreamInv, Last
    <2> QED
        BY <2>1, <2>2
<1>6. Waiting' \subseteq {w} /\ todo' = [x \in Writers |-> todo'[x]]
    BY <1>1, <1>2 DEF Waiting, StreamInv
<1>7. \A i \in DOMAIN stream' : Whole(stream[i])'
    <2> SUFFICES ASSUME NEW i \in DOMAIN stream PROVE Whole(stream[i])'
        BY <1>1
    <2>1. PICK u : u = stream[i]
        OBVIOUS
    <2>2. Whole(u)
        BY <1>3, <2>1 DEF StreamInv
    <2>3. Whole(u)' /\ stream'[i] = u
        BY <1>1, <1>3, <2>1, <2>2
    <2> QED
        BY <2>3
<1>9. Pieces' = Pieces
    BY <1>1, SamePieces
<1>10. \A i \in DOMAIN got' : Rightly(got[i])' /\ got'[i].n < Last'
    <2> SUFFICES ASSUME NEW i \in DOMAIN got PROVE Rightly(got[i])' /\ got'[i].n < Last'
        BY <1>1
    <2>1. PICK g : g = got[i]
        OBVIOUS
    <2>2. Rightly(g)
        BY <2>1 DEF StreamInv
    <2>3. Rightly(g)' /\ g.n < Last' /\ got'[i] = g
        BY <1>1, <1>3, <2>1, <2>2
    <2> QED
        BY <2>3
<1>11. \A j \in DOMAIN stream' : stream'[j].n < Last'
    <2> SUFFICES ASSUME NEW j \in DOMAIN stream PROVE stream[j].n < Last'
        BY <1>1
    <2>1. stream[j].n \in Numbers /\ stream[j].n <= Last
        BY UnitNumber
    <2> QED
        BY <1>3, <2>1 DEF Numbers
<1>8. \A x \in Waiting' : send_mutex' = x /\ sent' # <<>> /\ todo'[x] \in Rest(x)'
    BY <1>1, <1>4, <1>5, <1>6
<1> HIDE DEF Last
<1> QED
    BY <1>1, <1>4, <1>6, <1>7, <1>8, <1>9, <1>10, <1>11 DEF StreamInv

\* A unit, or the beginning of one, is written behind the others.
LEMMA UnitBehindOthers ==
    ASSUME StreamInv, ~ended, Waiting # {},
           NEW e \in Pieces, (Whole(e) \/ CutShort(e))', e.n = Last,
           stream' = Append(stream, e), UNCHANGED <<setup, sent, got>>
    PROVE  /\ stream' \in Seq(Pieces)
           /\ \A i \in DOMAIN stream' : (Whole(stream[i]) \/ CutShort(stream[i]))'
           /\ \A i, j \in DOMAIN stream' : i < j =>
                 /\ stream'[i].n <= stream'[j].n
                 /\ IsBody(stream'[i]) => stream'[i].n < stream'[j].n
           /\ \A i \in DOMAIN got, j \in DOMAIN stream' : got[i].n < stream'[j].n
           /\ \A j \in DOMAIN stream' :
                 IsBody(stream'[j]) => stream'[j].n < Last \/ stream'[j] = e
<1>1. stream \in Seq(Pieces) /\ stream' \in Seq(Pieces)
    BY DEF StreamInv
<1>2. /\ DOMAIN stream' = 1 .. Len(stream) + 1 /\ Len(stream) \in Nat
      /\ DOMAIN stream = 1 .. Len(stream)
      /\ \A i \in DOMAIN stream : stream'[i] = stream[i]
      /\ stream'[Len(stream) + 1] = e
    BY <1>1
<1>3. \A i \in DOMAIN stream : Whole(stream[i])
    BY DEF StreamInv, CutShort
<1>4. \A i \in DOMAIN stream' : (Whole(stream[i]) \/ CutShort(stream[i]))'
    <2> SUFFICES ASSUME NEW i \in DOMAIN stream' PROVE (Whole(stream[i]) \/ CutShort(stream[i]))'
        OBVIOUS
    <2>1. CASE i \in DOMAIN stream
        <3>1. stream'[i] = stream[i] /\ Whole(stream[i])
            BY <1>2, <1>3, <2>1
        <3>2. PICK u : u = stream[i]
            OBVIOUS
        <3>3. Whole(u)' /\ stream'[i] = u
            BY <3>1, <3>2, SameUnits
        <3> QED
            BY <3>3
    <2>2. CASE i = Len(stream) + 1
        BY <1>2, <2>2
    <2> QED
        BY <1>2, <2>1, <2>2
<1>5. \A i \in DOMAIN stream : /\ stream[i].n <= e.n
                               /\ IsBody(stream[i]) => stream[i].n < e.n
    BY UnitNumber DEF StreamInv
<1>6. \A i \in DOMAIN got : got[i].n < e.n
    BY DEF StreamInv
<1>7. e.n \in Nat
    BY UnitNumber DEF StreamInv, Last
<1>8. \A i, j \in DOMAIN stream' : i < j =>
                 /\ stream'[i].n <= stream'[j].n
                 /\ IsBody(stream'[i]) => stream'[i].n < stream'[j].n
    <2> SUFFICES ASSUME NEW i \in DOMAIN stream', NEW j \in DOMAIN stream', i < j
                 PROVE  /\ stream'[i].n <= stream'[j].n
                        /\ IsBody(stream'[i]) => stream'[i].n < stream'[j].n
        OBVIOUS
    <2>1. CASE j \in DOMAIN stream
        <3>1. i \in DOMAIN stream
            BY <1>2, <2>1
        <3> QED
            BY <1>2, <2>1, <3>1 DEF StreamInv
    <2>2. CASE j = Len(stream) + 1
        <3>1. i \in DOMAIN stream
            BY <1>2, <2>2
        <3> QED
            BY <1>2, <1>5, <2>2, <3>1
    <2> QED
        BY <1>2, <2>1, <2>2
<1>9. \A i \in DOMAIN got, j \in DOMAIN stream' : got[i].n < stream'[j].n
    <2> SUFFICES ASSUME NEW i \in DOMAIN got, NEW j \in DOMAIN stream' PROVE got[i].n < stream'[j].n
        OBVIOUS
    <2> QED
        BY <1>2, <1>6 DEF StreamInv
<1>10. \A j \in DOMAIN stream' : IsBody(stream'[j]) => stream'[j].n < Last \/ stream'[j] = e
    <2> SUFFICES ASSUME NEW j \in DOMAIN stream', IsBody(stream'[j])
                 PROVE  stream'[j].n < Last \/ stream'[j] = e
        OBVIOUS
    <2> QED
        BY <1>2, <1>5
<1> QED
    BY <1>1, <1>4, <1>8, <1>9, <1>10

\* What a waiting writer writes next is a unit of the last message.
LEMMA NextPiece ==
    ASSUME StreamInv, NEW w \in Waiting
    PROVE  /\ Head(todo[w]) \in Headers \cup Bodies /\ Head(todo[w]).n = Last
           /\ Whole(Head(todo[w])) /\ sent[Last] \in Traffic /\ Last \in Numbers
           /\ \/ todo[w] = <<Body(sent[Last], Last)>>
              \/ todo[w] = <<Header(sent[Last], Last), Body(sent[Last], Last)>>
<1>1. todo[w] \in Rest(w) /\ sent \in Seq(Traffic) /\ sent # <<>>
    BY DEF StreamInv
<1>2. Last \in Numbers /\ Last \in DOMAIN sent /\ sent[Last] \in Traffic
    BY <1>1 DEF Last, Numbers
<1>3. \/ todo[w] = <<Body(sent[Last], Last)>>
      \/ todo[w] = <<Header(sent[Last], Last), Body(sent[Last], Last)>>
    BY <1>1 DEF Rest, Last
<1>4. Head(todo[w]) \in {Header(sent[Last], Last), Body(sent[Last], Last)}
    BY <1>3
<1>5. Head(todo[w]).n = Last
    <2>1. Header(sent[Last], Last).n = Last
        BY HeaderFields
    <2>2. Body(sent[Last], Last).n = Last
        BY <1>2, BodyFields
    <2> QED
        BY <1>4, <2>1, <2>2
<1> QED
    BY <1>2, <1>3, <1>4, <1>5 DEF Headers, Bodies, Whole, OfSent

LEMMA WriteUnitInv ==
    ASSUME StreamInv, NEW w \in Writers, WriteUnit(w)
    PROVE  StreamInv'
<1>0. PICK e : e = Head(todo[w])
    OBVIOUS
<1>1. /\ ~ended /\ todo[w] # <<>> /\ stream' = Append(stream, e)
      /\ todo' = [todo EXCEPT ![w] = Tail(@)]
      /\ UNCHANGED <<setup, ended, sent, got>>
    BY <1>0 DEF WriteUnit
<1>2. w \in Waiting /\ Waiting \subseteq {w} /\ send_mutex = w /\ sent # <<>>
    BY <1>1 DEF StreamInv, Waiting
<1>3. /\ e \in Headers \cup Bodies /\ e.n = Last /\ Whole(e) /\ sent[Last] \in Traffic
      /\ \/ todo[w] = <<Body(sent[Last], Last)>>
         \/ todo[w] = <<Header(sent[Last], Last), Body(sent[Last], Last)>>
    BY <1>0, <1>2, NextPiece
<1>4. Whole(e)' /\ Pieces' = Pieces
    BY <1>1, <1>3, SameUnits
<1>5. /\ stream' \in Seq(Pieces)
      /\ \A i \in DOMAIN stream' : (Whole(stream[i]) \/ CutShort(stream[i]))'
      /\ \A i, j \in DOMAIN stream' : i < j =>
            /\ stream'[i].n <= stream'[j].n
            /\ IsBody(stream'[i]) => stream'[i].n < stream'[j].n
      /\ \A i \in DOMAIN got, j \in DOMAIN stream' : got[i].n < stream'[j].n
      /\ \A j \in DOMAIN stream' :
            IsBody(stream'[j]) => stream'[j].n < Last \/ stream'[j] = e
    <2>1. e \in Pieces
        BY <1>3 DEF Pieces
    <2> QED
        BY <1>1, <1>2, <1>3, <1>4, <2>1, UnitBehindOthers
<1>6. /\ todo' = [x \in Writers |-> todo'[x]] /\ todo'[w] = Tail(todo[w])
      /\ Waiting' \subseteq {w}
    BY <1>1, <1>2 DEF StreamInv, Waiting
<1>7. \A i \in DOMAIN got : Rightly(got[i])'
    BY <1>1 DEF StreamInv, Rightly, Last
<1>8. CASE todo[w] = <<Body(sent[Last], Last)>>
    <2>1. todo'[w] = <<>>
        BY <1>6, <1>8
    <2>2. Waiting' = {}
        BY <1>6, <2>1 DEF Waiting
    <2> QED
        BY <1>1, <1>4, <1>5, <1>6, <1>7, <2>2 DEF StreamInv
<1>9. CASE todo[w] = <<Header(sent[Last], Last), Body(sent[Last], Last)>>
    <2>1. todo'[w] = <<Body(sent[Last], Last)>> /\ e = Header(sent[Last], Last)
        BY <1>0, <1>6, <1>9
    <2>2. ~IsBody(e)
        BY <2>1, HeaderFields DEF IsBody
    <2>3. send_mutex' = w
        BY <1>2, <1>6, <2>1, <1>1, <1>9 DEF WriteUnit, Unlocked
    <2>4. todo'[w] \in Rest(w)'
        BY <1>1, <2>1 DEF Rest, Last, Body
    <2>5. \A i \in DOMAIN got : got[i].n < Last
        BY <1>1, <1>2 DEF StreamInv
    <2>6. \A j \in DOMAIN stream' : IsBody(stream'[j]) => stream'[j].n < Last'
        BY <1>1, <1>5, <2>2 DEF Last
    <2>7. \A i \in DOMAIN got' : got'[i].n < Last'
        BY <1>1, <2>5 DEF Last
    <2>8. \A x \in Waiting' : send_mutex' = x /\ sent' # <<>> /\ todo'[x] \in Rest(x)'
        BY <1>1, <1>2, <1>6, <2>3, <2>4
    <2> QED
        BY <1>1, <1>4, <1>5, <1>6, <1>7, <2>6, <2>7, <2>8 DEF StreamInv
<1> QED
    BY <1>3, <1>8, <1>9

LEMMA WriterEndsInv ==
    ASSUME StreamInv, WriterEnds
    PROVE  StreamInv'
<1>1. ~ended /\ ended' /\ UNCHANGED <<setup, send_mutex, todo, sent, got>>
    BY DEF WriterEnds
<1>2. \A i \in DOMAIN got : Rightly(got[i])'
    BY <1>1 DEF StreamInv, Rightly, Last
<1>3. /\ Pieces' = Pieces /\ Bodies' = Bodies /\ Headers' = Headers /\ Last' = Last
      /\ \A u : Whole(u) => Whole(u)'
      /\ \A u : ~CutShort(u)
      /\ \A x \in Waiting' : send_mutex' = x /\ sent' # <<>> /\ todo'[x] \in Rest(x)'
    <2>1. \A u : ~CutShort(u)
        BY <1>1 DEF CutShort
    <2>2. Waiting' = Waiting
        BY <1>1 DEF Waiting
    <2> QED
        BY <1>1, <2>1, <2>2, SameUnits DEF StreamInv
<1>4. CASE stream' = stream
    <2>1. ASSUME NEW i \in DOMAIN stream' PROVE Whole(stream[i])'
        <3>1. PICK u : u = stream[i]
            OBVIOUS
        <3>4. i \in DOMAIN stream
            BY <1>4, <2>1
        <3>5. Whole(stream[i]) \/ CutShort(stream[i])
            BY <3>4 DEF StreamInv
        <3>2. Whole(u)
            BY <1>3, <3>1, <3>5
        <3>3. Whole(u)' /\ stream'[i] = u
            BY <1>3, <1>4, <3>1, <3>2
        <3> QED
            BY <3>3
    <2> QED
        BY <1>1, <1>2, <1>3, <1>4, <2>1 DEF StreamInv
<1>5. ASSUME NEW w \in Writers, NEW cut \in {"early", "late"}, todo[w] # <<>>,
             stream' = Append(stream, With(Head(todo[w]), "cut", cut))
      PROVE  StreamInv'
    <2>1. w \in Waiting
        BY <1>5 DEF Waiting
    <2>2. PICK v \in Headers \cup Bodies : v = Head(todo[w]) /\ v.n = Last /\ Whole(v)
        BY <2>1, NextPiece
    <2>3. PICK e \in Pieces : e = With(v, "cut", cut) /\ e.n = Last
        <3>1. With(v, "cut", cut) \in Cuts
            BY DEF Cuts
        <3>2. With(v, "cut", cut).n = Last
            BY <2>2, CutNumber
        <3> QED
            BY <3>1, <3>2 DEF Pieces
    <2>4. CutShort(e)'
        BY <1>1, <1>3, <2>2, <2>3 DEF CutShort, Last
    <2>5. stream' = Append(stream, e)
        BY <1>5, <2>2, <2>3
    <2>6. /\ stream' \in Seq(Pieces)
          /\ \A i \in DOMAIN stream' : (Whole(stream[i]) \/ CutShort(stream[i]))'
          /\ \A i, j \in DOMAIN stream' : i < j =>
                /\ stream'[i].n <= stream'[j].n
                /\ IsBody(stream'[i]) => stream'[i].n < stream'[j].n
          /\ \A i \in DOMAIN got, j \in DOMAIN stream' : got[i].n < stream'[j].n
        BY <1>1, <2>1, <2>3, <2>4, <2>5, UnitBehindOthers
    <2> QED
        BY <1>1, <1>2, <1>3, <2>6 DEF StreamInv
<1> QED
    BY <1>4, <1>5 DEF WriterEnds

(***************************************************************************)
(* Readers.                                                                *)
(***************************************************************************)
LEMMA TailFacts ==
    ASSUME StreamInv, stream # <<>>
    PROVE  /\ Len(stream) \in Numbers /\ DOMAIN stream = 1 .. Len(stream)
           /\ 1 \in DOMAIN stream /\ Head(stream) = stream[1] /\ Head(stream) \in Pieces
           /\ Tail(stream) \in Seq(Pieces) /\ DOMAIN Tail(stream) = 1 .. Len(stream) - 1
           /\ \A i \in DOMAIN Tail(stream) :
                 i + 1 \in DOMAIN stream /\ 1 < i + 1 /\ Tail(stream)[i] = stream[i + 1]
<1>1. stream \in Seq(Pieces)
    BY DEF StreamInv
<1> QED
    BY <1>1 DEF Numbers

\* Taking a unit from the stream leaves the others as they are.
LEMMA TailKeeps ==
    ASSUME StreamInv, stream # <<>>, stream' = Tail(stream), UNCHANGED <<setup, ended, sent>>
    PROVE  /\ stream' \in Seq(Pieces')
           /\ \A i \in DOMAIN stream' : (Whole(stream[i]) \/ CutShort(stream[i]))'
           /\ \A i, j \in DOMAIN stream' : i < j =>
                 /\ stream'[i].n <= stream'[j].n
                 /\ IsBody(stream'[i]) => stream'[i].n < stream'[j].n
           /\ \A j \in DOMAIN stream' : \E k \in DOMAIN stream :
                 1 < k /\ stream'[j] = stream[k]
<1>1. /\ stream' \in Seq(Pieces')
      /\ \A i \in DOMAIN stream' : i \in Nat /\ i + 1 \in DOMAIN stream /\ 1 < i + 1 /\ stream'[i] = stream[i + 1]
    BY TailFacts, SamePieces
<1>2. ASSUME NEW i \in DOMAIN stream' PROVE (Whole(stream[i]) \/ CutShort(stream[i]))'
    <2>1. PICK u : u = stream[i + 1]
        OBVIOUS
    <2>2. Whole(u) \/ CutShort(u)
        BY <1>1, <1>2, <2>1 DEF StreamInv
    <2>3. Whole(u)' \/ CutShort(u)'
        <3>1. \A v : Whole(v)' <=> Whole(v)
            BY SameUnits
        <3>2. Headers' = Headers /\ Bodies' = Bodies
            BY SamePieces
        <3> QED
            BY <2>2, <3>1, <3>2 DEF CutShort
    <2>4. stream'[i] = u
        BY <1>1, <1>2, <2>1
    <2> QED
        BY <2>3, <2>4
<1>3. ASSUME NEW i \in DOMAIN stream', NEW j \in DOMAIN stream', i < j
      PROVE  /\ stream'[i].n <= stream'[j].n
             /\ IsBody(stream'[i]) => stream'[i].n < stream'[j].n
    <2>1. i + 1 < j + 1 /\ i + 1 \in DOMAIN stream /\ j + 1 \in DOMAIN stream
        BY <1>1, <1>3
    <2>2. stream'[i] = stream[i + 1] /\ stream'[j] = stream[j + 1]
        BY <1>1, <1>3
    <2> QED
        BY <2>1, <2>2 DEF StreamInv
<1> QED
    BY <1>1, <1>2, <1>3

\* The step of a call that fails, or goes on: at most a unit is lost.
LEMMA UnitLost ==
    ASSUME StreamInv, Consume,
           UNCHANGED <<setup, ended, send_mutex, todo, sent, got>>
    PROVE  StreamInv'
<1>1. /\ Waiting' = Waiting /\ Last' = Last /\ Pieces' = Pieces
      /\ \A u : Whole(u)' <=> Whole(u)
      /\ \A w : Rest(w)' = Rest(w)
      /\ \A u : CutShort(u)' <=> CutShort(u)
    <2>1. Headers' = Headers /\ Bodies' = Bodies
        BY SamePieces
    <2> QED
        BY <2>1, SameUnits DEF Waiting, CutShort
<1>2. \A i \in DOMAIN got : Rightly(got[i])'
    BY DEF StreamInv, Rightly, Last
<1>3. \A x \in Waiting' : send_mutex' = x /\ sent' # <<>> /\ todo'[x] \in Rest(x)'
    BY <1>1 DEF StreamInv
<1>4. CASE failed \/ stream = <<>>
    <2>1. stream' = stream
        BY <1>4 DEF Consume
    <2>2. ASSUME NEW i \in DOMAIN stream PROVE (Whole(stream[i]) \/ CutShort(stream[i]))'
        <3>1. PICK u : u = stream[i]
            OBVIOUS
        <3>2. Whole(u) \/ CutShort(u)
            BY <2>2, <3>1 DEF StreamInv
        <3>3. Whole(u)' \/ CutShort(u)'
            BY <1>1, <3>2
        <3>4. stream'[i] = u
            BY <2>1, <3>1
        <3> QED
            BY <3>3, <3>4
    <2> QED
        BY <1>1, <1>2, <1>3, <2>1, <2>2 DEF StreamInv
<1>5. CASE ~failed /\ stream # <<>>
    <2>1. stream' = Tail(stream)
        BY <1>5 DEF Consume
    <2>2. /\ stream' \in Seq(Pieces')
          /\ \A i \in DOMAIN stream' : (Whole(stream[i]) \/ CutShort(stream[i]))'
          /\ \A i, j \in DOMAIN stream' : i < j =>
                /\ stream'[i].n <= stream'[j].n
                /\ IsBody(stream'[i]) => stream'[i].n < stream'[j].n
          /\ \A j \in DOMAIN stream' : \E k \in DOMAIN stream :
                1 < k /\ stream'[j] = stream[k]
        BY <1>5, <2>1, TailKeeps
    <2>3. \A i \in DOMAIN got, j \in DOMAIN stream' : got[i].n < stream'[j].n
        BY <2>2 DEF StreamInv
    <2>4. ~ended /\ Waiting # {} => \A j \in DOMAIN stream' : IsBody(stream'[j]) => stream'[j].n < Last
        BY <2>2 DEF StreamInv
    <2> QED
        BY <1>1, <1>2, <1>3, <2>2, <2>3, <2>4 DEF StreamInv
<1> QED
    BY <1>4, <1>5

\* A unit whose content loads is the body of a message, and what it loads as is
\* that message, or what is left of the last one.
LEMMA BodyLoads ==
    ASSUME StreamInv, NEW c, NextUnit # Nothing, LoadBody(c, NextUnit).ok
    PROVE  /\ ~failed /\ stream # <<>> /\ IsBody(stream[1])
           /\ LoadBody(c, NextUnit).value.n = stream[1].n
           /\ LoadBody(c, NextUnit).value \in Values /\ Rightly(LoadBody(c, NextUnit).value)
<1>1. /\ ~failed /\ stream # <<>> /\ Cut(Head(stream)) # "early"
      /\ NextUnit = AsRead(Head(stream)) /\ Head(stream) = stream[1] /\ 1 \in DOMAIN stream
    BY TailFacts DEF NextUnit
<1>2. PICK h : h = stream[1]
    OBVIOUS
<1>3. Whole(h) \/ CutShort(h)
    BY <1>1, <1>2 DEF StreamInv
<1>4. /\ sent \in Seq(Traffic) /\ \A n \in DOMAIN sent : n \in Numbers /\ sent[n] \in Traffic
    BY DEF StreamInv, Numbers
<1>5. ASSUME NEW v, Whole(v), IsBody(v)
      PROVE  /\ v.n \in Numbers /\ v.n \in DOMAIN sent /\ sent[v.n] \in Traffic
             /\ v = Body(sent[v.n], v.n)
    BY <1>4, <1>5, HeaderFields DEF Whole, OfSent, IsBody
<1>6. CASE Whole(h)
    <2>1. NextUnit = h
        <3>1. h \in Headers \cup Bodies
            BY <1>6 DEF Whole
        <3>2. Cut(h) = "no"
            BY <3>1, PieceNumber DEF Cut
        <3> QED
            BY <1>1, <1>2, <3>2 DEF AsRead
    <2>2. IsBody(h)
        BY <2>1, HeaderFails DEF IsBody
    <2>3. PICK n \in Numbers, msg \in Traffic : /\ n = h.n /\ n \in DOMAIN sent /\ msg = sent[n]
                                               /\ h = Body(msg, n)
        BY <1>5, <1>6, <2>2
    <2>4. LoadBody(c, h).value = ReadAs(msg, n)
        BY <2>1, <2>3, BodyRead
    <2>5. ReadAs(msg, n).n = n
        BY BodyFields
    <2>6. ReadAs(msg, n) \in Values /\ Rightly(ReadAs(msg, n))
        BY <2>3, <2>5 DEF Values, Rightly
    <2> QED
        BY <1>1, <1>2, <2>1, <2>2, <2>3, <2>4, <2>5, <2>6
<1>7. CASE CutShort(h)
    <2>1. PICK v \in Headers \cup Bodies, cut \in {"early", "late"} :
              Whole(v) /\ h = With(v, "cut", cut) /\ ended /\ h.n = Last
        BY <1>7 DEF CutShort, Last
    <2>2. h.n = v.n /\ h.kind = v.kind /\ DOMAIN h = DOMAIN v \cup {"cut"} /\ h.cut = cut
        BY <2>1, CutNumber
    <2>3. cut = "late" /\ Cut(h) = "late"
        BY <1>1, <1>2, <2>1, <2>2 DEF Cut
    <2>4. NextUnit = IF h.kind = "header" THEN [h EXCEPT !.version = 0] ELSE Damaged(h)
        BY <1>1, <1>2, <2>3 DEF AsRead
    <2>5. h.kind # "header"
        <3>1. ASSUME h.kind = "header" PROVE FALSE
            <4>1. NextUnit = [h EXCEPT !.version = 0]
                BY <2>4, <3>1
            <4>2. "kind" \in DOMAIN h
                BY <2>2, PieceNumber
            <4>3. NextUnit.kind = "header"
                BY <3>1, <4>1, <4>2
            <4> QED
                BY <4>3, HeaderFails
        <3> QED
            BY <3>1
    <2>6. IsBody(h) /\ IsBody(v)
        BY <2>2, <2>5 DEF IsBody
    <2>7. PICK n \in Numbers, msg \in Traffic : /\ n = v.n /\ n \in DOMAIN sent /\ msg = sent[n]
                                               /\ v = Body(msg, n)
        BY <1>5, <2>1, <2>6
    <2>8. NextUnit = Torn(msg, n)
        BY <2>1, <2>3, <2>4, <2>5, <2>7 DEF Torn
    <2>9. LoadBody(c, NextUnit).value = Torn(msg, n)
        BY <2>8, TornRead
    <2>10. Torn(msg, n).n = n
        BY TornFields
    <2>11. Torn(msg, n) \in Values /\ Rightly(Torn(msg, n))
        BY <2>1, <2>2, <2>7, <2>10 DEF Values, Rightly
    <2> QED
        BY <1>1, <1>2, <2>2, <2>6, <2>7, <2>9, <2>10, <2>11
<1> QED
    BY <1>3, <1>6, <1>7

LEMMA ReturnInv ==
    ASSUME StreamInv, NEW c, NextUnit # Nothing, LoadBody(c, NextUnit).ok, Consume,
           got' = Append(got, LoadBody(c, NextUnit).value),
           UNCHANGED <<setup, ended, send_mutex, todo, sent>>
    PROVE  StreamInv'
<1>1. PICK v : v = LoadBody(c, NextUnit).value
    OBVIOUS
<1>2. /\ ~failed /\ stream # <<>> /\ IsBody(stream[1]) /\ v.n = stream[1].n
      /\ v \in Values /\ Rightly(v)
    BY <1>1, BodyLoads
<1>3. stream' = Tail(stream) /\ got' = Append(got, v) /\ 1 \in DOMAIN stream
    BY <1>1, <1>2, TailFacts DEF Consume
<1>4. /\ stream' \in Seq(Pieces')
      /\ \A i \in DOMAIN stream' : (Whole(stream[i]) \/ CutShort(stream[i]))'
      /\ \A i, j \in DOMAIN stream' : i < j =>
            /\ stream'[i].n <= stream'[j].n
            /\ IsBody(stream'[i]) => stream'[i].n < stream'[j].n
      /\ \A j \in DOMAIN stream' : \E k \in DOMAIN stream :
            1 < k /\ stream'[j] = stream[k]
    BY <1>2, <1>3, TailKeeps
<1>5. Waiting' = Waiting /\ Last' = Last /\ \A w : Rest(w)' = Rest(w)
    BY SameUnits DEF Waiting
<1>6. /\ got \in Seq(Values) /\ got' \in Seq(Values) /\ Len(got) \in Nat
      /\ DOMAIN got = 1 .. Len(got) /\ DOMAIN got' = 1 .. Len(got) + 1
      /\ \A i \in DOMAIN got : got'[i] = got[i]
      /\ got'[Len(got) + 1] = v
    BY <1>2, <1>3 DEF StreamInv
<1>7. \A i \in DOMAIN got' : i \in DOMAIN got \/ (i = Len(got) + 1 /\ got'[i] = v)
    BY <1>6
<1>8. ASSUME NEW i \in DOMAIN got' PROVE Rightly(got[i])'
    <2>1. PICK g : g = got'[i]
        OBVIOUS
    <2>2. Rightly(g)
        BY <1>2, <1>6, <1>7, <1>8, <2>1 DEF StreamInv
    <2>3. Rightly(g)'
        BY <2>2 DEF Rightly, Last, ReadAs, Torn, Body
    <2> QED
        BY <2>1, <2>3
<1>9. \A i \in DOMAIN got : got[i].n < v.n
    BY <1>2, <1>3 DEF StreamInv
<1>10. \A j \in DOMAIN stream' : v.n < stream'[j].n
    BY <1>2, <1>3, <1>4 DEF StreamInv
<1>11. \A i, j \in DOMAIN got' : i < j => got'[i].n < got'[j].n
    <2> SUFFICES ASSUME NEW i \in DOMAIN got', NEW j \in DOMAIN got', i < j
                 PROVE  got'[i].n < got'[j].n
        OBVIOUS
    <2>1. i \in DOMAIN got
        BY <1>6
    <2>2. CASE j \in DOMAIN got
        BY <1>6, <2>1, <2>2 DEF StreamInv
    <2>3. CASE got'[j] = v
        BY <1>6, <1>9, <2>1, <2>3
    <2> QED
        BY <1>7, <2>2, <2>3
<1>12. \A i \in DOMAIN got', j \in DOMAIN stream' : got'[i].n < stream'[j].n
    <2> SUFFICES ASSUME NEW i \in DOMAIN got', NEW j \in DOMAIN stream' PROVE got'[i].n < stream'[j].n
        OBVIOUS
    <2>1. CASE i \in DOMAIN got
        BY <1>4, <1>6, <2>1 DEF StreamInv
    <2>2. CASE got'[i] = v
        BY <1>10, <2>2
    <2> QED
        BY <1>7, <2>1, <2>2
<1>13. ~ended /\ Waiting # {} =>
          /\ \A i \in DOMAIN got' : got'[i].n < Last
          /\ \A j \in DOMAIN stream' : IsBody(stream'[j]) => stream'[j].n < Last
    <2> SUFFICES ASSUME ~ended, Waiting # {}
                 PROVE  /\ \A i \in DOMAIN got' : got'[i].n < Last
                        /\ \A j \in DOMAIN stream' : IsBody(stream'[j]) => stream'[j].n < Last
        OBVIOUS
    <2>1. v.n < Last
        BY <1>2, <1>3 DEF StreamInv
    <2>2. \A i \in DOMAIN got : got[i].n < Last
        BY DEF StreamInv
    <2>3. \A i \in DOMAIN got' : got'[i].n < Last
        BY <1>6, <1>7, <2>1, <2>2
    <2>4. \A j \in DOMAIN stream' : IsBody(stream'[j]) => stream'[j].n < Last
        BY <1>4 DEF StreamInv
    <2> QED
        BY <2>3, <2>4
<1>14. Values' = Values
    BY DEF Values, ReadAs, Torn, Body
<1>15. \A x \in Waiting' : send_mutex' = x /\ sent' # <<>> /\ todo'[x] \in Rest(x)'
    BY <1>5 DEF StreamInv
<1>16. sent' \in Seq(Traffic) /\ todo' = [x \in Writers |-> todo'[x]]
    BY DEF StreamInv
<1> QED
    BY <1>4, <1>5, <1>6, <1>8, <1>11, <1>12, <1>13, <1>14, <1>15, <1>16 DEF StreamInv

LEMMA ReadHeaderInv ==
    ASSUME StreamInv, NEW k \in Readers, ReadHeader(k)
    PROVE  StreamInv'
<1>1. Consume /\ UNCHANGED <<setup, ended, send_mutex, todo, sent, got>>
    BY DEF ReadHeader, Fails
<1> QED
    BY <1>1, UnitLost

LEMMA ReadBodyInv ==
    ASSUME StreamInv, NEW k \in Readers, ReadBody(k)
    PROVE  StreamInv'
<1> DEFINE u == NextUnit
           r == IF u = Nothing THEN Throws("runtime_error") ELSE LoadBody(call[k], u)
<1>1. /\ Consume /\ UNCHANGED <<setup, ended, send_mutex, todo, sent>>
      /\ IF r.ok THEN got' = Append(got, r.value) ELSE got' = got
    BY DEF ReadBody, Fails, Returns
<1>2. CASE r.ok
    <2>1. u # Nothing
        BY <1>2 DEF Throws
    <2>2. PICK c : c = call[k]
        OBVIOUS
    <2>3. LoadBody(c, NextUnit).ok /\ got' = Append(got, LoadBody(c, NextUnit).value)
        BY <1>1, <1>2, <2>1, <2>2
    <2> QED
        BY <1>1, <2>1, <2>3, ReturnInv
<1>3. CASE ~r.ok
    BY <1>1, <1>3, UnitLost
<1> QED
    BY <1>2, <1>3
-----------------------------------------------------------------------------
(***************************************************************************)
(* Every step.                                                             *)
(***************************************************************************)
\* A step after which nothing has changed that StreamInv is about.
LEMMA NothingChanged ==
    ASSUME StreamInv, UNCHANGED <<setup, stream, ended, send_mutex, todo, sent, got>>
    PROVE  StreamInv'
<1>1. /\ Waiting' = Waiting /\ Last' = Last /\ Pieces' = Pieces
      /\ Headers' = Headers /\ Bodies' = Bodies
      /\ \A u : Whole(u)' <=> Whole(u)
      /\ \A w : Rest(w)' = Rest(w)
    BY SameUnits DEF Waiting
<1>2. \A i \in DOMAIN got : Rightly(got[i])'
    BY DEF StreamInv, Rightly, Last
<1>3. ASSUME NEW i \in DOMAIN stream PROVE (Whole(stream[i]) \/ CutShort(stream[i]))'
    <2>1. PICK u : u = stream[i]
        OBVIOUS
    <2>2. Whole(u) \/ CutShort(u)
        BY <1>3, <2>1 DEF StreamInv
    <2>3. Whole(u)' \/ CutShort(u)'
        BY <1>1, <2>2 DEF CutShort
    <2>4. stream'[i] = u
        BY <2>1
    <2> QED
        BY <2>3, <2>4
<1>4. \A x \in Waiting' : send_mutex' = x /\ sent' # <<>> /\ todo'[x] \in Rest(x)'
    BY <1>1 DEF StreamInv
<1> QED
    BY <1>1, <1>2, <1>3, <1>4 DEF StreamInv

LEMMA StreamInvNext ==
    ASSUME StreamInv, [StreamNext]_streamVars
    PROVE  StreamInv'
<1>1. ASSUME NEW w \in Writers, WriteUnit(w) PROVE StreamInv'
    BY <1>1, WriteUnitInv
<1>2. ASSUME NEW w \in Writers, NEW msg \in Sendable, SendBegin(w, msg) PROVE StreamInv'
    BY <1>2, SendBeginInv
<1>3. CASE WriterEnds
    BY <1>3, WriterEndsInv
<1>4. ASSUME NEW k \in Readers, ReadHeader(k) PROVE StreamInv'
    BY <1>4, ReadHeaderInv
<1>5. ASSUME NEW k \in Readers, ReadBody(k) PROVE StreamInv'
    BY <1>5, ReadBodyInv
<1>6. ASSUME NEW k \in Readers, NEW c \in Calls, ReceiveBegin(k, c) PROVE StreamInv'
    <2>1. UNCHANGED <<setup, stream, ended, send_mutex, todo, sent, got>>
        BY <1>6 DEF ReceiveBegin
    <2> QED
        BY <2>1, NothingChanged
<1>7. CASE UNCHANGED streamVars
    BY <1>7, NothingChanged DEF streamVars
<1> QED
    BY <1>1, <1>2, <1>3, <1>4, <1>5, <1>6, <1>7 DEF StreamNext

LEMMA InvInOrder ==
    ASSUME StreamInv PROVE StreamInOrder
<1>1. ASSUME NEW i \in DOMAIN got
      PROVE  IF IsDamaged(got[i]) THEN ended /\ got[i].n = Len(sent)
             ELSE got[i] = With(Delivered(sent[got[i].n]), "n", got[i].n)
    <2>1. PICK g : g = got[i]
        OBVIOUS
    <2>2. Rightly(g)
        BY <1>1, <2>1 DEF StreamInv
    <2>3. sent[g.n] \in Traffic
        BY <2>2 DEF StreamInv, Rightly
    <2>4. CASE g = ReadAs(sent[g.n], g.n)
        <3>1. ~IsDamaged(g)
            BY <2>3, <2>4, BodyFields
        <3> QED
            BY <2>1, <2>4, <3>1 DEF ReadAs
    <2>5. CASE g = Torn(sent[g.n], g.n) /\ ended /\ g.n = Last
        <3>1. IsDamaged(g)
            BY <2>3, <2>5, TornFields
        <3> QED
            BY <2>1, <2>5, <3>1 DEF Last
    <2> QED
        BY <2>2, <2>4, <2>5 DEF Rightly
<1>2. \A i, j \in DOMAIN got : i < j => got[i].n < got[j].n
    BY DEF StreamInv
<1> QED
    BY <1>1, <1>2 DEF StreamInOrder

\* Whatever the threads of both ends send and receive, over a pipe or a
\* stringstream, receive calls return the messages sent, unchanged, in order and
\* none of them twice; only the last message of a writer that ended within it may
\* come damaged (stream_channel.cpp, send and the receive functions).
LEMMA MessagesComeInOrder ==
    StreamSpec => []StreamInOrder
<1>1. StreamInit => StreamInv
    BY StreamInvInit
<1>2. StreamInv /\ [StreamNext]_streamVars => StreamInv'
    BY StreamInvNext
<1>3. StreamInv => StreamInOrder
    BY InvInOrder
<1> QED
    BY <1>1, <1>2, <1>3, PTL DEF StreamSpec

-----------------------------------------------------------------------------
(***************************************************************************)
(* What a call returns.  The invariant lays out the stream: no header      *)
(* without its body behind it, unless a writer has still to write it; no   *)
(* body without its header before it, unless a call has read that one; and *)
(* nothing behind a unit that was cut.  A call that has read a header      *)
(* holds the lock, and its body is the next unit there is or will be.      *)
(***************************************************************************)
BodyIsLeft(w, n) == n = Last /\ todo[w] = <<Body(sent[n], n)>>

Followed(i) ==
    \/ i + 1 \in DOMAIN stream /\ stream[i + 1].n = stream[i].n /\ IsBody(stream[i + 1])
    \/ i = Len(stream) /\ (ended \/ \E w \in Waiting : BodyIsLeft(w, stream[i].n))

HeadersInv ==
    /\ \A i \in DOMAIN stream :
         ~IsBody(stream[i]) => sent[stream[i].n].kind # "result" /\ Followed(i)
    /\ \A w \in Waiting : ~IsBody(Head(todo[w])) => sent[Last].kind # "result"

BodiesInv ==
    /\ \A i, j \in DOMAIN stream :
         j = i + 1 /\ ~StartsMessage(stream[j]) => stream[i].n = stream[j].n
    /\ \A w \in Waiting :
         ~StartsMessage(Head(todo[w])) => stream = <<>> \/ stream[Len(stream)].n = Last

CutsInv == \A i \in DOMAIN stream : Cut(stream[i]) # "no" => i = Len(stream)

FailedInv ==
    failed => /\ ended \/ ~setup.piped
              /\ ~Misaligned
              /\ ~ended /\ stream = <<>> => \A w \in Waiting : StartsMessage(Head(todo[w]))

BodyIsNext(n) ==
    IF stream # <<>> THEN stream[1].n = n /\ IsBody(stream[1])
    ELSE setup.piped /\ \E w \in Waiting : BodyIsLeft(w, n)

Opened(c) ==
    LET n == c.began.n
    IN  /\ n \in DOMAIN sent /\ sent[n].kind # "result"
        /\ c.began = Header(sent[n], n) /\ c.header = c.began
        /\ ~failed /\ BodyIsNext(n)

CallFields == {"fn", "expected", "context", "header", "began"}

CallOK(k) ==
    call[k] # NoCall =>
      /\ receive_mutex = k /\ DOMAIN call[k] = CallFields
      /\ NeedsContext(call[k]) => ValidContext(call[k].context)
      /\ call[k].header # Nothing => call[k].fn # "result" /\ (ended \/ Opened(call[k]))

CallsInv ==
    /\ call = [k \in Readers |-> call[k]]
    /\ ~setup.piped => Waiting = {} \/ \A k \in Readers : call[k] = NoCall
    /\ \A k \in Readers : CallOK(k)

Rejected(r) ==
    setup.version = ThisVersion /\ StartsMessage(r.began)
      => r.began.n \in DOMAIN sent /\ ~Acceptable(sent[r.began.n], r)

RefusedInv == \A r \in refused : ended \/ Rejected(r)

LayoutInv == HeadersInv /\ BodiesInv /\ CutsInv /\ FailedInv
FlowInv == LayoutInv /\ CallsInv /\ RefusedInv

LEMMA FlowInvInit == StreamInit => FlowInv
<1> SUFFICES ASSUME StreamInit PROVE FlowInv
    OBVIOUS
<1>1. /\ stream = <<>> /\ Waiting = {} /\ refused = {} /\ ~failed
      /\ call = [k \in Readers |-> NoCall]
    BY DEF StreamInit, Waiting
<1>2. LayoutInv
    BY <1>1 DEF LayoutInv, HeadersInv, BodiesInv, CutsInv, FailedInv
<1>3. CallsInv
    BY <1>1 DEF CallsInv, CallOK
<1> QED
    BY <1>1, <1>2, <1>3 DEF FlowInv, RefusedInv

\* A unit that can be read is a whole one, unless its writer has ended.
LEMMA UnitWhole ==
    ASSUME StreamInv, NEW i \in DOMAIN stream
    PROVE  /\ stream[i].n \in DOMAIN sent /\ sent[stream[i].n] \in Traffic
           /\ \/ Whole(stream[i]) /\ Cut(stream[i]) = "no"
              \/ ended /\ i \in Nat /\ Cut(stream[i]) \in {"early", "late"}
<1>1. PICK u : u = stream[i]
    OBVIOUS
<1>2. Whole(u) \/ CutShort(u)
    BY <1>1 DEF StreamInv
<1>3. sent \in Seq(Traffic) /\ i \in Nat
    BY DEF StreamInv
<1>4. CASE Whole(u)
    <2>1. u \in Headers \cup Bodies /\ u.n \in DOMAIN sent
        BY <1>4 DEF Whole, OfSent
    <2>2. Cut(u) = "no"
        BY <2>1, PieceNumber DEF Cut
    <2> QED
        BY <1>1, <1>3, <1>4, <2>1, <2>2
<1>5. CASE CutShort(u)
    <2>1. PICK v \in Headers \cup Bodies, cut \in {"early", "late"} : Whole(v) /\ u = With(v, "cut", cut)
        BY <1>5 DEF CutShort
    <2>2. u.n = v.n /\ DOMAIN u = DOMAIN v \cup {"cut"} /\ u.cut = cut
        BY <2>1, CutNumber
    <2>3. Cut(u) = cut
        BY <2>2 DEF Cut
    <2> QED
        BY <1>1, <1>3, <1>5, <2>1, <2>2, <2>3 DEF Whole, OfSent, CutShort
<1> QED
    BY <1>2, <1>4, <1>5

LEMMA WholeIs ==
    ASSUME StreamInv, NEW u, Whole(u)
    PROVE  /\ u.n \in DOMAIN sent /\ sent[u.n] \in Traffic
           /\ IF IsBody(u) THEN u = Body(sent[u.n], u.n) /\ u.kind = sent[u.n].kind
              ELSE u = Header(sent[u.n], u.n)
<1>1. u.n \in DOMAIN sent /\ u \in {Header(sent[u.n], u.n), Body(sent[u.n], u.n)}
    BY DEF Whole, OfSent
<1>2. sent[u.n] \in Traffic
    BY <1>1 DEF StreamInv
<1>3. PICK n \in DOMAIN sent, msg \in Traffic : n = u.n /\ msg = sent[n] /\ u \in {Header(msg, n), Body(msg, n)}
    BY <1>1, <1>2
<1>4. Header(msg, n).kind = "header" /\ Body(msg, n).kind = msg.kind /\ msg.kind # "header"
    BY PieceKinds, Zenon
<1> QED
    BY <1>1, <1>2, <1>3, <1>4 DEF IsBody

\* Only one writer has units left, and they are of the last message.
LEMMA OneWaits ==
    ASSUME StreamInv, NEW w \in Waiting
    PROVE  /\ Waiting = {w} /\ w \in Writers /\ send_mutex = w
           /\ Last \in DOMAIN sent /\ sent[Last] \in Traffic
           /\ \/ todo[w] = <<Body(sent[Last], Last)>> /\ Head(todo[w]) = Body(sent[Last], Last)
              \/ /\ todo[w] = <<Header(sent[Last], Last), Body(sent[Last], Last)>>
                 /\ Head(todo[w]) = Header(sent[Last], Last)
           /\ Header(sent[Last], Last).kind = "header" /\ Body(sent[Last], Last).kind = sent[Last].kind
           /\ Body(sent[Last], Last).kind # "header"
<1>1. Waiting = {w} /\ w \in Writers /\ send_mutex = w
    BY DEF StreamInv, Waiting
<1>2. /\ sent[Last] \in Traffic /\ Last \in Numbers
      /\ \/ todo[w] = <<Body(sent[Last], Last)>>
         \/ todo[w] = <<Header(sent[Last], Last), Body(sent[Last], Last)>>
    BY NextPiece
<1>3. Last \in DOMAIN sent
    BY <1>2 DEF StreamInv, Last, Numbers
<1>4. PICK msg \in Traffic, n \in Numbers : msg = sent[Last] /\ n = Last
    BY <1>2
<1>5. Header(msg, n).kind = "header" /\ Body(msg, n).kind = msg.kind /\ msg.kind # "header"
    BY PieceKinds, Zenon
<1> QED
    BY <1>1, <1>2, <1>3, <1>4, <1>5


\* What was rejected stays rejected.
LEMMA RejectedStays ==
    ASSUME StreamInv, RefusedInv, refused' = refused, setup' = setup,
           ended => ended', \A n \in DOMAIN sent : n \in DOMAIN sent' /\ sent'[n] = sent[n]
    PROVE  RefusedInv'
<1> SUFFICES ASSUME NEW r \in refused PROVE ended' \/ Rejected(r)'
    BY DEF RefusedInv
<1> QED
    BY DEF RefusedInv, Rejected

LEMMA SendBeginFlow ==
    ASSUME StreamInv, FlowInv,
           NEW w \in Writers, NEW msg \in Sendable, SendBegin(w, msg)
    PROVE  FlowInv'
<1>0. msg \in Traffic
    BY DEF Sendable, Traffic
<1>1. /\ ~ended /\ send_mutex = NoThread /\ MayBegin /\ sent' = Append(sent, msg)
      /\ todo' = [todo EXCEPT ![w] = Units(msg, Len(sent) + 1)]
      /\ UNCHANGED <<setup, stream, ended, failed, receive_mutex, call, refused>>
    BY DEF SendBegin, SendMutexFree
<1>2. Waiting = {} /\ Waiting' \subseteq {w}
    BY <1>1, StreamAssumption DEF StreamInv, Waiting
<1>3. /\ sent \in Seq(Traffic) /\ Last \in Nat /\ Last' = Last + 1 /\ sent'[Last + 1] = msg
      /\ \A n \in DOMAIN sent : n \in DOMAIN sent' /\ sent'[n] = sent[n]
    BY <1>0, <1>1 DEF StreamInv, Last
<1>4. todo'[w] = Units(msg, Last + 1)
    BY <1>1 DEF StreamInv, Last
<1>5. /\ StartsMessage(Head(todo'[w]))
      /\ ~IsBody(Head(todo'[w])) => msg.kind # "result"
    <2>1. CASE msg.kind = "result"
        <3>1. Head(todo'[w]) = Body(msg, Last + 1)
            BY <1>4, <2>1 DEF Units, Body
        <3>2. Body(msg, Last + 1).kind = "result"
            BY <1>0, <2>1, BodyFields
        <3> QED
            BY <3>1, <3>2 DEF StartsMessage, IsBody
    <2>2. CASE msg.kind # "result"
        <3>1. Head(todo'[w]) = Header(msg, Last + 1)
            BY <1>4, <2>2 DEF Units, Header
        <3>2. Header(msg, Last + 1).kind = "header"
            BY HeaderFields
        <3> QED
            BY <2>2, <3>1, <3>2 DEF StartsMessage
    <2> QED
        BY <2>1, <2>2
<1>6. HeadersInv'
    <2>1. ASSUME NEW i \in DOMAIN stream, ~IsBody(stream[i])
          PROVE  sent'[stream[i].n].kind # "result" /\ Followed(i)'
        <3>1. sent[stream[i].n].kind # "result" /\ Followed(i)
            BY <2>1 DEF FlowInv, LayoutInv, HeadersInv
        <3>2. sent'[stream[i].n] = sent[stream[i].n]
            BY <1>3, UnitWhole
        <3> QED
            BY <1>1, <1>2, <3>1, <3>2 DEF Followed
    <2> QED
        BY <1>1, <1>2, <1>3, <1>5, <2>1 DEF HeadersInv
<1>7. BodiesInv'
    BY <1>1, <1>2, <1>5 DEF BodiesInv, FlowInv, LayoutInv
<1>8. CutsInv' /\ FailedInv'
    BY <1>1, <1>2, <1>5 DEF CutsInv, FailedInv, Misaligned, FlowInv, LayoutInv
<1>9. CallsInv'
    <2>1. ASSUME NEW k \in Readers PROVE CallOK(k)'
        <3>1. CallOK(k) /\ call' = call /\ receive_mutex' = receive_mutex
            BY <1>1 DEF FlowInv, CallsInv
        <3>2. Opened(call[k]) => Opened(call[k])'
            <4> SUFFICES ASSUME Opened(call[k]) PROVE Opened(call[k])'
                OBVIOUS
            <4>1. PICK n \in DOMAIN sent : n = call[k].began.n
                BY DEF Opened
            <4>2. BodyIsNext(n)'
                BY <1>1, <1>2, <4>1 DEF Opened, BodyIsNext
            <4> QED
                BY <1>1, <1>3, <4>1, <4>2 DEF Opened, Header
        <3> QED
            BY <1>1, <3>1, <3>2 DEF CallOK
    <2>2. ~setup.piped => \A k \in Readers : call[k] = NoCall
        BY <1>1 DEF MayBegin
    <2> QED
        BY <1>1, <2>1, <2>2 DEF CallsInv, FlowInv
<1>10. RefusedInv'
    BY <1>1, <1>3, RejectedStays DEF FlowInv
<1> QED
    BY <1>6, <1>7, <1>8, <1>9, <1>10 DEF FlowInv, LayoutInv


\* The next unit of a waiting writer, whole or not, goes behind its header, or
\* begins the message that its body ends.
LEMMA LayoutGrows ==
    ASSUME StreamInv, LayoutInv, ~ended, NEW w \in Waiting,
           NEW e \in Pieces, e.n = Last, e.kind = Head(todo[w]).kind,
           stream' = Append(stream, e), UNCHANGED <<setup, sent>>,
           ~IsBody(e) => ended' \/ \E x \in Waiting' : BodyIsLeft(x, Last)',
           \A x \in Waiting' : Head(todo'[x]) \in {Head(todo[w]), Body(sent[Last], Last)}
    PROVE  HeadersInv' /\ BodiesInv' /\ CutsInv'
<1>1. /\ DOMAIN stream' = 1 .. Len(stream) + 1 /\ Len(stream') = Len(stream) + 1
      /\ Len(stream) \in Nat /\ DOMAIN stream = 1 .. Len(stream) /\ stream' # <<>>
      /\ \A i \in DOMAIN stream : stream'[i] = stream[i]
      /\ stream'[Len(stream) + 1] = e /\ (stream # <<>> <=> Len(stream) # 0)
    <2>1. stream \in Seq(Pieces)
        BY DEF StreamInv
    <2> QED
        BY <2>1
<1>2. /\ Waiting = {w} /\ Last' = Last /\ Header(sent[Last], Last).kind = "header"
      /\ Body(sent[Last], Last).kind = sent[Last].kind /\ Body(sent[Last], Last).kind # "header"
      /\ \/ todo[w] = <<Body(sent[Last], Last)>> /\ Head(todo[w]) = Body(sent[Last], Last)
         \/ /\ todo[w] = <<Header(sent[Last], Last), Body(sent[Last], Last)>>
            /\ Head(todo[w]) = Header(sent[Last], Last)
    BY OneWaits DEF Last
<1>3. ~IsBody(e) => sent[Last].kind # "result"
    BY <1>2 DEF LayoutInv, HeadersInv, IsBody
<1>4. ASSUME NEW i \in DOMAIN stream', ~IsBody(stream'[i])
      PROVE  sent'[stream'[i].n].kind # "result" /\ Followed(i)'
    <2>1. CASE i \in DOMAIN stream
        <3>1. sent[stream[i].n].kind # "result" /\ Followed(i) /\ stream'[i] = stream[i]
            BY <1>1, <1>4, <2>1 DEF LayoutInv, HeadersInv
        <3>2. CASE i + 1 \in DOMAIN stream /\ stream[i + 1].n = stream[i].n /\ IsBody(stream[i + 1])
            BY <1>1, <3>1, <3>2 DEF Followed
        <3>3. CASE i = Len(stream) /\ \E x \in Waiting : BodyIsLeft(x, stream[i].n)
            <4>1. stream[i].n = Last /\ todo[w] = <<Body(sent[Last], Last)>>
                BY <1>2, <3>3 DEF BodyIsLeft
            <4>2. IsBody(e)
                BY <1>2, <4>1 DEF IsBody
            <4> QED
                <5>1. i + 1 \in DOMAIN stream' /\ stream'[i + 1] = e /\ stream'[i].n = Last
                    BY <1>1, <3>1, <3>3, <4>1
                <5> QED
                    BY <3>1, <4>1, <4>2, <5>1 DEF Followed
        <3> QED
            BY <3>1, <3>2, <3>3 DEF Followed
    <2>2. CASE i = Len(stream) + 1
        <3>1. stream'[i] = e /\ ~IsBody(e) /\ i = Len(stream')
            BY <1>1, <1>4, <2>2
        <3>2. ended' \/ \E x \in Waiting' : BodyIsLeft(x, stream[i].n)'
            <4>1. stream'[i].n = Last /\ Last' = Last
                BY <1>2, <3>1
            <4> QED
                BY <3>1, <4>1 DEF BodyIsLeft, Body
        <3> QED
            BY <1>3, <3>1, <3>2 DEF Followed
    <2> QED
        BY <1>1, <2>1, <2>2
<1>5. \A x \in Waiting' : ~IsBody(Head(todo'[x])) => sent'[Last'].kind # "result"
    BY <1>2 DEF LayoutInv, HeadersInv, IsBody
<1>6. ASSUME NEW i \in DOMAIN stream', NEW j \in DOMAIN stream', j = i + 1, ~StartsMessage(stream'[j])
      PROVE  stream'[i].n = stream'[j].n
    <2>1. CASE j \in DOMAIN stream
        BY <1>1, <1>6, <2>1 DEF LayoutInv, BodiesInv
    <2>2. CASE j = Len(stream) + 1
        BY <1>1, <1>6, <2>2 DEF LayoutInv, BodiesInv, StartsMessage
    <2> QED
        BY <1>1, <2>1, <2>2
<1>7. \A i \in DOMAIN stream : Cut(stream[i]) = "no"
    BY UnitWhole
<1>8. BodiesInv'
    BY <1>1, <1>2, <1>6 DEF BodiesInv
<1>9. CutsInv'
    BY <1>1, <1>7 DEF CutsInv
<1> QED
    BY <1>4, <1>5, <1>8, <1>9 DEF HeadersInv

LEMMA WriteUnitFlow ==
    ASSUME StreamInv, FlowInv, NEW w \in Writers, WriteUnit(w)
    PROVE  FlowInv'
<1>0. PICK e : e = Head(todo[w])
    OBVIOUS
<1>1. /\ ~ended /\ todo[w] # <<>> /\ stream' = Append(stream, e)
      /\ todo' = [todo EXCEPT ![w] = Tail(@)]
      /\ UNCHANGED <<setup, ended, failed, receive_mutex, call, sent, refused>>
    BY <1>0 DEF WriteUnit
<1>2. w \in Waiting
    BY <1>1 DEF Waiting
<1>3. /\ Waiting = {w} /\ Last \in DOMAIN sent /\ Last' = Last
      /\ Header(sent[Last], Last).kind = "header" /\ Body(sent[Last], Last).kind # "header"
      /\ \/ todo[w] = <<Body(sent[Last], Last)>> /\ e = Body(sent[Last], Last)
         \/ /\ todo[w] = <<Header(sent[Last], Last), Body(sent[Last], Last)>>
            /\ e = Header(sent[Last], Last)
    BY <1>0, <1>1, <1>2, OneWaits DEF Last
<1>4. e \in Pieces /\ e.n = Last
    BY <1>0, <1>2, NextPiece DEF Pieces
<1>5. todo'[w] = Tail(todo[w]) /\ Waiting' \subseteq {w}
    BY <1>1, <1>3 DEF StreamInv, Waiting
<1>6. \/ todo'[w] = <<>> /\ IsBody(e) /\ Waiting' = {}
      \/ todo'[w] = <<Body(sent[Last], Last)>> /\ ~IsBody(e) /\ Waiting' = {w}
    <2>1. CASE todo[w] = <<Body(sent[Last], Last)>> /\ e = Body(sent[Last], Last)
        <3>1. todo'[w] = <<>> /\ IsBody(e)
            BY <1>3, <1>5, <2>1 DEF IsBody
        <3> QED
            BY <1>5, <3>1 DEF Waiting
    <2>2. CASE /\ todo[w] = <<Header(sent[Last], Last), Body(sent[Last], Last)>>
               /\ e = Header(sent[Last], Last)
        <3>1. todo'[w] = <<Body(sent[Last], Last)>> /\ ~IsBody(e)
            BY <1>3, <1>5, <2>2 DEF IsBody
        <3>2. todo'[w] # <<>>
            BY <3>1
        <3> QED
            BY <1>5, <3>1, <3>2 DEF Waiting
    <2> QED
        BY <1>3, <2>1, <2>2
<1>7. /\ ~IsBody(e) => \E x \in Waiting' : BodyIsLeft(x, Last)'
      /\ \A x \in Waiting' : Head(todo'[x]) = Body(sent[Last], Last)
    BY <1>1, <1>3, <1>6 DEF BodyIsLeft, Body
<1>8. HeadersInv' /\ BodiesInv' /\ CutsInv'
    BY <1>0, <1>1, <1>2, <1>4, <1>7, LayoutGrows DEF FlowInv
<1>9. stream' # <<>> /\ stream'[1] = (IF stream = <<>> THEN e ELSE stream[1])
      /\ Head(stream') = (IF stream = <<>> THEN e ELSE Head(stream))
    <2>1. stream' = Append(stream, e) /\ stream \in Seq(Pieces) /\ e \in Pieces
        BY <1>1, <1>4 DEF StreamInv
    <2> QED
        BY <2>1
<1>10. FailedInv'
    BY <1>0, <1>1, <1>2, <1>9 DEF FlowInv, LayoutInv, FailedInv, Misaligned
<1>11. ASSUME NEW k \in Readers PROVE CallOK(k)'
    <2>1. CallOK(k)
        BY DEF FlowInv, CallsInv
    <2>2. ASSUME NEW c, Opened(c) PROVE Opened(c)'
        <3>1. PICK n \in DOMAIN sent : n = c.began.n
            BY <2>2 DEF Opened
        <3>2. BodyIsNext(n)
            BY <2>2, <3>1 DEF Opened
        <3>3. BodyIsNext(n)'
            <4>1. CASE stream = <<>>
                <5>1. n = Last /\ todo[w] = <<Body(sent[Last], Last)>>
                    BY <1>3, <3>2, <4>1 DEF BodyIsNext, BodyIsLeft
                <5>2. e = Body(sent[Last], Last)
                    BY <1>3, <5>1
                <5> QED
                    BY <1>3, <1>4, <1>9, <4>1, <5>1, <5>2 DEF BodyIsNext, IsBody
            <4>2. CASE stream # <<>>
                BY <1>9, <3>2, <4>2 DEF BodyIsNext
            <4> QED
                BY <4>1, <4>2
        <3> QED
            BY <1>1, <2>2, <3>1, <3>3 DEF Opened, Header
    <2>3. PICK c : c = call[k]
        OBVIOUS
    <2> QED
        BY <1>1, <2>1, <2>2, <2>3 DEF CallOK
<1>12. CallsInv'
    BY <1>1, <1>3, <1>11 DEF CallsInv, FlowInv
<1>13. RefusedInv'
    BY <1>1, RejectedStays DEF FlowInv
<1> QED
    BY <1>8, <1>10, <1>12, <1>13 DEF FlowInv, LayoutInv

LEMMA WriterEndsFlow ==
    ASSUME StreamInv, FlowInv, WriterEnds
    PROVE  FlowInv'
<1>1. /\ ~ended /\ ended' /\ setup.piped
      /\ UNCHANGED <<setup, failed, receive_mutex, todo, call, sent, refused>>
    BY DEF WriterEnds
<1>2. Waiting' = Waiting /\ Last' = Last
    BY <1>1 DEF Waiting, Last
<1>3. ASSUME stream' = stream PROVE HeadersInv' /\ BodiesInv' /\ CutsInv'
    <2>1. HeadersInv'
        BY <1>1, <1>2, <1>3 DEF HeadersInv, Followed, FlowInv, LayoutInv
    <2>2. BodiesInv'
        BY <1>1, <1>2, <1>3 DEF BodiesInv, FlowInv, LayoutInv
    <2>3. CutsInv'
        BY <1>3 DEF CutsInv, FlowInv, LayoutInv
    <2> QED
        BY <2>1, <2>2, <2>3
<1>4. ASSUME NEW w \in Writers, NEW cut \in {"early", "late"}, todo[w] # <<>>,
             stream' = Append(stream, With(Head(todo[w]), "cut", cut))
      PROVE  HeadersInv' /\ BodiesInv' /\ CutsInv'
    <2>1. w \in Waiting
        BY <1>4 DEF Waiting
    <2>2. PICK v \in Headers \cup Bodies : v = Head(todo[w]) /\ v.n = Last
        BY <2>1, NextPiece
    <2>3. PICK e \in Pieces : e = With(v, "cut", cut) /\ e.n = Last /\ e.kind = v.kind
        <3>1. With(v, "cut", cut) \in Cuts
            BY DEF Cuts
        <3>2. With(v, "cut", cut).n = Last /\ With(v, "cut", cut).kind = v.kind
            BY <2>2, CutNumber
        <3> QED
            BY <3>1, <3>2 DEF Pieces
    <2>4. \A x \in Waiting' : Head(todo'[x]) = Head(todo[w])
        BY <1>1, <1>2, <2>1, OneWaits
    <2>5. stream' = Append(stream, e) /\ e.kind = Head(todo[w]).kind
        BY <1>4, <2>2, <2>3
    <2> QED
        BY <1>1, <2>1, <2>3, <2>4, <2>5, LayoutGrows DEF FlowInv
<1>5. FailedInv'
    BY <1>1 DEF FailedInv, FlowInv, LayoutInv
<1>6. CallsInv'
    BY <1>1 DEF CallsInv, CallOK, FlowInv
<1>7. RefusedInv'
    BY <1>1 DEF RefusedInv
<1>8. HeadersInv' /\ BodiesInv' /\ CutsInv'
    BY <1>3, <1>4 DEF WriterEnds
<1> QED
    BY <1>5, <1>6, <1>7, <1>8 DEF FlowInv, LayoutInv


(***************************************************************************)
(* Readers.  A read takes the first unit, or fails.                        *)
(***************************************************************************)
LEMMA EmptyIs == \A s \in Seq(Pieces) : s = <<>> <=> Len(s) = 0
OBVIOUS

LEMMA LayoutShrinks ==
    ASSUME StreamInv, LayoutInv, stream # <<>>, stream' = Tail(stream),
           UNCHANGED <<setup, ended, todo, sent>>
    PROVE  HeadersInv' /\ BodiesInv' /\ CutsInv'
<1>1. /\ DOMAIN stream = 1 .. Len(stream) /\ DOMAIN stream' = 1 .. Len(stream) - 1
      /\ Len(stream') = Len(stream) - 1 /\ Len(stream) \in Nat /\ Len(stream) # 0
      /\ (stream' = <<>> <=> Len(stream) = 1)
      /\ \A i \in DOMAIN stream' : i + 1 \in DOMAIN stream /\ stream'[i] = stream[i + 1]
    <2>1. stream \in Seq(Pieces) /\ stream' \in Seq(Pieces) /\ Len(stream) \in Nat /\ Len(stream) # 0
        BY TailFacts DEF StreamInv, Numbers
    <2>2. DOMAIN stream = 1 .. Len(stream) /\ DOMAIN stream' = 1 .. Len(stream) - 1
        BY TailFacts
    <2>3. Len(stream') = Len(stream) - 1
        BY <2>1
    <2>4. \A i \in DOMAIN stream' : i + 1 \in DOMAIN stream /\ stream'[i] = stream[i + 1]
        BY TailFacts
    <2>5. stream' = <<>> <=> Len(stream) = 1
        <3>1. stream' = <<>> <=> Len(stream') = 0
            BY <2>1, EmptyIs, Zenon
        <3>2. Len(stream') = 0 <=> Len(stream) = 1
            BY <2>1, <2>3
        <3> QED
            BY <3>1, <3>2
    <2> QED
        BY <2>1, <2>2, <2>3, <2>4, <2>5
<1>2. Waiting' = Waiting /\ Last' = Last
    BY DEF Waiting, Last
<1>3. ASSUME NEW i \in DOMAIN stream', ~IsBody(stream'[i])
      PROVE  sent'[stream'[i].n].kind # "result" /\ Followed(i)'
    <2>1. PICK j \in DOMAIN stream : j = i + 1 /\ stream'[i] = stream[j]
        BY <1>1, <1>3
    <2>2. sent[stream[j].n].kind # "result" /\ Followed(j)
        BY <1>3, <2>1 DEF LayoutInv, HeadersInv
    <2>3. CASE j + 1 \in DOMAIN stream /\ stream[j + 1].n = stream[j].n /\ IsBody(stream[j + 1])
        <3>1. i + 1 \in DOMAIN stream' /\ stream'[i + 1] = stream[j + 1]
            BY <1>1, <2>1, <2>3
        <3> QED
            BY <2>1, <2>2, <2>3, <3>1 DEF Followed
    <2>4. CASE j = Len(stream) /\ (ended \/ \E w \in Waiting : BodyIsLeft(w, stream[j].n))
        <3>1. i = Len(stream')
            BY <1>1, <2>1, <2>4
        <3>2. ended' \/ \E w \in Waiting' : BodyIsLeft(w, stream[i].n)'
            BY <1>2, <2>1, <2>4 DEF BodyIsLeft, Body
        <3> QED
            BY <2>1, <2>2, <3>1, <3>2 DEF Followed
    <2> QED
        BY <2>2, <2>3, <2>4 DEF Followed
<1>4. HeadersInv'
    BY <1>2, <1>3 DEF HeadersInv, LayoutInv
<1>5. ASSUME NEW i \in DOMAIN stream', NEW j \in DOMAIN stream', j = i + 1, ~StartsMessage(stream'[j])
      PROVE  stream'[i].n = stream'[j].n
    BY <1>1, <1>5 DEF LayoutInv, BodiesInv
<1>6. stream' = <<>> \/ stream'[Len(stream')] = stream[Len(stream)]
    BY <1>1
<1>7. BodiesInv'
    BY <1>1, <1>2, <1>5, <1>6 DEF BodiesInv, LayoutInv
<1>8. CutsInv'
    BY <1>1 DEF CutsInv, LayoutInv
<1> QED
    BY <1>4, <1>7, <1>8

LEMMA ConsumeLayout ==
    ASSUME StreamInv, FlowInv, NEW k \in Readers, call[k] # NoCall, Consume,
           UNCHANGED <<setup, ended, todo, sent>>
    PROVE  LayoutInv'
<1>1. Waiting' = Waiting /\ Last' = Last
    BY DEF Waiting, Last
<1>2. CASE failed \/ stream = <<>>
    <2>1. stream' = stream /\ failed'
        BY <1>2 DEF Consume
    <2>2. HeadersInv'
        BY <1>1, <2>1 DEF HeadersInv, Followed, BodyIsLeft, Body, FlowInv, LayoutInv
    <2>3. BodiesInv'
        BY <1>1, <2>1 DEF BodiesInv, FlowInv, LayoutInv
    <2>4. CutsInv'
        BY <2>1 DEF CutsInv, FlowInv, LayoutInv
    <2>5. FailedInv'
        <3>1. CASE failed
            BY <1>1, <2>1, <3>1 DEF FailedInv, Misaligned, FlowInv, LayoutInv
        <3>2. CASE ~failed
            <4>1. ended \/ ~setup.piped
                BY <1>2, <3>2 DEF Consume, CanRead
            <4>2. ~setup.piped => Waiting = {}
                BY DEF FlowInv, CallsInv
            <4> QED
                BY <1>1, <1>2, <2>1, <3>2, <4>1, <4>2 DEF FailedInv, Misaligned
        <3> QED
            BY <3>1, <3>2
    <2> QED
        BY <2>2, <2>3, <2>4, <2>5 DEF LayoutInv
<1>3. CASE ~failed /\ stream # <<>>
    <2>1. stream' = Tail(stream) /\ (failed' <=> Cut(Head(stream)) # "no")
        BY <1>3 DEF Consume
    <2>2. HeadersInv' /\ BodiesInv' /\ CutsInv'
        BY <1>3, <2>1, LayoutShrinks DEF FlowInv
    <2>3. 1 \in DOMAIN stream /\ Head(stream) = stream[1] /\ stream \in Seq(Pieces)
        BY <1>3, TailFacts DEF StreamInv
    <2>4. ASSUME failed' PROVE ended' /\ stream' = <<>>
        <3>1. Cut(stream[1]) # "no"
            BY <2>1, <2>3, <2>4
        <3>2. ended /\ Len(stream) = 1
            BY <2>3, <3>1, UnitWhole DEF CutsInv, FlowInv, LayoutInv
        <3> QED
            BY <2>1, <2>3, <3>2
    <2>5. FailedInv'
        BY <2>4 DEF FailedInv, Misaligned
    <2> QED
        BY <2>2, <2>5 DEF LayoutInv
<1> QED
    BY <1>2, <1>3

\* What is read is the first unit; as long as the writer goes on it is a whole one.
LEMMA UnitRead ==
    ASSUME StreamInv, NextUnit # Nothing
    PROVE  /\ ~failed /\ stream # <<>> /\ 1 \in DOMAIN stream /\ NextUnit = AsRead(stream[1])
           /\ ~ended => Whole(stream[1]) /\ NextUnit = stream[1] /\ Cut(stream[1]) = "no"
<1>1. /\ ~failed /\ stream # <<>> /\ NextUnit = AsRead(stream[1]) /\ 1 \in DOMAIN stream
    BY TailFacts DEF NextUnit
<1>2. ~ended => Whole(stream[1]) /\ Cut(stream[1]) = "no"
    BY <1>1, UnitWhole
<1> QED
    BY <1>1, <1>2 DEF AsRead

\* The call under way is the only one.
LEMMA OneCall ==
    ASSUME FlowInv, NEW k \in Readers, call[k] # NoCall, NEW q \in Readers, q # k
    PROVE  call[q] = NoCall
BY DEF FlowInv, CallsInv, CallOK

\* A call that has ended leaves none.
LEMMA NoCallLeft ==
    ASSUME FlowInv, NEW k \in Readers, call[k] # NoCall, EndCall(k), UNCHANGED <<setup, todo>>
    PROVE  CallsInv'
<1>1. call' = [call EXCEPT ![k] = NoCall] /\ call = [q \in Readers |-> call[q]]
    BY DEF EndCall, FlowInv, CallsInv
<1>2. \A q \in Readers : call'[q] = NoCall
    BY <1>1, OneCall
<1> QED
    BY <1>1, <1>2 DEF CallsInv, CallOK

LEMMA RefusedGrows ==
    ASSUME RefusedInv, NEW r, ended \/ Rejected(r), refused' = refused \cup {r},
           UNCHANGED <<setup, ended, sent>>
    PROVE  RefusedInv'
<1>1. \A x : Rejected(x)' <=> Rejected(x)
    BY DEF Rejected
<1> QED
    BY <1>1 DEF RefusedInv

LEMMA ReadHeaderFlow ==
    ASSUME StreamInv, FlowInv, NEW k \in Readers, ReadHeader(k)
    PROVE  FlowInv'
<1> DEFINE u == NextUnit
           h == IF u = Nothing THEN Throws("runtime_error") ELSE LoadHeader(u)
           c == call[k]
<1>1. /\ c # NoCall /\ c.fn # "result" /\ c.header = Nothing /\ Consume
      /\ UNCHANGED <<setup, ended, send_mutex, todo, sent, receives>>
      /\ IF h.ok /\ HeaderAccepted(h.value, c.expected)
         THEN /\ call' = [call EXCEPT ![k].header = h.value, ![k].began = u]
              /\ UNCHANGED <<receive_mutex, got, refused>>
         ELSE Fails(k, u, "null")
    BY DEF ReadHeader
<1>2. LayoutInv'
    BY <1>1, ConsumeLayout
<1> HIDE DEF u, c
<1>3. ASSUME u # Nothing, ~ended, ~IsBody(u)
      PROVE  /\ u.n \in DOMAIN sent /\ sent[u.n] \in Traffic /\ u = Header(sent[u.n], u.n)
             /\ sent[u.n].kind # "result" /\ u.type = sent[u.n].type /\ u.version = setup.version
             /\ u.type \in {"parms", "oprf", "query"}
    <2>1. Whole(u) /\ u = stream[1] /\ 1 \in DOMAIN stream
        BY <1>3, UnitRead DEF u
    <2>2. u.n \in DOMAIN sent /\ sent[u.n] \in Traffic /\ u = Header(sent[u.n], u.n)
        BY <1>3, <2>1, WholeIs
    <2>3. sent[u.n].kind # "result"
        BY <1>3, <2>1 DEF FlowInv, LayoutInv, HeadersInv
    <2>4. PICK n, msg : n = u.n /\ msg = sent[n] /\ u = Header(msg, n)
        BY <2>2
    <2>5. Header(msg, n).type = msg.type /\ Header(msg, n).version = setup.version
        BY DEF Header, SaveHeader, With
    <2> QED
        BY <2>2, <2>3, <2>4, <2>5, MessageFields
<1>4. CASE h.ok /\ HeaderAccepted(h.value, c.expected)
    <2>1. call' = [call EXCEPT ![k].header = h.value, ![k].began = u] /\ UNCHANGED <<receive_mutex, refused>>
        BY <1>1, <1>4
    <2>2. u # Nothing /\ h = LoadHeader(u)
        BY <1>4 DEF Throws
    <2>3. u.kind = "header" /\ h.value = u
        <3>1. u.kind = "header" \/ (u.kind = "result" /\ h.value.type = "invalid")
            BY <1>4, <2>2 DEF LoadHeader, Throws, Ok, SaveHeader
        <3> QED
            BY <1>4, <2>2, <3>1 DEF HeaderAccepted, LoadHeader, Ok
    <2>4. CallOK(k) /\ call = [q \in Readers |-> call[q]]
        BY DEF FlowInv, CallsInv
    <2>5. /\ DOMAIN call'[k] = CallFields /\ call'[k].header = u /\ call'[k].began = u
          /\ call'[k].fn = c.fn /\ call'[k].expected = c.expected /\ call'[k].context = c.context
          /\ call' = [q \in Readers |-> call'[q]]
          /\ \A q \in Readers : q # k => call'[q] = call[q]
        BY <1>1, <2>1, <2>3, <2>4 DEF CallOK, CallFields, c
    <2>6. ended \/ Opened(call[k])'
        <3> SUFFICES ASSUME ~ended PROVE Opened(call[k])'
            OBVIOUS
        <3>1. /\ u.n \in DOMAIN sent /\ u = Header(sent[u.n], u.n) /\ sent[u.n].kind # "result"
            BY <1>3, <2>2, <2>3 DEF IsBody
        <3>2. /\ ~failed /\ stream # <<>> /\ 1 \in DOMAIN stream /\ u = stream[1] /\ Cut(stream[1]) = "no"
            BY <2>2, UnitRead DEF u
        <3>3. stream \in Seq(Pieces) /\ Head(stream) = stream[1]
            BY <3>2, TailFacts DEF StreamInv
        <3>4. stream' = Tail(stream) /\ ~failed'
            BY <1>1, <3>2, <3>3 DEF Consume
        <3>5. Followed(1)
            BY <2>3, <3>2 DEF FlowInv, LayoutInv, HeadersInv, IsBody
        <3>6. PICK n \in DOMAIN sent : n = u.n
            BY <3>1
        <3>7. BodyIsNext(n)'
            <4>1. CASE 2 \in DOMAIN stream /\ stream[2].n = n /\ IsBody(stream[2])
                <5>1. 1 \in DOMAIN stream' /\ stream'[1] = stream[2]
                    BY <3>2, <3>3, <3>4, <4>1, TailFacts
                <5>2. stream' # <<>>
                    BY <5>1
                <5> QED
                    BY <4>1, <5>1, <5>2 DEF BodyIsNext
            <4>2. CASE 1 = Len(stream) /\ \E w \in Waiting : BodyIsLeft(w, n)
                <5>1. stream' = <<>>
                    BY <3>3, <3>4, <4>2
                <5>2. setup.piped
                    BY <1>1, <4>2 DEF FlowInv, CallsInv, c
                <5>3. \E w \in Waiting' : BodyIsLeft(w, n)'
                    BY <1>1, <4>2 DEF BodyIsLeft, Waiting, Body, Last
                <5> QED
                    BY <1>1, <5>1, <5>2, <5>3 DEF BodyIsNext
            <4> QED
                BY <3>2, <3>5, <3>6, <4>1, <4>2 DEF Followed
        <3>8. PICK x : x = call'[k] /\ x.began = u /\ x.header = u
            BY <2>5
        <3>9. x.began = Header(sent[n], n)' /\ sent'[n].kind # "result" /\ n \in DOMAIN sent'
            BY <1>1, <3>1, <3>6, <3>8 DEF Header
        <3> QED
            BY <3>4, <3>6, <3>7, <3>8, <3>9 DEF Opened
    <2>7. NeedsContext(call[k])' => ValidContext(call'[k].context)
        BY <1>1, <2>4, <2>5 DEF CallOK, NeedsContext, c
    <2>8. CallOK(k)'
        BY <1>1, <2>1, <2>4, <2>5, <2>6, <2>7 DEF CallOK, c
    <2>9. \A q \in Readers : q # k => CallOK(q)'
        BY <1>1, <2>5, OneCall DEF CallOK, c
    <2>10. ~setup'.piped => Waiting' = {}
        BY <1>1 DEF FlowInv, CallsInv, Waiting, c
    <2>11. CallsInv'
        BY <2>5, <2>8, <2>9, <2>10 DEF CallsInv
    <2>12. RefusedInv'
        BY <1>1, <2>1, RejectedStays DEF FlowInv
    <2> QED
        BY <1>2, <2>11, <2>12 DEF FlowInv
<1>5. CASE ~(h.ok /\ HeaderAccepted(h.value, c.expected))
    <2> DEFINE r == [began |-> u, expected |-> c.expected, fn |-> c.fn, context |-> c.context,
                     outcome |-> "null"]
    <2>1. EndCall(k) /\ refused' = refused \cup {r}
        BY <1>1, <1>5 DEF Fails, c
    <2>2. CallsInv'
        BY <1>1, <2>1, NoCallLeft DEF c
    <2>3. ended \/ Rejected(r)
        <3> SUFFICES ASSUME ~ended, setup.version = ThisVersion, StartsMessage(u)
                     PROVE  u.n \in DOMAIN sent /\ ~Acceptable(sent[u.n], r)
            BY DEF Rejected
        <3>1. u # Nothing
            BY DEF StartsMessage, Nothing
        <3>2. Whole(u) /\ u.n \in DOMAIN sent
            BY <3>1, UnitRead, UnitWhole DEF u
        <3> SUFFICES ASSUME Acceptable(sent[u.n], r) PROVE FALSE
            BY <3>2
        <3>3. /\ c.fn = sent[u.n].kind /\ sent[u.n].kind # "result"
              /\ c.expected \in {"unknown", sent[u.n].type}
            BY <1>1 DEF Acceptable
        <3>4. ~IsBody(u)
            BY <3>2, <3>3, WholeIs DEF StartsMessage, IsBody
        <3>5. h = Ok(u)
            BY <3>1, <3>4 DEF IsBody, LoadHeader
        <3>6. HeaderAccepted(u, c.expected)
            BY <1>3, <3>1, <3>3, <3>4 DEF HeaderAccepted
        <3> QED
            BY <1>5, <3>5, <3>6 DEF Ok
    <2>4. RefusedInv'
        <3> HIDE DEF r
        <3> QED
            BY <1>1, <2>1, <2>3, RefusedGrows DEF FlowInv
    <2> QED
        BY <1>2, <2>2, <2>4 DEF FlowInv
<1> QED
    BY <1>4, <1>5


\* The body of a message loads for every call that may take the message.
LEMMA AcceptableLoads ==
    ASSUME NEW msg \in Traffic, NEW n, NEW c, Acceptable(msg, c),
           NeedsContext(c) => ValidContext(c.context),
           msg.kind # "result" => c.header.type = msg.type
    PROVE  LoadBody(c, Body(msg, n)).ok
<1> DEFINE u == Body(msg, n)
           x == c.context
<1>0. /\ DOMAIN u = DOMAIN msg \cup {"n"} /\ u.kind = msg.kind
      /\ msg.kind # "result" => u.type = msg.type
    BY BodyFields
<1>1. /\ DOMAIN u = DOMAIN msg \cup {"n"} /\ u.kind = msg.kind /\ ~IsDamaged(u)
      /\ msg.kind # "result" => u.type = msg.type
    <2> HIDE DEF u
    <2> QED
        BY <1>0, MessageFields DEF IsDamaged
<1>2. c.fn = msg.kind /\ MadeUnder(msg, x)
    BY DEF Acceptable
<1>3. CASE msg.kind = "operation" /\ msg.type = "query"
    <2>1. ValidContext(x) /\ LoadBody(c, u) = LoadQuery(u, x)
        BY <1>2, <1>3 DEF Acceptable, NeedsContext, LoadBody, LoadOperation
    <2>2. /\ x \in Keyswitching => msg.relin_keys = x
          /\ \A e \in DOMAIN msg.data : \A k \in DOMAIN msg.data[e] : msg.data[e][k] = x
        BY <1>2, <1>3 DEF MadeUnder
    <2>3. /\ DOMAIN msg = {"kind", "type", "relin_keys", "data"}
          /\ msg.data = [e \in DOMAIN msg.data |-> msg.data[e]]
        BY <1>3, MessageFields DEF WellFormedOperation, OperationFields
    <2>4. SaveBody(msg) = [msg EXCEPT !.data = SavedParts(msg.data)]
        BY <1>3 DEF SaveBody
    <2>5. u.data = SavedParts(msg.data) /\ u.relin_keys = msg.relin_keys
        BY <2>3, <2>4 DEF Body, With
    <2> HIDE DEF u
    <2>6. \A p \in u.data : \E e \in DOMAIN msg.data : p = <<e, msg.data[e]>>
        BY <2>5 DEF SavedParts
    <2>7. ~ \E p \in u.data : \E k \in DOMAIN p[2] : ~SealLoads(p[2][k], x)
        BY <2>2, <2>6 DEF SealLoads
    <2>8. LoadQueryParts(u.data).ok
        BY <2>3, <2>5, DataLoads
    <2>9. ~ (x \in Keyswitching /\ ~SealLoads(u.relin_keys, x))
        BY <2>2, <2>5 DEF SealLoads
    <2> DEFINE parts == LoadQueryParts(u.data)
    <2>10. LoadQuery(u, x) = IF parts.ok THEN Ok([u EXCEPT !.data = parts.value]) ELSE parts
        <3> HIDE DEF parts
        <3> QED
            BY <1>1, <1>3, <2>1, <2>7, <2>9 DEF LoadQuery, parts, u
    <2> QED
        BY <2>1, <2>8, <2>10 DEF Ok, u
<1>4. CASE msg.kind = "operation" /\ msg.type # "query"
    BY <1>1, <1>2, <1>4 DEF LoadBody, LoadOperation, LoadPlainOperation, Ok
<1>5. CASE msg.kind = "response"
    BY <1>1, <1>2, <1>5 DEF LoadBody, LoadResponse, Ok
<1>6. CASE msg.kind = "result"
    <2>1. msg \in Results
        BY <1>6, MessageFields DEF Responses
    <2>2. SaveBody(msg) = msg
        BY <1>6 DEF SaveBody
    <2>3. \A f \in DOMAIN msg : f # "n" => u[f] = msg[f]
        BY <2>2 DEF Body, With
    <2>4. /\ u.psi_result = msg.psi_result /\ u.label_result = msg.label_result
          /\ u.label_byte_count = msg.label_byte_count /\ u.nonce_byte_count = msg.nonce_byte_count
        BY <2>1, <2>3 DEF Results
    <2>5. msg.psi_result = x /\ \A k \in DOMAIN msg.label_result : msg.label_result[k] = x
        BY <1>2, <1>6 DEF MadeUnder
    <2>6. ~(msg.label_byte_count > MaxLabelByteCount) /\ ~(msg.nonce_byte_count > max_nonce_byte_count)
        <3>1. /\ msg.label_byte_count \in 0 .. MaxLabelByteCount
              /\ msg.nonce_byte_count \in 0 .. max_nonce_byte_count
            BY <2>1 DEF Results
        <3> QED
            BY <3>1 DEF MaxLabelByteCount, max_nonce_byte_count
    <2>7. ValidContext(x)
        BY <1>2, <1>6 DEF NeedsContext
    <2>8. LoadBody(c, u) = LoadResult(u, x)
        BY <1>2, <1>6 DEF LoadBody
    <2> HIDE DEF u
    <2>9. LoadResult(u, x) = Ok([u EXCEPT !.nonce_byte_count = IF u.label_byte_count = 0 THEN 0 ELSE @])
        BY <1>1, <1>6, <2>4, <2>5, <2>6, <2>7 DEF LoadResult, SealLoads
    <2> QED
        BY <2>8, <2>9 DEF Ok, u
<1> QED
    BY <1>3, <1>4, <1>5, <1>6, MessageFields

LEMMA ReadBodyFlow ==
    ASSUME StreamInv, FlowInv, NEW k \in Readers, ReadBody(k)
    PROVE  FlowInv'
<1> DEFINE u == NextUnit
           c == call[k]
           b == IF u = Nothing THEN Throws("runtime_error") ELSE LoadBody(c, u)
           began == IF c.fn = "result" THEN u ELSE c.began
           what == IF c.fn = "response" /\ b.what = "invalid_argument" THEN "threw" ELSE "null"
<1>1. /\ c # NoCall /\ (c.fn = "result" \/ c.header # Nothing) /\ Consume
      /\ UNCHANGED <<setup, ended, send_mutex, todo, sent, receives>>
      /\ IF b.ok THEN Returns(k, b.value) ELSE Fails(k, began, what)
    BY DEF ReadBody
<1>2. LayoutInv' /\ CallsInv'
    <2>1. EndCall(k) /\ Consume /\ c # NoCall
        BY <1>1 DEF ReadBody, Returns, Fails
    <2> QED
        BY <1>1, <2>1, ConsumeLayout, NoCallLeft
<1> HIDE DEF u, c
<1>3. CASE b.ok
    <2>1. refused' = refused
        BY <1>1, <1>3 DEF Returns
    <2> QED
        BY <1>1, <1>2, <2>1, RejectedStays DEF FlowInv
<1>4. CASE ~b.ok
    <2> DEFINE r == [began |-> began, expected |-> c.expected, fn |-> c.fn, context |-> c.context,
                     outcome |-> what]
    <2>1. refused' = refused \cup {r}
        BY <1>1, <1>4 DEF Fails, c
    <2>2. CallOK(k)
        BY DEF FlowInv, CallsInv
    <2>3. ASSUME ~ended, StartsMessage(began)
          PROVE  began.n \in DOMAIN sent /\ ~Acceptable(sent[began.n], r)
        <3>1. CASE c.fn = "result"
            <4>1. began = u /\ u # Nothing
                BY <2>3, <3>1 DEF StartsMessage, Nothing
            <4>2. Whole(u) /\ u.n \in DOMAIN sent /\ u = stream[1] /\ 1 \in DOMAIN stream
                BY <2>3, <4>1, UnitRead, UnitWhole DEF u
            <4> SUFFICES ASSUME Acceptable(sent[u.n], r) PROVE FALSE
                BY <4>1, <4>2
            <4>3. Acceptable(sent[u.n], c) /\ sent[u.n].kind = "result"
                BY <3>1 DEF Acceptable
            <4>4. IsBody(u)
                BY <4>2, <4>3 DEF FlowInv, LayoutInv, HeadersInv
            <4>5. PICK n \in DOMAIN sent, msg \in Traffic : n = u.n /\ msg = sent[n] /\ u = Body(msg, n)
                BY <4>2, <4>4, WholeIs
            <4>6. NeedsContext(c) => ValidContext(c.context)
                BY <1>1, <2>2 DEF CallOK, c
            <4>7. LoadBody(c, Body(msg, n)).ok
                BY <4>3, <4>5, <4>6, AcceptableLoads
            <4> QED
                BY <1>4, <4>1, <4>5, <4>7
        <3>2. CASE c.fn # "result"
            <4>1. Opened(c) /\ began = c.began /\ c # NoCall
                BY <1>1, <2>2, <2>3, <3>2 DEF CallOK, c
            <4>2. PICK n \in DOMAIN sent : n = began.n
                BY <4>1 DEF Opened
            <4> SUFFICES ASSUME Acceptable(sent[n], r) PROVE FALSE
                BY <4>2
            <4>3. PICK msg \in Traffic : msg = sent[n]
                BY DEF StreamInv
            <4>4. Acceptable(msg, c) /\ msg.kind # "result"
                BY <3>2, <4>3 DEF Acceptable
            <4>5. c.header = Header(msg, n) /\ ~failed /\ BodyIsNext(n)
                BY <4>1, <4>2, <4>3 DEF Opened
            <4>6. c.header.type = msg.type
                BY <4>5 DEF Header, SaveHeader, With
            <4>7. stream # <<>>
                BY <1>1, <2>3, <4>5 DEF ReadBody, Consume, CanRead, BodyIsNext
            <4>8. 1 \in DOMAIN stream /\ Head(stream) = stream[1] /\ stream[1].n = n /\ IsBody(stream[1])
                BY <4>5, <4>7, TailFacts DEF BodyIsNext
            <4>9. Whole(stream[1]) /\ Cut(stream[1]) = "no"
                BY <2>3, <4>8, UnitWhole
            <4>10. stream[1] = Body(msg, n)
                BY <4>3, <4>8, <4>9, WholeIs
            <4>11. u = Body(msg, n)
                BY <4>5, <4>7, <4>8, <4>9, <4>10 DEF u, NextUnit, AsRead
            <4>12. u # Nothing
                <5>1. u.kind = msg.kind /\ msg.kind # "nothing"
                    BY <4>11, BodyFields, MessageFields
                <5> QED
                    BY <5>1 DEF Nothing
            <4>13. NeedsContext(c) => ValidContext(c.context)
                BY <2>2, <4>1 DEF CallOK, c
            <4>14. LoadBody(c, Body(msg, n)).ok
                BY <4>4, <4>6, <4>13, AcceptableLoads
            <4> QED
                BY <1>4, <4>11, <4>12, <4>14
        <3> QED
            BY <3>1, <3>2
    <2>4. ended \/ Rejected(r)
        BY <2>3 DEF Rejected
    <2>5. RefusedInv'
        <3> HIDE DEF r
        <3> QED
            BY <1>1, <2>1, <2>4, RefusedGrows DEF FlowInv
    <2> QED
        BY <1>2, <2>5 DEF FlowInv
<1> QED
    BY <1>3, <1>4

LEMMA ReceiveBeginFlow ==
    ASSUME FlowInv, NEW k \in Readers, NEW c \in Calls, ReceiveBegin(k, c)
    PROVE  FlowInv'
<1>1. /\ MayBegin /\ UNCHANGED <<setup, stream, ended, failed, todo, sent, refused>>
      /\ IF NeedsContext(c) /\ ~ValidContext(c.context)
         THEN UNCHANGED <<call, receive_mutex>>
         ELSE /\ receive_mutex = NoThread /\ receive_mutex' = k
              /\ call' = [call EXCEPT ![k] = c]
    BY DEF ReceiveBegin
<1>2. Waiting' = Waiting /\ Last' = Last
    BY <1>1 DEF Waiting, Last
<1>3. HeadersInv' /\ BodiesInv' /\ CutsInv'
    <2>1. HeadersInv'
        BY <1>1, <1>2 DEF HeadersInv, Followed, BodyIsLeft, Body, FlowInv, LayoutInv
    <2>2. BodiesInv'
        BY <1>1, <1>2 DEF BodiesInv, FlowInv, LayoutInv
    <2>3. CutsInv'
        BY <1>1 DEF CutsInv, FlowInv, LayoutInv
    <2> QED
        BY <2>1, <2>2, <2>3
<1>4. FailedInv'
    BY <1>1, <1>2 DEF FailedInv, Misaligned, FlowInv, LayoutInv
<1>5. RefusedInv'
    BY <1>1 DEF RefusedInv, Rejected, FlowInv
<1>6. \A x : Opened(x) => Opened(x)'
    BY <1>1, <1>2 DEF Opened, BodyIsNext, BodyIsLeft, Header, Body
<1>7. CASE UNCHANGED <<call, receive_mutex>>
    <2>1. ASSUME NEW q \in Readers PROVE CallOK(q)'
        <3>1. PICK x : x = call[q]
            OBVIOUS
        <3>2. CallOK(q)
            BY DEF FlowInv, CallsInv
        <3> QED
            BY <1>1, <1>6, <1>7, <3>1, <3>2 DEF CallOK
    <2>2. CallsInv'
        BY <1>1, <1>2, <1>7, <2>1 DEF FlowInv, CallsInv
    <2> QED
        BY <1>3, <1>4, <1>5, <2>2 DEF FlowInv, LayoutInv
<1>8. CASE /\ ~(NeedsContext(c) /\ ~ValidContext(c.context))
           /\ receive_mutex = NoThread /\ receive_mutex' = k
           /\ call' = [call EXCEPT ![k] = c]
    <2>1. DOMAIN c = CallFields /\ c.header = Nothing
        BY DEF Calls, Call, CallFields
    <2>2. \A q \in Readers : call[q] = NoCall
        BY <1>8, StreamAssumption DEF FlowInv, CallsInv, CallOK
    <2>3. /\ call' = [q \in Readers |-> call'[q]] /\ call'[k] = c
          /\ \A q \in Readers : q # k => call'[q] = NoCall
        BY <1>8, <2>2 DEF FlowInv, CallsInv
    <2>4. \A q \in Readers : CallOK(q)'
        BY <1>8, <2>1, <2>3 DEF CallOK
    <2>5. ~setup.piped => Waiting = {}
        BY <1>1 DEF MayBegin, Waiting
    <2>6. CallsInv'
        BY <1>1, <1>2, <2>3, <2>4, <2>5 DEF CallsInv
    <2> QED
        BY <1>3, <1>4, <1>5, <2>6 DEF FlowInv, LayoutInv
<1> QED
    BY <1>1, <1>7, <1>8


LEMMA FlowInvNext ==
    ASSUME StreamInv, FlowInv, [StreamNext]_streamVars
    PROVE  FlowInv'
<1>1. ASSUME NEW w \in Writers, WriteUnit(w) PROVE FlowInv'
    BY <1>1, WriteUnitFlow
<1>2. ASSUME NEW w \in Writers, NEW msg \in Sendable, SendBegin(w, msg) PROVE FlowInv'
    BY <1>2, SendBeginFlow
<1>3. CASE WriterEnds
    BY <1>3, WriterEndsFlow
<1>4. ASSUME NEW k \in Readers, ReadHeader(k) PROVE FlowInv'
    BY <1>4, ReadHeaderFlow
<1>5. ASSUME NEW k \in Readers, ReadBody(k) PROVE FlowInv'
    BY <1>5, ReadBodyFlow
<1>6. ASSUME NEW k \in Readers, NEW c \in Calls, ReceiveBegin(k, c) PROVE FlowInv'
    BY <1>6, ReceiveBeginFlow
<1>7. CASE UNCHANGED streamVars
    <2>1. /\ UNCHANGED <<setup, stream, ended, failed, todo, sent, call, receive_mutex, refused>>
          /\ Waiting' = Waiting /\ Last' = Last
        BY <1>7 DEF streamVars, Waiting, Last
    <2>2. LayoutInv'
        <3>1. HeadersInv'
            BY <2>1 DEF LayoutInv, HeadersInv, Followed, BodyIsLeft, Body, FlowInv
        <3>2. BodiesInv'
            BY <2>1 DEF LayoutInv, BodiesInv, FlowInv
        <3>3. CutsInv'
            BY <2>1 DEF LayoutInv, CutsInv, FlowInv
        <3>4. FailedInv'
            BY <2>1 DEF LayoutInv, FailedInv, Misaligned, FlowInv
        <3> QED
            BY <3>1, <3>2, <3>3, <3>4, Zenon DEF LayoutInv
    <2>3. \A x : Opened(x) => Opened(x)'
        BY <2>1 DEF Opened, BodyIsNext, BodyIsLeft, Header, Body
    <2>4. ASSUME NEW q \in Readers PROVE CallOK(q)'
        <3>1. PICK x : x = call[q]
            OBVIOUS
        <3>2. CallOK(q)
            BY DEF FlowInv, CallsInv
        <3> QED
            BY <2>1, <2>3, <3>1, <3>2 DEF CallOK
    <2>5. CallsInv'
        BY <2>1, <2>4 DEF FlowInv, CallsInv
    <2>6. RefusedInv'
        BY <2>1 DEF RefusedInv, Rejected, FlowInv
    <2> QED
        BY <2>2, <2>5, <2>6 DEF FlowInv
<1> QED
    BY <1>1, <1>2, <1>3, <1>4, <1>5, <1>6, <1>7 DEF StreamNext

\* A receive call that begins at a message it may take returns it, whatever the
\* other threads of both ends do meanwhile, unless the writer ends within it or
\* has another serialization version (stream_channel.cpp, the receive functions,
\* under receive_mutex_).
LEMMA MessagesGoThrough ==
    StreamSpec => []StreamGoesThrough
<1>1. StreamInit => StreamInv /\ FlowInv
    BY StreamInvInit, FlowInvInit
<1>2. StreamInv /\ FlowInv /\ [StreamNext]_streamVars => (StreamInv /\ FlowInv)'
    BY StreamInvNext, FlowInvNext
<1>3. FlowInv => StreamGoesThrough
    BY DEF FlowInv, RefusedInv, Rejected, StreamGoesThrough
<1> QED
    BY <1>1, <1>2, <1>3, PTL DEF StreamSpec

(***************************************************************************)
(* Realignment.                                                            *)
(***************************************************************************)
\* What is read at a body that is not a result package loads neither as a
\* header nor as a result package.
LEMMA StrayUnit ==
    ASSUME StreamInv, Misaligned, NextUnit # Nothing
    PROVE  /\ ~LoadHeader(NextUnit).ok
           /\ \A context : ~LoadResult(NextUnit, context).ok
<1>1. PICK u : u = stream[1] /\ NextUnit = AsRead(u) /\ 1 \in DOMAIN stream /\ stream[1] = Head(stream)
    BY UnitRead, TailFacts
<1>2. u.kind \notin {"header", "result"}
    BY <1>1 DEF Misaligned, StartsMessage
<1>3. "kind" \in DOMAIN u
    <2>1. CASE Whole(u)
        BY <2>1, PieceNumber DEF Whole
    <2>2. CASE CutShort(u)
        <3>1. PICK v \in Headers \cup Bodies, cut \in {"early", "late"} : u = With(v, "cut", cut)
            BY <2>2 DEF CutShort
        <3>2. DOMAIN u = DOMAIN v \cup {"cut"}
            BY <3>1, CutNumber
        <3> QED
            BY <3>2, PieceNumber
    <2> QED
        BY <1>1, <2>1, <2>2 DEF StreamInv
<1>4. NextUnit.kind = u.kind
    BY <1>1, <1>2, <1>3 DEF AsRead, Damaged, With
<1> QED
    BY <1>2, <1>4 DEF LoadHeader, LoadResult, Throws

\* Behind a stray body stands the next message.
LEMMA NextMessageBehind ==
    ASSUME StreamInv, FlowInv, Misaligned, Consume
    PROVE  ~Misaligned'
<1>1. ~failed /\ stream # <<>> /\ stream' = Tail(stream)
    BY DEF Misaligned, FailedInv, FlowInv, LayoutInv, Consume
<1>2. IsBody(stream[1])
    BY <1>1, TailFacts DEF Misaligned, StartsMessage, IsBody
<1> SUFFICES ASSUME stream' # <<>>, ~StartsMessage(Head(stream')) PROVE FALSE
    BY DEF Misaligned
<1>3. /\ 1 \in DOMAIN stream' /\ Head(stream') = stream'[1]
    <2>1. stream' \in Seq(Pieces)
        BY <1>1, TailFacts
    <2> QED
        BY <2>1
<1>4. 1 \in DOMAIN stream /\ 2 \in DOMAIN stream /\ stream'[1] = stream[2]
    BY <1>1, <1>3, TailFacts
<1>5. stream[1].n = stream[2].n
    BY <1>3, <1>4 DEF FlowInv, LayoutInv, BodiesInv
<1>6. stream[1].n < stream[2].n /\ stream[1].n \in Numbers
    BY <1>2, <1>4, UnitNumber DEF StreamInv
<1> QED
    BY <1>5, <1>6 DEF Numbers

LEMMA StepRealigns ==
    ASSUME StreamInv, FlowInv, StreamNext
    PROVE  Realigns
<1> SUFFICES ASSUME NEW k \in Readers, call[k] # NoCall, call[k].header = Nothing, Misaligned,
                    call'[k] # call[k]
             PROVE  call'[k] = NoCall /\ got' = got /\ ~Misaligned'
    BY DEF Realigns
<1> DEFINE u == NextUnit
           c == call[k]
<1>1. call = [q \in Readers |-> call[q]] /\ receive_mutex = k /\ \A q \in Readers : q # k => call[q] = NoCall
    BY OneCall DEF FlowInv, CallsInv, CallOK
<1>2. ASSUME NEW what, NEW began, Fails(k, began, what), Consume
      PROVE  call'[k] = NoCall /\ got' = got /\ ~Misaligned'
    <2>1. call' = [call EXCEPT ![k] = NoCall] /\ got' = got
        BY <1>2 DEF Fails, EndCall
    <2> QED
        BY <1>1, <1>2, <2>1, NextMessageBehind
<1>3. ASSUME NEW q \in Readers, ReadHeader(q) PROVE call'[k] = NoCall /\ got' = got /\ ~Misaligned'
    <2>1. q = k
        BY <1>1, <1>3 DEF ReadHeader
    <2> DEFINE h == IF u = Nothing THEN Throws("runtime_error") ELSE LoadHeader(u)
    <2>2. ~h.ok
        BY StrayUnit DEF Throws
    <2>3. Fails(k, u, "null") /\ Consume
        BY <1>3, <2>1, <2>2 DEF ReadHeader
    <2> QED
        BY <1>2, <2>3
<1>4. ASSUME NEW q \in Readers, ReadBody(q) PROVE call'[k] = NoCall /\ got' = got /\ ~Misaligned'
    <2>1. q = k /\ c.fn = "result"
        BY <1>1, <1>4 DEF ReadBody
    <2> DEFINE r == IF u = Nothing THEN Throws("runtime_error") ELSE LoadBody(c, u)
    <2>2. ~r.ok
        BY <2>1, StrayUnit DEF Throws, LoadBody
    <2>3. Consume /\ \E began, what : Fails(k, began, what)
        BY <1>4, <2>1, <2>2 DEF ReadBody
    <2> QED
        BY <1>2, <2>3
<1>5. ASSUME NEW q \in Readers, NEW d \in Calls, ReceiveBegin(q, d) PROVE FALSE
    <2>1. call'[k] = call[k]
        BY <1>1, <1>5, StreamAssumption DEF ReceiveBegin
    <2> QED
        BY <2>1
<1>6. ASSUME NEW w \in Writers, WriteUnit(w) \/ (\E msg \in Sendable : SendBegin(w, msg)) PROVE FALSE
    BY <1>6 DEF WriteUnit, SendBegin
<1>7. ~WriterEnds
    BY DEF WriterEnds
<1> QED
    BY <1>3, <1>4, <1>5, <1>6, <1>7 DEF StreamNext

\* A receive call that begins at the body of a message an earlier call has
\* rejected fails, returns nothing, and leaves the next message at the head of the
\* stream: a rejected header costs one more call (stream_channel.cpp, the early
\* returns of the receive functions between header and body).
LEMMA ChannelRealigns ==
    StreamSpec => [][Realigns]_streamVars
<1>1. StreamInit => StreamInv /\ FlowInv
    BY StreamInvInit, FlowInvInit
<1>2. StreamInv /\ FlowInv /\ [StreamNext]_streamVars => (StreamInv /\ FlowInv)'
    BY StreamInvNext, FlowInvNext
<1>3. StreamInv /\ FlowInv /\ [StreamNext]_streamVars => [Realigns]_streamVars
    BY StepRealigns
<1> QED
    BY <1>1, <1>2, <1>3, PTL DEF StreamSpec

-----------------------------------------------------------------------------
(***************************************************************************)
(* ZMQChannel.  What is written and read of one reply.                     *)
(***************************************************************************)
Written(msg, n) == Message(msg, ThisVersion, n)

ReplySet == Responses \cup Results

LEMMA ReplyFields ==
    ASSUME NEW msg \in ReplySet
    PROVE  /\ "n" \notin DOMAIN msg /\ "kind" \in DOMAIN msg
           /\ msg.kind \in {"response", "result"}
           /\ msg.kind = "result" => "label_byte_count" \in DOMAIN msg
           /\ SaveBody(msg) = msg
BY DEF ReplySet, Responses, Results, SaveBody

\* The body of a written reply: its number, and its other fields.
LEMMA WrittenBody ==
    ASSUME NEW msg \in ReplySet, NEW n \in Nat
    PROVE  /\ Written(msg, n).body = With(msg, "n", n)
           /\ Written(msg, n).body.n = n
           /\ Written(msg, n).body.kind = msg.kind
           /\ msg.kind = "result" =>
                 Written(msg, n).body.label_byte_count = msg.label_byte_count
<1>1. Written(msg, n).body = With(msg, "n", n)
    BY ReplyFields DEF Written, Message
<1>2. With(msg, "n", n).n = n /\ \A x \in DOMAIN msg : With(msg, "n", n)[x] = msg[x]
    BY ReplyFields DEF With
<1> QED
    BY <1>1, <1>2, ReplyFields

LEMMA ReadAsNumber ==
    ASSUME NEW msg \in ReplySet, NEW n \in Nat
    PROVE  ReadAs(msg, n).n = n
<1>1. "n" \notin DOMAIN Delivered(msg)
    BY ReplyFields DEF Delivered
<1> QED
    BY <1>1 DEF ReadAs, With

\* A response is read as it was written.
LEMMA ResponseRead ==
    ASSUME NEW msg \in ReplySet, NEW n \in Nat, NEW type,
           Written(msg, n).body.kind # "result", LoadResponse(Written(msg, n).body, type).ok
    PROVE  LoadResponse(Written(msg, n).body, type).value = ReadAs(msg, n)
BY WrittenBody DEF LoadResponse, Ok, Throws, ReadAs, Delivered

\* A result package is, up to a nonce without a label.
LEMMA ResultRead ==
    ASSUME NEW msg \in ReplySet, NEW n \in Nat, NEW context,
           Written(msg, n).body.kind = "result", LoadResult(Written(msg, n).body, context).ok
    PROVE  LoadResult(Written(msg, n).body, context).value = ReadAs(msg, n)
<1> DEFINE u == Written(msg, n).body
<1>1. u = With(msg, "n", n) /\ msg.kind = "result" /\ u.label_byte_count = msg.label_byte_count
    BY WrittenBody
<1>2. LoadResult(u, context).value
        = [u EXCEPT !.nonce_byte_count = IF u.label_byte_count = 0 THEN 0 ELSE @]
    BY DEF LoadResult, Ok, Throws
<1>3. CASE msg.label_byte_count = 0
    <2>1. [With(msg, "n", n) EXCEPT !.nonce_byte_count = 0]
            = With([msg EXCEPT !.nonce_byte_count = 0], "n", n)
        BY DEF With
    <2> QED
        BY <1>1, <1>2, <1>3, <2>1 DEF ReadAs, Delivered
<1>4. CASE msg.label_byte_count # 0
    <2>1. [u EXCEPT !.nonce_byte_count = @] = u
        BY <1>1 DEF With
    <2> QED
        BY <1>1, <1>2, <1>4, <2>1 DEF ReadAs, Delivered
<1> QED
    BY <1>3, <1>4

(***************************************************************************)
(* The invariant.  d is what is on the way to receiver c and g what it has *)
(* read: replies to its operations, with increasing numbers, those it has  *)
(* read before those on the way.                                           *)
(***************************************************************************)
Sent == [asker : Clients, msg : ReplySet]
WireReplies == {Written(msg, n) : msg \in ReplySet, n \in Nat}
ReadReplies == {ReadAs(msg, n) : msg \in ReplySet, n \in Nat}

IsReplyTo(rs, c, n) == n \in DOMAIN rs /\ rs[n].asker = c

OnTheWay(c, d, rs) ==
    /\ d \in Seq(WireReplies)
    /\ \A i \in DOMAIN d : LET n == d[i].body.n
                          IN  IsReplyTo(rs, c, n) /\ d[i] = Written(rs[n].msg, n)
    /\ \A i, j \in DOMAIN d : i < j => d[i].body.n < d[j].body.n

HasRead(c, g, rs) ==
    /\ g \in Seq(ReadReplies)
    /\ \A i \in DOMAIN g : LET n == g[i].n
                          IN  IsReplyTo(rs, c, n) /\ g[i] = ReadAs(rs[n].msg, n)
    /\ \A i, j \in DOMAIN g : i < j => g[i].n < g[j].n

Before(g, d) == \A i \in DOMAIN g, j \in DOMAIN d : g[i].n < d[j].body.n

RouteInv ==
    /\ replied \in Seq(Sent)
    /\ \A h \in held : h.client_id \in Clients /\ h.client_id = h.asker
    /\ down \in [Clients -> Seq(WireReplies)] /\ taken \in [Clients -> Seq(ReadReplies)]
    /\ \A c \in Clients :
          OnTheWay(c, down[c], replied) /\ HasRead(c, taken[c], replied) /\ Before(taken[c], down[c])

LEMMA RouteInvInit == ZmqInit => RouteInv
BY DEF ZmqInit, RouteInv, OnTheWay, HasRead, Before

\* One more reply does not disturb what is known of those before.
LEMMA RepliesGrow ==
    ASSUME NEW rs \in Seq(Sent), NEW e \in Sent, NEW c, NEW n, IsReplyTo(rs, c, n)
    PROVE  /\ IsReplyTo(Append(rs, e), c, n) /\ Append(rs, e)[n] = rs[n]
           /\ n \in Nat /\ n < Len(rs) + 1
BY DEF IsReplyTo

LEMMA OnTheWayGrows ==
    ASSUME NEW rs \in Seq(Sent), NEW e \in Sent, NEW c, NEW d, OnTheWay(c, d, rs)
    PROVE  OnTheWay(c, d, Append(rs, e))
<1> DEFINE rs2 == Append(rs, e)
<1>1. ASSUME NEW i \in DOMAIN d
      PROVE  LET n == d[i].body.n IN IsReplyTo(rs2, c, n) /\ d[i] = Written(rs2[n].msg, n)
    <2> DEFINE n == d[i].body.n
    <2>1. IsReplyTo(rs, c, n) /\ d[i] = Written(rs[n].msg, n)
        BY DEF OnTheWay
    <2> HIDE DEF n
    <2>2. IsReplyTo(rs2, c, n) /\ rs2[n] = rs[n]
        BY <2>1, RepliesGrow
    <2> QED
        BY <2>1, <2>2 DEF n
<1> HIDE DEF rs2
<1>2. OnTheWay(c, d, rs2)
    BY <1>1 DEF OnTheWay
<1> QED
    BY <1>2 DEF rs2

LEMMA HasReadGrows ==
    ASSUME NEW rs \in Seq(Sent), NEW e \in Sent, NEW c, NEW g, HasRead(c, g, rs)
    PROVE  HasRead(c, g, Append(rs, e))
<1> DEFINE rs2 == Append(rs, e)
<1>1. ASSUME NEW i \in DOMAIN g
      PROVE  LET n == g[i].n IN IsReplyTo(rs2, c, n) /\ g[i] = ReadAs(rs2[n].msg, n)
    <2> DEFINE n == g[i].n
    <2>1. IsReplyTo(rs, c, n) /\ g[i] = ReadAs(rs[n].msg, n)
        BY DEF HasRead
    <2> HIDE DEF n
    <2>2. IsReplyTo(rs2, c, n) /\ rs2[n] = rs[n]
        BY <2>1, RepliesGrow
    <2> QED
        BY <2>1, <2>2 DEF n
<1> HIDE DEF rs2
<1>2. HasRead(c, g, rs2)
    BY <1>1 DEF HasRead
<1> QED
    BY <1>2 DEF rs2

\* A reply is put behind those on the way, with a number above all others.
LEMMA ReplyBehindOthers ==
    ASSUME NEW rs \in Seq(Sent), NEW e \in Sent, NEW c, e.asker = c, NEW d, NEW g,
           OnTheWay(c, d, rs), HasRead(c, g, rs), Before(g, d),
           NEW w, w = Written(e.msg, Len(rs) + 1)
    PROVE  /\ OnTheWay(c, Append(d, w), Append(rs, e))
           /\ Before(g, Append(d, w))
<1> DEFINE k == Len(rs) + 1
           d2 == Append(d, w)
           rs2 == Append(rs, e)
<1>1. w.body.n = k /\ w \in WireReplies /\ k \in Nat
    BY WrittenBody DEF Sent, WireReplies
<1>2. /\ d \in Seq(WireReplies) /\ d2 \in Seq(WireReplies) /\ Len(d) \in Nat
      /\ DOMAIN d = 1 .. Len(d) /\ DOMAIN d2 = 1 .. Len(d) + 1
      /\ d2[Len(d) + 1] = w /\ \A i \in DOMAIN d : d2[i] = d[i]
    BY <1>1 DEF OnTheWay
<1>3. IsReplyTo(rs2, c, k) /\ w = Written(rs2[k].msg, k)
    BY DEF IsReplyTo
<1>4. OnTheWay(c, d, rs2)
    BY OnTheWayGrows
<1>5. \A i \in DOMAIN d : d[i].body.n < k
    BY RepliesGrow DEF OnTheWay
<1>6. \A i \in DOMAIN g : g[i].n < k
    BY RepliesGrow DEF HasRead
<1>7. \A i \in DOMAIN d2 : LET n == d2[i].body.n
                          IN  IsReplyTo(rs2, c, n) /\ d2[i] = Written(rs2[n].msg, n)
    <2> HIDE DEF d2, rs2, k
    <2> SUFFICES ASSUME NEW i \in DOMAIN d2
                 PROVE  IsReplyTo(rs2, c, d2[i].body.n)
                        /\ d2[i] = Written(rs2[d2[i].body.n].msg, d2[i].body.n)
        OBVIOUS
    <2>1. CASE i \in DOMAIN d
        BY <1>2, <1>4, <2>1 DEF OnTheWay
    <2>2. CASE i = Len(d) + 1
        BY <1>1, <1>2, <1>3, <2>2
    <2> QED
        BY <1>2, <2>1, <2>2
<1>8. \A i, j \in DOMAIN d2 : i < j => d2[i].body.n < d2[j].body.n
    <2> HIDE DEF d2, rs2, k
    <2> SUFFICES ASSUME NEW i \in DOMAIN d2, NEW j \in DOMAIN d2, i < j
                 PROVE  d2[i].body.n < d2[j].body.n
        OBVIOUS
    <2>1. i \in DOMAIN d
        BY <1>2
    <2>2. CASE j \in DOMAIN d
        BY <1>2, <2>1, <2>2 DEF OnTheWay
    <2>3. CASE j = Len(d) + 1
        BY <1>1, <1>2, <1>5, <2>1, <2>3
    <2> QED
        BY <1>2, <2>2, <2>3
<1>9. Before(g, d2)
    <2> HIDE DEF d2, rs2, k
    <2> QED
        BY <1>1, <1>2, <1>6 DEF Before
<1> QED
    BY <1>2, <1>7, <1>8, <1>9 DEF OnTheWay

\* The first message is taken from those on the way.
LEMMA Taken ==
    ASSUME NEW M, NEW d \in Seq(M), d # <<>>
    PROVE  /\ 1 \in DOMAIN d /\ Head(d) = d[1] /\ Head(d) \in M
           /\ Tail(d) \in Seq(M)
           /\ \A i \in DOMAIN Tail(d) : i + 1 \in DOMAIN d /\ Tail(d)[i] = d[i + 1] /\ i \in Nat \ {0}
OBVIOUS

LEMMA OnTheWayTail ==
    ASSUME NEW c, NEW d, NEW g, NEW rs, d # <<>>, OnTheWay(c, d, rs), Before(g, d)
    PROVE  /\ OnTheWay(c, Tail(d), rs) /\ Before(g, Tail(d))
           /\ \A i \in DOMAIN Tail(d) : d[1].body.n < Tail(d)[i].body.n
<1> DEFINE e == Tail(d)
<1>1. d \in Seq(WireReplies)
    BY DEF OnTheWay
<1>2. /\ 1 \in DOMAIN d /\ e \in Seq(WireReplies)
      /\ \A i \in DOMAIN e : i + 1 \in DOMAIN d /\ e[i] = d[i + 1] /\ i \in Nat \ {0}
    BY <1>1, Taken
<1> HIDE DEF e
<1>3. \A i \in DOMAIN e : d[1].body.n < e[i].body.n
    BY <1>2 DEF OnTheWay
<1>4. \A i, j \in DOMAIN e : i < j => e[i].body.n < e[j].body.n
    BY <1>2 DEF OnTheWay
<1>5. OnTheWay(c, e, rs)
    BY <1>2, <1>4 DEF OnTheWay
<1>6. Before(g, e)
    BY <1>2 DEF Before
<1> QED
    BY <1>3, <1>5, <1>6 DEF e

\* What is read of it comes behind what was read before.
LEMMA ReadBehindOthers ==
    ASSUME NEW c, NEW d, NEW g, NEW rs \in Seq(Sent), d # <<>>,
           OnTheWay(c, d, rs), HasRead(c, g, rs), Before(g, d),
           NEW n, n = d[1].body.n, NEW v, v = ReadAs(rs[n].msg, n)
    PROVE  /\ HasRead(c, Append(g, v), rs) /\ Before(Append(g, v), Tail(d))
           /\ v \in ReadReplies
<1> DEFINE g2 == Append(g, v)
           e == Tail(d)
<1>1. d \in Seq(WireReplies) /\ g \in Seq(ReadReplies)
    BY DEF OnTheWay, HasRead
<1>2. 1 \in DOMAIN d /\ IsReplyTo(rs, c, n)
    BY <1>1, Taken DEF OnTheWay
<1>3. n \in Nat /\ rs[n].msg \in ReplySet
    <2>1. n \in 1 .. Len(rs)
        BY <1>2 DEF IsReplyTo
    <2>2. rs[n] \in Sent
        BY <2>1
    <2> QED
        BY <2>1, <2>2 DEF Sent
<1>4. v.n = n /\ v \in ReadReplies
    BY <1>3, ReadAsNumber DEF ReadReplies
<1>5. /\ g2 \in Seq(ReadReplies) /\ Len(g) \in Nat
      /\ DOMAIN g = 1 .. Len(g) /\ DOMAIN g2 = 1 .. Len(g) + 1
      /\ g2[Len(g) + 1] = v /\ \A i \in DOMAIN g : g2[i] = g[i]
    BY <1>1, <1>4
<1>6. \A i \in DOMAIN g : g[i].n < n
    BY <1>2 DEF Before
<1>7. \A i \in DOMAIN e : n < e[i].body.n
    BY OnTheWayTail
<1> HIDE DEF g2, e
<1>8. \A i \in DOMAIN g2 : IsReplyTo(rs, c, g2[i].n) /\ g2[i] = ReadAs(rs[g2[i].n].msg, g2[i].n)
    <2> SUFFICES ASSUME NEW i \in DOMAIN g2
                 PROVE  IsReplyTo(rs, c, g2[i].n) /\ g2[i] = ReadAs(rs[g2[i].n].msg, g2[i].n)
        OBVIOUS
    <2>1. CASE i \in DOMAIN g
        BY <1>5, <2>1 DEF HasRead
    <2>2. CASE i = Len(g) + 1
        BY <1>2, <1>4, <1>5, <2>2
    <2> QED
        BY <1>5, <2>1, <2>2
<1>9. \A i, j \in DOMAIN g2 : i < j => g2[i].n < g2[j].n
    <2> SUFFICES ASSUME NEW i \in DOMAIN g2, NEW j \in DOMAIN g2, i < j
                 PROVE  g2[i].n < g2[j].n
        OBVIOUS
    <2>1. i \in DOMAIN g
        BY <1>5
    <2>2. CASE j \in DOMAIN g
        BY <1>5, <2>1, <2>2 DEF HasRead
    <2>3. CASE j = Len(g) + 1
        BY <1>4, <1>5, <1>6, <2>1, <2>3
    <2> QED
        BY <1>5, <2>2, <2>3
<1>10. Before(g2, e)
    <2> SUFFICES ASSUME NEW i \in DOMAIN g2, NEW j \in DOMAIN e
                 PROVE  g2[i].n < e[j].body.n
        BY DEF Before
    <2>1. CASE i \in DOMAIN g
        BY <1>5, <2>1, OnTheWayTail DEF Before, e
    <2>2. CASE i = Len(g) + 1
        BY <1>4, <1>5, <1>7, <2>2
    <2> QED
        BY <1>5, <2>1, <2>2
<1>11. HasRead(c, g2, rs)
    BY <1>5, <1>8, <1>9 DEF HasRead
<1> QED
    BY <1>4, <1>10, <1>11 DEF g2, e

-----------------------------------------------------------------------------
(***************************************************************************)
(* Steps.                                                                  *)
(***************************************************************************)
LEMMA HeldStays ==
    ASSUME RouteInv, UNCHANGED <<replied, down, taken, held>>
    PROVE  RouteInv'
BY DEF RouteInv

LEMMA DisconnectInv ==
    ASSUME RouteInv, NEW c \in Clients, Disconnect(c)
    PROVE  RouteInv'
<1>1. /\ UNCHANGED <<replied, taken, held>>
      /\ down' = [down EXCEPT ![c] = <<>>]
    BY DEF Disconnect, History
<1>2. OnTheWay(c, <<>>, replied) /\ Before(taken[c], <<>>)
    BY DEF OnTheWay, Before
<1>3. down' \in [Clients -> Seq(WireReplies)]
    BY <1>1 DEF RouteInv
<1>4. ASSUME NEW x \in Clients
      PROVE  OnTheWay(x, down'[x], replied') /\ HasRead(x, taken'[x], replied')
             /\ Before(taken'[x], down'[x])
    <2>1. CASE x = c
        <3>1. down'[x] = <<>>
            BY <1>1, <2>1 DEF RouteInv
        <3> QED
            BY <1>1, <1>2, <2>1, <3>1 DEF RouteInv
    <2>2. CASE x # c
        <3>1. down'[x] = down[x]
            BY <1>1, <2>2 DEF RouteInv
        <3> QED
            BY <1>1, <3>1 DEF RouteInv
    <2> QED
        BY <2>1, <2>2
<1> QED
    BY <1>1, <1>3, <1>4 DEF RouteInv

LEMMA ReceiveOperationInv ==
    ASSUME RouteInv, NEW e, NEW x, ReceiveOperation(e, x)
    PROVE  RouteInv'
<1>1. UNCHANGED <<replied, taken, down>>
    BY DEF ReceiveOperation
<1>2. \/ UNCHANGED held
      \/ \E c \in Clients : \E msg : held' = Hold(c, msg)
    BY DEF ReceiveOperation
<1>3. \A h \in held' : h.client_id \in Clients /\ h.client_id = h.asker
    BY <1>2 DEF RouteInv, Hold
<1> QED
    BY <1>1, <1>3 DEF RouteInv

LEMMA ReplyInv ==
    ASSUME RouteInv, NEW h \in held, NEW msg \in Replies, Reply(h, msg)
    PROVE  RouteInv'
<1> DEFINE c == h.client_id
           e == [asker |-> h.asker, msg |-> msg]
           w == Written(msg, Len(replied) + 1)
<1>1. /\ c \in Clients /\ e.asker = c /\ e.msg = msg /\ e \in Sent
      /\ replied \in Seq(Sent) /\ msg \in ReplySet
    BY TrafficAssumption DEF RouteInv, WellFormedOperation, Sent, ReplySet
<1>2. /\ replied' = Append(replied, e) /\ Len(replied') = Len(replied) + 1
      /\ UNCHANGED <<taken, held>> /\ replied' \in Seq(Sent)
    BY <1>1 DEF Reply
<1>3. down' = IF dealer[c] = "open" THEN [down EXCEPT ![c] = Append(@, w)] ELSE down
    BY <1>2 DEF Reply, Written
<1>4. w \in WireReplies
    <2>1. Len(replied) + 1 \in Nat
        BY <1>1
    <2> QED
        BY <1>1, <2>1 DEF WireReplies
<1> HIDE DEF c, e, w
<1>5. down' \in [Clients -> Seq(WireReplies)]
    BY <1>1, <1>3, <1>4 DEF RouteInv
<1>6. ASSUME NEW x \in Clients
      PROVE  OnTheWay(x, down'[x], replied') /\ HasRead(x, taken'[x], replied')
             /\ Before(taken'[x], down'[x])
    <2>1. OnTheWay(x, down[x], replied) /\ HasRead(x, taken[x], replied) /\ Before(taken[x], down[x])
        BY DEF RouteInv
    <2>2. HasRead(x, taken'[x], replied')
        BY <1>1, <1>2, <2>1, HasReadGrows
    <2>3. CASE x = c /\ dealer[c] = "open"
        <3>1. down'[x] = Append(down[x], w)
            BY <1>1, <1>3, <2>3 DEF RouteInv
        <3>2. w = Written(e.msg, Len(replied) + 1)
            BY <1>1 DEF w
        <3>3. OnTheWay(x, Append(down[x], w), Append(replied, e)) /\ Before(taken[x], Append(down[x], w))
            BY <1>1, <2>1, <2>3, <3>2, ReplyBehindOthers
        <3> QED
            BY <1>2, <2>2, <3>1, <3>3
    <2>4. CASE ~(x = c /\ dealer[c] = "open")
        <3>1. down'[x] = down[x]
            BY <1>1, <1>3, <2>4 DEF RouteInv
        <3>2. OnTheWay(x, down[x], Append(replied, e))
            BY <1>1, <2>1, OnTheWayGrows
        <3> QED
            BY <1>2, <2>1, <2>2, <3>1, <3>2
    <2> QED
        BY <2>3, <2>4
<1>7. \A k \in held' : k.client_id \in Clients /\ k.client_id = k.asker
    BY <1>2 DEF RouteInv
<1>8. taken' \in [Clients -> Seq(ReadReplies)]
    BY <1>2 DEF RouteInv
<1> QED
    BY <1>2, <1>5, <1>6, <1>7, <1>8 DEF RouteInv

\* What both receive calls of a receiver do with the first message: it is gone,
\* and nothing or what is read of it is returned.
TakesFirst(c) ==
    /\ down[c] # <<>> /\ down' = [down EXCEPT ![c] = Tail(@)]
    /\ UNCHANGED <<replied, held>>
    /\ \/ UNCHANGED taken
       \/ LET n == down[c][1].body.n
          IN  taken' = [taken EXCEPT ![c] = Append(@, ReadAs(replied[n].msg, n))]

LEMMA TakesFirstInv ==
    ASSUME RouteInv, NEW c \in Clients, TakesFirst(c)
    PROVE  RouteInv'
<1> DEFINE n == down[c][1].body.n
           v == ReadAs(replied[n].msg, n)
<1>1. /\ replied \in Seq(Sent) /\ down[c] # <<>>
      /\ OnTheWay(c, down[c], replied) /\ HasRead(c, taken[c], replied) /\ Before(taken[c], down[c])
    BY DEF RouteInv, TakesFirst
<1>2. /\ HasRead(c, Append(taken[c], v), replied) /\ Before(Append(taken[c], v), Tail(down[c]))
      /\ v \in ReadReplies
    BY <1>1, ReadBehindOthers
<1>3. OnTheWay(c, Tail(down[c]), replied) /\ Before(taken[c], Tail(down[c]))
    BY <1>1, OnTheWayTail
<1>4. Tail(down[c]) \in Seq(WireReplies) /\ Append(taken[c], v) \in Seq(ReadReplies)
    BY <1>2, <1>3 DEF OnTheWay, HasRead
<1>5. /\ down' = [down EXCEPT ![c] = Tail(@)] /\ UNCHANGED <<replied, held>>
      /\ UNCHANGED taken \/ taken' = [taken EXCEPT ![c] = Append(@, v)]
    BY DEF TakesFirst
<1> HIDE DEF v
<1>6. down' \in [Clients -> Seq(WireReplies)] /\ taken' \in [Clients -> Seq(ReadReplies)]
    BY <1>2, <1>4, <1>5 DEF RouteInv
<1>7. ASSUME NEW x \in Clients
      PROVE  OnTheWay(x, down'[x], replied') /\ HasRead(x, taken'[x], replied')
             /\ Before(taken'[x], down'[x])
    <2>1. CASE x = c
        <3>1. down'[x] = Tail(down[c])
            BY <1>5, <2>1 DEF RouteInv
        <3>2. taken'[x] = taken[c] \/ taken'[x] = Append(taken[c], v)
            BY <1>5, <2>1 DEF RouteInv
        <3> QED
            BY <1>1, <1>2, <1>3, <1>5, <2>1, <3>1, <3>2
    <2>2. CASE x # c
        <3>1. down'[x] = down[x] /\ taken'[x] = taken[x]
            BY <1>5, <2>2 DEF RouteInv
        <3> QED
            BY <1>5, <3>1 DEF RouteInv
    <2> QED
        BY <2>1, <2>2
<1> QED
    BY <1>5, <1>6, <1>7 DEF RouteInv

\* The first message on the way, and what it says.
LEMMA FirstOnTheWay ==
    ASSUME RouteInv, NEW c \in Clients, down[c] # <<>>
    PROVE  \E n \in Nat : /\ n = down[c][1].body.n /\ replied[n].msg \in ReplySet
                          /\ Head(down[c]) = Written(replied[n].msg, n)
<1> DEFINE n == down[c][1].body.n
<1>1. OnTheWay(c, down[c], replied) /\ down[c] \in Seq(WireReplies) /\ replied \in Seq(Sent)
    BY DEF RouteInv
<1>2. 1 \in DOMAIN down[c] /\ Head(down[c]) = down[c][1]
    BY <1>1, Taken
<1>3. IsReplyTo(replied, c, n) /\ down[c][1] = Written(replied[n].msg, n)
    BY <1>1, <1>2 DEF OnTheWay
<1> HIDE DEF n
<1>4. n \in 1 .. Len(replied)
    BY <1>1, <1>3 DEF IsReplyTo
<1>5. replied[n] \in Sent
    BY <1>1, <1>4
<1> QED
    BY <1>2, <1>3, <1>4, <1>5 DEF Sent, n

LEMMA NumberOnTheWay ==
    ASSUME RouteInv, NEW c \in Clients, down[c] # <<>>
    PROVE  Head(down[c]) = down[c][1] /\ down[c][1].body.n \in DOMAIN replied
<1>1. OnTheWay(c, down[c], replied) /\ down[c] \in Seq(WireReplies)
    BY DEF RouteInv
<1> QED
    BY <1>1, Taken DEF OnTheWay, IsReplyTo

LEMMA ReceiveResponseInv ==
    ASSUME RouteInv, NEW c \in Clients, NEW e, ReceiveResponse(c, e)
    PROVE  RouteInv'
<1>1. down[c] # <<>> /\ down' = [down EXCEPT ![c] = Tail(@)] /\ UNCHANGED <<replied, held>>
    BY DEF ReceiveResponse, Untouched
<1>2. PICK n \in Nat : /\ n = down[c][1].body.n /\ replied[n].msg \in ReplySet
                       /\ Head(down[c]) = Written(replied[n].msg, n)
    BY <1>1, FirstOnTheWay
<1>3. UNCHANGED taken \/ taken' = [taken EXCEPT ![c] = Append(@, ReadAs(replied[n].msg, n))]
    <2> DEFINE m == Head(down[c])
               r == LoadResponse(m.body, m.header.type)
    <2>1. \/ UNCHANGED taken
          \/ m.body.kind # "result" /\ r.ok /\ taken' = [taken EXCEPT ![c] = Append(@, r.value)]
        BY DEF ReceiveResponse
    <2>2. m.body.kind # "result" /\ r.ok => r.value = ReadAs(replied[n].msg, n)
        BY <1>2, ResponseRead
    <2> QED
        BY <2>1, <2>2
<1>4. TakesFirst(c)
    BY <1>1, <1>2, <1>3 DEF TakesFirst
<1> QED
    BY <1>4, TakesFirstInv

LEMMA ReceiveResultInv ==
    ASSUME RouteInv, NEW c \in Clients, NEW x, ReceiveResult(c, x)
    PROVE  RouteInv'
<1>1. CASE ~ValidContext(x)
    BY <1>1, HeldStays DEF ReceiveResult, Untouched
<1>2. CASE ValidContext(x)
    <2>1. down[c] # <<>> /\ down' = [down EXCEPT ![c] = Tail(@)] /\ UNCHANGED <<replied, held>>
        BY <1>2 DEF ReceiveResult, Untouched
    <2>2. PICK n \in Nat : /\ n = down[c][1].body.n /\ replied[n].msg \in ReplySet
                           /\ Head(down[c]) = Written(replied[n].msg, n)
        BY <2>1, FirstOnTheWay
    <2>3. UNCHANGED taken \/ taken' = [taken EXCEPT ![c] = Append(@, ReadAs(replied[n].msg, n))]
        <3> DEFINE m == Head(down[c])
                   r == LoadResult(m.body, x)
        <3>1. \/ UNCHANGED taken
              \/ m.body.kind = "result" /\ r.ok /\ taken' = [taken EXCEPT ![c] = Append(@, r.value)]
            BY <1>2 DEF ReceiveResult
        <3>2. m.body.kind = "result" /\ r.ok => r.value = ReadAs(replied[n].msg, n)
            BY <2>2, ResultRead
        <3> QED
            BY <3>1, <3>2
    <2>4. TakesFirst(c)
        BY <2>1, <2>2, <2>3 DEF TakesFirst
    <2> QED
        BY <2>4, TakesFirstInv
<1> QED
    BY <1>1, <1>2

LEMMA RouteInvNext ==
    ASSUME RouteInv, [ZmqNext]_zmqVars
    PROVE  RouteInv'
<1>1. CASE Bind \/ DisconnectRouter
    BY <1>1, HeldStays DEF Bind, DisconnectRouter, History
<1>2. ASSUME NEW c \in Clients, Connect(c) PROVE RouteInv'
    BY <1>2, HeldStays DEF Connect, History
<1>3. ASSUME NEW c \in Clients, Disconnect(c) PROVE RouteInv'
    BY <1>3, DisconnectInv
<1>4. ASSUME NEW c \in Clients, NEW msg \in Operations, SendOperation(c, msg) PROVE RouteInv'
    BY <1>4, HeldStays DEF SendOperation
<1>5. ASSUME NEW c \in Clients, NEW e, ReceiveResponse(c, e) PROVE RouteInv'
    BY <1>5, ReceiveResponseInv
<1>6. ASSUME NEW c \in Clients, NEW x, ReceiveResult(c, x) PROVE RouteInv'
    BY <1>6, ReceiveResultInv
<1>7. ASSUME NEW e, NEW x, ReceiveOperation(e, x) PROVE RouteInv'
    BY <1>7, ReceiveOperationInv
<1>8. ASSUME NEW h \in held, NEW msg \in Replies, Reply(h, msg) PROVE RouteInv'
    BY <1>8, ReplyInv
<1>9. CASE UNCHANGED zmqVars
    BY <1>9, HeldStays DEF zmqVars
<1> QED
    BY <1>1, <1>2, <1>3, <1>4, <1>5, <1>6, <1>7, <1>8, <1>9 DEF ZmqNext

LEMMA RouteInvAlways == ZmqSpec => []RouteInv
BY RouteInvInit, RouteInvNext, PTL DEF ZmqSpec

\* A reply reaches the receiver whose operation it answers and no other: the
\* routing id travels with the ZMQSenderOperation, whatever the sender serves
\* in between.
LEMMA RepliesReachAsker ==
    ZmqSpec => []AnswersReachAsker
<1>1. RouteInv => AnswersReachAsker
    BY DEF RouteInv, HasRead, IsReplyTo, AnswersReachAsker
<1> QED
    BY <1>1, RouteInvAlways, PTL

-----------------------------------------------------------------------------
(***************************************************************************)
(* The way up.  An operation carries the number it has among those of its  *)
(* client, on the wire and as long as it is held.                          *)
(***************************************************************************)
WireOperations == {Message(msg, v, n) : msg \in Operations, v \in Versions, n \in Nat}

OnTheWayUp(u, asks, v) ==
    /\ u \in Seq(WireOperations)
    /\ \A i \in DOMAIN u : LET n == u[i].body.n
                          IN  n \in DOMAIN asks /\ u[i] = Message(asks[n], v, n)

AskInv ==
    /\ version \in [Clients -> Versions]
    /\ asked \in [Clients -> Seq(Operations)] /\ up \in [Clients -> Seq(WireOperations)]
    /\ \A c \in Clients : OnTheWayUp(up[c], asked[c], version[c])
    /\ \A h \in held : h.asker \in Clients /\ h.n \in DOMAIN asked[h.asker]

LEMMA OperationNumbered ==
    ASSUME NEW msg \in Operations, NEW v, NEW n
    PROVE  LET u == Message(msg, v, n).body
           IN  /\ u.n = n /\ u.kind = "operation" /\ u.type = msg.type
               /\ "n" \in DOMAIN u /\ ~IsDamaged(u)
               /\ msg.type = "query" => u.relin_keys = msg.relin_keys /\ u.data = SavedParts(msg.data)
<1> DEFINE saved == SaveBody(msg)
<1>1. /\ msg.kind = "operation" /\ DOMAIN msg = OperationFields(msg.type)
      /\ msg.type \in {"parms", "oprf", "query"}
    BY TrafficAssumption DEF WellFormedOperation
<1>2. /\ DOMAIN saved = DOMAIN msg /\ saved.kind = msg.kind /\ saved.type = msg.type
      /\ msg.type = "query" => saved.relin_keys = msg.relin_keys /\ saved.data = SavedParts(msg.data)
    <2>1. CASE msg.type = "query"
        <3>1. saved = [msg EXCEPT !.data = SavedParts(@)]
            BY <1>1, <2>1 DEF SaveBody
        <3> QED
            BY <1>1, <2>1, <3>1 DEF OperationFields
    <2>2. CASE msg.type # "query"
        BY <1>1, <2>2 DEF SaveBody
    <2> QED
        BY <2>1, <2>2
<1> HIDE DEF saved
<1>3. Message(msg, v, n).body = With(saved, "n", n)
    BY DEF Message, saved
<1> QED
    BY <1>1, <1>2, <1>3 DEF With, IsDamaged, OperationFields

\* Loading keeps the number of the body.
LEMMA LoadKeepsNumber ==
    ASSUME NEW u, "n" \in DOMAIN u, NEW type, NEW context, LoadOperation(u, type, context).ok
    PROVE  LoadOperation(u, type, context).value.n = u.n
<1>1. CASE type = "query"
    <2>1. LoadOperation(u, type, context) = LoadQuery(u, context)
        BY <1>1 DEF LoadOperation
    <2> DEFINE parts == LoadQueryParts(u.data)
    <2>2. LoadQuery(u, context).ok => LoadQuery(u, context) = Ok([u EXCEPT !.data = parts.value])
        <3> HIDE DEF parts
        <3> QED
            BY DEF LoadQuery, Throws, parts
    <2> HIDE DEF parts
    <2>3. LoadQuery(u, context).value = [u EXCEPT !.data = parts.value]
        BY <2>1, <2>2 DEF Ok
    <2> QED
        BY <2>1, <2>3
<1>2. CASE type # "query"
    BY <1>2 DEF LoadOperation, LoadPlainOperation, Ok, Throws
<1> QED
    BY <1>1, <1>2

LEMMA AskInvInit == ZmqInit => AskInv
BY DEF ZmqInit, AskInv, OnTheWayUp

LEMMA OperationBehindOthers ==
    ASSUME NEW asks \in Seq(Operations), NEW msg \in Operations, NEW v \in Versions,
           NEW u, OnTheWayUp(u, asks, v), NEW m, m = Message(msg, v, Len(asks) + 1)
    PROVE  OnTheWayUp(Append(u, m), Append(asks, msg), v)
<1> DEFINE k == Len(asks) + 1
           asks2 == Append(asks, msg)
           u2 == Append(u, m)
<1>1. k \in Nat /\ m.body.n = k
    BY OperationNumbered
<1>2. m \in WireOperations
    BY <1>1 DEF WireOperations
<1>3. /\ u \in Seq(WireOperations) /\ u2 \in Seq(WireOperations) /\ Len(u) \in Nat
      /\ DOMAIN u = 1 .. Len(u) /\ DOMAIN u2 = 1 .. Len(u) + 1
      /\ u2[Len(u) + 1] = m /\ \A i \in DOMAIN u : u2[i] = u[i]
    BY <1>2 DEF OnTheWayUp
<1>4. k \in DOMAIN asks2 /\ asks2[k] = msg /\ \A n \in DOMAIN asks : n \in DOMAIN asks2 /\ asks2[n] = asks[n]
    OBVIOUS
<1>5. m = Message(asks2[k], v, k)
    BY <1>4
<1> HIDE DEF k, asks2, u2
<1>6. ASSUME NEW i \in DOMAIN u2
      PROVE  u2[i].body.n \in DOMAIN asks2 /\ u2[i] = Message(asks2[u2[i].body.n], v, u2[i].body.n)
    <2>1. CASE i \in DOMAIN u
        <3>1. u[i].body.n \in DOMAIN asks /\ u[i] = Message(asks[u[i].body.n], v, u[i].body.n)
            BY <2>1 DEF OnTheWayUp
        <3> QED
            BY <1>3, <1>4, <2>1, <3>1
    <2>2. CASE i = Len(u) + 1
        BY <1>1, <1>3, <1>4, <1>5, <2>2
    <2> QED
        BY <1>3, <2>1, <2>2
<1>7. OnTheWayUp(u2, asks2, v)
    BY <1>3, <1>6 DEF OnTheWayUp
<1> QED
    BY <1>7 DEF asks2, u2

LEMMA OperationTaken ==
    ASSUME NEW asks, NEW v, NEW u, u # <<>>, OnTheWayUp(u, asks, v)
    PROVE  /\ OnTheWayUp(Tail(u), asks, v)
           /\ LET n == Head(u).body.n IN n \in DOMAIN asks /\ Head(u) = Message(asks[n], v, n)
<1> DEFINE e == Tail(u)
<1>1. u \in Seq(WireOperations)
    BY DEF OnTheWayUp
<1>2. /\ 1 \in DOMAIN u /\ Head(u) = u[1] /\ e \in Seq(WireOperations)
      /\ \A i \in DOMAIN e : i + 1 \in DOMAIN u /\ e[i] = u[i + 1]
    BY <1>1, Taken
<1> HIDE DEF e
<1>3. OnTheWayUp(e, asks, v)
    BY <1>2 DEF OnTheWayUp
<1>4. LET n == u[1].body.n IN n \in DOMAIN asks /\ u[1] = Message(asks[n], v, n)
    BY <1>2 DEF OnTheWayUp
<1> QED
    BY <1>2, <1>3, <1>4 DEF e

LEMMA AskStays ==
    ASSUME AskInv, UNCHANGED <<version, asked, up, held>>
    PROVE  AskInv'
BY DEF AskInv

LEMMA SendOperationAsk ==
    ASSUME AskInv, NEW c \in Clients, NEW msg \in Operations,
           SendOperation(c, msg)
    PROVE  AskInv'
<1> DEFINE m == Message(msg, version[c], Len(asked[c]) + 1)
<1>1. /\ version[c] \in Versions /\ asked[c] \in Seq(Operations) /\ asked[c] \in Seq(Operations)
      /\ OnTheWayUp(up[c], asked[c], version[c])
    BY DEF AskInv
<1>2. OnTheWayUp(Append(up[c], m), Append(asked[c], msg), version[c])
    BY <1>1, OperationBehindOthers
<1>3. /\ asked' = [asked EXCEPT ![c] = Append(@, msg)] /\ UNCHANGED <<version, held>>
      /\ asked'[c] = Append(asked[c], msg) /\ Len(asked'[c]) = Len(asked[c]) + 1
    BY <1>1 DEF SendOperation, AskInv
<1>4. up' = [up EXCEPT ![c] = Append(@, m)]
    BY <1>3 DEF SendOperation
<1> HIDE DEF m
<1>5. Append(up[c], m) \in Seq(WireOperations) /\ Append(asked[c], msg) \in Seq(Operations)
    BY <1>1, <1>2 DEF OnTheWayUp
<1>6. asked' \in [Clients -> Seq(Operations)] /\ up' \in [Clients -> Seq(WireOperations)]
    BY <1>3, <1>4, <1>5 DEF AskInv
<1>7. ASSUME NEW x \in Clients
      PROVE  OnTheWayUp(up'[x], asked'[x], version'[x])
    <2>1. CASE x = c
        <3>1. up'[x] = Append(up[c], m)
            BY <1>4, <2>1 DEF AskInv
        <3> QED
            BY <1>2, <1>3, <2>1, <3>1
    <2>2. CASE x # c
        <3>1. up'[x] = up[x] /\ asked'[x] = asked[x]
            BY <1>3, <1>4, <2>2 DEF AskInv
        <3> QED
            BY <1>3, <3>1 DEF AskInv
    <2> QED
        BY <2>1, <2>2
<1>8. \A x \in Clients : \A n \in DOMAIN asked[x] : n \in DOMAIN asked'[x]
    BY <1>1, <1>3 DEF AskInv
<1> QED
    BY <1>3, <1>6, <1>7, <1>8 DEF AskInv

LEMMA ReceiveOperationAsk ==
    ASSUME AskInv, NEW e, NEW x, ReceiveOperation(e, x)
    PROVE  AskInv'
<1>1. CASE UNCHANGED <<up, held>>
    BY <1>1, AskStays DEF ReceiveOperation
<1>2. ASSUME NEW c \in Clients, up[c] # <<>>, up' = [up EXCEPT ![c] = Tail(@)],
             LET m == Head(up[c])
                 r == LoadOperation(m.body, m.header.type, x)
             IN  UNCHANGED held \/ (r.ok /\ held' = Hold(c, r.value))
      PROVE  AskInv'
    <2> DEFINE n == Head(up[c]).body.n
               m == Head(up[c])
               r == LoadOperation(m.body, m.header.type, x)
    <2>1. asked[c] \in Seq(Operations) /\ OnTheWayUp(up[c], asked[c], version[c])
        BY DEF AskInv
    <2>2. /\ OnTheWayUp(Tail(up[c]), asked[c], version[c])
          /\ n \in DOMAIN asked[c] /\ m = Message(asked[c][n], version[c], n)
        BY <1>2, <2>1, OperationTaken
    <2>3. asked[c][n] \in Operations
        BY <2>1, <2>2
    <2>4. r.ok => r.value.n = n
        <3> DEFINE u == m.body
                   type == m.header.type
        <3>1. u.n = n /\ "n" \in DOMAIN u
            BY <2>2, <2>3, OperationNumbered
        <3> HIDE DEF n, m, u, type
        <3>2. LoadOperation(u, type, x).ok => LoadOperation(u, type, x).value.n = u.n
            BY <3>1, LoadKeepsNumber
        <3> QED
            BY <3>1, <3>2 DEF u, type
    <2>5. UNCHANGED <<version, asked>>
        BY DEF ReceiveOperation
    <2>6. UNCHANGED held \/ (r.ok /\ held' = Hold(c, r.value))
        BY <1>2
    <2> HIDE DEF n, m, r
    <2>7. \A h \in held' : h.asker \in Clients /\ h.n \in DOMAIN asked[h.asker]
        BY <2>2, <2>4, <2>6 DEF AskInv, Hold
    <2>8. Tail(up[c]) \in Seq(WireOperations)
        BY <2>2 DEF OnTheWayUp
    <2>9. up' \in [Clients -> Seq(WireOperations)]
        BY <1>2, <2>8 DEF AskInv
    <2>10. ASSUME NEW y \in Clients
           PROVE  OnTheWayUp(up'[y], asked[y], version[y])
        <3>1. up'[y] = IF y = c THEN Tail(up[c]) ELSE up[y]
            BY <1>2 DEF AskInv
        <3> QED
            BY <2>2, <3>1 DEF AskInv
    <2> QED
        BY <2>5, <2>7, <2>9, <2>10 DEF AskInv
<1>3. \/ UNCHANGED <<up, held>>
      \/ \E c \in Clients :
            /\ up[c] # <<>> /\ up' = [up EXCEPT ![c] = Tail(@)]
            /\ LET m == Head(up[c])
                   r == LoadOperation(m.body, m.header.type, x)
               IN  UNCHANGED held \/ (r.ok /\ held' = Hold(c, r.value))
    <2>1. CASE ~ValidContext(x) /\ e \in {"unknown", "query"}
        BY <2>1 DEF ReceiveOperation
    <2>2. CASE ~(~ValidContext(x) /\ e \in {"unknown", "query"})
        <3>1. \/ UNCHANGED <<up, held>>
              \/ \E c \in Clients :
                    /\ up[c] # <<>> /\ up' = [up EXCEPT ![c] = Tail(@)]
                    /\ LET m == Head(up[c])
                           r == LoadOperation(m.body, m.header.type, x)
                       IN  IF HeaderFits(m.header, e) /\ r.ok
                           THEN held' = Hold(c, r.value)
                           ELSE UNCHANGED held
            BY <2>2, ZenonT(30) DEF ReceiveOperation
        <3> QED
            BY <3>1
    <2> QED
        BY <2>1, <2>2
<1> QED
    BY <1>1, <1>2, <1>3

LEMMA AskInvNext ==
    ASSUME AskInv, [ZmqNext]_zmqVars
    PROVE  AskInv'
<1>1. CASE Bind \/ DisconnectRouter
    BY <1>1, AskStays DEF Bind, DisconnectRouter, History
<1>2. ASSUME NEW c \in Clients, Connect(c) \/ Disconnect(c) PROVE AskInv'
    BY <1>2, AskStays DEF Connect, Disconnect, History
<1>3. ASSUME NEW c \in Clients, NEW msg \in Operations, SendOperation(c, msg) PROVE AskInv'
    BY <1>3, SendOperationAsk
<1>4. ASSUME NEW c \in Clients, NEW e, ReceiveResponse(c, e) PROVE AskInv'
    BY <1>4, AskStays DEF ReceiveResponse, Untouched
<1>5. ASSUME NEW c \in Clients, NEW x, ReceiveResult(c, x) PROVE AskInv'
    BY <1>5, AskStays DEF ReceiveResult, Untouched
<1>6. ASSUME NEW e, NEW x, ReceiveOperation(e, x) PROVE AskInv'
    BY <1>6, ReceiveOperationAsk
<1>7. ASSUME NEW h \in held, NEW msg \in Replies, Reply(h, msg) PROVE AskInv'
    BY <1>7, AskStays DEF Reply
<1>8. CASE UNCHANGED zmqVars
    BY <1>8, AskStays DEF zmqVars
<1> QED
    BY <1>1, <1>2, <1>3, <1>4, <1>5, <1>6, <1>7, <1>8 DEF ZmqNext

\* What arrives is what was sent, in order and none of it twice, and what the
\* sender holds was asked for, with any number of receivers.
LEMMA RepliesComeInOrder ==
    ZmqSpec => []ZmqInOrder
<1>1. RouteInv /\ AskInv => ZmqInOrder
    BY DEF RouteInv, HasRead, ReadAs, AskInv, ZmqInOrder
<1> QED
    BY <1>1, RouteInvInit, RouteInvNext, AskInvInit, AskInvNext, PTL DEF ZmqSpec
-----------------------------------------------------------------------------
(***************************************************************************)
(* What a call refuses it may refuse.                                      *)
(***************************************************************************)
LEMMA OperationLoads ==
    ASSUME NEW msg \in Operations, NEW n, NEW r,
           Acceptable(msg, r), ValidContext(r.context) \/ r.expected \notin {"unknown", "query"}
    PROVE  LET m == Message(msg, ThisVersion, n)
           IN  HeaderFits(m.header, r.expected) /\ LoadOperation(m.body, m.header.type, r.context).ok
<1> DEFINE m == Message(msg, ThisVersion, n)
           u == m.body
           x == r.context
<1>1. /\ msg.kind = "operation" /\ msg.type \in {"parms", "oprf", "query"}
      /\ r.expected \in {"unknown", msg.type} /\ MadeUnder(msg, x)
    BY TrafficAssumption DEF WellFormedOperation, Acceptable
<1>2. m.header.type = msg.type /\ m.header.version = ThisVersion
    BY <1>1 DEF Message, SaveHeader
<1>3. HeaderFits(m.header, r.expected)
    BY <1>1, <1>2 DEF HeaderFits
<1>4. /\ u.kind = "operation" /\ u.type = msg.type /\ ~IsDamaged(u)
      /\ msg.type = "query" => u.relin_keys = msg.relin_keys /\ u.data = SavedParts(msg.data)
    BY OperationNumbered
<1> HIDE DEF u
<1>5. CASE msg.type = "query"
    <2>1. ValidContext(x)
        BY <1>1, <1>5
    <2>2. /\ x \in Keyswitching => msg.relin_keys = x
          /\ \A e \in DOMAIN msg.data : \A k \in DOMAIN msg.data[e] : msg.data[e][k] = x
        BY <1>1, <1>5 DEF MadeUnder
    <2>3. \A p \in u.data : \E e \in DOMAIN msg.data : p = <<e, msg.data[e]>>
        BY <1>4, <1>5 DEF SavedParts
    <2>4. ~ \E p \in u.data : \E k \in DOMAIN p[2] : ~SealLoads(p[2][k], x)
        BY <2>2, <2>3 DEF SealLoads
    <2>5. ~ \E p, q \in u.data : p # q /\ p[1] = q[1]
        BY <2>3
    <2>6. LoadQueryParts(u.data).ok
        BY <2>5 DEF LoadQueryParts, Ok
    <2>7. ~ (x \in Keyswitching /\ ~SealLoads(u.relin_keys, x))
        BY <1>4, <1>5, <2>2 DEF SealLoads
    <2>8. LoadQuery(u, x).ok
        <3> DEFINE parts == LoadQueryParts(u.data)
        <3>1. LoadQuery(u, x) = IF parts.ok THEN Ok([u EXCEPT !.data = parts.value]) ELSE parts
            <4> HIDE DEF parts
            <4> QED
                BY <1>4, <1>5, <2>1, <2>4, <2>7 DEF LoadQuery, parts
        <3> QED
            BY <2>6, <3>1 DEF Ok
    <2> QED
        BY <1>2, <1>3, <1>5, <2>8 DEF LoadOperation, u
<1>6. CASE msg.type # "query"
    <2>1. LoadOperation(u, msg.type, x).ok
        BY <1>4, <1>6 DEF LoadOperation, LoadPlainOperation, Ok
    <2> QED
        BY <1>2, <1>3, <2>1 DEF u
<1> QED
    BY <1>5, <1>6

LEMMA WrittenFields ==
    ASSUME NEW msg \in ReplySet, NEW n \in Nat
    PROVE  LET u == Written(msg, n).body
           IN  ~IsDamaged(u) /\ \A f \in DOMAIN msg : u[f] = msg[f]
<1>1. "damaged" \notin DOMAIN msg /\ "n" \notin DOMAIN msg
    BY DEF ReplySet, Responses, Results
<1>2. LET u == With(msg, "n", n)
      IN  ~IsDamaged(u) /\ \A f \in DOMAIN msg : u[f] = msg[f]
    BY <1>1 DEF IsDamaged, With
<1>3. Written(msg, n).body = With(msg, "n", n)
    BY WrittenBody
<1> QED
    BY <1>2, <1>3

LEMMA ResponseLoads ==
    ASSUME NEW msg \in ReplySet, NEW n \in Nat, NEW r, r.fn = "response", Acceptable(msg, r)
    PROVE  LET m == Written(msg, n)
           IN  /\ m.body.kind # "result" /\ HeaderFits(m.header, r.expected)
               /\ LoadResponse(m.body, m.header.type).ok
<1> DEFINE m == Written(msg, n)
<1>1. msg.kind = "response" /\ msg \in Responses /\ r.expected \in {"unknown", msg.type}
    BY DEF Acceptable, ReplySet, Results
<1>2. m.header.type = msg.type /\ m.header.version = ThisVersion
    BY <1>1 DEF Written, Message, SaveHeader
<1>3. "type" \in DOMAIN msg /\ "kind" \in DOMAIN msg
    BY <1>1 DEF Responses
<1>4. m.body.kind = "response" /\ m.body.type = msg.type /\ ~IsDamaged(m.body)
    <2> HIDE DEF m
    <2>1. ~IsDamaged(m.body) /\ \A f \in DOMAIN msg : m.body[f] = msg[f]
        BY WrittenFields DEF m
    <2> QED
        BY <1>1, <1>3, <2>1
<1> HIDE DEF m
<1>5. LoadResponse(m.body, m.header.type).ok
    BY <1>2, <1>4 DEF LoadResponse, Ok
<1> QED
    BY <1>1, <1>2, <1>4, <1>5 DEF HeaderFits, m

LEMMA ResultLoads ==
    ASSUME NEW msg \in ReplySet, NEW n \in Nat, NEW r, r.fn = "result", Acceptable(msg, r),
           ValidContext(r.context)
    PROVE  LET m == Written(msg, n)
           IN  m.body.kind = "result" /\ LoadResult(m.body, r.context).ok
<1> DEFINE u == Written(msg, n).body
           x == r.context
<1>1. /\ msg.kind = "result" /\ msg \in Results
      /\ msg.psi_result = x /\ \A k \in DOMAIN msg.label_result : msg.label_result[k] = x
    BY DEF Acceptable, MadeUnder, ReplySet, Responses
<1>2. /\ {"kind", "psi_result", "label_byte_count", "nonce_byte_count", "label_result"} \subseteq DOMAIN msg
      /\ msg.label_byte_count \in 0 .. MaxLabelByteCount
      /\ msg.nonce_byte_count \in 0 .. max_nonce_byte_count
    BY <1>1 DEF Results
<1>3. /\ u.kind = "result" /\ u.psi_result = x /\ u.label_result = msg.label_result
      /\ u.label_byte_count = msg.label_byte_count /\ u.nonce_byte_count = msg.nonce_byte_count
    <2> HIDE DEF u, x
    <2>1. \A f \in DOMAIN msg : u[f] = msg[f]
        BY WrittenFields DEF u
    <2> QED
        BY <1>1, <1>2, <2>1
<1>4. ~IsDamaged(u)
    BY WrittenFields
<1> HIDE DEF u
<1>5. SealLoads(u.psi_result, x) /\ ~ \E k \in DOMAIN u.label_result : ~SealLoads(u.label_result[k], x)
    BY <1>1, <1>3 DEF SealLoads
<1>6. ~ (u.label_byte_count > MaxLabelByteCount) /\ ~ (u.nonce_byte_count > max_nonce_byte_count)
    BY <1>2, <1>3 DEF MaxLabelByteCount, max_nonce_byte_count
<1>7. LoadResult(u, x).ok
    <2> HIDE DEF x
    <2>1. ValidContext(x)
        BY DEF x
    <2> QED
        BY <1>3, <1>4, <1>5, <1>6, <2>1 DEF LoadResult, Ok, x
<1> QED
    BY <1>3, <1>7 DEF u

\* A refused message could not be taken.
RightlyRejected(r, asks, vs, rs) ==
    IF r.fn = "operation"
    THEN /\ r.client \in Clients /\ r.n \in DOMAIN asks[r.client]
         /\ ~Acceptable(asks[r.client][r.n], r) \/ vs[r.client] # ThisVersion
    ELSE r.n \in DOMAIN rs /\ ~Acceptable(rs[r.n].msg, r)

RejectedInv == \A r \in rejected : RightlyRejected(r, asked, version, replied)

LEMMA RejectedRemains ==
    ASSUME RejectedInv, UNCHANGED <<asked, version, replied, rejected>>
    PROVE  RejectedInv'
BY DEF RejectedInv

LEMMA SendOperationRejected ==
    ASSUME AskInv, RejectedInv, NEW c \in Clients, NEW msg \in Operations, SendOperation(c, msg)
    PROVE  RejectedInv'
<1>1. asked' = [asked EXCEPT ![c] = Append(@, msg)] /\ UNCHANGED <<version, replied, rejected>>
    BY DEF SendOperation
<1>2. \A x \in Clients : \A n \in DOMAIN asked[x] :
          n \in DOMAIN asked'[x] /\ asked'[x][n] = asked[x][n]
    <2>1. asked[c] \in Seq(Operations)
        BY DEF AskInv
    <2>2. \A n \in DOMAIN asked[c] :
              n \in DOMAIN Append(asked[c], msg) /\ Append(asked[c], msg)[n] = asked[c][n]
        BY <2>1
    <2> QED
        BY <1>1, <2>2 DEF AskInv
<1> QED
    BY <1>1, <1>2 DEF RejectedInv, RightlyRejected

LEMMA ReplyRejected ==
    ASSUME RouteInv, RejectedInv, NEW h \in held, NEW msg \in Replies, Reply(h, msg)
    PROVE  RejectedInv'
<1> DEFINE e == [asker |-> h.asker, msg |-> msg]
<1>1. replied \in Seq(Sent) /\ e \in Sent
    BY TrafficAssumption DEF RouteInv, WellFormedOperation, Sent, ReplySet
<1>2. replied' = Append(replied, e) /\ UNCHANGED <<asked, version, rejected>>
    BY DEF Reply
<1> HIDE DEF e
<1>3. \A n \in DOMAIN replied : n \in DOMAIN replied' /\ replied'[n] = replied[n]
    BY <1>1, <1>2
<1> QED
    BY <1>2, <1>3 DEF RejectedInv, RightlyRejected

LEMMA ReceiveOperationRejected ==
    ASSUME AskInv, RejectedInv, NEW e, NEW x, ReceiveOperation(e, x)
    PROVE  RejectedInv'
<1>0. UNCHANGED <<asked, version, replied>>
    BY DEF ReceiveOperation
<1>1. CASE UNCHANGED rejected
    BY <1>0, <1>1, RejectedRemains
<1>2. ASSUME NEW c \in Clients, up[c] # <<>>,
             LET m == Head(up[c])
                 r == LoadOperation(m.body, m.header.type, x)
             IN  ~ (HeaderFits(m.header, e) /\ r.ok) /\ Refuse("operation", c, m, e, x),
             ValidContext(x) \/ e \notin {"unknown", "query"}
      PROVE  RejectedInv'
    <2> DEFINE m == Head(up[c])
               n == m.body.n
               r == [fn |-> "operation", client |-> c, n |-> n, expected |-> e, context |-> x]
    <2>1. asked[c] \in Seq(Operations) /\ OnTheWayUp(up[c], asked[c], version[c])
        BY DEF AskInv
    <2>2. n \in DOMAIN asked[c] /\ m = Message(asked[c][n], version[c], n)
        BY <1>2, <2>1, OperationTaken
    <2>3. asked[c][n] \in Operations
        BY <2>1, <2>2
    <2>4. ~ (HeaderFits(m.header, e) /\ LoadOperation(m.body, m.header.type, x).ok)
        BY <1>2
    <2>5. rejected' = rejected \cup {r}
        BY <1>2 DEF Refuse
    <2>6. ASSUME Acceptable(asked[c][n], r), version[c] = ThisVersion
          PROVE  FALSE
        <3> HIDE DEF n
        <3>1. r.context = x /\ r.expected = e
            OBVIOUS
        <3> HIDE DEF r
        <3>2. /\ HeaderFits(Message(asked[c][n], ThisVersion, n).header, e)
              /\ LoadOperation(Message(asked[c][n], ThisVersion, n).body,
                               Message(asked[c][n], ThisVersion, n).header.type, x).ok
            BY <1>2, <2>3, <2>6, <3>1, OperationLoads
        <3> QED
            BY <2>2, <2>4, <2>6, <3>2
    <2>7. r.fn = "operation" /\ r.client = c /\ r.n = n
        OBVIOUS
    <2> HIDE DEF r, m, n
    <2>8. RightlyRejected(r, asked, version, replied)
        BY <2>2, <2>6, <2>7 DEF RightlyRejected
    <2> QED
        BY <1>0, <2>5, <2>8 DEF RejectedInv
<1>3. \/ UNCHANGED rejected
      \/ \E c \in Clients :
            /\ up[c] # <<>> /\ (ValidContext(x) \/ e \notin {"unknown", "query"})
            /\ LET m == Head(up[c])
                   r == LoadOperation(m.body, m.header.type, x)
               IN  ~ (HeaderFits(m.header, e) /\ r.ok) /\ Refuse("operation", c, m, e, x)
    <2>1. CASE ~ValidContext(x) /\ e \in {"unknown", "query"}
        BY <2>1 DEF ReceiveOperation
    <2>2. CASE ~(~ValidContext(x) /\ e \in {"unknown", "query"})
        <3>1. \/ UNCHANGED rejected
              \/ \E c \in Clients :
                    /\ up[c] # <<>>
                    /\ LET m == Head(up[c])
                           r == LoadOperation(m.body, m.header.type, x)
                       IN  IF HeaderFits(m.header, e) /\ r.ok
                           THEN UNCHANGED rejected
                           ELSE Refuse("operation", c, m, e, x)
            BY <2>2, ZenonT(30) DEF ReceiveOperation
        <3> QED
            BY <2>2, <3>1
    <2> QED
        BY <2>1, <2>2
<1> QED
    BY <1>1, <1>2, <1>3

\* What a receive call of receiver c refuses is the first message on the way.
LEMMA FirstRejected ==
    ASSUME RejectedInv, NEW c \in Clients, NEW fn, fn # "operation", NEW e, NEW x,
           UNCHANGED <<asked, version, replied>>, Refuse(fn, c, Head(down[c]), e, x),
           NEW n, Head(down[c]).body.n = n, n \in DOMAIN replied,
           LET r == [fn |-> fn, client |-> c, n |-> n, expected |-> e, context |-> x]
           IN  ~Acceptable(replied[n].msg, r)
    PROVE  RejectedInv'
<1> DEFINE r == [fn |-> fn, client |-> c, n |-> n, expected |-> e, context |-> x]
<1>1. rejected' = rejected \cup {r}
    BY DEF Refuse
<1>2. r.fn = fn /\ r.n = n
    OBVIOUS
<1> HIDE DEF r
<1>3. RightlyRejected(r, asked, version, replied)
    BY <1>2 DEF RightlyRejected, r
<1> QED
    BY <1>1, <1>3 DEF RejectedInv

LEMMA ReceiveResponseRejected ==
    ASSUME RouteInv, RejectedInv, NEW c \in Clients, NEW e, ReceiveResponse(c, e)
    PROVE  RejectedInv'
<1>1. down[c] # <<>> /\ UNCHANGED <<asked, version, replied>>
    BY DEF ReceiveResponse, Untouched
<1>2. PICK n \in Nat : /\ n = down[c][1].body.n /\ replied[n].msg \in ReplySet
                       /\ Head(down[c]) = Written(replied[n].msg, n)
    BY <1>1, FirstOnTheWay
<1>3. Head(down[c]).body.n = n /\ n \in DOMAIN replied
    BY <1>1, <1>2, NumberOnTheWay
<1> DEFINE m == Head(down[c])
           r == [fn |-> "response", client |-> c, n |-> n, expected |-> e, context |-> NoContext]
<1>4. \/ UNCHANGED rejected
      \/ /\ Refuse("response", c, m, e, NoContext)
         /\ ~ (m.body.kind # "result" /\ HeaderFits(m.header, e) /\ LoadResponse(m.body, m.header.type).ok)
    BY DEF ReceiveResponse
<1>5. CASE UNCHANGED rejected
    BY <1>1, <1>5, RejectedRemains
<1>6. CASE /\ Refuse("response", c, m, e, NoContext)
           /\ ~ (m.body.kind # "result" /\ HeaderFits(m.header, e) /\ LoadResponse(m.body, m.header.type).ok)
    <2>1. r.fn = "response" /\ r.expected = e
        OBVIOUS
    <2> HIDE DEF r
    <2>2. ~Acceptable(replied[n].msg, r)
        BY <1>2, <1>6, <2>1, ResponseLoads
    <2> QED
        BY <1>1, <1>3, <1>6, <2>2, FirstRejected DEF r
<1> QED
    BY <1>4, <1>5, <1>6

LEMMA ReceiveResultRejected ==
    ASSUME RouteInv, RejectedInv, NEW c \in Clients, NEW x, ReceiveResult(c, x)
    PROVE  RejectedInv'
<1>1. UNCHANGED <<asked, version, replied>>
    BY DEF ReceiveResult, Untouched
<1>2. CASE UNCHANGED rejected
    BY <1>1, <1>2, RejectedRemains
<1>3. CASE ~ UNCHANGED rejected
    <2>1. /\ ValidContext(x) /\ down[c] # <<>>
          /\ LET m == Head(down[c])
             IN  /\ Refuse("result", c, m, "unknown", x)
                 /\ ~ (m.body.kind = "result" /\ LoadResult(m.body, x).ok)
        BY <1>3 DEF ReceiveResult
    <2>2. PICK n \in Nat : /\ n = down[c][1].body.n /\ replied[n].msg \in ReplySet
                           /\ Head(down[c]) = Written(replied[n].msg, n)
        BY <2>1, FirstOnTheWay
    <2>3. Head(down[c]).body.n = n /\ n \in DOMAIN replied
        BY <2>1, <2>2, NumberOnTheWay
    <2> DEFINE r == [fn |-> "result", client |-> c, n |-> n, expected |-> "unknown", context |-> x]
    <2>4. r.fn = "result" /\ r.context = x
        OBVIOUS
    <2> HIDE DEF r
    <2>5. ~Acceptable(replied[n].msg, r)
        BY <2>1, <2>2, <2>4, ResultLoads
    <2> QED
        BY <1>1, <2>1, <2>3, <2>5, FirstRejected DEF r
<1> QED
    BY <1>2, <1>3

LEMMA RejectedInvNext ==
    ASSUME RouteInv, AskInv, RejectedInv, [ZmqNext]_zmqVars
    PROVE  RejectedInv'
<1>1. CASE Bind \/ DisconnectRouter
    BY <1>1, RejectedRemains DEF Bind, DisconnectRouter, History
<1>2. ASSUME NEW c \in Clients, Connect(c) \/ Disconnect(c) PROVE RejectedInv'
    BY <1>2, RejectedRemains DEF Connect, Disconnect, History
<1>3. ASSUME NEW c \in Clients, NEW msg \in Operations, SendOperation(c, msg) PROVE RejectedInv'
    BY <1>3, SendOperationRejected
<1>4. ASSUME NEW c \in Clients, NEW e, ReceiveResponse(c, e) PROVE RejectedInv'
    BY <1>4, ReceiveResponseRejected
<1>5. ASSUME NEW c \in Clients, NEW x, ReceiveResult(c, x) PROVE RejectedInv'
    BY <1>5, ReceiveResultRejected
<1>6. ASSUME NEW e, NEW x, ReceiveOperation(e, x) PROVE RejectedInv'
    BY <1>6, ReceiveOperationRejected
<1>7. ASSUME NEW h \in held, NEW msg \in Replies, Reply(h, msg) PROVE RejectedInv'
    BY <1>7, ReplyRejected
<1>8. CASE UNCHANGED zmqVars
    BY <1>8, RejectedRemains DEF zmqVars
<1> QED
    BY <1>1, <1>2, <1>3, <1>4, <1>5, <1>6, <1>7, <1>8 DEF ZmqNext

\* No message is lost to a call that may take it: between channels of the same
\* version, whatever loads under the caller's parameters and has the expected
\* type is returned.
LEMMA RepliesGoThrough ==
    ZmqSpec => []ZmqGoesThrough
<1>1. ZmqInit => RejectedInv
    BY DEF ZmqInit, RejectedInv
<1>2. RejectedInv => ZmqGoesThrough
    BY DEF RejectedInv, RightlyRejected, ZmqGoesThrough
<1> QED
    BY <1>1, <1>2, RouteInvInit, RouteInvNext, AskInvInit, AskInvNext, RejectedInvNext, PTL DEF ZmqSpec

-----------------------------------------------------------------------------
(***************************************************************************)
(* Both channels.  A behaviour of Wire is one of each of them; the one not *)
(* in use stays as it is.                                                  *)
(***************************************************************************)
LEMMA BothChannels == Spec => StreamSpec /\ ZmqSpec
<1>1. Init => StreamInit /\ ZmqInit
    BY DEF Init
<1>2. [Next]_vars => [StreamNext]_streamVars /\ [ZmqNext]_zmqVars
    BY DEF Next, vars
<1> QED
    BY <1>1, <1>2, PTL DEF Spec, StreamSpec, ZmqSpec

\* Over either kind of channel receive calls return the messages sent to them,
\* unchanged, in order and none of them twice (stream_channel.cpp and
\* zmq_channel.cpp, send and the receive functions).
THEOREM ChannelsKeepOrder == Spec => []InOrder
<1>1. StreamInOrder /\ ZmqInOrder => InOrder
    BY DEF InOrder
<1> QED
    BY <1>1, BothChannels, MessagesComeInOrder, RepliesComeInOrder, PTL

\* Over either kind of channel a receive call returns the message it finds if that
\* is one it may take: the right kind and type, made under the caller's parameters,
\* from a writer of the same serialization version that has not ended within it
\* (the receive functions of stream_channel.cpp and zmq_channel.cpp).
THEOREM ChannelsGoThrough == Spec => []GoesThrough
<1>1. StreamGoesThrough /\ ZmqGoesThrough => GoesThrough
    BY DEF GoesThrough
<1> QED
    BY <1>1, BothChannels, MessagesGoThrough, RepliesGoThrough, PTL

\* After a stream channel has rejected a header, one more receive call, which fails
\* at the body left behind, leaves the stream at the next message
\* (stream_channel.cpp, the early returns between header and body).
THEOREM StreamRealigns == Spec => Realigned
BY BothChannels, ChannelRealigns, PTL DEF Realigned

\* A receiver gets the replies to its own operations only, whichever other
\* receivers the sender serves meanwhile (zmq_channel.cpp, the client_id of a
\* ZMQSenderOperation).
THEOREM AskersAreAnswered == Spec => []AnswersReachAsker
BY BothChannels, RepliesReachAsker, PTL
=============================================================================
