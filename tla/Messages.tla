------------------------------ MODULE Messages ------------------------------
(***************************************************************************)
(* What receiver and sender tell each other and how it is serialized:      *)
(* operations, responses and result packages, each a FlatBuffer of its own *)
(* kind, the first two behind a header with version and type.              *)
(* (common/apsi/network: sender_operation, sender_operation_response,      *)
(* result_package, the .fbs schemas; seal_object.h.)                       *)
(*                                                                         *)
(* A SEAL object counts only by the parameters it was made under; a        *)
(* context is those parameters.  The other data of a message is its index  *)
(* n among those sent, which makes every message different.                *)
(***************************************************************************)
EXTENDS Naturals, Sequences

CONSTANTS Contexts,      \* valid SEALContexts
          Keyswitching,  \* those that use key switching
          NoContext,     \* a null pointer, or one without valid parameters
          ThisVersion,   \* apsi_serialization_version
          Operations, Replies,   \* what travels to the sender and back
          Callers,       \* contexts of the callers
          Versions,      \* serialization versions of those that write
          MaxReceives    \* bound: receive calls

ASSUME MessagesAssumption ==
    /\ Keyswitching \subseteq Contexts
    /\ NoContext \notin Contexts

ValidContext(context) == context \in Contexts

MaxLabelByteCount == 1024
max_nonce_byte_count == 16

ParmsRequest  == [kind |-> "operation", type |-> "parms"]
OPRFRequest   == [kind |-> "operation", type |-> "oprf"]
\* data: exponent -> the parameters of each of its ciphertexts
QueryRequest(relin, data) ==
    [kind |-> "operation", type |-> "query", relin_keys |-> relin, data |-> data]

ParmsResponse         == [kind |-> "response", type |-> "parms"]
OPRFResponse          == [kind |-> "response", type |-> "oprf"]
QueryResponse(count)  == [kind |-> "response", type |-> "query", package_count |-> count]

ResultPackage(psi, labelBytes, nonceBytes, labels) ==
    [kind |-> "result", psi_result |-> psi, label_byte_count |-> labelBytes,
     nonce_byte_count |-> nonceBytes, label_result |-> labels]

\* What each kind of message carries.
OperationFields(type) ==
    {"kind", "type"} \cup IF type = "query" THEN {"relin_keys", "data"} ELSE {}

WellFormedOperation(msg) ==
    /\ msg.kind = "operation" /\ msg.type \in {"parms", "oprf", "query"}
    /\ msg = [f \in OperationFields(msg.type) |-> msg[f]]
    /\ msg.type = "query" => msg.data = [e \in DOMAIN msg.data |-> msg.data[e]]

Responses ==
    [kind : {"response"}, type : {"parms", "oprf"}]
    \cup [kind : {"response"}, type : {"query"}, package_count : Nat]
Results ==
    [kind : {"result"}, psi_result : Contexts, label_byte_count : 0 .. MaxLabelByteCount,
     nonce_byte_count : 0 .. max_nonce_byte_count, label_result : Seq(Contexts)]

\* The messages have the fields the classes of the code have.
ASSUME TrafficAssumption ==
    /\ Replies \subseteq Responses \cup Results
    /\ \A msg \in Operations : WellFormedOperation(msg)
-----------------------------------------------------------------------------
Ok(value) == [ok |-> TRUE, value |-> value]
Throws(what) == [ok |-> FALSE, what |-> what]

SaveHeader(type, version) == [kind |-> "header", type |-> type, version |-> version]

\* A map is written as the list of its entries.
SavedParts(data) == {<<e, data[e]>> : e \in DOMAIN data}

SaveBody(msg) ==
    IF msg.kind = "operation" /\ msg.type = "query"
    THEN [msg EXCEPT !.data = SavedParts(@)]
    ELSE msg

\* A buffer with one more field, which is not part of its content.
With(u, field, value) ==
    [f \in DOMAIN u \cup {field} |-> IF f = field THEN value ELSE u[f]]

\* What zero bytes at the end of a buffer turn its last part into.
Damaged(u) == With(u, "damaged", TRUE)
IsDamaged(u) == "damaged" \in DOMAIN u
-----------------------------------------------------------------------------
(***************************************************************************)
(* Loading.  u is a buffer of any kind.  Those of different kinds do not   *)
(* verify as one another, except that a result package passes for a header *)
(* with a type that does not exist.                                        *)
(***************************************************************************)
LoadHeader(u) ==
    IF u.kind = "header" THEN Ok(u)
    ELSE IF u.kind = "result" THEN Ok(SaveHeader("invalid", u.n))
    ELSE Throws("runtime_error")

SealLoads(object, context) == object = context

LoadQueryParts(parts) ==
    IF \E p, q \in parts : p # q /\ p[1] = q[1] THEN Throws("runtime_error")
    ELSE Ok([e \in {p[1] : p \in parts} |-> (CHOOSE p \in parts : p[1] = e)[2]])

\* A damaged buffer yields objects that do not load, but data that does.
LoadQuery(u, context) ==
    IF ~ValidContext(context) THEN Throws("invalid_argument")
    ELSE IF \/ u.kind # "operation" \/ u.type # "query" \/ IsDamaged(u)
            \/ context \in Keyswitching /\ ~SealLoads(u.relin_keys, context)
            \/ \E p \in u.data : \E k \in DOMAIN p[2] : ~SealLoads(p[2][k], context)
         THEN Throws("runtime_error")
         ELSE LET r == LoadQueryParts(u.data)
              IN  IF r.ok THEN Ok([u EXCEPT !.data = r.value]) ELSE r

LoadPlainOperation(u, type, context) ==
    IF context # NoContext THEN Throws("invalid_argument")
    ELSE IF u.kind # "operation" \/ u.type # type THEN Throws("runtime_error")
    ELSE Ok(u)

\* Bug variant: every operation is loaded with the context of the receiver.
Bug_LoadOperation(u, type, context) ==
    IF type = "query" THEN LoadQuery(u, context) ELSE LoadPlainOperation(u, type, context)

LoadOperation(u, type, context) ==
    IF type = "query" THEN LoadQuery(u, context) ELSE LoadPlainOperation(u, type, NoContext)

\* The query powers stand last in a parameter response; zero is none, and the
\* constructor of PSIParams rejects it with another exception than the others.
LoadResponse(u, type) ==
    IF u.kind # "response" \/ u.type # type THEN Throws("runtime_error")
    ELSE IF type = "parms" /\ IsDamaged(u) THEN Throws("invalid_argument")
    ELSE Ok(u)

\* A nonce without a label is forgotten.
LoadResult(u, context) ==
    IF ~ValidContext(context) THEN Throws("invalid_argument")
    ELSE IF \/ u.kind # "result" \/ IsDamaged(u)
            \/ ~SealLoads(u.psi_result, context)
            \/ u.label_byte_count > MaxLabelByteCount
            \/ u.label_byte_count # 0 /\ u.nonce_byte_count > max_nonce_byte_count
            \/ \E k \in DOMAIN u.label_result : ~SealLoads(u.label_result[k], context)
         THEN Throws("runtime_error")
         ELSE Ok([u EXCEPT !.nonce_byte_count = IF u.label_byte_count = 0 THEN 0 ELSE @])
-----------------------------------------------------------------------------
\* What arrives when msg has been sent.
Delivered(msg) ==
    IF msg.kind = "result" /\ msg.label_byte_count = 0 THEN [msg EXCEPT !.nonce_byte_count = 0] ELSE msg

\* Whether message msg is one that a call may take: of the right kind and type,
\* and made under the parameters of the caller.
MadeUnder(msg, context) ==
    CASE msg.kind = "result" ->
           msg.psi_result = context /\ \A k \in DOMAIN msg.label_result : msg.label_result[k] = context
      [] msg.kind = "operation" /\ msg.type = "query" ->
           /\ context \in Keyswitching => msg.relin_keys = context
           /\ \A e \in DOMAIN msg.data : \A k \in DOMAIN msg.data[e] : msg.data[e][k] = context
      [] OTHER -> TRUE

Acceptable(msg, c) ==
    /\ c.fn = msg.kind
    /\ msg.kind # "result" => c.expected \in {"unknown", msg.type}
    /\ MadeUnder(msg, c.context)
=============================================================================
